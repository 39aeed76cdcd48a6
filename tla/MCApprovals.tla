---------------------------- MODULE MCApprovals ----------------------------
(* Small instances of Approvals for TLC. *)
EXTENDS ApprovalsClaims, TLC

Symmetry == Permutations(Approval) \cup Permutations(Reply)
            \cup Permutations(Command) \cup Permutations(Client)

Say(verb, targets, outcomes, texts) ==
  [verb : {verb}, target : targets, outcome : outcomes, text : texts]

Approves == Say("approve", Approval, {"default"}, {NoText})
Sends == Say("send", {Task}, {"default"}, Text)

TaskRequests == Say("approve", {Task}, {"default"}, {NoText})
RaceRequests == Approves \cup Say("reject", Approval, {"keep"}, {NoText})
AnswerRequests == Say("reject", {Task} \cup Approval, {"default", "end"}, {NoText})
=============================================================================
