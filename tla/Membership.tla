------------------------------ MODULE Membership ------------------------------
(***************************************************************************)
(* Whether the bot is in a chat: facts observed by probes and by refused   *)
(* bot commands, kept as checkpoints that expire, layered over the owner's *)
(* policy, and announced to the owner once per absence and per recovery.   *)
(* The identity a reply is sent under follows policy and fact when it is   *)
(* drafted and the fact again when it is sent.                             *)
(*                                                                         *)
(* One daemon observes, in the order of its tick; owners change policies   *)
(* and the platform changes memberships at any time.                       *)
(***************************************************************************)
EXTENDS Policy, Integers, SequencesExt

CONSTANTS
  NoFact, NoNotice,
  MaxEpisode,   \* bound on the absences of a chat
  MaxFault      \* bound on crashes

VARIABLES
  member,    \* [Chat -> BOOLEAN]: the platform's truth
  fact,      \* [Chat -> Fact or NoFact]: the checkpoint of the last observation
  saving,    \* the notice of an observation whose fact is stored already
  told,      \* [Chat -> Seq({"absent", "recovered"})]: owner notices created
  lost,      \* chats one of whose notices a crash swallowed
  reply,     \* [Chat -> the identity of the drafted reply, or "none"]
  crashes

memberVars == <<member, fact, saving, told, lost, reply, crashes>>
allMemberVars == <<policyVars, memberVars>>

Status == {"present", "absent", "unknown"}
Fact == [status: Status, fresh: BOOLEAN,
         confirmed: {"present", "absent", "never"}, episode: 0..MaxEpisode]
Notice == [chat: Chat, kind: {"absent", "recovered"}]

ASSUME MembershipAssumption ==
  MaxEpisode \in Nat /\ NoFact \notin Fact /\ NoNotice \notin Notice

Confirmed(c) == IF fact[c] = NoFact THEN "never" ELSE fact[c].confirmed
Episode(c) == IF fact[c] = NoFact THEN 0 ELSE fact[c].episode

(* effective_membership_status: an expired fact is no fact. *)
Observed(c) == IF fact[c] = NoFact THEN "unobserved"
               ELSE IF fact[c].fresh THEN fact[c].status ELSE "unknown"

(* Variant: a failed probe makes the next absence a new one. *)
ObservedBefore(c) == IF fact[c] = NoFact THEN "never" ELSE fact[c].status

(* The last observation that was not a failed probe. *)
LastConfirmed(c) == Confirmed(c)

MemberInit ==
  /\ member \in [Chat -> BOOLEAN]
  /\ fact = [c \in Chat |-> NoFact] /\ saving = NoNotice
  /\ told = [c \in Chat |-> <<>>] /\ lost = {}
  /\ reply = [c \in Chat |-> "none"] /\ crashes = MaxFault

------------------------------------------------------------------------------
(* _record_observation stores the fact, then creates the notice. *)
Observe(c, status) ==
  LET before == LastConfirmed(c)
      again == status = "absent" /\ before # "absent"
      back == status = "present" /\ before = "absent"
  IN /\ saving = NoNotice
     /\ again => Episode(c) < MaxEpisode
     /\ fact' = [fact EXCEPT ![c] =
          [status |-> status, fresh |-> TRUE,
           confirmed |-> IF status = "unknown" THEN before ELSE status,
           episode |-> IF again THEN Episode(c) + 1 ELSE Episode(c)]]
     /\ saving' = IF again THEN [chat |-> c, kind |-> "absent"]
                  ELSE IF back THEN [chat |-> c, kind |-> "recovered"]
                  ELSE NoNotice

Notify ==
  /\ saving # NoNotice
  /\ told' = [told EXCEPT ![saving.chat] = Append(@, saving.kind)]
  /\ saving' = NoNotice
  /\ UNCHANGED <<member, fact, lost, reply, crashes>>

(* refresh: a chat without a current fact is probed; a listing tells the   *)
(* truth, and a failed one, or no bot identity, tells nothing.             *)
Probe(c) ==
  /\ c \in Group
  /\ fact[c] # NoFact => ~fact[c].fresh
  /\ \E status \in {"unknown", IF member[c] THEN "present" ELSE "absent"} :
       Observe(c, status)
  /\ UNCHANGED <<member, told, lost, reply, crashes>>

(* A bot command is refused with the code that says the bot is not there.  *)
Refused(c) ==
  /\ c \in Group /\ ~member[c]
  /\ Observe(c, "absent")

(* next_probe_at passes. *)
Expire(c) ==
  /\ fact[c] # NoFact /\ fact[c].fresh
  /\ fact' = [fact EXCEPT ![c].fresh = FALSE]
  /\ UNCHANGED <<member, saving, told, lost, reply, crashes>>

(* Somebody adds the bot to the chat, or removes it. *)
Move(c) ==
  /\ c \in Group
  /\ member' = [member EXCEPT ![c] = ~@]
  /\ UNCHANGED <<fact, saving, told, lost, reply, crashes>>

------------------------------------------------------------------------------
(* The reply gate of a session whose agent answered. *)
Draft(c, fit, direct) ==
  /\ saving = NoNotice /\ Initialized /\ reply[c] = "none"
  /\ LET verdict == ReplyVerdict(c, Observed(c), fit, direct) IN
       reply' = [reply EXCEPT ![c] = IF verdict = "owner" THEN "none" ELSE verdict]
  /\ UNCHANGED <<member, fact, saving, told, lost, crashes>>

(* _call_send: a bot reply looks at the fact, and at the policy, once more. *)
SendAs(c) ==
  IF reply[c] = "bot" /\ Observed(c) = "absent"
  THEN IF /\ Resolved(c, "absent").identity = "bot_preferred"
          /\ Resolved(c, "absent").fallback
       THEN "user" ELSE "blocked"
  ELSE reply[c]

Dispatch(c) ==
  /\ saving = NoNotice /\ Initialized /\ reply[c] # "none"
  /\ reply' = [reply EXCEPT ![c] = "none"]
  /\ IF SendAs(c) = "bot" /\ c \in Group /\ ~member[c]
     THEN Refused(c)
     ELSE UNCHANGED <<fact, saving>>
  /\ UNCHANGED <<member, told, lost, crashes>>

(* The daemon dies between the fact and its notice. *)
CrashBeforeNotice ==
  /\ saving # NoNotice /\ crashes > 0
  /\ crashes' = crashes - 1
  /\ lost' = lost \cup {saving.chat} /\ saving' = NoNotice
  /\ UNCHANGED <<member, fact, told, reply>>

MemberNext ==
  \/ Notify \/ CrashBeforeNotice
  \/ \E c \in Chat : Probe(c) \/ Expire(c) \/ Move(c) \/ Dispatch(c)
                     \/ \E fit, direct \in BOOLEAN : Draft(c, fit, direct)

(***************************************************************************)
(* Absences and recoveries are announced in turn, and the last notice says *)
(* what was last confirmed: failed probes in between neither repeat nor    *)
(* swallow a notice.  (A notice lost in a crash is never made up for.)     *)
(***************************************************************************)
NoticesAlternate ==
  \A c \in Chat \ lost :
    /\ \A i \in 1..Len(told[c]) :
         told[c][i] = IF i % 2 = 1 THEN "absent" ELSE "recovered"
    /\ saving = NoNotice =>
         (LastConfirmed(c) = "absent" <=> Len(told[c]) % 2 = 1)

(***************************************************************************)
(* Only owners make policy: whatever is observed, each row is what the     *)
(* last audit of it says.                                                  *)
(***************************************************************************)
PolicyIsAudited == \A key \in Keys : AuditOf(key) = audited[key]
=============================================================================
