-------------------------- MODULE ApprovalsClaims --------------------------
(* A statement the repository makes about tasks that its code does not keep  *)
(* in every interleaving; the run that checks it is expected to fail.        *)
EXTENDS Approvals

\* docs/specs/feishu-shadow-agent-mvp-design.md:809: a closed task comes back
\* only through reopen_task; a test keeps tasks the owner controls out of that
\* too.  Here: what the owner took over or closed, only the operator reopens.
OwnerControlKept ==
  [][db.task \in {"closed_by_owner", "human_taken_over"} /\ db'.task = "watching"
     => \E k \in Client : client[k].pc = "reopen"]_vars
=============================================================================
