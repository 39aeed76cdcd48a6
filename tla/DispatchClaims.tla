--------------------------- MODULE DispatchClaims ---------------------------
(***************************************************************************)
(* A statement the repository makes about dispatch that its code does not  *)
(* keep in every interleaving; the run that checks it is expected to fail.  *)
(***************************************************************************)
EXTENDS Dispatch

\* docs/plans/p7-dispatch-recovery.md:157,160: retry is only allowed for failed
\* or failed_needs_review; an action that was sent is never queued again.
SentNotRetried ==
  [][\A a \in Action : row[a].status = "sent" => row'[a].status # "pending"]_vars
=============================================================================
