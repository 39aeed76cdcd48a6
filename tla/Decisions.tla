----------------------------- MODULE Decisions -----------------------------
(* What an approval promises: it is requested, then settled once and for     *)
(* all, and the settlement that grants a reply creates exactly one.  One     *)
(* step settles at most one approval by a decision; others may lapse with it. *)
EXTENDS Naturals

CONSTANT Approval
VARIABLES verdict,  \* none, pending, approved, rejected or expired
          granted   \* replies created on the authority of each approval
vars == <<verdict, granted>>

Init ==
  /\ verdict = [p \in Approval |-> "none"]
  /\ granted = [p \in Approval |-> 0]

Becomes(p, v, n) == verdict'[p] = v /\ granted'[p] = n

Same(p) == Becomes(p, verdict[p], granted[p])
Request(p) == verdict[p] = "none" /\ Becomes(p, "pending", granted[p])
Grant(p) == verdict[p] \in {"none", "pending"} /\ granted[p] = 0
            /\ Becomes(p, "approved", 1)
Refuse(p) == verdict[p] = "pending" /\ Becomes(p, "rejected", granted[p])
Lapse(p) == verdict[p] = "pending" /\ Becomes(p, "expired", granted[p])

Next ==
  /\ \E p \in Approval :
       /\ Request(p) \/ Grant(p) \/ Refuse(p) \/ Lapse(p)
       /\ \A q \in Approval \ {p} : Same(q) \/ Lapse(q)

Spec == Init /\ [][Next]_vars
=============================================================================
