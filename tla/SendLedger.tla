----------------------------- MODULE SendLedger -----------------------------
(***************************************************************************)
(* What dispatch promises, without tables, dispatchers or crashes: an      *)
(* attempt at an action is opened only against an authorisation that no    *)
(* earlier attempt used, and an opened attempt calls the provider at most  *)
(* once.  A lost answer is therefore never repaired by sending again.      *)
(***************************************************************************)
EXTENDS Naturals

CONSTANTS Action, AttemptNo

VARIABLES
  authorised,  \* decisions to send, per action
  begun,       \* attempts opened, per action
  called       \* provider calls, per action and attempt

ledgerVars == <<authorised, begun, called>>

Init ==
  /\ authorised = [a \in Action |-> 0]
  /\ begun = [a \in Action |-> 0]
  /\ called = [a \in Action |-> [n \in AttemptNo |-> 0]]

Authorise(a) ==
  /\ authorised' = [authorised EXCEPT ![a] = @ + 1]
  /\ UNCHANGED <<begun, called>>

Begin(a) ==
  /\ begun[a] < authorised[a]
  /\ begun' = [begun EXCEPT ![a] = @ + 1]
  /\ UNCHANGED <<authorised, called>>

Call(a, n) ==
  /\ n <= begun[a] /\ called[a][n] = 0
  /\ called' = [called EXCEPT ![a][n] = 1]
  /\ UNCHANGED <<authorised, begun>>

Next ==
  \E a \in Action :
    Authorise(a) \/ Begin(a) \/ \E n \in AttemptNo : Call(a, n)

Spec == Init /\ [][Next]_ledgerVars
=============================================================================
