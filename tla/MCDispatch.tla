----------------------------- MODULE MCDispatch -----------------------------
(* Small instances of Dispatch for TLC. *)
EXTENDS Dispatch, TLC

Symmetry == Permutations(Action) \cup Permutations(Dispatcher)
            \cup Permutations(Operator) \cup Permutations(Text)
=============================================================================
