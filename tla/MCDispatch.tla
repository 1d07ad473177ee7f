----------------------------- MODULE MCDispatch -----------------------------
(* Model values for Dispatch. *)
EXTENDS Dispatch, TLC

Symmetry == Permutations(Tokens) \cup Permutations(Schemas)
=============================================================================
