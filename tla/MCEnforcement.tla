---------------------------- MODULE MCEnforcement ----------------------------
(* Model values for Enforcement: tokens and receipts are interchangeable. *)
EXTENDS Enforcement, TLC

Symmetry == Permutations(Tokens) \cup Permutations(Receipts) \cup Permutations(Actions)
=============================================================================
