------------------------- MODULE MCAuthorizationFlow -------------------------
(* Model values for AuthorizationFlow. *)
EXTENDS AuthorizationFlow, TLC

Symmetry == Permutations(Tokens) \cup Permutations(Callers)
=============================================================================
