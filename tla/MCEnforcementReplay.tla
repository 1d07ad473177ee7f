------------------------- MODULE MCEnforcementReplay -------------------------
(* Model values for EnforcementReplay: every kind of identifier is          *)
(* interchangeable with the others of its kind.                             *)
EXTENDS EnforcementReplay, TLC

Symmetry == Permutations(Tokens) \cup Permutations(Receipts) \cup Permutations(Episodes)
=============================================================================
