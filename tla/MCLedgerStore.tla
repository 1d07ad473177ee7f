---------------------------- MODULE MCLedgerStore ----------------------------
(* Model values for LedgerStore. *)
EXTENDS LedgerStore, TLC

Symmetry == Permutations(Callers) \cup Permutations(Episodes) \cup Permutations(Prints)
=============================================================================
