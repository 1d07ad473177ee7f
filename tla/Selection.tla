------------------------------ MODULE Selection ------------------------------
(***************************************************************************)
(* Keeping some entries of a sequence: the WHERE clause of a query over    *)
(* the log, or the removal of keys from an ordered cache.  A recursive     *)
(* function, so that sequences of any length can be reasoned about.        *)
(***************************************************************************)
EXTENDS Integers, Sequences

Entries(history) == {history[i] : i \in DOMAIN history}

\* The entries of chosen, in the order of history.
Only(history, chosen) ==
  LET upTo[i \in 0..Len(history)] ==
        IF i = 0 THEN <<>>
        ELSE IF history[i] \in chosen THEN Append(upTo[i - 1], history[i]) ELSE upTo[i - 1]
  IN  upTo[Len(history)]
=============================================================================
