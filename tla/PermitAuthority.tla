--------------------------- MODULE PermitAuthority ---------------------------
(***************************************************************************)
(* What an action permit promises, without receipts rows, clocks or a log: *)
(* a token is granted at most once and spent at most once, an exclusive    *)
(* approval grants at most one token, and a token is spent only in a       *)
(* moment at which everything it was granted on holds.                     *)
(***************************************************************************)
CONSTANTS Tokens, Approvals, None

VARIABLES
  phase,      \* of each token: "none", "granted", "spent" or "withdrawn"
  under,      \* the approval each token was granted under, or None
  exclusive,  \* approvals that may grant one token only
  sound       \* tokens whose premises hold now

vars == <<phase, under, exclusive, sound>>

Granted(a) == {t \in Tokens : phase[t] # "none" /\ under[t] = a}

Init ==
  /\ phase = [t \in Tokens |-> "none"]
  /\ under = [t \in Tokens |-> None]
  /\ exclusive = {}
  /\ sound = {}

Grant(t, a) ==
  /\ phase[t] = "none"
  /\ a \in exclusive => Granted(a) = {}
  /\ phase' = [phase EXCEPT ![t] = "granted"]
  /\ under' = [under EXCEPT ![t] = a]
  /\ UNCHANGED exclusive

Spend(t) ==
  /\ phase[t] = "granted"
  /\ t \in sound
  /\ phase' = [phase EXCEPT ![t] = "spent"]
  /\ UNCHANGED <<under, exclusive, sound>>

\* Permits are withdrawn together: by expiry, or by revocation.
Withdraw(ts) ==
  /\ \A t \in ts : phase[t] = "granted"
  /\ phase' = [t \in Tokens |-> IF t \in ts THEN "withdrawn" ELSE phase[t]]
  /\ UNCHANGED <<under, exclusive>>

\* The world moves: premises come and go, and approvals are recorded.
World ==
  /\ exclusive \subseteq exclusive'
  /\ \A a \in exclusive' \ exclusive : Granted(a) = {}
  /\ UNCHANGED <<phase, under>>

Next ==
  \/ \E t \in Tokens, a \in Approvals \cup {None} : Grant(t, a)
  \/ \E t \in Tokens : Spend(t)
  \/ \E ts \in SUBSET Tokens : Withdraw(ts)
  \/ World

Spec == Init /\ [][Next]_vars
=============================================================================
