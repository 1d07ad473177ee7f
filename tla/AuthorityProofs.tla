--------------------------- MODULE AuthorityProofs ---------------------------
(***************************************************************************)
(* Enforcement implements PermitAuthority, and no permit outlives the      *)
(* withdrawal of its approval: for any number of receipts, tokens,         *)
(* episodes and beliefs and for any bounds.                                *)
(***************************************************************************)
EXTENDS EnforcementProofs

-----------------------------------------------------------------------------
(* The refinement.  GrantInv is what it needs of reachable states.         *)

\* The names of the mapping, for the proofs.
Phase == [t \in Tokens |-> PhaseOf(decisions[t].state)]
Under == [t \in Tokens |-> IF decisions[t].state = "absent" THEN None
                           ELSE decisions[t].binding.receipt]
Exclusive == {r \in Receipts : SingleUse(r)}
SoundTokens == {t \in Tokens : Sound(t)}

\* The abstract phases keep the row states apart as far as they need to.
LEMMA Phases ==
  /\ PhaseOf("absent") = "none" /\ PhaseOf("issued") = "granted"
  /\ PhaseOf("consumed") = "spent"
  /\ PhaseOf("expired") = "withdrawn" /\ PhaseOf("revoked") = "withdrawn"
  /\ \A state \in RowStates : PhaseOf(state) = "none" <=> state = "absent"
BY DEF PhaseOf, RowStates

\* A step that leaves the permits alone and only adds approvals is a step of the
\* world, provided a new approval has granted nothing yet.
LEMMA WorldStep ==
  ASSUME TypeOK, ReceiptsSpent, UNCHANGED decisions,
         \A r \in Receipts : receipts[r].state # "absent" =>
            receipts'[r].state # "absent" /\ receipts'[r].binding = receipts[r].binding
  PROVE  Authority!World
<1>1. UNCHANGED <<Phase, Under>>
  BY DEF Phase, Under
<1>2. Exclusive \subseteq Exclusive'
  BY DEF Exclusive, SingleUse
<1>3. ASSUME NEW a \in Exclusive' \ Exclusive, NEW t \in Tokens, Phase[t] # "none"
      PROVE  Under[t] # a
  <2>1. decisions[t].state # "absent"
    BY <1>3, Phases DEF Phase
  <2>2. receipts[a].state = "absent" /\ a \in Receipts
    BY <1>3 DEF Exclusive, SingleUse
  <2> QED BY <2>1, <2>2, NoneAssumption DEF Under, ReceiptsSpent
<1>4. \A a \in Exclusive' \ Exclusive : Authority!Granted(a) = {}
  BY <1>3 DEF Authority!Granted, Phase, Under
<1> QED BY <1>1, <1>2, <1>4 DEF Authority!World, Phase, Under, Exclusive

\* A step that withdraws permits and touches receipts in nothing but their state.
LEMMA WithdrawStep ==
  ASSUME TypeOK, NEW affected \in SUBSET Tokens, NEW state \in {"expired", "revoked"},
         \A t \in affected : decisions[t].state = "issued",
         decisions' = [t \in Tokens |-> IF t \in affected THEN [decisions[t] EXCEPT !.state = state]
                                        ELSE decisions[t]],
         UNCHANGED receipts
  PROVE  Authority!Withdraw(affected)
<1>1. \A t \in affected : /\ decisions'[t].state = state
                          /\ decisions'[t].binding = decisions[t].binding
  BY DEF TypeOK, Row, AbsentRow
<1>2. \A t \in Tokens \ affected : decisions'[t] = decisions[t]
  OBVIOUS
<1>3. \A t \in affected : Phase[t] = "granted"
  BY Phases DEF Phase
<1>4. Phase' = [t \in Tokens |-> IF t \in affected THEN "withdrawn" ELSE Phase[t]]
  BY <1>1, <1>2, Phases DEF Phase
<1>5. UNCHANGED Under
  BY <1>1, <1>2 DEF Under
<1>6. UNCHANGED Exclusive
  BY DEF Exclusive, SingleUse
<1> QED BY <1>3, <1>4, <1>5, <1>6 DEF Authority!Withdraw, Phase, Under, Exclusive

\* The same for one permit, in the form in which consume_action writes it.
LEMMA WithdrawOneStep ==
  ASSUME TypeOK, NEW t \in Tokens, NEW state \in {"expired", "revoked"},
         decisions[t].state = "issued", SetDecision(t, state), UNCHANGED receipts
  PROVE  Authority!Next
<1>1. decisions' = [u \in Tokens |-> IF u \in {t} THEN [decisions[u] EXCEPT !.state = state]
                                     ELSE decisions[u]]
  BY DEF SetDecision, TypeOK
<1>2. Authority!Withdraw({t})
  BY <1>1, WithdrawStep
<1> QED BY <1>2 DEF Authority!Next

LEMMA ApprovalsImplement == ASSUME GrantInv, Approvals PROVE Authority!World
<1>1. TypeOK /\ ReceiptsSpent /\ UNCHANGED decisions
  BY DEF GrantInv, Approvals, IssueApproval, DenyApproval, RevokeApproval
<1>2. Calm
  BY <1>1, ApprovalsCalm
<1> QED BY <1>1, <1>2, WorldStep DEF Calm

\* Granting.  The receipt of a permit is issued when the permit is, so by
\* ReceiptsSpent an exclusive one has granted nothing before.
LEMMA IssueImplements ==
  ASSUME GrantInv, NEW t \in Tokens, NEW b \in ActionBindings, NEW ttl \in ActionTtls,
         NEW now \in ReadBeforeLock, IssueAction(t, b, ttl, now)
  PROVE  Authority!Next
<1>0. TypeOK /\ ReceiptsSpent /\ decisions[t].state = "absent"
  BY DEF IssueAction, FreshToken, GrantInv
<1>1. CASE IssuePermit(t, b, ttl, now)
  <2> DEFINE a == b.receipt
  <2>1. a \in Receipts \cup {None} /\ (a # None => receipts[a].state = "issued")
    BY <1>1 DEF IssuePermit, ApprovalClear, ApprovalUsable, AtIssue, ActionBindings
  <2>2. /\ decisions'[t].state = "issued" /\ decisions'[t].binding = b
        /\ \A u \in Tokens \ {t} : decisions'[u] = decisions[u]
    BY <1>0, <1>1 DEF IssuePermit, IssuedRow, TypeOK
  <2>3. \A r \in Receipts : /\ receipts'[r].binding = receipts[r].binding
                            /\ receipts'[r].state = "absent" <=> receipts[r].state = "absent"
    BY <1>0, <1>1, <2>1 DEF IssuePermit, SpendsReceipt, TypeOK, Row, AbsentRow
  <2>4. Phase[t] = "none"
    BY <1>0, Phases DEF Phase
  <2>5. Phase' = [Phase EXCEPT ![t] = "granted"]
    BY <2>2, Phases DEF Phase
  <2>6. Under' = [Under EXCEPT ![t] = a]
    BY <2>2 DEF Under
  <2>7. UNCHANGED Exclusive
    BY <2>3 DEF Exclusive, SingleUse
  <2>8. ASSUME a \in Exclusive, NEW u \in Tokens, Phase[u] # "none" PROVE Under[u] # a
    <3>1. decisions[u].state # "absent"
      BY <2>8, Phases DEF Phase
    <3>2. a # None /\ receipts[a].binding.scope \in SpentAtIssue
      BY <2>8, NoneAssumption DEF Exclusive, SingleUse
    <3> QED BY <1>0, <2>1, <3>1, <3>2 DEF Under, ReceiptsSpent
  <2>9. Authority!Grant(t, a)
    BY <2>4, <2>5, <2>6, <2>7, <2>8
       DEF Authority!Grant, Authority!Granted, Phase, Under, Exclusive
  <2> QED BY <2>1, <2>9 DEF Authority!Next
<1>2. CASE RejectIssue(t, b)
  <2>1. Authority!World
    BY <1>0, <1>2, WorldStep DEF RejectIssue
  <2> QED BY <2>1 DEF Authority!Next
<1>3. CASE RejectIssueExpired(t, b)
  <2>1. b.receipt \in Receipts
    BY <1>0, <1>3, UsableExists DEF RejectIssueExpired, ApprovalExpired, AtIssue
  <2>2. Calm /\ UNCHANGED decisions
    BY <1>0, <1>3, <2>1, ExpireCalm DEF RejectIssueExpired
  <2>3. Authority!World
    BY <1>0, <2>2, WorldStep DEF Calm
  <2> QED BY <2>3 DEF Authority!Next
<1> QED BY <1>1, <1>2, <1>3 DEF IssueAction

\* Spending.  consume_action has just checked what Sound says, and the step changes
\* none of it.
LEMMA ConsumeImplements ==
  ASSUME GrantInv, NEW t \in Tokens, NEW presented \in ActionBindings, ConsumeAction(t, presented)
  PROVE  Authority!Next
<1>0. TypeOK /\ ReceiptsSpent
  BY DEF GrantInv
<1>1. CASE UNCHANGED <<receipts, decisions>>
  BY <1>0, <1>1, WorldStep DEF Authority!Next
<1>2. CASE ExpirePermit(t)
  BY <1>0, <1>2, WithdrawOneStep DEF ExpirePermit
<1>3. CASE ConsumeMatching(t, presented)
  <2> DEFINE b == decisions[t].binding
  <2>0. decisions[t].state = "issued" /\ clock < decisions[t].expires /\ b \in ActionBindings
    BY <1>3 DEF ConsumeMatching, Presentable
  <2>1. CASE RejectUnapproved(t)
    BY <1>1, <2>1 DEF RejectUnapproved
  <2>2. CASE RejectExpiredApproval(t)
    <3>1. b.receipt \in Receipts
      BY <1>0, <2>0, <2>2, UsableExists DEF RejectExpiredApproval, ApprovalExpired, AtConsumption
    <3>2. Calm /\ UNCHANGED decisions
      BY <1>0, <2>2, <3>1, ExpireCalm DEF RejectExpiredApproval
    <3> QED BY <1>0, <3>2, WorldStep DEF Calm, Authority!Next
  <2>3. CASE RevokeOnPremises(t)
    BY <1>0, <2>0, <2>3, WithdrawOneStep DEF RevokeOnPremises
  <2>4. CASE ConsumePermit(t)
    <3>1. Sound(t)
      BY <2>0, <2>4
         DEF ConsumePermit, Sound, ApprovalClear, ApprovalUsable, ApprovalTimely, ApprovalCovers,
             AtConsumption, PremisesHold, SupportsActive
    <3>2. /\ decisions'[t].state = "consumed"
          /\ decisions'[t].binding = b /\ decisions'[t].expires = decisions[t].expires
          /\ \A u \in Tokens \ {t} : decisions'[u] = decisions[u]
      BY <1>0, <2>0, <2>4 DEF ConsumePermit, SetDecision, TypeOK, Row, AbsentRow
    <3>3. UNCHANGED <<receipts, clock, finalized, inBeliefs, conflicted>>
      BY <2>4 DEF ConsumeAction, ConsumePermit, ledger
    <3>4. Phase[t] = "granted" /\ Phase' = [Phase EXCEPT ![t] = "spent"]
      BY <2>0, <3>2, Phases DEF Phase
    <3>5. UNCHANGED <<Under, Exclusive>>
      BY <2>0, <3>2, <3>3 DEF Under, Exclusive, SingleUse
    <3>6. \A u \in Tokens : Sound(u)' <=> Sound(u)
      BY <2>0, <3>2, <3>3 DEF Sound
    <3>7. UNCHANGED SoundTokens
      BY <3>6 DEF SoundTokens
    <3>8. Authority!Spend(t)
      BY <3>1, <3>4, <3>5, <3>7 DEF Authority!Spend, Phase, Under, Exclusive, SoundTokens
    <3> QED BY <3>8 DEF Authority!Next
  <2> QED BY <1>3, <2>1, <2>2, <2>3, <2>4 DEF ConsumeMatching
<1> QED BY <1>1, <1>2, <1>3 DEF ConsumeAction, RejectUnusable, RejectMismatch

LEMMA RevokeImplements ==
  ASSUME GrantInv, NEW affected \in SUBSET Tokens, RevokeAll(affected),
         \A t \in affected : decisions[t].state = "issued"
  PROVE  Authority!Next
<1>1. Authority!Withdraw(affected)
  BY WithdrawStep DEF RevokeAll, GrantInv
<1> QED BY <1>1 DEF Authority!Next

LEMMA StepImplements == GrantInv /\ [Next]_vars => [Authority!Next]_(Authority!vars)
<1> SUFFICES ASSUME GrantInv, [Next]_vars PROVE Authority!Next
  OBVIOUS
<1>1. CASE Approvals
  BY <1>1, ApprovalsImplement DEF Authority!Next
<1>2. CASE Permits
  <2>1. ASSUME NEW t \in Tokens, NEW b \in ActionBindings, NEW ttl \in ActionTtls,
               NEW now \in ReadBeforeLock, IssueAction(t, b, ttl, now)
        PROVE  Authority!Next
    BY <2>1, IssueImplements
  <2>2. ASSUME NEW t \in Tokens, NEW presented \in ActionBindings, ConsumeAction(t, presented)
        PROVE  Authority!Next
    BY <2>2, ConsumeImplements
  <2>3. ASSUME NEW belief \in Beliefs, RevokeForSupport(belief)
        PROVE  Authority!Next
    BY <2>3, RevokeImplements DEF RevokeForSupport, IssuedUnder
  <2>4. ASSUME NEW e \in Episodes, RevokeForEpisode(e)
        PROVE  Authority!Next
    BY <2>4, RevokeImplements DEF RevokeForEpisode, IssuedIn
  <2> QED BY <1>2, <2>1, <2>2, <2>3, <2>4 DEF Permits
<1>3. CASE Environment \/ UNCHANGED vars
  <2>1. UNCHANGED <<receipts, decisions>>
    BY <1>3 DEF Environment, Tick, FinalizeEpisode, SetBelief, SetConflict, store, vars
  <2>2. Authority!World
    BY <2>1, WorldStep DEF GrantInv
  <2> QED BY <2>2 DEF Authority!Next
<1> QED BY <1>1, <1>2, <1>3 DEF Next

\* The enforcement store implements the permit authority: whatever calls interleave,
\* a token is granted and spent once, an exclusive approval grants one token, a token
\* is spent only in a state in which its approval, its times, its episode, every
\* support and the absence of conflicts hold, and a withdrawn token stays withdrawn.
THEOREM AuthorityImplemented == Spec => ImplementsAuthority
<1>1. Init => GrantInv
  <2>1. \A t \in Tokens : Init => decisions[t].state = "absent"
    BY DEF Init, AbsentRow
  <2> QED BY <2>1, TypeInit DEF GrantInv, ReceiptsSpent, OnePermitPerSingleUseApproval
<1>2. Init => Authority!Init
  <2> SUFFICES ASSUME Init PROVE Authority!Init
    OBVIOUS
  <2>1. /\ \A t \in Tokens : decisions[t].state = "absent"
        /\ \A r \in Receipts : receipts[r].state = "absent"
    BY DEF Init, AbsentRow
  <2>2. Phase = [t \in Tokens |-> "none"] /\ Under = [t \in Tokens |-> None]
    BY <2>1, Phases DEF Phase, Under
  <2>3. Exclusive = {} /\ SoundTokens = {}
    BY <2>1 DEF Exclusive, SingleUse, SoundTokens, Sound
  <2> QED BY <2>2, <2>3 DEF Authority!Init, Phase, Under, Exclusive, SoundTokens
<1> QED BY <1>1, <1>2, GrantInvNext, StepImplements, PTL DEF Spec, ImplementsAuthority, Authority!Spec

-----------------------------------------------------------------------------
(* No permit outlives the withdrawal of its approval.  Inductively: an     *)
(* event that withdraws a receipt leaves it dead, whatever follows, and    *)
(* consume_action does not accept a dead receipt.  A denial withdraws the  *)
(* receipts that are issued and not spent before it, so the invariant also *)
(* says which rows the log's issuances and consumptions have left.         *)

IssuanceLogged ==
  \A i \in DOMAIN log :
    log[i].kind = "APPROVAL_RECEIPT_ISSUED" => receipts[log[i].receipt].state # "absent"

ConsumptionLogged ==
  \A r \in Receipts :
    receipts[r].state = "consumed"
    => \E i \in DOMAIN log : log[i].kind = "APPROVAL_RECEIPT_CONSUMED" /\ log[i].receipt = r

\* A receipt that supports no consumption any more.
Dead(r) ==
  \/ receipts[r].state \in {"expired", "revoked"}
  \/ receipts[r].state # "absent" /\ clock >= receipts[r].expires

WithdrawnDead == \A i \in DOMAIN log, r \in Receipts : Withdraws(i, r) => Dead(r)

RowsLogged == IssuanceLogged /\ ConsumptionLogged
WithdrawInv == SpendInv /\ RowsLogged /\ WithdrawnDead /\ NoSpendAfterWithdrawal

\* What a step does to the rows: time and states move forward only, and a row keeps
\* the binding and the expiry it was inserted with.
RowsForward ==
  /\ clock =< clock'
  /\ \A r \in Receipts :
       receipts[r].state # "absent" =>
         /\ receipts'[r].state # "absent"
         /\ receipts'[r].binding = receipts[r].binding
         /\ receipts'[r].expires = receipts[r].expires
         /\ receipts[r].state # "issued" => receipts'[r].state = receipts[r].state
  /\ \A t \in Tokens :
       decisions[t].state # "absent" => decisions'[t].binding = decisions[t].binding

\* What an event says of the rows after the step that logs it.
Truthful(event) ==
  /\ event.kind = "APPROVAL_RECEIPT_ISSUED" => receipts'[event.receipt].state # "absent"
  /\ event.kind \in {"APPROVAL_RECEIPT_REVOKED", "APPROVAL_RECEIPT_EXPIRED"}
     => \A r \in Receipts : r = event.receipt => Dead(r)'
  /\ event.kind = "APPROVAL_RECEIPT_DENIED"
     => \A r \in Receipts : receipts'[r].binding = event.binding => receipts'[r].state # "issued"
  /\ IsConsumption(event)
     => \A r \in Receipts : decisions'[event.token].binding.receipt = r => ~Dead(r)'

\* What a step does to the log: it appends truthful events, nothing after a denial.
LogForward ==
  /\ \A i \in DOMAIN log : i \in DOMAIN log' /\ log'[i] = log[i]
  /\ \A i \in DOMAIN log' \ DOMAIN log :
       /\ Truthful(log'[i])
       /\ log'[i].kind = "APPROVAL_RECEIPT_DENIED" => i = Len(log')

\* A receipt is spent in no step that does not log it.
SpendingLogged ==
  \A r \in Receipts :
    receipts'[r].state = "consumed"
    => \/ receipts[r].state = "consumed"
       \/ \E i \in DOMAIN log' : log'[i].kind = "APPROVAL_RECEIPT_CONSUMED" /\ log'[i].receipt = r

Forward == RowsForward /\ LogForward /\ SpendingLogged

LEMMA ForwardKeepsRowsLogged ==
  ASSUME TypeOK, TypeOK', RowsLogged, Forward
  PROVE  RowsLogged'
<1>1. \A f \in Events : f.kind = "APPROVAL_RECEIPT_ISSUED" => f.receipt \in Receipts
  BY DEF Events
<1>2. \A i \in DOMAIN log : log[i] \in Events
  BY DEF TypeOK
<1>3. IssuanceLogged'
  <2> SUFFICES ASSUME NEW i \in DOMAIN log', log'[i].kind = "APPROVAL_RECEIPT_ISSUED"
               PROVE  receipts'[log'[i].receipt].state # "absent"
    BY DEF IssuanceLogged
  <2>1. CASE i \in DOMAIN log
    BY <1>1, <1>2, <2>1 DEF Forward, LogForward, RowsForward, RowsLogged, IssuanceLogged
  <2>2. CASE i \notin DOMAIN log
    BY <2>2 DEF Forward, LogForward, Truthful
  <2> QED BY <2>1, <2>2
<1>4. ConsumptionLogged'
  <2> SUFFICES ASSUME NEW r \in Receipts, receipts'[r].state = "consumed",
                      receipts[r].state = "consumed"
               PROVE  \E i \in DOMAIN log' : /\ log'[i].kind = "APPROVAL_RECEIPT_CONSUMED"
                                             /\ log'[i].receipt = r
    BY DEF ConsumptionLogged, Forward, SpendingLogged
  <2> QED BY DEF RowsLogged, ConsumptionLogged, Forward, LogForward
<1> QED BY <1>3, <1>4 DEF RowsLogged

\* An old event withdraws nothing it did not withdraw before.
LEMMA OldWithdrawals ==
  ASSUME TypeOK, TypeOK', RowsLogged, Forward,
         NEW i \in DOMAIN log, NEW r \in Receipts, Withdraws(i, r)'
  PROVE  Withdraws(i, r)
<1>1. i \in Nat /\ \A j \in 1..i : j \in DOMAIN log /\ log'[j] = log[j]
  BY DEF TypeOK, Forward, LogForward
<1>2. log'[i] = log[i]
  BY DEF Forward, LogForward
<1>3. CASE log[i].kind \in {"APPROVAL_RECEIPT_REVOKED", "APPROVAL_RECEIPT_EXPIRED"}
  BY <1>2, <1>3 DEF Withdraws
<1>4. CASE log[i].kind \notin {"APPROVAL_RECEIPT_REVOKED", "APPROVAL_RECEIPT_EXPIRED"}
  <2>1. /\ log[i].kind = "APPROVAL_RECEIPT_DENIED"
        /\ receipts'[r].binding = log[i].binding
        /\ \E j \in 1..i : log[j].kind = "APPROVAL_RECEIPT_ISSUED" /\ log[j].receipt = r
        /\ ~ \E j \in 1..i : log[j].kind = "APPROVAL_RECEIPT_CONSUMED" /\ log[j].receipt = r
    BY <1>1, <1>2, <1>4 DEF Withdraws
  <2>2. receipts[r].state # "absent"
    BY <1>1, <2>1 DEF RowsLogged, IssuanceLogged
  <2>3. receipts[r].binding = log[i].binding
    BY <2>1, <2>2 DEF Forward, RowsForward
  <2> QED BY <2>1, <2>3 DEF Withdraws
<1> QED BY <1>3, <1>4

LEMMA DeadStaysDead ==
  ASSUME TypeOK, TypeOK', RowsForward, NEW r \in Receipts, Dead(r)
  PROVE  Dead(r)'
<1>1. receipts[r].state # "absent" => receipts[r].expires \in Nat
  BY DEF TypeOK, Row, AbsentRow
<1> QED BY <1>1 DEF TypeOK, Dead, RowsForward

LEMMA ForwardKeepsWithdrawnDead ==
  ASSUME TypeOK, TypeOK', RowsLogged, Forward, WithdrawnDead
  PROVE  WithdrawnDead'
<1> SUFFICES ASSUME NEW i \in DOMAIN log', NEW r \in Receipts, Withdraws(i, r)'
             PROVE  Dead(r)'
  BY DEF WithdrawnDead
<1>0. RowsLogged'
  BY ForwardKeepsRowsLogged
<1>1. CASE i \in DOMAIN log
  BY <1>1, OldWithdrawals, DeadStaysDead DEF WithdrawnDead, Forward
<1>2. CASE i \notin DOMAIN log
  <2>1. Truthful(log'[i]) /\ (log'[i].kind = "APPROVAL_RECEIPT_DENIED" => i = Len(log'))
    BY <1>2 DEF Forward, LogForward
  <2>2. CASE log'[i].kind \in {"APPROVAL_RECEIPT_REVOKED", "APPROVAL_RECEIPT_EXPIRED"}
    BY <2>1, <2>2 DEF Truthful, Withdraws
  <2>3. CASE log'[i].kind \notin {"APPROVAL_RECEIPT_REVOKED", "APPROVAL_RECEIPT_EXPIRED"}
    <3>1. /\ log'[i].kind = "APPROVAL_RECEIPT_DENIED"
          /\ receipts'[r].binding = log'[i].binding
          /\ \E j \in 1..i : log'[j].kind = "APPROVAL_RECEIPT_ISSUED" /\ log'[j].receipt = r
          /\ ~ \E j \in 1..i : log'[j].kind = "APPROVAL_RECEIPT_CONSUMED" /\ log'[j].receipt = r
      BY <2>3 DEF Withdraws
    <3>2. DOMAIN log' = 1..i
      BY <2>1, <3>1 DEF TypeOK
    <3>3. receipts'[r].state # "absent"
      BY <1>0, <3>1, <3>2 DEF RowsLogged, IssuanceLogged
    <3>4. receipts'[r].state # "consumed"
      BY <1>0, <3>1, <3>2 DEF RowsLogged, ConsumptionLogged
    <3>5. receipts'[r].state # "issued"
      BY <2>1, <3>1 DEF Truthful
    <3>6. receipts'[r].state \in RowStates
      BY <3>3 DEF TypeOK, Row, AbsentRow
    <3> QED BY <3>3, <3>4, <3>5, <3>6 DEF Dead, RowStates
  <2> QED BY <2>2, <2>3
<1> QED BY <1>1, <1>2

LEMMA ForwardKeepsWithdrawInv ==
  ASSUME WithdrawInv, SpendInv', Forward
  PROVE  WithdrawInv'
<1>0. TypeOK /\ TypeOK' /\ RowsLogged /\ RowsLogged' /\ WithdrawnDead'
  BY ForwardKeepsRowsLogged, ForwardKeepsWithdrawnDead DEF WithdrawInv, SpendInv
<1>1. NoSpendAfterWithdrawal'
  <2> SUFFICES ASSUME NEW i \in DOMAIN log', NEW j \in DOMAIN log', i < j,
                      IsConsumption(log'[j]), NEW r \in Receipts, Withdraws(i, r)',
                      decisions'[log'[j].token].binding.receipt = r
               PROVE  FALSE
    BY DEF NoSpendAfterWithdrawal, IsConsumption
  <2>1. CASE j \in DOMAIN log
    <3>1. i \in DOMAIN log
      BY <1>0, <2>1 DEF TypeOK
    <3>2. log'[j] = log[j]
      BY <2>1 DEF Forward, LogForward
    <3>3. log[j].token \in Tokens
      <4>1. \A f \in Events : IsConsumption(f) => f.token \in Tokens
        BY DEF Events, IsConsumption
      <4> QED BY <1>0, <2>1, <3>2, <4>1 DEF TypeOK
    <3>4. decisions[log[j].token].state = "consumed"
      BY <2>1, <3>2 DEF WithdrawInv, SpendInv, ConsumedRowsLogged
    <3>5. decisions[log[j].token].binding.receipt = r
      BY <3>2, <3>3, <3>4 DEF Forward, RowsForward
    <3>6. Withdraws(i, r)
      BY <1>0, <3>1, OldWithdrawals
    <3> QED BY <2>1, <3>1, <3>2, <3>5, <3>6
            DEF WithdrawInv, NoSpendAfterWithdrawal, IsConsumption
  <2>2. CASE j \notin DOMAIN log
    <3>1. ~Dead(r)'
      BY <2>2 DEF Forward, LogForward, Truthful
    <3> QED BY <1>0, <3>1 DEF WithdrawnDead
  <2> QED BY <2>1, <2>2
<1> QED BY <1>0, <1>1 DEF WithdrawInv

-----------------------------------------------------------------------------
(* Every transaction moves the store forward.                              *)

LEMMA AppendOneForward ==
  ASSUME log \in Seq(Events), NEW e, AppendEvents(<<e>>), Truthful(e)
  PROVE  LogForward /\ Len(log') \in DOMAIN log' /\ log'[Len(log')] = e
<1>1. log' = Append(log, e)
  BY DEF AppendEvents
<1>2. /\ \A i \in DOMAIN log : i \in DOMAIN log' /\ log'[i] = log[i]
      /\ \A i \in DOMAIN log' \ DOMAIN log : i = Len(log') /\ log'[i] = e
      /\ Len(log') \in DOMAIN log' /\ log'[Len(log')] = e
  BY <1>1
<1> QED BY <1>2 DEF LogForward

LEMMA AppendTwoForward ==
  ASSUME log \in Seq(Events), NEW e, NEW f, AppendEvents(<<e, f>>), Truthful(e), Truthful(f),
         e.kind # "APPROVAL_RECEIPT_DENIED", f.kind # "APPROVAL_RECEIPT_DENIED"
  PROVE  LogForward /\ Len(log') \in DOMAIN log' /\ log'[Len(log')] = f
<1>1. log' = log \o <<e, f>>
  BY DEF AppendEvents
<1>2. /\ \A i \in DOMAIN log : i \in DOMAIN log' /\ log'[i] = log[i]
      /\ \A i \in DOMAIN log' \ DOMAIN log : log'[i] = e \/ log'[i] = f
      /\ Len(log') \in DOMAIN log' /\ log'[Len(log')] = f
  BY <1>1
<1> QED BY <1>2 DEF LogForward

\* Events that say nothing about approvals, and consume no permit.
LEMMA PlainTruthful ==
  ASSUME NEW t, NEW b, NEW n,
         NEW kind \in {"ACTION_DECISION_REJECTED", "ACTION_DECISION_EXPIRED",
                       "ACTION_DECISION_REVOKED"}
  PROVE  /\ Truthful(DecisionIssued(t, b, n)) /\ Truthful(IssueRejected(t, b))
         /\ Truthful(DecisionEvent(kind, t))
BY DEF Truthful, IsConsumption, DecisionIssued, IssueRejected, DecisionEvent

LEMMA ApprovalsForward == ASSUME TypeOK, Approvals PROVE Forward
<1> USE DEF TypeOK
<1>1. ASSUME NEW r \in Receipts, NEW b \in ApprovalBindings, NEW ttl \in ApprovalTtls,
             NEW now \in ReadBeforeLock, IssueApproval(r, b, ttl, now)
      PROVE  Forward
  <2>1. receipts' = [receipts EXCEPT ![r] = IssuedRow(b, now + ttl)]
        /\ receipts[r].state = "absent" /\ UNCHANGED <<decisions, clock>>
    BY <1>1 DEF IssueApproval
  <2>2. RowsForward /\ SpendingLogged
    BY <2>1 DEF RowsForward, SpendingLogged, IssuedRow
  <2>3. Truthful(ReceiptIssued(r, b, now + ttl))
    BY <2>1 DEF Truthful, IsConsumption, ReceiptIssued, IssuedRow
  <2> QED BY <1>1, <2>2, <2>3, AppendOneForward DEF IssueApproval, Forward
<1>2. ASSUME NEW b \in ApprovalBindings, DenyApproval(b)
      PROVE  Forward
  <2>1. /\ UNCHANGED <<decisions, clock>>
        /\ \A r \in Receipts :
             receipts'[r] = IF receipts[r].state = "issued" /\ receipts[r].binding = b
                            THEN [receipts[r] EXCEPT !.state = "revoked"] ELSE receipts[r]
    BY <1>2 DEF DenyApproval
  <2>2. \A r \in Receipts :
          /\ receipts'[r].binding = receipts[r].binding
          /\ receipts'[r].expires = receipts[r].expires
          /\ \/ receipts'[r].state = receipts[r].state
             \/ receipts[r].state = "issued" /\ receipts'[r].state = "revoked"
    BY <2>1 DEF Row, AbsentRow
  <2>3. RowsForward /\ SpendingLogged
    BY <2>1, <2>2 DEF RowsForward, SpendingLogged
  <2>4. \A r \in Receipts : receipts'[r].binding = b => receipts'[r].state # "issued"
    BY <2>1 DEF Row, AbsentRow
  <2>5. Truthful(ReceiptDenied(b))
    BY <2>4 DEF Truthful, IsConsumption, ReceiptDenied
  <2> QED BY <1>2, <2>3, <2>5, AppendOneForward DEF DenyApproval, Forward
<1>3. ASSUME NEW r \in Receipts, RevokeApproval(r)
      PROVE  Forward
  <2>1. /\ receipts[r].state = "issued" /\ UNCHANGED <<decisions, clock>>
        /\ receipts'[r].state = "revoked"
        /\ receipts'[r].binding = receipts[r].binding /\ receipts'[r].expires = receipts[r].expires
        /\ \A s \in Receipts \ {r} : receipts'[s] = receipts[s]
    BY <1>3 DEF RevokeApproval, Row, AbsentRow
  <2>2. RowsForward /\ SpendingLogged
    BY <2>1 DEF RowsForward, SpendingLogged
  <2>3. Truthful(ReceiptEvent("APPROVAL_RECEIPT_REVOKED", r))
    BY <2>1 DEF Truthful, IsConsumption, ReceiptEvent, Dead
  <2> QED BY <1>3, <2>2, <2>3, AppendOneForward DEF RevokeApproval, Forward
<1> QED BY <1>1, <1>2, <1>3 DEF Approvals

\* Finding a receipt expired, whatever the state of its row.
LEMMA ExpireForward ==
  ASSUME TypeOK, NEW r \in Receipts, receipts[r].state # "absent", clock >= receipts[r].expires,
         receipts' = ExpireReceipt(r), UNCHANGED <<decisions, clock>>
  PROVE  /\ RowsForward /\ SpendingLogged
         /\ Truthful(ReceiptEvent("APPROVAL_RECEIPT_EXPIRED", r))
<1>1. /\ receipts'[r].state # "absent"
      /\ receipts'[r].state = receipts[r].state
         \/ (receipts[r].state = "issued" /\ receipts'[r].state = "expired")
      /\ receipts'[r].binding = receipts[r].binding /\ receipts'[r].expires = receipts[r].expires
      /\ \A s \in Receipts \ {r} : receipts'[s] = receipts[s]
  BY DEF ExpireReceipt, TypeOK, Row, AbsentRow
<1>2. RowsForward /\ SpendingLogged
  BY <1>1 DEF RowsForward, SpendingLogged, TypeOK
<1>3. Dead(r)'
  BY <1>1 DEF Dead
<1> QED BY <1>2, <1>3 DEF Truthful, IsConsumption, ReceiptEvent

\* What ApprovalExpired has found of the receipt.
LEMMA ExpiredReceipt ==
  ASSUME TypeOK, NEW b \in ActionBindings, NEW usable \in SUBSET {"issued", "consumed"},
         ApprovalExpired(b, usable)
  PROVE  /\ b.receipt \in Receipts /\ receipts[b.receipt].state # "absent"
         /\ clock >= receipts[b.receipt].expires
<1>1. b.receipt \in Receipts /\ receipts[b.receipt].state # "absent"
  BY UsableExists DEF ApprovalExpired
<1>2. receipts[b.receipt].expires \in Nat
  BY <1>1 DEF TypeOK, Row, AbsentRow
<1> QED BY <1>1, <1>2 DEF TypeOK, ApprovalExpired, ApprovalTimely

LEMMA IssueForward ==
  ASSUME TypeOK, NEW t \in Tokens, NEW b \in ActionBindings, NEW ttl \in ActionTtls,
         NEW now \in ReadBeforeLock, IssueAction(t, b, ttl, now)
  PROVE  Forward
<1>0. UNCHANGED clock /\ decisions[t].state = "absent" /\ log \in Seq(Events)
  BY DEF IssueAction, FreshToken, TypeOK
<1>1. CASE IssuePermit(t, b, ttl, now)
  <2>1. \A u \in Tokens \ {t} : decisions'[u] = decisions[u]
    BY <1>1 DEF IssuePermit, TypeOK
  <2>2. b.receipt # None => b.receipt \in Receipts /\ receipts[b.receipt].state = "issued"
    BY <1>1 DEF IssuePermit, ApprovalClear, ApprovalUsable, AtIssue, ActionBindings
  <2>3. CASE SpendsReceipt(b)
    <3> DEFINE r == b.receipt
    <3>1. r \in Receipts /\ receipts[r].state = "issued"
      BY <2>2, <2>3 DEF SpendsReceipt
    <3>2. receipts' = [receipts EXCEPT ![r].state = "consumed"]
          /\ AppendEvents(<<DecisionIssued(t, b, now + ttl),
                            ReceiptEvent("APPROVAL_RECEIPT_CONSUMED", r)>>)
      BY <1>1, <2>3 DEF IssuePermit
    <3>3. /\ receipts'[r].state = "consumed"
          /\ receipts'[r].binding = receipts[r].binding /\ receipts'[r].expires = receipts[r].expires
          /\ \A s \in Receipts \ {r} : receipts'[s] = receipts[s]
      BY <3>1, <3>2 DEF TypeOK, Row, AbsentRow
    <3>4. RowsForward
      BY <1>0, <2>1, <3>1, <3>3 DEF RowsForward, TypeOK
    <3>5. Truthful(ReceiptEvent("APPROVAL_RECEIPT_CONSUMED", r))
      BY DEF Truthful, IsConsumption, ReceiptEvent
    <3>6. LogForward /\ Len(log') \in DOMAIN log'
          /\ log'[Len(log')] = ReceiptEvent("APPROVAL_RECEIPT_CONSUMED", r)
      <4>1. /\ DecisionIssued(t, b, now + ttl).kind # "APPROVAL_RECEIPT_DENIED"
            /\ ReceiptEvent("APPROVAL_RECEIPT_CONSUMED", r).kind # "APPROVAL_RECEIPT_DENIED"
        BY DEF DecisionIssued, ReceiptEvent
      <4> QED BY <1>0, <3>2, <3>5, <4>1, PlainTruthful, AppendTwoForward
    <3>7. SpendingLogged
      BY <3>3, <3>6 DEF SpendingLogged, ReceiptEvent
    <3> QED BY <3>4, <3>6, <3>7 DEF Forward
  <2>4. CASE ~SpendsReceipt(b)
    <3>1. UNCHANGED receipts /\ AppendEvents(<<DecisionIssued(t, b, now + ttl)>>)
      BY <1>1, <2>4 DEF IssuePermit
    <3>2. RowsForward /\ SpendingLogged
      BY <1>0, <2>1, <3>1 DEF RowsForward, SpendingLogged, TypeOK
    <3> QED BY <1>0, <3>1, <3>2, PlainTruthful, AppendOneForward DEF Forward
  <2> QED BY <2>3, <2>4
<1>2. CASE RejectIssue(t, b)
  <2>1. RowsForward /\ SpendingLogged
    BY <1>0, <1>2 DEF RejectIssue, RowsForward, SpendingLogged, TypeOK
  <2> QED BY <1>0, <1>2, <2>1, PlainTruthful, AppendOneForward DEF RejectIssue, Forward
<1>3. CASE RejectIssueExpired(t, b)
  <2> DEFINE r == b.receipt
  <2>1. /\ r \in Receipts /\ receipts[r].state # "absent" /\ clock >= receipts[r].expires
    BY <1>3, ExpiredReceipt DEF RejectIssueExpired, AtIssue
  <2>2. /\ RowsForward /\ SpendingLogged
        /\ Truthful(ReceiptEvent("APPROVAL_RECEIPT_EXPIRED", r))
    BY <1>0, <1>3, <2>1, ExpireForward DEF RejectIssueExpired
  <2>3. /\ ReceiptEvent("APPROVAL_RECEIPT_EXPIRED", r).kind # "APPROVAL_RECEIPT_DENIED"
        /\ IssueRejected(t, b).kind # "APPROVAL_RECEIPT_DENIED"
    BY DEF ReceiptEvent, IssueRejected
  <2> QED BY <1>0, <1>3, <2>2, <2>3, PlainTruthful, AppendTwoForward
          DEF RejectIssueExpired, Forward
<1> QED BY <1>1, <1>2, <1>3 DEF IssueAction

LEMMA ConsumeForward ==
  ASSUME TypeOK, NEW t \in Tokens, NEW presented \in ActionBindings, ConsumeAction(t, presented)
  PROVE  Forward
<1>0. UNCHANGED clock /\ log \in Seq(Events)
  BY DEF ConsumeAction, TypeOK
<1>1. ASSUME UNCHANGED <<receipts, decisions>>,
             AppendEvents(<<DecisionEvent("ACTION_DECISION_REJECTED", t)>>)
      PROVE  Forward
  <2>1. RowsForward /\ SpendingLogged
    BY <1>0, <1>1 DEF RowsForward, SpendingLogged, TypeOK
  <2> QED BY <1>0, <1>1, <2>1, PlainTruthful, AppendOneForward DEF Forward
<1>2. ASSUME decisions[t].state = "issued", NEW state, SetDecision(t, state), UNCHANGED receipts
      PROVE  RowsForward /\ SpendingLogged /\ decisions'[t].binding = decisions[t].binding
  <2>1. \A u \in Tokens : decisions[u].state # "absent" => decisions'[u].binding = decisions[u].binding
    BY <1>2 DEF SetDecision, TypeOK, Row, AbsentRow
  <2> QED BY <1>0, <1>2, <2>1 DEF RowsForward, SpendingLogged, TypeOK
<1>3. CASE RejectUnusable(t)
  BY <1>1, <1>3 DEF RejectUnusable
<1>4. CASE ExpirePermit(t)
  BY <1>0, <1>2, <1>4, PlainTruthful, AppendOneForward DEF ExpirePermit, Forward
<1>5. CASE RejectMismatch(t, presented)
  BY <1>1, <1>5 DEF RejectMismatch
<1>6. CASE ConsumeMatching(t, presented)
  <2> DEFINE b == decisions[t].binding
             r == b.receipt
  <2>0. decisions[t].state = "issued" /\ b \in ActionBindings
    BY <1>6 DEF ConsumeMatching, Presentable
  <2>1. CASE RejectUnapproved(t)
    BY <1>1, <2>1 DEF RejectUnapproved
  <2>2. CASE RejectExpiredApproval(t)
    <3>1. r \in Receipts /\ receipts[r].state # "absent" /\ clock >= receipts[r].expires
      BY <2>0, <2>2, ExpiredReceipt DEF RejectExpiredApproval, AtConsumption
    <3>2. /\ RowsForward /\ SpendingLogged
          /\ Truthful(ReceiptEvent("APPROVAL_RECEIPT_EXPIRED", r))
      BY <1>0, <2>2, <3>1, ExpireForward DEF RejectExpiredApproval
    <3>3. /\ ReceiptEvent("APPROVAL_RECEIPT_EXPIRED", r).kind # "APPROVAL_RECEIPT_DENIED"
          /\ DecisionEvent("ACTION_DECISION_REJECTED", t).kind # "APPROVAL_RECEIPT_DENIED"
      BY DEF ReceiptEvent, DecisionEvent
    <3> QED BY <1>0, <2>2, <3>2, <3>3, PlainTruthful, AppendTwoForward
            DEF RejectExpiredApproval, Forward
  <2>3. CASE RevokeOnPremises(t)
    BY <1>0, <1>2, <2>0, <2>3, PlainTruthful, AppendOneForward DEF RevokeOnPremises, Forward
  <2>4. CASE ConsumePermit(t)
    <3>1. /\ UNCHANGED receipts /\ SetDecision(t, "consumed")
          /\ AppendEvents(<<DecisionEvent("ACTION_DECISION_CONSUMED", t)>>)
      BY <2>4 DEF ConsumePermit
    <3>2. RowsForward /\ SpendingLogged /\ decisions'[t].binding = b
      BY <1>2, <2>0, <3>1
    <3>3. r # None => /\ receipts[r].state \in {"issued", "consumed"}
                      /\ clock < receipts[r].expires
      BY <2>4 DEF ConsumePermit, ApprovalClear, ApprovalUsable, ApprovalTimely, AtConsumption
    <3>4. ASSUME NEW s \in Receipts, decisions'[t].binding.receipt = s PROVE ~Dead(s)'
      <4>1. s = r /\ s # None
        BY <3>2, <3>4, NoneAssumption
      <4>2. receipts[s].expires \in Nat
        BY <3>3, <4>1 DEF TypeOK, Row, AbsentRow
      <4> QED BY <1>0, <3>1, <3>3, <4>1, <4>2 DEF Dead, TypeOK
    <3>5. Truthful(DecisionEvent("ACTION_DECISION_CONSUMED", t))
      BY <3>4 DEF Truthful, DecisionEvent
    <3> QED BY <1>0, <3>1, <3>2, <3>5, AppendOneForward DEF Forward
  <2> QED BY <1>6, <2>1, <2>2, <2>3, <2>4 DEF ConsumeMatching
<1> QED BY <1>3, <1>4, <1>5, <1>6 DEF ConsumeAction

LEMMA RevokeForward ==
  ASSUME TypeOK, NEW affected \in SUBSET Tokens, RevokeAll(affected),
         \A t \in affected : decisions[t].state = "issued"
  PROVE  Forward
<1>1. PICK order \in Orderings(affected) :
        AppendEvents([i \in DOMAIN order |-> DecisionEvent("ACTION_DECISION_REVOKED", order[i])])
  BY DEF RevokeAll
<1> DEFINE events == [i \in DOMAIN order |-> DecisionEvent("ACTION_DECISION_REVOKED", order[i])]
<1>2. events \in Seq(Events)
  BY RevocationEvents
<1>3. \A i \in DOMAIN events :
        Truthful(events[i]) /\ events[i].kind # "APPROVAL_RECEIPT_DENIED"
  BY DEF DecisionEvent, Truthful, IsConsumption
<1>4. LogForward
  <2> HIDE DEF events
  <2>1. log' = log \o events /\ log \in Seq(Events)
    BY <1>1 DEF AppendEvents, events, TypeOK
  <2>2. \A i \in DOMAIN log : i \in DOMAIN log' /\ log'[i] = log[i]
    BY <1>2, <2>1
  <2>3. \A i \in DOMAIN log' \ DOMAIN log :
          i - Len(log) \in DOMAIN events /\ log'[i] = events[i - Len(log)]
    BY <1>2, <2>1
  <2> QED BY <1>3, <2>2, <2>3 DEF LogForward
<1>5. \A t \in Tokens : decisions[t].state # "absent" => decisions'[t].binding = decisions[t].binding
  BY DEF RevokeAll, TypeOK, Row, AbsentRow
<1>6. RowsForward /\ SpendingLogged
  BY <1>5 DEF RevokeAll, RowsForward, SpendingLogged, TypeOK
<1> QED BY <1>4, <1>6 DEF Forward

LEMMA WithdrawInvNext == WithdrawInv /\ [Next]_vars => WithdrawInv'
<1> SUFFICES ASSUME WithdrawInv, [Next]_vars PROVE WithdrawInv'
  OBVIOUS
<1>0. TypeOK /\ SpendInv'
  BY SpendInvNext DEF WithdrawInv, SpendInv
<1>1. CASE Approvals
  BY <1>0, <1>1, ApprovalsForward, ForwardKeepsWithdrawInv
<1>2. CASE Permits
  <2>1. ASSUME NEW t \in Tokens, NEW b \in ActionBindings, NEW ttl \in ActionTtls,
               NEW now \in ReadBeforeLock, IssueAction(t, b, ttl, now)
        PROVE  Forward
    BY <1>0, <2>1, IssueForward
  <2>2. ASSUME NEW t \in Tokens, NEW presented \in ActionBindings, ConsumeAction(t, presented)
        PROVE  Forward
    BY <1>0, <2>2, ConsumeForward
  <2>3. ASSUME NEW belief \in Beliefs, RevokeForSupport(belief)
        PROVE  Forward
    BY <1>0, <2>3, RevokeForward DEF RevokeForSupport, IssuedUnder
  <2>4. ASSUME NEW e \in Episodes, RevokeForEpisode(e)
        PROVE  Forward
    BY <1>0, <2>4, RevokeForward DEF RevokeForEpisode, IssuedIn
  <2> QED BY <1>0, <1>2, <2>1, <2>2, <2>3, <2>4, ForwardKeepsWithdrawInv DEF Permits
<1>3. CASE Environment \/ UNCHANGED vars
  <2>1. UNCHANGED <<receipts, decisions, log>> /\ clock =< clock'
    BY <1>0, <1>3
       DEF Environment, Tick, FinalizeEpisode, SetBelief, SetConflict, store, vars, TypeOK
  <2>2. Forward
    BY <2>1 DEF Forward, RowsForward, LogForward, SpendingLogged
  <2> QED BY <1>0, <2>2, ForwardKeepsWithdrawInv
<1> QED BY <1>1, <1>2, <1>3 DEF Next

\* consume_action rereads the approval: for any number of receipts and permits, once
\* the log revokes or expires a receipt, or denies its binding while it stands
\* unspent, no permit issued under it is consumed any more.
THEOREM WithdrawalIsFinal == Spec => []NoSpendAfterWithdrawal
<1>1. Init => WithdrawInv
  <2> SUFFICES ASSUME Init PROVE WithdrawInv
    OBVIOUS
  <2>1. log = <<>> /\ \A r \in Receipts : receipts[r].state = "absent"
    BY DEF Init, AbsentRow
  <2> QED BY <2>1, TypeInit
          DEF WithdrawInv, SpendInv, ConsumedRowsLogged, ConsumedAtMostOnce, RowsLogged,
              IssuanceLogged, ConsumptionLogged, WithdrawnDead, NoSpendAfterWithdrawal
<1>2. WithdrawInv => NoSpendAfterWithdrawal
  BY DEF WithdrawInv
<1> QED BY <1>1, <1>2, WithdrawInvNext, PTL DEF Spec
=============================================================================
