-------------------------- MODULE EnforcementProofs --------------------------
(***************************************************************************)
(* Theorems about Enforcement for any number of receipts, tokens, episodes *)
(* and beliefs and for any bounds.                                         *)
(***************************************************************************)
EXTENDS Enforcement, FiniteSetTheorems, TLAPS

-----------------------------------------------------------------------------
(* Events and rows.                                                        *)

\* Every event a transaction can write is an event of the log's type.
LEMMA ReceiptEvents ==
  ASSUME NEW r \in Receipts, NEW b \in ApprovalBindings, NEW n \in Nat
  PROVE  /\ ReceiptIssued(r, b, n) \in Events
         /\ ReceiptDenied(b) \in Events
         /\ \A kind \in {"APPROVAL_RECEIPT_REVOKED", "APPROVAL_RECEIPT_EXPIRED",
                         "APPROVAL_RECEIPT_CONSUMED"} : ReceiptEvent(kind, r) \in Events
BY DEF ReceiptIssued, ReceiptDenied, ReceiptEvent, Events

\* The same for the events about tokens.
LEMMA DecisionEvents ==
  ASSUME NEW t \in Tokens, NEW b \in ActionBindings, NEW n \in Nat
  PROVE  /\ DecisionIssued(t, b, n) \in Events
         /\ IssueRejected(t, b) \in Events
         /\ \A kind \in {"ACTION_DECISION_REJECTED", "ACTION_DECISION_EXPIRED",
                         "ACTION_DECISION_REVOKED", "ACTION_DECISION_CONSUMED"} :
              DecisionEvent(kind, t) \in Events
BY DEF DecisionIssued, IssueRejected, DecisionEvent, Events

\* Appending well-typed events keeps the log well-typed.
LEMMA AppendType ==
  ASSUME log \in Seq(Events), NEW s \in Seq(Events), AppendEvents(s)
  PROVE  log' \in Seq(Events)
BY DEF AppendEvents

\* The two forms in which transactions append: one event, or two.
LEMMA AppendOneType ==
  ASSUME log \in Seq(Events), NEW e \in Events, AppendEvents(<<e>>)
  PROVE  log' \in Seq(Events)
<1>1. <<e>> \in Seq(Events)
  OBVIOUS
<1> QED BY <1>1, AppendType

LEMMA AppendTwoType ==
  ASSUME log \in Seq(Events), NEW e \in Events, NEW f \in Events, AppendEvents(<<e, f>>)
  PROVE  log' \in Seq(Events)
<1>1. <<e, f>> \in Seq(Events)
  OBVIOUS
<1> QED BY <1>1, AppendType

\* An issued row is a row, and so is a row whose state moves on.
LEMMA RowTypes ==
  ASSUME NEW B
  PROVE  /\ AbsentRow \in Row(B)
         /\ \A b \in B, n \in Nat : IssuedRow(b, n) \in Row(B)
         /\ \A row \in Row(B), state \in RowStates \ {"absent"} :
              row.state # "absent" => [row EXCEPT !.state = state] \in Row(B)
         /\ \A row \in Row(B) : row.state = "absent" => row = AbsentRow
         /\ \A row \in Row(B) : row.state # "absent" =>
              row \in [state : RowStates \ {"absent"}, binding : B, expires : Nat]
BY DEF Row, RowStates, AbsentRow, IssuedRow

\* Moving the state of one existing row keeps a table a table.
LEMMA MoveRow ==
  ASSUME NEW I, NEW B, NEW rows \in [I -> Row(B)], NEW x \in I,
         rows[x].state # "absent", NEW state \in RowStates \ {"absent"}
  PROVE  [rows EXCEPT ![x].state = state] \in [I -> Row(B)]
<1>1. [rows[x] EXCEPT !.state = state] \in Row(B)
  BY RowTypes
<1> QED BY <1>1

-----------------------------------------------------------------------------
(* Type correctness, transaction by transaction.                           *)

LEMMA ApprovalsType == ASSUME TypeOK, Approvals PROVE TypeOK'
<1> USE DEF TypeOK
<1>1. ASSUME NEW r \in Receipts, NEW b \in ApprovalBindings, NEW ttl \in ApprovalTtls,
             NEW now \in ReadBeforeLock, IssueApproval(r, b, ttl, now)
      PROVE  TypeOK'
  <2>1. now + ttl \in Nat
    BY TtlAssumption DEF ReadBeforeLock
  <2>2. receipts' \in [Receipts -> Row(ApprovalBindings)]
    BY <1>1, <2>1, RowTypes DEF IssueApproval
  <2>3. log' \in Seq(Events)
    BY <1>1, <2>1, ReceiptEvents, AppendOneType DEF IssueApproval
  <2> QED BY <1>1, <2>2, <2>3 DEF IssueApproval, ledger
<1>2. ASSUME NEW b \in ApprovalBindings, DenyApproval(b)
      PROVE  TypeOK'
  <2>1. receipts' \in [Receipts -> Row(ApprovalBindings)]
    <3>1. \A r \in Receipts : receipts[r].state = "issued" =>
            [receipts[r] EXCEPT !.state = "revoked"] \in Row(ApprovalBindings)
      BY RowTypes DEF RowStates
    <3> QED BY <1>2, <3>1 DEF DenyApproval
  <2>2. ReceiptDenied(b) \in Events
    BY DEF ReceiptDenied, Events
  <2>3. log' \in Seq(Events)
    BY <1>2, <2>2, AppendOneType DEF DenyApproval
  <2> QED BY <1>2, <2>1, <2>3 DEF DenyApproval, ledger
<1>3. ASSUME NEW r \in Receipts, RevokeApproval(r)
      PROVE  TypeOK'
  <2>1. receipts' \in [Receipts -> Row(ApprovalBindings)]
    BY <1>3, MoveRow DEF RevokeApproval, RowStates
  <2>2. ReceiptEvent("APPROVAL_RECEIPT_REVOKED", r) \in Events
    BY DEF ReceiptEvent, Events
  <2>3. log' \in Seq(Events)
    BY <1>3, <2>2, AppendOneType DEF RevokeApproval
  <2> QED BY <1>3, <2>1, <2>3 DEF RevokeApproval, ledger
<1> QED BY <1>1, <1>2, <1>3 DEF Approvals

\* A receipt that _approval_reason reads as usable exists.
LEMMA UsableExists ==
  ASSUME TypeOK, NEW b \in ActionBindings, NEW usable \in SUBSET {"issued", "consumed"},
         ApprovalUsable(b, usable)
  PROVE  b.receipt \in Receipts /\ receipts[b.receipt].state # "absent"
BY DEF ApprovalUsable, ActionBindings

LEMMA ExpireType ==
  ASSUME TypeOK, NEW r \in Receipts
  PROVE  ExpireReceipt(r) \in [Receipts -> Row(ApprovalBindings)]
BY MoveRow DEF TypeOK, ExpireReceipt, RowStates

LEMMA IssueType ==
  ASSUME TypeOK, NEW t \in Tokens, NEW b \in ActionBindings, NEW ttl \in ActionTtls,
         NEW now \in ReadBeforeLock, IssueAction(t, b, ttl, now)
  PROVE  TypeOK'
<1> USE DEF TypeOK
<1>0. UNCHANGED <<clock, ledger>>
  BY DEF IssueAction
<1>1. CASE IssuePermit(t, b, ttl, now)
  <2>1. now + ttl \in Nat
    BY TtlAssumption DEF ReadBeforeLock
  <2>2. decisions' \in [Tokens -> Row(ActionBindings)]
    BY <1>1, <2>1, RowTypes DEF IssuePermit
  <2>3. DecisionIssued(t, b, now + ttl) \in Events
    BY <2>1, DecisionEvents
  <2>4. CASE SpendsReceipt(b)
    <3>1. b.receipt \in Receipts /\ receipts[b.receipt].state # "absent"
      BY <1>1, <2>4, UsableExists DEF IssuePermit, ApprovalClear, SpendsReceipt, AtIssue
    <3>2. receipts' \in [Receipts -> Row(ApprovalBindings)]
      <4>1. "consumed" \in RowStates \ {"absent"}
        BY DEF RowStates
      <4>2. [receipts EXCEPT ![b.receipt].state = "consumed"] \in [Receipts -> Row(ApprovalBindings)]
        BY <3>1, <4>1, MoveRow
      <4> QED BY <1>1, <2>4, <4>2 DEF IssuePermit
    <3>3. ReceiptEvent("APPROVAL_RECEIPT_CONSUMED", b.receipt) \in Events
      BY <3>1 DEF ReceiptEvent, Events
    <3>4. log' \in Seq(Events)
      BY <1>1, <2>3, <2>4, <3>3, AppendTwoType DEF IssuePermit
    <3> QED BY <1>0, <2>2, <3>2, <3>4 DEF ledger
  <2>5. CASE ~SpendsReceipt(b)
    <3>1. log' \in Seq(Events)
      BY <1>1, <2>3, <2>5, AppendOneType DEF IssuePermit
    <3> QED BY <1>0, <1>1, <2>2, <2>5, <3>1 DEF IssuePermit, ledger
  <2> QED BY <2>4, <2>5
<1>2. CASE RejectIssue(t, b)
  <2>1. IssueRejected(t, b) \in Events
    BY DEF IssueRejected, Events
  <2>2. log' \in Seq(Events)
    BY <1>2, <2>1, AppendOneType DEF RejectIssue
  <2> QED BY <1>0, <1>2, <2>2 DEF RejectIssue, ledger
<1>3. CASE RejectIssueExpired(t, b)
  <2>1. b.receipt \in Receipts
    BY <1>3, UsableExists DEF RejectIssueExpired, ApprovalExpired, AtIssue
  <2>2. receipts' \in [Receipts -> Row(ApprovalBindings)]
    BY <1>3, <2>1, ExpireType DEF RejectIssueExpired
  <2>3. /\ ReceiptEvent("APPROVAL_RECEIPT_EXPIRED", b.receipt) \in Events
        /\ IssueRejected(t, b) \in Events
    BY <2>1 DEF ReceiptEvent, IssueRejected, Events
  <2>4. log' \in Seq(Events)
    BY <1>3, <2>3, AppendTwoType DEF RejectIssueExpired
  <2> QED BY <1>0, <1>3, <2>2, <2>4 DEF RejectIssueExpired, ledger
<1> QED BY <1>1, <1>2, <1>3 DEF IssueAction

\* Rejections of consume_action leave the tables alone but for an expiry.
LEMMA ConsumeType ==
  ASSUME TypeOK, NEW t \in Tokens, NEW presented \in ActionBindings, ConsumeAction(t, presented)
  PROVE  TypeOK'
<1> USE DEF TypeOK
<1>0. UNCHANGED <<clock, ledger>>
  BY DEF ConsumeAction
<1>1. \A kind \in {"ACTION_DECISION_REJECTED", "ACTION_DECISION_EXPIRED",
                   "ACTION_DECISION_REVOKED", "ACTION_DECISION_CONSUMED"} :
        DecisionEvent(kind, t) \in Events
  BY DEF DecisionEvent, Events
<1>2. ASSUME UNCHANGED <<receipts, decisions>>,
             AppendEvents(<<DecisionEvent("ACTION_DECISION_REJECTED", t)>>)
      PROVE  TypeOK'
  <2>1. log' \in Seq(Events)
    BY <1>1, <1>2, AppendOneType
  <2> QED BY <1>0, <1>2, <2>1 DEF ledger
<1>3. ASSUME NEW state \in RowStates \ {"absent"}, decisions[t].state = "issued",
             SetDecision(t, state), UNCHANGED receipts,
             NEW kind \in {"ACTION_DECISION_REJECTED", "ACTION_DECISION_EXPIRED",
                           "ACTION_DECISION_REVOKED", "ACTION_DECISION_CONSUMED"},
             AppendEvents(<<DecisionEvent(kind, t)>>)
      PROVE  TypeOK'
  <2>1. decisions' \in [Tokens -> Row(ActionBindings)]
    BY <1>3, MoveRow DEF SetDecision
  <2>2. log' \in Seq(Events)
    BY <1>1, <1>3, AppendOneType
  <2> QED BY <1>0, <1>3, <2>1, <2>2 DEF ledger
<1>4. CASE RejectUnusable(t)
  BY <1>2, <1>4 DEF RejectUnusable
<1>5. CASE ExpirePermit(t)
  BY <1>3, <1>5 DEF ExpirePermit, RowStates
<1>6. CASE RejectMismatch(t, presented)
  BY <1>2, <1>6 DEF RejectMismatch
<1>7. CASE ConsumeMatching(t, presented)
  <2>0. decisions[t].state = "issued" /\ decisions[t].binding \in ActionBindings
    BY <1>7 DEF ConsumeMatching, Presentable
  <2>1. CASE RejectUnapproved(t)
    BY <1>2, <2>1 DEF RejectUnapproved
  <2>2. CASE RejectExpiredApproval(t)
    <3> DEFINE r == decisions[t].binding.receipt
    <3>1. r \in Receipts
      BY <2>0, <2>2, UsableExists DEF RejectExpiredApproval, ApprovalExpired, AtConsumption
    <3>2. receipts' \in [Receipts -> Row(ApprovalBindings)]
      BY <2>2, <3>1, ExpireType DEF RejectExpiredApproval
    <3>3. ReceiptEvent("APPROVAL_RECEIPT_EXPIRED", r) \in Events
      BY <3>1 DEF ReceiptEvent, Events
    <3>4. log' \in Seq(Events)
      BY <1>1, <2>2, <3>3, AppendTwoType DEF RejectExpiredApproval
    <3> QED BY <1>0, <2>2, <3>2, <3>4 DEF RejectExpiredApproval, ledger
  <2>3. CASE RevokeOnPremises(t)
    BY <1>3, <2>0, <2>3 DEF RevokeOnPremises, RowStates
  <2>4. CASE ConsumePermit(t)
    BY <1>3, <2>0, <2>4 DEF ConsumePermit, RowStates
  <2> QED BY <1>7, <2>1, <2>2, <2>3, <2>4 DEF ConsumeMatching
<1> QED BY <1>4, <1>5, <1>6, <1>7 DEF ConsumeAction

\* The events of a revocation name the permits it affects, in some order.
LEMMA RevocationEvents ==
  ASSUME NEW affected \in SUBSET Tokens, NEW order \in Orderings(affected)
  PROVE  [i \in DOMAIN order |-> DecisionEvent("ACTION_DECISION_REVOKED", order[i])] \in Seq(Events)
<1>1. Cardinality(affected) \in Nat
  BY TokensAssumption, FS_Subset, FS_CardinalityType
<1>2. order \in [1..Cardinality(affected) -> affected]
  BY DEF Orderings
<1>3. \A i \in DOMAIN order : DecisionEvent("ACTION_DECISION_REVOKED", order[i]) \in Events
  BY <1>2 DEF DecisionEvent, Events
<1> DEFINE events == [i \in 1..Cardinality(affected) |->
                        DecisionEvent("ACTION_DECISION_REVOKED", order[i])]
<1>4. events \in [1..Cardinality(affected) -> Events]
  BY <1>2, <1>3
<1>5. DOMAIN order = 1..Cardinality(affected)
  BY <1>2
<1> QED BY <1>1, <1>4, <1>5

LEMMA RevokeType ==
  ASSUME TypeOK, NEW affected \in SUBSET Tokens, RevokeAll(affected),
         \A t \in affected : decisions[t].state = "issued"
  PROVE  TypeOK'
<1> USE DEF TypeOK
<1>1. \A t \in affected : [decisions[t] EXCEPT !.state = "revoked"] \in Row(ActionBindings)
  BY RowTypes DEF RowStates
<1>2. decisions' \in [Tokens -> Row(ActionBindings)]
  BY <1>1 DEF RevokeAll
<1>3. log' \in Seq(Events)
  BY RevocationEvents, AppendType DEF RevokeAll
<1> QED BY <1>2, <1>3 DEF RevokeAll, ledger

LEMMA EnvironmentType == ASSUME TypeOK, Environment PROVE TypeOK'
BY DEF TypeOK, Environment, Tick, FinalizeEpisode, SetBelief, SetConflict, store, ledger

LEMMA TypeInit == Init => TypeOK
BY RowTypes DEF Init, TypeOK

LEMMA TypeNext == TypeOK /\ [Next]_vars => TypeOK'
<1> SUFFICES ASSUME TypeOK, [Next]_vars PROVE TypeOK'
  OBVIOUS
<1>1. CASE Approvals
  BY <1>1, ApprovalsType
<1>2. CASE Permits
  <2>1. ASSUME NEW t \in Tokens, NEW b \in ActionBindings, NEW ttl \in ActionTtls,
               NEW now \in ReadBeforeLock, IssueAction(t, b, ttl, now)
        PROVE  TypeOK'
    BY <2>1, IssueType
  <2>2. ASSUME NEW t \in Tokens, NEW presented \in ActionBindings, ConsumeAction(t, presented)
        PROVE  TypeOK'
    BY <2>2, ConsumeType
  <2>3. ASSUME NEW belief \in Beliefs, RevokeForSupport(belief)
        PROVE  TypeOK'
    BY <2>3, RevokeType DEF RevokeForSupport, IssuedUnder
  <2>4. ASSUME NEW e \in Episodes, RevokeForEpisode(e)
        PROVE  TypeOK'
    BY <2>4, RevokeType DEF RevokeForEpisode, IssuedIn
  <2> QED BY <1>2, <2>1, <2>2, <2>3, <2>4 DEF Permits
<1>3. CASE Environment
  BY <1>3, EnvironmentType
<1>4. CASE UNCHANGED vars
  BY <1>4 DEF TypeOK, vars
<1> QED BY <1>1, <1>2, <1>3, <1>4 DEF Next

\* The tables and the log keep their shape in every behaviour of the store: no
\* sequence of calls leaves a row without the binding it was inserted with.
THEOREM TypeCorrectness == Spec => []TypeOK
BY TypeInit, TypeNext, PTL DEF Spec

-----------------------------------------------------------------------------
(* A token is consumed once.  The property is not inductive: it needs that *)
(* a logged consumption has left its row consumed, where no call can take  *)
(* it up again.                                                            *)

IsConsumption(event) == event.kind = "ACTION_DECISION_CONSUMED"

ConsumedRowsLogged ==
  \A i \in DOMAIN log : IsConsumption(log[i]) => decisions[log[i].token].state = "consumed"

SpendInv == TypeOK /\ ConsumedRowsLogged /\ ConsumedAtMostOnce

\* A step that logs no consumption and leaves consumed rows alone.
Quiet ==
  /\ \A i \in DOMAIN log' : IsConsumption(log'[i]) => i \in DOMAIN log /\ log'[i] = log[i]
  /\ \A t \in Tokens : decisions[t].state = "consumed" => decisions'[t].state = "consumed"

\* Appending events that are no consumptions adds no consumption to the log.
LEMMA AppendQuiet ==
  ASSUME log \in Seq(Events), NEW s \in Seq(Events), AppendEvents(s),
         \A i \in DOMAIN s : ~IsConsumption(s[i])
  PROVE  \A i \in DOMAIN log' : IsConsumption(log'[i]) => i \in DOMAIN log /\ log'[i] = log[i]
<1>1. log' = log \o s
  BY DEF AppendEvents
<1>2. \A i \in DOMAIN log' : i \in DOMAIN log \/ (i - Len(log) \in DOMAIN s /\ log'[i] = s[i - Len(log)])
  BY <1>1
<1>3. \A i \in DOMAIN log : log'[i] = log[i]
  BY <1>1
<1> QED BY <1>2, <1>3

LEMMA AppendOneQuiet ==
  ASSUME log \in Seq(Events), NEW e \in Events, AppendEvents(<<e>>), ~IsConsumption(e)
  PROVE  \A i \in DOMAIN log' : IsConsumption(log'[i]) => i \in DOMAIN log /\ log'[i] = log[i]
<1>1. <<e>> \in Seq(Events) /\ \A i \in DOMAIN <<e>> : <<e>>[i] = e
  OBVIOUS
<1> QED BY <1>1, AppendQuiet

LEMMA AppendTwoQuiet ==
  ASSUME log \in Seq(Events), NEW e \in Events, NEW f \in Events, AppendEvents(<<e, f>>),
         ~IsConsumption(e), ~IsConsumption(f)
  PROVE  \A i \in DOMAIN log' : IsConsumption(log'[i]) => i \in DOMAIN log /\ log'[i] = log[i]
<1>1. <<e, f>> \in Seq(Events) /\ \A i \in DOMAIN <<e, f>> : <<e, f>>[i] = e \/ <<e, f>>[i] = f
  OBVIOUS
<1> QED BY <1>1, AppendQuiet

LEMMA QuietKeepsSpendInv ==
  ASSUME SpendInv, TypeOK', Quiet
  PROVE  SpendInv'
<1>1. \A i \in DOMAIN log : IsConsumption(log[i]) => log[i].token \in Tokens
  <2>1. \A e \in Events : IsConsumption(e) => e.token \in Tokens
    BY DEF Events, IsConsumption
  <2> QED BY <2>1 DEF SpendInv, TypeOK
<1>2. ConsumedRowsLogged'
  BY <1>1 DEF SpendInv, ConsumedRowsLogged, Quiet
<1>3. ConsumedAtMostOnce'
  BY DEF SpendInv, ConsumedAtMostOnce, Quiet, IsConsumption
<1> QED BY <1>2, <1>3 DEF SpendInv

LEMMA ApprovalsQuiet == ASSUME TypeOK, Approvals PROVE Quiet
<1> USE DEF TypeOK
<1>1. ASSUME NEW r \in Receipts, NEW b \in ApprovalBindings, NEW ttl \in ApprovalTtls,
             NEW now \in ReadBeforeLock, IssueApproval(r, b, ttl, now)
      PROVE  Quiet
  <2>1. now + ttl \in Nat
    BY TtlAssumption DEF ReadBeforeLock
  <2>2. /\ ReceiptIssued(r, b, now + ttl) \in Events
        /\ ~IsConsumption(ReceiptIssued(r, b, now + ttl))
    BY <2>1, ReceiptEvents DEF ReceiptIssued, IsConsumption
  <2> QED BY <1>1, <2>2, AppendOneQuiet DEF IssueApproval, Quiet
<1>2. ASSUME NEW b \in ApprovalBindings, DenyApproval(b)
      PROVE  Quiet
  <2>1. ReceiptDenied(b) \in Events /\ ~IsConsumption(ReceiptDenied(b))
    BY DEF ReceiptDenied, Events, IsConsumption
  <2> QED BY <1>2, <2>1, AppendOneQuiet DEF DenyApproval, Quiet
<1>3. ASSUME NEW r \in Receipts, RevokeApproval(r)
      PROVE  Quiet
  <2>1. /\ ReceiptEvent("APPROVAL_RECEIPT_REVOKED", r) \in Events
        /\ ~IsConsumption(ReceiptEvent("APPROVAL_RECEIPT_REVOKED", r))
    BY DEF ReceiptEvent, Events, IsConsumption
  <2> QED BY <1>3, <2>1, AppendOneQuiet DEF RevokeApproval, Quiet
<1> QED BY <1>1, <1>2, <1>3 DEF Approvals

LEMMA IssueQuiet ==
  ASSUME TypeOK, NEW t \in Tokens, NEW b \in ActionBindings, NEW ttl \in ActionTtls,
         NEW now \in ReadBeforeLock, IssueAction(t, b, ttl, now)
  PROVE  Quiet
<1> USE DEF TypeOK
<1>0. decisions[t].state = "absent"
  BY DEF IssueAction, FreshToken
<1>1. CASE IssuePermit(t, b, ttl, now)
  <2>1. now + ttl \in Nat
    BY TtlAssumption DEF ReadBeforeLock
  <2>2. /\ DecisionIssued(t, b, now + ttl) \in Events
        /\ ~IsConsumption(DecisionIssued(t, b, now + ttl))
    BY <2>1, DecisionEvents DEF DecisionIssued, IsConsumption
  <2>3. \A u \in Tokens : decisions[u].state = "consumed" => decisions'[u] = decisions[u]
    BY <1>0, <1>1 DEF IssuePermit
  <2>4. CASE SpendsReceipt(b)
    <3>1. b.receipt \in Receipts
      BY <2>4 DEF SpendsReceipt, ActionBindings
    <3>2. /\ ReceiptEvent("APPROVAL_RECEIPT_CONSUMED", b.receipt) \in Events
          /\ ~IsConsumption(ReceiptEvent("APPROVAL_RECEIPT_CONSUMED", b.receipt))
      BY <3>1 DEF ReceiptEvent, Events, IsConsumption
    <3> QED BY <1>1, <2>2, <2>3, <2>4, <3>2, AppendTwoQuiet DEF IssuePermit, Quiet
  <2>5. CASE ~SpendsReceipt(b)
    BY <1>1, <2>2, <2>3, <2>5, AppendOneQuiet DEF IssuePermit, Quiet
  <2> QED BY <2>4, <2>5
<1>2. IssueRejected(t, b) \in Events /\ ~IsConsumption(IssueRejected(t, b))
  BY DEF IssueRejected, Events, IsConsumption
<1>3. CASE RejectIssue(t, b)
  BY <1>2, <1>3, AppendOneQuiet DEF RejectIssue, Quiet
<1>4. CASE RejectIssueExpired(t, b)
  <2>1. b.receipt \in Receipts
    BY <1>4, UsableExists DEF RejectIssueExpired, ApprovalExpired, AtIssue
  <2>2. /\ ReceiptEvent("APPROVAL_RECEIPT_EXPIRED", b.receipt) \in Events
        /\ ~IsConsumption(ReceiptEvent("APPROVAL_RECEIPT_EXPIRED", b.receipt))
    BY <2>1 DEF ReceiptEvent, Events, IsConsumption
  <2> QED BY <1>2, <1>4, <2>2, AppendTwoQuiet DEF RejectIssueExpired, Quiet
<1> QED BY <1>1, <1>3, <1>4 DEF IssueAction

\* One event about a permit that is not its consumption, with the rows of every
\* other permit kept and its own kept or moved on from issued.
LEMMA OutcomeQuiet ==
  ASSUME TypeOK, NEW t \in Tokens,
         NEW kind \in {"ACTION_DECISION_REJECTED", "ACTION_DECISION_EXPIRED",
                       "ACTION_DECISION_REVOKED"},
         AppendEvents(<<DecisionEvent(kind, t)>>),
         \/ UNCHANGED decisions
         \/ decisions[t].state = "issued" /\ \E state \in RowStates : SetDecision(t, state)
  PROVE  Quiet
<1>1. DecisionEvent(kind, t) \in Events /\ ~IsConsumption(DecisionEvent(kind, t))
  BY DEF DecisionEvent, Events, IsConsumption
<1>2. \A u \in Tokens : decisions[u].state = "consumed" => decisions'[u] = decisions[u]
  BY DEF SetDecision, TypeOK
<1> QED BY <1>1, <1>2, AppendOneQuiet DEF Quiet, TypeOK

\* A presentation of a token is quiet unless it consumes it.
LEMMA ConsumeQuiet ==
  ASSUME TypeOK, NEW t \in Tokens, NEW presented \in ActionBindings, ConsumeAction(t, presented)
  PROVE  Quiet \/ (decisions[t].state = "issued" /\ ConsumePermit(t))
<1>1. CASE RejectUnusable(t)
  BY <1>1, OutcomeQuiet DEF RejectUnusable
<1>2. CASE ExpirePermit(t)
  BY <1>2, OutcomeQuiet DEF ExpirePermit, RowStates
<1>3. CASE RejectMismatch(t, presented)
  BY <1>3, OutcomeQuiet DEF RejectMismatch
<1>4. CASE ConsumeMatching(t, presented)
  <2>0. decisions[t].state = "issued" /\ decisions[t].binding \in ActionBindings
    BY <1>4 DEF ConsumeMatching, Presentable
  <2>1. CASE RejectUnapproved(t)
    BY <2>1, OutcomeQuiet DEF RejectUnapproved
  <2>2. CASE RejectExpiredApproval(t)
    <3> DEFINE r == decisions[t].binding.receipt
    <3>1. r \in Receipts
      BY <2>0, <2>2, UsableExists DEF RejectExpiredApproval, ApprovalExpired, AtConsumption
    <3>2. /\ ReceiptEvent("APPROVAL_RECEIPT_EXPIRED", r) \in Events
          /\ ~IsConsumption(ReceiptEvent("APPROVAL_RECEIPT_EXPIRED", r))
      BY <3>1 DEF ReceiptEvent, Events, IsConsumption
    <3>3. /\ DecisionEvent("ACTION_DECISION_REJECTED", t) \in Events
          /\ ~IsConsumption(DecisionEvent("ACTION_DECISION_REJECTED", t))
      BY DEF DecisionEvent, Events, IsConsumption
    <3> QED BY <2>2, <3>2, <3>3, AppendTwoQuiet DEF RejectExpiredApproval, Quiet, TypeOK
  <2>3. CASE RevokeOnPremises(t)
    BY <2>0, <2>3, OutcomeQuiet DEF RevokeOnPremises, RowStates
  <2>4. CASE ConsumePermit(t)
    BY <2>0, <2>4
  <2> QED BY <1>4, <2>1, <2>2, <2>3, <2>4 DEF ConsumeMatching
<1> QED BY <1>1, <1>2, <1>3, <1>4 DEF ConsumeAction

LEMMA RevokeQuiet ==
  ASSUME TypeOK, NEW affected \in SUBSET Tokens, RevokeAll(affected),
         \A t \in affected : decisions[t].state = "issued"
  PROVE  Quiet
<1>1. PICK order \in Orderings(affected) :
        AppendEvents([i \in DOMAIN order |-> DecisionEvent("ACTION_DECISION_REVOKED", order[i])])
  BY DEF RevokeAll
<1> DEFINE events == [i \in DOMAIN order |-> DecisionEvent("ACTION_DECISION_REVOKED", order[i])]
<1>2. events \in Seq(Events)
  BY RevocationEvents
<1>3. \A i \in DOMAIN events : ~IsConsumption(events[i])
  BY DEF DecisionEvent, IsConsumption
<1>4. \A i \in DOMAIN log' : IsConsumption(log'[i]) => i \in DOMAIN log /\ log'[i] = log[i]
  <2> HIDE DEF events
  <2> QED BY <1>1, <1>2, <1>3, AppendQuiet DEF TypeOK, events
<1>5. \A t \in Tokens : decisions[t].state = "consumed" => decisions'[t] = decisions[t]
  BY DEF RevokeAll
<1> QED BY <1>4, <1>5 DEF Quiet

\* The consuming step: the token was issued, so by ConsumedRowsLogged no earlier
\* event consumed it, and the new event is the only one.
LEMMA ConsumeKeepsSpendInv ==
  ASSUME SpendInv, TypeOK', NEW t \in Tokens, decisions[t].state = "issued", ConsumePermit(t)
  PROVE  SpendInv'
<1> DEFINE e == DecisionEvent("ACTION_DECISION_CONSUMED", t)
<1>1. log' = Append(log, e) /\ log \in Seq(Events)
  BY DEF ConsumePermit, AppendEvents, SpendInv, TypeOK
<1>2. /\ DOMAIN log' = 1..(Len(log) + 1)
      /\ \A i \in DOMAIN log : log'[i] = log[i]
      /\ log'[Len(log) + 1] = e
      /\ DOMAIN log = 1..Len(log) /\ Len(log) \in Nat
  <2> HIDE DEF e
  <2> QED BY <1>1
<1>3. \A i \in DOMAIN log : IsConsumption(log[i]) => log[i].token \in Tokens /\ log[i].token # t
  <2>1. \A f \in Events : IsConsumption(f) => f.token \in Tokens
    BY DEF Events, IsConsumption
  <2> QED BY <2>1 DEF SpendInv, TypeOK, ConsumedRowsLogged
<1>4. decisions'[t].state = "consumed" /\ \A u \in Tokens \ {t} : decisions'[u] = decisions[u]
  BY DEF ConsumePermit, SetDecision, SpendInv, TypeOK
<1>5. e.token = t
  BY DEF DecisionEvent
<1>6. ConsumedRowsLogged'
  <2> SUFFICES ASSUME NEW i \in DOMAIN log', IsConsumption(log'[i])
               PROVE  decisions'[log'[i].token].state = "consumed"
    BY DEF ConsumedRowsLogged
  <2>1. CASE i \in DOMAIN log
    BY <1>2, <1>3, <1>4, <2>1 DEF SpendInv, ConsumedRowsLogged
  <2>2. CASE i \notin DOMAIN log
    BY <1>2, <1>4, <1>5, <2>2
  <2> QED BY <2>1, <2>2
<1>7. ConsumedAtMostOnce'
  <2> SUFFICES ASSUME NEW i \in DOMAIN log', NEW j \in DOMAIN log',
                      IsConsumption(log'[i]), IsConsumption(log'[j]),
                      log'[i].token = log'[j].token
               PROVE  i = j
    BY DEF ConsumedAtMostOnce, IsConsumption
  <2>1. CASE i \in DOMAIN log /\ j \in DOMAIN log
    BY <1>2, <2>1 DEF SpendInv, ConsumedAtMostOnce, IsConsumption
  <2>2. CASE i \notin DOMAIN log \/ j \notin DOMAIN log
    BY <1>2, <1>3, <1>5, <2>2
  <2> QED BY <2>1, <2>2
<1> QED BY <1>6, <1>7 DEF SpendInv

LEMMA SpendInvNext == SpendInv /\ [Next]_vars => SpendInv'
<1> SUFFICES ASSUME SpendInv, [Next]_vars PROVE SpendInv'
  OBVIOUS
<1>0. TypeOK /\ TypeOK'
  BY TypeNext DEF SpendInv
<1>1. CASE Approvals
  BY <1>0, <1>1, ApprovalsQuiet, QuietKeepsSpendInv
<1>2. CASE Permits
  <2>1. ASSUME NEW t \in Tokens, NEW b \in ActionBindings, NEW ttl \in ActionTtls,
               NEW now \in ReadBeforeLock, IssueAction(t, b, ttl, now)
        PROVE  SpendInv'
    BY <1>0, <2>1, IssueQuiet, QuietKeepsSpendInv
  <2>2. ASSUME NEW t \in Tokens, NEW presented \in ActionBindings, ConsumeAction(t, presented)
        PROVE  SpendInv'
    BY <1>0, <2>2, ConsumeQuiet, ConsumeKeepsSpendInv, QuietKeepsSpendInv
  <2>3. ASSUME NEW belief \in Beliefs, RevokeForSupport(belief)
        PROVE  SpendInv'
    BY <1>0, <2>3, RevokeQuiet, QuietKeepsSpendInv DEF RevokeForSupport, IssuedUnder
  <2>4. ASSUME NEW e \in Episodes, RevokeForEpisode(e)
        PROVE  SpendInv'
    BY <1>0, <2>4, RevokeQuiet, QuietKeepsSpendInv DEF RevokeForEpisode, IssuedIn
  <2> QED BY <1>2, <2>1, <2>2, <2>3, <2>4 DEF Permits
<1>3. CASE Environment \/ UNCHANGED vars
  <2>1. UNCHANGED <<log, decisions>>
    BY <1>3 DEF Environment, Tick, FinalizeEpisode, SetBelief, SetConflict, store, vars
  <2> QED BY <1>0, <2>1, QuietKeepsSpendInv DEF Quiet
<1> QED BY <1>1, <1>2, <1>3 DEF Next

\* consume_action is single-use: for any number of callers, tokens and receipts,
\* and whatever transactions run between two presentations of a token, the log
\* records at most one consumption of it.
THEOREM SingleConsumption == Spec => []ConsumedAtMostOnce
<1>1. Init => SpendInv
  BY TypeInit DEF Init, SpendInv, ConsumedRowsLogged, ConsumedAtMostOnce
<1>2. SpendInv => ConsumedAtMostOnce
  BY DEF SpendInv
<1> QED BY <1>1, <1>2, SpendInvNext, PTL DEF Spec

-----------------------------------------------------------------------------
(* A single-use approval grants one permit.  Inductively: a receipt that   *)
(* has granted a permit exists and, if single-use, is not issued any more. *)

ReceiptsSpent ==
  \A t \in Tokens :
    LET r == decisions[t].binding.receipt IN
    decisions[t].state # "absent" /\ r # None
    => /\ receipts[r].state # "absent"
       /\ receipts[r].binding.scope \in SpentAtIssue => receipts[r].state # "issued"

GrantInv == TypeOK /\ ReceiptsSpent /\ OnePermitPerSingleUseApproval

\* A step that grants no permit and neither undoes nor rebinds a receipt.
Calm ==
  /\ \A t \in Tokens : /\ decisions'[t].state = "absent" <=> decisions[t].state = "absent"
                       /\ decisions'[t].binding = decisions[t].binding
  /\ \A r \in Receipts :
       receipts[r].state # "absent" =>
         /\ receipts'[r].state # "absent"
         /\ receipts'[r].state = "issued" => receipts[r].state = "issued"
         /\ receipts'[r].binding = receipts[r].binding

LEMMA BindingReceipt ==
  ASSUME TypeOK, NEW t \in Tokens, decisions[t].state # "absent",
         decisions[t].binding.receipt # None
  PROVE  decisions[t].binding.receipt \in Receipts
BY DEF TypeOK, Row, AbsentRow, ActionBindings

LEMMA CalmKeepsGrantInv ==
  ASSUME GrantInv, TypeOK', Calm
  PROVE  GrantInv'
<1>1. \A t \in Tokens : decisions[t].state # "absent" /\ decisions[t].binding.receipt # None
        => /\ decisions[t].binding.receipt \in Receipts
           /\ receipts[decisions[t].binding.receipt].state # "absent"
  BY BindingReceipt DEF GrantInv, ReceiptsSpent
<1>2. ReceiptsSpent'
  BY <1>1 DEF GrantInv, ReceiptsSpent, Calm
<1>3. OnePermitPerSingleUseApproval'
  <2> SUFFICES ASSUME NEW t \in Tokens, NEW u \in Tokens,
                      decisions'[t].state # "absent", decisions'[u].state # "absent",
                      decisions'[t].binding.receipt = decisions'[u].binding.receipt,
                      decisions'[t].binding.receipt # None,
                      SingleUse(decisions[t].binding.receipt)'
               PROVE  t = u
    BY DEF OnePermitPerSingleUseApproval
  <2>1. SingleUse(decisions[t].binding.receipt)
    BY <1>1 DEF SingleUse, Calm
  <2> QED BY <2>1 DEF GrantInv, OnePermitPerSingleUseApproval, Calm
<1> QED BY <1>2, <1>3 DEF GrantInv

LEMMA ExpireCalm ==
  ASSUME TypeOK, NEW r \in Receipts, receipts' = ExpireReceipt(r), UNCHANGED decisions
  PROVE  Calm
BY DEF TypeOK, ExpireReceipt, Calm

LEMMA ApprovalsCalm == ASSUME TypeOK, Approvals PROVE Calm
<1> USE DEF TypeOK
<1>1. ASSUME NEW r \in Receipts, NEW b \in ApprovalBindings, NEW ttl \in ApprovalTtls,
             NEW now \in ReadBeforeLock, IssueApproval(r, b, ttl, now)
      PROVE  Calm
  BY <1>1 DEF IssueApproval, Calm
<1>2. ASSUME NEW b \in ApprovalBindings, DenyApproval(b)
      PROVE  Calm
  BY <1>2 DEF DenyApproval, Calm, Row, AbsentRow
<1>3. ASSUME NEW r \in Receipts, RevokeApproval(r)
      PROVE  Calm
  BY <1>3 DEF RevokeApproval, Calm, Row, AbsentRow
<1> QED BY <1>1, <1>2, <1>3 DEF Approvals

LEMMA ConsumeCalm ==
  ASSUME TypeOK, NEW t \in Tokens, NEW presented \in ActionBindings, ConsumeAction(t, presented)
  PROVE  Calm
<1>1. ASSUME NEW state \in RowStates \ {"absent"}, decisions[t].state = "issued",
             SetDecision(t, state), UNCHANGED receipts
      PROVE  Calm
  BY <1>1 DEF SetDecision, Calm, TypeOK, Row, AbsentRow
<1>2. CASE UNCHANGED <<receipts, decisions>>
  BY <1>2 DEF Calm
<1>3. CASE ExpirePermit(t)
  BY <1>1, <1>3 DEF ExpirePermit, RowStates
<1>4. CASE ConsumeMatching(t, presented)
  <2>0. decisions[t].state = "issued" /\ decisions[t].binding \in ActionBindings
    BY <1>4 DEF ConsumeMatching, Presentable
  <2>1. CASE RejectUnapproved(t)
    BY <1>2, <2>1 DEF RejectUnapproved
  <2>2. CASE RejectExpiredApproval(t)
    <3>1. decisions[t].binding.receipt \in Receipts
      BY <2>0, <2>2, UsableExists DEF RejectExpiredApproval, ApprovalExpired, AtConsumption
    <3> QED BY <2>2, <3>1, ExpireCalm DEF RejectExpiredApproval
  <2>3. CASE RevokeOnPremises(t)
    BY <1>1, <2>0, <2>3 DEF RevokeOnPremises, RowStates
  <2>4. CASE ConsumePermit(t)
    BY <1>1, <2>0, <2>4 DEF ConsumePermit, RowStates
  <2> QED BY <1>4, <2>1, <2>2, <2>3, <2>4 DEF ConsumeMatching
<1> QED BY <1>2, <1>3, <1>4 DEF ConsumeAction, RejectUnusable, RejectMismatch

LEMMA RevokeCalm ==
  ASSUME TypeOK, NEW affected \in SUBSET Tokens, RevokeAll(affected),
         \A t \in affected : decisions[t].state = "issued"
  PROVE  Calm
BY DEF RevokeAll, Calm, TypeOK, Row, AbsentRow

\* The granting step.  A usable receipt is issued, so by ReceiptsSpent a
\* single-use one has granted nothing yet; the step leaves it consumed.
LEMMA IssueKeepsGrantInv ==
  ASSUME GrantInv, TypeOK', NEW t \in Tokens, NEW b \in ActionBindings, NEW ttl \in ActionTtls,
         NEW now \in ReadBeforeLock, IssueAction(t, b, ttl, now)
  PROVE  GrantInv'
<1>0. TypeOK /\ decisions[t].state = "absent"
  BY DEF IssueAction, FreshToken, GrantInv
<1>1. CASE IssuePermit(t, b, ttl, now)
  <2> DEFINE r == b.receipt
  <2>1. /\ decisions'[t].state = "issued" /\ decisions'[t].binding = b
        /\ \A u \in Tokens \ {t} : decisions'[u] = decisions[u]
    BY <1>0, <1>1 DEF IssuePermit, IssuedRow, TypeOK
  <2>2. r # None => r \in Receipts /\ receipts[r].state = "issued"
    BY <1>1 DEF IssuePermit, ApprovalClear, ApprovalUsable, AtIssue, ActionBindings
  <2>3. \A s \in Receipts : receipts'[s].binding = receipts[s].binding
    BY <1>0, <1>1, <2>2 DEF IssuePermit, SpendsReceipt, TypeOK, Row, AbsentRow
  <2>4. \A s \in Receipts : s # r => receipts'[s] = receipts[s]
    BY <1>0, <1>1, <2>2 DEF IssuePermit, SpendsReceipt, TypeOK
  <2>5. r # None => /\ receipts'[r].state # "absent"
                    /\ receipts[r].binding.scope \in SpentAtIssue => receipts'[r].state = "consumed"
                    /\ receipts[r].binding.scope \notin SpentAtIssue => receipts'[r] = receipts[r]
    BY <1>0, <1>1, <2>2 DEF IssuePermit, SpendsReceipt, TypeOK, Row, AbsentRow
  <2>6. \A u \in Tokens : decisions[u].state # "absent" /\ decisions[u].binding.receipt # None
          => /\ decisions[u].binding.receipt \in Receipts
             /\ receipts[decisions[u].binding.receipt].state # "absent"
    BY <1>0, BindingReceipt DEF GrantInv, ReceiptsSpent
  <2>7. \A u \in Tokens : /\ decisions[u].state # "absent"
                          /\ r # None /\ decisions[u].binding.receipt = r
                          => receipts[r].binding.scope \notin SpentAtIssue
    BY <2>2 DEF GrantInv, ReceiptsSpent
  <2>8. ReceiptsSpent'
    <3> SUFFICES ASSUME NEW u \in Tokens, decisions'[u].state # "absent",
                        decisions'[u].binding.receipt # None
                 PROVE  LET s == decisions'[u].binding.receipt IN
                        /\ receipts'[s].state # "absent"
                        /\ receipts'[s].binding.scope \in SpentAtIssue => receipts'[s].state # "issued"
      BY DEF ReceiptsSpent
    <3>1. CASE decisions'[u].binding.receipt = r
      BY <2>2, <2>3, <2>5, <3>1
    <3>2. CASE decisions'[u].binding.receipt # r
      BY <2>1, <2>4, <2>6, <3>2 DEF GrantInv, ReceiptsSpent
    <3> QED BY <3>1, <3>2
  <2>9. OnePermitPerSingleUseApproval'
    <3> SUFFICES ASSUME NEW u \in Tokens, NEW v \in Tokens,
                        decisions'[u].state # "absent", decisions'[v].state # "absent",
                        decisions'[u].binding.receipt = decisions'[v].binding.receipt,
                        decisions'[u].binding.receipt # None,
                        SingleUse(decisions[u].binding.receipt)'
                 PROVE  u = v
      BY DEF OnePermitPerSingleUseApproval
    <3>1. CASE u # t /\ v # t
      BY <2>1, <2>3, <2>6, <3>1 DEF GrantInv, OnePermitPerSingleUseApproval, SingleUse
    <3>2. CASE u = t \/ v = t
      BY <2>1, <2>2, <2>3, <2>7, <3>2 DEF SingleUse
    <3> QED BY <3>1, <3>2
  <2> QED BY <2>8, <2>9 DEF GrantInv
<1>2. CASE RejectIssue(t, b)
  BY <1>2, CalmKeepsGrantInv DEF RejectIssue, Calm
<1>3. CASE RejectIssueExpired(t, b)
  <2>1. b.receipt \in Receipts
    BY <1>0, <1>3, UsableExists DEF RejectIssueExpired, ApprovalExpired, AtIssue
  <2> QED BY <1>0, <1>3, <2>1, ExpireCalm, CalmKeepsGrantInv DEF RejectIssueExpired
<1> QED BY <1>1, <1>2, <1>3 DEF IssueAction

LEMMA GrantInvNext == GrantInv /\ [Next]_vars => GrantInv'
<1> SUFFICES ASSUME GrantInv, [Next]_vars PROVE GrantInv'
  OBVIOUS
<1>0. TypeOK /\ TypeOK'
  BY TypeNext DEF GrantInv
<1>1. CASE Approvals
  BY <1>0, <1>1, ApprovalsCalm, CalmKeepsGrantInv
<1>2. CASE Permits
  <2>1. ASSUME NEW t \in Tokens, NEW b \in ActionBindings, NEW ttl \in ActionTtls,
               NEW now \in ReadBeforeLock, IssueAction(t, b, ttl, now)
        PROVE  GrantInv'
    BY <1>0, <2>1, IssueKeepsGrantInv
  <2>2. ASSUME NEW t \in Tokens, NEW presented \in ActionBindings, ConsumeAction(t, presented)
        PROVE  GrantInv'
    BY <1>0, <2>2, ConsumeCalm, CalmKeepsGrantInv
  <2>3. ASSUME NEW belief \in Beliefs, RevokeForSupport(belief)
        PROVE  GrantInv'
    BY <1>0, <2>3, RevokeCalm, CalmKeepsGrantInv DEF RevokeForSupport, IssuedUnder
  <2>4. ASSUME NEW e \in Episodes, RevokeForEpisode(e)
        PROVE  GrantInv'
    BY <1>0, <2>4, RevokeCalm, CalmKeepsGrantInv DEF RevokeForEpisode, IssuedIn
  <2> QED BY <1>2, <2>1, <2>2, <2>3, <2>4 DEF Permits
<1>3. CASE Environment \/ UNCHANGED vars
  <2>1. UNCHANGED <<receipts, decisions>>
    BY <1>3 DEF Environment, Tick, FinalizeEpisode, SetBelief, SetConflict, store, vars
  <2> QED BY <1>0, <2>1, CalmKeepsGrantInv DEF Calm
<1> QED BY <1>1, <1>2, <1>3 DEF Next

\* issue_action grants at most one permit under an exact-action or single-use
\* approval, for any number of concurrent callers holding the same receipt digest.
THEOREM SingleGrant == Spec => []OnePermitPerSingleUseApproval
<1>1. Init => GrantInv
  <2>1. \A t \in Tokens : Init => decisions[t].state = "absent"
    BY DEF Init, AbsentRow
  <2> QED BY <2>1, TypeInit DEF GrantInv, ReceiptsSpent, OnePermitPerSingleUseApproval
<1>2. GrantInv => OnePermitPerSingleUseApproval
  BY DEF GrantInv
<1> QED BY <1>1, <1>2, GrantInvNext, PTL DEF Spec

-----------------------------------------------------------------------------
(* Counting by pairing off, for the modules that extend this one.          *)

LEMMA OneToOneCounts ==
  ASSUME NEW S, IsFiniteSet(S), NEW T, NEW f \in [S -> T],
         \A x, y \in S : f[x] = f[y] => x = y, \A t \in T : \E x \in S : f[x] = t
  PROVE  Cardinality(T) = Cardinality(S)
<1>1. f \in Bijection(S, T)
  BY DEF Bijection, Injection, IsInjective, Surjection
<1> QED BY <1>1, FS_Bijection DEF ExistsBijection
=============================================================================
