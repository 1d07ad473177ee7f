--------------------------- MODULE DispatchProofs ---------------------------
(***************************************************************************)
(* Theorems about Dispatch: any number of proxies, gateways, permits,      *)
(* episodes and beliefs over one enforcement store, and any bounds.  Then  *)
(* about the algorithms the front ends rely on, for inputs of any size.    *)
(***************************************************************************)
EXTENDS Dispatch, AuthorityProofs, SelectionProofs

-----------------------------------------------------------------------------
(* Types.  The local variables of a call are those of one facade call.     *)

EvaluateSteps == {"gate", "decide", "bind", "approval", "issue", "record", "permitted", "consumed"}
TokenSteps == {"record", "permitted", "consumed"}

CallBindings == [episode : Episodes, action : Actions \cup {None}, supports : SUBSET Beliefs,
                 receipt : Receipts \cup {None}]
Calls == [at : Steps, seen : SUBSET Beliefs, binding : CallBindings \cup {None},
          token : Tokens \cup {None}]

CallOK(k) ==
  /\ k \in Calls
  /\ k.at # "idle" => k.binding \in CallBindings
  /\ k.at \in EvaluateSteps => k.binding \in ActionBindings
  /\ k.at \in {"retract", "revoke"} => \E belief \in Beliefs : k.seen = {belief}
  /\ k.token \in Tokens <=> k.at \in TokenSteps

CallsOK == call \in [Callers -> Calls] /\ \A c \in Callers : CallOK(call[c])

ProxyStates == [digest : Schemas \cup {None}, tools : Schemas \cup {None}, verified : BOOLEAN,
                shown : Schemas \cup {None}]
ServiceStates == [episode : Episodes \cup {None}, answered : Seq(Requests)]

FlowSetsOK ==
  /\ audited \subseteq Tokens /\ late \subseteq Tokens
  /\ retracted \in [Episodes -> SUBSET Beliefs] /\ swept \subseteq Episodes

FrontsOK ==
  /\ proxy \in [Proxies -> ProxyStates]
  /\ service \in [Services -> ServiceStates]
  /\ effects \in [Tokens -> Nat]

DispatchTypeOK == TypeOK /\ CallsOK /\ FlowSetsOK /\ FrontsOK

LEMMA TypesSuffice == DispatchTypeOK => FlowTypeOK
BY DEF DispatchTypeOK, CallsOK, CallOK, Calls, FlowSetsOK, FlowTypeOK, TokenSteps

-----------------------------------------------------------------------------
(* How one caller's step changes the calls.                                *)

\* A caller moves to k, and the others stay where they are.
MovesTo(c, k) ==
  /\ CallOK(k)
  /\ call'[c] = k
  /\ \A d \in Callers \ {c} : call'[d] = call[d]

LEMMA MoveType ==
  ASSUME CallsOK, NEW c \in Callers, NEW k, CallOK(k), call' = [call EXCEPT ![c] = k]
  PROVE  MovesTo(c, k) /\ CallsOK'
BY DEF CallsOK, CallOK, MovesTo

LEMMA ReturnMoves ==
  ASSUME CallsOK, NEW c \in Callers, Return(c)
  PROVE  MovesTo(c, Idle) /\ CallsOK' /\ Idle.at = "idle"
<1>1. CallOK(Idle) /\ Idle.at = "idle"
  BY FlowAssumption DEF Idle, CallOK, Calls, Steps, EvaluateSteps, TokenSteps
<1> QED BY <1>1, MoveType DEF Return

\* Going on to another step of the same call.
LEMMA GotoMoves ==
  ASSUME CallsOK, NEW c \in Callers, NEW step \in Steps, Goto(c, step),
         step # "idle", call[c].at # "idle",
         step \in EvaluateSteps => call[c].at \in EvaluateSteps,
         step \in {"retract", "revoke"} => call[c].at \in {"retract", "revoke"},
         step \in TokenSteps <=> call[c].at \in TokenSteps
  PROVE  MovesTo(c, [call[c] EXCEPT !.at = step]) /\ CallsOK'
<1> DEFINE k == [call[c] EXCEPT !.at = step]
<1>1. /\ call[c] \in Calls /\ CallOK(call[c])
  BY DEF CallsOK
<1>2. /\ k \in Calls /\ k.at = step /\ k.seen = call[c].seen
      /\ k.binding = call[c].binding /\ k.token = call[c].token
  BY <1>1 DEF Calls
<1>3. CallOK(k)
  <2> HIDE DEF k
  <2> QED BY <1>1, <1>2 DEF CallOK
<1>4. call' = [call EXCEPT ![c] = k]
  BY DEF Goto
<1> HIDE DEF k
<1>5. MovesTo(c, k) /\ CallsOK'
  BY <1>3, <1>4, MoveType
<1> QED BY <1>5 DEF k

\* The facade calls begin.
LEMMA BeginEvaluateMoves ==
  ASSUME CallsOK, NEW c \in Callers, NEW e \in Episodes, NEW a \in Actions, BeginEvaluate(c, e, a)
  PROVE  /\ CallsOK' /\ \A d \in Callers \ {c} : call'[d] = call[d]
         /\ call[c].at = "idle" /\ call'[c].at = "gate"
<1> DEFINE k == [at |-> "gate", seen |-> {}, token |-> None,
                 binding |-> [episode |-> e, action |-> a, supports |-> {}, receipt |-> None]]
<1>1. k.binding \in ActionBindings /\ k.binding \in CallBindings
  BY DEF ActionBindings, CallBindings
<1>2. CallOK(k) /\ k.at = "gate"
  BY <1>1, FlowAssumption DEF CallOK, Calls, Steps, EvaluateSteps, TokenSteps
<1>3. call' = [call EXCEPT ![c] = k] /\ call[c].at = "idle"
  BY DEF BeginEvaluate, At
<1> HIDE DEF k
<1> QED BY <1>2, <1>3, MoveType DEF MovesTo

LEMMA BeginRetractMoves ==
  ASSUME CallsOK, NEW c \in Callers, NEW e \in Episodes, NEW belief \in Beliefs,
         BeginRetract(c, e, belief)
  PROVE  /\ CallsOK' /\ \A d \in Callers \ {c} : call'[d] = call[d]
         /\ call[c].at = "idle" /\ call'[c].at = "retract"
         /\ call'[c].seen = {belief} /\ call'[c].binding.episode = e
<1> DEFINE k == [at |-> "retract", seen |-> {belief}, token |-> None,
                 binding |-> [episode |-> e, action |-> None, supports |-> {}, receipt |-> None]]
<1>1. k.binding \in CallBindings
  BY DEF CallBindings
<1>2. CallOK(k) /\ k.at = "retract" /\ k.seen = {belief} /\ k.binding.episode = e
  BY <1>1, FlowAssumption DEF CallOK, Calls, Steps, EvaluateSteps, TokenSteps
<1>3. call' = [call EXCEPT ![c] = k] /\ call[c].at = "idle"
  BY DEF BeginRetract, At
<1> HIDE DEF k
<1> QED BY <1>2, <1>3, MoveType DEF MovesTo

LEMMA BeginFinalizeMoves ==
  ASSUME CallsOK, NEW c \in Callers, NEW e \in Episodes, BeginFinalize(c, e)
  PROVE  /\ CallsOK' /\ \A d \in Callers \ {c} : call'[d] = call[d]
         /\ call[c].at = "idle" /\ call'[c].binding.episode = e
         /\ call'[c].at = IF e \in finalized THEN "sweep" ELSE "close"
<1> DEFINE k == [at |-> IF e \in finalized THEN "sweep" ELSE "close", seen |-> {}, token |-> None,
                 binding |-> [episode |-> e, action |-> None, supports |-> {}, receipt |-> None]]
<1>1. k.binding \in CallBindings
  BY DEF CallBindings
<1>2. /\ CallOK(k) /\ k.binding.episode = e
      /\ k.at = IF e \in finalized THEN "sweep" ELSE "close"
  BY <1>1, FlowAssumption DEF CallOK, Calls, Steps, EvaluateSteps, TokenSteps
<1>3. call' = [call EXCEPT ![c] = k] /\ call[c].at = "idle"
  BY DEF BeginFinalize, At
<1> HIDE DEF k
<1> QED BY <1>2, <1>3, MoveType DEF MovesTo

\* The four reads of evaluate_action change nothing but the caller's variables, and
\* lead to no step that holds a token.
ReadSteps == {"gate", "decide", "bind", "approval"}

GateReads(c) == GateReadBeliefs(c) \/ GateDecide(c) \/ BindSupports(c) \/ ReadApproval(c)

LEMMA ReceiptFound ==
  ASSUME TypeOK, NEW b
  PROVE  CurrentApproval(b) \in Receipts \cup {None}
<1>1. CASE ReceiptsIssuedFor(b) = {}
  BY <1>1 DEF CurrentApproval
<1>2. CASE ReceiptsIssuedFor(b) # {}
  <2>1. Len(log) \in Nat /\ ReceiptsIssuedFor(b) \in SUBSET (0..Len(log))
    BY DEF ReceiptsIssuedFor, TypeOK
  <2>2. NewestIssuedFor(b) \in ReceiptsIssuedFor(b)
    BY <1>2, <2>1, GreatestNatural DEF NewestIssuedFor
  <2>3. \A f \in Events : f.kind = "APPROVAL_RECEIPT_ISSUED" => f.receipt \in Receipts
    BY DEF Events
  <2>4. \A i \in ReceiptsIssuedFor(b) : log[i] \in Events /\ log[i].kind = "APPROVAL_RECEIPT_ISSUED"
    BY DEF ReceiptsIssuedFor, TypeOK
  <2>5. log[NewestIssuedFor(b)].receipt \in Receipts
    BY <2>2, <2>3, <2>4
  <2> QED BY <1>2, <2>5 DEF CurrentApproval
<1> QED BY <1>1, <1>2

LEMMA GateReadsMove ==
  ASSUME TypeOK, CallsOK, NEW c \in Callers, GateReads(c)
  PROVE  /\ CallsOK' /\ \A d \in Callers \ {c} : call'[d] = call[d]
         /\ call[c].at \in ReadSteps
         /\ \/ call'[c].at = "idle"
            \/ /\ call'[c].at \in {"decide", "bind", "approval", "issue"}
               /\ call'[c].at = "issue" =>
                    (ApprovalRequired => call'[c].binding.receipt # None)
         /\ UNCHANGED <<store, clock, ledger, flow>>
<1>0. /\ UNCHANGED <<store, clock, ledger, flow>> /\ CallOK(call[c]) /\ call[c] \in Calls
      /\ call[c].at \in ReadSteps
  BY DEF GateReads, GateReadBeliefs, GateDecide, BindSupports, ReadApproval, At, CallsOK, ReadSteps
<1>1. /\ call[c].binding \in ActionBindings /\ call[c].binding \in CallBindings
      /\ call[c].token \notin Tokens /\ call[c].token \in Tokens \cup {None}
      /\ call[c].seen \in SUBSET Beliefs /\ call[c].binding.episode \in Episodes
  BY <1>0 DEF CallOK, Calls, ReadSteps, EvaluateSteps, TokenSteps, ActionBindings
<1>2. ASSUME NEW k, call' = [call EXCEPT ![c] = k], k.at \in {"decide", "bind", "approval", "issue"},
             k \in Calls, k.token = call[c].token, k.binding \in ActionBindings,
             k.at = "issue" => (ApprovalRequired => k.binding.receipt # None)
      PROVE  /\ CallsOK' /\ \A d \in Callers \ {c} : call'[d] = call[d]
             /\ \/ call'[c].at = "idle"
                \/ /\ call'[c].at \in {"decide", "bind", "approval", "issue"}
                   /\ call'[c].at = "issue" =>
                        (ApprovalRequired => call'[c].binding.receipt # None)
  <2>1. CallOK(k)
    BY <1>1, <1>2 DEF CallOK, EvaluateSteps, TokenSteps, ActionBindings, CallBindings
  <2> QED BY <1>2, <2>1, MoveType DEF MovesTo
<1>3. CASE GateReadBeliefs(c)
  <2> DEFINE k == [call[c] EXCEPT !.at = "decide", !.seen = inBeliefs[EpisodeAt(c)]]
  <2>1. call' = [call EXCEPT ![c] = k]
    BY <1>3 DEF GateReadBeliefs, CallsOK
  <2>2. inBeliefs[EpisodeAt(c)] \in SUBSET Beliefs
    BY <1>1 DEF EpisodeAt, TypeOK
  <2>3. k \in Calls /\ k.at = "decide" /\ k.token = call[c].token /\ k.binding = call[c].binding
    BY <1>0, <2>2 DEF Calls, Steps
  <2> HIDE DEF k
  <2> QED BY <1>0, <1>1, <1>2, <2>1, <2>3
<1>4. CASE GateDecide(c)
  <2>1. CASE Goto(c, "bind")
    <3>1. "bind" \in Steps /\ call[c].at \in EvaluateSteps /\ call[c].at \notin TokenSteps
          /\ call[c].at # "idle"
      BY <1>0 DEF Steps, EvaluateSteps, TokenSteps, ReadSteps
    <3>2. MovesTo(c, [call[c] EXCEPT !.at = "bind"]) /\ CallsOK'
      BY <2>1, <3>1, GotoMoves DEF TokenSteps
    <3>3. call'[c].at = "bind"
      BY <1>0, <3>2 DEF MovesTo, Calls
    <3> QED BY <1>0, <3>2, <3>3 DEF MovesTo
  <2>2. CASE Return(c)
    BY <1>0, <2>2, ReturnMoves DEF MovesTo
  <2> QED BY <1>4, <2>1, <2>2 DEF GateDecide
<1>5. CASE BindSupports(c)
  <2>1. PICK supports \in Supporting(inBeliefs[EpisodeAt(c)]) :
          call' = [call EXCEPT ![c].at = "approval", ![c].binding.supports = supports]
    BY <1>5 DEF BindSupports
  <2>2. supports \in SUBSET Beliefs
    BY FlowAssumption DEF Supporting
  <2> DEFINE b == [call[c].binding EXCEPT !.supports = supports]
             k == [call[c] EXCEPT !.at = "approval", !.binding = b]
  <2>3. b \in ActionBindings
    BY <1>1, <2>2 DEF ActionBindings
  <2>4. b \in CallBindings
    BY <2>3 DEF ActionBindings, CallBindings
  <2>5. k \in Calls /\ k.at = "approval" /\ k.token = call[c].token /\ k.binding = b
    <3> HIDE DEF b
    <3> QED BY <1>0, <2>4 DEF Calls, Steps
  <2>6. call' = [call EXCEPT ![c] = k]
    BY <2>1
  <2> HIDE DEF k, b
  <2> QED BY <1>0, <1>2, <2>3, <2>5, <2>6
<1>6. CASE ReadApproval(c)
  <2> DEFINE receipt == CurrentApproval([episode |-> call[c].binding.episode,
                                         action |-> call[c].binding.action,
                                         scope |-> "exact_action"])
  <2>1. receipt \in Receipts \cup {None}
    BY ReceiptFound
  <2>2. CASE ApprovalRequired /\ receipt = None
    <3>1. Return(c)
      BY <1>6, <2>2 DEF ReadApproval
    <3> QED BY <1>0, <3>1, ReturnMoves DEF MovesTo
  <2>3. CASE ~(ApprovalRequired /\ receipt = None)
    <3>1. call' = [call EXCEPT ![c].at = "issue", ![c].binding.receipt = receipt]
      BY <1>6, <2>3 DEF ReadApproval
    <3> DEFINE b == [call[c].binding EXCEPT !.receipt = receipt]
               k == [call[c] EXCEPT !.at = "issue", !.binding = b]
    <3>2. b \in ActionBindings /\ b.receipt = receipt
      <4> HIDE DEF receipt
      <4> QED BY <1>1, <2>1 DEF ActionBindings
    <3>3. b \in CallBindings
      BY <3>2 DEF ActionBindings, CallBindings
    <3>4. k \in Calls /\ k.at = "issue" /\ k.token = call[c].token /\ k.binding = b
      <4> HIDE DEF b
      <4> QED BY <1>0, <3>3 DEF Calls, Steps
    <3>5. call' = [call EXCEPT ![c] = k]
      BY <3>1
    <3> HIDE DEF k, b
    <3> QED BY <1>0, <1>2, <2>3, <3>2, <3>4, <3>5
  <2> QED BY <2>2, <2>3
<1> QED BY <1>0, <1>3, <1>4, <1>5, <1>6 DEF GateReads

-----------------------------------------------------------------------------
(* What the transactions of the store do to the permits.                   *)

LEMMA IssueEffect ==
  ASSUME TypeOK, NEW t \in Tokens, NEW b, NEW ttl, NEW now, IssueAction(t, b, ttl, now)
  PROVE  /\ UNCHANGED <<clock, ledger>>
         /\ decisions[t].state = "absent"
         /\ \A u \in Tokens \ {t} : decisions'[u] = decisions[u]
         /\ \/ UNCHANGED decisions
            \/ /\ decisions'[t].state = "issued" /\ decisions'[t].binding = b
               /\ ApprovalClear(b, AtIssue)
<1>1. UNCHANGED <<clock, ledger>> /\ decisions[t].state = "absent"
  BY DEF IssueAction, FreshToken
<1>2. CASE IssuePermit(t, b, ttl, now)
  BY <1>1, <1>2 DEF IssuePermit, IssuedRow, TypeOK
<1>3. CASE UNCHANGED decisions
  BY <1>1, <1>3
<1> QED BY <1>1, <1>2, <1>3 DEF IssueAction, RejectIssue, RejectIssueExpired

LEMMA ConsumeEffect ==
  ASSUME TypeOK, NEW t \in Tokens, NEW presented, ConsumeAction(t, presented)
  PROVE  /\ UNCHANGED <<clock, ledger>>
         /\ \A u \in Tokens \ {t} : decisions'[u] = decisions[u]
         /\ \/ UNCHANGED decisions
            \/ /\ decisions[t].state = "issued"
               /\ decisions'[t].binding = decisions[t].binding
               /\ \/ decisions'[t].state \in {"expired", "revoked"}
                  \/ decisions'[t].state = "consumed" /\ PremisesHold(decisions[t].binding)
<1>0. UNCHANGED <<clock, ledger>>
  BY DEF ConsumeAction
<1>1. ASSUME decisions[t].state = "issued", NEW state, SetDecision(t, state)
      PROVE  /\ \A u \in Tokens \ {t} : decisions'[u] = decisions[u]
             /\ decisions'[t].binding = decisions[t].binding /\ decisions'[t].state = state
  BY <1>1 DEF SetDecision, TypeOK, Row, AbsentRow
<1>2. CASE UNCHANGED decisions
  BY <1>0, <1>2
<1>3. CASE ExpirePermit(t)
  BY <1>0, <1>1, <1>3 DEF ExpirePermit
<1>4. CASE ConsumeMatching(t, presented)
  <2>0. decisions[t].state = "issued"
    BY <1>4 DEF ConsumeMatching, Presentable
  <2>1. CASE RevokeOnPremises(t)
    BY <1>0, <1>1, <2>0, <2>1 DEF RevokeOnPremises
  <2>2. CASE ConsumePermit(t)
    BY <1>0, <1>1, <2>0, <2>2 DEF ConsumePermit
  <2> QED BY <1>2, <1>4, <2>1, <2>2 DEF ConsumeMatching, RejectUnapproved, RejectExpiredApproval
<1> QED BY <1>2, <1>3, <1>4 DEF ConsumeAction, RejectUnusable, RejectMismatch

LEMMA RevokeEffect ==
  ASSUME TypeOK, NEW affected \in SUBSET Tokens, RevokeAll(affected),
         \A t \in affected : decisions[t].state = "issued"
  PROVE  /\ UNCHANGED <<clock, ledger>>
         /\ \A t \in affected : /\ decisions'[t].state = "revoked"
                                /\ decisions'[t].binding = decisions[t].binding
         /\ \A t \in Tokens \ affected : decisions'[t] = decisions[t]
BY DEF RevokeAll, TypeOK, Row, AbsentRow

LEMMA OtherEffect ==
  ASSUME Approvals \/ Environment
  PROVE  UNCHANGED decisions
BY DEF Approvals, IssueApproval, DenyApproval, RevokeApproval, Environment, Tick, FinalizeEpisode,
       SetBelief, SetConflict, store

-----------------------------------------------------------------------------
(* The facade's transactions.                                              *)

LEMMA IssueMoves ==
  ASSUME CallsOK, TypeOK, NEW c \in Callers, Issue(c)
  PROVE  /\ CallsOK' /\ \A d \in Callers \ {c} : call'[d] = call[d]
         /\ call[c].at = "issue" /\ call[c].binding \in ActionBindings
         /\ UNCHANGED <<audited, retracted, swept>>
         /\ \E t \in Tokens, ttl \in ActionTtls, now \in ReadBeforeLock :
              /\ IssueAction(t, call[c].binding, ttl, now)
              /\ \/ /\ decisions'[t].state = "issued"
                    /\ call'[c].at = "record" /\ call'[c].token = t
                    /\ late' = IF EpisodeAt(c) \in finalized THEN late \cup {t} ELSE late
                 \/ /\ decisions'[t].state # "issued"
                    /\ call'[c].at = "idle" /\ UNCHANGED late
<1>0. /\ call[c].at = "issue" /\ CallOK(call[c]) /\ call[c] \in Calls
      /\ UNCHANGED <<audited, retracted, swept>>
  BY DEF Issue, At, CallsOK
<1>1. call[c].binding \in ActionBindings
  BY <1>0 DEF CallOK, EvaluateSteps
<1>2. PICK t \in Tokens, ttl \in ActionTtls, now \in ReadBeforeLock :
        /\ IssueAction(t, call[c].binding, ttl, now)
        /\ IF decisions'[t].state = "issued"
           THEN /\ call' = [call EXCEPT ![c].at = "record", ![c].token = t]
                /\ late' = IF EpisodeAt(c) \in finalized THEN late \cup {t} ELSE late
           ELSE Return(c) /\ UNCHANGED late
  BY DEF Issue
<1>3. CASE decisions'[t].state = "issued"
  <2> DEFINE k == [call[c] EXCEPT !.at = "record", !.token = t]
  <2>1. call' = [call EXCEPT ![c] = k]
    BY <1>2, <1>3 DEF CallsOK
  <2>2. /\ k \in Calls /\ k.at = "record" /\ k.token = t
        /\ k.binding = call[c].binding
    BY <1>0 DEF Calls, Steps
  <2> HIDE DEF k
  <2>3. CallOK(k)
    BY <1>1, <2>2 DEF CallOK, EvaluateSteps, TokenSteps, ActionBindings, CallBindings
  <2> QED BY <1>0, <1>1, <1>2, <1>3, <2>1, <2>2, <2>3, MoveType DEF MovesTo
<1>4. CASE decisions'[t].state # "issued"
  BY <1>0, <1>1, <1>2, <1>4, ReturnMoves DEF MovesTo
<1> QED BY <1>3, <1>4

\* Recording, consuming and dropping a permit: the token stays in hand, or goes.
LEMMA RecordMoves ==
  ASSUME CallsOK, NEW c \in Callers, Record(c)
  PROVE  /\ CallsOK' /\ \A d \in Callers \ {c} : call'[d] = call[d]
         /\ call[c].at = "record" /\ call'[c].at = "permitted"
         /\ call'[c].token = call[c].token /\ call[c].token \in Tokens
         /\ audited' = audited \cup {call[c].token}
         /\ UNCHANGED <<store, clock, ledger, retracted, swept, late>>
<1>0. call[c].at = "record" /\ CallOK(call[c]) /\ call[c] \in Calls
  BY DEF Record, At, CallsOK
<1>1. MovesTo(c, [call[c] EXCEPT !.at = "permitted"]) /\ CallsOK'
  BY <1>0, GotoMoves DEF Record, Steps, EvaluateSteps, TokenSteps
<1>2. call'[c].at = "permitted" /\ call'[c].token = call[c].token
  BY <1>0, <1>1 DEF MovesTo, Calls
<1> QED BY <1>0, <1>1, <1>2 DEF Record, MovesTo, CallOK, TokenSteps

LEMMA ConsumeMoves ==
  ASSUME CallsOK, NEW c \in Callers, Consume(c)
  PROVE  /\ CallsOK' /\ \A d \in Callers \ {c} : call'[d] = call[d]
         /\ call[c].at = "permitted" /\ call[c].token \in Tokens
         /\ call[c].binding \in ActionBindings
         /\ ConsumeAction(call[c].token, call[c].binding)
         /\ \/ /\ Spent(call[c].token)
               /\ call'[c].at = "consumed" /\ call'[c].token = call[c].token
            \/ ~Spent(call[c].token) /\ call'[c].at = "idle"
         /\ UNCHANGED flow
<1>0. call[c].at = "permitted" /\ CallOK(call[c]) /\ call[c] \in Calls
  BY DEF Consume, At, CallsOK
<1>1. call[c].token \in Tokens /\ call[c].binding \in ActionBindings
  BY <1>0 DEF CallOK, EvaluateSteps, TokenSteps
<1>2. CASE Spent(call[c].token)
  <2>1. MovesTo(c, [call[c] EXCEPT !.at = "consumed"]) /\ CallsOK'
    BY <1>0, <1>2, GotoMoves DEF Consume, Steps, EvaluateSteps, TokenSteps
  <2>2. call'[c].at = "consumed" /\ call'[c].token = call[c].token
    BY <1>0, <2>1 DEF MovesTo, Calls
  <2> QED BY <1>0, <1>1, <1>2, <2>1, <2>2 DEF Consume, MovesTo
<1>3. CASE ~Spent(call[c].token)
  BY <1>0, <1>1, <1>3, ReturnMoves DEF Consume, MovesTo
<1> QED BY <1>2, <1>3

LEMMA RetractMoves ==
  ASSUME CallsOK, NEW c \in Callers, RetractBelief(c)
  PROVE  /\ CallsOK' /\ \A d \in Callers \ {c} : call'[d] = call[d]
         /\ call[c].at = "retract" /\ call'[c].at = "revoke"
         /\ call'[c].seen = call[c].seen /\ call'[c].binding = call[c].binding
         /\ EpisodeAt(c) \in Episodes /\ \E belief \in Beliefs : call[c].seen = {belief}
<1>0. call[c].at = "retract" /\ CallOK(call[c]) /\ call[c] \in Calls
  BY DEF RetractBelief, At, CallsOK
<1>1. MovesTo(c, [call[c] EXCEPT !.at = "revoke"]) /\ CallsOK'
  BY <1>0, GotoMoves DEF RetractBelief, Steps, EvaluateSteps, TokenSteps
<1>2. /\ call'[c].at = "revoke" /\ call'[c].seen = call[c].seen
      /\ call'[c].binding = call[c].binding
  BY <1>0, <1>1 DEF MovesTo, Calls
<1>3. EpisodeAt(c) \in Episodes /\ \E belief \in Beliefs : call[c].seen = {belief}
  BY <1>0 DEF CallOK, EpisodeAt, CallBindings
<1> QED BY <1>0, <1>1, <1>2, <1>3 DEF MovesTo

LEMMA RevokeMoves ==
  ASSUME CallsOK, NEW c \in Callers, RevokeDependents(c)
  PROVE  /\ CallsOK' /\ \A d \in Callers \ {c} : call'[d] = call[d]
         /\ call[c].at = "revoke" /\ call'[c].at = "idle"
         /\ UNCHANGED flow
         /\ \/ UNCHANGED <<store, clock, ledger>>
            \/ \E belief \in Beliefs : RevokeForSupport(belief)
<1>0. call[c].at = "revoke" /\ CallOK(call[c]) /\ call[c].seen \in SUBSET Beliefs
  BY DEF RevokeDependents, At, CallsOK, CallOK, Calls
<1>1. MovesTo(c, Idle) /\ CallsOK' /\ Idle.at = "idle"
  BY ReturnMoves DEF RevokeDependents
<1> QED BY <1>0, <1>1 DEF RevokeDependents, MovesTo

LEMMA CloseMoves ==
  ASSUME CallsOK, NEW c \in Callers, CloseEpisode(c)
  PROVE  /\ CallsOK' /\ \A d \in Callers \ {c} : call'[d] = call[d]
         /\ call[c].at = "close" /\ call'[c].at = "sweep"
         /\ call'[c].binding = call[c].binding /\ EpisodeAt(c) \in Episodes
<1>0. call[c].at = "close" /\ CallOK(call[c]) /\ call[c] \in Calls
  BY DEF CloseEpisode, At, CallsOK
<1>1. MovesTo(c, [call[c] EXCEPT !.at = "sweep"]) /\ CallsOK'
  BY <1>0, GotoMoves DEF CloseEpisode, Steps, EvaluateSteps, TokenSteps
<1>2. call'[c].at = "sweep" /\ call'[c].binding = call[c].binding
  BY <1>0, <1>1 DEF MovesTo, Calls
<1>3. EpisodeAt(c) \in Episodes
  BY <1>0 DEF CallOK, EpisodeAt, CallBindings
<1> QED BY <1>0, <1>1, <1>2, <1>3 DEF MovesTo

LEMMA SweepMoves ==
  ASSUME CallsOK, NEW c \in Callers, SweepPermits(c)
  PROVE  /\ CallsOK' /\ \A d \in Callers \ {c} : call'[d] = call[d]
         /\ call[c].at = "sweep" /\ call'[c].at = "swept"
         /\ call'[c].binding = call[c].binding /\ EpisodeAt(c) \in Episodes
         /\ UNCHANGED flow
         /\ \/ UNCHANGED <<store, clock, ledger>> /\ IssuedIn(EpisodeAt(c)) = {}
            \/ RevokeForEpisode(EpisodeAt(c))
<1>0. call[c].at = "sweep" /\ CallOK(call[c]) /\ call[c] \in Calls
  BY DEF SweepPermits, At, CallsOK
<1>1. MovesTo(c, [call[c] EXCEPT !.at = "swept"]) /\ CallsOK'
  BY <1>0, GotoMoves DEF SweepPermits, Steps, EvaluateSteps, TokenSteps
<1>2. call'[c].at = "swept" /\ call'[c].binding = call[c].binding
  BY <1>0, <1>1 DEF MovesTo, Calls
<1>3. EpisodeAt(c) \in Episodes
  BY <1>0 DEF CallOK, EpisodeAt, CallBindings
<1> QED BY <1>0, <1>1, <1>2, <1>3 DEF MovesTo, SweepPermits

LEMMA FinalizedMoves ==
  ASSUME CallsOK, NEW c \in Callers, ReturnFinalized(c)
  PROVE  /\ CallsOK' /\ \A d \in Callers \ {c} : call'[d] = call[d]
         /\ call[c].at = "swept" /\ call'[c].at = "idle"
         /\ EpisodeAt(c) \in Episodes
<1>0. call[c].at = "swept" /\ CallOK(call[c])
  BY DEF ReturnFinalized, At, CallsOK
<1>1. EpisodeAt(c) \in Episodes
  BY <1>0 DEF CallOK, EpisodeAt, CallBindings
<1> QED BY <1>0, <1>1, ReturnMoves DEF ReturnFinalized, MovesTo

-----------------------------------------------------------------------------
(* Every step of a front end is a facade transaction, an ingestion, the    *)
(* effect itself, or moves nothing but local variables; others act on the  *)
(* store beside the front ends.                                            *)

\* A call begins, reads or is given up.
LocalStep(c) ==
  /\ CallsOK' /\ \A d \in Callers \ {c} : call'[d] = call[d]
  /\ UNCHANGED <<store, clock, ledger, flow, keyed, effects>>
  /\ \/ call'[c] = call[c]
     \/ call'[c].at \in {"idle", "gate", "decide", "bind", "approval", "close"}
     \/ call'[c].at = "issue" /\ (ApprovalRequired => call'[c].binding.receipt # None)
     \/ call'[c].at = "sweep" /\ call'[c].binding.episode \in finalized
     \/ /\ call'[c].at = "retract"
        /\ LET e == call'[c].binding.episode
           IN  e \in Episodes /\ call'[c].seen \subseteq inBeliefs[e] \cup retracted[e]

Transaction(c) ==
  /\ \/ Issue(c) \/ Record(c) \/ Consume(c)
     \/ RetractBelief(c) \/ RevokeDependents(c)
     \/ CloseEpisode(c) \/ SweepPermits(c) \/ ReturnFinalized(c)
  /\ UNCHANGED <<keyed, effects>>

OtherStep ==
  /\ Approvals \/ Tick \/ (\E e \in Episodes : SetConflict(e)) \/ UNCHANGED vars
  /\ UNCHANGED <<call, flow, keyed, effects>>

CallerStep(c) == LocalStep(c) \/ Transaction(c) \/ IngestEvidence(c) \/ CallTool(c)

LEMMA BeginCases ==
  ASSUME DispatchTypeOK, NEW c \in Callers, Begin(c)
  PROVE  CallerStep(c)
<1> USE DEF DispatchTypeOK
<1>1. ASSUME NEW e \in Episodes, NEW a \in Actions, BeginEvaluate(c, e, a), UNCHANGED <<keyed, effects>>
      PROVE  LocalStep(c)
  BY <1>1, BeginEvaluateMoves DEF BeginEvaluate, LocalStep
<1>2. ASSUME NEW e \in Episodes, BeginFinalize(c, e), UNCHANGED <<keyed, effects>>
      PROVE  LocalStep(c)
  BY <1>2, BeginFinalizeMoves DEF BeginFinalize, LocalStep
<1>3. ASSUME NEW e \in Episodes, NEW belief \in Beliefs, BeginRetract(c, e, belief),
             UNCHANGED <<keyed, effects>>
      PROVE  LocalStep(c)
  <2>1. belief \in inBeliefs[e] \cup retracted[e] /\ UNCHANGED <<store, clock, ledger, flow>>
    BY <1>3 DEF BeginRetract
  <2> QED BY <1>3, <2>1, BeginRetractMoves DEF LocalStep
<1>4. ASSUME UNCHANGED <<call, store, clock, ledger, flow, keyed, effects>>
      PROVE  LocalStep(c)
  BY <1>4 DEF LocalStep, CallsOK
<1>5. ASSUME NEW e \in Episodes, NEW a \in Actions, Invoke(c, e, a) PROVE LocalStep(c)
  BY <1>1, <1>4, <1>5 DEF Invoke
<1>6. ASSUME NEW e \in Episodes, NEW a \in Actions, Authorize(c, e, a) PROVE LocalStep(c)
  BY <1>1, <1>6 DEF Authorize
<1>7. ASSUME NEW e \in Episodes, StartEpisode(c, e) PROVE LocalStep(c)
  BY <1>4, <1>7 DEF StartEpisode
<1>8. ASSUME Serve(c) PROVE LocalStep(c)
  <2>1. ASSUME NEW key, Fresh(c, key) PROVE service[c].episode \in Episodes
    BY <2>1 DEF Fresh, FrontsOK, ServiceStates
  <2> QED BY <1>1, <1>2, <1>8, <2>1 DEF Serve
<1>9. ASSUME CallLibrary(c) PROVE LocalStep(c)
  BY <1>2, <1>3, <1>9 DEF CallLibrary, fronts
<1> QED BY <1>5, <1>6, <1>7, <1>8, <1>9 DEF Begin, CallerStep

LEMMA FrontStepCases ==
  ASSUME DispatchTypeOK, NEW c \in Callers, FrontStep(c)
  PROVE  CallerStep(c)
<1> USE DEF DispatchTypeOK
<1>0. Facade(c) /\ UNCHANGED <<keyed, effects>>
  BY DEF FrontStep
<1>1. CASE GateReads(c)
  <2>1. LocalStep(c)
    BY <1>0, <1>1, GateReadsMove DEF LocalStep
  <2> QED BY <2>1 DEF CallerStep
<1>2. CASE DropPermit(c)
  <2>1. LocalStep(c)
    BY <1>0, <1>2, ReturnMoves DEF DropPermit, LocalStep, MovesTo
  <2> QED BY <2>1 DEF CallerStep
<1> QED BY <1>0, <1>1, <1>2 DEF Facade, GateReads, CallerStep, Transaction

LEMMA RestartCases ==
  ASSUME DispatchTypeOK, NEW c \in Callers, Restart(c)
  PROVE  CallerStep(c)
<1>1. LocalStep(c)
  BY ReturnMoves DEF DispatchTypeOK, Restart, LocalStep, MovesTo
<1> QED BY <1>1 DEF CallerStep

LEMMA StepCases ==
  ASSUME DispatchTypeOK, [DispatchNext]_frontVars
  PROVE  OtherStep \/ \E c \in Callers : CallerStep(c)
<1>1. CASE UNCHANGED frontVars
  BY <1>1 DEF frontVars, OtherStep, vars, flow
<1>2. CASE Others /\ UNCHANGED fronts
  BY <1>2 DEF Others, OtherStep, fronts
<1>3. ASSUME NEW c \in Callers, Begin(c) \/ FrontStep(c) \/ CallTool(c) \/ Restart(c)
      PROVE  CallerStep(c)
  BY <1>3, BeginCases, FrontStepCases, RestartCases DEF CallerStep
<1> QED BY <1>1, <1>2, <1>3 DEF DispatchNext

-----------------------------------------------------------------------------
(* The front ends use the store as it may be used: each of their steps is  *)
(* one of its transactions, or none.                                       *)

\* An ingestion and a retraction flip one belief, or change nothing.
LEMMA FlipBelief ==
  ASSUME TypeOK, NEW e \in Episodes, NEW belief \in Beliefs, UNCHANGED <<store, clock, finalized, conflicted>>,
         \/ inBeliefs' = [inBeliefs EXCEPT ![e] = @ \cup {belief}]
         \/ inBeliefs' = [inBeliefs EXCEPT ![e] = @ \ {belief}]
  PROVE  SetBelief(e, belief) \/ UNCHANGED vars
<1>1. CASE inBeliefs' = [inBeliefs EXCEPT ![e] = @ \cup {belief}]
  <2>1. CASE belief \in inBeliefs[e]
    <3>1. inBeliefs[e] \cup {belief} = inBeliefs[e]
      BY <2>1
    <3>2. UNCHANGED inBeliefs
      BY <1>1, <3>1 DEF TypeOK
    <3> QED BY <3>2 DEF vars, store
  <2>2. CASE belief \notin inBeliefs[e]
    BY <1>1, <2>2 DEF SetBelief
  <2> QED BY <2>1, <2>2
<1>2. CASE inBeliefs' = [inBeliefs EXCEPT ![e] = @ \ {belief}]
  <2>1. CASE belief \notin inBeliefs[e]
    <3>1. inBeliefs[e] \ {belief} = inBeliefs[e]
      BY <2>1
    <3>2. UNCHANGED inBeliefs
      BY <1>2, <3>1 DEF TypeOK
    <3> QED BY <3>2 DEF vars, store
  <2>2. CASE belief \in inBeliefs[e]
    BY <1>2, <2>2 DEF SetBelief
  <2> QED BY <2>1, <2>2
<1> QED BY <1>1, <1>2

LEMMA StoreStep ==
  ASSUME DispatchTypeOK, [DispatchNext]_frontVars
  PROVE  [Next]_vars
<1> USE DEF DispatchTypeOK
<1>0. TypeOK /\ CallsOK
  OBVIOUS
<1>1. CASE OtherStep
  BY <1>1 DEF OtherStep, Next, Environment
<1>2. ASSUME NEW c \in Callers, LocalStep(c) PROVE [Next]_vars
  BY <1>2 DEF LocalStep, store, ledger, vars
<1>3. ASSUME NEW c \in Callers, Transaction(c) PROVE [Next]_vars
  <2>1. CASE Issue(c)
    BY <1>0, <2>1, IssueMoves DEF Next, Permits
  <2>2. CASE Consume(c)
    BY <1>0, <2>2, ConsumeMoves DEF Next, Permits
  <2>3. CASE Record(c) \/ ReturnFinalized(c)
    BY <2>3 DEF Record, ReturnFinalized, store, ledger, vars
  <2>4. CASE RetractBelief(c)
    <3>1. PICK belief \in Beliefs : call[c].seen = {belief}
      BY <1>0, <2>4, RetractMoves
    <3>2. EpisodeAt(c) \in Episodes
      BY <1>0, <2>4, RetractMoves
    <3>3. SetBelief(EpisodeAt(c), belief) \/ UNCHANGED vars
      BY <1>0, <2>4, <3>1, <3>2, FlipBelief DEF RetractBelief
    <3> QED BY <3>2, <3>3 DEF Next, Environment
  <2>5. CASE RevokeDependents(c)
    BY <1>0, <2>5, RevokeMoves DEF Next, Permits, store, ledger, vars
  <2>6. CASE CloseEpisode(c)
    <3>1. EpisodeAt(c) \in Episodes
      BY <1>0, <2>6, CloseMoves
    <3>2. FinalizeEpisode(EpisodeAt(c)) \/ UNCHANGED vars
      <4>1. CASE EpisodeAt(c) \in finalized
        <5>1. finalized' = finalized
          BY <2>6, <4>1 DEF CloseEpisode
        <5> QED BY <2>6, <5>1 DEF CloseEpisode, store, vars
      <4>2. CASE EpisodeAt(c) \notin finalized
        BY <2>6, <4>2 DEF CloseEpisode, FinalizeEpisode
      <4> QED BY <4>1, <4>2
    <3> QED BY <3>1, <3>2 DEF Next, Environment
  <2>7. CASE SweepPermits(c)
    BY <1>0, <2>7, SweepMoves DEF Next, Permits, store, ledger, vars
  <2> QED BY <1>3, <2>1, <2>2, <2>3, <2>4, <2>5, <2>6, <2>7 DEF Transaction
<1>4. ASSUME NEW c \in Callers, IngestEvidence(c) PROVE [Next]_vars
  <2> DEFINE e == service[c].episode
  <2>1. e \in Episodes
    BY <1>4 DEF IngestEvidence, Fresh, FrontsOK, ServiceStates
  <2>2. SetBelief(e, Told) \/ UNCHANGED vars
    <3>1. CASE Ingested(e)
      BY <1>4, <3>1 DEF IngestEvidence, store, ledger, vars
    <3>2. CASE ~Ingested(e)
      BY <1>4, <2>1, <3>2, FlipBelief, DispatchAssumption DEF IngestEvidence
    <3> QED BY <3>1, <3>2
  <2> QED BY <2>1, <2>2, DispatchAssumption DEF Next, Environment
<1>5. ASSUME NEW c \in Callers, CallTool(c) PROVE [Next]_vars
  BY <1>5 DEF CallTool, store, ledger, vars
<1> QED BY <1>1, <1>2, <1>3, <1>4, <1>5, StepCases DEF CallerStep

LEMMA CallToolMoves ==
  ASSUME CallsOK, NEW c \in Callers, CallTool(c)
  PROVE  /\ CallsOK' /\ \A d \in Callers \ {c} : call'[d] = call[d]
         /\ call[c].at = "consumed" /\ call[c].token \in Tokens
         /\ \/ call'[c].at = "idle"
            \/ call'[c].at = "permitted" /\ call'[c].token = call[c].token
<1>0. call[c].at = "consumed" /\ CallOK(call[c]) /\ call[c] \in Calls
  BY DEF CallTool, At, CallsOK
<1>1. call[c].token \in Tokens
  BY <1>0 DEF CallOK, TokenSteps
<1>2. CASE Return(c)
  BY <1>0, <1>1, <1>2, ReturnMoves DEF MovesTo
<1>3. CASE Goto(c, "permitted")
  <2>1. MovesTo(c, [call[c] EXCEPT !.at = "permitted"]) /\ CallsOK'
    BY <1>0, <1>3, GotoMoves DEF Steps, EvaluateSteps, TokenSteps
  <2>2. call'[c].at = "permitted" /\ call'[c].token = call[c].token
    BY <1>0, <2>1 DEF MovesTo, Calls
  <2> QED BY <1>0, <1>1, <2>1, <2>2 DEF MovesTo
<1> QED BY <1>2, <1>3 DEF CallTool

\* Whatever the step, the calls and the history of the facade keep their types.
LEMMA CallTypesNext ==
  ASSUME DispatchTypeOK, [DispatchNext]_frontVars
  PROVE  CallsOK' /\ FlowSetsOK'
<1> USE DEF DispatchTypeOK
<1>0. TypeOK /\ CallsOK /\ FlowSetsOK
  OBVIOUS
<1>1. CASE OtherStep
  BY <1>1 DEF OtherStep, CallsOK, FlowSetsOK, flow
<1>2. ASSUME NEW c \in Callers, LocalStep(c) PROVE CallsOK' /\ FlowSetsOK'
  BY <1>2 DEF LocalStep, FlowSetsOK, flow
<1>3. ASSUME NEW c \in Callers, Transaction(c) PROVE CallsOK' /\ FlowSetsOK'
  <2>1. CASE Issue(c)
    BY <1>0, <2>1, IssueMoves DEF FlowSetsOK
  <2>2. CASE Record(c)
    BY <1>0, <2>2, RecordMoves DEF FlowSetsOK
  <2>3. CASE Consume(c)
    BY <1>0, <2>3, ConsumeMoves DEF FlowSetsOK, flow
  <2>4. CASE RetractBelief(c)
    <3>1. /\ CallsOK' /\ EpisodeAt(c) \in Episodes /\ call[c].seen \subseteq Beliefs
      BY <1>0, <2>4, RetractMoves
    <3>2. retracted' = [retracted EXCEPT ![EpisodeAt(c)] = @ \cup call[c].seen]
          /\ UNCHANGED <<audited, swept, late>>
      BY <2>4 DEF RetractBelief
    <3> QED BY <3>1, <3>2 DEF FlowSetsOK
  <2>5. CASE RevokeDependents(c)
    BY <1>0, <2>5, RevokeMoves DEF FlowSetsOK, flow
  <2>6. CASE CloseEpisode(c)
    <3>1. UNCHANGED flow
      BY <2>6 DEF CloseEpisode
    <3> QED BY <1>0, <2>6, <3>1, CloseMoves DEF FlowSetsOK, flow
  <2>7. CASE SweepPermits(c)
    BY <1>0, <2>7, SweepMoves DEF FlowSetsOK, flow
  <2>8. CASE ReturnFinalized(c)
    <3>1. swept' = swept \cup {EpisodeAt(c)} /\ UNCHANGED <<audited, retracted, late>>
      BY <2>8 DEF ReturnFinalized
    <3> QED BY <1>0, <2>8, <3>1, FinalizedMoves DEF FlowSetsOK
  <2> QED BY <1>3, <2>1, <2>2, <2>3, <2>4, <2>5, <2>6, <2>7, <2>8 DEF Transaction
<1>4. ASSUME NEW c \in Callers, IngestEvidence(c) PROVE CallsOK' /\ FlowSetsOK'
  BY <1>4 DEF IngestEvidence, CallsOK, FlowSetsOK, flow
<1>5. ASSUME NEW c \in Callers, CallTool(c) PROVE CallsOK' /\ FlowSetsOK'
  BY <1>0, <1>5, CallToolMoves DEF CallTool, FlowSetsOK, flow
<1> QED BY <1>1, <1>2, <1>3, <1>4, <1>5, StepCases DEF CallerStep

-----------------------------------------------------------------------------
(* The front ends' own state keeps its types.                              *)

LEMMA RefreshedType ==
  ASSUME NEW p \in ProxyStates, NEW listing \in Listings
  PROVE  Refreshed(p, listing) \in ProxyStates /\ Refreshed(p, listing).shown = p.shown
<1>1. CASE listing \in Schemas
  BY <1>1 DEF Refreshed, ProxyStates
<1>2. CASE listing = "reserved"
  BY <1>2, DispatchAssumption DEF Refreshed, ProxyStates
<1>3. CASE listing = "unverified"
  BY <1>3, DispatchAssumption DEF Refreshed, ProxyStates
<1> QED BY <1>1, <1>2, <1>3 DEF Listings

LEMMA OpenedType ==
  ASSUME NEW listing \in Listings
  PROVE  Opened(listing) \in ProxyStates
<1> DEFINE fresh == [digest |-> None, tools |-> None, verified |-> FALSE, shown |-> None]
           p == Refreshed(fresh, listing)
<1>1. fresh \in ProxyStates
  BY DEF ProxyStates
<1>2. p \in ProxyStates
  BY <1>1, RefreshedType
<1>3. Opened(listing) = [p EXCEPT !.shown = p.tools]
  BY DEF Opened
<1> HIDE DEF p
<1> QED BY <1>2, <1>3 DEF ProxyStates

LEMMA RememberedType ==
  ASSUME NEW cache \in Seq(Requests), NEW key \in Requests
  PROVE  Remembered(cache, key) \in Seq(Requests)
<1>1. Append(cache, key) \in Seq(Requests) /\ Append(cache, key) # << >>
  OBVIOUS
<1> QED BY <1>1 DEF Remembered

LEMMA FrontTypesNext ==
  ASSUME DispatchTypeOK, [DispatchNext]_frontVars
  PROVE  FrontsOK'
<1> USE DEF DispatchTypeOK, FrontsOK
<1>1. ASSUME UNCHANGED fronts PROVE FrontsOK'
  BY <1>1 DEF fronts
<1>2. ASSUME NEW c \in Proxies, NEW p \in ProxyStates, proxy' = [proxy EXCEPT ![c] = p]
      PROVE  proxy' \in [Proxies -> ProxyStates]
  BY <1>2
<1>3. ASSUME NEW c \in Services, NEW s \in ServiceStates, service' = [service EXCEPT ![c] = s]
      PROVE  service' \in [Services -> ServiceStates]
  BY <1>3
<1>4. ASSUME NEW c \in Callers, NEW e \in Episodes, NEW a \in Actions, Invoke(c, e, a)
      PROVE  FrontsOK'
  <2>1. PICK listing \in Listings :
          \/ proxy' = [proxy EXCEPT ![c] = [Refreshed(proxy[c], listing) EXCEPT !.shown = None]]
          \/ proxy' = [proxy EXCEPT ![c] = Refreshed(proxy[c], listing)]
    BY <1>4 DEF Invoke
  <2> DEFINE p == Refreshed(proxy[c], listing)
  <2>2. c \in Proxies /\ p \in ProxyStates /\ UNCHANGED <<service, effects>>
    BY <1>4, RefreshedType DEF Invoke
  <2> HIDE DEF p
  <2>3. [p EXCEPT !.shown = None] \in ProxyStates
    BY <2>2 DEF ProxyStates
  <2>4. proxy' = [proxy EXCEPT ![c] = [p EXCEPT !.shown = None]] \/ proxy' = [proxy EXCEPT ![c] = p]
    BY <2>1 DEF p
  <2> QED BY <1>2, <2>2, <2>3, <2>4
<1>5. ASSUME NEW c \in Callers, NEW e \in Episodes, StartEpisode(c, e)
      PROVE  FrontsOK'
  <2>1. [service[c] EXCEPT !.episode = e] \in ServiceStates
    BY <1>5 DEF StartEpisode, ServiceStates
  <2> QED BY <1>3, <1>5, <2>1 DEF StartEpisode
<1>6. ASSUME NEW c \in Callers, IngestEvidence(c) PROVE FrontsOK'
  <2> DEFINE s == [service[c] EXCEPT !.answered = Remembered(service[c].answered, "evidence.ingest")]
  <2>1. c \in Services /\ UNCHANGED <<proxy, effects>> /\ service' = [service EXCEPT ![c] = s]
    BY <1>6 DEF IngestEvidence, Fresh
  <2>2. s \in ServiceStates
    BY <2>1, RememberedType DEF ServiceStates, Requests
  <2> QED BY <1>3, <2>1, <2>2
<1>7. ASSUME NEW c \in Callers, FrontStep(c) PROVE FrontsOK'
  <2>1. UNCHANGED <<proxy, effects>>
    BY <1>7 DEF FrontStep
  <2>2. CASE UNCHANGED service
    BY <2>1, <2>2
  <2>3. CASE job[c] \in Requests /\ Answered(c)
    <3> DEFINE s == [episode |-> IF job[c] = "episode.finalize" THEN None ELSE service[c].episode,
                     answered |-> Remembered(service[c].answered, job[c])]
    <3>1. service' = [service EXCEPT ![c] = s]
      BY <2>3 DEF Answered
    <3>2. c \in Services => s \in ServiceStates
      BY <2>3, RememberedType DEF ServiceStates
    <3>3. c \notin Services => service' = service
      BY <3>1
    <3> QED BY <1>3, <2>1, <3>1, <3>2, <3>3
  <2> QED BY <1>7, <2>2, <2>3 DEF FrontStep
<1>8. ASSUME NEW c \in Callers, CallTool(c) PROVE FrontsOK'
  <2>1. call[c].token \in Tokens
    BY <1>8, CallToolMoves
  <2> QED BY <1>8, <2>1 DEF CallTool
<1>9. ASSUME NEW c \in Callers, Restart(c) PROVE FrontsOK'
  <2>1. CASE c \in Services
    <3>1. [episode |-> None, answered |-> << >>] \in ServiceStates
      BY DEF ServiceStates
    <3> QED BY <1>3, <1>9, <2>1, <3>1 DEF Restart
  <2>2. CASE c \notin Services
    BY <1>2, <1>9, <2>2, OpenedType, DispatchAssumption DEF Restart
  <2> QED BY <2>1, <2>2
<1>10. ASSUME NEW c \in Callers, Begin(c) PROVE FrontsOK'
  <2>1. CASE \E e \in Episodes, a \in Actions : Authorize(c, e, a)
    BY <2>1 DEF Authorize
  <2>2. CASE Serve(c)
    BY <2>2 DEF Serve
  <2>3. CASE CallLibrary(c)
    BY <1>1, <2>3 DEF CallLibrary
  <2> QED BY <1>4, <1>5, <1>6, <1>10, <2>1, <2>2, <2>3 DEF Begin
<1>11. CASE UNCHANGED frontVars
  BY <1>11 DEF frontVars
<1> QED BY <1>1, <1>7, <1>8, <1>9, <1>10, <1>11 DEF DispatchNext

LEMMA DispatchTypesInit == DispatchInit => DispatchTypeOK
<1> SUFFICES ASSUME DispatchInit PROVE DispatchTypeOK
  OBVIOUS
<1>1. TypeOK
  BY TypeInit DEF DispatchInit, FlowInit
<1>2. CallOK(Idle)
  BY FlowAssumption DEF Idle, CallOK, Calls, Steps, EvaluateSteps, TokenSteps
<1>3. CallsOK
  BY <1>2 DEF DispatchInit, FlowInit, CallsOK, CallOK
<1>4. FlowSetsOK
  BY DEF DispatchInit, FlowInit, FlowSetsOK
<1>5. proxy \in [Proxies -> ProxyStates]
  BY OpenedType DEF DispatchInit
<1>6. [episode |-> None, answered |-> << >>] \in ServiceStates
  BY DEF ServiceStates
<1>7. FrontsOK
  BY <1>5, <1>6 DEF DispatchInit, FrontsOK
<1> QED BY <1>1, <1>3, <1>4, <1>7 DEF DispatchTypeOK

LEMMA DispatchTypesNext == DispatchTypeOK /\ [DispatchNext]_frontVars => DispatchTypeOK'
<1> SUFFICES ASSUME DispatchTypeOK, [DispatchNext]_frontVars PROVE DispatchTypeOK'
  OBVIOUS
<1>1. TypeOK'
  BY StoreStep, TypeNext DEF DispatchTypeOK
<1> QED BY <1>1, CallTypesNext, FrontTypesNext DEF DispatchTypeOK

LEMMA DispatchTypes == DispatchSpec => []DispatchTypeOK
BY DispatchTypesInit, DispatchTypesNext, PTL DEF DispatchSpec

\* Between its steps a caller is where a call of the facade can be, holds a token
\* from issue_action until the action and never otherwise, and every set of the
\* history speaks of tokens, beliefs and episodes that exist.
THEOREM FlowTypes == DispatchSpec => []FlowTypeOK
BY DispatchTypes, TypesSuffice, PTL

\* The front ends use the enforcement store as it may be used: whatever they do,
\* the store's part of the state moves by its own transactions only.
THEOREM FrontEndsUseTheStore == DispatchSpec => Spec
<1>1. DispatchInit => Init
  BY DEF DispatchInit, FlowInit
<1>2. DispatchTypeOK /\ [DispatchNext]_frontVars => [Next]_vars
  BY StoreStep
<1> QED BY <1>1, <1>2, DispatchTypes, PTL DEF DispatchSpec, Spec

\* What the store promises, it therefore promises to them.
THEOREM FrontEndsKeepAuthority ==
  DispatchSpec => ImplementsAuthority /\ []ConsumedAtMostOnce /\ []OnePermitPerSingleUseApproval
                  /\ []NoSpendAfterWithdrawal
BY FrontEndsUseTheStore, AuthorityImplemented, SingleConsumption, SingleGrant, WithdrawalIsFinal

-----------------------------------------------------------------------------
(* What may become of a permit, of a token in hand and of an episode in    *)
(* one step of the whole system.                                           *)

Kept(t) == decisions'[t] = decisions[t]
Withdrawn(t) ==
  /\ decisions[t].state = "issued" /\ decisions'[t].state \in {"expired", "revoked"}
  /\ decisions'[t].binding = decisions[t].binding
IssuedBy(c, t) ==
  /\ Issue(c)
  /\ decisions[t].state = "absent" /\ decisions'[t].state = "issued"
  /\ decisions'[t].binding = call[c].binding /\ call[c].at = "issue"
  /\ ApprovalClear(call[c].binding, AtIssue)
  /\ EpisodeAt(c) \in finalized => t \in late'
SpentBy(c, t) ==
  /\ Consume(c)
  /\ call[c].at = "permitted" /\ call[c].token = t
  /\ call'[c].at = "consumed" /\ call'[c].token = t
  /\ decisions[t].state = "issued" /\ decisions'[t].state = "consumed"
  /\ decisions'[t].binding = decisions[t].binding
  /\ PremisesHold(decisions[t].binding)

LEMMA PermitFate ==
  ASSUME DispatchTypeOK, [DispatchNext]_frontVars, NEW t \in Tokens
  PROVE  Kept(t) \/ Withdrawn(t) \/ \E c \in Callers : IssuedBy(c, t) \/ SpentBy(c, t)
<1> USE DEF DispatchTypeOK
<1>0. TypeOK /\ CallsOK
  OBVIOUS
<1>1. ASSUME UNCHANGED decisions PROVE Kept(t)
  BY <1>1 DEF Kept
<1>2. CASE OtherStep
  BY <1>1, <1>2, OtherEffect DEF OtherStep, Environment, vars
<1>3. ASSUME NEW c \in Callers, LocalStep(c) \/ IngestEvidence(c) \/ CallTool(c) PROVE Kept(t)
  BY <1>1, <1>3 DEF LocalStep, IngestEvidence, CallTool, store
<1>4. ASSUME NEW affected \in SUBSET Tokens, RevokeAll(affected),
             \A u \in affected : decisions[u].state = "issued"
      PROVE  Kept(t) \/ Withdrawn(t)
  BY <1>0, <1>4, RevokeEffect DEF Kept, Withdrawn
<1>5. ASSUME NEW c \in Callers, Transaction(c)
      PROVE  Kept(t) \/ Withdrawn(t) \/ IssuedBy(c, t) \/ SpentBy(c, t)
  <2>1. CASE Issue(c)
    <3>1. PICK u \in Tokens, ttl \in ActionTtls, now \in ReadBeforeLock :
            /\ IssueAction(u, call[c].binding, ttl, now)
            /\ \/ /\ decisions'[u].state = "issued"
                  /\ late' = IF EpisodeAt(c) \in finalized THEN late \cup {u} ELSE late
               \/ decisions'[u].state # "issued"
      BY <1>0, <2>1, IssueMoves
    <3>2. call[c].at = "issue"
      BY <1>0, <2>1, IssueMoves
    <3>3. /\ decisions[u].state = "absent"
          /\ \A v \in Tokens \ {u} : decisions'[v] = decisions[v]
          /\ \/ UNCHANGED decisions
             \/ /\ decisions'[u].state = "issued" /\ decisions'[u].binding = call[c].binding
                /\ ApprovalClear(call[c].binding, AtIssue)
      BY <1>0, <3>1, IssueEffect
    <3> QED BY <1>1, <2>1, <3>1, <3>2, <3>3 DEF Kept, IssuedBy
  <2>2. CASE Consume(c)
    <3> DEFINE u == call[c].token
    <3>1. /\ u \in Tokens /\ call[c].at = "permitted" /\ ConsumeAction(u, call[c].binding)
          /\ \/ Spent(u) /\ call'[c].at = "consumed" /\ call'[c].token = u
             \/ ~Spent(u)
      BY <1>0, <2>2, ConsumeMoves
    <3> HIDE DEF u
    <3>2. /\ \A v \in Tokens \ {u} : decisions'[v] = decisions[v]
          /\ \/ UNCHANGED decisions
             \/ /\ decisions[u].state = "issued"
                /\ decisions'[u].binding = decisions[u].binding
                /\ \/ decisions'[u].state \in {"expired", "revoked"}
                   \/ decisions'[u].state = "consumed" /\ PremisesHold(decisions[u].binding)
      BY <1>0, <3>1, ConsumeEffect
    <3>3. CASE t # u
      BY <3>2, <3>3 DEF Kept
    <3>4. CASE t = u
      BY <1>1, <2>2, <3>1, <3>2, <3>4 DEF Withdrawn, SpentBy, Spent, u
    <3> QED BY <3>3, <3>4
  <2>3. CASE Record(c) \/ ReturnFinalized(c) \/ RetractBelief(c) \/ CloseEpisode(c)
    BY <1>1, <2>3 DEF Record, ReturnFinalized, RetractBelief, CloseEpisode, store
  <2>4. CASE RevokeDependents(c)
    <3>1. CASE UNCHANGED <<store, clock, ledger>>
      BY <1>1, <3>1 DEF store
    <3>2. ASSUME NEW belief \in Beliefs, RevokeForSupport(belief) PROVE Kept(t) \/ Withdrawn(t)
      BY <1>4, <3>2 DEF RevokeForSupport, IssuedUnder
    <3> QED BY <1>0, <2>4, <3>1, <3>2, RevokeMoves
  <2>5. CASE SweepPermits(c)
    <3>1. CASE UNCHANGED <<store, clock, ledger>>
      BY <1>1, <3>1 DEF store
    <3>2. CASE RevokeForEpisode(EpisodeAt(c))
      BY <1>4, <3>2 DEF RevokeForEpisode, IssuedIn
    <3> QED BY <1>0, <2>5, <3>1, <3>2, SweepMoves
  <2> QED BY <1>5, <2>1, <2>2, <2>3, <2>4, <2>5 DEF Transaction
<1> QED BY <1>2, <1>3, <1>5, StepCases DEF CallerStep

\* A consumed permit stays consumed, and only a consumption makes one.
LEMMA SpentStays ==
  ASSUME DispatchTypeOK, [DispatchNext]_frontVars, NEW t \in Tokens
  PROVE  /\ decisions[t].state = "consumed" => decisions'[t].state = "consumed"
         /\ Spent(t) => \E c \in Callers : SpentBy(c, t)
BY PermitFate DEF Kept, Withdrawn, IssuedBy, SpentBy, Spent

-----------------------------------------------------------------------------
(* Finalization and approvals, step by step.                               *)

\* No step of any front end consumes a permit whose episode is finalized: the
\* transaction that consumes it reads the episode's row.
THEOREM NoSpendAfterFinalization == DispatchSpec => NothingSpentAfterFinalize
<1>1. DispatchTypeOK /\ [DispatchNext]_frontVars =>
        [\A t \in Tokens : Spent(t) => decisions[t].binding.episode \notin finalized]_allVars
  BY SpentStays DEF SpentBy, PremisesHold
<1> QED BY <1>1, DispatchTypes, PTL DEF DispatchSpec, NothingSpentAfterFinalize

\* Where an approval is required, a caller reaches issue_action with the receipt it
\* read, and with none only if it needs none.
ReceiptInv ==
  /\ DispatchTypeOK
  /\ \A c \in Callers : call[c].at = "issue" => (ApprovalRequired => call[c].binding.receipt # None)

LEMMA ReceiptInvNext == ReceiptInv /\ [DispatchNext]_frontVars => ReceiptInv'
<1> SUFFICES ASSUME ReceiptInv, [DispatchNext]_frontVars,
                    NEW d \in Callers, call'[d].at = "issue", ApprovalRequired
             PROVE  call'[d].binding.receipt # None
  BY DispatchTypesNext DEF ReceiptInv
<1> USE DEF ReceiptInv
<1>0. DispatchTypeOK /\ TypeOK /\ CallsOK
  BY DEF DispatchTypeOK
<1>1. CASE call'[d] = call[d]
  BY <1>1
<1>2. ASSUME NEW c \in Callers, LocalStep(c) PROVE call'[d].binding.receipt # None
  BY <1>1, <1>2 DEF LocalStep
<1>3. ASSUME NEW c \in Callers, Transaction(c) PROVE call'[d].binding.receipt # None
  BY <1>0, <1>1, <1>3, IssueMoves, RecordMoves, ConsumeMoves, RetractMoves, RevokeMoves,
     CloseMoves, SweepMoves, FinalizedMoves DEF Transaction
<1>4. ASSUME NEW c \in Callers, CallTool(c) PROVE call'[d].binding.receipt # None
  BY <1>0, <1>1, <1>4, CallToolMoves
<1> QED BY <1>0, <1>1, <1>2, <1>3, <1>4, StepCases DEF CallerStep, OtherStep, IngestEvidence

\* An approval that was denied, spent or has expired between the read of the call and
\* the transaction that issues the permit issues nothing.
THEOREM ApprovalStands == DispatchSpec => ApprovalStandsAtIssue
<1>1. DispatchInit => ReceiptInv
  BY DispatchTypesInit DEF DispatchInit, FlowInit, Idle, ReceiptInv
<1>2. DispatchSpec => []ReceiptInv
  BY <1>1, ReceiptInvNext, PTL DEF DispatchSpec
<1> DEFINE Step == \A t \in Tokens :
       ApprovalRequired /\ decisions[t].state = "absent" /\ decisions'[t].state = "issued"
       => LET r == decisions'[t].binding.receipt
          IN r # None /\ receipts[r].state = "issued" /\ clock < receipts[r].expires
<1>3. ReceiptInv /\ [DispatchNext]_frontVars => Step
  <2> SUFFICES ASSUME ReceiptInv, [DispatchNext]_frontVars, NEW t \in Tokens, ApprovalRequired,
                      decisions[t].state = "absent", decisions'[t].state = "issued"
               PROVE  LET r == decisions'[t].binding.receipt
                      IN r # None /\ receipts[r].state = "issued" /\ clock < receipts[r].expires
    OBVIOUS
  <2>1. PICK c \in Callers : IssuedBy(c, t)
    BY PermitFate DEF ReceiptInv, Kept, Withdrawn, SpentBy
  <2>2. call[c].binding.receipt # None /\ decisions'[t].binding = call[c].binding
    BY <2>1 DEF IssuedBy, ReceiptInv
  <2> QED BY <2>1, <2>2 DEF IssuedBy, ApprovalClear, ApprovalUsable, ApprovalTimely, AtIssue
<1> QED BY <1>2, <1>3, PTL DEF DispatchSpec, ApprovalStandsAtIssue

-----------------------------------------------------------------------------
(* Audit and effects: a token in hand.                                     *)

\* A token can be presented, or acted on, only by a caller that has recorded it.
AuditInv ==
  /\ DispatchTypeOK
  /\ \A c \in Callers : call[c].at \in {"permitted", "consumed"} => call[c].token \in audited
  /\ SpentIsAudited

\* Who has a presentable token after a step had it before, or has just recorded it.
LEMMA TokenFate ==
  ASSUME DispatchTypeOK, [DispatchNext]_frontVars, NEW d \in Callers,
         call'[d].at \in {"permitted", "consumed"}
  PROVE  \/ call[d].at \in {"permitted", "consumed"} /\ call'[d].token = call[d].token
         \/ call'[d].token \in audited'
<1>0. DispatchTypeOK /\ TypeOK /\ CallsOK
  BY DEF DispatchTypeOK
<1>1. CASE call'[d] = call[d]
  BY <1>1
<1>2. ASSUME NEW c \in Callers, LocalStep(c) PROVE call'[d] = call[d]
  BY <1>2 DEF LocalStep
<1>3. ASSUME NEW c \in Callers, Transaction(c), c # d PROVE call'[d] = call[d]
  BY <1>0, <1>3, IssueMoves, RecordMoves, ConsumeMoves, RetractMoves, RevokeMoves,
     CloseMoves, SweepMoves, FinalizedMoves DEF Transaction
<1>4. ASSUME Transaction(d)
      PROVE  \/ call[d].at \in {"permitted", "consumed"} /\ call'[d].token = call[d].token
             \/ call'[d].token \in audited'
  BY <1>0, <1>4, IssueMoves, RecordMoves, ConsumeMoves, RetractMoves, RevokeMoves,
     CloseMoves, SweepMoves, FinalizedMoves DEF Transaction
<1>5. ASSUME NEW c \in Callers, CallTool(c)
      PROVE  \/ call'[d] = call[d]
             \/ call[d].at \in {"permitted", "consumed"} /\ call'[d].token = call[d].token
  BY <1>0, <1>5, CallToolMoves
<1> QED BY <1>0, <1>1, <1>2, <1>3, <1>4, <1>5, StepCases DEF CallerStep, OtherStep, IngestEvidence

LEMMA AuditGrows ==
  ASSUME DispatchTypeOK, [DispatchNext]_frontVars
  PROVE  audited \subseteq audited'
<1>0. DispatchTypeOK /\ TypeOK /\ CallsOK
  BY DEF DispatchTypeOK
<1>1. ASSUME NEW c \in Callers, Transaction(c) PROVE audited \subseteq audited'
  BY <1>1 DEF Transaction, Issue, Record, Consume, RetractBelief, RevokeDependents, CloseEpisode,
     SweepPermits, ReturnFinalized, flow
<1> QED BY <1>0, <1>1, StepCases DEF CallerStep, OtherStep, LocalStep, IngestEvidence, CallTool, flow

LEMMA AuditInvNext == AuditInv /\ [DispatchNext]_frontVars => AuditInv'
<1> SUFFICES ASSUME AuditInv, [DispatchNext]_frontVars PROVE AuditInv'
  OBVIOUS
<1> USE DEF AuditInv
<1>1. \A c \in Callers : call'[c].at \in {"permitted", "consumed"} => call'[c].token \in audited'
  BY TokenFate, AuditGrows
<1>2. ASSUME NEW t \in Tokens, decisions'[t].state = "consumed" PROVE t \in audited'
  <2>1. CASE decisions[t].state = "consumed"
    BY <2>1, AuditGrows DEF SpentIsAudited
  <2>2. CASE decisions[t].state # "consumed"
    <3>1. PICK c \in Callers : SpentBy(c, t)
      BY <1>2, <2>2, SpentStays DEF Spent
    <3> QED BY <3>1, AuditGrows DEF SpentBy
  <2> QED BY <2>1, <2>2
<1> QED BY <1>1, <1>2, DispatchTypesNext DEF SpentIsAudited

\* A permit is consumed only after its authorization has been recorded in the ledger,
\* by whichever front end, and whoever stops in between.
THEOREM SpendingIsAudited == DispatchSpec => []SpentIsAudited
<1>1. DispatchInit => AuditInv
  BY DispatchTypesInit DEF DispatchInit, FlowInit, Init, Idle, AbsentRow, AuditInv, SpentIsAudited
<1>2. AuditInv => SpentIsAudited
  BY DEF AuditInv
<1> QED BY <1>1, <1>2, AuditInvNext, PTL DEF DispatchSpec

\* A caller about to call a tool is the only one that holds its token, the permit is
\* consumed and has had no effect yet.
Owns(c) ==
  /\ decisions[call[c].token].state = "consumed" /\ effects[call[c].token] = 0
  /\ \A d \in Callers \ {c} : call[d].at = "consumed" => call[d].token # call[c].token

EffectInv ==
  /\ DispatchTypeOK
  /\ \A c \in Callers : call[c].at = "consumed" => Owns(c)
  /\ EffectNeedsPermit

LEMMA EffectStep ==
  ASSUME DispatchTypeOK, [DispatchNext]_frontVars
  PROVE  \/ UNCHANGED effects
         \/ \E c \in Callers : /\ CallTool(c) /\ call[c].at = "consumed" /\ call'[c].at # "consumed"
                               /\ call[c].token \in Tokens
                               /\ effects' = [effects EXCEPT ![call[c].token] = @ + 1]
<1>0. DispatchTypeOK /\ TypeOK /\ CallsOK
  BY DEF DispatchTypeOK
<1>1. ASSUME NEW c \in Callers, CallTool(c)
      PROVE  /\ call[c].at = "consumed" /\ call'[c].at # "consumed" /\ call[c].token \in Tokens
             /\ effects' = [effects EXCEPT ![call[c].token] = @ + 1]
  BY <1>0, <1>1, CallToolMoves DEF CallTool
<1> QED BY <1>0, <1>1, StepCases DEF CallerStep, OtherStep, LocalStep, IngestEvidence, Transaction

\* Whoever may act after a step could act before, or has just consumed the permit.
LEMMA ActorFate ==
  ASSUME DispatchTypeOK, [DispatchNext]_frontVars, NEW d \in Callers, call'[d].at = "consumed"
  PROVE  /\ call'[d].token \in Tokens
         /\ \/ call[d].at = "consumed" /\ call'[d].token = call[d].token
            \/ Spent(call'[d].token) /\ \A c \in Callers \ {d} : call'[c] = call[c]
<1>0. DispatchTypeOK /\ TypeOK /\ CallsOK
  BY DEF DispatchTypeOK
<1>1. call'[d].token \in Tokens
  BY DispatchTypesNext DEF DispatchTypeOK, CallsOK, CallOK, TokenSteps
<1>2. CASE call'[d] = call[d]
  BY <1>1, <1>2
<1>3. ASSUME NEW c \in Callers, LocalStep(c) \/ CallTool(c) PROVE call'[d] = call[d]
  BY <1>0, <1>3, CallToolMoves DEF LocalStep
<1>4. ASSUME NEW c \in Callers, Transaction(c), c # d PROVE call'[d] = call[d]
  BY <1>0, <1>4, IssueMoves, RecordMoves, ConsumeMoves, RetractMoves, RevokeMoves,
     CloseMoves, SweepMoves, FinalizedMoves DEF Transaction
<1>5. ASSUME Transaction(d)
      PROVE  Spent(call'[d].token) /\ \A c \in Callers \ {d} : call'[c] = call[c]
  BY <1>0, <1>5, IssueMoves, RecordMoves, ConsumeMoves, RetractMoves, RevokeMoves,
     CloseMoves, SweepMoves, FinalizedMoves DEF Transaction
<1> QED BY <1>0, <1>1, <1>2, <1>3, <1>4, <1>5, StepCases DEF CallerStep, OtherStep, IngestEvidence

LEMMA EffectInvNext == EffectInv /\ [DispatchNext]_frontVars => EffectInv'
<1> SUFFICES ASSUME EffectInv, [DispatchNext]_frontVars PROVE EffectInv'
  OBVIOUS
<1> USE DEF EffectInv
<1>0. DispatchTypeOK /\ effects \in [Tokens -> Nat]
  BY DEF DispatchTypeOK, FrontsOK
<1>1. ASSUME NEW d \in Callers, call'[d].at = "consumed" PROVE Owns(d)'
  <2> DEFINE t == call'[d].token
  <2>0. t \in Tokens
    BY <1>0, <1>1, ActorFate
  <2>1. CASE call[d].at = "consumed" /\ t = call[d].token
    <3>1. decisions'[t].state = "consumed"
      BY <1>0, <2>0, <2>1, SpentStays DEF Owns
    <3>2. effects'[t] = 0
      <4>1. ASSUME NEW c \in Callers, call[c].at = "consumed", call'[c].at # "consumed"
            PROVE  call[c].token # t
        BY <1>1, <2>1, <4>1 DEF Owns
      <4> QED BY <1>0, <2>0, <2>1, <4>1, EffectStep DEF Owns
    <3>3. ASSUME NEW c \in Callers \ {d}, call'[c].at = "consumed" PROVE call'[c].token # t
      <4>1. CASE call[c].at = "consumed" /\ call'[c].token = call[c].token
        BY <2>1, <3>3, <4>1 DEF Owns
      <4>2. CASE Spent(call'[c].token)
        BY <2>1, <4>2 DEF Owns, Spent
      <4> QED BY <1>0, <3>3, <4>1, <4>2, ActorFate
    <3> QED BY <3>1, <3>2, <3>3 DEF Owns
  <2>2. CASE Spent(t) /\ \A c \in Callers \ {d} : call'[c] = call[c]
    <3>1. decisions'[t].state = "consumed"
      BY <2>2 DEF Spent
    <3>2. effects[t] = 0
      BY <1>0, <2>0, <2>2 DEF Spent, EffectNeedsPermit
    <3>3. ASSUME NEW c \in Callers, call[c].at = "consumed" PROVE call[c].token # t
      BY <2>2, <3>3 DEF Owns, Spent
    <3>4. effects'[t] = 0
      BY <1>0, <2>0, <3>2, <3>3, EffectStep
    <3> QED BY <2>2, <3>1, <3>3, <3>4 DEF Owns
  <2> QED BY <1>0, <1>1, <2>1, <2>2, ActorFate
<1>2. ASSUME NEW t \in Tokens
      PROVE  effects'[t] <= 1 /\ (effects'[t] = 1 => decisions'[t].state = "consumed")
  <2>1. CASE effects'[t] = effects[t]
    BY <1>0, <2>1, SpentStays DEF EffectNeedsPermit
  <2>2. CASE effects'[t] # effects[t]
    <3>1. PICK c \in Callers : /\ call[c].at = "consumed" /\ call[c].token \in Tokens
                               /\ effects' = [effects EXCEPT ![call[c].token] = @ + 1]
      BY <1>0, <2>2, EffectStep
    <3>2. t = call[c].token /\ effects'[t] = 1 /\ decisions[t].state = "consumed"
      BY <1>0, <2>2, <3>1 DEF Owns
    <3> QED BY <1>0, <3>2, SpentStays
  <2> QED BY <2>1, <2>2
<1> QED BY <1>1, <1>2, DispatchTypesNext DEF EffectNeedsPermit

\* One permit, one effect, and only after the permit was consumed: two front ends
\* never call a tool on one token, nor does one call it twice.
THEOREM OneEffectPerPermit == DispatchSpec => []EffectNeedsPermit
<1>1. DispatchInit => EffectInv
  BY DispatchTypesInit DEF DispatchInit, FlowInit, Idle, EffectInv, EffectNeedsPermit
<1>2. EffectInv => EffectNeedsPermit
  BY DEF EffectInv
<1> QED BY <1>1, <1>2, EffectInvNext, PTL DEF DispatchSpec

-----------------------------------------------------------------------------
(* Finalization sweeps the permits of its episode.                         *)

\* A caller past the lifecycle event has its episode finalized; one past the sweep
\* has left no issued permit there but late ones.
SweptBy(c) ==
  \A t \in Tokens :
    decisions[t].state = "issued" /\ decisions[t].binding.episode = EpisodeAt(c) => t \in late

SweepInv ==
  /\ DispatchTypeOK
  /\ swept \subseteq finalized
  /\ \A c \in Callers : call[c].at \in {"sweep", "swept"} => EpisodeAt(c) \in finalized
  /\ \A c \in Callers : call[c].at = "swept" => SweptBy(c)
  /\ FinalizeSweepsPermits

\* Episodes stay finalized, late permits late.
LEMMA HistoryGrows ==
  ASSUME DispatchTypeOK, [DispatchNext]_frontVars
  PROVE  finalized \subseteq finalized' /\ late \subseteq late'
<1>0. DispatchTypeOK /\ TypeOK /\ CallsOK
  BY DEF DispatchTypeOK
<1>1. OtherStep => UNCHANGED <<finalized, late>>
  BY DEF OtherStep, Approvals, IssueApproval, DenyApproval, RevokeApproval, Tick, SetConflict,
         ledger, vars, flow
<1>2. ASSUME NEW c \in Callers, LocalStep(c) \/ IngestEvidence(c) \/ CallTool(c)
      PROVE  UNCHANGED <<finalized, late>>
  BY <1>2 DEF LocalStep, IngestEvidence, CallTool, ledger, flow
<1>3. ASSUME NEW c \in Callers, Transaction(c)
      PROVE  finalized \subseteq finalized' /\ late \subseteq late'
  <2>1. CASE Issue(c)
    BY <2>1 DEF Issue, IssueAction, ledger
  <2>2. CASE Consume(c)
    BY <2>2 DEF Consume, ConsumeAction, ledger, flow
  <2>3. CASE RevokeDependents(c) \/ SweepPermits(c)
    BY <2>3 DEF RevokeDependents, SweepPermits, RevokeForSupport, RevokeForEpisode, RevokeAll,
                ledger, flow
  <2>4. CASE Record(c) \/ RetractBelief(c) \/ CloseEpisode(c) \/ ReturnFinalized(c)
    BY <2>4 DEF Record, RetractBelief, CloseEpisode, ReturnFinalized, ledger, flow
  <2> QED BY <1>3, <2>1, <2>2, <2>3, <2>4 DEF Transaction
<1> QED BY <1>0, <1>1, <1>2, <1>3, StepCases DEF CallerStep

\* A permit that is issued after a step, of a finalized episode, was issued before it,
\* with the same binding, or is late.
LEMMA IssuedFate ==
  ASSUME DispatchTypeOK, [DispatchNext]_frontVars, NEW t \in Tokens, decisions'[t].state = "issued"
  PROVE  \/ decisions[t].state = "issued" /\ decisions'[t].binding = decisions[t].binding
         \/ decisions'[t].binding.episode \in finalized => t \in late'
BY PermitFate DEF Kept, Withdrawn, IssuedBy, SpentBy, EpisodeAt

\* How a caller comes to the last steps of finalize_episode.
LEMMA SweepFate ==
  ASSUME DispatchTypeOK, [DispatchNext]_frontVars, NEW d \in Callers,
         call'[d].at \in {"sweep", "swept"}
  PROVE  \/ call'[d] = call[d]
         \/ call'[d].at = "sweep" /\ call'[d].binding.episode \in finalized'
         \/ SweepPermits(d) /\ call[d].at = "sweep" /\ call'[d].binding = call[d].binding
<1>0. DispatchTypeOK /\ TypeOK /\ CallsOK
  BY DEF DispatchTypeOK
<1>1. ASSUME NEW c \in Callers, LocalStep(c)
      PROVE  \/ call'[d] = call[d]
             \/ call'[d].at = "sweep" /\ call'[d].binding.episode \in finalized'
  BY <1>1 DEF LocalStep, ledger
<1>2. ASSUME NEW c \in Callers, Transaction(c), c # d PROVE call'[d] = call[d]
  BY <1>0, <1>2, IssueMoves, RecordMoves, ConsumeMoves, RetractMoves, RevokeMoves,
     CloseMoves, SweepMoves, FinalizedMoves DEF Transaction
<1>3. CASE CloseEpisode(d)
  BY <1>0, <1>3, CloseMoves DEF CloseEpisode, EpisodeAt
<1>4. CASE SweepPermits(d)
  BY <1>0, <1>4, SweepMoves
<1>5. ASSUME Transaction(d) PROVE CloseEpisode(d) \/ SweepPermits(d)
  BY <1>0, <1>5, IssueMoves, RecordMoves, ConsumeMoves, RetractMoves, RevokeMoves,
     FinalizedMoves DEF Transaction
<1>6. ASSUME NEW c \in Callers, CallTool(c) PROVE call'[d] = call[d]
  BY <1>0, <1>6, CallToolMoves
<1> QED BY <1>0, <1>1, <1>2, <1>3, <1>4, <1>5, <1>6, StepCases DEF CallerStep, OtherStep, IngestEvidence

LEMMA SweptGrows ==
  ASSUME DispatchTypeOK, [DispatchNext]_frontVars
  PROVE  \/ UNCHANGED swept
         \/ \E c \in Callers : /\ call[c].at = "swept" /\ swept' = swept \cup {EpisodeAt(c)}
                               /\ UNCHANGED decisions
<1>0. DispatchTypeOK /\ TypeOK /\ CallsOK
  BY DEF DispatchTypeOK
<1>1. ASSUME NEW c \in Callers, Transaction(c)
      PROVE  \/ UNCHANGED swept
             \/ call[c].at = "swept" /\ swept' = swept \cup {EpisodeAt(c)} /\ UNCHANGED decisions
  <2>1. CASE ReturnFinalized(c)
    BY <2>1 DEF ReturnFinalized, At, store
  <2>2. CASE ~ReturnFinalized(c)
    BY <1>1, <2>2 DEF Transaction, Issue, Record, Consume, RetractBelief, RevokeDependents, CloseEpisode,
       SweepPermits, flow
  <2> QED BY <2>1, <2>2
<1> QED BY <1>0, <1>1, StepCases DEF CallerStep, OtherStep, LocalStep, IngestEvidence, CallTool, flow

LEMMA SweepInvNext == SweepInv /\ [DispatchNext]_frontVars => SweepInv'
<1> SUFFICES ASSUME SweepInv, [DispatchNext]_frontVars PROVE SweepInv'
  OBVIOUS
<1> USE DEF SweepInv
<1>0. DispatchTypeOK /\ TypeOK /\ CallsOK
  BY DEF DispatchTypeOK
<1>1. finalized \subseteq finalized' /\ late \subseteq late'
  BY HistoryGrows
<1>2. swept' \subseteq finalized'
  BY <1>1, SweptGrows
<1>3. ASSUME NEW d \in Callers, call'[d].at \in {"sweep", "swept"}
      PROVE  call'[d].binding.episode \in finalized'
  BY <1>1, <1>3, SweepFate DEF EpisodeAt
<1>4. ASSUME NEW d \in Callers, call'[d].at = "swept", NEW t \in Tokens,
             decisions'[t].state = "issued", decisions'[t].binding.episode = call'[d].binding.episode
      PROVE  t \in late'
  <2>1. CASE call'[d] = call[d]
    BY <1>1, <1>4, <2>1, IssuedFate DEF SweptBy, EpisodeAt
  <2>2. CASE SweepPermits(d) /\ call'[d].binding = call[d].binding
    <3>1. CASE IssuedIn(EpisodeAt(d)) = {} /\ UNCHANGED <<store, clock, ledger>>
      BY <1>4, <2>2, <3>1 DEF IssuedIn, EpisodeAt, store
    <3>2. CASE RevokeForEpisode(EpisodeAt(d))
      <4>1. /\ \A u \in IssuedIn(EpisodeAt(d)) : decisions'[u].state = "revoked"
            /\ \A u \in Tokens \ IssuedIn(EpisodeAt(d)) : decisions'[u] = decisions[u]
        BY <1>0, <3>2, RevokeEffect DEF RevokeForEpisode, IssuedIn
      <4> QED BY <1>4, <2>2, <4>1 DEF IssuedIn, EpisodeAt
    <3> QED BY <1>0, <2>2, <3>1, <3>2, SweepMoves
  <2> QED BY <1>4, <2>1, <2>2, SweepFate
<1>5. ASSUME NEW t \in Tokens, decisions'[t].state = "issued", decisions'[t].binding.episode \in swept'
      PROVE  t \in late'
  <2>1. CASE UNCHANGED swept
    BY <1>1, <1>5, <2>1, IssuedFate DEF FinalizeSweepsPermits
  <2>2. ASSUME NEW c \in Callers, call[c].at = "swept", swept' = swept \cup {EpisodeAt(c)},
               UNCHANGED decisions
        PROVE  t \in late'
    BY <1>1, <1>5, <2>2 DEF FinalizeSweepsPermits, SweptBy
  <2> QED BY <2>1, <2>2, SweptGrows
<1> QED BY <1>2, <1>3, <1>4, <1>5, DispatchTypesNext DEF SweptBy, EpisodeAt, FinalizeSweepsPermits

\* Whatever stops, restarts and retries, and whoever finalizes beside it, the return
\* of one finalize_episode leaves no permit of the episode issued but late ones.
THEOREM FinalizeSweeps == DispatchSpec => []FinalizeSweepsPermits
<1>1. DispatchInit => SweepInv
  BY DispatchTypesInit DEF DispatchInit, FlowInit, Init, Idle, SweepInv, FinalizeSweepsPermits
<1>2. SweepInv => FinalizeSweepsPermits
  BY DEF SweepInv
<1> QED BY <1>1, <1>2, SweepInvNext, PTL DEF DispatchSpec

-----------------------------------------------------------------------------
(* Ingestion and retraction.                                               *)

\* The belief of the observation is or was in only where the idempotency row is, and
\* a caller about to retract a belief has seen it in, or retracted.
KeyedInv ==
  /\ DispatchTypeOK
  /\ \A e \in Episodes : Told \in inBeliefs[e] \cup retracted[e] => e \in keyed
  /\ \A c \in Callers : call[c].at = "retract" =>
       call[c].seen \subseteq inBeliefs[EpisodeAt(c)] \cup retracted[EpisodeAt(c)]
  /\ RetractedStaysOut

\* What a step does to the beliefs of an episode.
BeliefsKept == UNCHANGED <<inBeliefs, retracted, keyed>>
BeliefsRetracted(c) ==
  /\ RetractBelief(c) /\ call[c].at = "retract" /\ EpisodeAt(c) \in Episodes
  /\ inBeliefs' = [inBeliefs EXCEPT ![EpisodeAt(c)] = @ \ call[c].seen]
  /\ retracted' = [retracted EXCEPT ![EpisodeAt(c)] = @ \cup call[c].seen]
  /\ UNCHANGED keyed
BeliefTold(e) ==
  /\ e \notin keyed /\ keyed' = keyed \cup {e}
  /\ inBeliefs' = [inBeliefs EXCEPT ![e] = @ \cup {Told}]
  /\ UNCHANGED retracted

LEMMA BeliefFate ==
  ASSUME DispatchTypeOK, [DispatchNext]_frontVars
  PROVE  \/ BeliefsKept
         \/ \E c \in Callers : BeliefsRetracted(c)
         \/ \E e \in Episodes : BeliefTold(e)
<1>0. DispatchTypeOK /\ TypeOK /\ CallsOK /\ FrontsOK
  BY DEF DispatchTypeOK
<1>1. OtherStep => BeliefsKept
  BY DEF OtherStep, Approvals, IssueApproval, DenyApproval, RevokeApproval, Tick, SetConflict,
         ledger, vars, flow, BeliefsKept
<1>2. ASSUME NEW c \in Callers, LocalStep(c) \/ CallTool(c) PROVE BeliefsKept
  BY <1>2 DEF LocalStep, CallTool, ledger, flow, BeliefsKept
<1>3. ASSUME NEW c \in Callers, IngestEvidence(c) PROVE BeliefsKept \/ \E e \in Episodes : BeliefTold(e)
  <2>1. service[c].episode \in Episodes
    BY <1>0, <1>3 DEF IngestEvidence, Fresh, FrontsOK, ServiceStates
  <2> QED BY <1>3, <2>1 DEF IngestEvidence, Ingested, BeliefsKept, BeliefTold, ledger, flow
<1>4. ASSUME NEW c \in Callers, Transaction(c) PROVE BeliefsKept \/ BeliefsRetracted(c)
  <2>1. CASE Issue(c)
    BY <1>4, <2>1 DEF Transaction, Issue, IssueAction, ledger, BeliefsKept
  <2>2. CASE Consume(c)
    BY <1>4, <2>2 DEF Transaction, Consume, ConsumeAction, ledger, flow, BeliefsKept
  <2>3. CASE RevokeDependents(c) \/ SweepPermits(c)
    BY <1>4, <2>3 DEF Transaction, RevokeDependents, SweepPermits, RevokeForSupport, RevokeForEpisode,
                      RevokeAll, ledger, flow, BeliefsKept
  <2>4. CASE Record(c) \/ CloseEpisode(c) \/ ReturnFinalized(c)
    BY <1>4, <2>4 DEF Transaction, Record, CloseEpisode, ReturnFinalized, ledger, flow, BeliefsKept
  <2>5. CASE RetractBelief(c)
    BY <1>0, <1>4, <2>5, RetractMoves DEF Transaction, RetractBelief, BeliefsRetracted
  <2> QED BY <1>4, <2>1, <2>2, <2>3, <2>4, <2>5 DEF Transaction
<1> QED BY <1>0, <1>1, <1>2, <1>3, <1>4, StepCases DEF CallerStep

\* How a caller comes to retract a belief.
LEMMA RetractFate ==
  ASSUME DispatchTypeOK, [DispatchNext]_frontVars, NEW d \in Callers, call'[d].at = "retract"
  PROVE  \/ call'[d] = call[d]
         \/ LET e == call'[d].binding.episode
            IN  /\ e \in Episodes /\ call'[d].seen \subseteq inBeliefs[e] \cup retracted[e]
                /\ UNCHANGED <<inBeliefs, retracted>>
<1>0. DispatchTypeOK /\ TypeOK /\ CallsOK
  BY DEF DispatchTypeOK
<1>1. ASSUME NEW c \in Callers, LocalStep(c)
      PROVE  \/ call'[d] = call[d]
             \/ LET e == call'[d].binding.episode
                IN  /\ e \in Episodes /\ call'[d].seen \subseteq inBeliefs[e] \cup retracted[e]
                    /\ UNCHANGED <<inBeliefs, retracted>>
  BY <1>1 DEF LocalStep, ledger, flow
<1>2. ASSUME NEW c \in Callers, Transaction(c) PROVE call'[d] = call[d]
  BY <1>0, <1>2, IssueMoves, RecordMoves, ConsumeMoves, RetractMoves, RevokeMoves,
     CloseMoves, SweepMoves, FinalizedMoves DEF Transaction
<1>3. ASSUME NEW c \in Callers, CallTool(c) PROVE call'[d] = call[d]
  BY <1>0, <1>3, CallToolMoves
<1> QED BY <1>0, <1>1, <1>2, <1>3, StepCases DEF CallerStep, OtherStep, IngestEvidence

LEMMA KeyedInvNext == KeyedInv /\ [DispatchNext]_frontVars => KeyedInv'
<1> SUFFICES ASSUME KeyedInv, [DispatchNext]_frontVars PROVE KeyedInv'
  OBVIOUS
<1> USE DEF KeyedInv
<1>0. /\ DispatchTypeOK /\ inBeliefs \in [Episodes -> SUBSET Beliefs]
      /\ retracted \in [Episodes -> SUBSET Beliefs]
      /\ \A c \in Callers : call[c].at = "retract" => EpisodeAt(c) \in Episodes
  BY DEF DispatchTypeOK, TypeOK, FlowSetsOK, CallsOK, CallOK, CallBindings, EpisodeAt
<1>1. \A e \in Episodes : inBeliefs[e] \cup retracted[e] \subseteq inBeliefs'[e] \cup retracted'[e]
  BY <1>0, BeliefFate DEF BeliefsKept, BeliefsRetracted, BeliefTold
<1>2. ASSUME NEW e \in Episodes, Told \in inBeliefs'[e] \cup retracted'[e] PROVE e \in keyed'
  <2>1. CASE BeliefsKept
    BY <1>2, <2>1 DEF BeliefsKept
  <2>2. ASSUME NEW c \in Callers, BeliefsRetracted(c) PROVE e \in keyed'
    BY <1>0, <1>2, <2>2 DEF BeliefsRetracted
  <2>3. ASSUME NEW f \in Episodes, BeliefTold(f) PROVE e \in keyed'
    BY <1>0, <1>2, <2>3 DEF BeliefTold
  <2> QED BY <1>0, <2>1, <2>2, <2>3, BeliefFate
<1>3. ASSUME NEW d \in Callers, call'[d].at = "retract"
      PROVE  LET e == call'[d].binding.episode
             IN  call'[d].seen \subseteq inBeliefs'[e] \cup retracted'[e]
  <2>1. CASE call'[d] = call[d]
    BY <1>0, <1>1, <1>3, <2>1 DEF EpisodeAt
  <2>2. CASE call'[d] # call[d]
    BY <1>0, <1>3, <2>2, RetractFate
  <2> QED BY <2>1, <2>2
<1>4. RetractedStaysOut'
  <2>1. CASE BeliefsKept
    BY <2>1 DEF BeliefsKept, RetractedStaysOut
  <2>2. ASSUME NEW c \in Callers, BeliefsRetracted(c) PROVE RetractedStaysOut'
    BY <1>0, <2>2 DEF BeliefsRetracted, RetractedStaysOut
  <2>3. ASSUME NEW f \in Episodes, BeliefTold(f) PROVE RetractedStaysOut'
    BY <1>0, <2>3 DEF BeliefTold, RetractedStaysOut
  <2> QED BY <1>0, <2>1, <2>2, <2>3, BeliefFate
<1> QED BY <1>2, <1>3, <1>4, DispatchTypesNext DEF EpisodeAt

\* A client that retries an ingestion, after any restart or forgotten answer, never
\* brings back what has been retracted.
THEOREM RetractionIsFinal == DispatchSpec => []RetractedStaysOut
<1>1. DispatchInit => KeyedInv
  BY DispatchTypesInit DEF DispatchInit, FlowInit, Init, Idle, KeyedInv, RetractedStaysOut
<1>2. KeyedInv => RetractedStaysOut
  BY DEF KeyedInv
<1> QED BY <1>1, <1>2, KeyedInvNext, PTL DEF DispatchSpec

-----------------------------------------------------------------------------
(* The proxy forwards what its clients have been shown.                    *)

\* What a proxy has shown is the schema it trusts, or withdrawn; while it serves a
\* call, the upstream tools are those of that schema.
ProxyInv ==
  /\ DispatchTypeOK
  /\ \A c \in Proxies : /\ proxy[c].shown \in {None, proxy[c].digest}
                        /\ call[c].at # "idle" => proxy[c].tools = proxy[c].digest

LEMMA RefreshedTools ==
  ASSUME NEW p \in ProxyStates, NEW listing \in Listings, Refreshed(p, listing).verified
  PROVE  Refreshed(p, listing).tools = Refreshed(p, listing).digest
<1>1. listing \in Schemas
  BY DispatchAssumption DEF Refreshed, ProxyStates, Listings
<1> QED BY <1>1 DEF Refreshed, ProxyStates

LEMMA OpenedShown ==
  ASSUME NEW listing \in Listings
  PROVE  Opened(listing).shown \in {None, Opened(listing).digest}
<1> DEFINE fresh == [digest |-> None, tools |-> None, verified |-> FALSE, shown |-> None]
           p == Refreshed(fresh, listing)
<1>1. fresh \in ProxyStates
  BY DEF ProxyStates
<1>2. p \in ProxyStates /\ p.tools \in {None, p.digest}
  <2>1. CASE listing \in Schemas
    <3>1. p.tools = listing /\ p.digest = listing
      BY <2>1, DispatchAssumption DEF Refreshed
    <3> QED BY <1>1, <3>1, RefreshedType
  <2>2. CASE listing \in {"reserved", "unverified"}
    <3>1. p.tools = None
      BY <2>2, DispatchAssumption DEF Refreshed
    <3> QED BY <1>1, <3>1, RefreshedType
  <2> QED BY <2>1, <2>2 DEF Listings
<1>3. Opened(listing) = [p EXCEPT !.shown = p.tools]
  BY DEF Opened
<1> HIDE DEF p
<1> QED BY <1>2, <1>3 DEF ProxyStates

\* A proxy changes only when it is invoked at rest, and when it starts again.
LEMMA ProxyFate ==
  ASSUME DispatchTypeOK, [DispatchNext]_frontVars, NEW d \in Proxies
  PROVE  \/ proxy'[d] = proxy[d] /\ (call'[d].at = "idle" \/ call[d].at # "idle")
         \/ call'[d].at = "idle" /\ \E listing \in Listings : proxy'[d] = Opened(listing)
         \/ \E listing \in Listings :
              LET p == Refreshed(proxy[d], listing)
              IN  \/ proxy'[d] = [p EXCEPT !.shown = None] /\ call'[d].at = "idle"
                  \/ proxy'[d] = p /\ ~Drifted(proxy[d].digest, p)
<1> DEFINE Same == proxy'[d] = proxy[d] /\ (call'[d].at = "idle" \/ call[d].at # "idle")
           Fresher == \E listing \in Listings :
                        LET p == Refreshed(proxy[d], listing)
                        IN  \/ proxy'[d] = [p EXCEPT !.shown = None] /\ call'[d].at = "idle"
                            \/ proxy'[d] = p /\ ~Drifted(proxy[d].digest, p)
<1>0. /\ DispatchTypeOK /\ TypeOK /\ CallsOK /\ d \in Callers /\ d \notin Services
      /\ proxy \in [Proxies -> ProxyStates]
  BY DispatchAssumption DEF DispatchTypeOK, FrontsOK
<1>1. ASSUME UNCHANGED <<proxy, call>> PROVE Same
  BY <1>1
<1>2. ASSUME NEW c \in Callers, c # d, UNCHANGED proxy, call'[d] = call[d] PROVE Same
  BY <1>2
<1>3. ASSUME NEW c \in Callers, NEW e \in Episodes, NEW a \in Actions, Invoke(c, e, a)
      PROVE  Same \/ Fresher
  <2>1. PICK listing \in Listings :
          LET p == Refreshed(proxy[c], listing)
          IN IF Drifted(proxy[c].digest, p)
             THEN /\ proxy' = [proxy EXCEPT ![c] = [p EXCEPT !.shown = None]]
                  /\ UNCHANGED call
             ELSE /\ proxy' = [proxy EXCEPT ![c] = p]
                  /\ BeginEvaluate(c, e, a)
    BY <1>3 DEF Invoke
  <2>2. call[c].at = "idle" /\ c \in Proxies
    BY <1>3 DEF Invoke, At
  <2> DEFINE p == Refreshed(proxy[c], listing)
  <2>3. CASE Drifted(proxy[c].digest, p)
    <3>1. proxy' = [proxy EXCEPT ![c] = [p EXCEPT !.shown = None]] /\ UNCHANGED call
      BY <2>1, <2>3
    <3> HIDE DEF p
    <3>2. CASE c = d
      BY <1>0, <2>2, <3>1, <3>2 DEF p
    <3>3. CASE c # d
      BY <1>0, <3>1, <3>3
    <3> QED BY <3>2, <3>3
  <2>4. CASE ~Drifted(proxy[c].digest, p)
    <3>1. proxy' = [proxy EXCEPT ![c] = p] /\ BeginEvaluate(c, e, a)
      BY <2>1, <2>4
    <3>2. \A b \in Callers \ {c} : call'[b] = call[b]
      BY <1>0, <3>1, BeginEvaluateMoves
    <3> HIDE DEF p
    <3>3. CASE c = d
      BY <1>0, <2>2, <2>4, <3>1, <3>3 DEF p
    <3>4. CASE c # d
      BY <1>0, <3>1, <3>2, <3>4
    <3> QED BY <3>3, <3>4
  <2> QED BY <2>3, <2>4
<1>4. ASSUME NEW c \in Callers, Begin(c) PROVE Same \/ Fresher
  <2>1. ASSUME NEW e \in Episodes, NEW a \in Actions, Authorize(c, e, a) PROVE Same
    BY <1>0, <1>2, <2>1, BeginEvaluateMoves DEF Authorize
  <2>2. ASSUME NEW e \in Episodes, StartEpisode(c, e) PROVE Same
    BY <1>1, <2>2 DEF StartEpisode
  <2>3. ASSUME IngestEvidence(c) PROVE Same
    BY <1>1, <2>3 DEF IngestEvidence
  <2>4. ASSUME Serve(c) PROVE Same
    <3>1. c # d /\ UNCHANGED proxy /\ service[c].episode \in Episodes
      BY <1>0, <2>4 DEF Serve, Fresh, DispatchTypeOK, FrontsOK, ServiceStates
    <3>2. call'[d] = call[d]
      BY <1>0, <2>4, <3>1, BeginEvaluateMoves, BeginFinalizeMoves DEF Serve
    <3> QED BY <1>2, <3>1, <3>2
  <2>5. ASSUME CallLibrary(c) PROVE Same
    <3>1. c # d /\ UNCHANGED proxy
      BY <1>0, <2>5 DEF CallLibrary, fronts
    <3>2. call'[d] = call[d]
      BY <1>0, <2>5, <3>1, BeginFinalizeMoves, BeginRetractMoves DEF CallLibrary
    <3> QED BY <1>2, <3>1, <3>2
  <2> QED BY <1>3, <1>4, <2>1, <2>2, <2>3, <2>4, <2>5 DEF Begin
<1>5. ASSUME NEW c \in Callers, FrontStep(c) PROVE Same
  <2>1. Facade(c) /\ UNCHANGED proxy
    BY <1>5 DEF FrontStep
  <2>2. call[c].at # "idle"
    BY <2>1 DEF Facade, GateReadBeliefs, GateDecide, BindSupports, ReadApproval, Issue, Record, Consume,
                DropPermit, RetractBelief, RevokeDependents, CloseEpisode, SweepPermits,
                ReturnFinalized, At
  <2>3. \A b \in Callers \ {c} : call'[b] = call[b]
    BY <1>0, <2>1, GateReadsMove, IssueMoves, RecordMoves, ConsumeMoves, RetractMoves, RevokeMoves,
       CloseMoves, SweepMoves, FinalizedMoves, ReturnMoves DEF Facade, GateReads, DropPermit, MovesTo
  <2> QED BY <1>0, <2>1, <2>2, <2>3
<1>6. ASSUME NEW c \in Callers, CallTool(c) PROVE Same
  BY <1>0, <1>6, CallToolMoves DEF CallTool
<1>7. ASSUME NEW c \in Callers, Restart(c)
      PROVE  \/ Same
             \/ call'[d].at = "idle" /\ \E listing \in Listings : proxy'[d] = Opened(listing)
  <2>1. \A b \in Callers \ {c} : call'[b] = call[b]
    BY <1>0, <1>7, ReturnMoves DEF Restart, MovesTo
  <2>2. call'[c].at = "idle"
    BY <1>0, <1>7, ReturnMoves DEF Restart, MovesTo
  <2> QED BY <1>0, <1>7, <2>1, <2>2 DEF Restart
<1>8. CASE (Others /\ UNCHANGED fronts) \/ UNCHANGED frontVars
  BY <1>1, <1>8 DEF Others, fronts, frontVars
<1> QED BY <1>3, <1>4, <1>5, <1>6, <1>7, <1>8 DEF DispatchNext

LEMMA ProxyInvNext == ProxyInv /\ [DispatchNext]_frontVars => ProxyInv'
<1> SUFFICES ASSUME ProxyInv, [DispatchNext]_frontVars, NEW d \in Proxies
             PROVE  /\ proxy'[d].shown \in {None, proxy'[d].digest}
                    /\ call'[d].at # "idle" => proxy'[d].tools = proxy'[d].digest
  BY DispatchTypesNext DEF ProxyInv
<1>0. /\ DispatchTypeOK /\ proxy[d] \in ProxyStates
      /\ proxy[d].shown \in {None, proxy[d].digest}
      /\ call[d].at # "idle" => proxy[d].tools = proxy[d].digest
  BY DEF ProxyInv, DispatchTypeOK, FrontsOK
<1>1. CASE proxy'[d] = proxy[d] /\ (call'[d].at = "idle" \/ call[d].at # "idle")
  BY <1>0, <1>1
<1>2. ASSUME NEW listing \in Listings, call'[d].at = "idle", proxy'[d] = Opened(listing)
      PROVE  proxy'[d].shown \in {None, proxy'[d].digest}
  BY <1>2, OpenedShown
<1>3. ASSUME NEW listing \in Listings,
             LET p == Refreshed(proxy[d], listing)
             IN  \/ proxy'[d] = [p EXCEPT !.shown = None] /\ call'[d].at = "idle"
                 \/ proxy'[d] = p /\ ~Drifted(proxy[d].digest, p)
      PROVE  /\ proxy'[d].shown \in {None, proxy'[d].digest}
             /\ call'[d].at # "idle" => proxy'[d].tools = proxy'[d].digest
  <2> DEFINE p == Refreshed(proxy[d], listing)
  <2>1. p \in ProxyStates /\ p.shown = proxy[d].shown
    BY <1>0, RefreshedType
  <2>2. p.verified => p.tools = p.digest
    BY <1>0, RefreshedTools
  <2> HIDE DEF p
  <2>3. CASE proxy'[d] = [p EXCEPT !.shown = None] /\ call'[d].at = "idle"
    BY <2>1, <2>3 DEF ProxyStates
  <2>4. CASE proxy'[d] = p /\ ~Drifted(proxy[d].digest, p)
    BY <1>0, <2>1, <2>2, <2>4 DEF Drifted
  <2> QED BY <1>3, <2>3, <2>4 DEF p
<1> QED BY <1>0, <1>1, <1>2, <1>3, ProxyFate

\* Whatever the upstream server answers between two calls, a proxy forwards a call
\* only to the tools it has shown, or after telling its clients that they changed.
THEOREM ForwardedUnderTheSchema == DispatchSpec => []ForwardedAsShown
<1>1. DispatchInit => ProxyInv
  <2> SUFFICES ASSUME DispatchInit, NEW c \in Proxies
               PROVE  /\ proxy[c].shown \in {None, proxy[c].digest}
                      /\ call[c].at = "idle"
    BY DispatchTypesInit DEF ProxyInv
  <2> QED BY OpenedShown, DispatchAssumption DEF DispatchInit, FlowInit, Idle
<1>2. ProxyInv => ForwardedAsShown
  BY DEF ProxyInv, ForwardedAsShown, At
<1> QED BY <1>1, <1>2, ProxyInvNext, PTL DEF DispatchSpec

-----------------------------------------------------------------------------
(* Profiles.  The lowest requires nothing, so what a host can prove has a  *)
(* highest profile; that is what a downgrade falls to.                     *)

LEMMA RanksAre == ToolPolicy!Ranks = 1..4 /\ ToolPolicy!Required[1] = {}
BY DEF ToolPolicy!Ranks, ToolPolicy!Profiles, ToolPolicy!Required

\* A higher profile requires all that a lower one does.
LEMMA RequiresMore ==
  ASSUME NEW has, NEW low \in ToolPolicy!Ranks, NEW high \in ToolPolicy!Ranks, low <= high,
         ToolPolicy!Missing(has, high) = {}
  PROVE  ToolPolicy!Missing(has, low) = {}
<1>1. ToolPolicy!Required[2] \subseteq ToolPolicy!Required[3]
  BY DEF ToolPolicy!Required
<1>2. ToolPolicy!Required[3] \subseteq ToolPolicy!Required[4]
  BY DEF ToolPolicy!Required, ToolPolicy!Capabilities
<1>3. ToolPolicy!Required[low] \subseteq ToolPolicy!Required[high]
  <2>1. low \in 1..4 /\ high \in 1..4
    BY RanksAre
  <2> QED BY <1>1, <1>2, <2>1, RanksAre
<1> QED BY <1>3 DEF ToolPolicy!Missing

LEMMA HighestProven ==
  ASSUME NEW has
  PROVE  LET p == ToolPolicy!MaximumProfile(has) IN
         /\ p \in ToolPolicy!Ranks /\ ToolPolicy!Missing(has, p) = {}
         /\ \A q \in ToolPolicy!Ranks : ToolPolicy!Missing(has, q) = {} => q <= p
<1> DEFINE Proven == {p \in 1..4 : ToolPolicy!Missing(has, p) = {}}
<1>1. 1 \in Proven /\ Proven \in SUBSET (0..4)
  BY RanksAre DEF ToolPolicy!Missing
<1>2. PICK p \in Proven : \A q \in Proven : p >= q
  <2> HIDE DEF Proven
  <2> QED BY <1>1, GreatestNatural, 4 \in Nat
<1>3. \E q \in ToolPolicy!Ranks : /\ ToolPolicy!Missing(has, q) = {}
                                 /\ \A r \in ToolPolicy!Ranks : ToolPolicy!Missing(has, r) = {} => r <= q
  BY <1>2, RanksAre
<1> QED BY <1>3 DEF ToolPolicy!MaximumProfile

LEMMA ProfilesProven == ToolPolicy!AllProfilesProven
<1> SUFFICES ASSUME NEW has \in SUBSET ToolPolicy!Capabilities, NEW requested \in ToolPolicy!Ranks,
                    NEW downgrade \in BOOLEAN, NEW observeOnly \in BOOLEAN
             PROVE  LET effective == ToolPolicy!Negotiated(has, requested, downgrade, observeOnly) IN
                    /\ ToolPolicy!Missing(has, effective) = {} /\ effective <= requested
                    /\ \A p \in 1..requested :
                         downgrade /\ ~observeOnly /\ ToolPolicy!Missing(has, p) = {} => p <= effective
                    /\ ToolPolicy!Opens(has, requested) =>
                         ToolPolicy!Negotiated(has, requested, FALSE, FALSE) = requested
  BY DEF ToolPolicy!AllProfilesProven
<1>1. requested \in 1..4 /\ 1 \in 1..4 /\ ToolPolicy!Missing(has, 1) = {}
  BY RanksAre DEF ToolPolicy!Missing
<1>2. ToolPolicy!Opens(has, requested) => ToolPolicy!Negotiated(has, requested, FALSE, FALSE) = requested
  BY DEF ToolPolicy!Opens, ToolPolicy!Negotiated
<1>3. CASE observeOnly
  BY <1>1, <1>2, <1>3 DEF ToolPolicy!Negotiated
<1>4. CASE ~observeOnly /\ ToolPolicy!Missing(has, requested) = {}
  BY <1>1, <1>2, <1>4 DEF ToolPolicy!Negotiated
<1>5. CASE ~observeOnly /\ ToolPolicy!Missing(has, requested) # {} /\ ~downgrade
  BY <1>1, <1>2, <1>5 DEF ToolPolicy!Negotiated
<1>6. CASE ~observeOnly /\ ToolPolicy!Missing(has, requested) # {} /\ downgrade
  <2> DEFINE highest == ToolPolicy!MaximumProfile(has)
  <2>1. /\ highest \in 1..4 /\ ToolPolicy!Missing(has, highest) = {}
        /\ \A q \in 1..4 : ToolPolicy!Missing(has, q) = {} => q <= highest
    BY RanksAre, HighestProven
  <2>2. ToolPolicy!Negotiated(has, requested, downgrade, observeOnly) = highest
    BY <1>6 DEF ToolPolicy!Negotiated
  <2> HIDE DEF highest
  <2>3. highest <= requested
    <3> SUFFICES ASSUME ~(highest <= requested) PROVE FALSE
      OBVIOUS
    <3> QED BY <1>1, <1>6, <2>1, RanksAre, RequiresMore
  <2>4. \A p \in 1..requested : p \in 1..4
    BY <1>1
  <2> QED BY <1>2, <2>1, <2>2, <2>3, <2>4
<1> QED BY <1>3, <1>4, <1>5, <1>6

-----------------------------------------------------------------------------
(* The action gate, for a ledger of any number of beliefs and a policy of  *)
(* any preconditions.                                                      *)

BeliefsAbout(conditions) ==
  [in : BOOLEAN, says : conditions, integrity : DOMAIN ActionGate!Integrity, upTo : Int]

PoliciesAbout(conditions) ==
  {ActionGate!NoPolicy} \cup
  {p \in [known : {TRUE}, effectful : BOOLEAN, base : Int, minimum : DOMAIN ActionGate!Enough,
          approval : BOOLEAN, preconditions : SUBSET conditions] : IsFiniteSet(p.preconditions)}

GateSettings ==
  [enabled : BOOLEAN, enforce : BOOLEAN, observe : BOOLEAN, confirmCritical : BOOLEAN,
   approved : BOOLEAN, mutating : BOOLEAN, default : Int, conflict : {"none", "touching"}]

\* _entailing_belief returns one belief at most.
LEMMA OneEntails ==
  ASSUME NEW T, NEW beliefs \in Seq(T), NEW name, NEW minimum,
         NEW i \in ActionGate!Entailing(beliefs, name, minimum),
         NEW j \in ActionGate!Entailing(beliefs, name, minimum)
  PROVE  i = j
<1>1. i \in Nat /\ j \in Nat /\ i <= j /\ j <= i
  BY DEF ActionGate!Entailing
<1> QED BY <1>1

\* What passes the comparison of ranks is what is enough.
LEMMA IntegrityEnough ==
  ASSUME NEW minimum \in DOMAIN ActionGate!Enough, NEW has \in DOMAIN ActionGate!Integrity,
         ActionGate!Integrity[has] >= ActionGate!Integrity[minimum]
  PROVE  has \in ActionGate!Enough[minimum]
BY DEF ActionGate!Integrity, ActionGate!Enough

LEMMA CountsAlike == \A S : ActionGate!Cardinality(S) = Cardinality(S)
BY DEF ActionGate!Cardinality, Cardinality

AllEntailed(beliefs, named, minimum, stakes) ==
  \A name \in named : \E i \in ActionGate!Entailing(beliefs, name, minimum) :
    ActionGate!Admitted(beliefs[i], stakes)

OneForEach(beliefs, chosen, named, minimum, stakes) ==
  /\ Cardinality(chosen) = Cardinality(named)
  /\ {beliefs[i].says : i \in chosen} = named
  /\ \A i \in chosen : /\ beliefs[i].in /\ beliefs[i].upTo >= stakes
                       /\ beliefs[i].integrity \in ActionGate!Enough[minimum]

\* The beliefs a permit names are in a one to one correspondence with the conditions
\* they satisfy.
LEMMA SupportsGround ==
  ASSUME NEW conditions, NEW beliefs \in Seq(BeliefsAbout(conditions)),
         NEW minimum \in DOMAIN ActionGate!Enough, NEW stakes \in Int, NEW named, IsFiniteSet(named),
         AllEntailed(beliefs, named, minimum, stakes), NEW chosen,
         chosen = UNION {ActionGate!Entailing(beliefs, name, minimum) : name \in named}
  PROVE  OneForEach(beliefs, chosen, named, minimum, stakes)
<1> DEFINE E(name) == ActionGate!Entailing(beliefs, name, minimum)
           first == [name \in named |-> CHOOSE i \in E(name) : ActionGate!Admitted(beliefs[i], stakes)]
<1>1. \A name \in named : first[name] \in E(name) /\ ActionGate!Admitted(beliefs[first[name]], stakes)
  BY DEF AllEntailed
<1>2. ASSUME NEW name \in named, NEW i \in E(name)
      PROVE  i = first[name]
  BY <1>1, OneEntails
<1>3. ASSUME NEW name \in named, NEW i \in E(name)
      PROVE  /\ i \in DOMAIN beliefs /\ beliefs[i].says = name /\ beliefs[i].in
             /\ beliefs[i].integrity \in ActionGate!Enough[minimum]
  <2>1. /\ i \in DOMAIN beliefs /\ beliefs[i].says = name /\ beliefs[i].in
        /\ ActionGate!Integrity[beliefs[i].integrity] >= ActionGate!Integrity[minimum]
    BY DEF ActionGate!Entailing
  <2>2. beliefs[i].integrity \in DOMAIN ActionGate!Integrity
    <3>1. beliefs[i] \in BeliefsAbout(conditions)
      BY <2>1
    <3> QED BY <3>1 DEF BeliefsAbout
  <2> QED BY <2>1, <2>2, IntegrityEnough
<1>4. \A i \in chosen : \E name \in named : i \in E(name) /\ i = first[name]
  BY <1>2
<1>5. Cardinality(chosen) = Cardinality(named)
  <2>1. first \in [named -> chosen]
    BY <1>1
  <2>2. \A x, y \in named : first[x] = first[y] => x = y
    <3> SUFFICES ASSUME NEW x \in named, NEW y \in named, first[x] = first[y] PROVE x = y
      OBVIOUS
    <3>1. first[x] \in E(x) /\ first[x] \in E(y)
      BY <1>1
    <3> HIDE DEF first, E
    <3> QED BY <1>3, <3>1
  <2>3. \A i \in chosen : \E name \in named : first[name] = i
    BY <1>4
  <2> HIDE DEF first
  <2> QED BY <2>1, <2>2, <2>3, OneToOneCounts
<1>6. {beliefs[i].says : i \in chosen} = named
  <2>1. \A i \in chosen : beliefs[i].says \in named
    BY <1>3
  <2>2. \A name \in named : first[name] \in chosen /\ beliefs[first[name]].says = name
    BY <1>1, <1>3
  <2> HIDE DEF first
  <2> QED BY <2>1, <2>2
<1>7. \A i \in chosen : /\ beliefs[i].in /\ beliefs[i].upTo >= stakes
                        /\ beliefs[i].integrity \in ActionGate!Enough[minimum]
  <2> SUFFICES ASSUME NEW i \in chosen
               PROVE  /\ beliefs[i].in /\ beliefs[i].upTo >= stakes
                      /\ beliefs[i].integrity \in ActionGate!Enough[minimum]
    OBVIOUS
  <2>1. PICK name \in named : i \in E(name) /\ i = first[name]
    BY <1>4
  <2>2. ActionGate!Admitted(beliefs[i], stakes)
    BY <1>1, <2>1
  <2> HIDE DEF first, E
  <2> QED BY <1>3, <2>1, <2>2 DEF ActionGate!Admitted
<1> HIDE DEF first
<1> QED BY <1>5, <1>6, <1>7 DEF OneForEach

\* evaluate_action and _evaluate_with_policy.
THEOREM AnyActionDecidedRightly ==
  ASSUME NEW conditions, NEW beliefs \in Seq(BeliefsAbout(conditions)),
         NEW policy \in PoliciesAbout(conditions), NEW world \in GateSettings
  PROVE  ActionGate!Decided(policy, beliefs, world)
<1> DEFINE answer == ActionGate!Authorization(policy, beliefs, world)
           reason == ActionGate!Gate(policy, beliefs, world)
<1>1. CASE policy = ActionGate!NoPolicy
  <2>1. ~policy.known
    BY <1>1 DEF ActionGate!NoPolicy
  <2>2. ~answer.permit
    BY <2>1 DEF ActionGate!Authorization
  <2>3. ASSUME world.enabled, world.enforce PROVE ~answer.allow
    <3>1. LET class == ActionGate!Classified(policy, world) IN ~class.known /\ class.effectful
      BY <2>1, <2>3 DEF ActionGate!Classified
    <3>2. reason = "UNKNOWN_EFFECTFUL_TOOL"
      BY <2>3, <3>1 DEF ActionGate!Gate
    <3> QED BY <3>2 DEF ActionGate!Authorization, ActionGate!Allows
  <2> HIDE DEF answer
  <2>4. answer = ActionGate!Authorization(policy, beliefs, world)
    BY DEF answer
  <2> QED BY <2>1, <2>2, <2>3, <2>4 DEF ActionGate!Decided
<1>2. CASE policy # ActionGate!NoPolicy
  <2>1. /\ policy \in [known : {TRUE}, effectful : BOOLEAN, base : Int, minimum : DOMAIN ActionGate!Enough,
                       approval : BOOLEAN, preconditions : SUBSET conditions]
        /\ IsFiniteSet(policy.preconditions)
    BY <1>2 DEF PoliciesAbout
  <2> DEFINE class == ActionGate!Classified(policy, world)
             named == policy.preconditions \ {"no_open_conflict", ActionGate!Confirmation}
             stakes == ActionGate!Higher(world.default, policy.base)
  <2>2. /\ class.known /\ class.effectful = policy.effectful /\ class.base = policy.base
        /\ class.minimum = policy.minimum
        /\ class.preconditions = policy.preconditions \ {ActionGate!Confirmation}
    BY <2>1 DEF ActionGate!Classified
  <2>3. ActionGate!Stakes(policy, world) = stakes /\ stakes \in Int
    BY <2>1, <2>2 DEF ActionGate!Stakes, ActionGate!Higher, GateSettings
  <2>4. /\ answer.permit = (/\ reason \in ActionGate!Allows /\ policy.effectful
                            /\ (ActionGate!ApprovalNeeded(policy) => world.approved)
                            /\ ~world.observe)
        /\ answer.allow = (/\ reason \in ActionGate!Allows
                           /\ ~(ActionGate!ApprovalNeeded(policy) /\ ~world.approved)
                           /\ ~(policy.effectful /\ world.observe))
        /\ answer.supports = ActionGate!Supports(policy, beliefs)
    <3> HIDE DEF reason
    <3> QED BY <2>1 DEF ActionGate!Authorization, reason
  <2>5. ASSUME answer.permit, world.enabled
        PROVE  /\ ActionGate!Grounded(policy, beliefs, answer.supports, world)
               /\ "no_open_conflict" \in policy.preconditions => world.conflict = "none"
    <3>1. reason \in ActionGate!Allows /\ policy.effectful
      BY <2>4, <2>5
    <3>2. \A name \in ActionGate!Required(policy, world) :
            ActionGate!Satisfied(name, beliefs, policy.minimum, stakes, world)
      BY <2>2, <2>3, <2>5, <3>1 DEF ActionGate!Gate, ActionGate!Allows
    <3>3. policy.preconditions \ {ActionGate!Confirmation} \subseteq ActionGate!Required(policy, world)
      BY <2>2 DEF ActionGate!Required
    <3>4. "no_open_conflict" \in policy.preconditions => world.conflict = "none"
      <4>1. SUFFICES ASSUME "no_open_conflict" \in policy.preconditions PROVE world.conflict = "none"
        OBVIOUS
      <4>2. ActionGate!Satisfied("no_open_conflict", beliefs, policy.minimum, stakes, world)
        BY <3>2, <3>3, <4>1 DEF ActionGate!Confirmation
      <4> QED BY <4>2 DEF ActionGate!Satisfied, ActionGate!Confirmation, GateSettings
    <3>5. \A name \in named : \E i \in ActionGate!Entailing(beliefs, name, policy.minimum) :
                                ActionGate!Admitted(beliefs[i], stakes)
      BY <3>2, <3>3 DEF ActionGate!Satisfied
    <3>6. IsFiniteSet(named)
      BY <2>1, FS_Difference
    <3>7. answer.supports = UNION {ActionGate!Entailing(beliefs, name, policy.minimum) : name \in named}
      BY <2>4 DEF ActionGate!Supports
    <3>8. policy.minimum \in DOMAIN ActionGate!Enough
      BY <2>1
    <3> DEFINE minimum == policy.minimum
               supports == answer.supports
    <3>9. stakes \in Int
      BY <2>3
    <3> HIDE DEF minimum, supports, stakes, named
    <3>a. AllEntailed(beliefs, named, minimum, stakes)
      BY <3>5 DEF minimum, AllEntailed
    <3>b. supports = UNION {ActionGate!Entailing(beliefs, name, minimum) : name \in named}
      BY <3>7 DEF minimum, supports
    <3>c. minimum \in DOMAIN ActionGate!Enough
      BY <3>8 DEF minimum
    <3>d. OneForEach(beliefs, supports, named, minimum, stakes)
      BY <3>6, <3>9, <3>a, <3>b, <3>c, SupportsGround
    <3> HIDE DEF answer
    <3> QED BY <3>4, <3>d, CountsAlike DEF ActionGate!Grounded, OneForEach, minimum, supports, named, stakes
  <2> HIDE DEF answer, reason
  <2>6. answer = ActionGate!Authorization(policy, beliefs, world)
    BY DEF answer
  <2>7. policy.known /\ policy.effectful \in BOOLEAN
    BY <2>1
  <2> QED BY <2>4, <2>5, <2>6, <2>7 DEF ActionGate!Decided
<1> QED BY <1>1, <1>2

LEMMA AllDecidedRightly == ActionGate!AllDecided
<1> DEFINE conditions == {"target_exists", "operator_policy", "no_open_conflict", ActionGate!Confirmation}
<1>1. ASSUME NEW policy \in ActionGate!Policies PROVE policy \in PoliciesAbout(conditions)
  <2>1. CASE policy = ActionGate!NoPolicy
    BY <2>1 DEF PoliciesAbout
  <2>2. CASE policy # ActionGate!NoPolicy
    <3> DEFINE held == {{}, {"target_exists"}, {"target_exists", "operator_policy"},
                        {"target_exists", "no_open_conflict"}, {"target_exists", ActionGate!Confirmation}}
    <3>1. policy \in [known : {TRUE}, effectful : BOOLEAN, base : {ActionGate!HIGH, ActionGate!CRITICAL},
                      minimum : DOMAIN ActionGate!Enough, approval : BOOLEAN, preconditions : held]
      BY <2>2 DEF ActionGate!Policies
    <3>2. IsFiniteSet(conditions)
      <4>1. IsFiniteSet({"target_exists"} \cup {"operator_policy"})
        BY FS_Singleton, FS_Union
      <4>2. IsFiniteSet({"no_open_conflict"} \cup {ActionGate!Confirmation})
        BY FS_Singleton, FS_Union
      <4>3. conditions = ({"target_exists"} \cup {"operator_policy"}) \cup
                         ({"no_open_conflict"} \cup {ActionGate!Confirmation})
        OBVIOUS
      <4> HIDE DEF conditions
      <4> QED BY <4>1, <4>2, <4>3, FS_Union
    <3>3. \A names \in held : names \in SUBSET conditions
      OBVIOUS
    <3> HIDE DEF held, conditions
    <3>4. policy.preconditions \in SUBSET conditions /\ IsFiniteSet(policy.preconditions)
      BY <3>1, <3>2, <3>3, FS_Subset
    <3>5. ActionGate!HIGH \in Int /\ ActionGate!CRITICAL \in Int
      BY DEF ActionGate!HIGH, ActionGate!CRITICAL
    <3>6. policy \in [known : {TRUE}, effectful : BOOLEAN, base : Int, minimum : DOMAIN ActionGate!Enough,
                      approval : BOOLEAN, preconditions : SUBSET conditions]
      BY <3>1, <3>4, <3>5
    <3> QED BY <3>4, <3>6 DEF PoliciesAbout
  <2> QED BY <2>1, <2>2
<1>2. ASSUME NEW world \in ActionGate!GateWorlds PROVE world \in GateSettings
  BY DEF ActionGate!GateWorlds, GateSettings, ActionGate!LOW, ActionGate!CRITICAL
<1>3. ASSUME NEW b \in ActionGate!Variants PROVE b \in BeliefsAbout(conditions)
  <2>1. {"trusted", "semi", "unreadable"} \subseteq DOMAIN ActionGate!Integrity
    BY DEF ActionGate!Integrity
  <2>2. ActionGate!CRITICAL \in Int /\ ActionGate!MED \in Int /\ ActionGate!HIGH \in Int
    BY DEF ActionGate!HIGH, ActionGate!CRITICAL, ActionGate!MED
  <2>3. ActionGate!Good \in BeliefsAbout(conditions)
    BY <2>1, <2>2 DEF ActionGate!Good, BeliefsAbout
  <2>4. "operator_policy" \in conditions
    OBVIOUS
  <2> HIDE DEF conditions
  <2> QED BY <2>1, <2>2, <2>3, <2>4 DEF ActionGate!Variants, BeliefsAbout
<1> HIDE DEF conditions
<1>4. ASSUME NEW policy \in ActionGate!Policies, NEW world \in ActionGate!GateWorlds,
             NEW b1 \in ActionGate!Variants, NEW b2 \in ActionGate!Variants
      PROVE  ActionGate!Decided(policy, <<b1, b2>>, world)
  <2>1. <<b1, b2>> \in Seq(BeliefsAbout(conditions))
    BY <1>3
  <2> QED BY <1>1, <1>2, <2>1, AnyActionDecidedRightly
<1> QED BY <1>4 DEF ActionGate!AllDecided

-----------------------------------------------------------------------------
(* The response gate, for a conversation of any length and any chunks.     *)

GateCalls == [op : {"append"}, chunk : Nat] \cup {[op |-> "cancel"], ResponseGate!Finalize}

Failures == {"", "MULTIPLE_FINAL", "INVALID_CHUNK_ORDER", "BUFFER_OVERFLOW", "CANCELLED"}
Gates == [buffer : Seq(Nat), nextIndex : Nat, failed : Failures, finalized : BOOLEAN]

\* f gives the state after each call.
Served(calls, world, n, f) ==
  f = [i \in 0..n |-> IF i = 0 THEN [gate |-> ResponseGate!NewGate, results |-> << >>]
                      ELSE ResponseGate!Step(f[i - 1], calls[i], world)]

LEMMA ServedAt ==
  ASSUME NEW calls, NEW world, NEW n \in Nat, NEW f, Served(calls, world, n, f)
  PROVE  /\ f[0] = [gate |-> ResponseGate!NewGate, results |-> << >>]
         /\ \A i \in 1..n : f[i] = ResponseGate!Step(f[i - 1], calls[i], world)
<1>1. 0 \in 0..n /\ \A i \in 1..n : i \in 0..n /\ i # 0
  OBVIOUS
<1> QED BY <1>1, Zenon DEF Served

LEMMA ServedExists ==
  ASSUME NEW calls, NEW world, NEW n \in Nat
  PROVE  \E f : Served(calls, world, n, f)
<1> DEFINE S == {k \in Nat : \E f : Served(calls, world, k, f)}
<1>1. 0 \in S
  <2>1. Served(calls, world, 0, [i \in 0..0 |-> [gate |-> ResponseGate!NewGate, results |-> << >>]])
    BY DEF Served
  <2> QED BY <2>1
<1>2. ASSUME NEW k \in Nat, k \in S PROVE k + 1 \in S
  <2>1. PICK f : Served(calls, world, k, f)
    BY <1>2
  <2> DEFINE g == [i \in 0..(k + 1) |-> IF i = k + 1 THEN ResponseGate!Step(f[k], calls[k + 1], world)
                                          ELSE f[i]]
  <2>2. ASSUME NEW i \in 0..(k + 1)
        PROVE  g[i] = IF i = 0 THEN [gate |-> ResponseGate!NewGate, results |-> << >>]
                      ELSE ResponseGate!Step(g[i - 1], calls[i], world)
    <3>1. CASE i = 0
      <4>1. 0 \in 0..(k + 1) /\ 0 # k + 1
        OBVIOUS
      <4>2. g[0] = f[0]
        BY <4>1
      <4> QED BY <2>1, <3>1, <4>2, ServedAt
    <3>2. CASE i = k + 1
      <4>1. k + 1 \in 0..(k + 1) /\ k \in 0..(k + 1) /\ k # k + 1 /\ (k + 1) - 1 = k /\ k + 1 # 0
        OBVIOUS
      <4>2. g[k + 1] = ResponseGate!Step(f[k], calls[k + 1], world) /\ g[k] = f[k]
        BY <4>1
      <4> QED BY <3>2, <4>1, <4>2
    <3>3. CASE i # 0 /\ i # k + 1
      <4>1. i \in 1..k /\ i - 1 \in 0..(k + 1) /\ i - 1 # k + 1
        BY <3>3
      <4>2. g[i] = f[i] /\ g[i - 1] = f[i - 1]
        BY <3>3, <4>1
      <4>3. f[i] = ResponseGate!Step(f[i - 1], calls[i], world)
        BY <2>1, <4>1, ServedAt
      <4> QED BY <3>3, <4>2, <4>3
    <3> QED BY <3>1, <3>2, <3>3
  <2>3. Served(calls, world, k + 1, g)
    <3>1. g = [i \in 0..(k + 1) |-> g[i]]
      OBVIOUS
    <3> HIDE DEF g
    <3> QED BY <2>2, <3>1 DEF Served
  <2> QED BY <2>3
<1> HIDE DEF S
<1>3. Nat \subseteq S
  BY <1>1, <1>2, SetInduction
<1> QED BY <1>3 DEF S

LEMMA ResultsOf ==
  ASSUME NEW calls, NEW world, Len(calls) \in Nat
  PROVE  \E f : /\ Served(calls, world, Len(calls), f)
                /\ ResponseGate!Results(calls, world) = f[Len(calls)].results
<1> DEFINE f == CHOOSE f : Served(calls, world, Len(calls), f)
<1>1. Served(calls, world, Len(calls), f)
  BY ServedExists
<1>2. ResponseGate!Results(calls, world) = f[Len(calls)].results
  BY DEF ResponseGate!Results, Served
<1> QED BY <1>1, <1>2

-----------------------------------------------------------------------------
\* The calls up to i are chunks in order, and they fit.
Whole(calls, i) ==
  /\ \A j \in 1..i : calls[j] = [op |-> "append", chunk |-> j - 1]
  /\ i <= ResponseGate!MaxBytes

\* Before the response is finalized, the gate has failed exactly if it was not handed
\* chunks in order that fit, and otherwise holds them all.
OpenGate(calls, state, i) ==
  /\ state.results = << >> /\ state.gate \in Gates /\ ~state.gate.finalized
  /\ state.gate.failed = "" <=> Whole(calls, i)
  /\ state.gate.failed = "" => state.gate.buffer = ResponseGate!InOrder(i) /\ state.gate.nextIndex = i

LEMMA InOrderNext ==
  ASSUME NEW n \in Nat
  PROVE  /\ ResponseGate!InOrder(n) \in Seq(Nat) /\ Len(ResponseGate!InOrder(n)) = n
         /\ Append(ResponseGate!InOrder(n), n) = ResponseGate!InOrder(n + 1)
BY DEF ResponseGate!InOrder

LEMMA FailKeeps ==
  ASSUME NEW gate \in Gates, NEW reason \in Failures \ {""}, ~gate.finalized
  PROVE  LET after == ResponseGate!Fail(gate, reason) IN
         /\ after \in Gates /\ ~after.finalized /\ after.failed # ""
BY DEF ResponseGate!Fail, Gates, Failures

LEMMA AppendedGate ==
  ASSUME NEW gate \in Gates, NEW chunk \in Nat, ~gate.finalized
  PROVE  LET after == ResponseGate!Appended(gate, chunk) IN
         /\ after \in Gates /\ ~after.finalized
         /\ after.failed = "" <=> /\ gate.failed = "" /\ chunk = gate.nextIndex
                                  /\ Len(gate.buffer) + 1 <= ResponseGate!MaxBytes
         /\ after.failed = "" => /\ after.buffer = Append(gate.buffer, chunk)
                                 /\ after.nextIndex = gate.nextIndex + 1
<1> DEFINE next == [gate EXCEPT !.nextIndex = @ + 1]
           after == ResponseGate!Appended(gate, chunk)
<1>1. /\ next \in Gates /\ ~next.finalized /\ next.failed = gate.failed
      /\ next.buffer = gate.buffer /\ next.nextIndex = gate.nextIndex + 1
  BY DEF Gates
<1>2. CASE chunk # gate.nextIndex
  <2>1. after = ResponseGate!Fail(gate, "INVALID_CHUNK_ORDER")
    BY <1>2 DEF ResponseGate!Appended
  <2> QED BY <1>2, <2>1, FailKeeps DEF Failures
<1>3. CASE chunk = gate.nextIndex /\ Len(gate.buffer) + 1 > ResponseGate!MaxBytes
  <2>1. after = ResponseGate!Fail(next, "BUFFER_OVERFLOW")
    BY <1>3 DEF ResponseGate!Appended, ResponseGate!Overflow
  <2>2. Len(gate.buffer) \in Nat /\ ResponseGate!MaxBytes \in Nat
    BY DEF Gates, ResponseGate!MaxBytes
  <2>3. "BUFFER_OVERFLOW" \in Failures \ {""}
    BY DEF Failures
  <2> HIDE DEF next, after
  <2>4. after \in Gates /\ ~after.finalized /\ after.failed # ""
    BY <1>1, <2>1, <2>3, FailKeeps
  <2>5. ~(Len(gate.buffer) + 1 <= ResponseGate!MaxBytes)
    BY <1>3, <2>2
  <2> QED BY <2>4, <2>5 DEF after
<1>4. CASE chunk = gate.nextIndex /\ ~(Len(gate.buffer) + 1 > ResponseGate!MaxBytes)
  <2>1. after = [next EXCEPT !.buffer = Append(@, chunk)]
    BY <1>4 DEF ResponseGate!Appended
  <2>2. Len(gate.buffer) \in Nat /\ ResponseGate!MaxBytes \in Nat
    BY DEF Gates, ResponseGate!MaxBytes
  <2> HIDE DEF next
  <2>3. Append(next.buffer, chunk) \in Seq(Nat)
    BY <1>1 DEF Gates
  <2>4. after \in Gates /\ ~after.finalized /\ after.failed = next.failed
        /\ after.buffer = Append(next.buffer, chunk) /\ after.nextIndex = next.nextIndex
    BY <1>1, <2>1, <2>3 DEF Gates
  <2>5. Len(gate.buffer) + 1 <= ResponseGate!MaxBytes
    BY <1>4, <2>2
  <2>6. /\ after.buffer = Append(gate.buffer, chunk) /\ after.nextIndex = gate.nextIndex + 1
        /\ after.failed = "" <=> gate.failed = ""
    BY <1>1, <2>4
  <2> HIDE DEF after
  <2> QED BY <1>4, <2>4, <2>5, <2>6 DEF after
<1> QED BY <1>2, <1>3, <1>4

LEMMA OpenStarts ==
  ASSUME NEW calls
  PROVE  OpenGate(calls, [gate |-> ResponseGate!NewGate, results |-> << >>], 0)
<1>1. ResponseGate!NewGate \in Gates /\ ~ResponseGate!NewGate.finalized /\ ResponseGate!NewGate.failed = ""
      /\ ResponseGate!NewGate.buffer = << >> /\ ResponseGate!NewGate.nextIndex = 0
  BY DEF ResponseGate!NewGate, Gates, Failures
<1>2. ResponseGate!InOrder(0) = << >>
  BY DEF ResponseGate!InOrder
<1>3. Whole(calls, 0)
  BY DEF Whole, ResponseGate!MaxBytes
<1> HIDE DEF ResponseGate!NewGate
<1> QED BY <1>1, <1>2, <1>3 DEF OpenGate

LEMMA OpenStep ==
  ASSUME NEW calls \in Seq(GateCalls), NEW world, NEW state, NEW i \in Nat, i + 1 \in DOMAIN calls,
         OpenGate(calls, state, i), calls[i + 1] # ResponseGate!Finalize,
         state = [gate |-> state.gate, results |-> state.results]
  PROVE  LET after == ResponseGate!Step(state, calls[i + 1], world) IN
         OpenGate(calls, after, i + 1) /\ after = [gate |-> after.gate, results |-> after.results]
<1> DEFINE request == calls[i + 1]
           after == ResponseGate!Step(state, request, world)
<1>0. /\ state.results = << >> /\ state.gate \in Gates /\ ~state.gate.finalized
      /\ state.gate.failed = "" <=> Whole(calls, i)
      /\ state.gate.failed = "" => state.gate.buffer = ResponseGate!InOrder(i) /\ state.gate.nextIndex = i
  BY DEF OpenGate
<1>1. Whole(calls, i + 1) <=> /\ Whole(calls, i) /\ request = [op |-> "append", chunk |-> i]
                              /\ i + 1 <= ResponseGate!MaxBytes
  <2>1. (i + 1) - 1 = i /\ \A j \in 1..(i + 1) : j \in 1..i \/ j = i + 1
    OBVIOUS
  <2>2. i + 1 \in 1..(i + 1) /\ \A j \in 1..i : j \in 1..(i + 1)
    OBVIOUS
  <2>3. i + 1 <= ResponseGate!MaxBytes => i <= ResponseGate!MaxBytes
    BY DEF ResponseGate!MaxBytes
  <2> QED BY <2>1, <2>2, <2>3 DEF Whole
<1>2. CASE request \in [op : {"append"}, chunk : Nat]
  <2>1. /\ request.op = "append" /\ request.chunk \in Nat
        /\ request = [op |-> "append", chunk |-> i] <=> request.chunk = i
    BY <1>2
  <2>2. after = [state EXCEPT !.gate = ResponseGate!Appended(@, request.chunk)]
    BY <2>1 DEF ResponseGate!Step
  <2>3. /\ after.gate = ResponseGate!Appended(state.gate, request.chunk) /\ after.results = << >>
        /\ after = [gate |-> after.gate, results |-> after.results]
    BY <1>0, <2>2
  <2> HIDE DEF after, request
  <2>4. /\ after.gate \in Gates /\ ~after.gate.finalized
        /\ after.gate.failed = "" <=> /\ state.gate.failed = "" /\ request.chunk = state.gate.nextIndex
                                      /\ Len(state.gate.buffer) + 1 <= ResponseGate!MaxBytes
        /\ after.gate.failed = "" => /\ after.gate.buffer = Append(state.gate.buffer, request.chunk)
                                     /\ after.gate.nextIndex = state.gate.nextIndex + 1
    BY <1>0, <2>1, <2>3, AppendedGate
  <2>5. after.gate.failed = "" <=> Whole(calls, i + 1)
    BY <1>0, <1>1, <2>1, <2>4, InOrderNext
  <2>6. after.gate.failed = "" => /\ after.gate.buffer = ResponseGate!InOrder(i + 1)
                                  /\ after.gate.nextIndex = i + 1
    BY <1>0, <2>4, InOrderNext
  <2>7. OpenGate(calls, after, i + 1)
    BY <2>3, <2>4, <2>5, <2>6 DEF OpenGate
  <2> QED BY <2>3, <2>7 DEF after, request
<1>3. CASE request = [op |-> "cancel"]
  <2>1. request.op = "cancel" /\ request # [op |-> "append", chunk |-> i]
    BY <1>3
  <2>2. after = [state EXCEPT !.gate = ResponseGate!Fail(@, "CANCELLED")]
    BY <2>1 DEF ResponseGate!Step
  <2>3. /\ after.gate = ResponseGate!Fail(state.gate, "CANCELLED") /\ after.results = << >>
        /\ after = [gate |-> after.gate, results |-> after.results]
    BY <1>0, <2>2
  <2> HIDE DEF after, request
  <2>4. after.gate \in Gates /\ ~after.gate.finalized /\ after.gate.failed # ""
    <3>1. "CANCELLED" \in Failures \ {""}
      BY DEF Failures
    <3> QED BY <1>0, <2>3, <3>1, FailKeeps
  <2>5. OpenGate(calls, after, i + 1)
    BY <1>0, <1>1, <2>1, <2>3, <2>4 DEF OpenGate
  <2> QED BY <2>3, <2>5 DEF after, request
<1> QED BY <1>2, <1>3 DEF GateCalls

-----------------------------------------------------------------------------
\* What the response that is handed over in i calls may be answered with.
RightAnswer(calls, i, world, answer) ==
  LET sound == Whole(calls, i) /\ world.utf8 /\ world.lint = "accepts"
      whole == ResponseGate!InOrder(i)
  IN /\ answer.sink \in {ResponseGate!BlockReport, << >>} \/ (sound /\ answer.sink = whole)
     /\ answer.accepted => sound /\ answer.sink = whole
     /\ answer.bytes = Len(answer.sink)
     /\ sound /\ world.prepares /\ world.delivers => answer.accepted

LEMMA DeliveredRightly ==
  ASSUME NEW calls, NEW i \in Nat, NEW state, OpenGate(calls, state, i), NEW world \in ResponseGate!Worlds
  PROVE  RightAnswer(calls, i, world, ResponseGate!Deliver(state.gate, world))
<1> DEFINE sound == Whole(calls, i) /\ world.utf8 /\ world.lint = "accepts"
           reason == ResponseGate!Refused(state.gate, world)
           answer == ResponseGate!Deliver(state.gate, world)
<1>1. /\ world.utf8 \in BOOLEAN /\ world.prepares \in BOOLEAN /\ world.preparesAgain \in BOOLEAN
      /\ world.delivers \in BOOLEAN /\ world.lint \in {"accepts", "refuses", "raises"}
  BY DEF ResponseGate!Worlds
<1>2. reason = "" <=> sound
  <2>1. state.gate.failed = "" <=> Whole(calls, i)
    BY DEF OpenGate
  <2>2. CASE state.gate.failed # ""
    BY <2>1, <2>2 DEF ResponseGate!Refused
  <2>3. CASE state.gate.failed = "" /\ ~world.utf8
    BY <2>1, <2>3 DEF ResponseGate!Refused
  <2>4. CASE state.gate.failed = "" /\ world.utf8
    <3> DEFINE said == [accepts |-> "", refuses |-> "LINT_BLOCKED", raises |-> "LINTER_ERROR"]
    <3>1. reason = said[world.lint]
      BY <2>4 DEF ResponseGate!Refused
    <3>2. said[world.lint] = "" <=> world.lint = "accepts"
      <4>1. said["accepts"] = "" /\ said["refuses"] = "LINT_BLOCKED" /\ said["raises"] = "LINTER_ERROR"
        OBVIOUS
      <4> HIDE DEF said
      <4> QED BY <1>1, <4>1
    <3> QED BY <2>1, <2>4, <3>1, <3>2
  <2> QED BY <1>1, <2>2, <2>3, <2>4
<1>3. reason = "" => state.gate.buffer = ResponseGate!InOrder(i)
  BY <1>2 DEF OpenGate
<1> DEFINE payload == IF reason = "" THEN state.gate.buffer ELSE ResponseGate!BlockReport
           failed(code) == [sink |-> << >>, accepted |-> FALSE, reason |-> code, bytes |-> 0]
<1>4. Len(<< >>) = 0
  OBVIOUS
<1>5. CASE world.prepares /\ world.delivers
  <2>1. answer = [sink |-> payload, accepted |-> (reason = ""), reason |-> reason, bytes |-> Len(payload)]
    BY <1>5 DEF ResponseGate!Deliver
  <2> HIDE DEF answer, reason
  <2>2. answer.sink = payload /\ answer.accepted = (reason = "") /\ answer.bytes = Len(answer.sink)
    BY <2>1
  <2>3. answer.sink \in {ResponseGate!BlockReport, << >>} \/ (sound /\ answer.sink = ResponseGate!InOrder(i))
    BY <1>2, <1>3, <2>2
  <2>4. answer.accepted => sound /\ answer.sink = ResponseGate!InOrder(i)
    BY <1>2, <1>3, <2>2
  <2>5. sound => answer.accepted
    BY <1>2, <2>2
  <2> QED BY <2>2, <2>3, <2>4, <2>5 DEF RightAnswer, answer
<1>6. CASE ~world.prepares /\ reason = "" /\ world.preparesAgain /\ world.delivers
  <2>1. answer = [sink |-> ResponseGate!BlockReport, accepted |-> FALSE, reason |-> "SINK_PREPARE_FAILED",
                  bytes |-> Len(ResponseGate!BlockReport)]
    BY <1>6 DEF ResponseGate!Deliver
  <2> HIDE DEF answer, reason
  <2>2. /\ answer.sink = ResponseGate!BlockReport /\ ~answer.accepted
        /\ answer.bytes = Len(answer.sink)
    BY <2>1
  <2> QED BY <1>6, <2>2 DEF RightAnswer, answer
<1>7. CASE ~(world.prepares /\ world.delivers)
           /\ ~(~world.prepares /\ reason = "" /\ world.preparesAgain /\ world.delivers)
  <2>1. \E code : answer = failed(code)
    BY <1>7 DEF ResponseGate!Deliver
  <2> HIDE DEF answer, reason
  <2>2. answer.sink = << >> /\ ~answer.accepted /\ answer.bytes = Len(answer.sink)
    BY <1>4, <2>1
  <2>3. ~(world.prepares /\ world.delivers)
    BY <1>7
  <2> QED BY <2>2, <2>3 DEF RightAnswer, answer
<1> QED BY <1>1, <1>5, <1>6, <1>7

\* Once it is finalized, the gate answers as it first did, then with nothing.
ClosedGate(state, answer) ==
  /\ state.gate \in Gates /\ state.gate.finalized
  /\ state.results \in Seq({answer, ResponseGate!Nothing})
  /\ Len(state.results) >= 1 /\ state.results[1] = answer
  /\ \A j \in 2..Len(state.results) : state.results[j] = ResponseGate!Nothing

LEMMA CloseStep ==
  ASSUME NEW calls, NEW world, NEW state, NEW i \in Nat, OpenGate(calls, state, i)
  PROVE  LET after == ResponseGate!Step(state, ResponseGate!Finalize, world) IN
         /\ ClosedGate(after, ResponseGate!Deliver(state.gate, world))
         /\ after = [gate |-> after.gate, results |-> after.results]
<1> DEFINE after == ResponseGate!Step(state, ResponseGate!Finalize, world)
           answer == ResponseGate!Deliver(state.gate, world)
<1>1. state.gate \in Gates /\ ~state.gate.finalized /\ state.results = << >>
  BY DEF OpenGate
<1>2. after = [gate |-> [state.gate EXCEPT !.finalized = TRUE], results |-> Append(<< >>, answer)]
  BY <1>1 DEF ResponseGate!Step, ResponseGate!Finalize
<1> HIDE DEF after, answer
<1>3. after.gate \in Gates /\ after.gate.finalized
  BY <1>1, <1>2 DEF Gates
<1>4. after.results = <<answer>> /\ after = [gate |-> after.gate, results |-> after.results]
  BY <1>2
<1>5. /\ <<answer>> \in Seq({answer, ResponseGate!Nothing}) /\ Len(<<answer>>) = 1 /\ <<answer>>[1] = answer
  OBVIOUS
<1>6. ClosedGate(after, answer)
  BY <1>3, <1>4, <1>5 DEF ClosedGate
<1> QED BY <1>4, <1>6 DEF after, answer

LEMMA ClosedStep ==
  ASSUME NEW request \in GateCalls, NEW world, NEW state, NEW answer, ClosedGate(state, answer),
         state = [gate |-> state.gate, results |-> state.results]
  PROVE  LET after == ResponseGate!Step(state, request, world) IN
         ClosedGate(after, answer) /\ after = [gate |-> after.gate, results |-> after.results]
<1> DEFINE after == ResponseGate!Step(state, request, world)
<1>0. ASSUME NEW reason \in Failures
      PROVE  LET gate == ResponseGate!Fail(state.gate, reason) IN gate \in Gates /\ gate.finalized
  BY DEF ResponseGate!Fail, Gates, ClosedGate
<1>1. CASE request \in [op : {"append"}, chunk : Nat]
  <2>1. request.op = "append"
    BY <1>1
  <2>2. after = [state EXCEPT !.gate = ResponseGate!Fail(@, "MULTIPLE_FINAL")]
    BY <2>1 DEF ResponseGate!Step, ResponseGate!Appended, ClosedGate
  <2>3. after = [gate |-> ResponseGate!Fail(state.gate, "MULTIPLE_FINAL"), results |-> state.results]
    BY <2>2
  <2>4. "MULTIPLE_FINAL" \in Failures
    BY DEF Failures
  <2> HIDE DEF after
  <2>5. /\ after.gate \in Gates /\ after.gate.finalized /\ after.results = state.results
        /\ after = [gate |-> after.gate, results |-> after.results]
    BY <1>0, <2>3, <2>4
  <2> QED BY <2>5 DEF ClosedGate, after
<1>2. CASE request = [op |-> "cancel"]
  <2>1. request.op = "cancel"
    BY <1>2
  <2>2. after = [state EXCEPT !.gate = ResponseGate!Fail(@, "CANCELLED")]
    BY <2>1 DEF ResponseGate!Step
  <2>3. after = [gate |-> ResponseGate!Fail(state.gate, "CANCELLED"), results |-> state.results]
    BY <2>2
  <2>4. "CANCELLED" \in Failures
    BY DEF Failures
  <2> HIDE DEF after
  <2>5. /\ after.gate \in Gates /\ after.gate.finalized /\ after.results = state.results
        /\ after = [gate |-> after.gate, results |-> after.results]
    BY <1>0, <2>3, <2>4
  <2> QED BY <2>5 DEF ClosedGate, after
<1>3. CASE request = ResponseGate!Finalize
  <2>1. request.op = "finalize"
    BY <1>3 DEF ResponseGate!Finalize
  <2>2. after = [gate |-> [state.gate EXCEPT !.finalized = TRUE],
                 results |-> Append(state.results, ResponseGate!Nothing)]
    BY <2>1 DEF ResponseGate!Step, ClosedGate
  <2> HIDE DEF after
  <2>3. after.gate \in Gates /\ after.gate.finalized
    BY <2>2 DEF ClosedGate, Gates
  <2>4. /\ after.results = Append(state.results, ResponseGate!Nothing)
        /\ after = [gate |-> after.gate, results |-> after.results]
    BY <2>2
  <2> DEFINE n == Len(state.results)
  <2>5. /\ state.results \in Seq({answer, ResponseGate!Nothing}) /\ n \in Nat /\ n >= 1
        /\ state.results[1] = answer /\ \A j \in 2..n : state.results[j] = ResponseGate!Nothing
    BY DEF ClosedGate
  <2>6. /\ after.results \in Seq({answer, ResponseGate!Nothing}) /\ Len(after.results) = n + 1
        /\ after.results[n + 1] = ResponseGate!Nothing
        /\ \A j \in 1..n : after.results[j] = state.results[j]
    BY <2>4, <2>5
  <2> HIDE DEF n
  <2>7. /\ after.results[1] = answer
        /\ \A j \in 2..(n + 1) : after.results[j] = ResponseGate!Nothing
    <3>1. 1 \in 1..n
      BY <2>5
    <3>2. after.results[1] = answer
      BY <2>5, <2>6, <3>1
    <3>3. ASSUME NEW j \in 2..(n + 1) PROVE after.results[j] = ResponseGate!Nothing
      <4>1. CASE j = n + 1
        BY <2>6, <4>1
      <4>2. CASE j # n + 1
        <5>1. j \in 2..n /\ j \in 1..n
          BY <2>5, <4>2
        <5> QED BY <2>5, <2>6, <5>1
      <4> QED BY <4>1, <4>2
    <3> QED BY <3>2, <3>3
  <2>8. ClosedGate(after, answer)
    BY <2>3, <2>5, <2>6, <2>7 DEF ClosedGate
  <2> QED BY <2>4, <2>8 DEF after
<1> QED BY <1>1, <1>2, <1>3 DEF GateCalls

-----------------------------------------------------------------------------
\* A conversation is answered by the state after each of its calls.
LEMMA ConversationStates ==
  ASSUME NEW calls \in Seq(GateCalls), NEW world, NEW end \in 1..Len(calls),
         calls[end] = ResponseGate!Finalize, \A j \in 1..(end - 1) : calls[j] # ResponseGate!Finalize,
         NEW f, Served(calls, world, Len(calls), f)
  PROVE  /\ OpenGate(calls, f[end - 1], end - 1)
         /\ ClosedGate(f[Len(calls)], ResponseGate!Deliver(f[end - 1].gate, world))
<1> DEFINE n == Len(calls)
           answer == ResponseGate!Deliver(f[end - 1].gate, world)
           Split(state) == state = [gate |-> state.gate, results |-> state.results]
           S == {i \in Nat : i <= end - 1 => OpenGate(calls, f[i], i) /\ Split(f[i])}
           R == {i \in Nat : end <= i /\ i <= n => ClosedGate(f[i], answer) /\ Split(f[i])}
<1>0. /\ n \in Nat /\ end \in Nat /\ end >= 1 /\ end <= n /\ DOMAIN calls = 1..n
      /\ f[0] = [gate |-> ResponseGate!NewGate, results |-> << >>]
      /\ \A i \in 1..n : f[i] = ResponseGate!Step(f[i - 1], calls[i], world)
  <2>1. n \in Nat
    OBVIOUS
  <2> QED BY <2>1, ServedAt
<1> HIDE DEF n
<1>1. 0 \in S
  <2>1. Split(f[0])
    BY <1>0
  <2> QED BY <1>0, <2>1, OpenStarts
<1>2. ASSUME NEW i \in Nat, i \in S PROVE i + 1 \in S
  <2> SUFFICES ASSUME i + 1 <= end - 1 PROVE OpenGate(calls, f[i + 1], i + 1) /\ Split(f[i + 1])
    OBVIOUS
  <2>1. /\ i + 1 \in 1..n /\ i + 1 \in 1..(end - 1) /\ (i + 1) - 1 = i
        /\ OpenGate(calls, f[i], i) /\ Split(f[i])
    BY <1>0, <1>2
  <2>2. f[i + 1] = ResponseGate!Step(f[i], calls[i + 1], world)
    BY <1>0, <2>1
  <2>3. i + 1 \in DOMAIN calls /\ calls[i + 1] # ResponseGate!Finalize
    BY <1>0, <2>1
  <2> QED BY <2>1, <2>2, <2>3, OpenStep
<1>3. end - 1 \in S
  <2> HIDE DEF S
  <2>1. Nat \subseteq S
    BY <1>1, <1>2, SetInduction
  <2> QED BY <1>0, <2>1
<1>4. OpenGate(calls, f[end - 1], end - 1) /\ Split(f[end - 1])
  BY <1>0, <1>3
<1> HIDE DEF S
<1>5. ClosedGate(f[end], answer) /\ Split(f[end])
  <2>1. f[end] = ResponseGate!Step(f[end - 1], ResponseGate!Finalize, world) /\ end - 1 \in Nat
    BY <1>0
  <2> QED BY <1>4, <2>1, CloseStep
<1> HIDE DEF answer
<1>6. 0 \in R
  BY <1>0
<1>7. ASSUME NEW i \in Nat, i \in R PROVE i + 1 \in R
  <2> SUFFICES ASSUME end <= i + 1, i + 1 <= n PROVE ClosedGate(f[i + 1], answer) /\ Split(f[i + 1])
    OBVIOUS
  <2>1. CASE i + 1 = end
    BY <1>5, <2>1
  <2>2. CASE i + 1 # end
    <3>1. end <= i /\ i <= n /\ i + 1 \in 1..n /\ (i + 1) - 1 = i
      BY <1>0, <2>2
    <3>2. ClosedGate(f[i], answer) /\ Split(f[i])
      BY <1>7, <3>1
    <3>3. f[i + 1] = ResponseGate!Step(f[i], calls[i + 1], world) /\ calls[i + 1] \in GateCalls
      BY <1>0, <3>1
    <3> QED BY <3>2, <3>3, ClosedStep
  <2> QED BY <2>1, <2>2
<1>8. n \in R
  <2> HIDE DEF R
  <2>1. Nat \subseteq R
    BY <1>6, <1>7, SetInduction
  <2> QED BY <1>0, <2>1
<1>9. ClosedGate(f[n], answer)
  BY <1>0, <1>8
<1> QED BY <1>4, <1>9 DEF n, answer

\* What the owner handed over is the calls before the first that finalizes.
LEMMA HandedCalls ==
  ASSUME NEW calls \in Seq(GateCalls), NEW end \in 1..Len(calls), calls[end] = ResponseGate!Finalize,
         \A j \in 1..(end - 1) : calls[j] # ResponseGate!Finalize, NEW world
  PROVE  LET handed == ResponseGate!Handed(calls) IN
         /\ Len(handed) = end - 1
         /\ ResponseGate!Sound(handed, world) <=>
              Whole(calls, end - 1) /\ world.utf8 /\ world.lint = "accepts"
<1> DEFINE First(i) == /\ calls[i] = ResponseGate!Finalize
                       /\ \A j \in 1..(i - 1) : calls[j] # ResponseGate!Finalize
           handed == ResponseGate!Handed(calls)
<1>0. Len(calls) \in Nat /\ DOMAIN calls = 1..Len(calls)
  OBVIOUS
<1>1. ASSUME NEW i \in DOMAIN calls, First(i) PROVE i = end
  <2>1. CASE i < end
    <3>1. i \in 1..(end - 1)
      BY <1>0, <2>1
    <3> QED BY <1>1, <3>1
  <2>2. CASE end < i
    <3>1. end \in 1..(i - 1)
      BY <1>0, <2>2
    <3> QED BY <1>1, <3>1
  <2>3. i \in Int /\ end \in Int
    BY <1>0
  <2> QED BY <2>1, <2>2, <2>3
<1>2. First(end) /\ end \in DOMAIN calls
  BY <1>0
<1>3. (CHOOSE i \in DOMAIN calls : First(i)) = end
  <2> HIDE DEF First
  <2> QED BY <1>1, <1>2
<1>4. handed = SubSeq(calls, 1, end - 1)
  BY <1>3 DEF ResponseGate!Handed
<1>5. Len(handed) = end - 1 /\ DOMAIN handed = 1..(end - 1) /\ \A i \in 1..(end - 1) : handed[i] = calls[i]
  <2>1. end - 1 \in 0..Len(calls)
    BY <1>0
  <2> HIDE DEF handed
  <2> QED BY <1>4, <2>1
<1> HIDE DEF handed
<1>6. ResponseGate!Sound(handed, world) <=> Whole(calls, end - 1) /\ world.utf8 /\ world.lint = "accepts"
  BY <1>5 DEF ResponseGate!Sound, Whole
<1> QED BY <1>5, <1>6 DEF handed

\* ResponseGate, for every conversation in which the response is finalized.
THEOREM AnyConversationAnsweredRightly ==
  ASSUME NEW calls \in Seq(GateCalls), \E i \in 1..Len(calls) : calls[i] = ResponseGate!Finalize,
         NEW world \in ResponseGate!Worlds
  PROVE  ResponseGate!AnsweredRightly(calls, world)
<1> DEFINE Ends == {i \in 1..Len(calls) : calls[i] = ResponseGate!Finalize}
<1>0. Len(calls) \in Nat
  OBVIOUS
<1>1. PICK end \in Ends : \A i \in Ends : end <= i
  <2>1. Ends \in SUBSET Nat /\ Ends # {}
    BY <1>0
  <2> HIDE DEF Ends
  <2> QED BY <2>1, LeastNatural
<1>2. end \in 1..Len(calls) /\ calls[end] = ResponseGate!Finalize
  BY <1>1
<1>3. \A j \in 1..(end - 1) : calls[j] # ResponseGate!Finalize
  <2> SUFFICES ASSUME NEW j \in 1..(end - 1), calls[j] = ResponseGate!Finalize PROVE FALSE
    OBVIOUS
  <2>1. j \in 1..Len(calls) /\ ~(end <= j)
    BY <1>0, <1>2
  <2> QED BY <1>1, <2>1
<1> HIDE DEF Ends
<1>4. PICK f : /\ Served(calls, world, Len(calls), f)
               /\ ResponseGate!Results(calls, world) = f[Len(calls)].results
  BY <1>0, ResultsOf
<1> DEFINE results == ResponseGate!Results(calls, world)
           handed == ResponseGate!Handed(calls)
           answer == ResponseGate!Deliver(f[end - 1].gate, world)
<1>5. OpenGate(calls, f[end - 1], end - 1) /\ ClosedGate(f[Len(calls)], answer)
  BY <1>2, <1>3, <1>4, ConversationStates
<1>6. RightAnswer(calls, end - 1, world, answer)
  <2>1. end - 1 \in Nat
    BY <1>0, <1>2
  <2> QED BY <1>5, <2>1, DeliveredRightly
<1>7. /\ Len(results) \in Nat /\ Len(results) >= 1 /\ results[1] = answer /\ DOMAIN results = 1..Len(results)
      /\ \A j \in 2..Len(results) : results[j] = ResponseGate!Nothing
  <2> HIDE DEF results, answer
  <2>1. results = f[Len(calls)].results
    BY <1>4 DEF results
  <2> QED BY <1>5, <2>1 DEF ClosedGate
<1>8. /\ Len(handed) = end - 1
      /\ ResponseGate!Sound(handed, world) <=> Whole(calls, end - 1) /\ world.utf8 /\ world.lint = "accepts"
  BY <1>2, <1>3, HandedCalls
<1> HIDE DEF results, handed, answer
<1>9. /\ ResponseGate!Nothing.sink = << >> /\ ~ResponseGate!Nothing.accepted
      /\ ResponseGate!Nothing.bytes = Len(ResponseGate!Nothing.sink)
  BY DEF ResponseGate!Nothing
<1> DEFINE whole == ResponseGate!InOrder(Len(handed))
           sound == ResponseGate!Sound(handed, world)
<1>10. ASSUME NEW i \in DOMAIN results
       PROVE  /\ results[i].sink \in {ResponseGate!BlockReport, << >>} \/ (sound /\ results[i].sink = whole)
              /\ results[i].accepted => sound /\ results[i].sink = whole
              /\ results[i].bytes = Len(results[i].sink)
              /\ i > 1 => results[i] = ResponseGate!Nothing
  <2>1. CASE i = 1
    BY <1>6, <1>7, <1>8, <2>1 DEF RightAnswer
  <2>2. CASE i # 1
    <3>1. results[i] = ResponseGate!Nothing
      BY <1>7, <2>2
    <3> QED BY <1>9, <3>1
  <2> QED BY <2>1, <2>2
<1>11. sound /\ world.prepares /\ world.delivers => results[1].accepted
  BY <1>6, <1>7, <1>8 DEF RightAnswer
<1> HIDE DEF whole, sound
<1> QED BY <1>10, <1>11 DEF ResponseGate!AnsweredRightly, results, handed, whole, sound

LEMMA ConversationsAnsweredRightly == ResponseGate!AllAnsweredRightly
<1>1. ASSUME NEW request \in ResponseGate!Calls PROVE request \in GateCalls
  BY DEF ResponseGate!Calls, GateCalls, ResponseGate!MaxBytes
<1>2. ASSUME NEW calls \in ResponseGate!Conversations
      PROVE  calls \in Seq(GateCalls) /\ \E i \in 1..Len(calls) : calls[i] = ResponseGate!Finalize
  <2>0. PICK n \in 0..4 : \E before \in [1..n -> ResponseGate!Calls] :
                            calls = Append(before, ResponseGate!Finalize)
    BY DEF ResponseGate!Conversations
  <2>1. PICK before \in [1..n -> ResponseGate!Calls] : calls = Append(before, ResponseGate!Finalize)
    BY <2>0
  <2>2. before \in Seq(GateCalls) /\ Len(before) = n
    BY <1>1
  <2>3. ResponseGate!Finalize \in GateCalls
    BY DEF GateCalls
  <2>4. calls \in Seq(GateCalls) /\ Len(calls) = n + 1 /\ calls[n + 1] = ResponseGate!Finalize
    BY <2>1, <2>2, <2>3, AppendAlike
  <2> QED BY <2>4
<1> QED BY <1>2, AnyConversationAnsweredRightly DEF ResponseGate!AllAnsweredRightly

-----------------------------------------------------------------------------
(* The classification of a tool, for a manifest of any number of rules in  *)
(* any two orders.                                                         *)

ManifestRules(names) ==
  {r \in [id : names \ {ToolPolicy!Unmatched, ToolPolicy!Ambiguous}, exact : BOOLEAN, pattern : BOOLEAN,
          space : names, priority : Int, active : BOOLEAN, effectful : BOOLEAN, pin : names] :
   r.exact \/ r.pattern}

\* What _validate leaves true of a manifest in any order.
RulesDiffer(rules) ==
  \A i, j \in DOMAIN rules : i # j =>
    /\ rules[i].id # rules[j].id
    /\ ~(rules[i].exact /\ rules[j].exact /\ rules[i].space = rules[j].space)

ExactFor(rules, space) == {i \in DOMAIN rules : ToolPolicy!Applies(rules[i], space) /\ rules[i].exact}
PatternsFor(rules, space) == {i \in DOMAIN rules : ToolPolicy!Applies(rules[i], space) /\ rules[i].pattern}

\* f takes the rules to their places in another order.
Reorders(f, rules, other) ==
  /\ f \in [DOMAIN rules -> DOMAIN other]
  /\ \A i, j \in DOMAIN rules : f[i] = f[j] => i = j
  /\ \A k \in DOMAIN other : \E i \in DOMAIN rules : f[i] = k
  /\ \A i \in DOMAIN rules : other[f[i]] = rules[i]

LEMMA PoliciesCountAlike == \A S : ToolPolicy!Cardinality(S) = Cardinality(S)
BY DEF ToolPolicy!Cardinality, Cardinality

LEMMA ValidDiffer ==
  ASSUME NEW T, NEW rules \in Seq(T), ToolPolicy!ValidManifest(rules)
  PROVE  RulesDiffer(rules)
<1>1. DOMAIN rules = 1..Len(rules) /\ Len(rules) \in Nat
  OBVIOUS
<1>2. \A i, j \in DOMAIN rules : i < j =>
        /\ rules[i].id # rules[j].id
        /\ ~(rules[i].exact /\ rules[j].exact /\ rules[i].space = rules[j].space)
  BY DEF ToolPolicy!ValidManifest
<1>3. \A i, j \in DOMAIN rules : i # j => i < j \/ j < i
  BY <1>1
<1> QED BY <1>2, <1>3 DEF RulesDiffer

LEMMA DifferReordered ==
  ASSUME NEW rules, NEW other, NEW f, Reorders(f, rules, other), RulesDiffer(rules)
  PROVE  RulesDiffer(other)
<1> SUFFICES ASSUME NEW x \in DOMAIN other, NEW y \in DOMAIN other, x # y
             PROVE  /\ other[x].id # other[y].id
                    /\ ~(other[x].exact /\ other[y].exact /\ other[x].space = other[y].space)
  BY DEF RulesDiffer
<1>1. PICK i \in DOMAIN rules : f[i] = x
  BY DEF Reorders
<1>2. PICK j \in DOMAIN rules : f[j] = y
  BY DEF Reorders
<1>3. i # j /\ other[x] = rules[i] /\ other[y] = rules[j]
  BY <1>1, <1>2 DEF Reorders
<1> QED BY <1>3 DEF RulesDiffer

\* Who applies, and who is above whom, does not depend on the order.
LEMMA HighestReordered ==
  ASSUME NEW rules, NEW other, NEW f, Reorders(f, rules, other), NEW space,
         NEW S \in SUBSET DOMAIN rules, NEW R \in SUBSET DOMAIN other,
         \A i \in DOMAIN rules : i \in S <=> f[i] \in R
  PROVE  \A i \in DOMAIN rules :
           i \in ToolPolicy!Highest(rules, S, space) <=> f[i] \in ToolPolicy!Highest(other, R, space)
<1> SUFFICES ASSUME NEW i \in DOMAIN rules
             PROVE  i \in ToolPolicy!Highest(rules, S, space) <=> f[i] \in ToolPolicy!Highest(other, R, space)
  OBVIOUS
<1> DEFINE Over(r, s) == ToolPolicy!Above(ToolPolicy!Key(r, space), ToolPolicy!Key(s, space))
<1>1. ToolPolicy!Highest(rules, S, space) = {k \in S : \A j \in S : ~Over(rules[j], rules[k])}
  BY DEF ToolPolicy!Highest
<1>2. ToolPolicy!Highest(other, R, space) = {k \in R : \A j \in R : ~Over(other[j], other[k])}
  BY DEF ToolPolicy!Highest
<1> HIDE DEF Over
<1>3. \A j \in DOMAIN rules : other[f[j]] = rules[j] /\ f[j] \in DOMAIN other
  BY DEF Reorders
<1>4. \A k \in R : \E j \in S : f[j] = k
  BY DEF Reorders
<1>5. (\A j \in S : ~Over(rules[j], rules[i])) <=> (\A k \in R : ~Over(other[k], other[f[i]]))
  BY <1>3, <1>4
<1> QED BY <1>1, <1>2, <1>5

LEMMA AppliesReordered ==
  ASSUME NEW rules, NEW other, NEW f, Reorders(f, rules, other), NEW space, NEW i \in DOMAIN rules
  PROVE  /\ i \in ExactFor(rules, space) <=> f[i] \in ExactFor(other, space)
         /\ i \in PatternsFor(rules, space) <=> f[i] \in PatternsFor(other, space)
<1>1. other[f[i]] = rules[i] /\ f[i] \in DOMAIN other
  BY DEF Reorders
<1> QED BY <1>1 DEF ExactFor, PatternsFor

\* At most one exact rule stands highest, and if one applies, one does.
LEMMA OneExact ==
  ASSUME NEW names, NEW rules \in Seq(ManifestRules(names)), RulesDiffer(rules), NEW space,
         ExactFor(rules, space) # {}
  PROVE  \E w \in ExactFor(rules, space) : ToolPolicy!Highest(rules, ExactFor(rules, space), space) = {w}
<1> DEFINE S == ExactFor(rules, space)
           Own(i) == rules[i].space = space
<1>0. \A i \in S : /\ i \in DOMAIN rules /\ rules[i].exact /\ rules[i] \in ManifestRules(names)
                   /\ rules[i].space \in {ToolPolicy!NoSpace, space}
  BY DEF ExactFor, ToolPolicy!Applies
<1>1. \A i, j \in S : i # j => rules[i].space # rules[j].space
  BY <1>0 DEF RulesDiffer
<1>2. \A i, j \in S : ToolPolicy!Above(ToolPolicy!Key(rules[j], space), ToolPolicy!Key(rules[i], space))
                      <=> \/ Own(j) /\ ~Own(i)
                          \/ (Own(j) <=> Own(i)) /\ rules[j].priority > rules[i].priority
  BY DEF ToolPolicy!Above, ToolPolicy!Key
<1>3. \A i \in S : rules[i].priority \in Int
  BY <1>0 DEF ManifestRules
<1>4. \A i, j \in S : (Own(j) <=> Own(i)) => i = j
  BY <1>0, <1>1
<1>5. ASSUME NEW w \in S, Own(w) \/ \A j \in S : ~Own(j)
      PROVE  ToolPolicy!Highest(rules, S, space) = {w}
  <2>1. \A j \in S : ~ToolPolicy!Above(ToolPolicy!Key(rules[j], space), ToolPolicy!Key(rules[w], space))
    BY <1>2, <1>3, <1>4, <1>5
  <2>2. \A i \in S : i # w =>
          ToolPolicy!Above(ToolPolicy!Key(rules[w], space), ToolPolicy!Key(rules[i], space))
    BY <1>2, <1>4, <1>5
  <2> HIDE DEF S
  <2> QED BY <2>1, <2>2 DEF ToolPolicy!Highest
<1>6. CASE \E w \in S : Own(w)
  BY <1>5, <1>6
<1>7. CASE \A w \in S : ~Own(w)
  BY <1>5, <1>7
<1> QED BY <1>6, <1>7

\* The cases of match.
LEMMA MatchCases ==
  ASSUME NEW names, NEW rules \in Seq(ManifestRules(names)), NEW space
  PROVE  /\ \A w \in DOMAIN rules :
              ToolPolicy!Highest(rules, ExactFor(rules, space), space) = {w} /\ w \in ExactFor(rules, space)
                => ToolPolicy!Match(rules, space) = rules[w].id
         /\ ExactFor(rules, space) = {} /\ PatternsFor(rules, space) = {}
              => ToolPolicy!Match(rules, space) = ToolPolicy!Unmatched
         /\ ExactFor(rules, space) = {} /\ PatternsFor(rules, space) # {} =>
              LET winners == ToolPolicy!Highest(rules, PatternsFor(rules, space), space) IN
              /\ \A w : winners = {w} => ToolPolicy!Match(rules, space) = rules[w].id
              /\ (~\E w : winners = {w}) => ToolPolicy!Match(rules, space) = ToolPolicy!Ambiguous
<1> DEFINE exact == ExactFor(rules, space)
           patterns == PatternsFor(rules, space)
           winners == ToolPolicy!Highest(rules, patterns, space)
           least == CHOOSE i \in ToolPolicy!Highest(rules, exact, space) :
                      \A j \in ToolPolicy!Highest(rules, exact, space) : i <= j
<1>1. /\ exact # {} => ToolPolicy!Match(rules, space) = rules[least].id
      /\ exact = {} /\ patterns = {} => ToolPolicy!Match(rules, space) = ToolPolicy!Unmatched
      /\ exact = {} /\ patterns # {} =>
           ToolPolicy!Match(rules, space) =
             IF ToolPolicy!Cardinality(winners) = 1 THEN rules[CHOOSE i \in winners : TRUE].id
             ELSE ToolPolicy!Ambiguous
  BY DEF ToolPolicy!Match, ExactFor, PatternsFor
<1>2. IsFiniteSet(winners) /\ DOMAIN rules \subseteq Nat
  <2>1. winners \subseteq 1..Len(rules) /\ Len(rules) \in Nat /\ DOMAIN rules = 1..Len(rules)
    BY DEF ToolPolicy!Highest, PatternsFor
  <2>2. IsFiniteSet(1..Len(rules))
    BY <2>1, FS_Interval, 1 \in Int
  <2> HIDE DEF winners
  <2>3. IsFiniteSet(winners)
    BY <2>1, <2>2, FS_Subset
  <2> QED BY <2>1, <2>3
<1>3. ASSUME NEW w \in DOMAIN rules, ToolPolicy!Highest(rules, exact, space) = {w}, w \in exact
      PROVE  ToolPolicy!Match(rules, space) = rules[w].id
  <2>1. least = w
    BY <1>2, <1>3
  <2> HIDE DEF least, exact, patterns, winners
  <2> QED BY <1>1, <1>3, <2>1
<1>4. ToolPolicy!Cardinality(winners) = 1 <=> \E w : winners = {w}
  <2> HIDE DEF winners
  <2> QED BY <1>2, PoliciesCountAlike, FS_Singleton
<1>5. ASSUME exact = {}, patterns # {}
      PROVE  /\ \A w : winners = {w} => ToolPolicy!Match(rules, space) = rules[w].id
             /\ (~\E w : winners = {w}) => ToolPolicy!Match(rules, space) = ToolPolicy!Ambiguous
  <2>1. ASSUME NEW w, winners = {w} PROVE (CHOOSE i \in winners : TRUE) = w
    BY <2>1
  <2> HIDE DEF least, exact, patterns, winners
  <2> QED BY <1>1, <1>4, <1>5, <2>1
<1> QED BY <1>1, <1>3, <1>5

\* The policy of a tool does not depend on the order of the rules.
LEMMA MatchReordered ==
  ASSUME NEW names, NEW rules \in Seq(ManifestRules(names)), NEW other \in Seq(ManifestRules(names)),
         RulesDiffer(rules),
         NEW f, Reorders(f, rules, other), NEW space
  PROVE  ToolPolicy!Match(other, space) = ToolPolicy!Match(rules, space)
<1> DEFINE E == ExactFor(rules, space)
           P == PatternsFor(rules, space)
           F == ExactFor(other, space)
           Q == PatternsFor(other, space)
<1>1. /\ \A i \in DOMAIN rules : f[i] \in DOMAIN other /\ other[f[i]] = rules[i]
      /\ \A k \in DOMAIN other : \E i \in DOMAIN rules : f[i] = k
  BY DEF Reorders
<1>2. /\ E \in SUBSET DOMAIN rules /\ P \in SUBSET DOMAIN rules
      /\ F \in SUBSET DOMAIN other /\ Q \in SUBSET DOMAIN other
  BY DEF ExactFor, PatternsFor
<1>3. \A i \in DOMAIN rules : (i \in E <=> f[i] \in F) /\ (i \in P <=> f[i] \in Q)
  BY AppliesReordered
<1> HIDE DEF E, P, F, Q
<1>4. (E = {} <=> F = {}) /\ (P = {} <=> Q = {})
  BY <1>1, <1>2, <1>3
<1>5. /\ \A i \in DOMAIN rules :
           i \in ToolPolicy!Highest(rules, E, space) <=> f[i] \in ToolPolicy!Highest(other, F, space)
      /\ \A i \in DOMAIN rules :
           i \in ToolPolicy!Highest(rules, P, space) <=> f[i] \in ToolPolicy!Highest(other, Q, space)
  BY <1>2, <1>3, HighestReordered
<1>6. /\ ToolPolicy!Highest(rules, E, space) \subseteq DOMAIN rules
      /\ ToolPolicy!Highest(rules, P, space) \subseteq DOMAIN rules
      /\ ToolPolicy!Highest(other, F, space) \subseteq DOMAIN other
      /\ ToolPolicy!Highest(other, Q, space) \subseteq DOMAIN other
  BY <1>2 DEF ToolPolicy!Highest
<1>7. \A i, j \in DOMAIN rules : f[i] = f[j] => i = j
  BY DEF Reorders
<1>8. CASE E # {}
  <2>1. PICK w \in E : ToolPolicy!Highest(rules, E, space) = {w}
    BY <1>8, OneExact DEF E
  <2>2. w \in DOMAIN rules /\ f[w] \in F /\ f[w] \in DOMAIN other
    BY <1>1, <1>2, <1>3, <2>1
  <2>3. ToolPolicy!Highest(other, F, space) = {f[w]}
    <3> DEFINE here == ToolPolicy!Highest(rules, E, space)
               there == ToolPolicy!Highest(other, F, space)
    <3>1. /\ here = {w} /\ there \subseteq DOMAIN other
          /\ \A i \in DOMAIN rules : i \in here <=> f[i] \in there
      BY <1>5, <1>6, <2>1
    <3> HIDE DEF here, there
    <3>2. f[w] \in there
      BY <2>2, <3>1
    <3>3. ASSUME NEW k \in there PROVE k = f[w]
      <4>1. PICK i \in DOMAIN rules : f[i] = k
        BY <1>1, <3>1
      <4> QED BY <3>1, <3>3, <4>1
    <3> QED BY <3>2, <3>3 DEF there
  <2>4. ToolPolicy!Match(rules, space) = rules[w].id
    BY <2>1, <2>2, MatchCases DEF E
  <2>5. ToolPolicy!Match(other, space) = other[f[w]].id
    BY <2>2, <2>3, MatchCases DEF F
  <2> QED BY <1>1, <2>2, <2>4, <2>5
<1>9. CASE E = {} /\ P = {}
  <2>1. F = {} /\ Q = {}
    BY <1>4, <1>9
  <2>2. ToolPolicy!Match(rules, space) = ToolPolicy!Unmatched
    BY <1>9, MatchCases DEF E, P
  <2>3. ToolPolicy!Match(other, space) = ToolPolicy!Unmatched
    BY <2>1, MatchCases DEF F, Q
  <2> QED BY <2>2, <2>3
<1>10. CASE E = {} /\ P # {}
  <2> DEFINE here == ToolPolicy!Highest(rules, P, space)
             there == ToolPolicy!Highest(other, Q, space)
  <2>1. F = {} /\ Q # {}
    BY <1>4, <1>10
  <2>2. /\ \A w : here = {w} => ToolPolicy!Match(rules, space) = rules[w].id
        /\ (~\E w : here = {w}) => ToolPolicy!Match(rules, space) = ToolPolicy!Ambiguous
    BY <1>10, MatchCases DEF E, P
  <2>3. /\ \A w : there = {w} => ToolPolicy!Match(other, space) = other[w].id
        /\ (~\E w : there = {w}) => ToolPolicy!Match(other, space) = ToolPolicy!Ambiguous
    BY <2>1, MatchCases DEF F, Q
  <2>4. /\ here \subseteq DOMAIN rules /\ there \subseteq DOMAIN other
        /\ \A i \in DOMAIN rules : i \in here <=> f[i] \in there
    BY <1>5, <1>6
  <2> HIDE DEF here, there
  <2>5. ASSUME NEW w, here = {w} PROVE there = {f[w]} /\ other[f[w]] = rules[w]
    <3>1. w \in DOMAIN rules
      BY <2>4, <2>5
    <3> QED BY <1>1, <2>4, <2>5, <3>1
  <2>6. ASSUME NEW k, there = {k} PROVE \E w : here = {w}
    <3>1. PICK w \in DOMAIN rules : f[w] = k
      BY <1>1, <2>4, <2>6
    <3>2. here = {w}
      BY <1>7, <2>4, <2>6, <3>1
    <3> QED BY <3>2
  <2>7. ASSUME NEW w, here = {w} PROVE ToolPolicy!Match(other, space) = ToolPolicy!Match(rules, space)
    <3>1. there = {f[w]} /\ other[f[w]] = rules[w]
      BY <2>5, <2>7
    <3>2. ToolPolicy!Match(other, space) = other[f[w]].id
      BY <2>3, <3>1
    <3> QED BY <2>2, <2>7, <3>1, <3>2
  <2>8. CASE ~\E w : here = {w}
    BY <2>2, <2>3, <2>6, <2>8
  <2> QED BY <2>7, <2>8
<1> QED BY <1>8, <1>9, <1>10

\* A general rule never takes the place of an exact one, nor one for every namespace
\* that of one for the tool's own.
LEMMA GeneralYields ==
  ASSUME NEW names, NEW rules \in Seq(ManifestRules(names)), RulesDiffer(rules),
         NEW space, space # ToolPolicy!NoSpace,
         NEW i \in DOMAIN rules, NEW j \in DOMAIN rules, rules[i].id = ToolPolicy!Match(rules, space)
  PROVE  ~ToolPolicy!Yields(rules[i], rules[j], space)
<1> SUFFICES ASSUME ToolPolicy!Yields(rules[i], rules[j], space) PROVE FALSE
  OBVIOUS
<1> DEFINE E == ExactFor(rules, space)
           P == PatternsFor(rules, space)
<1>1. /\ rules[i] \in ManifestRules(names) /\ rules[j] \in ManifestRules(names)
      /\ \A k \in DOMAIN rules : rules[k].id = rules[i].id => k = i
  BY DEF RulesDiffer
<1>2. /\ ToolPolicy!Applies(rules[j], space)
      /\ \/ rules[j].exact /\ ~rules[i].exact
         \/ rules[j].exact = rules[i].exact /\ rules[j].space = space /\ rules[i].space # space
  BY DEF ToolPolicy!Yields
<1>3. /\ rules[i].exact \in BOOLEAN /\ rules[j].exact \in BOOLEAN
      /\ rules[j].exact \/ rules[j].pattern
      /\ rules[i].id \notin {ToolPolicy!Unmatched, ToolPolicy!Ambiguous}
  BY <1>1 DEF ManifestRules
<1>4. ASSUME rules[j].space = space, rules[i].space # space
      PROVE  ToolPolicy!Above(ToolPolicy!Key(rules[j], space), ToolPolicy!Key(rules[i], space))
  BY <1>4 DEF ToolPolicy!Above, ToolPolicy!Key
<1>5. CASE E # {}
  <2>1. PICK w \in E : ToolPolicy!Highest(rules, E, space) = {w}
    BY <1>5, OneExact
  <2>2. w \in DOMAIN rules /\ ToolPolicy!Match(rules, space) = rules[w].id
    BY <2>1, MatchCases DEF ExactFor
  <2>3. i \in E /\ i \in ToolPolicy!Highest(rules, E, space)
    BY <1>1, <2>1, <2>2
  <2>4. rules[i].exact
    BY <2>3 DEF ExactFor
  <2>5. j \in E /\ rules[j].space = space /\ rules[i].space # space
    BY <1>2, <1>3, <2>4 DEF ExactFor
  <2>6. \A k \in E : ~ToolPolicy!Above(ToolPolicy!Key(rules[k], space), ToolPolicy!Key(rules[i], space))
    <3> HIDE DEF E
    <3> QED BY <2>3 DEF ToolPolicy!Highest
  <2> QED BY <1>4, <2>5, <2>6
<1>6. CASE E = {} /\ P = {}
  BY <1>3, <1>6, MatchCases
<1>7. CASE E = {} /\ P # {}
  <2> DEFINE winners == ToolPolicy!Highest(rules, P, space)
  <2>1. /\ \A w : winners = {w} => ToolPolicy!Match(rules, space) = rules[w].id
        /\ (~\E w : winners = {w}) => ToolPolicy!Match(rules, space) = ToolPolicy!Ambiguous
    BY <1>7, MatchCases
  <2>2. PICK w : winners = {w}
    BY <1>3, <2>1
  <2>3. winners \subseteq P /\ P \subseteq DOMAIN rules
    BY DEF ToolPolicy!Highest, PatternsFor
  <2> HIDE DEF winners, E
  <2>4. w = i /\ i \in winners
    BY <1>1, <2>1, <2>2, <2>3
  <2>5. ToolPolicy!Applies(rules[i], space)
    BY <2>3, <2>4 DEF PatternsFor
  <2>6. ~rules[i].exact /\ ~rules[j].exact
    BY <1>2, <1>7, <2>5 DEF E, ExactFor
  <2>7. rules[j].space = space /\ rules[i].space # space /\ j \in P
    BY <1>2, <1>3, <2>6 DEF PatternsFor
  <2>8. \A k \in P : ~ToolPolicy!Above(ToolPolicy!Key(rules[k], space), ToolPolicy!Key(rules[i], space))
    <3> HIDE DEF P
    <3> QED BY <2>4 DEF winners, ToolPolicy!Highest
  <2> QED BY <1>4, <2>7, <2>8
<1> QED BY <1>5, <1>6, <1>7

\* match and classify_inventory, for every manifest in every order.
THEOREM AnyOrderDeterminesPolicy ==
  ASSUME NEW names, NEW rules \in Seq(ManifestRules(names)), NEW other \in Seq(ManifestRules(names)),
         ToolPolicy!ValidManifest(rules), NEW f, Reorders(f, rules, other),
         NEW space, space # ToolPolicy!NoSpace, NEW digest
  PROVE  /\ ToolPolicy!Match(other, space) = ToolPolicy!Match(rules, space)
         /\ ToolPolicy!Verdict(other, space, digest) = ToolPolicy!Verdict(rules, space, digest)
         /\ \A i, j \in DOMAIN rules : rules[i].id = ToolPolicy!Match(rules, space) =>
              ~ToolPolicy!Yields(rules[i], rules[j], space)
<1>1. RulesDiffer(rules)
  BY ValidDiffer
<1>2. ToolPolicy!Match(other, space) = ToolPolicy!Match(rules, space)
  BY <1>1, MatchReordered
<1>3. {other[k] : k \in DOMAIN other} = {rules[i] : i \in DOMAIN rules}
  BY DEF Reorders
<1>4. ToolPolicy!Verdict(other, space, digest) = ToolPolicy!Verdict(rules, space, digest)
  BY <1>2, <1>3 DEF ToolPolicy!Verdict
<1> QED BY <1>1, <1>2, <1>4, GeneralYields

LEMMA PoliciesDetermined == ToolPolicy!AllPoliciesDetermined
<1> SUFFICES ASSUME NEW m \in ToolPolicy!Manifests, NEW space \in ToolPolicy!Spaces
             PROVE  ToolPolicy!PolicyFor(m, space)
  BY DEF ToolPolicy!AllPoliciesDetermined
<1> DEFINE names == {"r1", "r2", "r3", ToolPolicy!NoSpace, "ns", "d1", ToolPolicy!NoPin}
<1>1. ASSUME NEW id \in {"r1", "r2", "r3"}, NEW r \in ToolPolicy!Rules(id) PROVE r \in ManifestRules(names)
  <2> DEFINE spaces == {ToolPolicy!NoSpace, "ns"}
             pins == IF id = "r1" THEN {"d1"} ELSE {ToolPolicy!NoPin}
             changes == {id = "r1"}
  <2>1. spaces \subseteq names /\ pins \subseteq names
    OBVIOUS
  <2>2. changes \subseteq BOOLEAN
    BY Zenon
  <2>3. id \in names /\ id # ToolPolicy!Unmatched /\ id # ToolPolicy!Ambiguous
    BY DEF ToolPolicy!Unmatched, ToolPolicy!Ambiguous
  <2>4. /\ r \in [id : {id}, exact : BOOLEAN, pattern : BOOLEAN, space : spaces, priority : 0..1,
                  active : BOOLEAN, effectful : changes, pin : pins]
        /\ r.exact \/ r.pattern
    BY DEF ToolPolicy!Rules
  <2> HIDE DEF names, spaces, pins, changes
  <2>5. r \in [id : names \ {ToolPolicy!Unmatched, ToolPolicy!Ambiguous}, exact : BOOLEAN, pattern : BOOLEAN,
               space : names, priority : Int, active : BOOLEAN, effectful : BOOLEAN, pin : names]
    <3> DEFINE ids == {id}
               ranks == 0..1
    <3>1. ids \subseteq names \ {ToolPolicy!Unmatched, ToolPolicy!Ambiguous} /\ ranks \subseteq Int
      BY <2>3
    <3>2. r \in [id : ids, exact : BOOLEAN, pattern : BOOLEAN, space : spaces, priority : ranks,
                active : BOOLEAN, effectful : changes, pin : pins]
      BY <2>4
    <3> HIDE DEF ids, ranks
    <3> QED BY <2>1, <2>2, <3>1, <3>2
  <2> QED BY <2>4, <2>5 DEF ManifestRules
<1> HIDE DEF names
<1>2. PICK r1 \in ToolPolicy!Rules("r1"), r2 \in ToolPolicy!Rules("r2"), r3 \in ToolPolicy!Rules("r3") :
        m = <<r1, r2, r3>>
  BY DEF ToolPolicy!Manifests
<1>3. r1 \in ManifestRules(names) /\ r2 \in ManifestRules(names) /\ r3 \in ManifestRules(names)
  BY <1>1
<1>4. m \in Seq(ManifestRules(names)) /\ ToolPolicy!ValidManifest(m) /\ DOMAIN m = 1..3
  BY <1>2, <1>3 DEF ToolPolicy!Manifests
<1>5. space # ToolPolicy!NoSpace
  BY DEF ToolPolicy!Spaces, ToolPolicy!NoSpace
<1>6. ASSUME NEW other \in ToolPolicy!Reordered(m)
      PROVE  other \in Seq(ManifestRules(names)) /\ \E f : Reorders(f, m, other)
  <2>1. /\ m[1] = r1 /\ m[2] = r2 /\ m[3] = r3
        /\ other = <<r3, r2, r1>> \/ other = <<r2, r3, r1>>
    BY <1>2 DEF ToolPolicy!Reordered
  <2>2. CASE other = <<r3, r2, r1>>
    <3> DEFINE f == [i \in 1..3 |-> 4 - i]
    <3>1. Reorders(f, m, other)
      BY <1>4, <2>1, <2>2 DEF Reorders
    <3> QED BY <1>3, <2>2, <3>1
  <2>3. CASE other = <<r2, r3, r1>>
    <3> DEFINE f == [i \in 1..3 |-> IF i = 1 THEN 3 ELSE i - 1]
    <3>1. Reorders(f, m, other)
      BY <1>4, <2>1, <2>3 DEF Reorders
    <3> QED BY <1>3, <2>3, <3>1
  <2> QED BY <2>1, <2>2, <2>3
<1>7. \A other \in ToolPolicy!Reordered(m), digest \in ToolPolicy!Digests :
        /\ ToolPolicy!Match(other, space) = ToolPolicy!Match(m, space)
        /\ ToolPolicy!Verdict(other, space, digest) = ToolPolicy!Verdict(m, space, digest)
  BY <1>4, <1>5, <1>6, AnyOrderDeterminesPolicy
<1>8. \A i, j \in DOMAIN m : m[i].id = ToolPolicy!Match(m, space) => ~ToolPolicy!Yields(m[i], m[j], space)
  BY <1>4, <1>5, ValidDiffer, GeneralYields
<1> QED BY <1>7, <1>8 DEF ToolPolicy!PolicyFor

-----------------------------------------------------------------------------
(* Neither the clients nor the schedule of the front ends enter into what  *)
(* these algorithms return, so it holds in every state.                    *)

\* manifest.py: a proxy classifies its inventory by the rules, not by their order.
THEOREM ClassificationIsDetermined == DispatchSpec => []PolicyDetermined
<1>1. PolicyDetermined
  BY PoliciesDetermined DEF PolicyDetermined
<1> QED BY <1>1, PTL

\* contracts.py: the profile in force is proved, and the highest that a downgrade may leave.
THEOREM ProfileIsProven == DispatchSpec => []ProfileProven
<1>1. ProfileProven
  BY ProfilesProven DEF ProfileProven
<1> QED BY <1>1, PTL

\* gate/decision.py, api.py: a permit names one good belief for each precondition.
THEOREM PermitIsGrounded == DispatchSpec => []PermitGrounded
<1>1. PermitGrounded
  BY AllDecidedRightly DEF PermitGrounded
<1> QED BY <1>1, PTL

\* buffering.py: a response is delivered whole, or not at all, and once.
THEOREM DeliversWholeOrNothing == DispatchSpec => []DeliversAllOrNothing
<1>1. DeliversAllOrNothing
  BY ConversationsAnsweredRightly DEF DeliversAllOrNothing
<1> QED BY <1>1, PTL
=============================================================================
