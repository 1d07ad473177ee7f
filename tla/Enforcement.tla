----------------------------- MODULE Enforcement -----------------------------
(***************************************************************************)
(* The authorization store of the core package: approval receipts, single- *)
(* use action permits ("decisions") and the append-only enforcement log    *)
(* they are projected from.  Every action below is one BEGIN IMMEDIATE     *)
(* transaction of EnforcementStore.  SQLite serialises them, so a          *)
(* transaction is one atomic step, whatever thread or process runs it.     *)
(*                                                                         *)
(* The store shares its database with the belief ledger (what BeliefLedger *)
(* composes), so the three ledger projections that consumption reads are   *)
(* variables here too and change by the Environment actions.               *)
(***************************************************************************)
EXTENDS Integers, Sequences, FiniteSets

CONSTANTS
  Receipts,    \* digests of approval receipts
  Tokens,      \* token digests of action decisions
  Episodes,    \* episode ids
  Actions,     \* (turn, namespace, tool, arguments, target, policy, revision)
  Scopes,      \* approval scopes in use
  Beliefs,     \* belief ids
  None,        \* "no approval receipt" and "no binding"
  ApprovalTtls,\* ttl_seconds an approval may be recorded with
  ActionTtls,  \* ttl_seconds a permit may be issued with
  LockWait,    \* ticks a caller may wait for the write lock (busy_timeout)
  MaxClock,    \* bound: the clock stops here
  MaxEvents    \* bound: length of the enforcement log

ASSUME NoneAssumption == None \notin Receipts
ASSUME TokensAssumption == IsFiniteSet(Tokens)
ASSUME TtlAssumption == ApprovalTtls \subseteq Nat \ {0} /\ ActionTtls \subseteq Nat \ {0}
ASSUME BoundAssumption == LockWait \in Nat /\ MaxClock \in Nat /\ MaxEvents \in Nat

VARIABLES
  receipts,     \* approval_receipts
  decisions,    \* action_decisions with its supports and episodes tables
  log,          \* enforcement_events
  clock,        \* dependencies.clock, in ticks
  finalized,    \* episodes whose row is no longer 'active'
  inBeliefs,    \* per episode, the beliefs with status 'in'
  conflicted    \* episodes with at least one open conflict

store == <<receipts, decisions, log>>
ledger == <<finalized, inBeliefs, conflicted>>
vars == <<receipts, decisions, log, clock, finalized, inBeliefs, conflicted>>

ApprovalBindings == [episode : Episodes, action : Actions, scope : Scopes]
ActionBindings == [episode : Episodes, action : Actions, supports : SUBSET Beliefs,
                   receipt : Receipts \cup {None}]

\* Scopes whose receipt is spent by the first permit issued under it.
SpentAtIssue == {"single_use", "exact_action"}

RowStates == {"absent", "issued", "consumed", "expired", "revoked"}
AbsentRow == [state |-> "absent", binding |-> None, expires |-> 0]
IssuedRow(b, expires) == [state |-> "issued", binding |-> b, expires |-> expires]

-----------------------------------------------------------------------------
(* The log.  An event keeps the fields that rebuilding, compaction or a    *)
(* property reads; ids, timestamps, hashes and reason codes are left out.  *)

ReceiptIssued(r, b, expires) ==
  [kind |-> "APPROVAL_RECEIPT_ISSUED", receipt |-> r, binding |-> b, expires |-> expires]
ReceiptDenied(b) == [kind |-> "APPROVAL_RECEIPT_DENIED", binding |-> b]
ReceiptEvent(kind, r) == [kind |-> kind, receipt |-> r]
DecisionIssued(t, b, expires) ==
  [kind |-> "ACTION_DECISION_ISSUED", token |-> t, binding |-> b, expires |-> expires]
IssueRejected(t, b) == [kind |-> "ACTION_DECISION_REJECTED", token |-> t, binding |-> b]
DecisionEvent(kind, t) == [kind |-> kind, token |-> t]

\* _append_event; MaxEvents bounds the log.
AppendEvents(events) ==
  /\ Len(log) + Len(events) =< MaxEvents
  /\ log' = log \o events

\* Each listing of a finite set, for the rows a SELECT returns unordered.
Orderings(S) == {s \in [1..Cardinality(S) -> S] : \A x \in S : \E i \in DOMAIN s : s[i] = x}

\* The caller reads the clock before it waits for the write lock.
ReadBeforeLock == {now \in 0..clock : clock - now =< LockWait}

-----------------------------------------------------------------------------
(* Approvals                                                               *)

IssueApproval(r, b, ttl, now) ==
  /\ receipts[r].state = "absent"
  /\ receipts' = [receipts EXCEPT ![r] = IssuedRow(b, now + ttl)]
  /\ AppendEvents(<<ReceiptIssued(r, b, now + ttl)>>)
  /\ UNCHANGED <<decisions, clock, ledger>>

\* issue_approval(approved=False): withdraws every receipt still issued for
\* the same binding and records the denial even when there is none.
DenyApproval(b) ==
  /\ receipts' = [r \in Receipts |->
                    IF receipts[r].state = "issued" /\ receipts[r].binding = b
                    THEN [receipts[r] EXCEPT !.state = "revoked"] ELSE receipts[r]]
  /\ AppendEvents(<<ReceiptDenied(b)>>)
  /\ UNCHANGED <<decisions, clock, ledger>>

\* Mutant: the UPDATE of revoke_approval without AND state='issued'.
MutantRevokeApproval(r) ==
  /\ receipts' = [receipts EXCEPT ![r].state = "revoked"]
  /\ AppendEvents(<<ReceiptEvent("APPROVAL_RECEIPT_REVOKED", r)>>)
  /\ UNCHANGED <<decisions, clock, ledger>>

\* revoke_approval changes nothing, and logs nothing, unless it is issued.
RevokeApproval(r) ==
  /\ receipts[r].state = "issued"
  /\ receipts' = [receipts EXCEPT ![r].state = "revoked"]
  /\ AppendEvents(<<ReceiptEvent("APPROVAL_RECEIPT_REVOKED", r)>>)
  /\ UNCHANGED <<decisions, clock, ledger>>

-----------------------------------------------------------------------------
(* _approval_reason: the three answers it gives for a permit's binding.    *)
(* usable is {"issued"} when a permit is issued, and also admits           *)
(* "consumed" when one is consumed (allow_consumed).                       *)

ApprovalUsable(b, usable) == b.receipt # None /\ receipts[b.receipt].state \in usable
ApprovalTimely(b) == clock < receipts[b.receipt].expires
ApprovalCovers(b) ==
  /\ receipts[b.receipt].binding.episode = b.episode
  /\ receipts[b.receipt].binding.action = b.action

ApprovalClear(b, usable) ==
  \/ b.receipt = None
  \/ ApprovalUsable(b, usable) /\ ApprovalTimely(b) /\ ApprovalCovers(b)
ApprovalExpired(b, usable) ==
  /\ ApprovalUsable(b, usable)
  /\ ~ApprovalTimely(b)
ApprovalRefused(b, usable) ==
  ~ApprovalClear(b, usable) /\ ~ApprovalExpired(b, usable)

\* The expiry branch updates the row only WHERE state='issued' but always
\* appends the event.
ExpireReceipt(r) ==
  IF receipts[r].state = "issued" THEN [receipts EXCEPT ![r].state = "expired"] ELSE receipts

\* Mutants: allow_consumed also when a permit is issued, and a revoked approval
\* treated like a consumed one.
MutantAtIssue == {"issued", "consumed"}
MutantAtConsumption == {"issued", "consumed", "revoked"}

AtIssue == {"issued"}
AtConsumption == {"issued", "consumed"}

-----------------------------------------------------------------------------
(* issue_action                                                            *)

\* Tokens are 32 random bytes: never in the table and never seen before.
FreshToken(t) ==
  /\ decisions[t].state = "absent"
  /\ \A i \in DOMAIN log : "token" \in DOMAIN log[i] => log[i].token # t

SpendsReceipt(b) == b.receipt # None /\ receipts[b.receipt].binding.scope \in SpentAtIssue

IssuePermit(t, b, ttl, now) ==
  /\ ApprovalClear(b, AtIssue)
  /\ decisions' = [decisions EXCEPT ![t] = IssuedRow(b, now + ttl)]
  /\ \/ /\ SpendsReceipt(b)
        /\ receipts' = [receipts EXCEPT ![b.receipt].state = "consumed"]
        /\ AppendEvents(<<DecisionIssued(t, b, now + ttl),
                          ReceiptEvent("APPROVAL_RECEIPT_CONSUMED", b.receipt)>>)
     \/ /\ ~SpendsReceipt(b)
        /\ AppendEvents(<<DecisionIssued(t, b, now + ttl)>>)
        /\ UNCHANGED receipts

RejectIssue(t, b) ==
  /\ ApprovalRefused(b, AtIssue)
  /\ AppendEvents(<<IssueRejected(t, b)>>)
  /\ UNCHANGED <<receipts, decisions>>

RejectIssueExpired(t, b) ==
  /\ ApprovalExpired(b, AtIssue)
  /\ receipts' = ExpireReceipt(b.receipt)
  /\ AppendEvents(<<ReceiptEvent("APPROVAL_RECEIPT_EXPIRED", b.receipt), IssueRejected(t, b)>>)
  /\ UNCHANGED decisions

IssueAction(t, b, ttl, now) ==
  /\ FreshToken(t)
  /\ \/ IssuePermit(t, b, ttl, now)
     \/ RejectIssue(t, b)
     \/ RejectIssueExpired(t, b)
  /\ UNCHANGED <<clock, ledger>>

-----------------------------------------------------------------------------
(* consume_action: one disjunct per way out, in the order of the code.     *)

SupportsActive(b) == b.supports \subseteq inBeliefs[b.episode]

\* Mutants: the episode check, or the episode-wide conflict check, is dropped.
MutantPremisesNoEpisode(b) == SupportsActive(b) /\ b.episode \notin conflicted
MutantPremisesHold(b) == b.episode \notin finalized /\ SupportsActive(b)

PremisesHold(b) ==
  /\ b.episode \notin finalized
  /\ SupportsActive(b)
  /\ b.episode \notin conflicted

SetDecision(t, state) == decisions' = [decisions EXCEPT ![t].state = state]

\* TOKEN_NOT_FOUND and TOKEN_<STATE>
RejectUnusable(t) ==
  /\ decisions[t].state # "issued"
  /\ AppendEvents(<<DecisionEvent("ACTION_DECISION_REJECTED", t)>>)
  /\ UNCHANGED <<receipts, decisions>>

ExpirePermit(t) ==
  /\ decisions[t].state = "issued"
  /\ clock >= decisions[t].expires
  /\ SetDecision(t, "expired")
  /\ AppendEvents(<<DecisionEvent("ACTION_DECISION_EXPIRED", t)>>)
  /\ UNCHANGED receipts

\* Mutant: the state of the row is not checked again.
MutantPresentable(t) == clock < decisions[t].expires

Presentable(t) == decisions[t].state = "issued" /\ clock < decisions[t].expires

RejectMismatch(t, presented) ==
  /\ Presentable(t)
  /\ presented # decisions[t].binding
  /\ AppendEvents(<<DecisionEvent("ACTION_DECISION_REJECTED", t)>>)
  /\ UNCHANGED <<receipts, decisions>>

RejectUnapproved(t) ==
  /\ ApprovalRefused(decisions[t].binding, AtConsumption)
  /\ AppendEvents(<<DecisionEvent("ACTION_DECISION_REJECTED", t)>>)
  /\ UNCHANGED <<receipts, decisions>>

RejectExpiredApproval(t) ==
  LET r == decisions[t].binding.receipt IN
  /\ ApprovalExpired(decisions[t].binding, AtConsumption)
  /\ receipts' = ExpireReceipt(r)
  /\ AppendEvents(<<ReceiptEvent("APPROVAL_RECEIPT_EXPIRED", r),
                    DecisionEvent("ACTION_DECISION_REJECTED", t)>>)
  /\ UNCHANGED decisions

\* EPISODE_FINALIZED, SUPPORT_RETRACTED or OPEN_CONFLICT
RevokeOnPremises(t) ==
  /\ ApprovalClear(decisions[t].binding, AtConsumption)
  /\ ~PremisesHold(decisions[t].binding)
  /\ SetDecision(t, "revoked")
  /\ AppendEvents(<<DecisionEvent("ACTION_DECISION_REVOKED", t)>>)
  /\ UNCHANGED receipts

ConsumePermit(t) ==
  /\ ApprovalClear(decisions[t].binding, AtConsumption)
  /\ PremisesHold(decisions[t].binding)
  /\ SetDecision(t, "consumed")
  /\ AppendEvents(<<DecisionEvent("ACTION_DECISION_CONSUMED", t)>>)
  /\ UNCHANGED receipts

ConsumeMatching(t, presented) ==
  /\ Presentable(t)
  /\ presented = decisions[t].binding
  /\ \/ RejectUnapproved(t)
     \/ RejectExpiredApproval(t)
     \/ RevokeOnPremises(t)
     \/ ConsumePermit(t)

ConsumeAction(t, presented) ==
  /\ \/ RejectUnusable(t)
     \/ ExpirePermit(t)
     \/ RejectMismatch(t, presented)
     \/ ConsumeMatching(t, presented)
  /\ UNCHANGED <<clock, ledger>>

-----------------------------------------------------------------------------
(* Proactive revocation: one transaction over every affected permit.       *)

RevokeAll(affected) ==
  /\ affected # {}
  /\ decisions' = [t \in Tokens |->
                     IF t \in affected THEN [decisions[t] EXCEPT !.state = "revoked"]
                     ELSE decisions[t]]
  /\ \E order \in Orderings(affected) :
       AppendEvents([i \in DOMAIN order |-> DecisionEvent("ACTION_DECISION_REVOKED", order[i])])
  /\ UNCHANGED <<receipts, clock, ledger>>

IssuedUnder(belief) == {t \in Tokens : /\ decisions[t].state = "issued"
                                       /\ belief \in decisions[t].binding.supports}
IssuedIn(e) == {t \in Tokens : /\ decisions[t].state = "issued"
                               /\ decisions[t].binding.episode = e}

RevokeForSupport(belief) == RevokeAll(IssuedUnder(belief))
RevokeForEpisode(e) == RevokeAll(IssuedIn(e))

-----------------------------------------------------------------------------
(* Environment: time, and ledger transactions that move the projections    *)
(* consumption reads.                                                      *)

Tick ==
  /\ clock < MaxClock
  /\ clock' = clock + 1
  /\ UNCHANGED <<store, ledger>>

FinalizeEpisode(e) ==
  /\ e \notin finalized
  /\ finalized' = finalized \cup {e}
  /\ UNCHANGED <<store, clock, inBeliefs, conflicted>>

\* A belief is admitted, retracted or relabelled.
SetBelief(e, belief) ==
  /\ inBeliefs' = [inBeliefs EXCEPT ![e] = IF belief \in @ THEN @ \ {belief} ELSE @ \cup {belief}]
  /\ UNCHANGED <<store, clock, finalized, conflicted>>

\* The first open conflict of an episode appears or its last one is resolved.
SetConflict(e) ==
  /\ conflicted' = IF e \in conflicted THEN conflicted \ {e} ELSE conflicted \cup {e}
  /\ UNCHANGED <<store, clock, finalized, inBeliefs>>

-----------------------------------------------------------------------------
Init ==
  /\ receipts = [r \in Receipts |-> AbsentRow]
  /\ decisions = [t \in Tokens |-> AbsentRow]
  /\ log = <<>>
  /\ clock = 0
  /\ finalized = {}
  /\ inBeliefs = [e \in Episodes |-> {}]
  /\ conflicted = {}

Approvals ==
  \/ \E r \in Receipts, b \in ApprovalBindings, ttl \in ApprovalTtls, now \in ReadBeforeLock :
       IssueApproval(r, b, ttl, now)
  \/ \E b \in ApprovalBindings : DenyApproval(b)
  \/ \E r \in Receipts : RevokeApproval(r)

Permits ==
  \/ \E t \in Tokens, b \in ActionBindings, ttl \in ActionTtls, now \in ReadBeforeLock :
       IssueAction(t, b, ttl, now)
  \/ \E t \in Tokens, presented \in ActionBindings : ConsumeAction(t, presented)
  \/ \E belief \in Beliefs : RevokeForSupport(belief)
  \/ \E e \in Episodes : RevokeForEpisode(e)

Environment ==
  \/ Tick
  \/ \E e \in Episodes : FinalizeEpisode(e) \/ SetConflict(e)
  \/ \E e \in Episodes, belief \in Beliefs : SetBelief(e, belief)

Next == Approvals \/ Permits \/ Environment

Spec == Init /\ [][Next]_vars

-----------------------------------------------------------------------------
(* What must hold.                                                         *)

Events ==
  [kind : {"APPROVAL_RECEIPT_ISSUED"}, receipt : Receipts, binding : ApprovalBindings, expires : Nat]
  \cup [kind : {"APPROVAL_RECEIPT_DENIED"}, binding : ApprovalBindings]
  \cup [kind : {"APPROVAL_RECEIPT_REVOKED", "APPROVAL_RECEIPT_EXPIRED", "APPROVAL_RECEIPT_CONSUMED"},
         receipt : Receipts]
  \cup [kind : {"ACTION_DECISION_ISSUED"}, token : Tokens, binding : ActionBindings, expires : Nat]
  \cup [kind : {"ACTION_DECISION_REJECTED"}, token : Tokens, binding : ActionBindings]
  \cup [kind : {"ACTION_DECISION_REJECTED", "ACTION_DECISION_EXPIRED", "ACTION_DECISION_REVOKED",
                "ACTION_DECISION_CONSUMED"}, token : Tokens]

Row(Bindings) == {AbsentRow} \cup [state : RowStates \ {"absent"}, binding : Bindings, expires : Nat]

\* Every table holds rows of its own shape, and a row that exists carries the
\* binding it was inserted with.
TypeOK ==
  /\ receipts \in [Receipts -> Row(ApprovalBindings)]
  /\ decisions \in [Tokens -> Row(ActionBindings)]
  /\ log \in Seq(Events)
  /\ clock \in Nat
  /\ finalized \subseteq Episodes
  /\ inBeliefs \in [Episodes -> SUBSET Beliefs]
  /\ conflicted \subseteq Episodes

\* The log never records a second consumption of one token: consume_action is
\* single-use whatever other calls run between two presentations of a token.
ConsumedAtMostOnce ==
  \A i, j \in DOMAIN log :
    /\ log[i].kind = "ACTION_DECISION_CONSUMED"
    /\ log[j].kind = "ACTION_DECISION_CONSUMED"
    /\ log[i].token = log[j].token
    => i = j

\* The event withdraws receipt r: it revokes it, finds it expired, or denies its
\* binding while r stands issued.
Withdraws(i, r) ==
  \/ log[i].kind \in {"APPROVAL_RECEIPT_REVOKED", "APPROVAL_RECEIPT_EXPIRED"} /\ log[i].receipt = r
  \/ /\ log[i].kind = "APPROVAL_RECEIPT_DENIED"
     /\ receipts[r].binding = log[i].binding
     /\ \E j \in 1..i : log[j].kind = "APPROVAL_RECEIPT_ISSUED" /\ log[j].receipt = r
     /\ ~ \E j \in 1..i : log[j].kind = "APPROVAL_RECEIPT_CONSUMED" /\ log[j].receipt = r

\* Once the log withdraws an approval, no permit issued under it is consumed any
\* more: consume_action rereads the receipt that issue_action relied on.
NoSpendAfterWithdrawal ==
  \A i, j \in DOMAIN log :
    i < j /\ log[j].kind = "ACTION_DECISION_CONSUMED"
    => ~ \E r \in Receipts : /\ Withdraws(i, r)
                             /\ decisions[log[j].token].binding.receipt = r

\* Approval drift fails closed: after a denial of the binding a permit was approved
\* under, recorded when that approval was already there, the permit is not consumed.
DenialFailsClosed ==
  \A i, j \in DOMAIN log :
    /\ i < j
    /\ log[i].kind = "APPROVAL_RECEIPT_DENIED"
    /\ log[j].kind = "ACTION_DECISION_CONSUMED"
    => ~ \E k \in 1..i : /\ log[k].kind = "APPROVAL_RECEIPT_ISSUED"
                         /\ log[k].binding = log[i].binding
                         /\ log[k].receipt = decisions[log[j].token].binding.receipt

SingleUse(r) == receipts[r].state # "absent" /\ receipts[r].binding.scope \in SpentAtIssue

\* An exact-action or single-use approval authorises one permit: issue_action
\* never issues two tokens under one such receipt, however the calls interleave
\* with expiry, denial and consumption.
OnePermitPerSingleUseApproval ==
  \A t, u \in Tokens :
    /\ decisions[t].state # "absent" /\ decisions[u].state # "absent"
    /\ decisions[t].binding.receipt = decisions[u].binding.receipt
    /\ decisions[t].binding.receipt # None
    /\ SingleUse(decisions[t].binding.receipt)
    => t = u

\* Everything a stored permit stands on, said without the checks of the code.
Sound(t) ==
  LET b == decisions[t].binding IN
  /\ decisions[t].state # "absent"
  /\ clock < decisions[t].expires
  /\ b.receipt # None =>
       /\ receipts[b.receipt].state \in {"issued", "consumed"}
       /\ clock < receipts[b.receipt].expires
       /\ receipts[b.receipt].binding.episode = b.episode
       /\ receipts[b.receipt].binding.action = b.action
  /\ b.episode \notin finalized \cup conflicted
  /\ b.supports \subseteq inBeliefs[b.episode]

PhaseOf(state) ==
  CASE state = "absent" -> "none"
    [] state = "issued" -> "granted"
    [] state = "consumed" -> "spent"
    [] state \in {"expired", "revoked"} -> "withdrawn"

Authority == INSTANCE PermitAuthority WITH
  Approvals <- Receipts,
  phase <- [t \in Tokens |-> PhaseOf(decisions[t].state)],
  under <- [t \in Tokens |-> IF decisions[t].state = "absent" THEN None
                             ELSE decisions[t].binding.receipt],
  exclusive <- {r \in Receipts : SingleUse(r)},
  sound <- {t \in Tokens : Sound(t)}

\* The store implements the permit authority: a token is spent once, in a step at
\* which its approval, its expiry, its episode, every support and the absence of
\* open conflicts all hold, and a withdrawn token stays withdrawn.
ImplementsAuthority == Authority!Spec
=============================================================================
