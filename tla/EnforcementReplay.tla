-------------------------- MODULE EnforcementReplay --------------------------
(***************************************************************************)
(* The enforcement log as the source of truth: rebuilding the tables from  *)
(* it (EnforcementStore.rebuild, LedgerStore.replay) and compacting one    *)
(* episode out of it (LedgerStore.purge_episode).  Both are pure functions *)
(* of the log, checked in every state the store can reach.                 *)
(***************************************************************************)
EXTENDS Enforcement, Selection

Tables(rs, ds, ok) == [receipts |-> rs, decisions |-> ds, ok |-> ok]
EmptyTables == Tables([r \in Receipts |-> AbsentRow], [t \in Tokens |-> AbsentRow], TRUE)

\* INSERT: a second row under one primary key raises, which ok = FALSE records.
Insert(rows, id, event) == [rows EXCEPT ![id] = IssuedRow(event.binding, event.expires)]

\* Mutant: an UPDATE without WHERE state='issued'.
MutantSettle(rows, id, state) == [rows EXCEPT ![id].state = state]

\* UPDATE ... WHERE state='issued'
Settle(rows, id, state) ==
  IF rows[id].state = "issued" THEN [rows EXCEPT ![id].state = state] ELSE rows

ReceiptStateOf ==
  [APPROVAL_RECEIPT_CONSUMED |-> "consumed", APPROVAL_RECEIPT_EXPIRED |-> "expired",
   APPROVAL_RECEIPT_REVOKED |-> "revoked"]
DecisionStateOf ==
  [ACTION_DECISION_CONSUMED |-> "consumed", ACTION_DECISION_EXPIRED |-> "expired",
   ACTION_DECISION_REVOKED |-> "revoked"]

\* One turn of the loop of rebuild_enforcement_projection.
Replayed(tables, event) ==
  CASE event.kind = "APPROVAL_RECEIPT_ISSUED" ->
         Tables(Insert(tables.receipts, event.receipt, event), tables.decisions,
                tables.ok /\ tables.receipts[event.receipt] = AbsentRow)
    [] event.kind = "APPROVAL_RECEIPT_DENIED" ->
         [tables EXCEPT !.receipts =
            [r \in Receipts |-> IF @[r].binding = event.binding
                                THEN Settle(@, r, "revoked")[r] ELSE @[r]]]
    [] event.kind \in DOMAIN ReceiptStateOf ->
         [tables EXCEPT !.receipts = Settle(@, event.receipt, ReceiptStateOf[event.kind])]
    [] event.kind = "ACTION_DECISION_ISSUED" ->
         Tables(tables.receipts, Insert(tables.decisions, event.token, event),
                tables.ok /\ tables.decisions[event.token] = AbsentRow)
    [] event.kind \in DOMAIN DecisionStateOf ->
         [tables EXCEPT !.decisions = Settle(@, event.token, DecisionStateOf[event.kind])]
    [] OTHER -> tables

Rebuild(events) ==
  LET upTo[i \in 0..Len(events)] ==
        IF i = 0 THEN EmptyTables ELSE Replayed(upTo[i - 1], events[i])
  IN  upTo[Len(events)]

-----------------------------------------------------------------------------
(* compact_enforcement_events                                              *)

Has(event, field) == field \in DOMAIN event

\* Mutant: one current episode for every receipt instead of one per digest.
MutantSameSubject(x, y) ==
  \/ Has(x, "receipt") /\ Has(y, "receipt")
  \/ Has(x, "token") /\ Has(y, "token") /\ x.token = y.token

\* Mutant: only tokens are followed back to their episode.
MutantTokensOnly(x, y) == Has(x, "token") /\ Has(y, "token") /\ x.token = y.token

SameSubject(x, y) ==
  \/ Has(x, "receipt") /\ Has(y, "receipt") /\ x.receipt = y.receipt
  \/ Has(x, "token") /\ Has(y, "token") /\ x.token = y.token

\* An event without a binding belongs to the episode of the last earlier event
\* that bound its receipt or its token, and to no episode if there is none.
EpisodeOf(events, i) ==
  IF Has(events[i], "binding") THEN events[i].binding.episode
  ELSE LET bound == {j \in 1..i-1 : /\ Has(events[j], "binding")
                                    /\ SameSubject(events[j], events[i])}
       IN  IF bound = {} THEN None
           ELSE events[CHOOSE j \in bound : \A k \in bound : k =< j].binding.episode

Compact(events, excluded) ==
  LET kept == Only([i \in DOMAIN events |-> i],
                   {i \in DOMAIN events : EpisodeOf(events, i) # excluded})
  IN  [i \in DOMAIN kept |-> events[kept[i]]]

-----------------------------------------------------------------------------
(* Which of its premises a permit loses does not matter to the log, so the *)
(* only ledger transaction here is finalization.                           *)

ReplayNext ==
  \/ Approvals
  \/ Permits
  \/ Tick
  \/ \E e \in Episodes : FinalizeEpisode(e)

ReplaySpec == Init /\ [][ReplayNext]_vars

\* rebuild() never raises: folding the log gives back exactly the tables the
\* transactions wrote, in every state, so the log alone is enough to recover.
RebuildReproducesProjection == Rebuild(log) = Tables(receipts, decisions, TRUE)

Keep(rows, excluded) ==
  [id \in DOMAIN rows |->
     IF rows[id] # AbsentRow /\ rows[id].binding.episode = excluded THEN AbsentRow ELSE rows[id]]

\* Purging an episode removes its receipts and permits and leaves every other
\* episode's exactly as they were, although events such as an expiry caused by
\* another episode's call are kept or dropped one by one.
PurgeIsolatesEpisode ==
  \A e \in Episodes :
    Rebuild(Compact(log, e)) = Tables(Keep(receipts, e), Keep(decisions, e), TRUE)

Names(event, e) ==
  \/ Has(event, "binding") /\ event.binding.episode = e
  \/ /\ Has(event, "receipt")
     /\ receipts[event.receipt] # AbsentRow
     /\ receipts[event.receipt].binding.episode = e
  \/ /\ Has(event, "token")
     /\ decisions[event.token] # AbsentRow
     /\ decisions[event.token].binding.episode = e

\* The compacted log does not mention the purged episode any more: no binding of
\* it, and none of its receipts or tokens, even in events that carry a bare digest.
PurgeLeavesNoTrace ==
  \A e \in Episodes :
    LET left == Compact(log, e) IN \A i \in DOMAIN left : ~Names(left[i], e)
=============================================================================
