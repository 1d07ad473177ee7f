# A formal model of belief-ledger-pramana

This directory holds TLA+ modules that model the program under `src/`, TLC
configurations that check them on small instances, and theorems about them that
the TLA+ proof system (TLAPS) checks. Paths below are relative to the repository;
`core/` stands for `packages/core/src/belief_ledger_core/`, `hermes/` for
`belief_ledger_pramana/`.

The program records what an agent believes as an append-only, hash-chained event
log with projections in one SQLite database, labels beliefs by an argumentation
engine, and authorizes tool calls: an action gate decides, the enforcement store
issues a single-use permit, and the permit is revalidated in one transaction when
it is consumed.

## Inventory

| Component | State it keeps | Operations | Hard behaviour |
|---|---|---|---|
| Enforcement store, `core/enforcement.py` | approval receipts, permits, enforcement log | issue / deny / revoke approval, issue / consume permit, revoke by support or episode, rebuild, compact | processes racing over one token; clock read before the write lock; events that do not change a row |
| Authorization facade, `core/api.py` | none beyond its stores | start / finalize episode, ingest and retract evidence, record approval, evaluate action, consume permission, evaluate output | every call is several reads and transactions with nothing held in between |
| Action gate, `core/gate/` | none | evaluate, preconditions, classification | decides on a read that is stale when the permit is issued |
| Ledger store, `core/store.py`, `projections.py`, `snapshots.py`, `events.py` | events, chain heads, all projections, idempotency keys, snapshots, seal, LLM reservations | append, replay, snapshot, prune, checkpoint, purge, reserve / release budget | retries; replay equal to incremental projection; snapshot taken while others append |
| Belief engine, `core/engine/` | none | relabel, contradiction, trust, validity, retractions | cycles of attack, order independence, convergence |
| Verification and conflicts, `core/verification/`, `hermes/runtime/episode_service.py` | tasks, conflicts, retraction notices (in the ledger) | request, complete, open, resolve, relabel | two callers completing one task; uniqueness per state |
| Chain anchors, `core/verification/anchors.py` | records in a file outside the ledger | publish, compare | anchors of history that was purged since |
| LLM client and budget, `core/llm/` | reservations | reserve, call, commit, release | stale reservations of calls still running |
| Ingestion and admission | none | normalise, admit, promote | text processing; one batch per observation |
| Policy manifest and contracts, `core/manifest.py`, `contracts.py` | frozen values | match, negotiate | overlapping rules |
| Output lint and response gate, `core/lint/`, `buffering.py` | a buffer | push, cancel, finalize | chunks and cancellation in any order |
| Context selection, `core/context/` | none | select, render | formatting |
| Legacy runtime, `core/runtime.py` | none | thin composition | none |
| Gateway, `packages/gateway/` | registered handlers | dispatch, protocol requests | an effect after a consumed permit |
| MCP proxy, `packages/mcp/` | upstream inventory digest and its age | refresh, list, invoke | drift of the upstream schema within its time to live |
| Reference runner | handlers, permits of its owner | authorize, dispatch, deliver output | a permit presented twice |
| Hermes plugin runtime, `hermes/runtime/plugin_runtime.py` | services, episode locks, begun turns | begin turn, hooks, finalize, reload, maintenance | threads, locks dropped while held |
| Configuration and command line | files | parse, report | one atomic replacement |

They interact through the database. The facade calls the gate, which reads the
ledger; the facade then writes the enforcement store, appends an audit event to
the ledger and, when evidence is retracted or an episode finalized, sweeps the
permits that stood on it. Consumption reads three ledger projections (episode
state, belief status, open conflicts) inside its own transaction. The gateway and
the MCP proxy consume a permit before they call anything. The hermes runtime
serialises the callbacks of an episode with a lock per episode and appends to the
same ledger.

What makes each part correct, in a sentence: a permit is spent at most once and
only while everything it was granted on holds; a caller that is overtaken at any
point leaves nothing that can be spent wrongly; the log alone reproduces every
table; a retried request is answered and not repeated; labels are a function of
the graph; calls that keep their reservation keep the budget; and no effect happens without a consumed
permit. `PROJECT.json` lists the hazards of the code at their lines, each with
the properties that would catch it going wrong, or why there is none.

## Modules

| Module | Models | Builds on |
|---|---|---|
| `PermitAuthority` | what a permit promises, without rows, clocks or a log (abstract) | |
| `Enforcement` | every transaction of `EnforcementStore`, with the ledger projections that consumption reads | instantiates `PermitAuthority` |
| `EnforcementReplay` | rebuilding the tables from the log, and compacting an episode out of it | extends `Enforcement`, `Selection` |
| `AuthorizationFlow` | `evaluate_action`, `consume_permission`, `retract_evidence` and `finalize_episode` of concurrent callers, step by step | extends `Enforcement` |
| `Dispatch` | the MCP proxy, the gateway and the reference runner that act on permits, with retries, drift and restarts | extends `AuthorizationFlow` |
| `ActionGate` | how the facade decides on one action (operators) | |
| `ToolPolicy` | manifest matching, inventory classification, profile negotiation (operators) | |
| `ResponseGate` | buffered delivery of one response (operators) | |
| `LedgerStore` | appending, idempotency, replay, snapshots, purge, the chain and its anchors | |
| `Pramana` | validity, trust, qualifiers, contradiction and priority of beliefs (operators) | |
| `Relabel` | the labelling of beliefs (operators) | |
| `EpisodeService` | the belief ledger of one episode: concurrent ingestion, inference, contradiction, verification, relabelling, contexts | extends `Pramana`, `Relabel` |
| `LlmBudget` | calls of the component model under a shared budget | |
| `ResponseLint` | which claims of a response are grounded, and what becomes of the others (operators) | |
| `PluginRuntime` | callback threads, the maintenance thread, locks, caches and health of the host process | extends `LlmBudget`, `ResponseLint` |
| `Selection` | keeping some entries of a sequence: a query over the log, an eviction (functions) | |
| `EnforcementProofs`, `AuthorityProofs` | theorems about `Enforcement` and its refinement | extend `Enforcement` |
| `ReplayProofs` | theorems about `EnforcementReplay` | extends `EnforcementReplay`, `EnforcementProofs`, `SelectionProofs` |
| `DispatchProofs` | theorems about `AuthorizationFlow`, `Dispatch` and the three algorithms | extends `Dispatch`, `AuthorityProofs`, `SelectionProofs` |
| `LedgerProofs` | theorems about `LedgerStore` | extends `LedgerStore`, `SelectionProofs` |
| `HostProofs` | theorems about `PluginRuntime` and `LlmBudget` | extends `PluginRuntime`, `SelectionProofs` |
| `EpisodeProofs` | theorems about `EpisodeService` | extends `EpisodeService`, `SelectionProofs` |
| `SelectionProofs` | induction over numbers and sequences; what `Selection` returns | extends `Selection` |
| `MC*` | model values and symmetry sets for TLC | the module of that name |

### Enforcement

One action per transaction (`BEGIN IMMEDIATE` serialises them, so a transaction is
one step whatever thread or process runs it). `receipts` and `decisions` are the
tables `approval_receipts` and `action_decisions` with the support and episode
tables of a permit; `log` is `enforcement_events`; `clock` the injected clock in
ticks. `finalized`, `inBeliefs` and `conflicted` are the ledger projections that
consumption reads; `FinalizeEpisode`, `SetBelief` and `SetConflict` move them in
any way a ledger transaction can.

`issue_action` has three outcomes (`IssuePermit`, `RejectIssue`,
`RejectIssueExpired`), `consume_action` one disjunct per way out of the code, in
its order: unusable, expired, mismatched, unapproved, approval expired, premises
gone (the permit is revoked), consumed. The three answers of `_approval_reason` are
`ApprovalClear`, `ApprovalExpired` and `ApprovalRefused`. An expiry is computed
from a clock read before the wait for the write lock (`ReadBeforeLock`), the checks
use the clock inside the transaction.

Abstracted: digests stand for what they digest (a binding is compared as a value),
the hash chain of the enforcement log, reason codes and timestamps; and
`blocking_conflict_ids`, since the transaction checks that the episode has no open
conflict at all, which covers them. Not modelled: a standalone database without
ledger tables, which the facade refuses. The scope `standing` stands for receipts
that are not spent at issue; only direct users of the store create them, the facade
records `exact_action` and `single_use`.

### AuthorizationFlow

`call[c]` is the call that caller `c` is in with its local variables: the beliefs the
gate read, the binding being filled in, the raw token. `evaluate_action` is seven
steps: begin, list beliefs, list conflicts and decide, read again to name the supports,
look up the approval, issue, record. `consume_permission` presents what was issued.
`retract_evidence` is a ledger transaction followed by a sweep of dependent permits,
`finalize_episode` likewise. A caller may stop after any step. The policy asks for
one belief-based precondition that any belief of `Premises` satisfies; the code
names the satisfying belief with the smallest id, the model any of them. Source
integrity, stakes, classification and a disabled gate are in `ActionGate`.
`record_approval` checks the episode before its transaction, so a slow caller may
have passed that check long before: approvals are recorded at any time.

### EnforcementReplay

`Rebuild` folds the log as `rebuild_enforcement_projection` does, `Compact` is
`compact_enforcement_events`. Both are functions of the log, evaluated in every state
the store reaches with two episodes whose calls may touch each other's receipts.

### LedgerStore

`events` is the events table; an event keeps its number, id, episode, the id it is
chained to, its kind and its idempotency key and fingerprint. `Selection` has the two
operators on logs: `Entries`, the set of events, and `Only`, those of a `WHERE` clause in order. `tables` holds what
`append_events` maintains: a row per episode that stands for its rows in every
projection, the chain heads, and the idempotency table. Five kinds stand for the
others: a creation (INSERT on a primary key), an ingestion (INSERT of new rows),
a completion (UPDATE of an entity that must exist), a statistics delta (addition),
a finalization (UPDATE to a fixed value). Hashes are replaced by event ids: a chain of
ids is intact exactly when the chain of hashes is, as nobody edits rows here.

`Ask` is what a caller reads before it appends, `Submit` the transaction, with the
check of the task, the lookup of the key and the append in the order of the code. A
caller whose answer is lost may submit a keyed request again. `ReadHeight` and
`Capture` are the halves of `create_snapshot`. `PurgeEpisode` is one step with no call
under way, since the owning host must be stopped. `FullReplay` and
`AcceleratedReplay` are the two branches of `replay`; a replay leaves the tables as they
are or raises, so it is compared with the tables in every state instead of being an
action. The seal and the full-text index are left out; reservations are in `LlmBudget`.

### Dispatch, and the operators it relies on

A front end is one of the callers of `AuthorizationFlow`. A proxy refreshes its
inventory and goes on to the facade in one step (`Invoke`; the time to live of the
inventory is 0), a service answers requests under idempotency keys, remembers the
last `CacheSize` of them, and hands permits to its dispatcher. (The code also makes an answer
the youngest when it is asked for again; this changes only which answer is forgotten first, which no property
depends on, and nothing with one remembered answer.) `CallTool` is the
handler or the upstream server; it may fail after its effect, and the owner of a runner may
present the permit again. `CallLibrary` is code in the gateway's process that retracts or
finalizes. `Restart` ends a process anywhere; only the ledger is left. Read-only tools,
resources, and the proxy's ingestion of a result after the call are left out, and a
belief is identified by its content, so that ingesting it again shows.

`ActionGate`, `ToolPolicy` and `ResponseGate` are sequential code without shared state.
Each module defines the algorithm as operators and a statement about all its inputs up to
named bounds: two beliefs that differ from a good one in one respect, manifests of three
rules for one name and one pattern, conversations of five calls with every fault of linter and
sink. `Dispatch` states them where a front end relies on the result (`PermitGrounded`,
`PolicyDetermined`, `ProfileProven`, `DeliversAllOrNothing`), so one run checks both.
`ResponseGate` assumes that a sink whose delivery raises has delivered nothing.

### EpisodeService, Relabel and Pramana

`db` is what the tables of one episode say, `call[c]` the script of steps caller `c` still
has to run with what it has read. An operation is a script: an ingestion is an admission (what
it decided on is read before the append), then `_after_new_beliefs`: detection of
contradictions, relabelling, passive completion of tasks, each with its reads and its append
apart. Detection asks a model about one undecided pair between the two (`DetectRead`, `Adjudicate`,
`DetectWrite`), or none: in a running event loop the question is left for later. Six short operations are one
step although the code reads before it appends: `AddUndercut`, `AddRebut`, `RequestVerification`,
`RecordVerdict`, `AcknowledgeRetraction` and `BeginTurn`. What they write adds to the tables (an edge, a task, a
verdict) or marks a notice, and is the same whatever others write in between; a task that another caller
has opened meanwhile would be refused by the constraint, as everywhere. Only `relabel` and `complete_verification` hold the episode's lock. An append that a
UNIQUE constraint refuses aborts the operation, as does a restart, and `raised` remembers
it until the next relabelling. Labels are computed by `Relabelled`: the path of label
assignments until one repeats (a fixed point, or an oscillation whose defeat cycle is put in doubt)
or the ceiling is met.

What a belief says, its source and the checks it passes are given by `Attr`; so
validity, trust, qualifiers, contradiction and priority are operators on these attributes
(`Pramana`). Abstracted: a belief has one support or one justification; a support cannot be
undercut; source samples stay below the minimum, so competence is the prior; one evidence is
promoted per request and its claims get new identifiers, so two promotions of one evidence are not
recognised as twins; component verdicts other than chain audits make no beliefs; ranking
and the character budget are any choice of `MaxBeliefs`; notices do not list
descendants; idempotent redelivery is left to `LedgerStore`.

### PluginRuntime, LlmBudget and ResponseLint

`th[h]` is the callback thread `h` is in: the steps it still has to run and its local
variables. `locks`, `turnEpisode`, `begunTurns` and `notInjected` are the containers of
`BeliefLedgerRuntime` (bounded caches are sequences in order of use), `queue` and `draining` the
maintenance thread. Every step that calls the ledger or the host may raise (`Fail` for those that
read or create, a disjunct of the step for those that append), and `Handle` is what
the `except` clause of that callback does; the middleware looks its episode up before its `try`, so that
exception reaches the host. A component call is five steps of `LlmBudget`. A
response is a sequence of clauses; the statuses of the beliefs it cites are read anew at
every lint, so other callbacks may have changed them. Left out: queries, recent results, policy
caches, approval bindings, subagents, configuration versions, hosts that are not fully
compatible, and all but one locked section of the maintenance. The gate is that of
effectful high-stakes calls. `resolve_episode_id` also catches an `IntegrityError`, when another process has created
the episode of a session first, and reads that one; a second process is modelled only in what it does to the
reservations.

In `LlmBudget` a reservation can go before its call has ended: `RowsAge` makes any row stale, and the next
reservation deletes stale rows, as the code deletes those of 300 seconds whatever
`structured_timeout_seconds` says; `ReplayLedger` deletes all, at any time, as another process does
that opens the ledger without a valid seal. A provider may report any usage, which is charged as
reported. `beyond` is a history variable: what was charged to an episode without a
reservation still there, or above it.

## Runs

All passing runs explore the whole state space of their bounds.

| Run | Checks | Bounds |
|---|---|---|
| `enforcement` | types, `ConsumedAtMostOnce`, `OnePermitPerSingleUseApproval`, `NoSpendAfterWithdrawal`, the refinement of `PermitAuthority` | 2 tokens, 1 receipt of either kind of scope, 1 action, 1 belief, a caller that waits for the lock, clock 0..1, 5 events |
| `replay` | `RebuildReproducesProjection`, `PurgeIsolatesEpisode`, `PurgeLeavesNoTrace` | 2 episodes, 2 receipts, 1 token, 5 events |
| `flow` | types, `FinalizeSweepsPermits`, `SpentIsAudited`, `NothingSpentAfterFinalize`, `ApprovalStandsAtIssue`, `EffectNeedsPermit`, `ForwardedAsShown`, `RetractedStaysOut`, and the four statements about operators | a proxy and a gateway, 2 tokens, 1 receipt, 1 belief, 2 schemas, 1 remembered answer, 5 events |
| `ledger` | types, `ChainIntact`, `ReplayReproducesTables`, `RetriesGetFirstAnswer`, `OutcomeCountedOnce`, `QuietSnapshotReplays`, `AnchorVerdicts` | 2 callers, 2 episodes, 1 key, 2 fingerprints, 1 snapshot at a time, no batch begins after 5 events |
| `episode` | types, `QuiescentIsSettled`, `ConflictsAreTies`, `FallenIsAnnounced`, `DefeatSampledOnce` | 2 callers, 2 contradicting claims of two sites, an observation, a proven absence, an inference, an audit verdict, 2 stakes; 4 operations, the first two alone |
| `host` | types, `OneHolder`, `TurnCountedOnce`, `BudgetKept`, `FailClosed`, `NothingUngroundedDelivered`, `HandlesReleased`, and the liveness property `HostSettles` | 2 callback threads and the maintenance thread, 2 episodes of 1 session, 2 callbacks, 1 disturbance (failure, reload, restart, refused thread, stale reservation, replay), caches and queue of 1; 1 call a turn, 2 calls and 3 tokens an episode, 2 tokens reserved, 2 or 3 reported |
| `denial_drift` | `DenialFailsClosed` is violated | 1 of each |
| `support_drift` | `SupportDriftFailsClosed` is violated | 2 callers, 1 belief |
| `snapshot_replay` | `SnapshotNeverMatters` is violated | 1 caller |
| `snapshot_race` | `SnapshotAtItsHeight` is violated | 2 callers |
| `defeat_cycle` | `NothingStandsOnFallen` is violated | 1 caller, 1 observation, 2 inferences |
| `task_reopened` | `EveryOpenTaskCanComplete` is violated | 1 caller |

Why the bounds are enough to be interesting. The properties of the enforcement store are
about one token or one receipt and at most one competitor: two tokens under one receipt hold
every pair, and five events are an approval, a permit (two events) and two further outcomes, or
two permits. The clock reaches the time to live in use, so each row is
seen before and at its expiry. In `flow` the two front ends cover every interleaving of two
facade calls, a caller that returns starts another call, and one remembered answer makes
every second request evict the first. In `ledger` five events and a last batch of two are an
ingestion and two racing completions, or two episodes with a keyed ingestion each, a
purge and a retry, or a snapshot with events below and above it; a purge of the newest
episode makes its numbers come back. In `episode` two operations in sequence build a state (a
conflict, an inference with its premise, a task) and two at once race on it, or the process
stops in the midst of them (no stop comes before the third operation has begun); every
mutant of its properties is found within these four. In `host` two callbacks and the
maintenance thread are every pair of callbacks, on the episode that a session has and the
one it gets after finalization, with one thing going wrong anywhere; with caches of one entry
every second entry evicts. The calls of the component meet the limit of a turn and that of tokens, with a call
under way whose reservation is lost by age, by a replay or by a restart, and a provider that reports more than it may. The
response is one clause twice and another: with one cited belief it can be grounded, open to the component,
mended by its marks, or beyond mending, as the status of the belief changes between two lints.
Identifiers of a kind are interchangeable, and symmetry is used with safety
properties only.

Deadlock is checked in all runs but `replay`, where the log may be full and the clock
at its end with nothing left to do, and `host`, where a host that has stopped
calling leaves nothing to do. In `episode` the state in which the bound is reached
and everybody is idle is allowed to stutter (`Finished`); a caller that waits for a lock
nobody releases would be a deadlock.

Fairness. `HostSpec` assumes that while some thread can take a step one of them does (weak fairness of the
disjunction of their steps), and nothing of the host, of failures or of restarts. The threads are threads of one process,
scheduled by the operating system, and nothing in the code stops all of them; that a particular thread is
ever scheduled is not assumed. That suffices because callbacks are bounded scripts without busy
waiting: what could keep `HostSettles` from holding is a thread waiting for a lock nobody will
release, or work queued that nobody will take. The other specifications assume none: each of their callers
may stop anywhere, and the code promises no progress there.

## What the runs found

* **A retraction between two reads loses the supports** (`support_drift`).
  `_evaluate_with_policy` decides on one listing of the beliefs and names the
  permit's supports from a second one. A retraction that commits in between
  yields a permit with no supports, which no sweep finds and consumption accepts
  although its only premise is retracted.
* **A denial does not stop a permit issued before it** (`denial_drift`). The receipt was
  spent when the permit was issued, a denial only changes receipts that are still
  issued, and consumption accepts a spent receipt.
* **Accelerated replay forgets idempotency keys** (`snapshot_replay`). A keyed append
  above a snapshot is not entered in the idempotency table by
  `replay(from_snapshot=True)`, so the replay raises a mismatch, and so does
  `verify_snapshot`.
* **A snapshot can contain events above its height** (`snapshot_race`), because the
  height is read before the transaction that captures the tables.
* **A belief stands on a premise that fell** (`defeat_cycle`). When the labelling
  oscillates, only the supported beliefs on the defeat cycle are put in doubt, and what was
  inferred from them keeps the label of the last round. `add_defeat` and the verdicts of chain audits
  are the ways to such a cycle.
* **A second task of a belief and method can never be completed** (`task_reopened`). Completed
  and superseded tasks keep their row, and a table constraint allows one row per belief, method
  and state. The table of conflicts has the same constraint: the second resolution of a pair raises in
  every later relabelling.

Noted while modelling, without a run of their own:

* The call budget can be exceeded. A reservation counts only while its row exists: `replay` deletes all rows
  (`store.py:974`), and any process that opens the ledger without a valid seal replays it
  (`plugin_runtime.py:158`); rows of 300 seconds are deleted (`store.py:672`) although the timeout of a call
  may be set far longer (`config.py:472`). The next call then finds the budget free while the first is still running, and
  both are charged. Tokens exceed their limit also when a provider reports more than was
  reserved (`llm/client.py:223-238`). `LlmBudget` has all of these steps, and `BudgetKept` says what does hold: the
  excess is no more than what was charged without, or above, a reservation.
* The command line creates snapshots with the package version in their fingerprint
  (`hermes/cli.py`, `_snapshot_command`), while `replay` and `verify_snapshot` look for the
  fingerprint without it, so these snapshots are never used (`Usable` in `LedgerStore`).
* `record_approval` accepts the scope `single_use`, which `evaluate_action` never looks up.
* With `critical_human_confirmation` on, the gate adds a precondition that the facade has removed
  in favour of a receipt: an action of critical stakes is blocked with or without a receipt
  (`Satisfied` in `ActionGate`).
* A contradiction verdict `unavailable` marks its pair as classified for good
  (`Adjudicated` in `EpisodeService`).
* A callback still in flight after `finalize` gives a closed episode a route and a lock again,
  which stay until the process ends (`HandlesReleased` is about the episodes nobody was using).
* When the system refuses to start the maintenance thread, its queued work waits for the next
  request (`HostSettles` excludes that case).
* A context that was read before a relabelling and recorded after it shows a belief whose fall is
  not announced (`clean` in `EpisodeService` leaves this race out).
* After a rejected call with a drifted schema the proxy accepts the new schema at the next
  call; a tool registered at the reference runner as read-only is compared with the supplied policy, not with the
  rule of the manifest that governs it.

Within their bounds the other runs show: a permit is consumed only in a transaction
at which its approval, expiry, episode, supports and the absence of conflicts all
hold, so the sweeps after a retraction or a finalization are not needed for safety;
a permit issued by a call that was overtaken by a finalization is never spent; every
spent permit is audited; the enforcement tables and the ledger projections are
functions of their logs; a purge removes one episode and nothing else, although events
about one receipt may be caused by calls of another episode; all answers under one key are
one batch; an anchor distinguishes exactly the purges that touched what it covers. A permit causes one
effect at most, whoever retries or restarts; a retried ingestion does not bring a retracted belief back.
However the callers of an episode interleave, when all have returned the stored labels are a fixed point
of the labelling and the open conflicts are its ties, although only relabelling is locked. A
process whose component failed stays closed through reloads, two threads never work on an active
episode at once even when its lock is dropped, a turn is started once, calls that keep their reservation
keep the budget, and every callback returns.

## Proofs

The theorems below hold for any number of tokens, receipts, episodes, callers, threads, keys
and events, and for any bounds and times to live, under the named assumptions that the modules make on
their constants. These only fix the kinds of constants: bounds are natural numbers, caches and queues hold at
least one entry, `None` differs from what it stands beside (`NoneAssumption`, `FlowAssumption`,
`DispatchAssumption`, `LedgerNoneAssumption`, `HostNoneAssumption`), tokens, threads, beliefs and
episodes of a model are finitely many (`TokensAssumption`, `BudgetAssumption`, `EpisodeAssumption`), an
episode of the host is a positive number since 0 stands for none. `RuntimeAssumption` lets the host name no
more turns than the bound on turn numbers; `SessionsAssumption` that no session is called like the key of an archived
episode, which the prefixes of the two keys exclude in the code; `TextsAssumption` that responses are
sequences of the clauses described, and these cite only beliefs whose status a lint reads. `EpisodeAssumption` also says that
the identifiers of basic, derived and verdict beliefs are disjoint and that messages carry basic
ones; `MatrixAssumption` that the trust matrix is one that `config.py` accepts, where every cell that wants
verification names a method and how often. TLC evaluates all of them in every run.

An invariant is proved from three facts: it holds initially, every action keeps it, it implies the
property. There is one step per action, and properties that are not inductive are strengthened as follows.

### Enforcement store (`EnforcementProofs`, `AuthorityProofs`)

* `TypeCorrectness`: `TypeOK`, action by action.
* `SingleConsumption`: `ConsumedAtMostOnce`. A state whose log holds a consumption of a token that is
  still issued satisfies it, and the next step breaks it. The invariant adds `ConsumedRowsLogged`: such a token is in state
  consumed, which no step leaves. The lemmas named `...Quiet` say that no other step logs a consumption.
* `SingleGrant`: `OnePermitPerSingleUseApproval`. The invariant adds `ReceiptsSpent`: the single-use
  receipt of a stored permit exists and is not issued any more; nothing makes it issued again.
* `AuthorityImplemented`: `Enforcement` implements `PermitAuthority`. Every transaction is one step of the
  abstraction (grant, spend, drop, withdraw, ...) under the mapping or leaves the mapped state alone.
* `WithdrawalIsFinal`: `NoSpendAfterWithdrawal`. An event that withdraws a receipt leaves it `Dead` whatever follows, and
  `consume_action` accepts no dead receipt. A denial withdraws what is issued and not spent before
  it, so the invariant also says that issuances and consumptions in the log left the rows they should (`RowsLogged`).

### The enforcement log (`ReplayProofs`)

`Reflects` relates a log to two tables: rebuilding the log gives the tables, and for each episode rebuilding
what compaction leaves gives the tables without that episode's rows. On its own this is not
inductive: an event without a binding is kept or dropped by the episode that compaction traces it to. So
the invariant adds that every row was bound by an event (`Rooted`) and that every event
about a row is traced to the episode of that row (`Owned`), although the call that wrote it may be
another episode's. `EventNext` is the one induction step: it says that an event the tables allow (`Possible`)
keeps all of this. Each transaction then is one or two such events, and a revocation is as many as it
names permits (`RevokeReflects`, by induction over its order).

* `RebuildIsExact`, `PurgeIsolates`, `PurgeTraceless` are the three properties of the run `replay`. They are
  proved for every transaction of `Spec`, of which the run explores a part (`ReplaySpecImpliesSpec`).

### Facade and front ends (`DispatchProofs`)

* `FlowTypes`: `FlowTypeOK`, with the local variables of a call and the state of proxies and services.
* `FrontEndsUseTheStore`: `DispatchSpec => Spec`. Every step of a facade call, a proxy, a gateway or a runner is a
  transaction of the store or none. So the theorems about the store carry over, the
  refinement among them (`FrontEndsKeepAuthority`). The rest is about what one step may do to one permit
  (`PermitFate`: nothing, withdraw it, issue it, spend it) and to who holds a token (`TokenFate`).
* `NoSpendAfterFinalization`, `ApprovalStands` (action properties): the transaction reads the
  episode and the approval itself, however old the caller's own reads are; for the approval, a caller that gets
  to `issue_action` with one required has read one.
* `SpendingIsAudited`: a token that may be presented has been recorded, so a caller that stops
  between issuing and recording takes its token with it.
* `OneEffectPerPermit`: whoever has consumed a token and not acted yet is alone in it, and has not acted on it before.
* `FinalizeSweeps`: a caller past the lifecycle event has its episode finalized, one past the sweep has
  left only permits of calls admitted earlier (`late`).
* `RetractionIsFinal`: a belief told or retracted has its idempotency key in the ledger.
* `ForwardedUnderTheSchema`: what a proxy has shown is its present digest or nothing, and a call is under way only
  while the tools it serves are those of the digest.

The properties of the algorithms speak of bounded inputs, and the theorems `ClassificationIsDetermined`,
`ProfileIsProven`, `PermitIsGrounded` and `DeliversWholeOrNothing` state them as they are run; no variable
enters into them. Three of them are instances of theorems without those bounds:

* `AnyOrderDeterminesPolicy`: valid manifests of any number of rules (for one name and one pattern, as
  in `ToolPolicy`) and any reordering of one. Validation leaves at most one exact rule for a namespace and
  one for all, so the highest exact rule is unique; keys do not mention positions, so a reordering takes
  the winners among patterns to the winners, one to one.
* `AnyActionDecidedRightly`: any sequence of beliefs, any finite set of preconditions, any stakes, and each
  minimum integrity the manifest accepts. A precondition has one entailing belief at most, and a belief states one proposition, so what
  a permit names and what the policy asks for are equally many.
* `AnyConversationAnsweredRightly`: any calls of which one finalizes. By induction over the calls, an open
  gate has not failed exactly if it holds the chunks in order and they fit; the first `finalize`
  delivers that state, every later one nothing.

A profile is one of four; that a downgrade is not above the request (`ProfileIsProven`) rests on each profile
requiring what the lower ones do.

### Ledger store (`LedgerProofs`)

`LedgerInvariant` states one invariant for all properties. Its core is `Sound`: numbers of events
increase, every event is chained to the head its episode had below its number, the head
table names the last events, and applying the log to empty tables gives the stored
projections. Beside it: idempotency keys are those of the log, rows only name identifiers handed out, a caller's
pending request can still be applied or will be refused, answers are batches of the log, snapshots taken undisturbed
are the tables of the events below their height, an anchor that covers no
purged episode names the heads the log still has at its height.

* `TablesKeepShape`, `ChainStaysIntact`, `ReplayIsExact`, `OutcomesCountOnce`, `RetriesAreAnswered`,
  `QuietSnapshotsReplay` and `AnchorsAreJudged` are the seven properties of the run `ledger`.

Replay and selection are recursive functions over a log of any length. `SelectionProofs` begins with induction over
*sets* of numbers and of sequences, so that no prover has to instantiate an operator; the rest of it and the first part of
`LedgerProofs` (`CourseExists`, `ApplyNext`, `AppliedSteps`) unfold the functions by one entry. The two
arguments that are more than bookkeeping: a replay without one episode gives the tables without it
(`ReplayWithout`), because every handler reads and writes rows of the event's episode only, which is what `purge_episode` relies on;
and the number of a new event is above all of the log, but not above all that ever existed, so an anchor's
verdict rests on the event ids of its heads and not on numbers.

### Hermes process (`HostProofs`)

* `ScriptsFollow`: the steps a thread still has to run are a path of its callback's script, so each
  step finds the local variables it needs. `StepPasses` and the lemmas named `...Moves` say how each step changes the thread.
* `FailuresClose`: `FailClosed`. The reason "component" is never removed while the process lives, and
  a process with a reason is degraded (`HealthOK`); a call that was warned is not answered "allow".
* `TurnsStartOnce`: `TurnCountedOnce`. The transaction that starts a turn finds the marker, so what the cache has
  forgotten does not matter. It is about the turns begun, not about their numbers: two turns that begin together
  get the same number (`CountTurn` reads before `AppendTurn`).
* `OneMaintenanceThread`: the maintenance thread runs only while `draining`, and whoever is about to
  start it is alone in that and finds none.
* `WorkIsPlaced`: past its lookup a callback works on an episode of the ledger, routes and the queue
  name such episodes only; finalized episodes have lost their key.
* `SectionsExclude`: `OneHolder`, and that two threads are never both inside the section of an active episode. A
  thread that found a lock object of an episode which is still active found the one that the
  registry names now: lock objects are dropped only by a finalization, which leaves the episode closed for good, and by a
  restart, which leaves no thread. A new object is one nobody holds (`NewLockFresh`).
* `BudgetHolds`: `BudgetKept`. Charges alone are not inductive: two calls may be under way. The invariant is
  `WithinBudget`: charges *and* what the reservations of calls under way may still add are within the limits raised by
  `beyond` (of calls, of tokens, and of calls in a turn), with `CallsOK`: no two calls hold the
  same row, and the row of a call, while there is one, is for its episode and turn. A row that goes takes its
  promise with it, so recording the call adds to `beyond` what it adds to the charge. `Total` is the sum over the
  rows; its lemmas are by induction.
* `ClosedIsReleased`: `HandlesReleased`. `ReleasedOK`: a finalized episode that is not in `late` is either about to be
  forgotten by the thread that archived it, or it has been dropped, and the only thread that may still name it is
  the maintenance thread before it looks whether the episode is active. `CachesOK` says what the two caches of turns hold
  and that they and the queue stay within their limits.
* `HostTypes`: `HostTypeOK`, from the invariants above, `ConditionOK` (reasons, failed injections and `late`) and `CountsOK`: the
  number of a turn is at most the turns that its episode has begun, and the number a thread has read before its append is
  at most one more; turns begun are distinct markers, so there are at most as many as markers.
* `DeliveriesAreBacked`: `NothingUngroundedDelivered`. `PapersOK`: from its first lint on, every claim of
  a response that is not open is backed by a status that some read of this lint has shown. Two places need more: the
  component may only close claims under the statuses of the first read (`LooksAgain`), and a marked text claims
  nothing until its own lint has passed it. Only at the end, where nothing is open, does this say what is delivered.

### Episode service (`EpisodeProofs`)

`Inductive` proves one invariant, `IInv`, for all five properties of the run `episode`.

* `EpisodeTypes`: `EpisodeTypeOK`. `TablesOK` holds of the tables, `CallsOK` of the callers: what
  is left of a script is a path of an operation (`ScriptOK`), and what its first step reads from `call[c].read` is
  what an earlier step of that script stored there (`Fits`). `LockOK`: the holder of the lock is the
  caller between the read and the append of a relabelling or a completion. That open tasks are distinct per
  belief and method needs the UNIQUE constraint, which an append checks (`Insertable`), or a look at the open
  tasks in the same step.
* `SampledOnce` (`DefeatSampledOnce`): who is about to count an outcome holds the lock, has seen it uncounted,
  and nobody else counts (`CountsOK`).
* `FallenAnnounced` (`FallenIsAnnounced`): a relabelling under way that takes a cleanly shown belief out
  carries its notice or finds it noticed (`NoticesOK`). The showing of a belief that a relabelling under way
  takes out is not clean, and that race is excluded in the property.
* `QuiescentSettled` and `ConflictsTie`: `CoveredOK` is the heart. Either an operation was cut short
  (`raised`), or some caller has a relabelling before it that will read everything written so far (`Owes`), or the last
  reading has missed nothing: applying what the relabelling under way has read settles the tables, or they are
  settled. Each action is then one of three kinds: it writes what labels depend on and owes a relabelling
  itself (an admission, a detection, a change of stakes, a verdict), it is a relabelling's read or write, or it leaves what labels depend on alone
  (`SameView`). Two facts make it inductive. A completion is followed by its own relabelling, and skips
  both when the task is gone (`Sure` looks at the step before). And a perishable
  belief that ages unsettles nothing: one that is accepted keeps its label until the next reading, as the property
  allows (`Seen`), and any other stays unaccepted (`SettledAges`). The labelling itself, a path of assignments until one
  repeats, is used through one fact: without an oscillation its end is a fixed point and its conflicts are the
  ties there (`OutcomeIs`), which holds by its choice of the end and not by what it computes. Identifiers of new
  beliefs are fresh (`FreshOK`), so an admission does not change the label of a belief somebody has read.

### Only model-checked

* The liveness property `HostSettles`, and what needs `ENABLED`: beyond the prover.
* What a labelling computes for every graph, and that it terminates within its ceiling: an iteration
  over data, beyond the prover. The theorems about `EpisodeService` do not depend on it.
* The properties that runs show to be violated are, of course, not theorems.

## Plan

All modules of the plan are written, and every invariant and action property that a passing run checks has
a theorem.

## Not modelled, and why

Text normalisation, token matching, context layout and reports are
formatting without state of their own: the models keep what they decide. Configuration,
packaging, the command line and the legacy runtime are sequential code over the parts
above. Queries change nothing. The facade's `evaluate_output` appends one lint report
and its decision is that of `ResponseLint`. Observations of the component's own input, sources and
their learned competence, archived responses and subagents are records nothing else
here reads. Cryptography (hashes,
HMAC tags) is represented by identity of what is hashed. SQLite itself is external: a
transaction is atomic, isolated and durable.
