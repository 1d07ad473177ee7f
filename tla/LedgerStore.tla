----------------------------- MODULE LedgerStore -----------------------------
(***************************************************************************)
(* The event-sourced ledger: an append-only log chained per episode, the   *)
(* projections applied with every append, idempotency keys, snapshots,     *)
(* purge by compaction, and the external anchors of the chain.             *)
(*                                                                         *)
(* append_events, the second half of create_snapshot and prune_snapshots   *)
(* are one IMMEDIATE transaction each.  What a caller read before its      *)
(* transaction (an active episode, an open task, the chain height) is a    *)
(* step of its own.  Replay leaves the tables as they are or raises, so it *)
(* is an operator here, compared with the tables in every state.           *)
(***************************************************************************)
EXTENDS Integers, Sequences, FiniteSets, Selection

CONSTANTS
  Episodes,    \* episode ids
  Callers,     \* threads and processes that hold the store
  Keys,        \* idempotency keys, as callers choose them
  Prints,      \* fingerprints of requests
  Versions,    \* package versions that snapshots are created under, or None
  None,
  MaxEvents,   \* bound: no batch begins once so many events were appended
  MaxSnapshots \* bound: snapshots kept at a time

Kinds == {"EPISODE_CREATED", "EPISODE_FINALIZED", "EVIDENCE_INGESTED",
          "VERIFICATION_TASK_COMPLETED", "SOURCE_STATS_DELTA"}

\* Requests of append_events, and the projections: what they are made of.
Requests == [episode : Episodes, drafts : Seq([kind : Kinds, task : Nat]),
             key : Keys \cup {None}, print : Prints \cup {None}, task : Nat]
EpisodeRows == [state : {"absent", "active", "finalized"}, samples : Nat,
                open : SUBSET Nat, completed : SUBSET Nat]
Tables == [rows : [Episodes -> EpisodeRows], heads : [Episodes -> [seq : Nat, id : Nat]],
           answers : [Episodes -> [Keys -> Seq(Nat)]]]

ASSUME LedgerNoneAssumption ==
  None \notin Keys \cup Prints /\ None \notin Requests /\ None \notin Tables
ASSUME LedgerBoundAssumption == MaxEvents \in Nat /\ MaxSnapshots \in Nat

VARIABLES
  events,      \* the events table in the order of seq
  tables,      \* the projections that append_events maintains
  minted,      \* number of event ids generated so far
  snapshots,   \* the snapshots table
  anchors,     \* every record that may have been published to the anchor sink
  calls,       \* the call each caller is in
  purged,      \* episodes removed by purge_episode
  answered     \* history: the event ids returned so far under each key

log == <<events, tables, minted>>
vars == <<events, tables, minted, snapshots, anchors, calls, purged, answered>>

Greatest(S) == IF S = {} THEN 0 ELSE CHOOSE n \in S : \A m \in S : m =< n

-----------------------------------------------------------------------------
(* Projections.  An episode's row stands for its rows in every table:      *)
(* inserted rows are sets of ids, samples a column updated by addition.    *)
(* EVIDENCE_INGESTED stands for the whole batch of an ingestion: evidence, *)
(* belief, support and verification task, all inserted under new ids.      *)

AbsentEpisode == [state |-> "absent", samples |-> 0, open |-> {}, completed |-> {}]
NoHead == [seq |-> 0, id |-> 0]
EmptyTables == [rows |-> [e \in Episodes |-> AbsentEpisode],
                heads |-> [e \in Episodes |-> NoHead],
                answers |-> [e \in Episodes |-> [k \in Keys |-> <<>>]]]

\* A handler raises on a second row under one primary key, on an entity that is
\* not there, and on an episode that is not there.
Applicable(row, event) ==
  CASE event.kind = "EPISODE_CREATED" -> row.state = "absent"
    [] event.kind = "EVIDENCE_INGESTED" ->
         row.state # "absent" /\ event.id \notin row.open \cup row.completed
    [] event.kind = "VERIFICATION_TASK_COMPLETED" -> event.task \in row.open \cup row.completed
    [] OTHER -> row.state # "absent"

RowAfter(row, event) ==
  CASE event.kind = "EPISODE_CREATED" -> [row EXCEPT !.state = "active"]
    [] event.kind = "EPISODE_FINALIZED" -> [row EXCEPT !.state = "finalized"]
    [] event.kind = "EVIDENCE_INGESTED" -> [row EXCEPT !.open = @ \cup {event.id}]
    [] event.kind = "VERIFICATION_TASK_COMPLETED" ->
         [row EXCEPT !.open = @ \ {event.task}, !.completed = @ \cup {event.task}]
    [] event.kind = "SOURCE_STATS_DELTA" -> [row EXCEPT !.samples = @ + 1]

\* apply_event; None when a handler raised.
Applied(t, event) ==
  IF t = None \/ ~Applicable(t.rows[event.episode], event) THEN None
  ELSE [t EXCEPT !.rows[event.episode] = RowAfter(@, event),
                 !.heads[event.episode] = [seq |-> event.seq, id |-> event.id]]

ApplyAll(t, batch) ==
  LET after[i \in 0..Len(batch)] == IF i = 0 THEN t ELSE Applied(after[i - 1], batch[i])
  IN  after[Len(batch)]

-----------------------------------------------------------------------------
(* Replay                                                                  *)

Ids(batch) == [i \in DOMAIN batch |-> batch[i].id]

\* Mutant: keys are not scoped to their episode.
MutantKeyed(history, e, k) == Ids(Only(history, {x \in Entries(history) : x.key = k}))

Keyed(history, e, k) ==
  Ids(Only(history, {x \in Entries(history) : x.episode = e /\ x.key = k}))

RestoreIdempotency(t, history) ==
  [t EXCEPT !.answers = [e \in Episodes |-> [k \in Keys |-> Keyed(history, e, k)]]]

\* replay() from origin
FullReplay(history) ==
  LET t == ApplyAll(EmptyTables, history)
  IN  IF t = None THEN None ELSE RestoreIdempotency(t, history)

\* Mutant: the event at the snapshot's height is applied again.
MutantAbove(history, height) == Only(history, {x \in Entries(history) : x.seq >= height})

Above(history, height) == Only(history, {x \in Entries(history) : x.seq > height})

\* replay(from_snapshot=True): idempotency is only restored when every event is read.
AcceleratedReplay(history, snapshot) ==
  ApplyAll(snapshot.tables, Above(history, snapshot.height))

-----------------------------------------------------------------------------
(* The chain                                                               *)

\* The last event of an episode.
HeadOf(own) ==
  IF own = {} THEN NoHead
  ELSE LET last == CHOOSE x \in own : \A y \in own : y.seq =< x.seq
       IN  [seq |-> last.seq, id |-> last.id]

\* Mutant: an off-by-one at the height asked for.
MutantHeadsAt(history, height) ==
  [e \in Episodes |-> HeadOf({x \in Entries(history) : x.episode = e /\ x.seq < height})]

\* _verified_heads(up_to_height)
HeadsAt(history, height) ==
  [e \in Episodes |-> HeadOf({x \in Entries(history) : x.episode = e /\ x.seq =< height})]

MaxSeq(history) == Greatest({x.seq : x \in Entries(history)})

\* chain_state: its height is the greatest seq of a head.
ChainState(history) ==
  LET height == MaxSeq(history) IN [height |-> height, heads |-> HeadsAt(history, height)]
ChainHeight == MaxSeq(events)

\* Mutant: the next number is the number of events.
MutantNextSeq == Len(events) + 1

NextSeq == MaxSeq(events) + 1

-----------------------------------------------------------------------------
(* append_events                                                           *)

Draft(kind) == [kind |-> kind, task |-> 0]

\* The events built from the drafts: consecutive numbers, each linked to the
\* event before it in its episode.
Built(q) ==
  [i \in DOMAIN q.drafts |->
     [seq |-> NextSeq + i - 1, id |-> minted + i, episode |-> q.episode,
      prev |-> IF i = 1 THEN tables.heads[q.episode].id ELSE minted + i - 1,
      kind |-> q.drafts[i].kind, task |-> q.drafts[i].task, key |-> q.key, print |-> q.print]]

\* Mutant: a completion is appended whether or not its task is open.
MutantTaskOpen(q) == TRUE

\* require_open_verification_task_id
TaskOpen(q) == q.task # 0 => q.task \in tables.rows[q.episode].open

FirstAnswer(q) == tables.answers[q.episode][q.key]
Repeated(q) == q.key # None /\ FirstAnswer(q) # <<>>

\* The fingerprint of the first event returned, when both sides have one.
SameRequest(q) ==
  LET first == CHOOSE i \in DOMAIN events : events[i].id = FirstAnswer(q)[1]
  IN  events[first].print = None \/ q.print = None \/ events[first].print = q.print

Answer(q, ids) ==
  answered' = IF q.key = None THEN answered
              ELSE [answered EXCEPT ![q.episode][q.key] = @ \cup {ids}]

AppendFresh(q) ==
  LET batch == Built(q)
      after == ApplyAll(tables, batch)
  IN
  /\ TaskOpen(q) /\ ~Repeated(q)
  /\ minted < MaxEvents
  /\ events' = events \o batch
  /\ tables' = IF q.key = None THEN after
               ELSE [after EXCEPT !.answers[q.episode][q.key] = Ids(batch)]
  /\ minted' = minted + Len(batch)
  /\ Answer(q, Ids(batch))

\* A repeated request gets the first answer and appends nothing.
AnswerRepeated(q) ==
  /\ TaskOpen(q) /\ Repeated(q) /\ SameRequest(q)
  /\ Answer(q, FirstAnswer(q))
  /\ UNCHANGED log

\* The task is not open any more ([] is returned), or the key was used for another
\* request (StoreError, rolled back).  A handler that raises would roll back too;
\* that none does here is part of LedgerTypeOK.
AppendNothing(q) ==
  /\ ~TaskOpen(q) \/ (Repeated(q) /\ ~SameRequest(q))
  /\ UNCHANGED <<log, answered>>

-----------------------------------------------------------------------------
(* Callers: what they read before they append.                             *)

Idle == [at |-> "idle", request |-> None, height |-> 0]
Prepare(c, q) == calls' = [calls EXCEPT ![c] = [at |-> "ready", request |-> q, height |-> 0]]

\* Mutant: a finished call leaves its request behind.
MutantReturn(c) == calls' = [calls EXCEPT ![c].at = "idle"]

Return(c) == calls' = [calls EXCEPT ![c] = Idle]

Request(e, drafts, key, print, task) ==
  [episode |-> e, drafts |-> drafts, key |-> key, print |-> print, task |-> task]

\* create_episode, with an id nobody had before
AskCreate(c, e) ==
  /\ e \notin purged /\ tables.rows[e].state = "absent"
  /\ \A d \in Callers : calls[d].at = "ready" => calls[d].request.episode # e
  /\ Prepare(c, Request(e, <<Draft("EPISODE_CREATED")>>, None, None, 0))

\* ingest_evidence of an observation that has to be verified.  The fingerprint of
\* a request without a key is never read.
AskIngest(c, e, key, print) ==
  /\ tables.rows[e].state = "active"
  /\ Prepare(c, Request(e, <<Draft("EVIDENCE_INGESTED")>>, key, print, 0))

\* complete_verification with a result that counts for the source
AskComplete(c, e, task) ==
  /\ task \in tables.rows[e].open
  /\ Prepare(c, Request(e, <<[kind |-> "VERIFICATION_TASK_COMPLETED", task |-> task],
                             Draft("SOURCE_STATS_DELTA")>>, None, None, task))

\* finalize_episode
AskFinalize(c, e) ==
  /\ tables.rows[e].state = "active"
  /\ Prepare(c, Request(e, <<Draft("EPISODE_FINALIZED")>>, None, None, 0))

Ask(c) ==
  /\ calls[c].at = "idle"
  /\ \E e \in Episodes :
       \/ AskCreate(c, e) \/ AskFinalize(c, e)
       \/ AskIngest(c, e, None, None)
       \/ \E key \in Keys, print \in Prints : AskIngest(c, e, key, print)
       \/ \E task \in tables.rows[e].open : AskComplete(c, e, task)
  /\ UNCHANGED <<log, snapshots, anchors, purged, answered>>

\* build_record and publish: the chain may be anchored after every append.
PublishAnchor == anchors' = anchors \cup {ChainState(events')}

\* The transaction.  The answer may be lost on the way back; a caller that chose a
\* key then asks again.
Submit(c) ==
  LET q == calls[c].request IN
  /\ calls[c].at = "ready"
  /\ AppendFresh(q) \/ AnswerRepeated(q) \/ AppendNothing(q)
  /\ Return(c) \/ (q.key # None /\ UNCHANGED calls)
  /\ PublishAnchor
  /\ UNCHANGED <<snapshots, purged>>

-----------------------------------------------------------------------------
(* Snapshots                                                               *)

\* create_snapshot: verify_hash_chain and chain_state, before the transaction.
ReadHeight(c) ==
  /\ calls[c].at = "idle"
  /\ calls' = [calls EXCEPT ![c] = [at |-> "capture", request |-> None, height |-> ChainHeight]]
  /\ UNCHANGED <<log, snapshots, anchors, purged, answered>>

\* A snapshot at the same height is overwritten.
Kept(height) == {s \in snapshots : s.height # height}

Capture(c, version) ==
  LET height == calls[c].height IN
  /\ calls[c].at = "capture"
  /\ Cardinality(Kept(height)) < MaxSnapshots
  /\ snapshots' = Kept(height) \cup {[height |-> height, version |-> version, tables |-> tables]}
  /\ Return(c)
  /\ UNCHANGED <<log, anchors, purged, answered>>

\* prune_snapshots: the newest heights stay, usable or not.
PruneSnapshots(keep) ==
  /\ snapshots # {}
  /\ snapshots' = {s \in snapshots : Cardinality({r \in snapshots : r.height > s.height}) < keep}
  /\ UNCHANGED <<log, anchors, calls, purged, answered>>

\* load_newest_valid: replay and verify_snapshot ask for the fingerprint without a
\* package version.
Usable == {s \in snapshots : s.version = None}
Newest(s) == s \in Usable /\ \A r \in Usable : r.height =< s.height

-----------------------------------------------------------------------------
(* Anchors and purge                                                       *)

\* compare_against_anchors
Comparison(a) ==
  CASE a.height > ChainHeight -> "unreachable"
    [] a.height =< ChainHeight /\ HeadsAt(events, a.height) = a.heads -> "match"
    [] OTHER -> "mismatch"

\* Mutant: the idempotency table of the replacement is left empty.
MutantReplacement(history) == ApplyAll(EmptyTables, history)

\* The projections of the replacement database.
Replacement(history) == FullReplay(history)

\* purge_episode: offline, so no call is under way.  The preserved events keep
\* their numbers; snapshots stay behind in the database that is replaced.
PurgeEpisode(e) ==
  LET preserved == Only(events, {x \in Entries(events) : x.episode # e}) IN
  /\ \A c \in Callers : calls[c].at = "idle"
  /\ tables.rows[e].state # "absent"
  /\ events' = preserved
  /\ tables' = Replacement(preserved)
  /\ snapshots' = {}
  /\ purged' = purged \cup {e}
  /\ UNCHANGED <<minted, anchors, calls, answered>>

\* A caller stops before its transaction, or verify_hash_chain raises because an
\* append committed between its two reads.
Stop(c) ==
  /\ calls[c].at # "idle"
  /\ Return(c)
  /\ UNCHANGED <<log, snapshots, anchors, purged, answered>>

Init ==
  /\ events = <<>> /\ tables = EmptyTables /\ minted = 0
  /\ snapshots = {} /\ anchors = {} /\ purged = {}
  /\ calls = [c \in Callers |-> Idle]
  /\ answered = [e \in Episodes |-> [k \in Keys |-> {}]]

Next ==
  \/ \E c \in Callers : Ask(c) \/ Submit(c) \/ ReadHeight(c) \/ Stop(c)
  \/ \E c \in Callers, version \in Versions : Capture(c, version)
  \/ \E keep \in 0..MaxSnapshots : PruneSnapshots(keep)
  \/ \E e \in Episodes : PurgeEpisode(e)

Spec == Init /\ [][Next]_vars

-----------------------------------------------------------------------------
(* What must hold.                                                         *)

IdSets == SUBSET (1..minted)
Row == [state : {"absent", "active", "finalized"}, samples : Nat,
        open : IdSets, completed : IdSets]

TablesOK(t) ==
  /\ t # None
  /\ \A e \in Episodes : t.rows[e] \in Row
  /\ t.heads \in [Episodes -> [seq : Nat, id : 0..minted]]
  /\ t.answers \in [Episodes -> [Keys -> Seq(1..minted)]]

\* Tables keep their shape, in the database and in every snapshot, and there is one
\* snapshot per height.
LedgerTypeOK ==
  /\ TablesOK(tables)
  /\ \A s \in snapshots : TablesOK(s.tables)
  /\ \A s, r \in snapshots : s.height = r.height => s = r
  /\ \A c \in Callers : /\ calls[c].at \in {"idle", "ready", "capture"}
                        /\ calls[c].at = "ready" <=> calls[c].request # None

\* The log is chained and numbered: numbers grow, also after a purge has left
\* gaps, every event links to the one before it in its episode, and the head
\* table names the last event of each.  verify_hash_chain raises otherwise.
ChainIntact ==
  /\ \A i, j \in DOMAIN events : i < j => events[i].seq < events[j].seq
  /\ \A i \in DOMAIN events :
       events[i].prev = HeadsAt(events, events[i].seq - 1)[events[i].episode].id
  /\ tables.heads = HeadsAt(events, ChainHeight)

\* Replaying the log from origin gives back every projection, the idempotency keys
\* included, and raises on no event: replay() never reports a mismatch.
ReplayReproducesTables == FullReplay(events) = tables

\* Whatever is retried, raced or purged meanwhile, all answers ever given under one
\* key of an episode are the ids of one batch, and that batch is in the log once.
RetriesGetFirstAnswer ==
  \A e \in Episodes, k \in Keys :
    /\ Cardinality(answered[e][k]) =< 1
    /\ e \notin purged => answered[e][k] = {Keyed(events, e, k)} \ {<<>>}

\* A verification outcome counts once for its source: callers that race to complete
\* one task add one sample, because the append rechecks that the task is open.
OutcomeCountedOnce ==
  \A e \in Episodes : tables.rows[e].samples = Cardinality(tables.rows[e].completed)

\* The height up to which a snapshot's rows contain the log.
ContentHeight(s) == Greatest({s.tables.heads[e].seq : e \in Episodes})

\* A snapshot taken while nobody appended, replayed together with the events above
\* its height, gives back every projection but the idempotency keys.
QuietSnapshotReplays ==
  \A s \in snapshots :
    s.height = ContentHeight(s)
    => LET t == AcceleratedReplay(events, s)
       IN  t # None /\ [t EXCEPT !.answers = tables.answers] = tables

\* An anchor is compared as a match exactly when none of the episodes it covers has
\* been purged: neither later events, nor numbers used again after a purge, nor the
\* purge of an episode that began above its height disturb it.
AnchorVerdicts ==
  \A a \in anchors : Comparison(a) = "match" <=> \A e \in purged : a.heads[e] = NoHead

\* create_snapshot captures the projections at the height it writes down.
SnapshotAtItsHeight == \A s \in snapshots : s.height = ContentHeight(s)

\* verify_snapshot, for the newest usable snapshot: both replays give the same rows.
VerifySnapshot(s) == AcceleratedReplay(events, s) = FullReplay(events)

\* Correctness does not depend on a usable snapshot: what verify_snapshot compares is
\* equal, and equal to the tables.
SnapshotNeverMatters ==
  \A s \in snapshots : Newest(s) => VerifySnapshot(s) /\ FullReplay(events) = tables
=============================================================================
