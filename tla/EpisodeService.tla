---------------------------- MODULE EpisodeService ----------------------------
(***************************************************************************)
(* The belief ledger of one episode (runtime/episode_service.py): evidence *)
(* is ingested, beliefs are admitted by the trust matrix, inferred from    *)
(* each other, contradicted, verified, audited, relabelled and rendered.   *)
(*                                                                         *)
(* An operation is a script of steps (read, append, relabel, ...) run by   *)
(* one of several concurrent callers: callback threads and the maintenance *)
(* thread of one process.  Only relabelling and completing a verification  *)
(* hold the episode's lock; the other reads may be stale when the append   *)
(* that rests on them commits.  An append that violates a constraint of    *)
(* the tables raises and ends the operation.                               *)
(*                                                                         *)
(* Six short operations check and append in one step: AddUndercut,         *)
(* AddRebut, RequestVerification, RecordVerdict, AcknowledgeRetraction and *)
(* BeginTurn.  A write in between could only make their check outdated in  *)
(* ways that do no harm: an edge is recorded twice, a second request for a *)
(* task is refused by the table, a notice is acknowledged again.  Whoever  *)
(* adds to the graph relabels after its append.                            *)
(***************************************************************************)
EXTENDS Relabel, Pramana, FiniteSetsExt, SequencesExt

CONSTANTS
  Callers,      \* threads of the host process
  Basic,        \* beliefs that evidence states: claims and observations
  Observations, \* the basic beliefs that a tool observed, or found absent
  Derived,      \* beliefs a model infers, numbers like all beliefs
  Verdicts,     \* beliefs that record a failed or passed chain audit
  Attr,         \* the record that describes each belief (see Pramana)
  Perishable,   \* the basic beliefs with a lifetime
  Stakes,       \* numbered from the lowest
  Ceiling,      \* engine.max_relabel_iterations
  NoticeTtl,    \* context.retraction_ttl_turns
  MaxBeliefs,   \* context.max_beliefs
  MaxOps,       \* bound: operations started
  Messages,     \* bound: the sets of claims a message may contain
  Outputs,      \* bound: the sets of claims the output of a tool may contain
  Queries,      \* bound: the sets of words a request may consist of
  Requestable,  \* bound: the verification methods that are asked for
  Prelude,      \* bound: so many operations run alone and to their end, before two
                \* run at once or the process stops
  MaxTurn,      \* bound: turns begun
  None

Beliefs == Basic \cup Derived \cup Verdicts
ASSUME EpisodeAssumption ==
  /\ Beliefs \subseteq Nat /\ IsFiniteSet(Beliefs)
  /\ Basic \cap Derived = {} /\ Verdicts \cap (Basic \cup Derived) = {}
  /\ Observations \cup Perishable \subseteq Basic
  /\ Stakes \subseteq Nat /\ Stakes # {}
  /\ Ceiling \in Nat \ {0} /\ NoticeTtl \in Nat /\ MaxOps \in Nat /\ MaxTurn \in Nat
  /\ UNION (Messages \cup Outputs) \subseteq Basic
  /\ Requestable \subseteq Methods /\ Prelude \in Nat /\ MaxBeliefs \in Nat /\ MaxOps < Radix
  /\ \A b \in Beliefs : Profile(Attr[b]) \in DOMAIN Matrix
                         /\ Stakes \subseteq DOMAIN Matrix[Profile(Attr[b])]

VARIABLES
  db,      \* the projections of the episode
  lock,    \* the caller that holds the episode's lock, or None
  call,    \* the script each caller still has to run, and what it has read
  ops,     \* operations started; also the time of the evidence they bring
  raised,  \* an operation has ended early since the last relabelling began
  clean    \* history: beliefs rendered while in, with no relabelling under way
           \* that was about to take them out

vars == <<db, lock, call, ops, raised, clean>>

Tasks == [belief : Beliefs, method : Methods, k : 1..20]
KeyOf(t) == <<t.belief, t.method>>
Keys(tasks) == {KeyOf(t) : t \in tasks}
Distinct(tasks) == \A t, u \in tasks : KeyOf(t) = KeyOf(u) => t = u

\* What a relabelling, and the completion of a task, have read when they write.
LabelDrafts ==
  [labels : UNION {[some -> Statuses] : some \in SUBSET Beliefs},
   active : SUBSET ({"undercut", "rebut"} \X (Beliefs \X Beliefs)),
   announced : SUBSET Beliefs, defeated : SUBSET Beliefs, opened : SUBSET SUBSET Beliefs,
   settled : SUBSET SUBSET Beliefs, tasks : SUBSET Tasks, turn : Nat, samsaya : BOOLEAN]

CompletionDrafts ==
  [task : Tasks, admission : SUBSET Statuses, confirmed : BOOLEAN, defeated : BOOLEAN]

ASSUME NoneAssumption ==
  None \notin Callers /\ None \notin LabelDrafts /\ None \notin CompletionDrafts

InitialTables(stakes) ==
  [stakes |-> stakes, turn |-> 0, known |-> {}, stale |-> {},
   status |-> [b \in Beliefs |-> "out"], admission |-> [b \in Beliefs |-> "out"],
   floor |-> [b \in Beliefs |-> stakes], observed |-> [b \in Beliefs |-> 0],
   premises |-> [b \in Beliefs |-> {}], audited |-> {},
   undercuts |-> {}, rebuts |-> {}, active |-> {}, classified |-> {}, samsaya |-> FALSE,
   open |-> {}, done |-> {}, conflicts |-> {}, resolved |-> {},
   rendered |-> {}, noticed |-> {}, notices |-> {}, born |-> [b \in Beliefs |-> 0],
   confirmed |-> [b \in Beliefs |-> 0], defeated |-> [b \in Beliefs |-> 0],
   unpromoted |-> {}]

-----------------------------------------------------------------------------
(* Scripts.                                                                *)

Idle == [script |-> <<>>, read |-> None]
IsIdle(c) == call[c].script = <<>>
Doing(c, step) == ~IsIdle(c) /\ Head(call[c].script)[1] = step
Rest(c) == Tail(call[c].script)
Goto(c, script, read) == call' = [call EXCEPT ![c] = [script |-> script, read |-> read]]

Start(c, script, read) ==
  /\ IsIdle(c) /\ ops < MaxOps
  /\ ops' = ops + 1
  /\ Goto(c, script, read)

\* Mutant: what a failed operation has read survives it.
MutantAbort(c) == Goto(c, <<>>, call[c].read) /\ raised' = TRUE

Abort(c) == Goto(c, <<>>, None) /\ raised' = TRUE

\* store.append_events: all drafts or, when a table refuses a row, an exception.
AppendEvents(c, accepted, tables, script) ==
  IF accepted
  THEN db' = tables /\ Goto(c, script, None) /\ UNCHANGED raised
  ELSE UNCHANGED db /\ Abort(c)

Relabelling == <<"relabel">>

\* Mutant: new beliefs are relabelled when the next operation does.
MutantAfterNewBeliefs == <<<<"detect">>, <<"passive">>>>

\* _after_new_beliefs
AfterNewBeliefs == <<<<"detect">>, Relabelling, <<"passive">>>>

-----------------------------------------------------------------------------
(* Admission: determine_admission and BeliefAdmissionService.admit.        *)

Cells == [b \in Beliefs |-> [stakes \in Stakes |-> Trust(Attr[b], stakes)]]
Cell(b, stakes) == Cells[b][stakes]

\* The stakes of the episode when a belief was admitted stay a floor for it.
Decision(d, b, stakes) == Cell(b, Max({stakes, d.floor[b]}))

\* _verification_drafts
TaskFor(b, decision) ==
  IF decision.method # "none" /\ decision.status \in {"pending", "quarantined"}
  THEN {[belief |-> b, method |-> decision.method, k |-> Max({1, decision.k})]} ELSE {}

\* UNIQUE(episode_id, belief_id, method, state), for new open tasks.
Insertable(tasks, open) ==
  /\ Keys(tasks) \cap Keys(open) = {}
  /\ Distinct(tasks)

SameText(b1, b2) == SameContent(Attr[b1], Attr[b2])

\* A claim of a root that has stated the same content before refreshes it.
Twin(d, b) == {e \in d.known : SameText(e, b) /\ Attr[e].root = Attr[b].root}

\* What passes validate_candidate and validate_belief; the other claims are rejected.
Acceptable(claims) == {b \in claims : Attr[b].pramana = "shabda" /\ Valid(Attr[b], TRUE)}

\* _candidate_drafts of the claims of one evidence: what is read, and decided on
\* it, before the append.
ClaimDrafts(d, claims) ==
  LET fresh == {b \in Acceptable(claims) : Twin(d, b) = {}}
      again == {Min(Twin(d, b)) : b \in Acceptable(claims) \ fresh}
      changed == {b \in again : Decision(d, b, d.stakes).status # d.admission[b]}
      decision == [b \in fresh \cup changed |->
                     IF b \in fresh THEN Cell(b, d.stakes) ELSE Decision(d, b, d.stakes)]
  IN  [fresh |-> fresh, again |-> again, decision |-> decision, floor |-> d.stakes,
       tasks |-> UNION {TaskFor(b, decision[b]) : b \in fresh \cup changed},
       premises |-> {}, observed |-> ops, found |-> {}, promoted |-> {}]

\* BELIEF_ADMITTED
BeliefsAdmitted(d, r) ==
  [d EXCEPT
     !.known = @ \cup r.fresh,
     !.stale = @ \ r.fresh,
     !.status = [b \in Beliefs |-> IF b \in r.fresh THEN r.decision[b].status ELSE @[b]],
     !.admission = [b \in Beliefs |-> IF b \in r.fresh THEN r.decision[b].status ELSE @[b]],
     !.floor = [b \in Beliefs |-> IF b \in r.fresh THEN r.floor ELSE @[b]],
     !.observed = [b \in Beliefs |-> IF b \in r.fresh THEN r.observed ELSE @[b]],
     !.premises = [b \in Beliefs |-> IF b \in r.fresh THEN r.premises ELSE @[b]]]

\* BELIEF_OBSERVATION_REFRESHED, and BELIEF_ADMISSION_CHANGED when it is decided anew.
Refreshed(d, r) ==
  LET changed == DOMAIN r.decision \ r.fresh IN
  [d EXCEPT
     !.stale = @ \ r.again,
     !.observed = [b \in Beliefs |-> IF b \in r.again THEN r.observed ELSE @[b]],
     !.admission = [b \in Beliefs |-> IF b \in changed THEN r.decision[b].status ELSE @[b]]]

\* VERIFICATION_TASK_CREATED
TasksCreated(d, tasks) == [d EXCEPT !.open = @ \cup tasks]

\* UNPROMOTED_EVIDENCE_ADDED, and _RESOLVED or _FAILED.
EvidenceKept(d, r) == [d EXCEPT !.unpromoted = (@ \cup r.found) \ r.promoted]

\* The append of an admission.
Admitted(d, r) == EvidenceKept(TasksCreated(Refreshed(BeliefsAdmitted(d, r), r), r.tasks), r)

\* Beliefs are created under new identifiers.
Taken == db.known \cup UNION {call[c].read.fresh : c \in {c \in Callers : Doing(c, "admit")}}

Admit(c) ==
  /\ Doing(c, "admit")
  /\ LET r == call[c].read IN
       AppendEvents(c, Insertable(r.tasks, db.open), Admitted(db, r), Rest(c))
  /\ UNCHANGED <<lock, ops, clean>>

Admission == <<<<"admit">>>> \o AfterNewBeliefs

\* ingest_user_message
IngestUserMessage(c, claims) ==
  LET r == ClaimDrafts(db, claims) IN
  /\ r.fresh \cap Taken = {}
  /\ Start(c, Admission, r)
  /\ UNCHANGED <<db, lock, raised, clean>>

Absences(seen) == {b \in seen : Attr[b].pramana = "anupalabdhi"}

\* _absence_drafts: a search that failed or proves nothing leaves no belief.
AbsencesKept(seen) == {b \in Absences(seen) : Valid(Attr[b], TRUE)}

\* _tool_wrapper_drafts and _typed_observation_drafts: an invalid observation is kept
\* as out.
ObservationDrafts(d, seen) ==
  LET kept == AbsencesKept(seen) \cup (seen \ Absences(seen))
      decision == [b \in kept |->
        IF ValidObservation(Attr[b]) \/ b \in AbsencesKept(seen)
        THEN Cell(b, d.stakes) ELSE [Cell(b, d.stakes) EXCEPT !.status = "out"]]
  IN  [fresh |-> kept, again |-> {}, decision |-> decision, floor |-> d.stakes,
       tasks |-> UNION {TaskFor(b, Cell(b, d.stakes)) : b \in kept},
       premises |-> {}, observed |-> ops, found |-> {}, promoted |-> {}]

\* ingest_tool_result: what the tool observed is admitted at once, observations
\* are not deduplicated; what its output claims is kept for a promotion.
IngestToolResult(c, seen, claims) ==
  LET r == ObservationDrafts(db, seen) IN
  /\ r.fresh \cap Taken = {}
  /\ Start(c, Admission, [r EXCEPT !.found = {claims} \ {{}}])
  /\ UNCHANGED <<db, lock, raised, clean>>

\* _extract_claim_candidates: a model, or the deterministic rules, find some of the
\* claims of an evidence, or none: the evidence is then marked as failed.
Extracted(evidence) == SUBSET evidence

\* promote_relevant, one evidence per request.
Promote(c) ==
  /\ Doing(c, "promote")
  /\ IF db.unpromoted = {} THEN Goto(c, Rest(c), None)
     ELSE \E evidence \in db.unpromoted : \E claims \in Extracted(evidence) :
            LET r == ClaimDrafts(db, claims) IN
            /\ r.fresh \cap Taken = {}
            /\ Goto(c, Admission \o Rest(c), [r EXCEPT !.promoted = {evidence}])
  /\ UNCHANGED <<db, lock, ops, raised, clean>>

-----------------------------------------------------------------------------
(* Inference.                                                              *)

\* record_inference begins with a relabelling.
RecordInference(c) ==
  /\ Start(c, <<Relabelling, <<"premises">>>>, None)
  /\ UNCHANGED <<db, lock, raised, clean>>

\* The premises must be in when they are read, and the inference valid; the rest
\* happens later.
ReadPremises(c) ==
  LET usable == {b \in db.known \ Verdicts : db.status[b] = "in"}
      free == {b \in Derived \ Taken : Valid(Attr[b], TRUE)}
  IN
  /\ Doing(c, "premises")
  /\ \/ \E b \in free, p \in usable :
          Goto(c, Admission,
            [fresh |-> {b}, again |-> {}, decision |-> [x \in {b} |-> Cell(x, db.stakes)],
             floor |-> db.stakes, tasks |-> TaskFor(b, Cell(b, db.stakes)),
             premises |-> {p}, observed |-> ops, found |-> {}, promoted |-> {}])
     \/ (usable = {} \/ free = {}) /\ Goto(c, <<>>, None)
  /\ UNCHANGED <<db, lock, ops, raised, clean>>

-----------------------------------------------------------------------------
(* Contradictions and defeats.                                             *)

BothWays(pair) == {<<b1, b2>> : b1 \in pair, b2 \in pair} \ {<<b, b>> : b \in pair}

Pairs == {{b1, b2} : b1 \in Beliefs, b2 \in Beliefs} \ {{b} : b \in Beliefs}

\* The fixed rules contradict these pairs,
Clashing ==
  {pair \in Pairs : \A b1, b2 \in pair : b1 # b2 =>
     Shared(Attr[b1], Attr[b2]) >= 1 /\ Classified(Attr[b1], Attr[b2]) = "rebut"}

\* and are undecided on these; beliefs about the run itself are not put to a model.
Related ==
  {pair \in Pairs : \A b1, b2 \in pair : b1 # b2 =>
     /\ Shared(Attr[b1], Attr[b2]) >= 2 /\ Classified(Attr[b1], Attr[b2]) = "uncertain"
     /\ Attr[b1].domain \notin {"runtime_state", "monitoring"}}

\* The edges that the fixed rules still have to record, and the pairs that a model has
\* not been asked about.
Found(d) ==
  UNION {BothWays(pair) : pair \in {pair \in Clashing : pair \subseteq d.known}} \ d.rebuts
Undecided(d) == {pair \in Related : pair \subseteq d.known} \ d.classified

\* _detect_deterministic_rebuts reads the beliefs and the edges; in a running event
\* loop no model is asked, and without anything to record nothing is appended.
DetectRead(c) ==
  /\ Doing(c, "detect") /\ call[c].read = None
  /\ \E asked \in {{}} \cup {{pair} : pair \in Undecided(db)} :
       IF Found(db) = {} /\ asked = {}
       THEN Goto(c, Rest(c), None)
       ELSE Goto(c, call[c].script,
              [edges |-> Found(db), asked |-> asked, classified |-> {}, tasks |-> {}])
  /\ UNCHANGED <<db, lock, ops, raised, clean>>

\* _semantic_contradiction_drafts: the pair is classified, also when the model is
\* unavailable; an uncertain pair is left to a verification, unless one is open.
Adjudicated(r, open, pair, verdict) ==
  LET task == [belief |-> Max(pair), method |-> "cross_source", k |-> 1] IN
  [edges |-> r.edges \cup (IF verdict = "rebut" THEN BothWays(pair) ELSE {}),
   asked |-> {}, classified |-> {pair},
   tasks |-> IF verdict = "uncertain" /\ KeyOf(task) \notin Keys(open) THEN {task} ELSE {}]

\* The model has answered; the open tasks are read, the rest of what was read is as
\* old as the question.
Adjudicate(c) ==
  /\ Doing(c, "detect") /\ call[c].read # None
  /\ \E pair \in call[c].read.asked,
         verdict \in {"rebut", "uncertain", "compatible", "unavailable"} :
       Goto(c, call[c].script, Adjudicated(call[c].read, db.open, pair, verdict))
  /\ UNCHANGED <<db, lock, ops, raised, clean>>

\* DEFEAT_ADDED, COMPONENT_VERDICT_RECORDED and VERIFICATION_TASK_CREATED
Contradicted(d, r) ==
  [d EXCEPT !.rebuts = @ \cup r.edges, !.classified = @ \cup r.classified, !.open = @ \cup r.tasks]

DetectWrite(c) ==
  /\ Doing(c, "detect") /\ call[c].read # None /\ call[c].read.asked = {}
  /\ LET r == call[c].read IN
       AppendEvents(c, Insertable(r.tasks, db.open), Contradicted(db, r), Rest(c))
  /\ UNCHANGED <<lock, ops, clean>>

\* add_defeat: an undercut of a justification, or a rebut with its reciprocal.
AddUndercut(c, attacker, target) ==
  /\ attacker \in db.known /\ target \in db.known \ Basic
  /\ <<attacker, target>> \notin db.undercuts
  /\ Start(c, <<Relabelling>>, None)
  /\ db' = [db EXCEPT !.undercuts = @ \cup {<<attacker, target>>}]
  /\ UNCHANGED <<lock, raised, clean>>

AddRebut(c, pair) ==
  /\ pair \subseteq db.known
  /\ ~(BothWays(pair) \subseteq db.rebuts)
  /\ Start(c, <<Relabelling>>, None)
  /\ db' = [db EXCEPT !.rebuts = @ \cup BothWays(pair)]
  /\ UNCHANGED <<lock, raised, clean>>

-----------------------------------------------------------------------------
(* Relabelling.                                                            *)

Ranks == [b \in Beliefs |-> [audited \in BOOLEAN |-> Rank(Attr[b], audited)]]

Graph(d) ==
  [beliefs |-> d.known, admission |-> d.admission, grounded |-> d.known \cap Basic,
   premises |-> d.premises, undercuts |-> d.undercuts, rebuts |-> d.rebuts,
   priority |-> [b \in Beliefs |-> Priority(Ranks[b][(b \in d.audited)], d.observed[b])],
   stale |-> d.stale]

Falling(d, labels) == {b \in d.known : d.status[b] = "in" /\ labels[b] # "in"}

\* Mutant: a rendered belief that becomes doubtful is not announced.
MutantToAnnounce(d, labels) ==
  {b \in Falling(d, labels) : labels[b] = "out" /\ b \in d.rendered \ d.notices}

\* _belief_transition_drafts, the notices.
ToAnnounce(d, labels) == Falling(d, labels) \cap (d.rendered \ d.notices)

\* Mutant: a conflict stays open when its tie is broken.
MutantSettledConflicts(d, ties) == {}

SettledConflicts(d, ties) == d.conflicts \ ties

\* source_outcome_sampled
Uncounted(outcomes, b) == outcomes[b] = 0

\* relabel, up to the append: everything it has read.
RelabelDrafts(d) ==
  LET g == Graph(d)
      outcome == Relabelled(g, [b \in d.known |-> d.status[b]], Ceiling)
      opened == outcome.ties \ d.conflicts
      wanted == {[belief |-> Min(pair), method |-> "cross_source", k |-> 1] : pair \in opened}
  IN  [labels |-> [b \in {b \in d.known : outcome.labels[b] # d.status[b]} |-> outcome.labels[b]],
       active |-> ActiveEdges(g, outcome.labels),
       announced |-> ToAnnounce(d, outcome.labels),
       defeated |-> {b \in Falling(d, outcome.labels) :
                       outcome.labels[b] = "out" /\ Uncounted(d.defeated, b)},
       opened |-> opened, settled |-> SettledConflicts(d, outcome.ties),
       tasks |-> {t \in wanted : KeyOf(t) \notin Keys(d.open)},
       turn |-> d.turn, samsaya |-> outcome.oscillation]

\* BELIEF_STATUS_CHANGED, and the statistics of the source of what was defeated.
StatusesChanged(d, r) ==
  [d EXCEPT
     !.status = [b \in Beliefs |-> IF b \in DOMAIN r.labels THEN r.labels[b] ELSE @[b]],
     !.defeated = [b \in Beliefs |-> IF b \in r.defeated THEN @[b] + 1 ELSE @[b]]]

\* RETRACTION_CREATED
Announced(d, r) ==
  [d EXCEPT
     !.notices = @ \cup r.announced, !.noticed = @ \cup r.announced,
     !.born = [b \in Beliefs |-> IF b \in r.announced THEN r.turn ELSE @[b]]]

\* CONFLICT_OPENED with its task, CONFLICT_RESOLVED, and the episode's samsaya.
ConflictsChanged(d, r) ==
  [d EXCEPT
     !.active = r.active, !.samsaya = r.samsaya,
     !.conflicts = (@ \cup r.opened) \ r.settled, !.resolved = @ \cup r.settled]

WithLabels(d, r) ==
  TasksCreated(ConflictsChanged(Announced(StatusesChanged(d, r), r), r), r.tasks)

\* A pair can be resolved once: UNIQUE(episode, left, right, state).
LabelsAccepted(d, r) == Insertable(r.tasks, d.open) /\ r.settled \cap d.resolved = {}

\* Mutant: relabelling and completing do not exclude each other.
MutantFree(c) == c \in Callers

Free(c) == lock = None

RelabelRead(c) ==
  /\ Doing(c, "relabel") /\ call[c].read = None
  /\ IF db.known = {} THEN Goto(c, Rest(c), None) /\ UNCHANGED lock
     ELSE Free(c) /\ lock' = c /\ Goto(c, call[c].script, RelabelDrafts(db))
  /\ raised' = FALSE
  /\ UNCHANGED <<db, ops, clean>>

RelabelWrite(c) ==
  /\ Doing(c, "relabel") /\ call[c].read # None
  /\ AppendEvents(c, LabelsAccepted(db, call[c].read), WithLabels(db, call[c].read), Rest(c))
  /\ lock' = None
  /\ UNCHANGED <<ops, clean>>

-----------------------------------------------------------------------------
(* Verification.                                                           *)

\* _complete_passive_tasks
Matching(d, b) == {x \in d.known \ {b} : SameText(x, b)}

Confirmable(d, t) ==
  CASE t.method = "cross_source" ->
         Cardinality({Attr[x].root : x \in {x \in Matching(d, t.belief) :
           d.status[x] \notin {"out", "quarantined"} /\ Attr[x].root # Attr[t.belief].root}}) >= t.k
    [] t.method = "tool_recheck" ->
         \E x \in Matching(d, t.belief) : Attr[x].pramana = "pratyaksha" /\ d.status[x] = "in"
    [] t.method \in {"chain_audit", "human"} -> FALSE

Completion(t, result) == <<<<"complete", t, result>>, Relabelling>>

\* The completions of some tasks, each with its relabelling.
Sweep(todo) ==
  [i \in 1..2 * Len(todo) |->
     IF i % 2 = 1 THEN Completion(todo[(i + 1) \div 2], "confirmed")[1] ELSE Relabelling]

\* The tasks are chosen on one reading and completed one by one.
Passive(c) ==
  LET todo == SetToSeq({t \in db.open : Confirmable(db, t)}) IN
  /\ Doing(c, "passive")
  /\ Goto(c, Sweep(todo) \o (IF todo = <<>> THEN <<>> ELSE <<Relabelling>>) \o Rest(c), None)
  /\ UNCHANGED <<db, lock, ops, raised, clean>>

\* request_verification: the open task of that method, or a new one.
RequestVerification(c, b, method) ==
  LET t == [belief |-> b, method |-> method, k |-> 1] IN
  /\ b \in db.known /\ KeyOf(t) \notin Keys(db.open)
  /\ Start(c, <<>>, None)
  /\ db' = TasksCreated(db, {t})
  /\ UNCHANGED <<lock, raised, clean>>

CompleteVerification(c, t, result) ==
  /\ t \in db.open
  /\ Start(c, Completion(t, result), None)
  /\ UNCHANGED <<db, lock, raised, clean>>

\* complete_verification, up to the append; a task that is no longer open ends
\* it, without a relabelling.
CompleteRead(c) ==
  /\ Doing(c, "complete") /\ call[c].read = None
  /\ LET step == Head(call[c].script)
         t == step[2]
         to == IF step[3] = "confirmed" THEN "in" ELSE "out"
         decided == step[3] # "inconclusive"
     IN  IF t \notin db.open THEN Goto(c, Tail(Rest(c)), None) /\ UNCHANGED lock
         ELSE /\ Free(c) /\ lock' = c
              /\ Goto(c, call[c].script,
                   [task |-> t,
                    admission |-> IF decided /\ db.admission[t.belief] # to THEN {to} ELSE {},
                    confirmed |-> step[3] = "confirmed" /\ Uncounted(db.confirmed, t.belief),
                    defeated |-> step[3] = "disconfirmed" /\ Uncounted(db.defeated, t.belief)])
  /\ UNCHANGED <<db, ops, raised, clean>>

Completed(d, r) ==
  LET b == r.task.belief IN
  [d EXCEPT
     !.open = @ \ {r.task}, !.done = @ \cup {KeyOf(r.task)},
     !.admission[b] = IF r.admission = {} THEN @ ELSE CHOOSE s \in r.admission : TRUE,
     !.confirmed[b] = IF r.confirmed THEN @ + 1 ELSE @,
     !.defeated[b] = IF r.defeated THEN @ + 1 ELSE @]

\* The transaction checks again that the task is open; its completed row may
\* collide with that of an earlier task.
CompleteWrite(c) ==
  /\ Doing(c, "complete") /\ call[c].read # None
  /\ LET r == call[c].read IN
       IF r.task \notin db.open
       THEN Goto(c, Tail(Rest(c)), None) /\ UNCHANGED <<db, raised>>
       ELSE AppendEvents(c, KeyOf(r.task) \notin db.done, Completed(db, r), Rest(c))
  /\ lock' = None
  /\ UNCHANGED <<ops, clean>>

-----------------------------------------------------------------------------
(* Chain audits.                                                           *)

\* _run_one_relevant_chain_audit takes one of these.
DueAudits == {t \in db.open : t.method = "chain_audit"}

\* run_chain_audit: a belief whose premises fell is disconfirmed unheard;
\* otherwise a model judges the warrant, or fails to.
Audit(c) ==
  /\ Doing(c, "audit")
  /\ IF DueAudits = {} THEN Goto(c, Rest(c), None)
     ELSE \E t \in DueAudits :
       LET premises == db.premises[t.belief] IN
       IF premises # {} /\ \A p \in premises : db.status[p] = "in"
       THEN \/ Goto(c, Rest(c), None)
            \/ \E verdict \in {"confirmed", "disconfirmed"} :
                 Goto(c, <<<<"judged", t, verdict>>>> \o Completion(t, verdict) \o Rest(c), None)
       ELSE Goto(c, Completion(t, "disconfirmed") \o Rest(c), None)
  /\ UNCHANGED <<db, lock, ops, raised, clean>>

\* _component_verdict_drafts: a belief derived from the premises that are still in.
Judged(d, v, premises) ==
  LET decision == Cell(v, d.stakes) IN
  [TasksCreated(d, TaskFor(v, decision)) EXCEPT
     !.known = @ \cup {v}, !.status[v] = decision.status, !.admission[v] = decision.status,
     !.floor[v] = d.stakes, !.observed[v] = ops, !.premises[v] = premises]

\* The verdict is recorded with the audit; a failed audit undercuts the justification
\* through it.
RecordVerdict(c) ==
  LET step == Head(call[c].script)
      b == step[2].belief
      standing == {p \in db.premises[b] : db.status[p] = "in"}
      audited == [db EXCEPT !.audited = IF step[3] = "confirmed" THEN @ \cup {b} ELSE @ \ {b}]
      free == IF standing = {} THEN {} ELSE Verdicts \ db.known
  IN
  /\ Doing(c, "judged")
  /\ IF free = {} THEN db' = audited
     ELSE LET v == Min(free) IN
          db' = [Judged(audited, v, standing) EXCEPT
                   !.undercuts = @ \cup (IF step[3] = "disconfirmed" THEN {<<v, b>>} ELSE {})]
  /\ Goto(c, Rest(c), None)
  /\ UNCHANGED <<lock, ops, raised, clean>>

-----------------------------------------------------------------------------
(* Stakes.                                                                 *)

\* set_stakes, up to the append: every belief is decided again, and its open
\* tasks are kept when they still are what the decision asks for.
StakesDrafts(d, stakes) ==
  LET decision == [b \in d.known |-> Decision(d, b, stakes)]
      needed == UNION {TaskFor(b, decision[b]) : b \in d.known}
      kept == {t \in d.open : \E n \in needed : KeyOf(n) = KeyOf(t) /\ t.k >= n.k}
  IN  [stakes |-> stakes,
       admission |-> [b \in {b \in d.known : decision[b].status # d.admission[b]} |->
                        decision[b].status],
       superseded |-> d.open \ kept,
       tasks |-> {n \in needed : KeyOf(n) \notin Keys(kept)}]

\* Lowering is for the user alone; the caller is the user or the model.
SetStakes(c, stakes) ==
  /\ stakes # db.stakes
  /\ Start(c, <<<<"stakes">>, Relabelling>>, StakesDrafts(db, stakes))
  /\ UNCHANGED <<db, lock, raised, clean>>

ChangeStakes(c) ==
  LET r == call[c].read
      gone == r.superseded \cap db.open
  IN
  /\ Doing(c, "stakes")
  /\ AppendEvents(c, Keys(gone) \cap db.done = {} /\ Insertable(r.tasks, db.open \ gone),
       [db EXCEPT
          !.stakes = r.stakes,
          !.admission = [b \in Beliefs |-> IF b \in DOMAIN r.admission THEN r.admission[b] ELSE @[b]],
          !.open = (@ \ gone) \cup r.tasks, !.done = @ \cup Keys(gone)],
       Rest(c))
  /\ UNCHANGED <<lock, ops, clean>>

-----------------------------------------------------------------------------
(* Context and retraction notices.                                         *)

\* compile_context; inside a running event loop the promotion and the audit are
\* left to the maintenance thread.
CompileContext(c, deferred) ==
  /\ Start(c, (IF deferred THEN <<>> ELSE <<<<"promote">>, <<"audit">>>>)
               \o <<Relabelling, <<"select">>, <<"render">>>>, None)
  /\ UNCHANGED <<db, lock, raised, clean>>

\* select_beliefs: what stands, and what is in doubt as far as the request or an
\* open conflict is about it, with the premises of all that.
Presentable(d, query) ==
  LET relevant == {b \in d.known : Attr[b].words \cap query # {}} \cup UNION d.conflicts
      live == {b \in d.known : d.status[b] \in {"in", "pending"}}
      chosen == {b \in live : \/ b \in relevant
                              \/ d.status[b] = "in" /\ Attr[b].domain # "monitoring"}
  IN  chosen \cup (live \cap UNION {d.premises[b] : b \in chosen})

\* As many as fit; which ones is a matter of ranking.
Fitting(beliefs) ==
  IF Cardinality(beliefs) <= MaxBeliefs THEN {beliefs}
  ELSE {subset \in SUBSET beliefs : Cardinality(subset) = MaxBeliefs}

Select(c) ==
  /\ Doing(c, "select")
  /\ \E query \in Queries : \E beliefs \in Fitting(Presentable(db, query)) :
       Goto(c, Rest(c), beliefs)
  /\ UNCHANGED <<db, lock, ops, raised, clean>>

\* Beliefs that a relabelling under way has decided to take out, without having
\* seen that they are rendered.
AboutToFall ==
  UNION {{b \in DOMAIN call[c].read.labels : call[c].read.labels[b] # "in"} :
         c \in {c \in Callers : Doing(c, "relabel") /\ call[c].read # None}}

\* CONTEXT_COMPILED
Shown(d, beliefs) == [d EXCEPT !.rendered = @ \cup beliefs]

Render(c) ==
  /\ Doing(c, "render")
  /\ db' = Shown(db, call[c].read)
  /\ clean' = clean \cup {b \in call[c].read \ AboutToFall : db.status[b] = "in"}
  /\ Goto(c, Rest(c), None)
  /\ UNCHANGED <<lock, ops, raised>>

\* run_deferred_context_maintenance
Maintain(c) ==
  /\ Start(c, AfterNewBeliefs \o <<<<"promote">>, <<"audit">>, Relabelling>>, None)
  /\ UNCHANGED <<db, lock, raised, clean>>

\* lint_and_enforce, as far as it changes the tables modelled: a response that
\* names a retracted belief acknowledges its notice.
AcknowledgeRetraction(c, b) ==
  /\ b \in db.notices
  /\ Start(c, <<>>, None)
  /\ db' = [db EXCEPT !.notices = @ \ {b}]
  /\ UNCHANGED <<lock, raised, clean>>

\* begin_turn, then expire_retractions.
BeginTurn(c) ==
  LET turn == db.turn + 1 IN
  /\ turn <= MaxTurn
  /\ Start(c, <<>>, None)
  /\ db' = [db EXCEPT !.turn = turn,
                      !.notices = {b \in @ : turn - db.born[b] < NoticeTtl}]
  /\ UNCHANGED <<lock, raised, clean>>

\* gate_action relabels before it reads, since labels do not age by themselves.
GateAction(c) ==
  /\ Start(c, <<Relabelling>>, None)
  /\ UNCHANGED <<db, lock, raised, clean>>

\* Time passes: a belief outlives its perishability.
Age(b) ==
  /\ b \in (Perishable \cap db.known) \ db.stale
  /\ ops < MaxOps /\ ops' = ops + 1
  /\ db' = [db EXCEPT !.stale = @ \cup {b}]
  /\ UNCHANGED <<lock, call, raised, clean>>

\* The process stops and is started again: only the tables are left.
Restart ==
  /\ ops > Prelude /\ \E c \in Callers : ~IsIdle(c)
  /\ lock' = None /\ call' = [c \in Callers |-> Idle] /\ raised' = TRUE
  /\ UNCHANGED <<db, ops, clean>>

-----------------------------------------------------------------------------
Init ==
  /\ \E stakes \in Stakes : db = InitialTables(stakes)
  /\ lock = None /\ call = [c \in Callers |-> Idle]
  /\ ops = 0 /\ raised = FALSE /\ clean = {}

Ask(c) ==
  /\ IsIdle(c) /\ ops < MaxOps
  /\ ops <= Prelude => \A other \in Callers : IsIdle(other)
  /\ \/ \E claims \in Messages : IngestUserMessage(c, claims)
     \/ \E b \in Observations, claims \in Outputs : IngestToolResult(c, {b}, claims)
     \/ RecordInference(c)
     \/ \E b1, b2 \in db.known : AddUndercut(c, b1, b2) \/ (b1 < b2 /\ AddRebut(c, {b1, b2}))
     \/ \E b \in db.known, method \in Requestable : RequestVerification(c, b, method)
     \/ \E t \in db.open, result \in {"confirmed", "disconfirmed", "inconclusive"} :
          CompleteVerification(c, t, result)
     \/ \E stakes \in Stakes : SetStakes(c, stakes)
     \/ \E deferred \in BOOLEAN : CompileContext(c, deferred)
     \/ \E b \in db.notices : AcknowledgeRetraction(c, b)
     \/ BeginTurn(c) \/ GateAction(c) \/ Maintain(c)

Continue(c) ==
  \/ Admit(c) \/ Promote(c) \/ ReadPremises(c)
  \/ DetectRead(c) \/ Adjudicate(c) \/ DetectWrite(c)
  \/ RelabelRead(c) \/ RelabelWrite(c) \/ Passive(c) \/ CompleteRead(c) \/ CompleteWrite(c)
  \/ Audit(c) \/ RecordVerdict(c) \/ ChangeStakes(c) \/ Select(c) \/ Render(c)

\* The bound is reached and nobody waits for anything; any other state without a
\* successor is a deadlock.
Finished ==
  /\ ops = MaxOps /\ \A c \in Callers : IsIdle(c)
  /\ UNCHANGED vars

Next ==
  \/ Finished
  \/ \E c \in Callers : Ask(c) \/ Continue(c)
  \/ \E b \in Beliefs : Age(b)
  \/ Restart

Spec == Init /\ [][Next]_vars

-----------------------------------------------------------------------------
EpisodeTypeOK ==
  /\ db.status \in [Beliefs -> Statuses] /\ db.admission \in [Beliefs -> Statuses]
  /\ db.known \subseteq Beliefs /\ db.stakes \in Stakes
  /\ db.open \subseteq Tasks /\ db.done \subseteq Beliefs \X Methods
  /\ Distinct(db.open)
  /\ \A c \in Callers : IsIdle(c) => call[c] = Idle
  /\ lock # None => /\ Doing(lock, "relabel") \/ Doing(lock, "complete")
                    /\ call[lock].read # None

\* Nothing is under way, and nothing has ended early since the last relabelling,
\* which came to a fixed point.
Quiet == (\A c \in Callers : IsIdle(c)) /\ ~raised /\ ~db.samsaya

\* The graph as the last relabelling saw it: beliefs that are still in have not
\* been seen stale.
SeenGraph == [Graph(db) EXCEPT !.stale = {b \in @ : db.status[b] # "in"}]
Labels == [b \in db.known |-> db.status[b]]

\* However reads, appends and relabellings of concurrent callers interleave, when
\* they all have returned the stored labels are a fixed point of the labelling for
\* the stored beliefs, supports and defeats: nobody's append was missed by the last
\* relabelling.
QuiescentIsSettled == Quiet => NextLabels(SeenGraph, Labels) = Labels

\* In the same states the open conflicts are the ties of the labelling, both sides
\* of each in doubt, and the edges stored as active are those of the labels.
ConflictsAreTies ==
  Quiet => /\ db.conflicts = Ties(SeenGraph, Labels)
           /\ \A pair \in db.conflicts : \A b \in pair : db.status[b] # "in"
           /\ db.active = ActiveEdges(SeenGraph, Labels)

\* A belief that the model was shown as in and that is not in any more has been
\* announced by a retraction notice, unless the showing and the fall were racing.
FallenIsAnnounced == \A b \in clean : db.status[b] # "in" => b \in db.noticed

\* One belief counts at most once as confirmed and once as defeated for its source,
\* although relabelling and verification both look first and count later.
DefeatSampledOnce == \A b \in Beliefs : db.confirmed[b] <= 1 /\ db.defeated[b] <= 1

\* A derived belief is in only while all its premises are ("belief_ids; must be IN
\* to be live"), also after a defeat cycle was found.
NothingStandsOnFallen ==
  (\A c \in Callers : IsIdle(c)) /\ ~raised =>
    \A b \in db.known \ Basic : db.status[b] = "in" =>
      \A p \in db.premises[b] : db.status[p] = "in"

\* complete_verification, "the only route out" of doubt, can be taken for every open
\* task: its completed row will not collide with that of an earlier task.
EveryOpenTaskCanComplete == Keys(db.open) \cap db.done = {}
=============================================================================
