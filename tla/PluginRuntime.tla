---------------------------- MODULE PluginRuntime ----------------------------
(***************************************************************************)
(* The host process: callbacks (hermes/hooks.py, hermes/middleware.py) run *)
(* on several threads against one registry of episodes                     *)
(* (runtime/plugin_runtime.py), beside a maintenance thread.  The ledger   *)
(* and its model budget survive the process; routes, episode locks, the    *)
(* maintenance queue and health do not.                                    *)
(*                                                                         *)
(* A callback is a script of steps.  A step under the registry lock, or in *)
(* one transaction of the ledger, is atomic; everything else interleaves.  *)
(* What an episode does under its lock is the subject of EpisodeService,   *)
(* and is here one step that may raise.                                    *)
(***************************************************************************)
EXTENDS LlmBudget, ResponseLint, Selection

CONSTANTS
  Drainer,       \* the maintenance thread, one of Threads
  Sessions,      \* session identifiers of the host
  Markers,       \* turn identifiers
  CacheLimit,    \* _CALLBACK_CACHE_LIMIT
  QueueLimit,    \* _DEFERRED_MAINTENANCE_LIMIT
  Policies,      \* what lint.high and lint.critical may say
  Texts,         \* responses, and rewritings of them: sequences of clauses
  Hooks,         \* bound: the callbacks the host makes
  MaxCallbacks,  \* bound: callbacks made
  MaxDisturbances  \* bound: failures, edits of the configuration, ends of the process,
                   \* reservations that grow old, replays of another process

Callbacks == {"pre_llm_call", "pre_tool_call", "transform_tool_result", "llm_request",
              "transform_llm_output", "on_session_finalize"}

ASSUME RuntimeAssumption ==
  /\ Drainer \in Threads /\ Hooks \subseteq Callbacks
  /\ CacheLimit \in Nat \ {0} /\ QueueLimit \in Nat \ {0}
  /\ MaxCallbacks \in Nat /\ MaxDisturbances \in Nat
  /\ IsFiniteSet(Markers) /\ Cardinality(Markers) <= MaxTurn
  /\ Policies \subseteq {"rewrite_once", "block", "annotate", "allow"}

\* A key by which the host finds an episode begins with "session:", an archived one
\* with "closed:".
ASSUME SessionsAssumption == "closed" \notin Sessions

\* Responses are of these clauses, which cite only beliefs of the ledger.
ASSUME TextsAssumption ==
  Texts \subseteq Seq(Clauses) /\ \A k \in Clauses : ClauseAttr[k].cites \subseteq Cited

\* None stands for the absence of a thread in a lock, of a session, or of an answer.
ASSUME HostNoneAssumption == None \notin Threads \cup {"allow", "block", "deliver"}

VARIABLES
  episodes,      \* the ledger's table: key, state, current_turn, turns begun
  locks,         \* _episode_locks: the lock object of an episode, or 0
  holder,        \* the thread in each lock object
  turnEpisode,   \* _turn_to_episode, oldest first
  begunTurns,    \* _begun_turns, oldest first
  queue,         \* _maintenance_queue
  draining,      \* _maintenance_active
  health,        \* HEALTHY or DEGRADED
  reasons,       \* kinds of the health reasons
  notInjected,   \* _injection_failures
  th,            \* the callback each thread is in
  bounds,        \* callbacks, disturbances and refused threads so far
  late           \* history: episodes finalized while another thread was using them

registry == <<locks, holder, turnEpisode, begunTurns>>
work == <<queue, draining>>
condition == <<health, reasons, notInjected>>
world == <<bounds, late>>
hostVars == <<episodes, locks, holder, turnEpisode, begunTurns, queue, draining, health, reasons,
              notInjected, th, bounds, late, used, charged, rows, comp,
              beyond>>

Some(S) == CHOOSE x \in S : TRUE

Absent == [key |-> None, state |-> "absent", turn |-> 0, begun |-> << >>]
Free == {e \in Episodes : episodes[e].state = "absent"}
LockIds == 1..Cardinality(Episodes) + Cardinality(Threads)

Resting == [script |-> << >>, hook |-> None, session |-> None, marker |-> None, ep |-> 0, num |-> 0,
            lock |-> 0, warned |-> FALSE, text |-> << >>, annotated |-> FALSE, helped |-> FALSE, open |-> {},
            snap |-> << >>, seen |-> {}, answer |-> None]

Doing(h, step) == th[h].script # << >> /\ Head(th[h].script) = step
Rest(h) == Tail(th[h].script)
Become(h, record) == th' = [th EXCEPT ![h] = IF record.script = << >> THEN Resting ELSE record]
Go(h, script) == Become(h, [th[h] EXCEPT !.script = script])
On(h) == Go(h, Rest(h))
Disturbed(refused) ==
  /\ bounds.disturbances < MaxDisturbances
  /\ bounds' = [bounds EXCEPT !.disturbances = @ + 1, !.refused = @ + refused]

\* Mutant: the oldest entry stays.
MutantRemembered(cache, entry, limit) == Append(Only(cache, Entries(cache) \ {entry}), entry)

\* An OrderedDict after cache[key] = value, move_to_end and trimming.
Remembered(cache, entry, limit) ==
  LET kept == Append(Only(cache, Entries(cache) \ {entry}), entry)
  IN IF Len(kept) > limit THEN Tail(kept) ELSE kept

-----------------------------------------------------------------------------
(* Health and failures.                                                    *)

\* mark_global_failure
MarkGlobalFailure == health' = "degraded" /\ reasons' = reasons \cup {"component"}

\* Mutant: a reload that succeeds clears every reason.
MutantStillDegraded == {}

\* The reasons that a successful reload leaves.
StillDegraded == reasons \ {"config"}

\* _clear_configuration_degradation, on a fully compatible host
ClearConfigurationDegradation ==
  /\ reasons' = StillDegraded
  /\ health' = IF StillDegraded = {} THEN "healthy" ELSE health

\* What pre_tool_call and transform_llm_output refuse to a high-stakes turn.
Degraded(h) == health # "healthy" \/ th[h].ep \in notInjected

Answer(h, answer) == Become(h, [th[h] EXCEPT !.script = <<"answer">>, !.lock = 0, !.answer = answer])
Quit(h, script) == Become(h, [th[h] EXCEPT !.script = script, !.lock = 0])

\* Mutant: an exception ends the maintenance thread.
MutantNextJob == << >>

\* The maintenance thread goes on with the next episode.
NextJob == <<"pop">>

\* clear_injection_failure: whoever failed before, this request went through.
ClearInjectionFailure(e) == notInjected' = notInjected \ {e}

\* _mark_configuration_degraded, for an invalid file or a path that needs a restart.
MarkConfigurationDegraded ==
  /\ health' = "degraded"
  /\ \E kind \in {"config", "path"} : reasons' = reasons \cup {kind}

\* What each except clause does with an exception.  llm_request resolves its episode
\* before its own, so nothing is noted of an episode it has not found.
Handle(h) ==
  CASE th[h].hook \in {"pre_llm_call", "transform_tool_result"} ->
         MarkGlobalFailure /\ Quit(h, << >>) /\ UNCHANGED notInjected
    [] th[h].hook = "pre_tool_call" ->
         MarkGlobalFailure /\ Answer(h, "block") /\ UNCHANGED notInjected
    [] th[h].hook = "llm_request" ->
         /\ notInjected' = notInjected \cup ({th[h].ep} \ {0})
         /\ Quit(h, << >>) /\ UNCHANGED <<health, reasons>>
    [] th[h].hook = "transform_llm_output" -> Answer(h, "block") /\ UNCHANGED condition
    [] th[h].hook = "on_session_finalize" -> Quit(h, << >>) /\ UNCHANGED condition
    [] th[h].hook = "maintenance" -> Quit(h, NextJob) /\ UNCHANGED condition

\* A step of the ledger, of the configuration or of the host fails.
Raise(h) == Disturbed(0) /\ Handle(h)

\* The steps that do no more than read the ledger, or that create the episode.
Lookups == {"resolve", "create", "count", "gate", "active", "lint", "entail", "rewrite", "relint"}

\* One of them fails.
Fail(h) ==
  /\ th[h].script # << >> /\ Head(th[h].script) \in Lookups
  /\ Raise(h)
  /\ UNCHANGED <<episodes, registry, work, late, budget>>

-----------------------------------------------------------------------------
(* Callbacks and the episodes they belong to.                              *)

\* The steps of each callback; on_session_reset is on_session_finalize by another name.
PreLlmCall == <<"resolve", "remember", "mark", "lock", "enter", "leave">>
PreToolCall == <<"resolve", "lock", "enter", "leave", "gate", "answer">>
TransformToolResult == <<"resolve", "lock", "enter", "leave">>
LlmRequest == <<"resolve", "promote", "lock", "enter", "leave", "inject">>
TransformLlmOutput == <<"resolve", "check", "lint">>
OnSessionFinalize == <<"resolve", "archive", "forget">>

Script(hook) ==
  CASE hook = "pre_llm_call" -> PreLlmCall
    [] hook = "pre_tool_call" -> PreToolCall
    [] hook = "transform_tool_result" -> TransformToolResult
    [] hook = "llm_request" -> LlmRequest
    [] hook = "transform_llm_output" -> TransformLlmOutput
    [] hook = "on_session_finalize" -> OnSessionFinalize

\* The host calls back.  Only a tool result may come with its turn and no session.
Callback(h, hook, session, marker) ==
  /\ h # Drainer /\ th[h].script = << >>
  /\ Cardinality({x \in Threads : th[x].ep = 0 /\ th[x].script # << >>}) < Cardinality(Free)
  /\ session = None => hook = "transform_tool_result"
  /\ hook \notin {"pre_llm_call", "transform_tool_result"} => marker = Some(Markers)
  /\ th' = [th EXCEPT ![h] = [Resting EXCEPT !.script = Script(hook), !.hook = hook, !.session = session,
                              !.marker = marker, !.warned = hook = "pre_tool_call" /\ "component" \in reasons]]
  /\ bounds' = [bounds EXCEPT !.callbacks = @ + 1]
  /\ UNCHANGED <<episodes, registry, work, condition, late, budget>>

Found(session) == {e \in Episodes : session # None /\ episodes[e].key = session}
Routed(marker) == {i \in DOMAIN turnEpisode : turnEpisode[i].marker = marker}
Routes(marker) == Only(turnEpisode, {x \in Entries(turnEpisode) : x.marker # marker})

Resolved(h, e) == Become(h, [th[h] EXCEPT !.script = Rest(h), !.ep = e, !.session = None])

\* resolve_episode_id, before the registry lock: by session, or by turn without one.
Resolve(h) ==
  LET found == Found(th[h].session)
      routed == Routed(th[h].marker)
  IN
  /\ Doing(h, "resolve")
  /\ IF found # {}
     THEN Resolved(h, Some(found)) /\ UNCHANGED turnEpisode
     ELSE IF th[h].session = None /\ routed # {}
     THEN LET route == turnEpisode[Some(routed)]
          IN /\ Resolved(h, route.ep)
             /\ turnEpisode' = Append(Routes(th[h].marker), route)
     ELSE Go(h, <<"create">> \o Rest(h)) /\ UNCHANGED turnEpisode
  /\ UNCHANGED <<episodes, locks, holder, begunTurns, work, condition, world, budget>>

NewLock == Some(LockIds \ ({locks[e] : e \in Episodes} \cup {th[h].lock : h \in Threads}))

\* Its second half, under the registry lock.
Create(h) ==
  LET found == Found(th[h].session)
      e == Some(Free)
  IN
  /\ Doing(h, "create")
  /\ IF found # {}
     THEN /\ Resolved(h, Some(found))
          /\ UNCHANGED <<episodes, locks>>
     ELSE /\ episodes' = [episodes EXCEPT ![e] =
               [Absent EXCEPT !.state = "active",
                              !.key = IF th[h].session = None THEN "oneshot" ELSE th[h].session]]
          /\ locks' = [locks EXCEPT ![e] = NewLock]
          /\ Resolved(h, e)
  /\ UNCHANGED <<holder, turnEpisode, begunTurns, work, condition, world, budget>>

-----------------------------------------------------------------------------
(* begin_turn                                                              *)

\* The turn is routed to its episode.
Remember(h) ==
  /\ Doing(h, "remember")
  /\ turnEpisode' = Remembered(Routes(th[h].marker), [marker |-> th[h].marker, ep |-> th[h].ep],
                               CacheLimit)
  /\ On(h)
  /\ UNCHANGED <<episodes, locks, holder, begunTurns, work, condition, world, budget>>

\* It is marked as begun before it is.
Mark(h) ==
  LET key == [ep |-> th[h].ep, marker |-> th[h].marker]
  IN
  /\ Doing(h, "mark")
  /\ IF key \in Entries(begunTurns) THEN On(h) /\ UNCHANGED begunTurns
     ELSE /\ begunTurns' = Remembered(begunTurns, key, CacheLimit)
          /\ Go(h, <<"reload", "count", "append">> \o Rest(h))
  /\ UNCHANGED <<episodes, locks, holder, turnEpisode, work, condition, world, budget>>

\* _reload_at_boundary, of a configuration nobody edited, or one that is valid, invalid
\* or names another database.
Reload(h) ==
  /\ Doing(h, "reload") /\ On(h)
  /\ \/ UNCHANGED <<health, reasons, bounds>>
     \/ Disturbed(0) /\ ClearConfigurationDegradation
     \/ Disturbed(0) /\ MarkConfigurationDegraded
  /\ UNCHANGED <<episodes, registry, work, notInjected, late, budget>>

\* The number of the turn is read before the append that stores it.
CountTurn(h) ==
  /\ Doing(h, "count")
  /\ th' = [th EXCEPT ![h].script = Rest(h), ![h].num = episodes[th[h].ep].turn + 1]
  /\ UNCHANGED <<episodes, registry, work, condition, world, budget>>

\* Mutant: an append without its idempotency key.
MutantBegun(e, marker) == FALSE

\* The idempotency key of the turn is in the ledger.
Begun(e, marker) == marker \in Entries(episodes[e].begun)

\* EPISODE_TURN_STARTED
AppendTurn(h) ==
  LET e == th[h].ep
  IN
  /\ Doing(h, "append")
  /\ \/ /\ ~Begun(e, th[h].marker)
        /\ episodes' = [episodes EXCEPT ![e].turn = th[h].num,
                                        ![e].begun = Append(@, th[h].marker)]
        /\ On(h) /\ UNCHANGED <<condition, bounds>>
     \/ /\ Begun(e, th[h].marker)
        /\ On(h) /\ UNCHANGED <<episodes, condition, bounds>>
     \/ Raise(h) /\ UNCHANGED episodes
  /\ UNCHANGED <<registry, work, late, budget>>

-----------------------------------------------------------------------------
(* Work of an episode under its lock: ingestion, relabelling, the gate.    *)

\* Mutant: a lock object per section.
MutantLockFor(e) == NewLock

\* _episode_locks.setdefault
LockFor(e) == IF locks[e] = 0 THEN NewLock ELSE locks[e]

\* episode_lock finds the lock object of the episode, under the registry lock.
FindLock(h) ==
  /\ Doing(h, "lock")
  /\ locks' = [locks EXCEPT ![th[h].ep] = LockFor(th[h].ep)]
  /\ th' = [th EXCEPT ![h].script = Rest(h), ![h].lock = LockFor(th[h].ep)]
  /\ UNCHANGED <<episodes, holder, turnEpisode, begunTurns, work, condition, world, budget>>

Enter(h) ==
  /\ Doing(h, "enter")
  /\ holder[th[h].lock] = None
  /\ holder' = [holder EXCEPT ![th[h].lock] = h]
  /\ On(h)
  /\ UNCHANGED <<episodes, locks, turnEpisode, begunTurns, work, condition, world, budget>>

\* Mutant: an exception leaves the lock held.
MutantAfterFailure(h) == holder

\* The locks once work has failed.
AfterFailure(h) == [holder EXCEPT ![th[h].lock] = None]

Leave(h) ==
  /\ Doing(h, "leave")
  /\ \/ /\ holder' = [holder EXCEPT ![th[h].lock] = None]
        /\ Quit(h, Rest(h)) /\ UNCHANGED <<condition, bounds>>
     \/ holder' = AfterFailure(h) /\ Raise(h)
  /\ UNCHANGED <<episodes, locks, turnEpisode, begunTurns, work, late, budget>>

\* pre_tool_call, for an effectful call of high stakes.
Gate(h) ==
  /\ Doing(h, "gate")
  /\ \E answer \in IF Degraded(h) THEN {"block"} ELSE {"allow", "block"} : Answer(h, answer)
  /\ UNCHANGED <<episodes, registry, work, condition, world, budget>>

\* The host has the answer.
Finish(h) ==
  /\ Doing(h, "answer")
  /\ th' = [th EXCEPT ![h] = Resting]
  /\ UNCHANGED <<episodes, registry, work, condition, world, budget>>

-----------------------------------------------------------------------------
(* The component model, and work deferred to the maintenance thread.       *)

\* In an event loop, work with the component is deferred; else it is done first.
Promote(h) ==
  /\ Doing(h, "promote")
  /\ \E step \in {"schedule", "component"} : Go(h, <<step>> \o Rest(h))
  /\ UNCHANGED <<episodes, registry, work, condition, world, budget>>

\* schedule_context_maintenance, under the registry lock
Schedule(h) ==
  /\ Doing(h, "schedule")
  /\ queue' = Remembered(queue, th[h].ep, QueueLimit)
  /\ draining' = TRUE
  /\ Go(h, IF draining THEN Rest(h) ELSE <<"start">> \o Rest(h))
  /\ UNCHANGED <<episodes, registry, condition, world, budget>>

\* The maintenance thread is started, or the system refuses one.
StartDrainer(h) ==
  /\ Doing(h, "start")
  /\ \/ /\ th' = [th EXCEPT ![h].script = Rest(h),
                            ![Drainer] = [Resting EXCEPT !.script = <<"pop">>, !.hook = "maintenance"]]
        /\ UNCHANGED <<draining, condition, bounds>>
     \/ /\ Disturbed(1)
        /\ draining' = FALSE
        /\ Handle(h)
  /\ UNCHANGED <<episodes, registry, queue, late, budget>>

\* run_deferred_maintenance: work with the component, then relabelling under the lock
Maintenance == <<"component", "lock", "enter", "leave">>

\* _drain_context_maintenance takes the oldest episode, or ends.
TakeJob(h) ==
  /\ Doing(h, "pop")
  /\ IF queue = << >>
     THEN draining' = FALSE /\ th' = [th EXCEPT ![h] = Resting] /\ UNCHANGED queue
     ELSE /\ th' = [th EXCEPT ![h].script = <<"active">>, ![h].ep = Head(queue)]
          /\ queue' = Tail(queue) /\ UNCHANGED draining
  /\ UNCHANGED <<episodes, registry, condition, world, budget>>

\* An episode that is closed by now is passed over.
CheckActive(h) ==
  /\ Doing(h, "active")
  /\ Go(h, IF episodes[th[h].ep].state = "active" THEN Maintenance \o NextJob ELSE NextJob)
  /\ UNCHANGED <<episodes, registry, work, condition, world, budget>>

\* A step of complete_structured.
CallComponent(h) ==
  /\ Doing(h, "component")
  /\ \/ AskComponent(h, episodes[th[h].ep].turn) /\ UNCHANGED bounds
     \/ ReserveLlmBudget(h, th[h].ep) /\ UNCHANGED bounds
     \/ CallProvider(h) /\ UNCHANGED bounds
     \/ RecordUsage(h, th[h].ep) /\ UNCHANGED bounds
     \/ Disturbed(0) /\ (LoseReservation(h) \/ LoseUsage(h) \/ LoseRelease(h))
     \/ ReleaseReservation(h) /\ UNCHANGED bounds
  /\ UNCHANGED <<episodes, registry, work, condition, th, late>>

\* LlmComponentError means going on without an answer; a failed append does not.
UseAnswer(h) ==
  /\ Doing(h, "component") /\ TakeAnswer(h)
  /\ IF comp[h].outcome = "lost" /\ th[h].script[2] # "rewrite"
     THEN Handle(h)
     ELSE /\ th' = [th EXCEPT ![h].script = Rest(h), ![h].helped = /\ comp[h].outcome = "success"
                                                                /\ th[h].script[2] \in {"entail", "rewrite"}]
          /\ UNCHANGED condition
  /\ UNCHANGED <<episodes, registry, work, world>>

\* The compiled context is injected into the request of the provider.
Inject(h) ==
  /\ Doing(h, "inject")
  /\ \/ ClearInjectionFailure(th[h].ep) /\ Go(h, << >>) /\ UNCHANGED <<health, reasons, bounds>>
     \/ Raise(h)
  /\ UNCHANGED <<episodes, registry, work, late, budget>>

-----------------------------------------------------------------------------
(* transform_llm_output, in an episode of high stakes.                     *)

\* A degraded runtime blocks the response without looking at it.
CheckHealth(h) ==
  /\ Doing(h, "check")
  /\ IF Degraded(h) THEN Answer(h, "block") ELSE On(h)
  /\ UNCHANGED <<episodes, registry, work, condition, world, budget>>

\* What a read of the ledger may show of the cited beliefs: other callbacks and other
\* processes relabel them between any two reads ("out" stands for quarantined too).
Statuses == [Cited -> {"in", "pending", "out"}]
Seen(status) == {<<b, status[b]>> : b \in Cited}

\* lint_and_enforce reads the beliefs once, lints the response, and lets the
\* component look at claims whose citations may entail them after all.
LintResponse(h) ==
  /\ Doing(h, "lint")
  /\ \E text \in Texts, status \in Statuses :
       LET plain == Plain(text)
           open == Unsupported(plain, status, TRUE)
           step == IF Candidates(plain, status, TRUE) = {} THEN <<"enforce">>
                   ELSE <<"component", "entail", "enforce">>
       IN Become(h, [th[h] EXCEPT !.script = step, !.text = plain, !.open = open,
                                  !.snap = status, !.seen = Seen(status)])
  /\ UNCHANGED <<episodes, registry, work, condition, world, budget>>

\* _semantic_lint, under the statuses read at first.
Entail(h) ==
  /\ Doing(h, "entail")
  /\ \E entailed \in SUBSET Entailable(th[h].text, th[h].snap, TRUE) :
       /\ ~th[h].helped => entailed = {}
       /\ Become(h, [th[h] EXCEPT !.script = Rest(h), !.open = @ \ entailed, !.snap = << >>, !.helped = FALSE])
  /\ UNCHANGED <<episodes, registry, work, condition, world, budget>>

\* enforce_report, under the policy of the episode's stakes: "annotate" delivers what
\* does not pass with a warning, "allow" without one.
Enforce(h) ==
  LET passes == th[h].open = {} /\ Claims(th[h].text, TRUE) # {}
  IN
  /\ Doing(h, "enforce")
  /\ \/ passes /\ Go(h, <<"record">>)
     \/ /\ ~passes
        /\ \/ /\ Policies \cap {"annotate", "allow"} # {}
              /\ Become(h, [th[h] EXCEPT !.script = <<"record">>, !.annotated = TRUE])
           \/ "block" \in Policies /\ Answer(h, "block")
           \/ "rewrite_once" \in Policies /\ Go(h, <<"component", "rewrite">>)
  /\ UNCHANGED <<episodes, registry, work, condition, world, budget>>

\* The rewritten response is linted again; if it fails, or there is none, its
\* unsupported clauses are marked.
Rewrite(h) ==
  /\ Doing(h, "rewrite")
  /\ IF th[h].helped
     THEN \E text \in Texts, status \in Statuses :
            LET again == Plain(text)
                passes == Passes(again, status, TRUE)
                marked == MarkUnsupported(again, Unsupported(again, status, TRUE))
            IN Become(h, [th[h] EXCEPT !.script = IF passes THEN <<"record">> ELSE <<"relint">>, !.open = {},
                                       !.text = IF passes THEN again ELSE marked, !.helped = FALSE,
                                       !.seen = @ \cup Seen(status)])
     ELSE Become(h, [th[h] EXCEPT !.script = <<"relint">>, !.open = {},
                                   !.text = MarkUnsupported(@, th[h].open)])
  /\ UNCHANGED <<episodes, registry, work, condition, world, budget>>

\* The marked text must pass a lint of its own.
Relint(h) ==
  /\ Doing(h, "relint")
  /\ \E status \in Statuses :
       LET checked == MarkedOrBlocked(th[h].text, status, TRUE)
       IN IF checked = None THEN Answer(h, "block")
          ELSE Become(h, [th[h] EXCEPT !.script = <<"record">>, !.text = checked,
                                       !.seen = @ \cup Seen(status)])
  /\ UNCHANGED <<episodes, registry, work, condition, world, budget>>

\* LINT_RECORDED; when it cannot be appended, the response is blocked.
RecordLint(h) ==
  /\ Doing(h, "record")
  /\ \/ Answer(h, "deliver") /\ UNCHANGED <<condition, bounds>>
     \/ Raise(h)
  /\ UNCHANGED <<episodes, registry, work, late, budget>>

-----------------------------------------------------------------------------
(* on_session_finalize, and the end of the process.                        *)

\* EPISODE_FINALIZED: the key is archived, so the session gets a new episode.
Archive(h) ==
  /\ Doing(h, "archive")
  /\ \/ /\ episodes' = [episodes EXCEPT ![th[h].ep].state = "finalized", ![th[h].ep].key = "closed"]
        /\ On(h) /\ UNCHANGED <<condition, bounds>>
     \/ Raise(h) /\ UNCHANGED episodes
  /\ UNCHANGED <<registry, work, late, budget>>

\* Mutant: the routes of an episode outlive it.
MutantRoutesOfOthers(e) == turnEpisode

RoutesOfOthers(e) == Only(turnEpisode, {x \in Entries(turnEpisode) : x.ep # e})

\* Under the registry lock, everything the process keeps of the episode goes.
Forget(h) ==
  LET e == th[h].ep
  IN
  /\ Doing(h, "forget") /\ On(h)
  /\ notInjected' = notInjected \ {e}
  /\ locks' = [locks EXCEPT ![e] = 0]
  /\ begunTurns' = Only(begunTurns, {x \in Entries(begunTurns) : x.ep # e})
  /\ turnEpisode' = RoutesOfOthers(e)
  /\ late' = IF \E x \in Threads \ {h} : th[x].ep = e THEN late \cup {e} ELSE late
  /\ UNCHANGED <<episodes, holder, work, health, reasons, bounds, budget>>

\* The process ends and starts again on the same database, which it may replay.
Restart ==
  /\ Disturbed(0)
  /\ th' = [h \in Threads |-> Resting] /\ comp' = [h \in Threads |-> NoCall]
  /\ locks' = [e \in Episodes |-> 0] /\ holder' = [l \in LockIds |-> None]
  /\ turnEpisode' = << >> /\ begunTurns' = << >> /\ queue' = << >> /\ draining' = FALSE
  /\ notInjected' = {} /\ late' = {}
  /\ \/ reasons' = {} /\ health' = "healthy"
     \/ reasons' = {"config"} /\ health' = "degraded"
  /\ rows' \in {rows, << >>}
  /\ UNCHANGED <<episodes, used, charged, beyond>>

-----------------------------------------------------------------------------
HostInit ==
  /\ BudgetInit
  /\ episodes = [e \in Episodes |-> Absent]
  /\ locks = [e \in Episodes |-> 0] /\ holder = [l \in LockIds |-> None]
  /\ turnEpisode = << >> /\ begunTurns = << >> /\ queue = << >> /\ draining = FALSE
  /\ reasons \in {{}, {"component"}} /\ health = IF reasons = {} THEN "healthy" ELSE "degraded"
  /\ notInjected = {} /\ late = {}
  /\ th = [h \in Threads |-> Resting]
  /\ bounds = [callbacks |-> 0, disturbances |-> 0, refused |-> 0]

\* What a thread does next.
Step(h) ==
  \/ Resolve(h) \/ Create(h) \/ Remember(h) \/ Mark(h) \/ Reload(h) \/ CountTurn(h) \/ AppendTurn(h)
  \/ FindLock(h) \/ Enter(h) \/ Leave(h) \/ Gate(h) \/ Finish(h)
  \/ Promote(h) \/ Schedule(h) \/ StartDrainer(h) \/ TakeJob(h) \/ CheckActive(h)
  \/ CallComponent(h) \/ UseAnswer(h) \/ Inject(h)
  \/ CheckHealth(h) \/ LintResponse(h) \/ Entail(h) \/ Enforce(h) \/ Rewrite(h) \/ Relint(h)
  \/ RecordLint(h) \/ Archive(h) \/ Forget(h) \/ Fail(h)

\* What the world around the process does.
Environment ==
  \/ /\ bounds.callbacks < MaxCallbacks
     /\ \E h \in Threads, hook \in Hooks, session \in Sessions \cup {None}, marker \in Markers :
          Callback(h, hook, session, marker)
  \/ Restart
  \/ /\ Disturbed(0) /\ (RowsAge \/ ReplayLedger)
     /\ UNCHANGED <<episodes, registry, work, condition, late, th>>

HostNext == (\E h \in Threads : Step(h)) \/ Environment

\* While a thread can go on, one of them does.
HostSpec == HostInit /\ [][HostNext]_hostVars /\ WF_hostVars(\E h \in Threads : Step(h))

-----------------------------------------------------------------------------
\* The type invariant, the limits of the caches included.
HostTypeOK ==
  /\ \A e \in Episodes :
       /\ episodes[e].state \in {"absent", "active", "finalized"}
       /\ episodes[e].turn \in Turns /\ Entries(episodes[e].begun) \subseteq Markers
       /\ locks[e] \in LockIds \cup {0}
  /\ \A l \in LockIds : holder[l] \in Threads \cup {None}
  /\ Len(turnEpisode) <= CacheLimit /\ Len(begunTurns) <= CacheLimit /\ Len(queue) <= QueueLimit
  /\ Entries(queue) \subseteq Episodes /\ draining \in BOOLEAN
  /\ health \in {"healthy", "degraded"} /\ reasons \subseteq {"component", "config", "path"}
  /\ health = "healthy" <=> reasons = {}
  /\ notInjected \subseteq Episodes /\ late \subseteq Episodes

\* episode_lock: two threads never work on an active episode at once, whoever
\* created the lock object, and after a restart too.
Holds(h) == th[h].lock # 0 /\ holder[th[h].lock] = h
OneHolder ==
  \A g, h \in Threads :
    Holds(g) /\ Holds(h) /\ th[g].ep = th[h].ep /\ episodes[th[g].ep].state = "active" => g = h

\* begin_turn: the ledger starts a turn once, although the cache of begun turns
\* forgets turns and is lost with the process.
TurnCountedOnce ==
  \A e \in Episodes : \A i, j \in DOMAIN episodes[e].begun :
    episodes[e].begun[i] = episodes[e].begun[j] => i = j

\* pre_tool_call: after a component has failed, the process allows no effectful
\* call of high stakes, whatever is reloaded meanwhile.
FailClosed == \A h \in Threads : th[h].hook = "pre_tool_call" /\ th[h].warned => th[h].answer # "allow"

\* transform_llm_output: where policy blocks or rewrites, every claim that is
\* delivered cites a belief that stood, as the claim marks it, when it was linted.
NothingUngroundedDelivered ==
  \A h \in Threads :
    th[h].answer = "deliver" /\ ~th[h].annotated =>
      \A i \in Claims(th[h].text, TRUE) :
        LET k == ClauseAttr[th[h].text[i].clause]
        IN \E b \in k.cites : <<b, "in">> \in th[h].seen \/ (k.marked /\ <<b, "pending">> \in th[h].seen)

\* finalize: of a closed episode that no callback was using, the process keeps
\* neither lock, nor route, nor turn (operations.md: finalization releases
\* process-local handles).
HandlesReleased ==
  \A e \in Episodes \ late :
    episodes[e].state = "finalized" /\ (\A h \in Threads : th[h].ep # e) =>
      /\ locks[e] = 0
      /\ \A i \in DOMAIN turnEpisode : turnEpisode[i].ep # e
      /\ \A i \in DOMAIN begunTurns : begunTurns[i].ep # e

\* When the host stops calling back, every callback has returned to it, and the
\* deferred work has left the queue, unless the system refused to start a thread.
HostSettles ==
  <>[](/\ \A h \in Threads : th[h].script = << >>
       /\ queue = << >> \/ bounds.refused > 0)
=============================================================================
