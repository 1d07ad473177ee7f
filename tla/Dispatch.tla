------------------------------ MODULE Dispatch ------------------------------
(***************************************************************************)
(* The front ends that act on a permit: the MCP proxy, which forwards      *)
(* calls to an upstream server whose tools may change, the dispatchers of  *)
(* the gateway and of the reference runner, which own their handlers, and  *)
(* the gateway's decision service, whose clients retry requests under      *)
(* idempotency keys.  All of them share one ledger and its permits.        *)
(*                                                                         *)
(* A proxy and a service do one thing at a time.  Read-only tools need no  *)
(* permit and are left out; what is forwarded is an effectful call.        *)
(***************************************************************************)
EXTENDS AuthorizationFlow
LOCAL INSTANCE Functions
LOCAL INSTANCE SequencesExt

ResponseGate == INSTANCE ResponseGate
ToolPolicy   == INSTANCE ToolPolicy
ActionGate   == INSTANCE ActionGate

CONSTANTS
  Proxies,   \* callers that are an MCP proxy
  Services,  \* callers that are a gateway and its dispatcher
  Schemas,   \* versions of the upstream tools that match the policies
  CacheSize, \* MAX_IDEMPOTENCY_ENTRIES
  Told       \* the belief of the observation a client ingests

Requests == {"evidence.ingest", "action.evaluate", "episode.finalize"}

ASSUME DispatchAssumption ==
  /\ Proxies \cap Services = {} /\ Proxies \cup Services = Callers
  /\ None \notin Schemas /\ Schemas \cap {"reserved", "unverified"} = {}
  /\ CacheSize \in Nat \ {0} /\ Told \in Beliefs

VARIABLES
  proxy,    \* inventory of each proxy: digest, reason, and what its server exposed
  service,  \* of each gateway: its episode and the requests it has answered
  job,      \* the request or invocation each caller is serving
  keyed,    \* episodes with the idempotency row of the ingestion
  effects   \* how often a handler or the upstream was called under each permit

fronts == <<proxy, service, job, keyed, effects>>
frontVars == <<receipts, decisions, log, clock, finalized, inBeliefs, conflicted,
               call, audited, retracted, swept, late, proxy, service, job, keyed, effects>>

-----------------------------------------------------------------------------
(* The MCP proxy.                                                          *)

\* What list_tools may answer: tools that match, a reserved name among them, or an
\* error, too many tools, an invalid one, or one that no policy matches.
Listings == Schemas \cup {"reserved", "unverified"}

\* refresh_inventory.  A reserved name leaves the digest as it was.
Refreshed(p, listing) ==
  CASE listing \in Schemas -> [p EXCEPT !.digest = listing, !.tools = listing, !.verified = TRUE]
    [] listing = "reserved" -> [p EXCEPT !.tools = None, !.verified = FALSE]
    [] listing = "unverified" -> [p EXCEPT !.digest = None, !.tools = None, !.verified = FALSE]

\* A new process: create_server registers the tools of the first inventory, and its
\* clients know no others.
Opened(listing) ==
  LET p == Refreshed([digest |-> None, tools |-> None, verified |-> FALSE, shown |-> None], listing)
  IN [p EXCEPT !.shown = p.tools]

\* Mutant: an inventory that verifies is good enough.
MutantDrifted(before, p) == before = None \/ ~p.verified

\* UPSTREAM_SCHEMA_DRIFT
Drifted(before, p) == before = None \/ ~p.verified \/ p.digest # before

\* invoke, up to the permit.  Having been told of a drift, a client may not rely on
\* what it was shown.
Invoke(c, e, a) ==
  /\ c \in Proxies /\ At(c, "idle")
  /\ \E listing \in Listings :
       LET p == Refreshed(proxy[c], listing)
       IN IF Drifted(proxy[c].digest, p)
          THEN /\ proxy' = [proxy EXCEPT ![c] = [p EXCEPT !.shown = None]]
               /\ UNCHANGED <<store, clock, ledger, flow, call, job>>
          ELSE /\ proxy' = [proxy EXCEPT ![c] = p]
               /\ job' = [job EXCEPT ![c] = "invoke"]
               /\ BeginEvaluate(c, e, a)
  /\ UNCHANGED <<service, keyed, effects>>

-----------------------------------------------------------------------------
(* The gateway's decision service.                                         *)

\* episode.start opens the active episode of the context, or a new one.
StartEpisode(c, e) ==
  /\ c \in Services /\ At(c, "idle") /\ service[c].episode = None
  /\ e \notin finalized
  /\ service' = [service EXCEPT ![c].episode = e]
  /\ UNCHANGED <<store, clock, ledger, flow, call, proxy, job, keyed, effects>>

\* The answers a service remembers, oldest first.  That a hit also makes its answer the
\* youngest is left out: it changes only which answer is forgotten first.
Remembered(cache, key) ==
  LET kept == Append(cache, key) IN IF Len(kept) > CacheSize THEN Tail(kept) ELSE kept

\* handle: a request whose answer is remembered is not dispatched again.
Fresh(c, key) ==
  /\ c \in Services /\ At(c, "idle") /\ service[c].episode # None
  /\ key \notin Range(service[c].answered)

\* Mutant: the key stays in the memory of the service.
MutantIngested(e) == FALSE

\* append_events finds the key that the service passes down.
Ingested(e) == e \in keyed

IngestEvidence(c) ==
  LET e == service[c].episode
  IN
  /\ Fresh(c, "evidence.ingest") /\ e \notin finalized
  /\ IF Ingested(e) THEN UNCHANGED <<ledger, keyed>>
     ELSE /\ inBeliefs' = [inBeliefs EXCEPT ![e] = @ \cup {Told}]
          /\ keyed' = keyed \cup {e}
          /\ UNCHANGED <<finalized, conflicted>>
  /\ service' = [service EXCEPT ![c].answered = Remembered(@, "evidence.ingest")]
  /\ UNCHANGED <<store, clock, flow, call, proxy, job, effects>>

Serve(c) ==
  /\ \/ /\ Fresh(c, "action.evaluate")
        /\ \E a \in Actions : BeginEvaluate(c, service[c].episode, a)
        /\ job' = [job EXCEPT ![c] = "action.evaluate"]
     \/ /\ Fresh(c, "episode.finalize")
        /\ BeginFinalize(c, service[c].episode)
        /\ job' = [job EXCEPT ![c] = "episode.finalize"]
  /\ UNCHANGED <<proxy, service, keyed, effects>>

\* The service keeps no permit: its token is never presented.
DropPermit(c) == At(c, "permitted") /\ Return(c) /\ UNCHANGED <<store, clock, ledger, flow>>

\* The request has been served, and its answer is remembered.
Answered(c) ==
  service' = [service EXCEPT
    ![c] = [episode |-> IF job[c] = "episode.finalize" THEN None ELSE @.episode,
            answered |-> Remembered(@.answered, job[c])]]

-----------------------------------------------------------------------------
(* Permits and effects.                                                    *)

\* The reference runner's owner authorizes an invocation and keeps its permit.
Authorize(c, e, a) ==
  /\ c \in Services
  /\ BeginEvaluate(c, e, a)
  /\ job' = [job EXCEPT ![c] = "dispatch"]
  /\ UNCHANGED <<proxy, service, keyed, effects>>

\* What the facade does for a front end, until it returns.
Facade(c) ==
  \/ GateReadBeliefs(c) \/ GateDecide(c) \/ BindSupports(c) \/ ReadApproval(c) \/ Issue(c) \/ Record(c)
  \/ (job[c] # "action.evaluate" /\ Consume(c))
  \/ (job[c] = "action.evaluate" /\ DropPermit(c))
  \/ RetractBelief(c) \/ RevokeDependents(c)
  \/ CloseEpisode(c) \/ SweepPermits(c) \/ ReturnFinalized(c)

FrontStep(c) ==
  /\ Facade(c)
  /\ IF call'[c].at = "idle"
     THEN /\ job' = [job EXCEPT ![c] = None]
          /\ IF job[c] \in Requests THEN Answered(c) ELSE UNCHANGED service
     ELSE UNCHANGED <<job, service>>
  /\ UNCHANGED <<proxy, keyed, effects>>

\* The handler, or the upstream server, is called; it may fail after its effect.  A
\* runner's owner may present the same permit again.
CallTool(c) ==
  /\ At(c, "consumed")
  /\ effects' = [effects EXCEPT ![call[c].token] = @ + 1]
  /\ \/ Return(c) /\ job' = [job EXCEPT ![c] = None]
     \/ c \in Services /\ Goto(c, "permitted") /\ UNCHANGED job
  /\ UNCHANGED <<store, clock, ledger, flow, proxy, service, keyed>>

\* Calls of the library in the gateway's process: retract_evidence, and
\* finalize_episode of any episode, finalized before or not.
CallLibrary(c) ==
  /\ c \in Services
  /\ \E e \in Episodes :
       BeginFinalize(c, e) \/ \E belief \in Beliefs : BeginRetract(c, e, belief)
  /\ UNCHANGED fronts

\* A process ends, at rest or in the middle of a call, and starts again.
Restart(c) ==
  /\ Return(c)
  /\ job' = [job EXCEPT ![c] = None]
  /\ IF c \in Services
     THEN service' = [service EXCEPT ![c] = [episode |-> None, answered |-> << >>]] /\ UNCHANGED proxy
     ELSE /\ \E listing \in Listings : proxy' = [proxy EXCEPT ![c] = Opened(listing)]
          /\ UNCHANGED service
  /\ UNCHANGED <<store, clock, ledger, flow, keyed, effects>>

DispatchInit ==
  /\ FlowInit
  /\ proxy \in [Proxies -> {Opened(listing) : listing \in Listings}]
  /\ service = [c \in Services |-> [episode |-> None, answered |-> << >>]]
  /\ job = [c \in Callers |-> None]
  /\ keyed = {}
  /\ effects = [t \in Tokens |-> 0]

Begin(c) ==
  \/ \E e \in Episodes, a \in Actions : Invoke(c, e, a) \/ Authorize(c, e, a)
  \/ \E e \in Episodes : StartEpisode(c, e)
  \/ IngestEvidence(c) \/ Serve(c) \/ CallLibrary(c)

DispatchNext ==
  \/ \E c \in Callers : Begin(c) \/ FrontStep(c) \/ CallTool(c) \/ Restart(c)
  \/ (Others /\ UNCHANGED fronts)

DispatchSpec == DispatchInit /\ [][DispatchNext]_frontVars

-----------------------------------------------------------------------------
\* A permit causes one effect at most, and only after its consumption: a call that
\* was refused because the permit was revoked, expired, spent or lost its support
\* reaches no handler, and a permit presented twice reaches it once.
EffectNeedsPermit ==
  \A t \in Tokens : effects[t] <= 1 /\ (effects[t] = 1 => decisions[t].state = "consumed")

\* invoke: until its clients have been told of a drift, a proxy forwards calls only
\* under the schema its server has shown them.
ForwardedAsShown ==
  \A c \in Proxies : At(c, "consumed") => proxy[c].shown \in {None, proxy[c].tools}

\* _dispatch: retrying an ingestion, after the answer has been forgotten or the
\* service restarted, does not bring a retracted belief back.
RetractedStaysOut == \A e \in Episodes : inBeliefs[e] \cap retracted[e] = {}

-----------------------------------------------------------------------------
(* The algorithms a front end relies on, each checked for all its bounded  *)
(* inputs in the modules that define it.                                   *)

\* An inventory that a proxy has verified was classified by rules whose order does
\* not matter (manifest.py), exact before pattern and specific before general.
PolicyDetermined == \A c \in Proxies : proxy[c].verified => ToolPolicy!AllPoliciesDetermined

\* A front end acts under a profile that its capabilities prove (contracts.py).
ProfileProven == \A c \in Callers : ~At(c, "idle") => ToolPolicy!AllProfilesProven

\* A permit that a front end holds was granted on the beliefs it names, each good
\* enough for the stakes of the action (gate/decision.py, api.py).
PermitGrounded ==
  \A c \in Callers : At(c, "record") \/ At(c, "permitted") => ActionGate!AllDecided

\* A runner delivers a high-stakes response whole or not at all, and once
\* (buffering.py).
DeliversAllOrNothing ==
  \A c \in Services : service[c].episode # None => ResponseGate!AllAnsweredRightly
=============================================================================
