-------------------------- MODULE AuthorizationFlow --------------------------
(***************************************************************************)
(* The facade calls of BeliefLedger that read the ledger, decide, and then *)
(* write the enforcement store: evaluate_action followed by                *)
(* consume_permission, retract_evidence and finalize_episode.  Each of     *)
(* them is several reads and transactions with nothing held in between,    *)
(* run by concurrent callers that may stop after any of them.              *)
(*                                                                         *)
(* The policy of the actions modelled asks for one belief-based            *)
(* precondition, which any belief of Premises satisfies when it is IN,     *)
(* and, where ApprovalRequired, for a host approval.                       *)
(***************************************************************************)
EXTENDS Enforcement

CONSTANTS
  Callers,          \* threads and processes that hold a BeliefLedger
  Premises,         \* beliefs whose content is the precondition's proposition
  ApprovalRequired, \* approval_policy is "required"
  NoOpenConflict    \* the policy lists no_open_conflict

ASSUME FlowAssumption ==
  /\ Premises \subseteq Beliefs
  /\ ApprovalRequired \in BOOLEAN /\ NoOpenConflict \in BOOLEAN
  /\ None \notin Tokens

VARIABLES
  call,       \* the call each caller is in, with its local variables
  audited,    \* tokens with an ACTION_AUTHORIZATION_EVALUATED event
  retracted,  \* per episode, the beliefs retracted by a caller
  swept,      \* episodes for which some finalize_episode has returned
  late        \* history: tokens issued after their episode was finalized

flow == <<audited, retracted, swept, late>>
allVars == <<receipts, decisions, log, clock, finalized, inBeliefs, conflicted,
             call, audited, retracted, swept, late>>

Idle == [at |-> "idle", seen |-> {}, binding |-> None, token |-> None]
At(c, step) == call[c].at = step
Goto(c, step) == call' = [call EXCEPT ![c].at = step]

\* Mutant: the local variables of a finished call stay behind.
MutantReturn(c) == Goto(c, "idle")

Return(c) == call' = [call EXCEPT ![c] = Idle]

EpisodeAt(c) == call[c].binding.episode

-----------------------------------------------------------------------------
(* evaluate_action                                                         *)

\* _episode(require_active=True); the binding is filled in as the call goes.
BeginEvaluate(c, e, a) ==
  /\ At(c, "idle")
  /\ e \notin finalized
  /\ call' = [call EXCEPT ![c] =
       [at |-> "gate", seen |-> {}, token |-> None,
        binding |-> [episode |-> e, action |-> a, supports |-> {}, receipt |-> None]]]
  /\ UNCHANGED <<store, clock, ledger, flow>>

\* ActionGate.evaluate: list_beliefs
GateReadBeliefs(c) ==
  /\ At(c, "gate")
  /\ call' = [call EXCEPT ![c].at = "decide", ![c].seen = inBeliefs[EpisodeAt(c)]]
  /\ UNCHANGED <<store, clock, ledger, flow>>

\* ActionGate.evaluate: list_conflicts, then the decision.  A call that is not
\* allowed never issues a permit, and ends here.
GateDecide(c) ==
  LET allowed == /\ call[c].seen \cap Premises # {}
                 /\ NoOpenConflict => EpisodeAt(c) \notin conflicted
  IN
  /\ At(c, "decide")
  /\ IF allowed THEN Goto(c, "bind") ELSE Return(c)
  /\ UNCHANGED <<store, clock, ledger, flow>>

\* The belief that entails the precondition, or none: belief_id is None then.
Supporting(beliefs) ==
  IF beliefs \cap Premises = {} THEN {{}} ELSE {{b} : b \in beliefs \cap Premises}

\* _support_and_conflicts reads the ledger again to name the supports.
BindSupports(c) ==
  /\ At(c, "bind")
  /\ \E supports \in Supporting(inBeliefs[EpisodeAt(c)]) :
       call' = [call EXCEPT ![c].at = "approval", ![c].binding.supports = supports]
  /\ UNCHANGED <<store, clock, ledger, flow>>

\* current_approval: the newest receipt of the exact_action binding, if live.
ReceiptsIssuedFor(b) ==
  {i \in DOMAIN log : log[i].kind = "APPROVAL_RECEIPT_ISSUED" /\ log[i].binding = b}

NewestIssuedFor(b) ==
  CHOOSE i \in ReceiptsIssuedFor(b) : \A j \in ReceiptsIssuedFor(b) : j =< i

CurrentApproval(b) ==
  IF ReceiptsIssuedFor(b) = {} THEN None
  ELSE LET r == log[NewestIssuedFor(b)].receipt
       IN IF receipts[r].state = "issued" /\ clock < receipts[r].expires THEN r ELSE None

ReadApproval(c) ==
  LET b == call[c].binding
      receipt == CurrentApproval([episode |-> b.episode, action |-> b.action,
                                  scope |-> "exact_action"])
  IN
  /\ At(c, "approval")
  /\ IF ApprovalRequired /\ receipt = None THEN Return(c)
     ELSE call' = [call EXCEPT ![c].at = "issue", ![c].binding.receipt = receipt]
  /\ UNCHANGED <<store, clock, ledger, flow>>

\* issue_action; a rejection is reported as BLOCK and ends the call.
Issue(c) ==
  /\ At(c, "issue")
  /\ \E t \in Tokens, ttl \in ActionTtls, now \in ReadBeforeLock :
       /\ IssueAction(t, call[c].binding, ttl, now)
       /\ IF decisions'[t].state = "issued"
          THEN /\ call' = [call EXCEPT ![c].at = "record", ![c].token = t]
               /\ late' = IF EpisodeAt(c) \in finalized THEN late \cup {t} ELSE late
          ELSE Return(c) /\ UNCHANGED late
  /\ UNCHANGED <<audited, retracted, swept>>

\* Mutant: the permit is handed out although the record failed.
MutantRecord(c) ==
  /\ At(c, "record")
  /\ Goto(c, "permitted")
  /\ UNCHANGED <<store, clock, ledger, flow>>

\* _record_authorization; only then does the caller get the permit.
Record(c) ==
  /\ At(c, "record")
  /\ audited' = audited \cup {call[c].token}
  /\ Goto(c, "permitted")
  /\ UNCHANGED <<store, clock, ledger, retracted, swept, late>>

Spent(t) == decisions[t].state # "consumed" /\ decisions'[t].state = "consumed"

\* Mutant: nobody looks at what consume_permission answered.
MutantConsume(c) ==
  /\ At(c, "permitted")
  /\ ConsumeAction(call[c].token, call[c].binding)
  /\ Goto(c, "consumed")
  /\ UNCHANGED flow

\* consume_permission, with the invocation the permit was issued for.
Consume(c) ==
  /\ At(c, "permitted")
  /\ ConsumeAction(call[c].token, call[c].binding)
  /\ IF Spent(call[c].token) THEN Goto(c, "consumed") ELSE Return(c)
  /\ UNCHANGED flow

\* The caller performs the action.
Perform(c) ==
  /\ At(c, "consumed")
  /\ Return(c)
  /\ UNCHANGED <<store, clock, ledger, flow>>

-----------------------------------------------------------------------------
(* retract_evidence                                                        *)

\* The episode is active and the belief exists: in, or retracted before.
BeginRetract(c, e, belief) ==
  /\ At(c, "idle")
  /\ e \notin finalized
  /\ belief \in inBeliefs[e] \cup retracted[e]
  /\ call' = [call EXCEPT ![c] =
       [at |-> "retract", seen |-> {belief}, token |-> None,
        binding |-> [episode |-> e, action |-> None, supports |-> {}, receipt |-> None]]]
  /\ UNCHANGED <<store, clock, ledger, flow>>

\* append_events: the belief is out and its ingestion supports are inactive.
RetractBelief(c) ==
  /\ At(c, "retract")
  /\ inBeliefs' = [inBeliefs EXCEPT ![EpisodeAt(c)] = @ \ call[c].seen]
  /\ retracted' = [retracted EXCEPT ![EpisodeAt(c)] = @ \cup call[c].seen]
  /\ Goto(c, "revoke")
  /\ UNCHANGED <<store, clock, finalized, conflicted, audited, swept, late>>

RevokeDependents(c) ==
  /\ At(c, "revoke")
  /\ \E belief \in call[c].seen :
       IF IssuedUnder(belief) = {} THEN UNCHANGED <<store, clock, ledger>>
       ELSE RevokeForSupport(belief)
  /\ Return(c)
  /\ UNCHANGED flow

-----------------------------------------------------------------------------
(* finalize_episode                                                        *)

\* Mutant: the revocation sits inside the guard on the state, as it did before
\* ADR 0008.
MutantBeginFinalize(c, e) ==
  /\ At(c, "idle")
  /\ call' = [call EXCEPT ![c] =
       [at |-> IF e \in finalized THEN "swept" ELSE "close", seen |-> {}, token |-> None,
        binding |-> [episode |-> e, action |-> None, supports |-> {}, receipt |-> None]]]
  /\ UNCHANGED <<store, clock, ledger, flow>>

\* A finalized episode skips the lifecycle event but not the revocation.
BeginFinalize(c, e) ==
  /\ At(c, "idle")
  /\ call' = [call EXCEPT ![c] =
       [at |-> IF e \in finalized THEN "sweep" ELSE "close", seen |-> {}, token |-> None,
        binding |-> [episode |-> e, action |-> None, supports |-> {}, receipt |-> None]]]
  /\ UNCHANGED <<store, clock, ledger, flow>>

CloseEpisode(c) ==
  /\ At(c, "close")
  /\ finalized' = finalized \cup {EpisodeAt(c)}
  /\ Goto(c, "sweep")
  /\ UNCHANGED <<store, clock, inBeliefs, conflicted, flow>>

SweepPermits(c) ==
  /\ At(c, "sweep")
  /\ IF IssuedIn(EpisodeAt(c)) = {} THEN UNCHANGED <<store, clock, ledger>>
     ELSE RevokeForEpisode(EpisodeAt(c))
  /\ Goto(c, "swept")
  /\ UNCHANGED flow

ReturnFinalized(c) ==
  /\ At(c, "swept")
  /\ swept' = swept \cup {EpisodeAt(c)}
  /\ Return(c)
  /\ UNCHANGED <<store, clock, ledger, audited, retracted, late>>

-----------------------------------------------------------------------------
(* A caller stops between two steps: its raw token, which is process-local, *)
(* and its other local variables are gone.                                  *)

Stop(c) ==
  /\ ~At(c, "idle")
  /\ Return(c)
  /\ UNCHANGED <<store, clock, ledger, flow>>

\* Evidence is ingested: a new belief comes in.
Ingest(e, belief) ==
  /\ belief \notin inBeliefs[e] \cup retracted[e]
  /\ SetBelief(e, belief)
  /\ UNCHANGED <<call, flow>>

Others ==
  /\ Approvals \/ Tick \/ \E e \in Episodes : SetConflict(e)
  /\ UNCHANGED <<call, flow>>

FlowInit ==
  /\ Init
  /\ call = [c \in Callers |-> Idle]
  /\ audited = {} /\ retracted = [e \in Episodes |-> {}] /\ swept = {} /\ late = {}

Evaluate(c) ==
  \/ \E e \in Episodes, a \in Actions : BeginEvaluate(c, e, a)
  \/ GateReadBeliefs(c) \/ GateDecide(c) \/ BindSupports(c) \/ ReadApproval(c)
  \/ Issue(c) \/ Record(c) \/ Consume(c) \/ Perform(c)

Retract(c) ==
  \/ \E e \in Episodes, belief \in Beliefs : BeginRetract(c, e, belief)
  \/ RetractBelief(c) \/ RevokeDependents(c)

Finalize(c) ==
  \/ \E e \in Episodes : BeginFinalize(c, e)
  \/ CloseEpisode(c) \/ SweepPermits(c) \/ ReturnFinalized(c)

FlowNext ==
  \/ \E c \in Callers : Evaluate(c) \/ Retract(c) \/ Finalize(c) \/ Stop(c)
  \/ \E e \in Episodes, belief \in Beliefs : Ingest(e, belief)
  \/ Others

FlowSpec == FlowInit /\ [][FlowNext]_allVars

-----------------------------------------------------------------------------
Steps == {"idle", "gate", "decide", "bind", "approval", "issue", "record", "permitted",
          "consumed", "retract", "revoke", "close", "sweep", "swept"}

\* Local variables and history keep their shape, and a caller holds a token only
\* between issue_action and the action.
FlowTypeOK ==
  /\ \A c \in Callers : /\ call[c].at \in Steps
                        /\ call[c].seen \subseteq Beliefs
                        /\ call[c].token \in Tokens <=> call[c].at \in {"record", "permitted", "consumed"}
  /\ audited \subseteq Tokens /\ late \subseteq Tokens
  /\ retracted \in [Episodes -> SUBSET Beliefs] /\ swept \subseteq Episodes

\* Once a finalize_episode has returned, every permit of the episode that is still
\* issued was issued afterwards by a call that had been admitted before: a retry
\* repairs a finalization that stopped between its two transactions (ADR 0008).
FinalizeSweepsPermits ==
  \A t \in Tokens :
    decisions[t].state = "issued" /\ decisions[t].binding.episode \in swept => t \in late

\* A permit of a finalized episode is never consumed, late permits included.
NothingSpentAfterFinalize ==
  [][\A t \in Tokens : Spent(t) => decisions[t].binding.episode \notin finalized]_allVars

\* Every consumption was preceded by the authorization record in the ledger: a
\* caller that stops between issuing and recording takes the token with it.
SpentIsAudited == \A t \in Tokens : decisions[t].state = "consumed" => t \in audited

\* When approval is required, the approval read by the call still stands, undenied
\* and unspent, in the transaction that issues the permit.
ApprovalStandsAtIssue ==
  [][\A t \in Tokens :
       ApprovalRequired /\ decisions[t].state = "absent" /\ decisions'[t].state = "issued"
       => LET r == decisions'[t].binding.receipt
          IN r # None /\ receipts[r].state = "issued" /\ clock < receipts[r].expires]_allVars

\* Support drift fails closed: a permit is consumed only while the precondition it
\* was granted on is supported by an IN belief.
SupportDriftFailsClosed ==
  [][\A t \in Tokens :
       Spent(t) => inBeliefs[decisions[t].binding.episode] \cap Premises # {}]_allVars
=============================================================================
