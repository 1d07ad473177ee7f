------------------------------ MODULE LlmBudget ------------------------------
(***************************************************************************)
(* Calls of the component model under a shared budget (llm/client.py,      *)
(* store.reserve_llm_budget).  A call reserves in the ledger what it may   *)
(* use at most, asks the provider, appends what it did use and releases    *)
(* the reservation: five steps of a thread, with other threads, failures   *)
(* and the end of the process between them.                                *)
(*                                                                         *)
(* A reservation may go before its call has ended: after 300 seconds the   *)
(* next reservation deletes it, while structured_timeout_seconds may be    *)
(* longer, and a replay, which any process that opens the ledger may run,  *)
(* deletes all.  A provider may also report more than was reserved.        *)
(* `tokens' are input tokens; output tokens are counted likewise.          *)
(***************************************************************************)
EXTENDS Integers, FiniteSets

CONSTANTS
  Threads,          \* callback threads and the maintenance thread
  Episodes,         \* episode numbers, 1..n
  Sizes,            \* tokens a call may reserve
  Reports,          \* bound: tokens a provider may report
  MaxCallsTurn,     \* verification.max_llm_calls_per_turn
  MaxCallsEpisode,  \* verification.max_llm_calls_per_episode
  MaxTokens,        \* verification.max_input_tokens_per_episode, and the same for output
  MaxTurn,          \* bound: turns of an episode
  MaxRows           \* bound: reservations at a time, those of calls under way included

ASSUME BudgetAssumption ==
  /\ MaxCallsTurn \in Nat /\ MaxCallsEpisode \in Nat /\ MaxTokens \in Nat
  /\ Sizes \subseteq Nat \ {0} /\ Reports \subseteq Nat
  /\ MaxTurn \in Nat /\ MaxRows \in Nat
  /\ Episodes \subseteq Nat \ {0} /\ IsFiniteSet(Episodes) /\ IsFiniteSet(Threads)

VARIABLES
  used,     \* calls and tokens used per episode (table episodes)
  charged,  \* rows of llm_usage per episode and turn
  rows,     \* llm_reservations, by number
  comp,     \* the component call each thread is in
  beyond    \* history: what was charged per episode without a reservation for it

budget == <<used, charged, rows, comp, beyond>>

Turns == 0..MaxTurn
NoCall == [at |-> "none", turn |-> 0, size |-> 0, row |-> 0, outcome |-> "none"]

BudgetInit ==
  /\ used = [e \in Episodes |-> [calls |-> 0, tokens |-> 0]]
  /\ charged = [e \in Episodes |-> [t \in Turns |-> 0]]
  /\ rows = << >>
  /\ comp = [h \in Threads |-> NoCall]
  /\ beyond = [e \in Episodes |-> [calls |-> 0, tokens |-> 0, turns |-> [t \in Turns |-> 0]]]

Calling(h, step) == comp[h].at = step
Done(h, outcome) == comp' = [comp EXCEPT ![h] = [NoCall EXCEPT !.at = "done", !.outcome = outcome]]

\* Mutant: checking counters alone.
MutantRowsOf(e, live) == {}

RowsOf(e, live) == {i \in DOMAIN live : live[i].episode = e}

\* The sum of a number per row.
Total(amounts) ==
  LET upTo[i \in 0..MaxRows] == IF i = 0 THEN 0 ELSE upTo[i - 1] + amounts[i]
  IN  upTo[MaxRows]

\* What the calls under way may still use.
Reserved(e, live) == Total([i \in 1..MaxRows |-> IF i \in RowsOf(e, live) THEN live[i].size ELSE 0])

\* The limits that reserve_llm_budget checks, reservations included.
WithinLimits(e, turn, size, live) ==
  /\ charged[e][turn] + Cardinality({i \in RowsOf(e, live) : live[i].turn = turn}) < MaxCallsTurn
  /\ used[e].calls + Cardinality(RowsOf(e, live)) < MaxCallsEpisode
  /\ used[e].tokens + Reserved(e, live) + size <= MaxTokens

\* complete_structured reads the turn the call is charged to.
AskComponent(h, turn) ==
  /\ Calling(h, "none")
  /\ \E size \in Sizes : comp' = [comp EXCEPT ![h] = [NoCall EXCEPT !.at = "asked", !.turn = turn,
                                                                    !.size = size]]
  /\ UNCHANGED <<used, charged, rows, beyond>>

\* One immediate transaction, which deletes what is stale; when it refuses, that is
\* rolled back too.
ReserveLlmBudget(h, e) ==
  LET live == [i \in {j \in DOMAIN rows : ~rows[j].stale} |-> rows[i]]
      unused == 1..MaxRows \ (DOMAIN live \cup {comp[g].row : g \in Threads})
      id == CHOOSE i \in unused : TRUE
      call == comp[h]
  IN
  /\ Calling(h, "asked")
  /\ IF WithinLimits(e, call.turn, call.size, live)
     THEN /\ unused # {}
          /\ rows' = [i \in DOMAIN live \cup {id} |->
               IF i = id THEN [episode |-> e, turn |-> call.turn, size |-> call.size, stale |-> FALSE]
               ELSE live[i]]
          /\ comp' = [comp EXCEPT ![h].at = "reserved", ![h].row = id]
     ELSE Done(h, "error") /\ UNCHANGED rows
  /\ UNCHANGED <<used, charged, beyond>>

\* The transaction fails, which the caller sees as a refusal; or the ledger is not opened.
LoseReservation(h) ==
  /\ Calling(h, "asked")
  /\ \E outcome \in {"error", "lost"} : Done(h, outcome)
  /\ UNCHANGED <<used, charged, rows, beyond>>

\* The provider answers, fails or times out.  The usage it reports is believed; usage
\* it does not report, or reports invalidly, is taken to be what was reserved.
CallProvider(h) ==
  /\ Calling(h, "reserved")
  /\ \E tokens \in Reports \cup {comp[h].size}, outcome \in {"success", "error"} :
       comp' = [comp EXCEPT ![h].at = "answered", ![h].outcome = outcome, ![h].size = tokens]
  /\ UNCHANGED <<used, charged, rows, beyond>>

\* The reservation of a call is still there, and what the call used above it.
Backing(h) == comp[h].row \in DOMAIN rows
Excess(h) ==
  LET reserved == IF Backing(h) THEN rows[comp[h].row].size ELSE 0
  IN IF comp[h].size > reserved THEN comp[h].size - reserved ELSE 0

\* append_events of the usage, the verdict and the attribution.
RecordUsage(h, e) ==
  LET call == comp[h]
      unbacked == IF Backing(h) THEN 0 ELSE 1
  IN
  /\ Calling(h, "answered")
  /\ used' = [used EXCEPT ![e] = [calls |-> @.calls + 1, tokens |-> @.tokens + call.size]]
  /\ charged' = [charged EXCEPT ![e][call.turn] = @ + 1]
  /\ beyond' = [beyond EXCEPT ![e].calls = @ + unbacked, ![e].tokens = @ + Excess(h),
                               ![e].turns[call.turn] = @ + unbacked]
  /\ comp' = [comp EXCEPT ![h].at = "recorded"]
  /\ UNCHANGED rows

\* The append raises: the call is not charged, and its reservation is released.
LoseUsage(h) ==
  /\ Calling(h, "answered")
  /\ comp' = [comp EXCEPT ![h].at = "recorded", ![h].outcome = "lost"]
  /\ UNCHANGED <<used, charged, rows, beyond>>

\* The finally clause.
ReleaseReservation(h) ==
  /\ Calling(h, "recorded")
  /\ rows' = [i \in DOMAIN rows \ {comp[h].row} |-> rows[i]]
  /\ Done(h, comp[h].outcome)
  /\ UNCHANGED <<used, charged, beyond>>

\* The release raises, and the reservation stays until it is stale.
LoseRelease(h) ==
  /\ Calling(h, "recorded")
  /\ Done(h, "lost")
  /\ UNCHANGED <<used, charged, rows, beyond>>

\* The caller goes on with the answer, or without one.
TakeAnswer(h) ==
  /\ Calling(h, "done")
  /\ comp' = [comp EXCEPT ![h] = NoCall]
  /\ UNCHANGED <<used, charged, rows, beyond>>

\* A reservation is 300 seconds old, whether or not its call has ended.
RowsAge ==
  /\ \E i \in DOMAIN rows : ~rows[i].stale /\ rows' = [rows EXCEPT ![i].stale = TRUE]
  /\ UNCHANGED <<used, charged, comp, beyond>>

\* Another process opens the ledger and replays it, which clears the reservations.
ReplayLedger ==
  /\ DOMAIN rows # {} /\ rows' = << >>
  /\ UNCHANGED <<used, charged, comp, beyond>>

\* Whatever the threads do between reserving and recording, and whichever reservations
\* a failure or the end of the process leaves behind: the calls and tokens charged to
\* an episode, and the calls charged to a turn, exceed their limits by no more than was
\* charged without a reservation, or above it (reserve_llm_budget: "atomically reserve
\* one component-call budget across callbacks/processes").
BudgetKept ==
  \A e \in Episodes :
    /\ used[e].calls <= MaxCallsEpisode + beyond[e].calls
    /\ used[e].tokens <= MaxTokens + beyond[e].tokens
    /\ \A t \in Turns : charged[e][t] <= MaxCallsTurn + beyond[e].turns[t]
=============================================================================
