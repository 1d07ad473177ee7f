---------------------------- MODULE ResponseGate ----------------------------
(***************************************************************************)
(* Buffered delivery of a high-stakes response (core/buffering.py): chunks *)
(* are collected in order and under a limit, linted as a whole when the    *)
(* response is finalized, and delivered through a sink that may fail.      *)
(*                                                                         *)
(* A gate serves one response, so it is a fold over the calls it receives. *)
(* A chunk is identified by its place in the response; every chunk has     *)
(* size 1, and an undecodable response is one whose chunks are not UTF-8.  *)
(***************************************************************************)
EXTENDS Integers, Sequences

MaxBytes == 2     \* max_bytes
BlockReport == <<-1>>  \* block_report, a text that is no chunk

\* __init__
NewGate == [buffer |-> << >>, nextIndex |-> 0, failed |-> "", finalized |-> FALSE]

\* The first reason stays.
Fail(gate, reason) == IF gate.failed = "" THEN [gate EXCEPT !.failed = reason] ELSE gate

\* Mutant: what does not fit is dropped, and the rest is delivered.
MutantOverflow(gate) == gate

Overflow(gate) == Fail(gate, "BUFFER_OVERFLOW")

\* append(index, chunk).  A chunk that overflows has used up its index.
Appended(gate, chunk) ==
  LET next == [gate EXCEPT !.nextIndex = @ + 1] IN
  CASE gate.finalized -> Fail(gate, "MULTIPLE_FINAL")
    [] ~gate.finalized /\ chunk # gate.nextIndex -> Fail(gate, "INVALID_CHUNK_ORDER")
    [] ~gate.finalized /\ chunk = gate.nextIndex ->
         IF Len(gate.buffer) + 1 > MaxBytes THEN Overflow(next)
         ELSE [next EXCEPT !.buffer = Append(@, chunk)]

\* finalize: why the response is refused, or "".
Refused(gate, world) ==
  CASE gate.failed # "" -> gate.failed
    [] gate.failed = "" /\ ~world.utf8 -> "INVALID_UTF8"
    [] gate.failed = "" /\ world.utf8 ->
         [accepts |-> "", refuses |-> "LINT_BLOCKED", raises |-> "LINTER_ERROR"][world.lint]

\* finalize, with the sink: one that fails to deliver has delivered nothing, and one
\* that cannot be prepared for the response may still
\* take the block report.
Deliver(gate, world) ==
  LET reason  == Refused(gate, world)
      payload == IF reason = "" THEN gate.buffer ELSE BlockReport
      Sent(what, accepted, code) ==
        IF world.delivers
        THEN [sink |-> what, accepted |-> accepted, reason |-> code, bytes |-> Len(what)]
        ELSE [sink |-> << >>, accepted |-> FALSE, reason |-> "SINK_DELIVERY_FAILED", bytes |-> 0]
  IN CASE world.prepares -> Sent(payload, reason = "", reason)
       [] ~world.prepares /\ reason = "" /\ world.preparesAgain ->
            Sent(BlockReport, FALSE, "SINK_PREPARE_FAILED")
       [] OTHER -> [sink |-> << >>, accepted |-> FALSE, reason |-> "SINK_PREPARE_FAILED", bytes |-> 0]

Nothing == [sink |-> << >>, accepted |-> FALSE, reason |-> "MULTIPLE_FINAL", bytes |-> 0]

\* One call of the gate's owner; results collects what finalize answered.
Step(state, request, world) ==
  CASE request.op = "append" -> [state EXCEPT !.gate = Appended(@, request.chunk)]
    [] request.op = "cancel" -> [state EXCEPT !.gate = Fail(@, "CANCELLED")]
    [] request.op = "finalize" ->
         [gate |-> [state.gate EXCEPT !.finalized = TRUE],
          results |-> Append(state.results,
                             IF state.gate.finalized THEN Nothing ELSE Deliver(state.gate, world))]

Results(calls, world) ==
  LET after[i \in 0..Len(calls)] ==
        IF i = 0 THEN [gate |-> NewGate, results |-> << >>]
        ELSE Step(after[i - 1], calls[i], world)
  IN  after[Len(calls)].results

-----------------------------------------------------------------------------
\* Bound: up to five calls, the last of them finalize, of up to four chunks, and
\* every fault of the linter and of the sink.
Finalize == [op |-> "finalize"]
Calls == {[op |-> "append", chunk |-> i] : i \in 0..MaxBytes} \cup {[op |-> "cancel"], Finalize}
Conversations == {Append(calls, Finalize) : calls \in UNION {[1..n -> Calls] : n \in 0..4}}
Worlds == [utf8 : BOOLEAN, lint : {"accepts", "refuses", "raises"},
           prepares : BOOLEAN, preparesAgain : BOOLEAN, delivers : BOOLEAN]

\* What the owner handed over before it finalized.
Handed(calls) ==
  LET end == CHOOSE i \in DOMAIN calls : calls[i] = Finalize /\ \A j \in 1..(i - 1) : calls[j] # Finalize
  IN  SubSeq(calls, 1, end - 1)

InOrder(n) == [i \in 1..n |-> i - 1]

\* A response that arrived in order, fits and passed the linter.
Sound(handed, world) ==
  /\ \A i \in DOMAIN handed : handed[i] = [op |-> "append", chunk |-> i - 1]
  /\ Len(handed) <= MaxBytes /\ world.utf8 /\ world.lint = "accepts"

AnsweredRightly(calls, world) ==
  LET results == Results(calls, world)
      handed  == Handed(calls)
      whole   == InOrder(Len(handed))
  IN /\ \A i \in DOMAIN results :
          /\ results[i].sink \in {BlockReport, << >>} \/ (Sound(handed, world) /\ results[i].sink = whole)
          /\ results[i].accepted => Sound(handed, world) /\ results[i].sink = whole
          /\ results[i].bytes = Len(results[i].sink)
          /\ i > 1 => results[i] = Nothing
     /\ Sound(handed, world) /\ world.prepares /\ world.delivers => results[1].accepted

\* ResponseGate: the sink gets the whole response in order, or the block report, or
\* nothing; it gets the response only if it arrived in order, fits, was not cancelled
\* and passed the linter; the answer says accepted exactly then, and however often
\* the response is finalized, it is delivered at most once.
AllAnsweredRightly ==
  \A calls \in Conversations, world \in Worlds : AnsweredRightly(calls, world)
=============================================================================
