----------------------------- MODULE ResponseLint -----------------------------
(***************************************************************************)
(* The lint of a final response (lint/extract.py, lint/match.py,           *)
(* lint/enforce.py, EpisodeService.lint_and_enforce).  A response is a     *)
(* sequence of clauses; what a clause says, what it cites and how it is    *)
(* marked is given by ClauseAttr.  Statuses are those of the beliefs in    *)
(* the ledger when it was last read, and they change during the lint.      *)
(***************************************************************************)
EXTENDS Integers, Sequences

CONSTANTS
  Cited,       \* beliefs that responses cite
  Clauses,     \* the clauses of responses
  ClauseAttr,  \* says, cites, marked (pending) and factual, per clause
  None

\* A clause of a response; hedged when it begins with "speculation:".
Sentences == [clause : Clauses, hedged : BOOLEAN]
Plain(text) == [i \in DOMAIN text |-> [clause |-> text[i], hedged |-> FALSE]]

\* extract_claims; where coverage is required, every declarative clause counts.
Claims(text, cover) ==
  {i \in DOMAIN text : ~text[i].hedged /\ (cover \/ ClauseAttr[text[i].clause].factual)}

\* Citations that match_claim accepts under these statuses.
Standing(k, status) ==
  {b \in ClauseAttr[k].cites : \/ status[b] = "in"
                               \/ status[b] = "pending" /\ ClauseAttr[k].marked}

\* match_claim: a claim is grounded by an accepted citation that entails it; one
\* without its citation is not, whatever the ledger holds.
Grounded(k, status) == ClauseAttr[k].says \in Standing(k, status)

\* Positions of the claims that no citation grounds.
Unsupported(text, status, cover) ==
  {i \in Claims(text, cover) : ~Grounded(text[i].clause, status)}

\* lint_response
Passes(text, status, cover) ==
  /\ Unsupported(text, status, cover) = {}
  /\ cover /\ text # << >> => Claims(text, cover) # {}

\* _semantic_lint only asks about claims with a citation that is in or pending.
Candidates(text, status, cover) ==
  {i \in Unsupported(text, status, cover) :
     \E b \in ClauseAttr[text[i].clause].cites : status[b] \in {"in", "pending"}}

\* What it accepts of the entailments the component claims to see.
Entailable(text, status, cover) ==
  {i \in Candidates(text, status, cover) : Standing(text[i].clause, status) # {}}

\* _mark_unsupported: the first occurrence of each unsupported text is hedged.
MarkUnsupported(text, unsupported) ==
  [i \in DOMAIN text |->
     IF \E j \in unsupported : /\ text[j].clause = text[i].clause
                               /\ \A l \in 1..i - 1 : text[l].clause # text[i].clause
     THEN [text[i] EXCEPT !.hedged = TRUE] ELSE text[i]]

\* Mutant: the marked text is returned without looking at its lint.
MutantMarkedOrBlocked(text, status, cover) == text

\* _marked_or_blocked, and the blocked report.
MarkedOrBlocked(text, status, cover) == IF Passes(text, status, cover) THEN text ELSE None
=============================================================================
