------------------------------- MODULE Pramana -------------------------------
(***************************************************************************)
(* How single beliefs are judged, without any state: whether a belief is   *)
(* valid for its pramana (engine/validity.py), how the trust matrix admits *)
(* it (engine/trust.py), what the fixed rules say of two beliefs           *)
(* (engine/qualifiers.py, engine/contradiction.py) and in which order they *)
(* defeat each other (engine/priority.py).                                 *)
(*                                                                         *)
(* A belief is described by a record a:                                    *)
(*   pramana, kind, integrity, root   of the belief and of its source      *)
(*   checks      the names of the validity checks it passes                *)
(*   coverage, recall   of a negative search, in percent                   *)
(*   subject, value     its content: what it speaks of, and the number or  *)
(*                      the polarity it states of that                     *)
(*   words       the tokens of the content                                 *)
(*   qualifiers  a function from qualifier names to values                 *)
(*   domain, live, competence, specificity                                 *)
(***************************************************************************)
EXTENDS Integers, Sequences, FiniteSets, SequencesExt

CONSTANTS
  Matrix,       \* trust.matrix: profile and stakes to a mode, a method and k
  MinCoverage,  \* trust.yogyata.min_coverage, in percent
  MinRecall,    \* trust.yogyata.min_recall
  Horizon,      \* bound: times in qualifiers are 0 .. Horizon
  Radix         \* bound: larger than every rank that is compared

ASSUME PramanaAssumption ==
  /\ MinCoverage \in 0..100 /\ MinRecall \in 0..100
  /\ Horizon \in Nat /\ Radix \in Nat \ {0}

Derivations == {"anumana", "arthapatti", "upamana"}
Methods == {"cross_source", "tool_recheck", "chain_audit", "human"}

\* What core/config.py demands of the matrix.
ASSUME MatrixAssumption ==
  \A profile \in DOMAIN Matrix : \A stakes \in DOMAIN Matrix[profile] :
    LET cell == Matrix[profile][stakes] IN
    \/ cell.mode \in {"paratah", "quarantine"} /\ cell.k \in 1..20 /\ cell.method \in Methods
    \/ cell.mode \in {"svatah", "yogyata", "reject"} /\ cell.k = 0 /\ cell.method = "none"

-----------------------------------------------------------------------------
(* Validity.                                                               *)

\* validate_content
WellFormed == {"atomic", "self_contained", "bounded"}

\* validate_belief: what each pramana requires.
Demanded(pramana) ==
  CASE pramana = "pratyaksha" -> {"evidence", "tool_ok", "parsed", "measured_only", "environment"}
    [] pramana = "shabda" -> {"evidence", "apta", "assertive", "span"}
    [] pramana = "anumana" -> {"warrant"}
    [] pramana = "arthapatti" -> {"warrant", "explanandum", "alternatives"}
    [] pramana = "upamana" -> {"warrant", "similarity"}
    [] pramana = "anupalabdhi" ->
         {"evidence", "succeeded", "complete", "corpus", "scope", "query", "parameters"}

\* assess_negative_search: the search was able to find what it did not find.
Yogya(a) == a.coverage \in MinCoverage..100 /\ a.recall \in MinRecall..100

Valid(a, premisesIn) ==
  /\ WellFormed \cup Demanded(a.pramana) \subseteq a.checks
  /\ a.pramana \in Derivations => premisesIn
  /\ a.pramana = "anupalabdhi" => Yogya(a)

\* A tool result that could not be parsed was observed all the same.
ValidObservation(a) == Valid([a EXCEPT !.checks = @ \cup {"parsed"}], TRUE)

-----------------------------------------------------------------------------
(* Admission.                                                              *)

\* trust_profile
Profile(a) ==
  CASE a.pramana = "pratyaksha" -> "pratyaksha_tool"
    [] a.pramana = "anupalabdhi" -> "anupalabdhi"
    [] a.pramana \in Derivations -> "anumana_registered"
    [] a.pramana = "shabda" /\ a.kind = "user" ->
         IF "about_self" \in a.checks THEN "user_self" ELSE "user_world"
    [] a.pramana = "shabda" /\ a.kind = "web" ->
         IF a.integrity = "semi" THEN "shabda_web_semi" ELSE "shabda_web_untrusted"
    [] a.pramana = "shabda" /\ a.kind \notin {"user", "web"} ->
         IF a.integrity = "trusted" THEN "shabda_internal_trusted" ELSE "shabda_web_untrusted"

StatusOfMode ==
  [svatah |-> "in", yogyata |-> "in", paratah |-> "pending", quarantine |-> "quarantined",
   reject |-> "out"]

\* determine_admission, at the effective stakes: a live fact that comes from an
\* earlier ledger must be observed again.
Trust(a, stakes) ==
  LET cell == Matrix[Profile(a)][stakes] IN
  IF a.kind = "ledger" /\ a.live
  THEN [status |-> "pending", method |-> "tool_recheck", k |-> 1]
  ELSE [status |-> StatusOfMode[cell.mode], method |-> cell.method, k |-> cell.k]

-----------------------------------------------------------------------------
(* Two beliefs.                                                            *)

\* _interval: as_of stands for either end that is not given.
From(q) == IF "valid_from" \in DOMAIN q THEN q["valid_from"]
           ELSE IF "as_of" \in DOMAIN q THEN q["as_of"] ELSE 0
To(q) == IF "valid_to" \in DOMAIN q THEN q["valid_to"]
         ELSE IF "as_of" \in DOMAIN q THEN q["as_of"] ELSE Horizon

\* reconcile_qualifiers
Reconciled(q1, q2) ==
  /\ \A key \in {"scope", "jurisdiction", "perspective", "version", "assumptions",
                 "as_of", "units"} \cap DOMAIN q1 \cap DOMAIN q2 : q1[key] = q2[key]
  /\ From(q1) <= To(q1) /\ From(q2) <= To(q2)
  /\ From(q1) <= To(q2) /\ From(q2) <= To(q1)

SameContent(a1, a2) == a1.subject = a2.subject /\ a1.value = a2.value

\* classify_deterministically: a negation of the other, or another number for the
\* same subject.
Classified(a1, a2) ==
  CASE ~Reconciled(a1.qualifiers, a2.qualifiers) -> "scope_mismatch"
    [] Reconciled(a1.qualifiers, a2.qualifiers) ->
         IF SameContent(a1, a2) THEN "compatible"
         ELSE IF a1.subject = a2.subject THEN "rebut" ELSE "uncertain"

\* candidate_pair, by the tokens two contents share.
Shared(a1, a2) == Cardinality(a1.words \cap a2.words)

\* priority.type_rank, by the type key: testimony is banded by the competence of
\* its source (in tenths), an inference gains by an audit it passed.
TypeRank(a, audited) ==
  CASE a.pramana = "pratyaksha" -> IF a.domain = "runtime_state" THEN 9 ELSE 5
    [] a.pramana = "shabda" -> IF a.competence >= 8 THEN 4 ELSE IF a.competence >= 5 THEN 3 ELSE 1
    [] a.pramana = "anupalabdhi" -> 3
    [] a.pramana = "anumana" -> IF audited THEN 4 ELSE 2
    [] a.pramana = "arthapatti" -> 2
    [] a.pramana = "upamana" -> 1

IntegrityRank == [trusted |-> 2, semi |-> 1, untrusted |-> 0]

\* compare_priority: lexicographic, recency last; positive evidence is above every
\* absence.  The tuple is one integer in base Radix.
Rank(a, audited) ==
  FoldLeft(LAMBDA sum, rank : (sum + rank) * Radix, 0,
           <<IF a.pramana = "anupalabdhi" THEN 0 ELSE 1, IntegrityRank[a.integrity],
             TypeRank(a, audited), a.competence, a.specificity>>)

Priority(rank, observed) == rank + observed
=============================================================================
