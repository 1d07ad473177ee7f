------------------------------- MODULE Relabel -------------------------------
(***************************************************************************)
(* The labelling engine (engine/defeat.py): the beliefs of an episode      *)
(* are labelled from their admission, their supports, their justifications *)
(* and the defeats between them by iterating to a fixed point, with doubt  *)
(* (samsaya, label "pending") where priorities tie or defeats run in a     *)
(* cycle.                                                                  *)
(*                                                                         *)
(* A graph g is a record:                                                  *)
(*   beliefs    the beliefs of the episode                                 *)
(*   admission  the admission status of each                               *)
(*   grounded   the basic beliefs with an active ingestion support         *)
(*   premises   the premises of each derived belief's justification        *)
(*   undercuts  pairs <<attacker, belief>>: an UNDERCUT of the             *)
(*              justification of the belief                                *)
(*   rebuts     pairs <<attacker, target>>: a REBUT                        *)
(*   priority   the priority of each belief, comparable integers           *)
(*   stale      beliefs older than the lifetime of their perishability     *)
(***************************************************************************)
EXTENDS Integers, Sequences, FiniteSets

Statuses == {"in", "out", "pending", "quarantined"}

Graphs(B) ==
  [beliefs : SUBSET B, admission : [B -> Statuses], grounded : SUBSET B,
   premises : [B -> SUBSET B], undercuts : SUBSET (B \X B), rebuts : SUBSET (B \X B),
   priority : [B -> Nat], stale : SUBSET B]

Labellings(g) == [g.beliefs -> Statuses]

In(s, b) == b \in DOMAIN s /\ s[b] = "in"

-----------------------------------------------------------------------------
(* One iteration.                                                          *)

\* _has_active_undercut, of the only justification of a derived belief.
Undercut(g, s, b) == \E u \in g.undercuts : u[2] = b /\ In(s, u[1])

\* _is_supported
Supported(g, s, b) ==
  \/ b \in g.grounded
  \/ /\ g.premises[b] # {}
     /\ \A p \in g.premises[b] : In(s, p)
     /\ ~Undercut(g, s, b)

\* _candidate_status, then _is_stale
Candidate(g, s, b) ==
  CASE g.admission[b] = "quarantined" -> "quarantined"
    [] g.admission[b] # "quarantined" /\ (g.admission[b] = "out" \/ ~Supported(g, s, b)) -> "out"
    [] g.admission[b] \in {"in", "pending"} /\ Supported(g, s, b) ->
         IF g.admission[b] = "in" /\ b \notin g.stale THEN "in" ELSE "pending"

Live(g, s, b) == Supported(g, s, b) /\ g.admission[b] \in {"in", "pending"}

\* The pairs, as sets, that an equal-priority rebut leaves in doubt.
Ties(g, s) ==
  {{r[1], r[2]} : r \in {r \in g.rebuts : /\ g.priority[r[1]] = g.priority[r[2]]
                                          /\ Live(g, s, r[1]) /\ Live(g, s, r[2])}}

\* A winning rebut counts from an attacker that was IN when the iteration began.
Defeated(g, s, b) ==
  /\ Supported(g, s, b)
  /\ \E r \in g.rebuts : /\ r[2] = b
                         /\ g.priority[r[1]] > g.priority[b]
                         /\ In(s, r[1])

NextLabels(g, s) ==
  [b \in g.beliefs |->
     IF Defeated(g, s, b) THEN "out"
     ELSE IF b \in UNION Ties(g, s) THEN "pending"
     ELSE Candidate(g, s, b)]

-----------------------------------------------------------------------------
(* The loop.                                                               *)

Elements(path) == {path[i] : i \in DOMAIN path}
Latest(path) == path[Len(path)]

\* The labellings the loop goes through until the next one repeats one of them,
\* or the iteration ceiling is reached.
Path(g, s, ceiling) ==
  LET Walk[path \in Seq(Labellings(g))] ==
        LET next == NextLabels(g, Latest(path)) IN
        IF next \in Elements(path) \/ Len(path) = ceiling THEN path
        ELSE Walk[Append(path, next)]
  IN  Walk[<<s>>]

\* _defeat_cycle_nodes: beliefs on a cycle of defeats, an undercut standing for
\* an edge to the owner of the justification.
Attacks(g) == g.undercuts \cup g.rebuts

OnDefeatCycle(g) ==
  LET Reach[n \in Nat] ==
        IF n = 0 THEN Attacks(g)
        ELSE Reach[n - 1] \cup
             {<<z[1][1], z[2][2]>> : z \in {z \in Reach[n - 1] \X Attacks(g) : z[1][2] = z[2][1]}}
  IN  {b \in g.beliefs : <<b, b>> \in Reach[Cardinality(g.beliefs)]}

\* The beliefs a cycle verdict puts in doubt: the ones on a defeat cycle that
\* were supported in the last iteration.
InDoubt(g, s) == {b \in OnDefeatCycle(g) : Supported(g, s, b)}

\* relabel.  ties are those of the last iteration; an oscillation only
\* overwrites the labels of the beliefs in doubt.
Result(labels, ties, oscillation) ==
  [labels |-> labels, ties |-> ties, oscillation |-> oscillation]

Doubted(g, labels, doubt) == [b \in g.beliefs |-> IF b \in doubt THEN "pending" ELSE labels[b]]

\* After the ceiling: unsupported beliefs lose their label, and without any
\* defeat cycle every supported belief is in doubt.
AtCeiling(g, s) ==
  LET labels == [b \in g.beliefs |-> IF Supported(g, s, b) THEN s[b]
                                     ELSE IF g.admission[b] = "quarantined" THEN "quarantined"
                                     ELSE "out"]
      involved == IF OnDefeatCycle(g) = {} THEN g.beliefs ELSE OnDefeatCycle(g)
  IN  Doubted(g, labels, {b \in involved : Supported(g, s, b)})

Relabelled(g, s, ceiling) ==
  LET path == Path(g, s, ceiling)
      last == Latest(path)
      next == NextLabels(g, last)
  IN  CASE next = last -> Result(next, Ties(g, last), FALSE)
        [] next # last /\ next \in Elements(path) ->
             Result(Doubted(g, next, InDoubt(g, last)), Ties(g, last), TRUE)
        [] next \notin Elements(path) ->
             Result(AtCeiling(g, next), Ties(g, last), TRUE)

\* _active_edges
ActiveEdges(g, s) ==
  {<<"undercut", u>> : u \in {u \in g.undercuts : In(s, u[1])}}
  \cup {<<"rebut", r>> : r \in {r \in g.rebuts : /\ In(s, r[1])
                                                 /\ g.priority[r[1]] > g.priority[r[2]]}}
=============================================================================
