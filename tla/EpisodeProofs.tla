---------------------------- MODULE EpisodeProofs ----------------------------
(***************************************************************************)
(* The safety invariants of EpisodeService, for any beliefs, callers and   *)
(* bounds: what concurrent readers and writers of one episode may have     *)
(* read, and why the last relabelling has missed nothing.                  *)
(***************************************************************************)
EXTENDS EpisodeService, SelectionProofs, FiniteSetTheorems

-----------------------------------------------------------------------------
(* Scripts.                                                                *)

Results == {"confirmed", "disconfirmed", "inconclusive"}

Steps ==
  {<<kind>> : kind \in {"admit", "detect", "relabel", "passive", "promote", "premises",
                        "audit", "stakes", "select", "render"}}
  \cup ({"complete", "judged"} \X Tasks \X Results)

\* A relabelling that will take place: completing a task may skip the one after it.
Sure(s, i) ==
  /\ i \in 1..Len(s) /\ s[i][1] = "relabel"
  /\ i = 1 \/ s[i - 1][1] # "complete"

\* What these steps write, or may start, a sure relabelling later in the script sees.
Unsettling == {"admit", "detect", "judged", "stakes", "audit"}

Covers(s, i) == \E j \in 1..Len(s) : j > i /\ Sure(s, j)

ScriptOK(s) ==
  /\ s \in Seq(Steps)
  /\ \A i \in 1..Len(s) :
       /\ s[i][1] \in Unsettling => Covers(s, i)
       /\ s[i][1] = "complete" => i < Len(s) /\ s[i + 1][1] = "relabel"
       /\ s[i][1] = "select" => i < Len(s) /\ s[i + 1][1] = "render"
       /\ s[i][1] = "render" => i = 1 \/ s[i - 1][1] = "select"
       /\ s[i][1] = "premises" => i = Len(s)
       /\ s[i][1] \in {"admit", "stakes"} => i = 1

-----------------------------------------------------------------------------
(* Tables and reads.                                                       *)

Fields == DOMAIN InitialTables(0)

About(tasks, beliefs) == \A t \in tasks : t.belief \in beliefs

TablesOK(d) ==
  /\ DOMAIN d = Fields
  /\ d.stakes \in Stakes /\ d.turn \in Nat
  /\ d.known \subseteq Beliefs /\ d.stale \subseteq d.known
  /\ d.status \in [Beliefs -> Statuses] /\ d.admission \in [Beliefs -> Statuses]
  /\ d.floor \in [Beliefs -> Stakes] /\ d.premises \in [Beliefs -> SUBSET Beliefs]
  /\ d.observed = [b \in Beliefs |-> d.observed[b]]
  /\ d.undercuts \subseteq Beliefs \X Beliefs /\ d.rebuts \subseteq d.known \X d.known
  /\ d.samsaya \in BOOLEAN
  /\ d.open \subseteq Tasks /\ Distinct(d.open) /\ About(d.open, d.known)
  /\ d.done \subseteq Beliefs \X Methods
  /\ d.conflicts \subseteq SUBSET Beliefs
  /\ d.rendered \subseteq d.known /\ d.notices \subseteq d.noticed /\ d.noticed \subseteq Beliefs
  /\ d.confirmed \in [Beliefs -> Nat] /\ d.defeated \in [Beliefs -> Nat]
  /\ d.unpromoted \subseteq SUBSET Basic

AdmissionOK(r) ==
  /\ r.fresh \subseteq Beliefs \ Verdicts /\ r.again \subseteq Beliefs
  /\ r.fresh \subseteq DOMAIN r.decision /\ DOMAIN r.decision \subseteq Beliefs
  /\ \A b \in DOMAIN r.decision : r.decision[b].status \in Statuses
  /\ r.floor \in Stakes /\ r.tasks \subseteq Tasks /\ r.premises \subseteq Beliefs
  /\ r.found \subseteq SUBSET Basic

StakesOK(r) ==
  /\ r.stakes \in Stakes
  /\ DOMAIN r.admission \subseteq Beliefs
  /\ \A b \in DOMAIN r.admission : r.admission[b] \in Statuses
  /\ r.tasks \subseteq Tasks

DetectionOK(r, known) ==
  /\ r = [edges |-> r.edges, asked |-> r.asked, classified |-> r.classified, tasks |-> r.tasks]
  /\ r.edges \subseteq known \X known
  /\ r.asked \subseteq SUBSET known /\ r.asked \subseteq Pairs
  /\ r.tasks \subseteq Tasks /\ About(r.tasks, known)

At(s, kind) == s # <<>> /\ Head(s)[1] = kind
Midway(s, r) == (At(s, "relabel") \/ At(s, "complete")) /\ r # None

\* What a caller has read is what its next step needs.
Fits(s, r, known) ==
  /\ ScriptOK(s)
  /\ s = <<>> => r = None
  /\ At(s, "admit") => AdmissionOK(r) /\ About(r.tasks, known \cup r.fresh)
  /\ At(s, "stakes") => StakesOK(r) /\ About(r.tasks, known)
  /\ At(s, "render") => r \subseteq known
  /\ At(s, "detect") /\ r # None => DetectionOK(r, known)
  /\ At(s, "relabel") /\ r # None => r \in LabelDrafts /\ About(r.tasks, known) /\ known # {}
  /\ At(s, "complete") /\ r # None => r \in CompletionDrafts

CallsOK ==
  /\ call = [c \in Callers |-> [script |-> call[c].script, read |-> call[c].read]]
  /\ \A c \in Callers : Fits(call[c].script, call[c].read, db.known)

LockOK ==
  /\ lock \in Callers \cup {None}
  /\ \A c \in Callers : Midway(call[c].script, call[c].read) <=> lock = c

TypeInv == TablesOK(db) /\ CallsOK /\ LockOK

-----------------------------------------------------------------------------
(* What the safety invariants need.                                        *)

Admitting(c) == Doing(c, "admit")
Relabels(c) == Doing(c, "relabel") /\ call[c].read # None
Completes(c) == Doing(c, "complete") /\ call[c].read # None

\* Beliefs are admitted under identifiers that nobody else uses.
FreshOK ==
  \A c \in Callers : Admitting(c) =>
    /\ call[c].read.fresh \cap db.known = {}
    /\ \A o \in Callers \ {c} : Admitting(o) => call[c].read.fresh \cap call[o].read.fresh = {}

\* Only the caller that holds the lock is about to count an outcome.
CountsOK ==
  /\ \A b \in Beliefs : db.confirmed[b] <= 1 /\ db.defeated[b] <= 1
  /\ \A c \in Callers : Relabels(c) => \A b \in call[c].read.defeated : db.defeated[b] = 0
  /\ \A c \in Callers : Completes(c) =>
       LET r == call[c].read IN
       /\ r.confirmed => db.confirmed[r.task.belief] = 0
       /\ r.defeated => db.defeated[r.task.belief] = 0

\* A relabelling under way that takes a cleanly shown belief out announces it.
NoticesOK ==
  /\ clean \subseteq db.rendered
  /\ \A b \in clean : db.status[b] = "in" \/ b \in db.noticed
  /\ \A c \in Callers : Relabels(c) =>
       \A b \in clean \cap DOMAIN call[c].read.labels :
         call[c].read.labels[b] = "in" \/ b \in db.noticed \/ b \in call[c].read.announced

Seen(d) == [Graph(d) EXCEPT !.stale = {b \in @ : d.status[b] # "in"}]
LabelsOf(d) == [b \in d.known |-> d.status[b]]

\* The stored labels, conflicts and active edges are those of a fixed point.
Settled(d) ==
  ~d.samsaya =>
    /\ NextLabels(Seen(d), LabelsOf(d)) = LabelsOf(d)
    /\ d.conflicts = Ties(Seen(d), LabelsOf(d))
    /\ d.active = ActiveEdges(Seen(d), LabelsOf(d))

\* Before the first belief there is nothing to settle.
EmptyOK(d) ==
  d.known = {} => d.conflicts = {} /\ d.active = {} /\ d.undercuts = {} /\ d.rebuts = {}

\* A caller has a relabelling before it that has not read yet.
Owes(s, r) == \E i \in 1..Len(s) : Sure(s, i) /\ (i = 1 => r = None)

\* Whatever the last relabelling did not see, another one will.
CoveredOK ==
  \/ raised
  \/ \E c \in Callers : Owes(call[c].script, call[c].read)
  \/ /\ \A c \in Callers : Relabels(c) => Settled(WithLabels(db, call[c].read))
     /\ (\A c \in Callers : ~Relabels(c)) => Settled(db)

IInv == TypeInv /\ FreshOK /\ CountsOK /\ NoticesOK /\ EmptyOK(db) /\ CoveredOK

-----------------------------------------------------------------------------
(* Scripts: what is left of one, and one put before another.               *)

LEMMA TailOf ==
  ASSUME NEW T, NEW s \in Seq(T), s # <<>>
  PROVE  /\ Len(s) \in Nat /\ Len(s) > 0 /\ Head(s) = s[1] /\ s[1] \in T
         /\ Tail(s) \in Seq(T) /\ Len(Tail(s)) = Len(s) - 1
         /\ \A i \in 1..Len(s) - 1 : Tail(s)[i] = s[i + 1]
OBVIOUS

LEMMA SureInTail ==
  ASSUME NEW s \in Seq(Steps), s # <<>>, NEW i \in 2..Len(s), Sure(s, i)
  PROVE  Sure(Tail(s), i - 1)
<1>1. Tail(s)[i - 1] = s[i] /\ i - 1 \in 1..Len(Tail(s))
  BY TailOf
<1>2. i - 1 # 1 => Tail(s)[i - 2] = s[i - 1]
  BY TailOf
<1>3. i - 1 - 1 = i - 2
  OBVIOUS
<1> QED BY <1>1, <1>2, <1>3 DEF Sure

LEMMA CoversInTail ==
  ASSUME NEW s \in Seq(Steps), s # <<>>, NEW i \in 2..Len(s), Covers(s, i)
  PROVE  Covers(Tail(s), i - 1)
<1>1. PICK j \in 1..Len(s) : j > i /\ Sure(s, j)
  BY DEF Covers
<1>2. j \in 2..Len(s) /\ j - 1 > i - 1 /\ j - 1 \in 1..Len(Tail(s))
  BY <1>1, TailOf
<1> QED BY <1>1, <1>2, SureInTail DEF Covers

LEMMA TailOK ==
  ASSUME NEW s, ScriptOK(s), s # <<>>
  PROVE  ScriptOK(Tail(s))
<1> DEFINE y == Tail(s)
<1>0. s \in Seq(Steps)
  BY DEF ScriptOK
<1>1. Len(s) \in Nat /\ y \in Seq(Steps) /\ Len(y) = Len(s) - 1
  BY <1>0, TailOf
<1>2. \A i \in 1..Len(s) - 1 : y[i] = s[i + 1]
  BY <1>0, TailOf
<1>3. \A i \in 2..Len(s) : Covers(s, i) => Covers(y, i - 1)
  BY <1>0, CoversInTail
<1> HIDE DEF y
<1> SUFFICES ASSUME NEW i \in 1..Len(y)
             PROVE  /\ y[i][1] \in Unsettling => Covers(y, i)
                    /\ y[i][1] = "complete" => i < Len(y) /\ y[i + 1][1] = "relabel"
                    /\ y[i][1] = "select" => i < Len(y) /\ y[i + 1][1] = "render"
                    /\ y[i][1] = "render" => i = 1 \/ y[i - 1][1] = "select"
                    /\ y[i][1] = "premises" => i = Len(y)
                    /\ y[i][1] \in {"admit", "stakes"} => i = 1
  BY <1>1 DEF ScriptOK, y
<1> DEFINE k == i + 1
<1>4. k \in 2..Len(s) /\ k \in 1..Len(s) /\ k # 1 /\ k - 1 = i
  BY <1>1
<1>5. y[i] = s[k]
  BY <1>1, <1>2
<1>6. k < Len(s) => i < Len(y) /\ y[i + 1] = s[k + 1]
  BY <1>1, <1>2
<1>7. i # 1 => y[i - 1] = s[k - 1]
  BY <1>1, <1>2
<1>8. k = Len(s) => i = Len(y)
  BY <1>1
<1> HIDE DEF k
<1>9. Covers(s, k) => Covers(y, i)
  BY <1>3, <1>4
<1> QED BY <1>4, <1>5, <1>6, <1>7, <1>8, <1>9 DEF ScriptOK

LEMMA ConcatOf ==
  ASSUME NEW T, NEW x \in Seq(T), NEW s \in Seq(T)
  PROVE  /\ Len(x) \in Nat /\ Len(s) \in Nat /\ x \o s \in Seq(T) /\ Len(x \o s) = Len(x) + Len(s)
         /\ \A i \in 1..Len(x) : (x \o s)[i] = x[i]
         /\ \A i \in 1..Len(s) : (x \o s)[Len(x) + i] = s[i]
OBVIOUS

\* No script ends in the middle of a completion.
LEMMA LastOf ==
  ASSUME NEW x, ScriptOK(x), x # <<>>
  PROVE  Len(x) \in 1..Len(x) /\ x[Len(x)][1] # "complete" /\ x[Len(x)][1] # "select"
<1>1. Len(x) \in Nat /\ Len(x) # 0
  BY TailOf DEF ScriptOK
<1>2. Len(x) \in 1..Len(x) /\ ~(Len(x) < Len(x))
  BY <1>1
<1> QED BY <1>2 DEF ScriptOK

LEMMA SureAfter ==
  ASSUME NEW x, ScriptOK(x), NEW s \in Seq(Steps), NEW i, Sure(s, i)
  PROVE  Sure(x \o s, Len(x) + i) /\ Len(x) + i > Len(x)
<1>0. x \in Seq(Steps) /\ i \in 1..Len(s)
  BY DEF ScriptOK, Sure
<1>1. Len(x) \in Nat /\ Len(x) + i \in 1..Len(x \o s) /\ (x \o s)[Len(x) + i] = s[i]
  BY <1>0, ConcatOf
<1>2. CASE i # 1
  <2>1. i - 1 \in 1..Len(s) /\ (Len(x) + i) - 1 = Len(x) + (i - 1)
    BY <1>0, <1>1, <1>2
  <2>2. (x \o s)[(Len(x) + i) - 1] = s[i - 1]
    BY <1>0, <2>1, ConcatOf
  <2> QED BY <1>0, <1>1, <2>2, <1>2 DEF Sure
<1>3. CASE i = 1 /\ x = <<>>
  BY <1>0, <1>1, <1>3 DEF Sure
<1>4. CASE i = 1 /\ x # <<>>
  <2>1. (Len(x) + i) - 1 = Len(x) /\ Len(x) \in 1..Len(x)
    BY <1>1, <1>4, LastOf
  <2>2. (x \o s)[(Len(x) + i) - 1] = x[Len(x)]
    BY <1>0, <2>1, ConcatOf
  <2> QED BY <1>0, <1>1, <2>2, <1>4, LastOf DEF Sure
<1> QED BY <1>2, <1>3, <1>4, <1>0, <1>1

LEMMA SureBefore ==
  ASSUME NEW x \in Seq(Steps), NEW s \in Seq(Steps), NEW i, Sure(x, i)
  PROVE  Sure(x \o s, i)
<1>1. i \in 1..Len(x) /\ i \in 1..Len(x \o s) /\ (x \o s)[i] = x[i]
  BY ConcatOf DEF Sure
<1>2. i # 1 => (x \o s)[i - 1] = x[i - 1]
  BY ConcatOf, <1>1
<1> QED BY <1>1, <1>2 DEF Sure

\* What may be put before a script that waits for nothing.
Closed(x) == ScriptOK(x) /\ \A i \in 1..Len(x) : x[i][1] # "premises"
Open(s) == ScriptOK(s) /\ (s # <<>> => s[1][1] \notin {"admit", "stakes", "render"})

LEMMA ConcatOK ==
  ASSUME NEW x, Closed(x), NEW s, Open(s)
  PROVE  ScriptOK(x \o s)
<1>0. x \in Seq(Steps) /\ s \in Seq(Steps) /\ ScriptOK(x) /\ ScriptOK(s)
  BY DEF Closed, Open, ScriptOK
<1> DEFINE y == x \o s
<1>1. Len(x) \in Nat /\ Len(s) \in Nat /\ y \in Seq(Steps) /\ Len(y) = Len(x) + Len(s)
  BY <1>0, ConcatOf
<1>2. \A i \in 1..Len(x) : y[i] = x[i]
  BY <1>0, ConcatOf
<1>3. \A i \in 1..Len(s) : y[Len(x) + i] = s[i]
  BY <1>0, ConcatOf
<1>4. \A i : Sure(x, i) => Sure(y, i) /\ i \in 1..Len(x)
  BY <1>0, SureBefore DEF Sure
<1>5. \A i : Sure(s, i) => Sure(y, Len(x) + i) /\ i \in 1..Len(s)
  BY <1>0, SureAfter DEF Sure
<1> HIDE DEF y
<1> SUFFICES ASSUME NEW i \in 1..Len(y)
             PROVE  /\ y[i][1] \in Unsettling => Covers(y, i)
                    /\ y[i][1] = "complete" => i < Len(y) /\ y[i + 1][1] = "relabel"
                    /\ y[i][1] = "select" => i < Len(y) /\ y[i + 1][1] = "render"
                    /\ y[i][1] = "render" => i = 1 \/ y[i - 1][1] = "select"
                    /\ y[i][1] = "premises" => i = Len(y)
                    /\ y[i][1] \in {"admit", "stakes"} => i = 1
  BY <1>1 DEF ScriptOK, y
<1>6. CASE i \in 1..Len(x)
  <2>1. y[i] = x[i] /\ i =< Len(y)
    BY <1>1, <1>2, <1>6
  <2>2. i < Len(x) => i < Len(y) /\ y[i + 1] = x[i + 1]
    BY <1>1, <1>2, <1>6
  <2>3. i # 1 => y[i - 1] = x[i - 1]
    BY <1>1, <1>2, <1>6
  <2>4. x[i][1] \in Unsettling => Covers(y, i)
    <3> SUFFICES ASSUME x[i][1] \in Unsettling PROVE Covers(y, i)
      OBVIOUS
    <3>1. PICK j \in 1..Len(x) : j > i /\ Sure(x, j)
      BY <1>0, <1>6 DEF ScriptOK, Covers
    <3>2. j \in 1..Len(y)
      BY <1>1
    <3> QED BY <3>1, <3>2, <1>4 DEF Covers
  <2>5. x[i][1] # "premises"
    BY <1>6 DEF Closed
  <2> QED BY <2>1, <2>2, <2>3, <2>4, <2>5, <1>0, <1>6 DEF ScriptOK
<1>7. CASE i \notin 1..Len(x)
  <2> DEFINE k == i - Len(x)
  <2>0. k \in 1..Len(s) /\ i = Len(x) + k
    BY <1>1, <1>7
  <2> HIDE DEF k
  <2>1. y[i] = s[k]
    BY <1>3, <2>0
  <2>2. k < Len(s) => i < Len(y) /\ y[i + 1] = s[k + 1]
    <3> SUFFICES ASSUME k < Len(s) PROVE i < Len(y) /\ y[i + 1] = s[k + 1]
      OBVIOUS
    <3>1. k + 1 \in 1..Len(s) /\ i + 1 = Len(x) + (k + 1) /\ i < Len(y)
      BY <1>1, <2>0
    <3> QED BY <3>1, <1>3
  <2>3. k # 1 => y[i - 1] = s[k - 1]
    <3> SUFFICES ASSUME k # 1 PROVE y[i - 1] = s[k - 1]
      OBVIOUS
    <3>1. k - 1 \in 1..Len(s) /\ i - 1 = Len(x) + (k - 1)
      BY <1>1, <2>0
    <3> QED BY <3>1, <1>3
  <2>4. s[k][1] \in Unsettling => Covers(y, i)
    <3> SUFFICES ASSUME s[k][1] \in Unsettling PROVE Covers(y, i)
      OBVIOUS
    <3>1. PICK j \in 1..Len(s) : j > k /\ Sure(s, j)
      BY <1>0, <2>0 DEF ScriptOK, Covers
    <3>2. Len(x) + j \in 1..Len(y) /\ Len(x) + j > i
      BY <1>1, <3>1, <2>0
    <3> QED BY <3>1, <3>2, <1>5 DEF Covers
  <2>5. s[1][1] \notin {"admit", "stakes", "render"}
    <3>1. s # <<>>
      BY <2>0
    <3> QED BY <3>1 DEF Open
  <2>6. k = Len(s) => i = Len(y)
    BY <1>1, <2>0
  <2>7. s[k][1] \notin {"admit", "stakes"}
    BY <2>5, <1>0, <2>0 DEF ScriptOK
  <2>8. s[k][1] = "render" => s[k - 1][1] = "select" /\ k # 1
    BY <2>5, <1>0, <2>0 DEF ScriptOK
  <2> QED BY <2>1, <2>2, <2>3, <2>4, <2>6, <2>7, <2>8, <1>0, <2>0 DEF ScriptOK
<1> QED BY <1>6, <1>7

LEMMA HeadOf ==
  ASSUME NEW s, ScriptOK(s), s # <<>>
  PROVE  Head(s) = s[1] /\ 1 \in 1..Len(s) /\ s[1] \in Steps /\ s \in Seq(Steps)
BY TailOf DEF ScriptOK

LEMMA TailOpen ==
  ASSUME NEW s, ScriptOK(s), s # <<>>, s[1][1] # "select"
  PROVE  Open(Tail(s))
<1>1. s \in Seq(Steps) /\ Len(s) \in Nat
  BY TailOf DEF ScriptOK
<1>2. ScriptOK(Tail(s))
  BY TailOK
<1> SUFFICES ASSUME Tail(s) # <<>> PROVE Tail(s)[1][1] \notin {"admit", "stakes", "render"}
  BY <1>2 DEF Open
<1>3. 2 \in 1..Len(s) /\ Tail(s)[1] = s[2] /\ 2 - 1 = 1 /\ 2 # 1
  BY <1>1, TailOf
<1> QED BY <1>3 DEF ScriptOK

LEMMA OwesTail ==
  ASSUME NEW s, ScriptOK(s), s # <<>>, NEW r, Owes(s, r), s[1][1] # "relabel" \/ r # None
  PROVE  Owes(Tail(s), None)
<1>1. s \in Seq(Steps) /\ Len(s) \in Nat /\ Len(Tail(s)) = Len(s) - 1
  BY TailOf DEF ScriptOK
<1>2. PICK i \in 1..Len(s) : Sure(s, i) /\ (i = 1 => r = None)
  BY DEF Owes
<1>3. i \in 2..Len(s)
  BY <1>1, <1>2 DEF Sure
<1>4. Sure(Tail(s), i - 1) /\ i - 1 \in 1..Len(Tail(s))
  BY <1>1, <1>2, <1>3, SureInTail
<1> QED BY <1>4 DEF Owes

LEMMA OwesSkip ==
  ASSUME NEW s, ScriptOK(s), s # <<>>, s[1][1] = "complete"
  PROVE  /\ ScriptOK(Tail(Tail(s))) /\ Open(Tail(Tail(s)))
         /\ \A r : Owes(s, r) => Owes(Tail(Tail(s)), None)
<1>1. s \in Seq(Steps) /\ Len(s) \in Nat /\ Len(Tail(s)) = Len(s) - 1 /\ 1 \in 1..Len(s)
  BY TailOf DEF ScriptOK
<1>a. 1 < Len(s) /\ s[1 + 1][1] = "relabel"
  BY <1>1 DEF ScriptOK
<1>2. s[2][1] = "relabel" /\ 2 \in 1..Len(s) /\ Len(Tail(s)) >= 1 /\ 1 \in 1..Len(s) - 1
  BY <1>1, <1>a
<1>b. Tail(s) # <<>> /\ Tail(s)[1] = s[2]
  <2>1. \A i \in 1..Len(s) - 1 : Tail(s)[i] = s[i + 1]
    BY <1>1, TailOf
  <2>2. Tail(s)[1] = s[1 + 1] /\ 1 + 1 = 2
    BY <1>2, <2>1
  <2> QED BY <1>2, <2>2
<1>3. ScriptOK(Tail(s)) /\ Tail(s) # <<>> /\ Tail(s)[1] = s[2]
  BY <1>b, TailOK
<1>4. ScriptOK(Tail(Tail(s))) /\ Open(Tail(Tail(s)))
  BY <1>2, <1>3, TailOK, TailOpen
<1>5. ASSUME NEW r, Owes(s, r) PROVE Owes(Tail(Tail(s)), None)
  <2>1. PICK i \in 1..Len(s) : Sure(s, i)
    BY <1>5 DEF Owes
  <2>2. i # 1 /\ i # 2
    BY <2>1, <1>2 DEF Sure
  <2>3. i \in 2..Len(s) /\ i - 1 \in 2..Len(Tail(s)) /\ Tail(s) \in Seq(Steps)
    BY <1>1, <2>2, TailOf
  <2>4. Sure(Tail(s), i - 1)
    BY <1>1, <2>1, <2>3, SureInTail
  <2>5. Sure(Tail(Tail(s)), (i - 1) - 1)
    BY <1>3, <2>3, <2>4, SureInTail
  <2>6. (i - 1) - 1 \in 1..Len(Tail(Tail(s)))
    BY <2>5 DEF Sure
  <2> QED BY <2>5, <2>6 DEF Owes
<1> QED BY <1>4, <1>5

LEMMA OwesConcat ==
  ASSUME NEW x, ScriptOK(x), NEW s, ScriptOK(s), Owes(s, None)
  PROVE  Owes(x \o s, None)
<1>1. PICK i \in 1..Len(s) : Sure(s, i)
  BY DEF Owes
<1>2. Sure(x \o s, Len(x) + i)
  BY <1>1, SureAfter DEF ScriptOK
<1>3. Len(x) + i \in 1..Len(x \o s)
  BY <1>2 DEF Sure
<1> QED BY <1>2, <1>3 DEF Owes

LEMMA OwesCovered ==
  ASSUME NEW s, ScriptOK(s), s # <<>>, s[1][1] \in Unsettling
  PROVE  Owes(Tail(s), None)
<1>1. s \in Seq(Steps) /\ 1 \in 1..Len(s) /\ Len(s) \in Nat
  BY TailOf DEF ScriptOK
<1>2. PICK j \in 1..Len(s) : j > 1 /\ Sure(s, j)
  BY <1>1 DEF ScriptOK, Covers
<1>3. j \in 2..Len(s)
  BY <1>2
<1>4. Sure(Tail(s), j - 1)
  BY <1>1, <1>2, <1>3, SureInTail
<1>5. j - 1 \in 1..Len(Tail(s))
  BY <1>4 DEF Sure
<1> QED BY <1>4, <1>5 DEF Owes

-----------------------------------------------------------------------------
(* The scripts of the operations.                                          *)

LEMMA PlainSteps ==
  /\ <<"admit">> \in Steps /\ <<"detect">> \in Steps /\ <<"relabel">> \in Steps
  /\ <<"passive">> \in Steps /\ <<"promote">> \in Steps /\ <<"premises">> \in Steps
  /\ <<"audit">> \in Steps /\ <<"stakes">> \in Steps /\ <<"select">> \in Steps
  /\ <<"render">> \in Steps
BY DEF Steps

LEMMA TaskSteps ==
  ASSUME NEW t \in Tasks, NEW result \in Results
  PROVE  <<"complete", t, result>> \in Steps /\ <<"judged", t, result>> \in Steps
BY DEF Steps

LEMMA SameSequence ==
  ASSUME NEW T, NEW x \in Seq(T), NEW y \in Seq(T), Len(x) = Len(y),
         \A i \in 1..Len(x) : x[i] = y[i]
  PROVE  x = y
OBVIOUS

LEMMA WrittenFour ==
  ASSUME NEW a \in Steps, NEW b \in Steps, NEW c \in Steps, NEW d \in Steps
  PROVE  <<a>> \o <<b, c, d>> = <<a, b, c, d>>
<1> DEFINE x == <<a>> \o <<b, c, d>>
           y == <<a, b, c, d>>
<1>1. x \in Seq(Steps) /\ Len(x) = 4 /\ x[1] = a /\ x[2] = b /\ x[3] = c /\ x[4] = d
  OBVIOUS
<1>2. y \in Seq(Steps) /\ Len(y) = 4 /\ y[1] = a /\ y[2] = b /\ y[3] = c /\ y[4] = d
  OBVIOUS
<1> HIDE DEF x, y
<1>3. \A i \in 1..4 : i = 1 \/ i = 2 \/ i = 3 \/ i = 4
  OBVIOUS
<1>4. x = y
  BY <1>1, <1>2, <1>3, SameSequence
<1> QED BY <1>4 DEF x, y

LEMMA WrittenFive ==
  ASSUME NEW a \in Steps, NEW b \in Steps, NEW c \in Steps, NEW d \in Steps, NEW e \in Steps
  PROVE  <<a, b>> \o <<c, d, e>> = <<a, b, c, d, e>>
<1> DEFINE x == <<a, b>> \o <<c, d, e>>
           y == <<a, b, c, d, e>>
<1>1. x \in Seq(Steps) /\ Len(x) = 5 /\ x[1] = a /\ x[2] = b /\ x[3] = c /\ x[4] = d /\ x[5] = e
  OBVIOUS
<1>2. y \in Seq(Steps) /\ Len(y) = 5 /\ y[1] = a /\ y[2] = b /\ y[3] = c /\ y[4] = d /\ y[5] = e
  OBVIOUS
<1> HIDE DEF x, y
<1>3. \A i \in 1..5 : i = 1 \/ i = 2 \/ i = 3 \/ i = 4 \/ i = 5
  OBVIOUS
<1>4. x = y
  BY <1>1, <1>2, <1>3, SameSequence
<1> QED BY <1>4 DEF x, y

LEMMA WrittenSteps ==
  ASSUME NEW a \in Steps, NEW b \in Steps, NEW c \in Steps
  PROVE  <<a>> \in Seq(Steps) /\ <<a, b>> \in Seq(Steps) /\ <<a, b, c>> \in Seq(Steps)
OBVIOUS

LEMMA TaskStep ==
  ASSUME NEW x \in Steps, x[1] \in {"complete", "judged"}
  PROVE  x[2] \in Tasks /\ x[3] \in Results
BY DEF Steps

LEMMA EmptyScript == ScriptOK(<<>>) /\ Open(<<>>) /\ \A r : ~Owes(<<>>, r)
BY DEF ScriptOK, Open, Owes

LEMMA RelabelScript == Closed(<<Relabelling>>) /\ Open(<<Relabelling>>) /\ Owes(<<Relabelling>>, None)
<1>1. <<Relabelling>> \in Seq(Steps) /\ Sure(<<Relabelling>>, 1)
  BY PlainSteps DEF Relabelling, Sure
<1> QED BY <1>1 DEF Relabelling, Closed, Open, ScriptOK, Owes, Unsettling

LEMMA CompletionScript ==
  ASSUME NEW t \in Tasks, NEW result \in Results
  PROVE  Closed(Completion(t, result)) /\ Open(Completion(t, result))
<1>1. Completion(t, result) \in Seq(Steps)
  <2>1. <<"complete", t, result>> \in Steps /\ <<"relabel">> \in Steps
    BY PlainSteps, TaskSteps
  <2> QED BY <2>1, WrittenSteps DEF Relabelling, Completion
<1> QED BY <1>1 DEF Relabelling, Completion, Closed, Open, ScriptOK, Unsettling

LEMMA AfterScript ==
  Closed(AfterNewBeliefs) /\ Open(AfterNewBeliefs) /\ Owes(AfterNewBeliefs, None)
<1>1. AfterNewBeliefs \in Seq(Steps) /\ Len(AfterNewBeliefs) = 3 /\ Sure(AfterNewBeliefs, 2)
  BY PlainSteps DEF Relabelling, AfterNewBeliefs, Sure
<1>2. Covers(AfterNewBeliefs, 1)
  BY <1>1 DEF Covers
<1> QED BY <1>1, <1>2 DEF Relabelling, AfterNewBeliefs, Closed, Open, ScriptOK, Owes, Unsettling

LEMMA AdmissionScript ==
  Closed(Admission) /\ Owes(Admission, None) /\ Admission # <<>> /\ Head(Admission) = <<"admit">>
<1> DEFINE y == <<<<"admit">>, <<"detect">>, Relabelling, <<"passive">>>>
<1>0. Admission = y
  <2>1. /\ <<"admit">> \in Steps /\ <<"detect">> \in Steps
        /\ <<"relabel">> \in Steps /\ <<"passive">> \in Steps
    BY PlainSteps
  <2> DEFINE a == <<"admit">>
             b == <<"detect">>
             c == <<"relabel">>
             d == <<"passive">>
  <2>2. Admission = <<a>> \o <<b, c, d>> /\ y = <<a, b, c, d>>
    BY DEF Admission, AfterNewBeliefs, Relabelling
  <2> HIDE DEF a, b, c, d, y
  <2>4. a \in Steps /\ b \in Steps /\ c \in Steps /\ d \in Steps
    BY <2>1 DEF a, b, c, d
  <2>3. <<a>> \o <<b, c, d>> = <<a, b, c, d>>
    BY <2>4, WrittenFour
  <2> QED BY <2>2, <2>3
<1>1. y \in Seq(Steps) /\ Len(y) = 4 /\ Sure(y, 3)
  BY PlainSteps DEF Relabelling, Sure
<1>2. Covers(y, 1) /\ Covers(y, 2) /\ Owes(y, None)
  BY <1>1 DEF Covers, Owes
<1>3. ScriptOK(y)
  BY <1>1, <1>2 DEF Relabelling, ScriptOK, Unsettling
<1> QED BY <1>0, <1>1, <1>2, <1>3 DEF Closed, Relabelling

LEMMA InferenceScript == LET s == <<Relabelling, <<"premises">>>> IN ScriptOK(s) /\ Owes(s, None)
<1> DEFINE s == <<Relabelling, <<"premises">>>>
<1>1. s \in Seq(Steps) /\ Len(s) = 2 /\ Sure(s, 1)
  BY PlainSteps DEF Relabelling, Sure
<1> QED BY <1>1 DEF Relabelling, ScriptOK, Owes, Unsettling

LEMMA StakesScript == ScriptOK(<<<<"stakes">>, Relabelling>>)
<1> DEFINE s == <<<<"stakes">>, Relabelling>>
<1>1. s \in Seq(Steps) /\ Len(s) = 2 /\ Sure(s, 2)
  BY PlainSteps DEF Relabelling, Sure
<1>2. Covers(s, 1)
  BY <1>1 DEF Covers
<1> QED BY <1>1, <1>2 DEF Relabelling, ScriptOK, Unsettling

LEMMA ContextScript ==
  /\ ScriptOK(<<>> \o <<Relabelling, <<"select">>, <<"render">>>>)
  /\ ScriptOK(<<<<"promote">>, <<"audit">>>> \o <<Relabelling, <<"select">>, <<"render">>>>)
<1> DEFINE x == <<<<"promote">>, <<"audit">>>>
           s == <<Relabelling, <<"select">>, <<"render">>>>
           y == <<<<"promote">>, <<"audit">>, Relabelling, <<"select">>, <<"render">>>>
<1>1. s \in Seq(Steps) /\ Len(s) = 3 /\ x \o s = y /\ <<>> \o s = s
  <2>1. /\ <<"promote">> \in Steps /\ <<"audit">> \in Steps
        /\ <<"relabel">> \in Steps /\ <<"select">> \in Steps /\ <<"render">> \in Steps
    BY PlainSteps
  <2>2. s \in Seq(Steps) /\ Len(s) = 3
    BY <2>1 DEF Relabelling
  <2> DEFINE a == <<"promote">>
             b == <<"audit">>
             c == <<"relabel">>
             d == <<"select">>
             e == <<"render">>
  <2>4. x = <<a, b>> /\ s = <<c, d, e>> /\ y = <<a, b, c, d, e>>
    BY DEF Relabelling
  <2>5. a \in Steps /\ b \in Steps /\ c \in Steps /\ d \in Steps /\ e \in Steps
    BY <2>1
  <2> HIDE DEF a, b, c, d, e, x, s, y
  <2>7. <<a, b>> \o <<c, d, e>> = <<a, b, c, d, e>>
    BY <2>5, WrittenFive
  <2>6. <<a, b>> \o <<c, d, e>> = <<a, b, c, d, e>> /\ <<>> \o <<c, d, e>> = <<c, d, e>>
    BY <2>5, <2>7
  <2>3. x \o s = y /\ <<>> \o s = s
    BY <2>4, <2>6
  <2> QED BY <2>2, <2>3
<1>2. y \in Seq(Steps) /\ Len(y) = 5 /\ Sure(y, 3)
  BY PlainSteps DEF Relabelling, Sure
<1>3. Covers(y, 2)
  BY <1>2 DEF Covers
<1>4. ScriptOK(s)
  BY <1>1 DEF Relabelling, ScriptOK, Unsettling
<1>5. ScriptOK(y)
  BY <1>2, <1>3 DEF Relabelling, ScriptOK, Unsettling
<1> QED BY <1>1, <1>4, <1>5

LEMMA MaintenanceScript == ScriptOK(AfterNewBeliefs \o <<<<"promote">>, <<"audit">>, Relabelling>>)
<1> DEFINE y == <<<<"promote">>, <<"audit">>, Relabelling>>
<1>1. y \in Seq(Steps) /\ Len(y) = 3 /\ Sure(y, 3)
  BY PlainSteps DEF Relabelling, Sure
<1>2. Covers(y, 2)
  BY <1>1 DEF Covers
<1>3. Open(y)
  BY <1>1, <1>2 DEF Relabelling, ScriptOK, Open, Unsettling
<1>4. ScriptOK(AfterNewBeliefs \o y)
  <2> HIDE DEF y
  <2> QED BY <1>3, AfterScript, ConcatOK
<1> QED BY <1>4

\* A verdict is recorded before the audited task is completed.
LEMMA JudgedScript ==
  ASSUME NEW t \in Tasks, NEW result \in Results, NEW s, Open(s), Owes(s, None)
  PROVE  ScriptOK(<<<<"judged", t, result>>>> \o Completion(t, result) \o s)
<1> DEFINE x == <<<<"judged", t, result>>>>
           m == Completion(t, result)
           y == m \o s
           z == x \o m \o s
<1>0. <<"judged", t, result>> \in Steps
  BY TaskSteps
<1>1. Closed(m) /\ ScriptOK(s) /\ s \in Seq(Steps) /\ m \in Seq(Steps) /\ x \in Seq(Steps)
  <2>1. x \in Seq(Steps)
    BY <1>0, WrittenSteps
  <2>2. Closed(m)
    BY CompletionScript
  <2> HIDE DEF x, m
  <2> QED BY <2>1, <2>2 DEF Open, Closed, ScriptOK
<1>2. m[1][1] = "complete" /\ m # <<>>
  BY DEF Completion
<1>3. ScriptOK(y) /\ Owes(y, None) /\ y \in Seq(Steps)
  BY <1>1, ConcatOK, OwesConcat DEF Closed, ScriptOK
<1>4. z = x \o y /\ Len(x) = 1 /\ x[1][1] = "judged"
  BY <1>1
<1>5. y # <<>> /\ y[1] = m[1]
  BY <1>1, <1>2
<1> HIDE DEF x, y, z, m
<1>6. Len(y) \in Nat /\ z \in Seq(Steps) /\ Len(z) = Len(y) + 1 /\ z[1] = x[1]
      /\ \A i \in 1..Len(y) : z[1 + i] = y[i]
  <2>1. 1 \in 1..Len(x) /\ Len(x) = 1
    BY <1>4
  <2>2. z = x \o y /\ x \in Seq(Steps) /\ y \in Seq(Steps)
    BY <1>1, <1>3, <1>4
  <2>3. Len(y) \in Nat /\ z \in Seq(Steps) /\ Len(z) = 1 + Len(y) /\ z[1] = x[1]
    BY <2>1, <2>2, ConcatOf
  <2>4. \A i \in 1..Len(y) : z[Len(x) + i] = y[i]
    BY <2>2, ConcatOf
  <2> QED BY <2>1, <2>3, <2>4
<1>7. PICK j \in 1..Len(y) : Sure(y, j)
  BY <1>3 DEF Owes
<1>8. j # 1
  BY <1>2, <1>5, <1>7 DEF Sure
<1>9. \A k \in 1..Len(y) : k # 1 => (Sure(y, k) => Sure(z, 1 + k))
  <2> SUFFICES ASSUME NEW k \in 1..Len(y), k # 1, Sure(y, k) PROVE Sure(z, 1 + k)
    OBVIOUS
  <2>1. k - 1 \in 1..Len(y) /\ (1 + k) - 1 = 1 + (k - 1) /\ 1 + k \in 1..Len(z)
    BY <1>6
  <2> QED BY <2>1, <1>6 DEF Sure
<1>10. Covers(z, 1)
  <2>1. 1 + j \in 1..Len(z) /\ 1 + j > 1
    BY <1>6
  <2> QED BY <2>1, <1>7, <1>8, <1>9 DEF Covers
<1> SUFFICES ASSUME NEW i \in 1..Len(z)
             PROVE  /\ z[i][1] \in Unsettling => Covers(z, i)
                    /\ z[i][1] = "complete" => i < Len(z) /\ z[i + 1][1] = "relabel"
                    /\ z[i][1] = "select" => i < Len(z) /\ z[i + 1][1] = "render"
                    /\ z[i][1] = "render" => i = 1 \/ z[i - 1][1] = "select"
                    /\ z[i][1] = "premises" => i = Len(z)
                    /\ z[i][1] \in {"admit", "stakes"} => i = 1
  BY <1>6 DEF ScriptOK, z, y, x, m
<1>11. CASE i = 1
  BY <1>4, <1>6, <1>10, <1>11
<1>12. CASE i # 1
  <2> DEFINE k == i - 1
  <2>1. k \in 1..Len(y) /\ i = 1 + k /\ z[i] = y[k]
    BY <1>6, <1>12
  <2>2. k < Len(y) => i < Len(z) /\ z[i + 1] = y[k + 1]
    <3> SUFFICES ASSUME k < Len(y) PROVE i < Len(z) /\ z[i + 1] = y[k + 1]
      OBVIOUS
    <3>1. k + 1 \in 1..Len(y) /\ i + 1 = 1 + (k + 1) /\ i < Len(z)
      BY <1>6, <2>1
    <3> QED BY <3>1, <1>6
  <2>3. k # 1 => z[i - 1] = y[k - 1]
    <3> SUFFICES ASSUME k # 1 PROVE z[i - 1] = y[k - 1]
      OBVIOUS
    <3>1. k - 1 \in 1..Len(y) /\ i - 1 = 1 + (k - 1)
      BY <1>6, <2>1
    <3> QED BY <3>1, <1>6
  <2>4. k = Len(y) => i = Len(z)
    BY <1>6
  <2> HIDE DEF k
  <2>5. y[k][1] \in Unsettling => Covers(z, i)
    <3> SUFFICES ASSUME y[k][1] \in Unsettling PROVE Covers(z, i)
      OBVIOUS
    <3>1. PICK l \in 1..Len(y) : l > k /\ Sure(y, l)
      BY <1>3, <2>1 DEF ScriptOK, Covers
    <3>2. l # 1 /\ 1 + l \in 1..Len(z) /\ 1 + l > i
      BY <1>6, <2>1, <3>1
    <3> QED BY <3>1, <3>2, <1>9 DEF Covers
  <2>6. y[1][1] = "complete"
    BY <1>2, <1>5
  <2> QED BY <2>1, <2>2, <2>3, <2>4, <2>5, <2>6, <1>3 DEF ScriptOK
<1> QED BY <1>11, <1>12

LEMMA SweepScript ==
  ASSUME NEW todo \in Seq(Tasks)
  PROVE  Closed(Sweep(todo)) /\ Open(Sweep(todo))
<1> DEFINE y == Sweep(todo)
           n == 2 * Len(todo)
<1>0. Len(todo) \in Nat /\ n \in Nat
  OBVIOUS
<1>1. \A i \in 1..n : i % 2 = 1 => (i + 1) \div 2 \in 1..Len(todo) /\ i < n /\ (i + 1) % 2 # 1
  BY <1>0
<1>2. \A i \in 1..n : i % 2 = 1 => todo[(i + 1) \div 2] \in Tasks
  BY <1>1
<1>3. \A i \in 1..n : i % 2 = 1 => y[i] \in Steps /\ y[i][1] = "complete"
  <2> SUFFICES ASSUME NEW i \in 1..n, i % 2 = 1 PROVE y[i] \in Steps /\ y[i][1] = "complete"
    OBVIOUS
  <2>1. y[i] = <<"complete", todo[(i + 1) \div 2], "confirmed">>
    BY DEF Sweep, Completion
  <2>2. y[i] \in Steps
    <3> HIDE DEF y
    <3> QED BY <1>2, <2>1, TaskSteps DEF Results
  <2>3. <<"complete", todo[(i + 1) \div 2], "confirmed">>[1] = "complete"
    OBVIOUS
  <2> QED BY <2>1, <2>2, <2>3
<1>4. \A i \in 1..n : i % 2 # 1 => y[i] = <<"relabel">>
  BY DEF Sweep, Relabelling
<1>5. \A i \in 1..n : y[i] \in Steps /\ y[i][1] \in {"complete", "relabel"}
  <2>1. <<"relabel">> \in Steps /\ <<"relabel">>[1] = "relabel"
    BY PlainSteps
  <2> HIDE DEF y, n
  <2> QED BY <1>3, <1>4, <2>1
<1>6. y \in Seq(Steps) /\ Len(y) = n
  <2>1. y = [i \in 1..n |-> y[i]]
    BY DEF Sweep
  <2> HIDE DEF y, n
  <2> QED BY <2>1, <1>0, <1>5
<1>7. \A i \in 1..n : y[i][1] = "complete" => i < n /\ y[i + 1][1] = "relabel"
  <2> SUFFICES ASSUME NEW i \in 1..n, y[i][1] = "complete" PROVE i < n /\ y[i + 1][1] = "relabel"
    OBVIOUS
  <2>1. i % 2 = 1
    BY <1>4
  <2>2. i < n /\ i + 1 \in 1..n /\ (i + 1) % 2 # 1
    BY <1>0, <1>1, <2>1
  <2> QED BY <2>2, <1>4
<1> HIDE DEF y, n
<1>8. ScriptOK(y)
  BY <1>0, <1>5, <1>6, <1>7 DEF ScriptOK, Unsettling
<1>9. y # <<>> => y[1][1] \in {"complete", "relabel"}
  BY <1>0, <1>5, <1>6
<1> QED BY <1>5, <1>6, <1>8, <1>9 DEF Closed, Open, y

-----------------------------------------------------------------------------
(* The tables after an update: what it writes, and that it leaves the rest.*)

LEMMA FieldsAre ==
  Fields = {"stakes", "turn", "known", "stale", "status", "admission", "floor", "observed",
            "premises", "audited", "undercuts", "rebuts", "active", "classified", "samsaya",
            "open", "done", "conflicts", "resolved", "rendered", "noticed", "notices", "born",
            "confirmed", "defeated", "unpromoted"}
BY DEF Fields, InitialTables

\* e differs from d in no field but these.
Same(d, e, but) == DOMAIN e = Fields /\ \A f \in Fields \ but : e[f] = d[f]

LEMMA BeliefsAdmittedIs ==
  ASSUME NEW d, DOMAIN d = Fields, NEW r
  PROVE  LET e == BeliefsAdmitted(d, r) IN
         /\ Same(d, e, {"known", "stale", "status", "admission", "floor", "observed", "premises"})
         /\ e.known = d.known \cup r.fresh /\ e.stale = d.stale \ r.fresh
         /\ e.status = [b \in Beliefs |-> IF b \in r.fresh THEN r.decision[b].status ELSE d.status[b]]
         /\ e.admission = [b \in Beliefs |-> IF b \in r.fresh THEN r.decision[b].status ELSE d.admission[b]]
         /\ e.floor = [b \in Beliefs |-> IF b \in r.fresh THEN r.floor ELSE d.floor[b]]
         /\ e.observed = [b \in Beliefs |-> IF b \in r.fresh THEN r.observed ELSE d.observed[b]]
         /\ e.premises = [b \in Beliefs |-> IF b \in r.fresh THEN r.premises ELSE d.premises[b]]
BY FieldsAre DEF BeliefsAdmitted, Same

LEMMA RefreshedIs ==
  ASSUME NEW d, DOMAIN d = Fields, NEW r
  PROVE  LET e == Refreshed(d, r)
             changed == DOMAIN r.decision \ r.fresh
         IN /\ Same(d, e, {"stale", "observed", "admission"})
            /\ e.stale = d.stale \ r.again
            /\ e.observed = [b \in Beliefs |-> IF b \in r.again THEN r.observed ELSE d.observed[b]]
            /\ e.admission = [b \in Beliefs |-> IF b \in changed THEN r.decision[b].status ELSE d.admission[b]]
BY FieldsAre DEF Refreshed, Same

LEMMA TasksCreatedIs ==
  ASSUME NEW d, DOMAIN d = Fields, NEW tasks
  PROVE  LET e == TasksCreated(d, tasks) IN Same(d, e, {"open"}) /\ e.open = d.open \cup tasks
BY FieldsAre DEF TasksCreated, Same

LEMMA EvidenceKeptIs ==
  ASSUME NEW d, DOMAIN d = Fields, NEW r
  PROVE  LET e == EvidenceKept(d, r) IN
         /\ Same(d, e, {"unpromoted"})
         /\ e.unpromoted = (d.unpromoted \cup r.found) \ r.promoted
BY FieldsAre DEF EvidenceKept, Same

LEMMA AdmittedIs ==
  ASSUME NEW d, DOMAIN d = Fields, NEW r
  PROVE  LET e == Admitted(d, r)
             changed == DOMAIN r.decision \ r.fresh
         IN /\ Same(d, e, {"known", "stale", "status", "admission", "floor", "observed", "premises",
                           "open", "unpromoted"})
            /\ e.known = d.known \cup r.fresh /\ e.stale = (d.stale \ r.fresh) \ r.again
            /\ e.status = [b \in Beliefs |-> IF b \in r.fresh THEN r.decision[b].status ELSE d.status[b]]
            /\ e.floor = [b \in Beliefs |-> IF b \in r.fresh THEN r.floor ELSE d.floor[b]]
            /\ e.premises = [b \in Beliefs |-> IF b \in r.fresh THEN r.premises ELSE d.premises[b]]
            /\ e.observed = [b \in Beliefs |-> e.observed[b]]
            /\ DOMAIN e.admission = Beliefs
            /\ \A b \in Beliefs : e.admission[b] = IF b \in changed THEN r.decision[b].status
                                                   ELSE IF b \in r.fresh THEN r.decision[b].status
                                                   ELSE d.admission[b]
            /\ e.admission = [b \in Beliefs |-> e.admission[b]]
            /\ e.open = d.open \cup r.tasks
            /\ e.unpromoted = (d.unpromoted \cup r.found) \ r.promoted
<1> DEFINE d1 == BeliefsAdmitted(d, r)
           d2 == Refreshed(d1, r)
           d3 == TasksCreated(d2, r.tasks)
           d4 == EvidenceKept(d3, r)
<1>0. Admitted(d, r) = d4
  BY DEF Admitted
<1> HIDE DEF d1, d2, d3, d4
<1>1. /\ Same(d, d1, {"known", "stale", "status", "admission", "floor", "observed", "premises"})
      /\ d1.known = d.known \cup r.fresh /\ d1.stale = d.stale \ r.fresh
      /\ d1.status = [b \in Beliefs |-> IF b \in r.fresh THEN r.decision[b].status ELSE d.status[b]]
      /\ d1.admission = [b \in Beliefs |-> IF b \in r.fresh THEN r.decision[b].status ELSE d.admission[b]]
      /\ d1.floor = [b \in Beliefs |-> IF b \in r.fresh THEN r.floor ELSE d.floor[b]]
      /\ d1.observed = [b \in Beliefs |-> IF b \in r.fresh THEN r.observed ELSE d.observed[b]]
      /\ d1.premises = [b \in Beliefs |-> IF b \in r.fresh THEN r.premises ELSE d.premises[b]]
  BY BeliefsAdmittedIs DEF d1
<1>2. DOMAIN d1 = Fields
  BY <1>1 DEF Same
<1>3. /\ Same(d1, d2, {"stale", "observed", "admission"})
      /\ d2.stale = d1.stale \ r.again
      /\ d2.observed = [b \in Beliefs |-> IF b \in r.again THEN r.observed ELSE d1.observed[b]]
      /\ d2.admission = [b \in Beliefs |-> IF b \in DOMAIN r.decision \ r.fresh
                                           THEN r.decision[b].status ELSE d1.admission[b]]
  BY <1>2, RefreshedIs DEF d2
<1>4. DOMAIN d2 = Fields
  BY <1>3 DEF Same
<1>5. Same(d2, d3, {"open"}) /\ d3.open = d2.open \cup r.tasks
  BY <1>4, TasksCreatedIs DEF d3
<1>6. DOMAIN d3 = Fields
  BY <1>5 DEF Same
<1>7. Same(d3, d4, {"unpromoted"}) /\ d4.unpromoted = (d3.unpromoted \cup r.found) \ r.promoted
  BY <1>6, EvidenceKeptIs DEF d4
<1>8. Same(d, d4, {"known", "stale", "status", "admission", "floor", "observed", "premises",
                   "open", "unpromoted"})
  BY <1>1, <1>3, <1>5, <1>7 DEF Same
<1>9. /\ d4.known = d1.known /\ d4.status = d1.status /\ d4.floor = d1.floor /\ d4.premises = d1.premises
      /\ d4.stale = d2.stale /\ d4.observed = d2.observed /\ d4.admission = d2.admission
      /\ d4.open = d3.open /\ d3.unpromoted = d.unpromoted /\ d2.open = d.open
  BY <1>1, <1>3, <1>5, <1>7, FieldsAre DEF Same
<1>10. \A b \in Beliefs : d2.admission[b] = IF b \in DOMAIN r.decision \ r.fresh
         THEN r.decision[b].status ELSE IF b \in r.fresh THEN r.decision[b].status ELSE d.admission[b]
  BY <1>1, <1>3
<1> QED BY <1>0, <1>1, <1>3, <1>5, <1>7, <1>8, <1>9, <1>10

LEMMA StatusesChangedIs ==
  ASSUME NEW d, DOMAIN d = Fields, NEW r
  PROVE  LET e == StatusesChanged(d, r) IN
         /\ Same(d, e, {"status", "defeated"})
         /\ e.status = [b \in Beliefs |-> IF b \in DOMAIN r.labels THEN r.labels[b] ELSE d.status[b]]
         /\ e.defeated = [b \in Beliefs |-> IF b \in r.defeated THEN d.defeated[b] + 1 ELSE d.defeated[b]]
BY FieldsAre DEF StatusesChanged, Same

LEMMA AnnouncedIs ==
  ASSUME NEW d, DOMAIN d = Fields, NEW r
  PROVE  LET e == Announced(d, r) IN
         /\ Same(d, e, {"notices", "noticed", "born"})
         /\ e.notices = d.notices \cup r.announced /\ e.noticed = d.noticed \cup r.announced
BY FieldsAre DEF Announced, Same

LEMMA ConflictsChangedIs ==
  ASSUME NEW d, DOMAIN d = Fields, NEW r
  PROVE  LET e == ConflictsChanged(d, r) IN
         /\ Same(d, e, {"active", "samsaya", "conflicts", "resolved"})
         /\ e.active = r.active /\ e.samsaya = r.samsaya
         /\ e.conflicts = (d.conflicts \cup r.opened) \ r.settled
BY FieldsAre DEF ConflictsChanged, Same

LEMMA WithLabelsIs ==
  ASSUME NEW d, DOMAIN d = Fields, NEW r
  PROVE  LET e == WithLabels(d, r) IN
         /\ Same(d, e, {"status", "defeated", "notices", "noticed", "born", "active", "samsaya",
                        "conflicts", "resolved", "open"})
         /\ e.status = [b \in Beliefs |-> IF b \in DOMAIN r.labels THEN r.labels[b] ELSE d.status[b]]
         /\ e.defeated = [b \in Beliefs |-> IF b \in r.defeated THEN d.defeated[b] + 1 ELSE d.defeated[b]]
         /\ e.notices = d.notices \cup r.announced /\ e.noticed = d.noticed \cup r.announced
         /\ e.active = r.active /\ e.samsaya = r.samsaya
         /\ e.conflicts = (d.conflicts \cup r.opened) \ r.settled
         /\ e.open = d.open \cup r.tasks
<1> DEFINE d1 == StatusesChanged(d, r)
           d2 == Announced(d1, r)
           d3 == ConflictsChanged(d2, r)
           d4 == TasksCreated(d3, r.tasks)
<1>0. WithLabels(d, r) = d4
  BY DEF WithLabels
<1> HIDE DEF d1, d2, d3, d4
<1>1. /\ Same(d, d1, {"status", "defeated"})
      /\ d1.status = [b \in Beliefs |-> IF b \in DOMAIN r.labels THEN r.labels[b] ELSE d.status[b]]
      /\ d1.defeated = [b \in Beliefs |-> IF b \in r.defeated THEN d.defeated[b] + 1 ELSE d.defeated[b]]
  BY StatusesChangedIs DEF d1
<1>2. DOMAIN d1 = Fields
  BY <1>1 DEF Same
<1>3. /\ Same(d1, d2, {"notices", "noticed", "born"})
      /\ d2.notices = d1.notices \cup r.announced /\ d2.noticed = d1.noticed \cup r.announced
  BY <1>2, AnnouncedIs DEF d2
<1>4. DOMAIN d2 = Fields
  BY <1>3 DEF Same
<1>5. /\ Same(d2, d3, {"active", "samsaya", "conflicts", "resolved"})
      /\ d3.active = r.active /\ d3.samsaya = r.samsaya
      /\ d3.conflicts = (d2.conflicts \cup r.opened) \ r.settled
  BY <1>4, ConflictsChangedIs DEF d3
<1>6. DOMAIN d3 = Fields
  BY <1>5 DEF Same
<1>7. Same(d3, d4, {"open"}) /\ d4.open = d3.open \cup r.tasks
  BY <1>6, TasksCreatedIs DEF d4
<1>8. Same(d, d4, {"status", "defeated", "notices", "noticed", "born", "active", "samsaya",
                   "conflicts", "resolved", "open"})
  BY <1>1, <1>3, <1>5, <1>7 DEF Same
<1>9. /\ d4.status = d1.status /\ d4.defeated = d1.defeated /\ d1.notices = d.notices
      /\ d1.noticed = d.noticed /\ d4.notices = d2.notices /\ d4.noticed = d2.noticed
      /\ d4.active = d3.active /\ d4.samsaya = d3.samsaya /\ d4.conflicts = d3.conflicts
      /\ d2.conflicts = d.conflicts /\ d3.open = d.open
  BY <1>1, <1>3, <1>5, <1>7, FieldsAre DEF Same
<1> QED BY <1>0, <1>1, <1>3, <1>5, <1>7, <1>8, <1>9

LEMMA CompletedIs ==
  ASSUME NEW d, DOMAIN d = Fields, NEW r, d.admission = [b \in Beliefs |-> d.admission[b]],
         d.confirmed = [b \in Beliefs |-> d.confirmed[b]], d.defeated = [b \in Beliefs |-> d.defeated[b]]
  PROVE  LET e == Completed(d, r)
             t == r.task
         IN /\ Same(d, e, {"open", "done", "admission", "confirmed", "defeated"})
            /\ e.open = d.open \ {t} /\ e.done = d.done \cup {KeyOf(t)}
            /\ e.admission = [b \in Beliefs |-> IF b = t.belief /\ r.admission # {}
                                                THEN CHOOSE s \in r.admission : TRUE ELSE d.admission[b]]
            /\ e.confirmed = [b \in Beliefs |-> IF b = t.belief /\ r.confirmed THEN d.confirmed[b] + 1
                                                ELSE d.confirmed[b]]
            /\ e.defeated = [b \in Beliefs |-> IF b = t.belief /\ r.defeated THEN d.defeated[b] + 1
                                               ELSE d.defeated[b]]
BY FieldsAre DEF Completed, Same

LEMMA ContradictedIs ==
  ASSUME NEW d, DOMAIN d = Fields, NEW r
  PROVE  LET e == Contradicted(d, r) IN
         /\ Same(d, e, {"classified", "rebuts", "open"})
         /\ e.rebuts = d.rebuts \cup r.edges /\ e.open = d.open \cup r.tasks
BY FieldsAre DEF Contradicted, Same

LEMMA JudgedIs ==
  ASSUME NEW d, TablesOK(d), NEW v \in Beliefs, NEW premises
  PROVE  LET e == Judged(d, v, premises)
             decision == Cell(v, d.stakes)
         IN /\ Same(d, e, {"open", "known", "status", "admission", "floor", "observed", "premises"})
            /\ e.open = d.open \cup TaskFor(v, decision)
            /\ e.known = d.known \cup {v}
            /\ e.status = [b \in Beliefs |-> IF b = v THEN decision.status ELSE d.status[b]]
            /\ e.admission = [b \in Beliefs |-> IF b = v THEN decision.status ELSE d.admission[b]]
            /\ e.floor = [b \in Beliefs |-> IF b = v THEN d.stakes ELSE d.floor[b]]
            /\ e.observed = [b \in Beliefs |-> e.observed[b]]
            /\ e.premises = [b \in Beliefs |-> IF b = v THEN premises ELSE d.premises[b]]
<1> DEFINE decision == Cell(v, d.stakes)
           x == TasksCreated(d, TaskFor(v, decision))
<1>1. Same(d, x, {"open"}) /\ x.open = d.open \cup TaskFor(v, decision)
  BY TasksCreatedIs DEF TablesOK
<1>2. /\ x.known = d.known /\ x.status = d.status /\ x.admission = d.admission /\ x.floor = d.floor
      /\ x.observed = d.observed /\ x.premises = d.premises /\ x.stakes = d.stakes
  BY <1>1, FieldsAre DEF Same
<1>3. /\ x.status = [b \in Beliefs |-> x.status[b]] /\ x.admission = [b \in Beliefs |-> x.admission[b]]
      /\ x.floor = [b \in Beliefs |-> x.floor[b]] /\ x.premises = [b \in Beliefs |-> x.premises[b]]
      /\ x.observed = [b \in Beliefs |-> x.observed[b]]
  BY <1>2 DEF TablesOK
<1> DEFINE e == [x EXCEPT !.known = @ \cup {v}, !.status[v] = decision.status, !.admission[v] = decision.status,
     !.floor[v] = d.stakes, !.observed[v] = ops, !.premises[v] = premises]
<1>4. Judged(d, v, premises) = e
  BY DEF Judged
<1> HIDE DEF decision, x
<1>5. DOMAIN x = Fields
  BY <1>1 DEF Same
<1>6. Same(x, e, {"known", "status", "admission", "floor", "observed", "premises"})
  BY <1>5, FieldsAre DEF Same
<1>7. /\ e.known = x.known \cup {v}
      /\ e.status = [b \in Beliefs |-> IF b = v THEN decision.status ELSE x.status[b]]
      /\ e.admission = [b \in Beliefs |-> IF b = v THEN decision.status ELSE x.admission[b]]
      /\ e.floor = [b \in Beliefs |-> IF b = v THEN d.stakes ELSE x.floor[b]]
      /\ e.observed = [b \in Beliefs |-> e.observed[b]]
      /\ e.premises = [b \in Beliefs |-> IF b = v THEN premises ELSE x.premises[b]]
  BY <1>3, <1>5, FieldsAre
<1> HIDE DEF e
<1>8. Same(d, e, {"open", "known", "status", "admission", "floor", "observed", "premises"}) /\ e.open = x.open
  BY <1>1, <1>6, FieldsAre DEF Same
<1> QED BY <1>1, <1>2, <1>4, <1>7, <1>8 DEF decision

-----------------------------------------------------------------------------
(* Open tasks, and their types.                                            *)

LEMMA KeyType == ASSUME NEW t \in Tasks PROVE KeyOf(t) \in Beliefs \X Methods
BY DEF Tasks, KeyOf

LEMMA InsertableDistinct ==
  ASSUME NEW open, NEW tasks, Distinct(open), Insertable(tasks, open)
  PROVE  Distinct(open \cup tasks)
<1>1. \A t \in open, u \in tasks : KeyOf(t) # KeyOf(u)
  <2> SUFFICES ASSUME NEW t \in open, NEW u \in tasks, KeyOf(t) = KeyOf(u) PROVE FALSE
    OBVIOUS
  <2>1. KeyOf(t) \in Keys(open) /\ KeyOf(u) \in Keys(tasks)
    BY DEF Keys
  <2> QED BY <2>1 DEF Insertable
<1> QED BY <1>1 DEF Insertable, Distinct

LEMMA OneDistinct ==
  ASSUME NEW open, NEW task, Distinct(open), KeyOf(task) \notin Keys(open)
  PROVE  Distinct(open \cup {task})
BY DEF Distinct, Keys

LEMMA FewerDistinct ==
  ASSUME NEW open, NEW gone, Distinct(open)
  PROVE  Distinct(open \ gone)
BY DEF Distinct

LEMMA MinIn ==
  ASSUME NEW S, S # {}, S \subseteq Nat
  PROVE  Min(S) \in S
<1>1. PICK n \in S : \A m \in S : n =< m
  BY LeastNatural
<1> QED BY <1>1 DEF Min

LEMMA MaxIn ==
  ASSUME NEW x \in Nat, NEW y \in Nat
  PROVE  Max({x, y}) \in {x, y}
<1>1. \E n \in {x, y} : \A m \in {x, y} : n >= m
  OBVIOUS
<1> QED BY <1>1 DEF Max

\* What the trust matrix answers.
Decisions == [status : Statuses, method : Methods \cup {"none"}, k : 0..20]

LEMMA TrustType ==
  ASSUME NEW b \in Beliefs, NEW stakes \in Stakes
  PROVE  Cell(b, stakes) \in Decisions
<1> DEFINE cell == Matrix[Profile(Attr[b])][stakes]
<1>1. Profile(Attr[b]) \in DOMAIN Matrix /\ stakes \in DOMAIN Matrix[Profile(Attr[b])]
  BY EpisodeAssumption
<1>2. /\ cell.mode \in {"paratah", "quarantine", "svatah", "yogyata", "reject"}
      /\ cell.k \in 0..20 /\ cell.method \in Methods \cup {"none"}
  BY <1>1, MatrixAssumption
<1>3. StatusOfMode[cell.mode] \in Statuses
  BY <1>2 DEF StatusOfMode, Statuses
<1>4. Cell(b, stakes) = Trust(Attr[b], stakes)
  BY DEF Cell, Cells
<1>5. "pending" \in Statuses /\ "tool_recheck" \in Methods
  BY DEF Statuses, Methods
<1>6. Trust(Attr[b], stakes) = IF Attr[b].kind = "ledger" /\ Attr[b].live
        THEN [status |-> "pending", method |-> "tool_recheck", k |-> 1]
        ELSE [status |-> StatusOfMode[cell.mode], method |-> cell.method, k |-> cell.k]
  BY DEF Trust
<1> HIDE DEF cell
<1> QED BY <1>2, <1>3, <1>4, <1>5, <1>6 DEF Decisions

LEMMA DecisionType ==
  ASSUME NEW d, TablesOK(d), NEW b \in Beliefs, NEW stakes \in Stakes
  PROVE  Decision(d, b, stakes) \in Decisions
<1>1. d.floor[b] \in Stakes /\ stakes \in Nat /\ d.floor[b] \in Nat
  BY EpisodeAssumption DEF TablesOK
<1>2. Max({stakes, d.floor[b]}) \in Stakes
  BY <1>1, MaxIn
<1> QED BY <1>2, TrustType DEF Decision

LEMMA TaskForType ==
  ASSUME NEW b \in Beliefs, NEW decision, decision.method \in Methods \cup {"none"}, decision.k \in 0..20
  PROVE  TaskFor(b, decision) \subseteq Tasks
<1>1. Max({1, decision.k}) \in {1, decision.k}
  BY MaxIn
<1>2. Max({1, decision.k}) = 0 => decision.k = 0 /\ FALSE
  <2>1. \A m \in {1, decision.k} : Max({1, decision.k}) >= m
    <3>1. \E n \in {1, decision.k} : \A m \in {1, decision.k} : n >= m
      OBVIOUS
    <3> QED BY <3>1 DEF Max
  <2> QED BY <2>1
<1>3. Max({1, decision.k}) \in 1..20
  BY <1>1, <1>2
<1> QED BY <1>3 DEF TaskFor, Tasks

LEMMA TasksFinite == IsFiniteSet(Tasks)
<1> DEFINE S == (Beliefs \X Methods) \X (1..20)
           f == [x \in S |-> [belief |-> x[1][1], method |-> x[1][2], k |-> x[2]]]
<1>1. IsFiniteSet(Beliefs)
  BY EpisodeAssumption
<1>2. IsFiniteSet(Methods)
  <2>1. Methods = ((({} \cup {"cross_source"}) \cup {"tool_recheck"}) \cup {"chain_audit"}) \cup {"human"}
    BY DEF Methods
  <2> QED BY <2>1, FS_EmptySet, FS_AddElement
<1>3. IsFiniteSet(1..20)
  <2> DEFINE last == 20
  <2>1. last \in Int /\ 1 \in Int
    OBVIOUS
  <2> HIDE DEF last
  <2>2. IsFiniteSet(1..last)
    BY <2>1, FS_Interval
  <2> QED BY <2>2 DEF last
<1>4. IsFiniteSet(S)
  BY <1>1, <1>2, <1>3, FS_Product
<1>5. f \in [S -> Tasks]
  BY DEF Tasks
<1>6. \A t \in Tasks : \E x \in S : f[x] = t
  <2> SUFFICES ASSUME NEW t \in Tasks PROVE \E x \in S : f[x] = t
    OBVIOUS
  <2>1. t.belief \in Beliefs /\ t.method \in Methods /\ t.k \in 1..20
        /\ t = [belief |-> t.belief, method |-> t.method, k |-> t.k]
    BY DEF Tasks
  <2>2. <<<<t.belief, t.method>>, t.k>> \in S
    BY <2>1
  <2>3. f[<<<<t.belief, t.method>>, t.k>>] = t
    BY <2>1, <2>2
  <2> QED BY <2>2, <2>3
<1> HIDE DEF f, S
<1>7. f \in Surjection(S, Tasks)
  BY <1>5, <1>6 DEF Surjection
<1> QED BY <1>4, <1>7, FS_Surjection

\* Some tasks, in the order in which they will be completed.
LEMMA ListedTasks ==
  ASSUME NEW tasks \in SUBSET Tasks
  PROVE  SetToSeq(tasks) \in Seq(Tasks)
<1>1. IsFiniteSet(tasks)
  BY TasksFinite, FS_Subset
<1>2. Cardinality(tasks) \in Nat /\ Bijection(1..Cardinality(tasks), tasks) # {}
  BY <1>1, FS_CardinalityType DEF ExistsBijection
<1>3. PICK g \in [1..Cardinality(tasks) -> tasks] : IsInjective(g)
  BY <1>2 DEF Bijection, Injection
<1>4. SetToSeq(tasks) \in [1..Cardinality(tasks) -> tasks]
  BY <1>3 DEF SetToSeq
<1> DEFINE y == SetToSeq(tasks)
<1> HIDE DEF y
<1>5. y \in Seq(tasks)
  BY <1>2, <1>4 DEF y
<1> QED BY <1>5 DEF y

-----------------------------------------------------------------------------
(* Every update keeps the tables well formed.                              *)

LEMMA AdmittedOK ==
  ASSUME NEW d, TablesOK(d), NEW r, AdmissionOK(r), Insertable(r.tasks, d.open),
         About(r.tasks, d.known \cup r.fresh)
  PROVE  TablesOK(Admitted(d, r))
<1> DEFINE e == Admitted(d, r)
           changed == DOMAIN r.decision \ r.fresh
<1>0. DOMAIN d = Fields
  BY DEF TablesOK
<1>1. /\ Same(d, e, {"known", "stale", "status", "admission", "floor", "observed", "premises",
                     "open", "unpromoted"})
      /\ e.known = d.known \cup r.fresh /\ e.stale = (d.stale \ r.fresh) \ r.again
      /\ e.status = [b \in Beliefs |-> IF b \in r.fresh THEN r.decision[b].status ELSE d.status[b]]
      /\ e.floor = [b \in Beliefs |-> IF b \in r.fresh THEN r.floor ELSE d.floor[b]]
      /\ e.premises = [b \in Beliefs |-> IF b \in r.fresh THEN r.premises ELSE d.premises[b]]
      /\ e.observed = [b \in Beliefs |-> e.observed[b]]
      /\ DOMAIN e.admission = Beliefs
      /\ \A b \in Beliefs : e.admission[b] = IF b \in changed THEN r.decision[b].status
                                             ELSE IF b \in r.fresh THEN r.decision[b].status
                                             ELSE d.admission[b]
      /\ e.admission = [b \in Beliefs |-> e.admission[b]]
      /\ e.open = d.open \cup r.tasks
      /\ e.unpromoted = (d.unpromoted \cup r.found) \ r.promoted
  BY <1>0, AdmittedIs
<1>2. e.admission = [b \in Beliefs |-> e.admission[b]]
  BY <1>1
<1>3. \A b \in Beliefs : e.admission[b] = IF b \in changed THEN r.decision[b].status
                                          ELSE IF b \in r.fresh THEN r.decision[b].status
                                          ELSE d.admission[b]
  BY <1>1
<1>4. Distinct(e.open)
  BY <1>1, InsertableDistinct DEF TablesOK
<1> HIDE DEF e
<1>5. /\ DOMAIN e = Fields /\ e.stakes = d.stakes /\ e.turn = d.turn /\ e.undercuts = d.undercuts
      /\ e.rebuts = d.rebuts /\ e.samsaya = d.samsaya /\ e.done = d.done /\ e.conflicts = d.conflicts
      /\ e.rendered = d.rendered /\ e.notices = d.notices /\ e.noticed = d.noticed
      /\ e.confirmed = d.confirmed /\ e.defeated = d.defeated
  BY <1>1, FieldsAre DEF Same
<1>6. e.known \subseteq Beliefs /\ e.stale \subseteq e.known /\ d.known \subseteq e.known
  BY <1>1 DEF TablesOK, AdmissionOK
<1>7. e.status \in [Beliefs -> Statuses]
  BY <1>1 DEF TablesOK, AdmissionOK
<1>8. e.admission \in [Beliefs -> Statuses]
  <2>1. \A b \in Beliefs : e.admission[b] \in Statuses
    BY <1>3 DEF TablesOK, AdmissionOK
  <2> QED BY <1>2, <2>1
<1>9. e.floor \in [Beliefs -> Stakes] /\ e.premises \in [Beliefs -> SUBSET Beliefs]
  BY <1>1 DEF TablesOK, AdmissionOK
<1>10. e.rebuts \subseteq e.known \X e.known /\ e.rendered \subseteq e.known
  BY <1>5, <1>6 DEF TablesOK
<1>11. e.open \subseteq Tasks /\ e.unpromoted \subseteq SUBSET Basic /\ About(e.open, e.known)
  BY <1>1 DEF TablesOK, AdmissionOK, About
<1> HIDE DEF changed
<1>12. TablesOK(e)
  BY <1>1, <1>4, <1>5, <1>6, <1>7, <1>8, <1>9, <1>10, <1>11 DEF TablesOK
<1> QED BY <1>12 DEF e

LEMMA WithLabelsOK ==
  ASSUME NEW d, TablesOK(d), NEW r \in LabelDrafts, LabelsAccepted(d, r),
         About(r.tasks, d.known)
  PROVE  TablesOK(WithLabels(d, r))
<1> DEFINE e == WithLabels(d, r)
<1>0. DOMAIN d = Fields
  BY DEF TablesOK
<1>1. /\ Same(d, e, {"status", "defeated", "notices", "noticed", "born", "active", "samsaya",
                     "conflicts", "resolved", "open"})
      /\ e.status = [b \in Beliefs |-> IF b \in DOMAIN r.labels THEN r.labels[b] ELSE d.status[b]]
      /\ e.defeated = [b \in Beliefs |-> IF b \in r.defeated THEN d.defeated[b] + 1 ELSE d.defeated[b]]
      /\ e.notices = d.notices \cup r.announced /\ e.noticed = d.noticed \cup r.announced
      /\ e.active = r.active /\ e.samsaya = r.samsaya
      /\ e.conflicts = (d.conflicts \cup r.opened) \ r.settled
      /\ e.open = d.open \cup r.tasks
  BY <1>0, WithLabelsIs
<1>2. PICK some \in SUBSET Beliefs : r.labels \in [some -> Statuses]
  BY DEF LabelDrafts
<1>3. /\ r.announced \subseteq Beliefs /\ r.opened \subseteq SUBSET Beliefs /\ r.tasks \subseteq Tasks
      /\ r.samsaya \in BOOLEAN
  BY DEF LabelDrafts
<1>4. Distinct(e.open)
  BY <1>1, InsertableDistinct DEF TablesOK, LabelsAccepted
<1> HIDE DEF e
<1>5. /\ DOMAIN e = Fields /\ e.stakes = d.stakes /\ e.turn = d.turn /\ e.undercuts = d.undercuts
      /\ e.rebuts = d.rebuts /\ e.done = d.done /\ e.known = d.known /\ e.stale = d.stale
      /\ e.rendered = d.rendered /\ e.admission = d.admission /\ e.floor = d.floor
      /\ e.premises = d.premises /\ e.observed = d.observed
      /\ e.confirmed = d.confirmed /\ e.unpromoted = d.unpromoted
  BY <1>1, FieldsAre DEF Same
<1>6. e.status \in [Beliefs -> Statuses]
  BY <1>1, <1>2 DEF TablesOK
<1>7. e.defeated \in [Beliefs -> Nat]
  BY <1>1 DEF TablesOK
<1>8. /\ e.notices \subseteq e.noticed /\ e.noticed \subseteq Beliefs /\ e.samsaya \in BOOLEAN
      /\ e.conflicts \subseteq SUBSET Beliefs /\ e.open \subseteq Tasks /\ About(e.open, e.known)
  BY <1>1, <1>3, <1>5 DEF TablesOK, About
<1>9. TablesOK(e)
  BY <1>4, <1>5, <1>6, <1>7, <1>8 DEF TablesOK
<1> QED BY <1>9 DEF e

LEMMA CompletedOK ==
  ASSUME NEW d, TablesOK(d), NEW r \in CompletionDrafts
  PROVE  TablesOK(Completed(d, r))
<1> DEFINE e == Completed(d, r)
           t == r.task
<1>0. /\ DOMAIN d = Fields /\ d.admission = [b \in Beliefs |-> d.admission[b]]
      /\ d.confirmed = [b \in Beliefs |-> d.confirmed[b]] /\ d.defeated = [b \in Beliefs |-> d.defeated[b]]
  BY DEF TablesOK
<1>1. /\ Same(d, e, {"open", "done", "admission", "confirmed", "defeated"})
      /\ e.open = d.open \ {t} /\ e.done = d.done \cup {KeyOf(t)}
      /\ e.admission = [b \in Beliefs |-> IF b = t.belief /\ r.admission # {}
                                          THEN CHOOSE s \in r.admission : TRUE ELSE d.admission[b]]
      /\ e.confirmed = [b \in Beliefs |-> IF b = t.belief /\ r.confirmed THEN d.confirmed[b] + 1
                                          ELSE d.confirmed[b]]
      /\ e.defeated = [b \in Beliefs |-> IF b = t.belief /\ r.defeated THEN d.defeated[b] + 1
                                         ELSE d.defeated[b]]
  BY <1>0, CompletedIs
<1>2. t \in Tasks /\ r.admission \subseteq Statuses
  BY DEF CompletionDrafts
<1>3. KeyOf(t) \in Beliefs \X Methods
  BY <1>2, KeyType
<1>4. Distinct(e.open)
  <2>1. Distinct(d.open)
    BY DEF TablesOK
  <2>2. Distinct(d.open \ {t})
    BY <2>1, FewerDistinct
  <2> QED BY <1>1, <2>2
<1> HIDE DEF e
<1>5. /\ DOMAIN e = Fields /\ e.stakes = d.stakes /\ e.turn = d.turn /\ e.undercuts = d.undercuts
      /\ e.rebuts = d.rebuts /\ e.samsaya = d.samsaya /\ e.conflicts = d.conflicts
      /\ e.known = d.known /\ e.stale = d.stale /\ e.status = d.status
      /\ e.rendered = d.rendered /\ e.floor = d.floor /\ e.notices = d.notices
      /\ e.noticed = d.noticed /\ e.premises = d.premises /\ e.observed = d.observed
      /\ e.unpromoted = d.unpromoted
  BY <1>1, FieldsAre DEF Same
<1>6. e.admission \in [Beliefs -> Statuses]
  <2>1. r.admission # {} => (CHOOSE s \in r.admission : TRUE) \in Statuses
    BY <1>2
  <2> DEFINE new == CHOOSE s \in r.admission : TRUE
  <2> HIDE DEF new
  <2>2. e.admission = [b \in Beliefs |-> IF b = t.belief /\ r.admission # {} THEN new ELSE d.admission[b]]
    BY <1>1 DEF new
  <2>3. r.admission # {} => new \in Statuses
    BY <2>1 DEF new
  <2> QED BY <2>2, <2>3 DEF TablesOK
<1>7. e.confirmed \in [Beliefs -> Nat] /\ e.defeated \in [Beliefs -> Nat]
  BY <1>1 DEF TablesOK
<1>8. e.open \subseteq Tasks /\ e.done \subseteq Beliefs \X Methods /\ About(e.open, e.known)
  BY <1>1, <1>3, <1>5 DEF TablesOK, About
<1>9. TablesOK(e)
  BY <1>4, <1>5, <1>6, <1>7, <1>8 DEF TablesOK
<1> QED BY <1>9 DEF e

\* What a belief that records a verdict is.
LEMMA JudgedOK ==
  ASSUME NEW d, TablesOK(d), NEW v \in Beliefs \ d.known, NEW premises \in SUBSET Beliefs
  PROVE  TablesOK(Judged(d, v, premises))
<1> DEFINE e == Judged(d, v, premises)
           decision == Cell(v, d.stakes)
<1>1. /\ Same(d, e, {"open", "known", "status", "admission", "floor", "observed", "premises"})
      /\ e.open = d.open \cup TaskFor(v, decision)
      /\ e.known = d.known \cup {v}
      /\ e.status = [b \in Beliefs |-> IF b = v THEN decision.status ELSE d.status[b]]
      /\ e.admission = [b \in Beliefs |-> IF b = v THEN decision.status ELSE d.admission[b]]
      /\ e.floor = [b \in Beliefs |-> IF b = v THEN d.stakes ELSE d.floor[b]]
      /\ e.observed = [b \in Beliefs |-> e.observed[b]]
      /\ e.premises = [b \in Beliefs |-> IF b = v THEN premises ELSE d.premises[b]]
  BY JudgedIs
<1>2. decision \in Decisions /\ d.stakes \in Stakes
  BY TrustType DEF TablesOK
<1>3. decision.status \in Statuses /\ TaskFor(v, decision) \subseteq Tasks
  BY <1>2, TaskForType DEF Decisions
<1>4. Distinct(e.open)
  <2>1. \A t \in TaskFor(v, decision) : KeyOf(t)[1] = v
    BY DEF TaskFor, KeyOf
  <2>2. \A t \in d.open : KeyOf(t)[1] # v
    BY DEF TablesOK, About, KeyOf
  <2>3. Keys(TaskFor(v, decision)) \cap Keys(d.open) = {}
    BY <2>1, <2>2 DEF Keys
  <2>4. Distinct(TaskFor(v, decision))
    BY DEF Distinct, TaskFor
  <2>5. Distinct(d.open) /\ Insertable(TaskFor(v, decision), d.open)
    BY <2>3, <2>4 DEF Insertable, TablesOK
  <2> HIDE DEF e, decision
  <2> QED BY <1>1, <2>5, InsertableDistinct
<1> HIDE DEF e, decision
<1>5. /\ DOMAIN e = Fields /\ e.stakes = d.stakes /\ e.turn = d.turn /\ e.undercuts = d.undercuts
      /\ e.rebuts = d.rebuts /\ e.samsaya = d.samsaya /\ e.done = d.done /\ e.conflicts = d.conflicts
      /\ e.rendered = d.rendered /\ e.notices = d.notices /\ e.noticed = d.noticed /\ e.stale = d.stale
      /\ e.confirmed = d.confirmed /\ e.defeated = d.defeated /\ e.unpromoted = d.unpromoted
  BY <1>1, FieldsAre DEF Same
<1>6. e.status \in [Beliefs -> Statuses] /\ e.admission \in [Beliefs -> Statuses]
  BY <1>1, <1>3 DEF TablesOK
<1>7. e.floor \in [Beliefs -> Stakes] /\ e.premises \in [Beliefs -> SUBSET Beliefs]
  BY <1>1, <1>2 DEF TablesOK
<1>8. /\ e.known \subseteq Beliefs /\ e.stale \subseteq e.known /\ e.rebuts \subseteq e.known \X e.known
      /\ e.rendered \subseteq e.known /\ e.open \subseteq Tasks
  BY <1>1, <1>3, <1>5 DEF TablesOK
<1>9. About(e.open, e.known)
  BY <1>1 DEF TablesOK, About, TaskFor
<1>10. TablesOK(e)
  BY <1>1, <1>4, <1>5, <1>6, <1>7, <1>8, <1>9 DEF TablesOK
<1> QED BY <1>10 DEF e

LEMMA BothWaysKnown ==
  ASSUME NEW pair, NEW known, pair \subseteq known
  PROVE  BothWays(pair) \subseteq known \X known
BY DEF BothWays

LEMMA AdjudicatedOK ==
  ASSUME NEW known \in SUBSET Beliefs, NEW r, DetectionOK(r, known),
         NEW pair \in r.asked, NEW open, NEW verdict
  PROVE  DetectionOK(Adjudicated(r, open, pair, verdict), known)
<1> DEFINE e == Adjudicated(r, open, pair, verdict)
           task == [belief |-> Max(pair), method |-> "cross_source", k |-> 1]
<1>1. /\ e = [edges |-> e.edges, asked |-> e.asked, classified |-> e.classified, tasks |-> e.tasks]
      /\ e.asked = {} /\ e.edges \subseteq r.edges \cup BothWays(pair) /\ e.tasks \subseteq {task}
  <2>1. e = [edges |-> r.edges \cup (IF verdict = "rebut" THEN BothWays(pair) ELSE {}),
             asked |-> {}, classified |-> {pair},
             tasks |-> IF verdict = "uncertain" /\ KeyOf(task) \notin Keys(open) THEN {task} ELSE {}]
    BY DEF Adjudicated
  <2> HIDE DEF e, task
  <2> QED BY <2>1
<1>2. task \in Tasks /\ task.belief \in known
  <2>1. PICK b1 \in Beliefs, b2 \in Beliefs : pair = {b1, b2}
    BY DEF DetectionOK, Pairs
  <2>2. b1 \in Nat /\ b2 \in Nat
    BY EpisodeAssumption
  <2>3. Max(pair) \in {b1, b2}
    BY <2>1, <2>2, MaxIn
  <2>4. pair \subseteq known
    BY DEF DetectionOK
  <2> QED BY <2>1, <2>3, <2>4 DEF Tasks, Methods
<1>3. BothWays(pair) \subseteq known \X known
  BY BothWaysKnown DEF DetectionOK
<1> HIDE DEF e, task
<1>4. DetectionOK(e, known)
  BY <1>1, <1>2, <1>3 DEF DetectionOK, About
<1> QED BY <1>4 DEF e

LEMMA ContradictedOK ==
  ASSUME NEW d, TablesOK(d), NEW r, DetectionOK(r, d.known), Insertable(r.tasks, d.open)
  PROVE  TablesOK(Contradicted(d, r))
<1> DEFINE e == Contradicted(d, r)
<1>1. /\ Same(d, e, {"classified", "rebuts", "open"})
      /\ e.rebuts = d.rebuts \cup r.edges /\ e.open = d.open \cup r.tasks
  BY ContradictedIs DEF TablesOK
<1> HIDE DEF e
<1>2. Distinct(e.open)
  BY <1>1, InsertableDistinct DEF TablesOK
<1>3. /\ DOMAIN e = Fields /\ e.stakes = d.stakes /\ e.turn = d.turn /\ e.undercuts = d.undercuts
      /\ e.known = d.known /\ e.samsaya = d.samsaya /\ e.done = d.done /\ e.conflicts = d.conflicts
      /\ e.rendered = d.rendered /\ e.notices = d.notices /\ e.noticed = d.noticed /\ e.stale = d.stale
      /\ e.confirmed = d.confirmed /\ e.defeated = d.defeated /\ e.unpromoted = d.unpromoted
      /\ e.status = d.status /\ e.admission = d.admission /\ e.floor = d.floor
      /\ e.premises = d.premises /\ e.observed = d.observed
  BY <1>1, FieldsAre DEF Same, TablesOK
<1>4. e.rebuts \subseteq e.known \X e.known
  BY <1>1, <1>3 DEF TablesOK, DetectionOK
<1>5. e.open \subseteq Tasks /\ About(e.open, e.known)
  BY <1>1, <1>3 DEF TablesOK, DetectionOK, About
<1>6. TablesOK(e)
  BY <1>2, <1>3, <1>4, <1>5 DEF TablesOK
<1> QED BY <1>6 DEF e

-----------------------------------------------------------------------------
(* What the operations read: admissions.                                   *)

LEMMA DecisionTasks ==
  ASSUME NEW b \in Beliefs, NEW decision \in Decisions
  PROVE  /\ decision.status \in Statuses /\ TaskFor(b, decision) \subseteq Tasks
         /\ About(TaskFor(b, decision), {b})
<1>1. decision.status \in Statuses /\ decision.method \in Methods \cup {"none"} /\ decision.k \in 0..20
  BY DEF Decisions
<1>2. About(TaskFor(b, decision), {b})
  BY DEF About, TaskFor
<1> QED BY <1>1, <1>2, TaskForType

LEMMA ClaimDraftsOK ==
  ASSUME NEW d, TablesOK(d), NEW claims \in SUBSET Basic
  PROVE  LET r == ClaimDrafts(d, claims) IN
         /\ r.fresh \subseteq Beliefs \ Verdicts /\ r.again \subseteq Beliefs
         /\ r.fresh \subseteq DOMAIN r.decision /\ DOMAIN r.decision \subseteq Beliefs
         /\ \A b \in DOMAIN r.decision : r.decision[b].status \in Statuses
         /\ r.floor \in Stakes /\ r.tasks \subseteq Tasks /\ r.premises = {} /\ r.found = {}
         /\ About(r.tasks, d.known \cup r.fresh)
<1> DEFINE fresh == {b \in Acceptable(claims) : Twin(d, b) = {}}
           again == {Min(Twin(d, b)) : b \in Acceptable(claims) \ fresh}
           changed == {b \in again : Decision(d, b, d.stakes).status # d.admission[b]}
           decision == [b \in fresh \cup changed |->
                          IF b \in fresh THEN Cell(b, d.stakes) ELSE Decision(d, b, d.stakes)]
           tasks == UNION {TaskFor(b, decision[b]) : b \in fresh \cup changed}
<1>0. ClaimDrafts(d, claims) =
        [fresh |-> fresh, again |-> again, decision |-> decision, floor |-> d.stakes, tasks |-> tasks,
         premises |-> {}, observed |-> ops, found |-> {}, promoted |-> {}]
  BY DEF ClaimDrafts
<1>1. fresh \subseteq Beliefs \ Verdicts
  BY EpisodeAssumption DEF Acceptable, Beliefs
<1>2. again \subseteq d.known
  <2> SUFFICES ASSUME NEW b \in Acceptable(claims) \ fresh PROVE Min(Twin(d, b)) \in d.known
    OBVIOUS
  <2>1. Twin(d, b) # {} /\ Twin(d, b) \subseteq d.known /\ Twin(d, b) \subseteq Nat
    BY EpisodeAssumption DEF Twin, TablesOK
  <2> QED BY <2>1, MinIn
<1> HIDE DEF fresh, again
<1>3. d.known \subseteq Beliefs /\ d.stakes \in Stakes /\ changed \subseteq d.known
  BY <1>2 DEF TablesOK
<1>4. \A b \in fresh \cup changed : b \in Beliefs /\ decision[b] \in Decisions
  BY <1>1, <1>3, TrustType, DecisionType
<1>5. DOMAIN decision = fresh \cup changed
  OBVIOUS
<1> HIDE DEF decision, changed
<1>6. \A b \in fresh \cup changed : /\ decision[b].status \in Statuses
                                    /\ TaskFor(b, decision[b]) \subseteq Tasks
                                    /\ About(TaskFor(b, decision[b]), {b})
  BY <1>4, DecisionTasks
<1>7. tasks \subseteq Tasks /\ About(tasks, d.known \cup fresh)
  <2>1. tasks \subseteq Tasks
    BY <1>6
  <2>2. About(tasks, d.known \cup fresh)
    BY <1>3, <1>6 DEF About
  <2> QED BY <2>1, <2>2
<1> DEFINE r == ClaimDrafts(d, claims)
<1> HIDE DEF tasks
<1>8. /\ r.fresh = fresh /\ r.again = again /\ r.decision = decision /\ r.floor = d.stakes
      /\ r.tasks = tasks /\ r.premises = {} /\ r.found = {}
  BY <1>0
<1> HIDE DEF r
<1>9. /\ r.fresh \subseteq Beliefs \ Verdicts /\ r.again \subseteq Beliefs
      /\ r.fresh \subseteq DOMAIN r.decision /\ DOMAIN r.decision \subseteq Beliefs
      /\ \A b \in DOMAIN r.decision : r.decision[b].status \in Statuses
      /\ r.floor \in Stakes /\ r.tasks \subseteq Tasks /\ r.premises = {} /\ r.found = {}
      /\ About(r.tasks, d.known \cup r.fresh)
  BY <1>1, <1>2, <1>3, <1>5, <1>6, <1>7, <1>8
<1> QED BY <1>9 DEF r

LEMMA ObservationDraftsOK ==
  ASSUME NEW d, TablesOK(d), NEW seen \in SUBSET Basic
  PROVE  LET r == ObservationDrafts(d, seen) IN
         /\ r.fresh \subseteq Beliefs \ Verdicts /\ r.again \subseteq Beliefs
         /\ r.fresh \subseteq DOMAIN r.decision /\ DOMAIN r.decision \subseteq Beliefs
         /\ \A b \in DOMAIN r.decision : r.decision[b].status \in Statuses
         /\ r.floor \in Stakes /\ r.tasks \subseteq Tasks /\ r.premises = {} /\ r.found = {}
         /\ About(r.tasks, d.known \cup r.fresh)
<1> DEFINE kept == AbsencesKept(seen) \cup (seen \ Absences(seen))
           good(b) == ValidObservation(Attr[b]) \/ b \in AbsencesKept(seen)
           decision == [b \in kept |-> IF good(b) THEN Cell(b, d.stakes)
                                       ELSE [Cell(b, d.stakes) EXCEPT !.status = "out"]]
           tasks == UNION {TaskFor(b, Cell(b, d.stakes)) : b \in kept}
<1>0. ObservationDrafts(d, seen) =
        [fresh |-> kept, again |-> {}, decision |-> decision, floor |-> d.stakes, tasks |-> tasks,
         premises |-> {}, observed |-> ops, found |-> {}, promoted |-> {}]
  BY DEF ObservationDrafts
<1>1. kept \subseteq Beliefs \ Verdicts
  BY EpisodeAssumption DEF AbsencesKept, Absences, Beliefs
<1>2. \A b \in kept : Cell(b, d.stakes) \in Decisions
  BY <1>1, TrustType DEF TablesOK
<1>3. \A b \in kept : decision[b].status \in Statuses
  <2> SUFFICES ASSUME NEW b \in kept PROVE decision[b].status \in Statuses
    OBVIOUS
  <2>1. decision[b] = IF good(b) THEN Cell(b, d.stakes) ELSE [Cell(b, d.stakes) EXCEPT !.status = "out"]
    OBVIOUS
  <2>2. Cell(b, d.stakes) \in Decisions /\ "out" \in Statuses
    BY <1>2 DEF Statuses
  <2> HIDE DEF good, decision, kept
  <2> QED BY <2>1, <2>2 DEF Decisions
<1>4. DOMAIN decision = kept
  OBVIOUS
<1> HIDE DEF kept, decision
<1>5. \A b \in kept : TaskFor(b, Cell(b, d.stakes)) \subseteq Tasks /\ About(TaskFor(b, Cell(b, d.stakes)), {b})
  BY <1>1, <1>2, DecisionTasks
<1>6. tasks \subseteq Tasks /\ About(tasks, d.known \cup kept)
  <2>1. tasks \subseteq Tasks
    BY <1>5
  <2>2. About(tasks, d.known \cup kept)
    BY <1>5 DEF About
  <2> QED BY <2>1, <2>2
<1> HIDE DEF tasks
<1> QED BY <1>0, <1>1, <1>3, <1>4, <1>6 DEF TablesOK

LEMMA StakesDraftsOK ==
  ASSUME NEW d, TablesOK(d), NEW stakes \in Stakes
  PROVE  LET r == StakesDrafts(d, stakes) IN StakesOK(r) /\ About(r.tasks, d.known)
<1> DEFINE decision == [b \in d.known |-> Decision(d, b, stakes)]
           needed == UNION {TaskFor(b, decision[b]) : b \in d.known}
           kept == {t \in d.open : \E n \in needed : KeyOf(n) = KeyOf(t) /\ t.k >= n.k}
           admission == [b \in {b \in d.known : decision[b].status # d.admission[b]} |-> decision[b].status]
           tasks == {n \in needed : KeyOf(n) \notin Keys(kept)}
<1>0. StakesDrafts(d, stakes) =
        [stakes |-> stakes, admission |-> admission, superseded |-> d.open \ kept, tasks |-> tasks]
  BY DEF StakesDrafts
<1>1. d.known \subseteq Beliefs
  BY DEF TablesOK
<1>2. \A b \in d.known : decision[b] \in Decisions
  BY <1>1, DecisionType
<1> HIDE DEF decision
<1>3. \A b \in d.known : /\ decision[b].status \in Statuses
                         /\ TaskFor(b, decision[b]) \subseteq Tasks
                         /\ About(TaskFor(b, decision[b]), {b})
  BY <1>1, <1>2, DecisionTasks
<1>4. needed \subseteq Tasks /\ About(needed, d.known)
  <2>1. needed \subseteq Tasks
    BY <1>3
  <2>2. About(needed, d.known)
    BY <1>3 DEF About
  <2> QED BY <2>1, <2>2
<1>5. DOMAIN admission \subseteq Beliefs /\ \A b \in DOMAIN admission : admission[b] \in Statuses
  BY <1>1, <1>3
<1> HIDE DEF needed, admission
<1>6. tasks \subseteq Tasks /\ About(tasks, d.known)
  BY <1>4 DEF About
<1> HIDE DEF tasks, kept
<1> QED BY <1>0, <1>5, <1>6 DEF StakesOK

-----------------------------------------------------------------------------
(* What a relabelling reads.                                               *)

LEMMA NextLabelsType ==
  ASSUME NEW g, NEW s, \A b \in g.beliefs : g.admission[b] \in Statuses
  PROVE  NextLabels(g, s) \in [g.beliefs -> Statuses]
<1>1. ASSUME NEW b \in g.beliefs PROVE Candidate(g, s, b) \in Statuses
  BY <1>1 DEF Candidate, Statuses
<1> QED BY <1>1 DEF NextLabels, Statuses

\* A result without an oscillation is a fixed point, and its ties are those of it.
LEMMA RelabelledIs ==
  ASSUME NEW g, NEW s, NEW ceiling, \A b \in g.beliefs : g.admission[b] \in Statuses
  PROVE  LET x == Relabelled(g, s, ceiling) IN
         /\ x.labels \in [g.beliefs -> Statuses]
         /\ x.oscillation \in BOOLEAN
         /\ \E last : x.ties = Ties(g, last)
         /\ ~x.oscillation => NextLabels(g, x.labels) = x.labels /\ x.ties = Ties(g, x.labels)
<1> DEFINE path == Path(g, s, ceiling)
           last == Latest(path)
           next == NextLabels(g, last)
           settled == Result(next, Ties(g, last), FALSE)
           repeated == Result(Doubted(g, next, InDoubt(g, last)), Ties(g, last), TRUE)
           stopped == Result(AtCeiling(g, next), Ties(g, last), TRUE)
           x == Relabelled(g, s, ceiling)
<1>1. next \in [g.beliefs -> Statuses]
  BY NextLabelsType
<1> DEFINE again == next \in Elements(path)
<1>2. x = CASE next = last -> settled
            [] next # last /\ again -> repeated
            [] ~again -> stopped
  BY DEF Relabelled
<1>3. Doubted(g, next, InDoubt(g, last)) \in [g.beliefs -> Statuses]
  <2> DEFINE doubt == InDoubt(g, last)
  <2> HIDE DEF next, doubt
  <2> QED BY <1>1 DEF Doubted, Statuses
<1>4. AtCeiling(g, next) \in [g.beliefs -> Statuses]
  <2> DEFINE labels == [b \in g.beliefs |-> IF Supported(g, next, b) THEN next[b]
                                     ELSE IF g.admission[b] = "quarantined" THEN "quarantined"
                                     ELSE "out"]
             involved == IF OnDefeatCycle(g) = {} THEN g.beliefs ELSE OnDefeatCycle(g)
             doubt == {b \in involved : Supported(g, next, b)}
  <2>1. AtCeiling(g, next) = Doubted(g, labels, doubt)
    BY DEF AtCeiling
  <2>2. labels \in [g.beliefs -> Statuses]
    <3> HIDE DEF next
    <3> QED BY <1>1 DEF Statuses
  <2> HIDE DEF next, labels, doubt
  <2> QED BY <2>1, <2>2 DEF Doubted, Statuses
<1> HIDE DEF x, path, last, next, again
<1>5. (x = settled /\ next = last) \/ x = repeated \/ x = stopped
  <2> HIDE DEF settled, repeated, stopped
  <2> QED BY <1>2
<1>6. /\ settled.labels = next /\ settled.ties = Ties(g, last) /\ settled.oscillation = FALSE
      /\ repeated.labels = Doubted(g, next, InDoubt(g, last)) /\ repeated.ties = Ties(g, last)
      /\ repeated.oscillation = TRUE
      /\ stopped.labels = AtCeiling(g, next) /\ stopped.ties = Ties(g, last)
      /\ stopped.oscillation = TRUE
  BY DEF Result
<1> HIDE DEF settled, repeated, stopped
<1>7. CASE x = settled /\ next = last
  BY <1>1, <1>6, <1>7 DEF next, x
<1>8. CASE x = repeated
  BY <1>3, <1>6, <1>8 DEF x
<1>9. CASE x = stopped
  BY <1>4, <1>6, <1>9 DEF x
<1> QED BY <1>5, <1>7, <1>8, <1>9

Outcome(d) == Relabelled(Graph(d), [b \in d.known |-> d.status[b]], Ceiling)

LEMMA GraphIs ==
  ASSUME NEW d
  PROVE  LET g == Graph(d) IN
         /\ g.beliefs = d.known /\ g.admission = d.admission /\ g.grounded = d.known \cap Basic
         /\ g.premises = d.premises /\ g.undercuts = d.undercuts /\ g.rebuts = d.rebuts
         /\ g.priority = [b \in Beliefs |-> Priority(Ranks[b][(b \in d.audited)], d.observed[b])]
         /\ g.stale = d.stale
BY DEF Graph

LEMMA OutcomeIs ==
  ASSUME NEW d, TablesOK(d)
  PROVE  LET x == Outcome(d) IN
         /\ x.labels \in [d.known -> Statuses] /\ x.oscillation \in BOOLEAN
         /\ x.ties \subseteq {{r[1], r[2]} : r \in d.rebuts}
         /\ ~x.oscillation => NextLabels(Graph(d), x.labels) = x.labels /\ x.ties = Ties(Graph(d), x.labels)
<1> DEFINE g == Graph(d)
           x == Outcome(d)
<1>1. g.beliefs = d.known /\ g.admission = d.admission /\ g.rebuts = d.rebuts
  BY GraphIs
<1>2. \A b \in g.beliefs : g.admission[b] \in Statuses
  BY <1>1 DEF TablesOK
<1> HIDE DEF g
<1>3. /\ x.labels \in [g.beliefs -> Statuses] /\ x.oscillation \in BOOLEAN
      /\ \E last : x.ties = Ties(g, last)
      /\ ~x.oscillation => NextLabels(g, x.labels) = x.labels /\ x.ties = Ties(g, x.labels)
  BY <1>2, RelabelledIs DEF Outcome, g
<1> HIDE DEF x
<1>4. x.ties \subseteq {{r[1], r[2]} : r \in d.rebuts}
  <2>1. PICK last : x.ties = Ties(g, last)
    BY <1>3
  <2> QED BY <1>1, <2>1 DEF Ties
<1> QED BY <1>1, <1>3, <1>4 DEF x, g

LEMMA RelabelDraftsIs ==
  ASSUME NEW d, TablesOK(d)
  PROVE  LET r == RelabelDrafts(d)
             x == Outcome(d)
         IN /\ r.labels = [b \in {b \in d.known : x.labels[b] # d.status[b]} |-> x.labels[b]]
            /\ r.active = ActiveEdges(Graph(d), x.labels)
            /\ r.announced = ToAnnounce(d, x.labels)
            /\ r.defeated = {b \in Falling(d, x.labels) :
                               x.labels[b] = "out" /\ Uncounted(d.defeated, b)}
            /\ r.opened = x.ties \ d.conflicts /\ r.settled = d.conflicts \ x.ties
            /\ r.samsaya = x.oscillation
BY DEF RelabelDrafts, Outcome, SettledConflicts

LEMMA RelabelDraftsOK ==
  ASSUME NEW d, TablesOK(d)
  PROVE  LET r == RelabelDrafts(d) IN r \in LabelDrafts /\ About(r.tasks, d.known)
<1> DEFINE x == Outcome(d)
           r == RelabelDrafts(d)
           changed == {b \in d.known : x.labels[b] # d.status[b]}
           opened == x.ties \ d.conflicts
           wanted == {[belief |-> Min(pair), method |-> "cross_source", k |-> 1] : pair \in opened}
           tasks == {t \in wanted : KeyOf(t) \notin Keys(d.open)}
           defeated == {b \in Falling(d, x.labels) : x.labels[b] = "out" /\ Uncounted(d.defeated, b)}
           labels == [b \in changed |-> x.labels[b]]
           active == ActiveEdges(Graph(d), x.labels)
           announced == ToAnnounce(d, x.labels)
           settled == d.conflicts \ x.ties
<1>1. r = [labels |-> labels, active |-> active, announced |-> announced, defeated |-> defeated,
           opened |-> opened, settled |-> settled, tasks |-> tasks, turn |-> d.turn,
           samsaya |-> x.oscillation]
  BY DEF RelabelDrafts, Outcome, SettledConflicts
<1>2. /\ x.labels \in [d.known -> Statuses] /\ x.oscillation \in BOOLEAN
      /\ x.ties \subseteq {{p[1], p[2]} : p \in d.rebuts}
  BY OutcomeIs
<1> HIDE DEF x
<1>3. d.known \subseteq Beliefs /\ d.rebuts \subseteq d.known \X d.known
      /\ d.undercuts \subseteq Beliefs \X Beliefs /\ d.conflicts \subseteq SUBSET Beliefs /\ d.turn \in Nat
  BY DEF TablesOK
<1>4. labels \in [changed -> Statuses] /\ changed \in SUBSET Beliefs
  BY <1>2, <1>3
<1>5. labels \in UNION {[some -> Statuses] : some \in SUBSET Beliefs}
  <2> HIDE DEF labels, changed
  <2> QED BY <1>4
<1>6. active \subseteq {"undercut", "rebut"} \X (Beliefs \X Beliefs)
  <2>1. Graph(d).undercuts = d.undercuts /\ Graph(d).rebuts = d.rebuts
    BY GraphIs
  <2> QED BY <1>3, <2>1 DEF ActiveEdges
<1>7. announced \subseteq Beliefs /\ defeated \subseteq Beliefs
  BY <1>3 DEF ToAnnounce, Falling
<1>8. \A pair \in opened : pair \subseteq d.known /\ pair # {}
  BY <1>2, <1>3
<1>9. settled \subseteq SUBSET Beliefs /\ opened \subseteq SUBSET Beliefs
  BY <1>3, <1>8
<1>10. \A pair \in opened : Min(pair) \in d.known
  <2> SUFFICES ASSUME NEW pair \in opened PROVE Min(pair) \in d.known
    OBVIOUS
  <2>1. pair # {} /\ pair \subseteq Nat /\ pair \subseteq d.known
    BY <1>3, <1>8, EpisodeAssumption
  <2> QED BY <2>1, MinIn
<1> HIDE DEF opened
<1>11. \A t \in wanted : t \in Tasks /\ t.belief \in d.known
  BY <1>3, <1>10 DEF Tasks, Methods
<1>12. tasks \subseteq Tasks /\ About(tasks, d.known)
  BY <1>11 DEF About
<1> HIDE DEF labels, active, announced, defeated, settled, tasks, r
<1>13. r \in LabelDrafts
  BY <1>1, <1>2, <1>3, <1>5, <1>6, <1>7, <1>9, <1>12 DEF LabelDrafts
<1>14. r.tasks = tasks
  BY <1>1
<1> QED BY <1>12, <1>13, <1>14 DEF r

-----------------------------------------------------------------------------
(* The remaining updates.                                                  *)

LEMMA RebutsOK ==
  ASSUME NEW d, TablesOK(d), NEW rebuts, rebuts \subseteq d.known \X d.known
  PROVE  LET e == [d EXCEPT !.rebuts = d.rebuts \cup rebuts] IN
         TablesOK(e) /\ Same(d, e, {"rebuts"}) /\ e.rebuts = d.rebuts \cup rebuts
<1> DEFINE e == [d EXCEPT !.rebuts = d.rebuts \cup rebuts]
<1>1. Same(d, e, {"rebuts"}) /\ e.rebuts = d.rebuts \cup rebuts
  BY FieldsAre DEF Same, TablesOK
<1> HIDE DEF e
<1>2. TablesOK(e)
  BY <1>1, FieldsAre DEF Same, TablesOK
<1> QED BY <1>1, <1>2 DEF e

LEMMA UndercutsOK ==
  ASSUME NEW d, TablesOK(d), NEW undercuts, undercuts \subseteq Beliefs \X Beliefs
  PROVE  LET e == [d EXCEPT !.undercuts = d.undercuts \cup undercuts] IN
         TablesOK(e) /\ Same(d, e, {"undercuts"}) /\ e.undercuts = d.undercuts \cup undercuts
<1> DEFINE e == [d EXCEPT !.undercuts = d.undercuts \cup undercuts]
<1>1. Same(d, e, {"undercuts"}) /\ e.undercuts = d.undercuts \cup undercuts
  BY FieldsAre DEF Same, TablesOK
<1> HIDE DEF e
<1>2. TablesOK(e)
  BY <1>1, FieldsAre DEF Same, TablesOK
<1> QED BY <1>1, <1>2 DEF e

LEMMA AuditedOK ==
  ASSUME NEW d, TablesOK(d), NEW audited
  PROVE  LET e == [d EXCEPT !.audited = audited] IN TablesOK(e) /\ Same(d, e, {"audited"})
<1> DEFINE e == [d EXCEPT !.audited = audited]
<1>1. Same(d, e, {"audited"})
  BY FieldsAre DEF Same, TablesOK
<1> HIDE DEF e
<1>2. TablesOK(e)
  BY <1>1, FieldsAre DEF Same, TablesOK
<1> QED BY <1>1, <1>2 DEF e

LEMMA TasksCreatedOK ==
  ASSUME NEW d, TablesOK(d), NEW t \in Tasks, t.belief \in d.known, KeyOf(t) \notin Keys(d.open)
  PROVE  TablesOK(TasksCreated(d, {t})) /\ Same(d, TasksCreated(d, {t}), {"open"})
<1> DEFINE e == TasksCreated(d, {t})
<1>1. Same(d, e, {"open"}) /\ e.open = d.open \cup {t}
  BY TasksCreatedIs DEF TablesOK
<1>2. Distinct(e.open)
  <2>1. Distinct(d.open)
    BY DEF TablesOK
  <2>2. Distinct(d.open \cup {t})
    BY <2>1, OneDistinct
  <2> QED BY <1>1, <2>2
<1> HIDE DEF e
<1>3. TablesOK(e)
  BY <1>1, <1>2, FieldsAre DEF Same, TablesOK, About
<1> QED BY <1>1, <1>3 DEF e

LEMMA ShownOK ==
  ASSUME NEW d, TablesOK(d), NEW beliefs \in SUBSET d.known
  PROVE  LET e == Shown(d, beliefs) IN
         TablesOK(e) /\ Same(d, e, {"rendered"}) /\ e.rendered = d.rendered \cup beliefs
<1> DEFINE e == Shown(d, beliefs)
<1>1. Same(d, e, {"rendered"}) /\ e.rendered = d.rendered \cup beliefs
  BY FieldsAre DEF Same, TablesOK, Shown
<1> HIDE DEF e
<1>2. TablesOK(e)
  BY <1>1, FieldsAre DEF Same, TablesOK
<1> QED BY <1>1, <1>2 DEF e

LEMMA NoticesKeptOK ==
  ASSUME NEW d, TablesOK(d), NEW turn \in Nat, NEW kept \in SUBSET d.notices
  PROVE  LET e == [d EXCEPT !.turn = turn, !.notices = kept] IN
         TablesOK(e) /\ Same(d, e, {"turn", "notices"}) /\ e.notices = kept
<1> DEFINE e == [d EXCEPT !.turn = turn, !.notices = kept]
<1>1. Same(d, e, {"turn", "notices"}) /\ e.turn = turn /\ e.notices = kept
  BY FieldsAre DEF Same, TablesOK
<1> HIDE DEF e
<1>2. TablesOK(e)
  BY <1>1, FieldsAre DEF Same, TablesOK
<1> QED BY <1>1, <1>2 DEF e

LEMMA AcknowledgedOK ==
  ASSUME NEW d, TablesOK(d), NEW b
  PROVE  LET e == [d EXCEPT !.notices = d.notices \ {b}] IN TablesOK(e) /\ Same(d, e, {"notices"})
<1> DEFINE e == [d EXCEPT !.notices = d.notices \ {b}]
<1>1. Same(d, e, {"notices"}) /\ e.notices = d.notices \ {b}
  BY FieldsAre DEF Same, TablesOK
<1> HIDE DEF e
<1>2. TablesOK(e)
  BY <1>1, FieldsAre DEF Same, TablesOK
<1> QED BY <1>1, <1>2 DEF e

LEMMA AgedOK ==
  ASSUME NEW d, TablesOK(d), NEW b \in d.known
  PROVE  LET e == [d EXCEPT !.stale = d.stale \cup {b}] IN
         TablesOK(e) /\ Same(d, e, {"stale"}) /\ e.stale = d.stale \cup {b}
<1> DEFINE e == [d EXCEPT !.stale = d.stale \cup {b}]
<1>1. Same(d, e, {"stale"}) /\ e.stale = d.stale \cup {b}
  BY FieldsAre DEF Same, TablesOK
<1> HIDE DEF e
<1>2. TablesOK(e)
  BY <1>1, FieldsAre DEF Same, TablesOK
<1> QED BY <1>1, <1>2 DEF e

StakesChanged(d, r) ==
  LET gone == r.superseded \cap d.open IN
  [d EXCEPT
     !.stakes = r.stakes,
     !.admission = [b \in Beliefs |-> IF b \in DOMAIN r.admission THEN r.admission[b] ELSE d.admission[b]],
     !.open = (d.open \ gone) \cup r.tasks, !.done = d.done \cup Keys(gone)]

LEMMA StakesChangedOK ==
  ASSUME NEW d, TablesOK(d), NEW r, StakesOK(r), About(r.tasks, d.known),
         Insertable(r.tasks, d.open \ (r.superseded \cap d.open))
  PROVE  LET e == StakesChanged(d, r) IN
         TablesOK(e) /\ Same(d, e, {"stakes", "admission", "open", "done"})
<1> DEFINE e == StakesChanged(d, r)
           gone == r.superseded \cap d.open
<1>1. /\ Same(d, e, {"stakes", "admission", "open", "done"})
      /\ e.stakes = r.stakes
      /\ e.admission = [b \in Beliefs |-> IF b \in DOMAIN r.admission THEN r.admission[b] ELSE d.admission[b]]
      /\ e.open = (d.open \ gone) \cup r.tasks /\ e.done = d.done \cup Keys(gone)
  BY FieldsAre DEF Same, TablesOK, StakesChanged
<1>2. Distinct(e.open)
  <2>1. Distinct(d.open \ gone)
    BY FewerDistinct DEF TablesOK
  <2> HIDE DEF e
  <2> QED BY <1>1, <2>1, InsertableDistinct
<1>3. Keys(gone) \subseteq Beliefs \X Methods
  <2>1. \A t \in gone : KeyOf(t) \in Beliefs \X Methods
    BY KeyType DEF TablesOK
  <2> QED BY <2>1 DEF Keys
<1> HIDE DEF e, gone
<1>4. e.admission \in [Beliefs -> Statuses] /\ e.stakes \in Stakes
  BY <1>1 DEF TablesOK, StakesOK
<1>5. e.open \subseteq Tasks /\ About(e.open, d.known) /\ e.done \subseteq Beliefs \X Methods
  BY <1>1, <1>3 DEF TablesOK, StakesOK, About
<1>6. TablesOK(e)
  BY <1>1, <1>2, <1>4, <1>5, FieldsAre DEF Same, TablesOK
<1> QED BY <1>1, <1>6 DEF e

-----------------------------------------------------------------------------
(* A step of one caller.                                                   *)

LEMMA Calls ==
  ASSUME CallsOK, NEW c \in Callers
  PROVE  /\ Fits(call[c].script, call[c].read, db.known) /\ ScriptOK(call[c].script)
         /\ \A kind : Doing(c, kind) <=> At(call[c].script, kind)
         /\ IsIdle(c) <=> call[c].script = <<>>
BY DEF CallsOK, Fits, Doing, IsIdle, At

\* Where a caller goes, and that the others stay where they are.
LEMMA CallIs ==
  ASSUME CallsOK, NEW c \in Callers, NEW s1, NEW r1, Goto(c, s1, r1)
  PROVE  /\ call'[c].script = s1 /\ call'[c].read = r1
         /\ \A o \in Callers \ {c} : call'[o] = call[o]
         /\ call' = [o \in Callers |-> [script |-> call'[o].script, read |-> call'[o].read]]
         /\ \A kind : Doing(c, kind)' <=> At(s1, kind)
         /\ \A o \in Callers \ {c} : \A kind : Doing(o, kind)' <=> Doing(o, kind)
<1>1. call'[c].script = s1 /\ call'[c].read = r1
  BY DEF CallsOK, Goto
<1>2. \A o \in Callers \ {c} : call'[o] = call[o]
  BY DEF CallsOK, Goto
<1>3. call' = [o \in Callers |-> [script |-> call'[o].script, read |-> call'[o].read]]
  <2>1. call' = [o \in Callers |-> IF o = c THEN [script |-> s1, read |-> r1] ELSE call[o]]
    BY DEF CallsOK, Goto
  <2>2. \A o \in Callers : call'[o] = [script |-> call'[o].script, read |-> call'[o].read]
    BY <2>1 DEF CallsOK
  <2> QED BY <2>1, <2>2
<1> QED BY <1>1, <1>2, <1>3 DEF Doing, IsIdle, At

LEMMA FitsGrows ==
  ASSUME NEW s, NEW r, NEW known, NEW more, known \subseteq more, Fits(s, r, known)
  PROVE  Fits(s, r, more)
BY DEF Fits, About, DetectionOK

LEMMA TypeMoves ==
  ASSUME TypeInv, NEW c \in Callers, NEW s1, NEW r1, Goto(c, s1, r1),
         TablesOK(db'), db.known \subseteq db'.known, Fits(s1, r1, db'.known),
         lock' \in Callers \cup {None}, Midway(s1, r1) <=> lock' = c,
         \A o \in Callers \ {c} : lock' = o <=> lock = o
  PROVE  TypeInv'
<1>1. CallsOK
  BY DEF TypeInv
<1>2. /\ call'[c].script = s1 /\ call'[c].read = r1
      /\ \A o \in Callers \ {c} : call'[o] = call[o]
      /\ call' = [o \in Callers |-> [script |-> call'[o].script, read |-> call'[o].read]]
  BY <1>1, CallIs
<1>3. \A o \in Callers : Fits(call'[o].script, call'[o].read, db'.known)
  <2> TAKE o \in Callers
  <2>1. CASE o = c
    BY <2>1, <1>2
  <2>2. CASE o # c
    <3>1. Fits(call[o].script, call[o].read, db.known)
      BY <1>1 DEF CallsOK
    <3> QED BY <3>1, <2>2, <1>2, FitsGrows
  <2> QED BY <2>1, <2>2
<1>4. CallsOK'
  BY <1>2, <1>3 DEF CallsOK
<1>5. \A o \in Callers : Midway(call'[o].script, call'[o].read) <=> lock' = o
  BY <1>2 DEF TypeInv, LockOK
<1>6. LockOK'
  BY <1>5 DEF LockOK
<1> QED BY <1>4, <1>6 DEF TypeInv

\* Only the caller that holds the lock has read what a relabelling or a completion
\* is to write.
LEMMA OneMidway ==
  ASSUME TypeInv, NEW c \in Callers
  PROVE  /\ (Relabels(c) \/ Completes(c)) <=> Midway(call[c].script, call[c].read)
         /\ (Relabels(c) \/ Completes(c)) <=> lock = c
         /\ ~(Relabels(c) /\ Completes(c))
<1>1. CallsOK /\ LockOK
  BY DEF TypeInv
<1>2. \A kind : Doing(c, kind) <=> At(call[c].script, kind)
  BY <1>1, Calls
<1>3. ~(At(call[c].script, "relabel") /\ At(call[c].script, "complete"))
  BY DEF At
<1> QED BY <1>1, <1>2, <1>3 DEF LockOK, Midway, Relabels, Completes

LEMMA FreshMoves ==
  ASSUME TypeInv, FreshOK, NEW c \in Callers, NEW s1, NEW r1, Goto(c, s1, r1),
         db'.known \subseteq db.known \cup Verdicts
                     \cup (IF Admitting(c) THEN call[c].read.fresh ELSE {}),
         At(s1, "admit") => db'.known = db.known /\ r1.fresh \cap Taken = {}
  PROVE  FreshOK'
<1>1. CallsOK
  BY DEF TypeInv
<1>2. /\ call'[c].script = s1 /\ call'[c].read = r1
      /\ \A o \in Callers \ {c} : call'[o] = call[o]
      /\ Admitting(c)' <=> At(s1, "admit")
      /\ \A o \in Callers \ {c} : Admitting(o)' <=> Admitting(o)
  BY <1>1, CallIs DEF Admitting
<1>3. \A o \in Callers : Admitting(o) => call[o].read.fresh \cap Verdicts = {}
  BY <1>1, Calls DEF Admitting, Fits, AdmissionOK
<1>4. \A o \in Callers \ {c} : Admitting(o) => call[o].read.fresh \cap db'.known = {}
  BY <1>3 DEF FreshOK
<1>5. \A o \in Callers : Admitting(o) => call[o].read.fresh \subseteq Taken
  BY DEF Taken, Admitting
<1>6. At(s1, "admit") =>
        /\ r1.fresh \cap db'.known = {}
        /\ \A o \in Callers : Admitting(o) => r1.fresh \cap call[o].read.fresh = {}
  BY <1>5 DEF Taken
<1> SUFFICES ASSUME NEW x \in Callers, Admitting(x)'
             PROVE  /\ call'[x].read.fresh \cap db'.known = {}
                    /\ \A o \in Callers \ {x} : Admitting(o)' =>
                         call'[x].read.fresh \cap call'[o].read.fresh = {}
  BY DEF FreshOK
<1>7. CASE x = c
  BY <1>7, <1>2, <1>6
<1>8. CASE x # c
  <2>1. Admitting(x) /\ call'[x].read.fresh \cap db'.known = {}
    BY <1>8, <1>2, <1>4
  <2> SUFFICES ASSUME NEW o \in Callers \ {x}, Admitting(o)'
               PROVE  call'[x].read.fresh \cap call'[o].read.fresh = {}
    BY <2>1
  <2>2. CASE o = c
    <3>1. r1.fresh \cap call[x].read.fresh = {}
      BY <2>2, <2>1, <1>6, <1>2
    <3> QED BY <3>1, <2>2, <1>2, <1>8
  <2>3. CASE o # c
    <3>1. Admitting(o) /\ call'[o] = call[o] /\ call'[x] = call[x]
      BY <2>3, <1>8, <1>2
    <3> QED BY <3>1, <2>1 DEF FreshOK
  <2> QED BY <2>2, <2>3
<1> QED BY <1>7, <1>8

LEMMA CountsMoves ==
  ASSUME TypeInv, CountsOK, NEW c \in Callers, NEW s1, NEW r1, Goto(c, s1, r1), ~Midway(s1, r1),
         db'.confirmed = db.confirmed, db'.defeated = db.defeated
  PROVE  CountsOK'
<1>1. CallsOK
  BY DEF TypeInv
<1>2. /\ \A o \in Callers \ {c} : call'[o] = call[o]
      /\ ~Relabels(c)' /\ ~Completes(c)'
      /\ \A o \in Callers \ {c} : (Relabels(o)' <=> Relabels(o)) /\ (Completes(o)' <=> Completes(o))
  BY <1>1, CallIs DEF Relabels, Completes, Midway
<1>3. \A o \in Callers : Relabels(o)' => \A b \in call'[o].read.defeated : db'.defeated[b] = 0
  BY <1>2 DEF CountsOK
<1>4. \A o \in Callers : Completes(o)' =>
        /\ call'[o].read.confirmed => db'.confirmed[call'[o].read.task.belief] = 0
        /\ call'[o].read.defeated => db'.defeated[call'[o].read.task.belief] = 0
  BY <1>2 DEF CountsOK
<1> QED BY <1>3, <1>4 DEF CountsOK

LEMMA NoticesMoves ==
  ASSUME TypeInv, NoticesOK, NEW c \in Callers, NEW s1, NEW r1, Goto(c, s1, r1), ~(At(s1, "relabel") /\ r1 # None),
         clean' = clean, \A b \in db.known : db'.status[b] = db.status[b],
         db.noticed \subseteq db'.noticed, db.rendered \subseteq db'.rendered
  PROVE  NoticesOK'
<1>1. CallsOK
  BY DEF TypeInv
<1>2. /\ \A o \in Callers \ {c} : call'[o] = call[o]
      /\ ~Relabels(c)'
      /\ \A o \in Callers \ {c} : Relabels(o)' <=> Relabels(o)
  BY <1>1, CallIs DEF Relabels
<1>3. clean \subseteq db.known
  BY DEF NoticesOK, TypeInv, TablesOK
<1>4. \A o \in Callers : Relabels(o)' =>
        \A b \in clean \cap DOMAIN call'[o].read.labels :
          call'[o].read.labels[b] = "in" \/ b \in db'.noticed \/ b \in call'[o].read.announced
  BY <1>2 DEF NoticesOK
<1> QED BY <1>3, <1>4 DEF NoticesOK

-----------------------------------------------------------------------------
(* What a relabelling depends on.                                          *)

View == {"known", "admission", "premises", "undercuts", "rebuts", "observed", "audited", "stale",
         "status", "conflicts", "active", "samsaya"}

SameView(d, e) == \A f \in View : e[f] = d[f]

LEMMA ViewIs ==
  ASSUME NEW d, NEW e, SameView(d, e)
  PROVE  /\ e.known = d.known /\ e.status = d.status /\ e.conflicts = d.conflicts
         /\ e.active = d.active /\ e.samsaya = d.samsaya
         /\ Graph(e) = Graph(d) /\ Seen(e) = Seen(d) /\ LabelsOf(e) = LabelsOf(d)
<1>1. /\ e.known = d.known /\ e.admission = d.admission /\ e.premises = d.premises
      /\ e.undercuts = d.undercuts /\ e.rebuts = d.rebuts /\ e.observed = d.observed
      /\ e.audited = d.audited /\ e.stale = d.stale /\ e.status = d.status
      /\ e.conflicts = d.conflicts /\ e.active = d.active /\ e.samsaya = d.samsaya
  BY DEF SameView, View
<1>2. Graph(e) = Graph(d)
  BY <1>1 DEF Graph
<1> QED BY <1>1, <1>2 DEF Seen, LabelsOf

LEMMA SettledView ==
  ASSUME NEW d, NEW e, SameView(d, e)
  PROVE  Settled(e) <=> Settled(d)
BY ViewIs DEF Settled

\* What applying a relabelling's draft does to what a relabelling depends on.
LEMMA WithLabelsOnView ==
  ASSUME NEW d, DOMAIN d = Fields, NEW r
  PROVE  LET e == WithLabels(d, r) IN
         /\ \A f \in View \ {"status", "active", "samsaya", "conflicts"} : e[f] = d[f]
         /\ e.status = [b \in Beliefs |-> IF b \in DOMAIN r.labels THEN r.labels[b] ELSE d.status[b]]
         /\ e.active = r.active /\ e.samsaya = r.samsaya
         /\ e.conflicts = (d.conflicts \cup r.opened) \ r.settled
<1> DEFINE e == WithLabels(d, r)
<1>1. /\ Same(d, e, {"status", "defeated", "notices", "noticed", "born", "active", "samsaya",
                     "conflicts", "resolved", "open"})
      /\ e.status = [b \in Beliefs |-> IF b \in DOMAIN r.labels THEN r.labels[b] ELSE d.status[b]]
      /\ e.defeated = [b \in Beliefs |-> IF b \in r.defeated THEN d.defeated[b] + 1 ELSE d.defeated[b]]
      /\ e.notices = d.notices \cup r.announced /\ e.noticed = d.noticed \cup r.announced
      /\ e.active = r.active /\ e.samsaya = r.samsaya
      /\ e.conflicts = (d.conflicts \cup r.opened) \ r.settled
      /\ e.open = d.open \cup r.tasks
  BY WithLabelsIs
<1> HIDE DEF e
<1>2. \A f \in View \ {"status", "active", "samsaya", "conflicts"} : e[f] = d[f]
  BY <1>1, FieldsAre DEF Same, View
<1> QED BY <1>1, <1>2 DEF e

LEMMA WithLabelsView ==
  ASSUME NEW d, DOMAIN d = Fields, NEW e, DOMAIN e = Fields, SameView(d, e), NEW r
  PROVE  SameView(WithLabels(d, r), WithLabels(e, r))
<1> DEFINE dw == WithLabels(d, r)
           ew == WithLabels(e, r)
<1>1. /\ \A f \in View \ {"status", "active", "samsaya", "conflicts"} : dw[f] = d[f]
      /\ dw.status = [b \in Beliefs |-> IF b \in DOMAIN r.labels THEN r.labels[b] ELSE d.status[b]]
      /\ dw.active = r.active /\ dw.samsaya = r.samsaya
      /\ dw.conflicts = (d.conflicts \cup r.opened) \ r.settled
  BY WithLabelsOnView
<1>2. /\ \A f \in View \ {"status", "active", "samsaya", "conflicts"} : ew[f] = e[f]
      /\ ew.status = [b \in Beliefs |-> IF b \in DOMAIN r.labels THEN r.labels[b] ELSE e.status[b]]
      /\ ew.active = r.active /\ ew.samsaya = r.samsaya
      /\ ew.conflicts = (e.conflicts \cup r.opened) \ r.settled
  BY WithLabelsOnView
<1> HIDE DEF dw, ew
<1>3. /\ \A f \in View : e[f] = d[f]
      /\ e.status = d.status /\ e.conflicts = d.conflicts
  BY DEF SameView, View
<1>4. dw.status = ew.status /\ dw.conflicts = ew.conflicts /\ dw.active = ew.active /\ dw.samsaya = ew.samsaya
  BY <1>1, <1>2, <1>3
<1>5. \A f \in View \ {"status", "active", "samsaya", "conflicts"} : ew[f] = dw[f]
  BY <1>1, <1>2, <1>3
<1>6. SameView(dw, ew)
  BY <1>4, <1>5 DEF SameView, View
<1> QED BY <1>6 DEF dw, ew

LEMMA OthersOwe ==
  ASSUME TypeInv, NEW c \in Callers, NEW s1, NEW r1, Goto(c, s1, r1),
         Owes(s1, r1) \/ \E o \in Callers \ {c} : Owes(call[o].script, call[o].read)
  PROVE  CoveredOK'
<1>1. CallsOK
  BY DEF TypeInv
<1>2. /\ call'[c].script = s1 /\ call'[c].read = r1
      /\ \A o \in Callers \ {c} : call'[o] = call[o]
  BY <1>1, CallIs
<1>3. \E o \in Callers : Owes(call'[o].script, call'[o].read)
  BY <1>2
<1> QED BY <1>3 DEF CoveredOK

\* A step that writes nothing a relabelling depends on, and drops none it owes.
LEMMA CoveredMoves ==
  ASSUME TypeInv, CoveredOK, NEW c \in Callers, NEW s1, NEW r1, Goto(c, s1, r1),
         ~Relabels(c), ~(At(s1, "relabel") /\ r1 # None),
         DOMAIN db' = Fields, SameView(db, db'), raised' = raised,
         Owes(call[c].script, call[c].read) => Owes(s1, r1)
  PROVE  CoveredOK'
<1>1. CallsOK
  BY DEF TypeInv
<1>2. /\ \A o \in Callers \ {c} : call'[o] = call[o]
      /\ ~Relabels(c)'
      /\ \A o \in Callers \ {c} : Relabels(o)' <=> Relabels(o)
  BY <1>1, CallIs DEF Relabels
<1>4. CASE raised
  BY <1>4 DEF CoveredOK
<1>5. CASE \E o \in Callers : Owes(call[o].script, call[o].read)
  BY <1>5, OthersOwe
<1>6. CASE /\ \A o \in Callers : Relabels(o) => Settled(WithLabels(db, call[o].read))
           /\ (\A o \in Callers : ~Relabels(o)) => Settled(db)
  <2>1. DOMAIN db = Fields
    BY DEF TypeInv, TablesOK
  <2>2. \A o \in Callers : Relabels(o)' => Settled(WithLabels(db', call'[o].read))
    <3> TAKE o \in Callers
    <3> HAVE Relabels(o)'
    <3>1. o # c /\ Relabels(o) /\ call'[o] = call[o]
      BY <1>2
    <3>2. Settled(WithLabels(db, call[o].read))
      BY <3>1, <1>6
    <3>3. SameView(WithLabels(db, call[o].read), WithLabels(db', call[o].read))
      BY <2>1, WithLabelsView
    <3> QED BY <3>1, <3>2, <3>3, SettledView
  <2>3. (\A o \in Callers : ~Relabels(o)') => Settled(db')
    BY <1>2, <1>6, SettledView
  <2> QED BY <2>2, <2>3 DEF CoveredOK
<1> QED BY <1>4, <1>5, <1>6 DEF CoveredOK

LEMMA EmptyView ==
  ASSUME NEW d, NEW e, SameView(d, e), EmptyOK(d)
  PROVE  EmptyOK(e)
BY DEF SameView, View, EmptyOK

\* A step of a caller that neither relabels nor completes a task.
LEMMA Moves ==
  ASSUME IInv, NEW c \in Callers, NEW s1, NEW r1, Goto(c, s1, r1),
         ~Midway(call[c].script, call[c].read), ~Midway(s1, r1),
         lock' = lock, clean' = clean, TablesOK(db'), EmptyOK(db'), Fits(s1, r1, db'.known),
         db.known \subseteq db'.known,
         db'.known \subseteq db.known \cup Verdicts
                     \cup (IF Admitting(c) THEN call[c].read.fresh ELSE {}),
         At(s1, "admit") => db'.known = db.known /\ r1.fresh \cap Taken = {},
         \A b \in db.known : db'.status[b] = db.status[b],
         db'.noticed = db.noticed, db'.rendered = db.rendered,
         db'.confirmed = db.confirmed, db'.defeated = db.defeated,
         \/ raised' \/ Owes(s1, r1)
         \/ /\ SameView(db, db') /\ raised' = raised
            /\ Owes(call[c].script, call[c].read) => Owes(s1, r1)
  PROVE  IInv'
<1> USE DEF IInv
<1>1. TypeInv'
  <2>1. lock' \in Callers \cup {None} /\ lock' # c
    BY DEF TypeInv, LockOK
  <2> QED BY <2>1, TypeMoves
<1>2. FreshOK'
  BY FreshMoves
<1>3. CountsOK'
  BY CountsMoves
<1>0. ~(At(s1, "relabel") /\ r1 # None) /\ ~Relabels(c)
  BY OneMidway DEF Midway
<1>4. NoticesOK'
  BY <1>0, NoticesMoves
<1>5. CoveredOK'
  <2>1. CASE raised'
    BY <2>1 DEF CoveredOK
  <2>2. CASE Owes(s1, r1)
    BY <2>2, OthersOwe
  <2>3. CASE /\ SameView(db, db') /\ raised' = raised
             /\ Owes(call[c].script, call[c].read) => Owes(s1, r1)
    <3>1. DOMAIN db' = Fields
      BY DEF TablesOK
    <3> QED BY <3>1, <2>3, <1>0, CoveredMoves
  <2> QED BY <2>1, <2>2, <2>3
<1> QED BY <1>1, <1>2, <1>3, <1>4, <1>5

LEMMA OpenFits ==
  ASSUME NEW s, Open(s), NEW known
  PROVE  Fits(s, None, known) /\ ~Midway(s, None) /\ ~At(s, "admit")
<1>1. s # <<>> => Head(s) = s[1]
  BY HeadOf DEF Open
<1>2. ~At(s, "admit") /\ ~At(s, "stakes") /\ ~At(s, "render")
  BY <1>1 DEF Open, At
<1> QED BY <1>2 DEF Fits, Midway, Open

LEMMA OneStep ==
  ASSUME TypeInv, NEW c \in Callers, NEW kind, Doing(c, kind)
  PROVE  LET s == call[c].script IN
         /\ ScriptOK(s) /\ s # <<>> /\ At(s, kind) /\ Head(s) = s[1] /\ s[1][1] = kind /\ s[1] \in Steps
         /\ ScriptOK(Tail(s)) /\ Rest(c) = Tail(s)
         /\ kind # "select" => Open(Tail(s))
         /\ kind \in Unsettling => Owes(Tail(s), None)
         /\ kind # "relabel" => \A r : Owes(s, r) => Owes(Tail(s), None)
         /\ kind \notin {"relabel", "complete"} => ~Midway(s, call[c].read)
<1> DEFINE s == call[c].script
<1>1. ScriptOK(s) /\ At(s, kind)
  BY Calls DEF TypeInv
<1>2. s # <<>> /\ Head(s)[1] = kind
  BY <1>1 DEF At
<1>3. Head(s) = s[1] /\ s[1] \in Steps
  BY <1>1, <1>2, HeadOf
<1>4. ScriptOK(Tail(s)) /\ Rest(c) = Tail(s)
  BY <1>1, <1>2, TailOK DEF Rest
<1>5. kind # "select" => Open(Tail(s))
  BY <1>1, <1>2, <1>3, TailOpen
<1>6. kind \in Unsettling => Owes(Tail(s), None)
  BY <1>1, <1>2, <1>3, OwesCovered
<1>7. kind # "relabel" => \A r : Owes(s, r) => Owes(Tail(s), None)
  BY <1>1, <1>2, <1>3, OwesTail
<1>8. kind \notin {"relabel", "complete"} => ~Midway(s, call[c].read)
  BY <1>2 DEF At, Midway
<1> QED BY <1>1, <1>2, <1>3, <1>4, <1>5, <1>6, <1>7, <1>8

\* A step that only reads.
LEMMA Reads ==
  ASSUME IInv, NEW c \in Callers, NEW s1, NEW r1, Goto(c, s1, r1),
         ~Midway(call[c].script, call[c].read), ~Midway(s1, r1),
         UNCHANGED <<db, lock, raised, clean>>, Fits(s1, r1, db.known),
         At(s1, "admit") => r1.fresh \cap Taken = {},
         Owes(call[c].script, call[c].read) => Owes(s1, r1)
  PROVE  IInv'
<1>1. SameView(db, db') /\ TablesOK(db') /\ EmptyOK(db')
  BY DEF SameView, IInv, TypeInv
<1>2. db' = db /\ lock' = lock /\ clean' = clean /\ raised' = raised
  OBVIOUS
<1>3. Fits(s1, r1, db'.known)
  BY <1>2
<1>4. /\ db.known \subseteq db'.known /\ db'.known \subseteq db.known
      /\ \A b \in db.known : db'.status[b] = db.status[b]
      /\ db'.noticed = db.noticed /\ db'.rendered = db.rendered
      /\ db'.confirmed = db.confirmed /\ db'.defeated = db.defeated
  BY <1>2
<1>5. At(s1, "admit") => db'.known = db.known /\ r1.fresh \cap Taken = {}
  BY <1>2
<1> QED BY <1>1, <1>2, <1>3, <1>4, <1>5, Moves

LEMMA Starts ==
  ASSUME IInv, NEW c \in Callers, NEW s1, NEW r1, Start(c, s1, r1)
  PROVE  /\ Goto(c, s1, r1) /\ call[c].script = <<>>
         /\ ~Midway(call[c].script, call[c].read) /\ ~Owes(call[c].script, call[c].read)
         /\ ~Admitting(c)
<1>1. Goto(c, s1, r1) /\ call[c].script = <<>>
  BY DEF Start, IsIdle
<1> QED BY <1>1, EmptyScript DEF Midway, At, Admitting, Doing, IsIdle

LEMMA ReadingStarts ==
  ASSUME IInv, NEW c \in Callers, NEW s1, NEW r1, Start(c, s1, r1), ~Midway(s1, r1),
         UNCHANGED <<db, lock, raised, clean>>, Fits(s1, r1, db.known),
         At(s1, "admit") => r1.fresh \cap Taken = {}
  PROVE  IInv'
BY Starts, Reads

\* An append that is refused ends the operation.
LEMMA Aborts ==
  ASSUME IInv, NEW c \in Callers, Abort(c), UNCHANGED <<db, lock, clean>>,
         ~Midway(call[c].script, call[c].read)
  PROVE  IInv'
<1>1. Goto(c, <<>>, None) /\ raised'
  BY DEF Abort
<1>2. Fits(<<>>, None, db.known) /\ ~Midway(<<>>, None) /\ ~At(<<>>, "admit")
  BY EmptyScript, OpenFits
<1>3. TablesOK(db') /\ EmptyOK(db') /\ db' = db
  BY DEF IInv, TypeInv
<1> QED BY <1>1, <1>2, <1>3, Moves

-----------------------------------------------------------------------------
(* The steps of an admission.                                              *)

LEMMA AdmitKeeps == ASSUME IInv, NEW c \in Callers, Admit(c) PROVE IInv'
<1> DEFINE s == call[c].script
           r == call[c].read
<1>1. Doing(c, "admit") /\ UNCHANGED <<lock, ops, clean>>
  BY DEF Admit
<1>2. /\ Rest(c) = Tail(s) /\ Open(Tail(s)) /\ Owes(Tail(s), None) /\ ~Midway(s, r)
      /\ At(s, "admit") /\ Admitting(c)
  BY <1>1, OneStep DEF IInv, Unsettling, Admitting
<1>3. Fits(s, r, db.known) /\ TablesOK(db)
  BY Calls DEF IInv, TypeInv
<1>4. AdmissionOK(r) /\ About(r.tasks, db.known \cup r.fresh)
  BY <1>2, <1>3 DEF Fits
<1>5. CASE Insertable(r.tasks, db.open)
  <2>1. db' = Admitted(db, r) /\ Goto(c, Tail(s), None)
    BY <1>5, <1>2 DEF Admit, AppendEvents
  <2>2. TablesOK(db')
    BY <2>1, <1>3, <1>4, <1>5, AdmittedOK
  <2>3. /\ Same(db, db', {"known", "stale", "status", "admission", "floor", "observed", "premises",
                           "open", "unpromoted"})
        /\ db'.known = db.known \cup r.fresh
        /\ db'.status = [b \in Beliefs |-> IF b \in r.fresh THEN r.decision[b].status ELSE db.status[b]]
    <3>1. DOMAIN db = Fields
      BY <1>3 DEF TablesOK
    <3> DEFINE changed == DOMAIN r.decision \ r.fresh
               e == Admitted(db, r)
    <3>2. /\ Same(db, e, {"known", "stale", "status", "admission", "floor", "observed", "premises",
                          "open", "unpromoted"})
          /\ e.known = db.known \cup r.fresh /\ e.stale = (db.stale \ r.fresh) \ r.again
          /\ e.status = [b \in Beliefs |-> IF b \in r.fresh THEN r.decision[b].status ELSE db.status[b]]
          /\ e.floor = [b \in Beliefs |-> IF b \in r.fresh THEN r.floor ELSE db.floor[b]]
          /\ e.premises = [b \in Beliefs |-> IF b \in r.fresh THEN r.premises ELSE db.premises[b]]
          /\ e.observed = [b \in Beliefs |-> e.observed[b]]
          /\ DOMAIN e.admission = Beliefs
          /\ \A b \in Beliefs : e.admission[b] = IF b \in changed THEN r.decision[b].status
                                                 ELSE IF b \in r.fresh THEN r.decision[b].status
                                                 ELSE db.admission[b]
          /\ e.admission = [b \in Beliefs |-> e.admission[b]]
          /\ e.open = db.open \cup r.tasks
          /\ e.unpromoted = (db.unpromoted \cup r.found) \ r.promoted
      BY <3>1, AdmittedIs
    <3> QED BY <2>1, <3>2
  <2>4. /\ db'.noticed = db.noticed /\ db'.rendered = db.rendered
        /\ db'.confirmed = db.confirmed /\ db'.defeated = db.defeated
        /\ db'.conflicts = db.conflicts /\ db'.active = db.active
        /\ db'.undercuts = db.undercuts /\ db'.rebuts = db.rebuts
    BY <2>3, FieldsAre DEF Same
  <2>5. \A b \in db.known : db'.status[b] = db.status[b]
    <3>1. r.fresh \cap db.known = {}
      BY <1>2 DEF IInv, FreshOK
    <3> QED BY <3>1, <2>3, <1>3 DEF TablesOK
  <2>6. EmptyOK(db')
    BY <2>3, <2>4 DEF EmptyOK, IInv
  <2>7. Fits(Tail(s), None, db'.known) /\ ~Midway(Tail(s), None) /\ ~At(Tail(s), "admit")
    BY <1>2, OpenFits
  <2>8. db.known \subseteq db'.known
        /\ db'.known \subseteq db.known \cup Verdicts \cup (IF Admitting(c) THEN call[c].read.fresh ELSE {})
    BY <2>3, <1>2
  <2>9. lock' = lock /\ clean' = clean
    BY <1>1
  <2> HIDE DEF s, r
  <2> QED BY <2>1, <2>2, <2>4, <2>5, <2>6, <2>7, <2>8, <2>9, <1>2, Moves DEF s, r
<1>6. CASE ~Insertable(r.tasks, db.open)
  <2>1. UNCHANGED db /\ Abort(c)
    BY <1>6 DEF Admit, AppendEvents
  <2> QED BY <2>1, <1>1, <1>2, Aborts
<1> QED BY <1>5, <1>6

\* An admission before what a caller still has to run.
LEMMA AdmissionFits ==
  ASSUME NEW s, Open(s), NEW r, NEW known, AdmissionOK(r), About(r.tasks, known \cup r.fresh)
  PROVE  LET s1 == Admission \o s IN Fits(s1, r, known) /\ ~Midway(s1, r) /\ Owes(s1, r)
<1> DEFINE s1 == Admission \o s
<1>1. ScriptOK(s1) /\ Admission \in Seq(Steps) /\ s \in Seq(Steps)
  BY AdmissionScript, ConcatOK DEF Open, Closed, ScriptOK
<1>2. 1 \in 1..Len(Admission) /\ Head(Admission) = Admission[1]
  BY AdmissionScript, <1>1, TailOf
<1>3. s1[1] = <<"admit">> /\ s1 # <<>> /\ Head(s1) = s1[1]
  <2>1. s1[1] = Admission[1] /\ Len(s1) = Len(Admission) + Len(s) /\ Len(s) \in Nat /\ s1 \in Seq(Steps)
    BY <1>1, <1>2, ConcatOf
  <2>2. s1 # <<>>
    BY <2>1, <1>2
  <2> QED BY <2>1, <2>2, <1>2, AdmissionScript, TailOf
<1>4. PICK i \in 1..Len(Admission) : Sure(Admission, i)
  BY AdmissionScript DEF Owes
<1>5. Sure(s1, i)
  BY <1>1, <1>4, SureBefore
<1> HIDE DEF s1
<1>6. Owes(s1, r)
  BY <1>5, <1>3 DEF Owes, Sure
<1>7. Head(s1)[1] = "admit"
  BY <1>3
<1>8. Fits(s1, r, known) /\ ~Midway(s1, r)
  BY <1>1, <1>3, <1>7 DEF Fits, Midway, At, s1
<1> QED BY <1>6, <1>8 DEF s1

LEMMA AdmissionAlone ==
  ASSUME NEW r, NEW known, AdmissionOK(r), About(r.tasks, known \cup r.fresh)
  PROVE  Fits(Admission, r, known) /\ ~Midway(Admission, r) /\ Owes(Admission, r)
<1>1. Admission \o <<>> = Admission
  BY AdmissionScript DEF Closed, ScriptOK
<1> QED BY <1>1, EmptyScript, AdmissionFits

LEMMA ClaimsRead ==
  ASSUME NEW d, TablesOK(d), NEW claims \in SUBSET Basic, NEW promoted
  PROVE  LET r == [ClaimDrafts(d, claims) EXCEPT !.promoted = promoted] IN
         /\ AdmissionOK(r) /\ About(r.tasks, d.known \cup r.fresh)
         /\ r.fresh = ClaimDrafts(d, claims).fresh
<1> DEFINE x == ClaimDrafts(d, claims)
           r == [x EXCEPT !.promoted = promoted]
<1>1. /\ r.fresh = x.fresh /\ r.again = x.again /\ r.decision = x.decision /\ r.floor = x.floor
      /\ r.tasks = x.tasks /\ r.premises = x.premises /\ r.found = x.found
  BY DEF ClaimDrafts
<1>2. /\ x.fresh \subseteq Beliefs \ Verdicts /\ x.again \subseteq Beliefs
      /\ x.fresh \subseteq DOMAIN x.decision /\ DOMAIN x.decision \subseteq Beliefs
      /\ \A b \in DOMAIN x.decision : x.decision[b].status \in Statuses
      /\ x.floor \in Stakes /\ x.tasks \subseteq Tasks /\ x.premises = {} /\ x.found = {}
      /\ About(x.tasks, d.known \cup x.fresh)
  BY ClaimDraftsOK
<1> HIDE DEF x, r
<1> QED BY <1>1, <1>2 DEF AdmissionOK, x, r

LEMMA ClaimsReadAlone ==
  ASSUME NEW d, TablesOK(d), NEW claims \in SUBSET Basic
  PROVE  LET r == ClaimDrafts(d, claims) IN AdmissionOK(r) /\ About(r.tasks, d.known \cup r.fresh)
<1> DEFINE x == ClaimDrafts(d, claims)
<1>2. /\ x.fresh \subseteq Beliefs \ Verdicts /\ x.again \subseteq Beliefs
      /\ x.fresh \subseteq DOMAIN x.decision /\ DOMAIN x.decision \subseteq Beliefs
      /\ \A b \in DOMAIN x.decision : x.decision[b].status \in Statuses
      /\ x.floor \in Stakes /\ x.tasks \subseteq Tasks /\ x.premises = {} /\ x.found = {}
      /\ About(x.tasks, d.known \cup x.fresh)
  BY ClaimDraftsOK
<1> HIDE DEF x
<1> QED BY <1>2 DEF AdmissionOK, x

LEMMA ObservationsRead ==
  ASSUME NEW d, TablesOK(d), NEW seen \in SUBSET Basic, NEW found \in SUBSET SUBSET Basic
  PROVE  LET r == [ObservationDrafts(d, seen) EXCEPT !.found = found] IN
         /\ AdmissionOK(r) /\ About(r.tasks, d.known \cup r.fresh)
         /\ r.fresh = ObservationDrafts(d, seen).fresh
<1> DEFINE x == ObservationDrafts(d, seen)
           r == [x EXCEPT !.found = found]
<1>1. /\ r.fresh = x.fresh /\ r.again = x.again /\ r.decision = x.decision /\ r.floor = x.floor
      /\ r.tasks = x.tasks /\ r.premises = x.premises /\ r.found = found
  BY DEF ObservationDrafts
<1>2. /\ x.fresh \subseteq Beliefs \ Verdicts /\ x.again \subseteq Beliefs
      /\ x.fresh \subseteq DOMAIN x.decision /\ DOMAIN x.decision \subseteq Beliefs
      /\ \A b \in DOMAIN x.decision : x.decision[b].status \in Statuses
      /\ x.floor \in Stakes /\ x.tasks \subseteq Tasks /\ x.premises = {}
      /\ About(x.tasks, d.known \cup x.fresh)
  BY ObservationDraftsOK
<1> HIDE DEF x, r
<1> QED BY <1>1, <1>2 DEF AdmissionOK, x, r

LEMMA IngestUserMessageKeeps ==
  ASSUME IInv, NEW c \in Callers, NEW claims \in Messages, IngestUserMessage(c, claims) PROVE IInv'
<1> DEFINE r == ClaimDrafts(db, claims)
<1>1. claims \in SUBSET Basic
  BY EpisodeAssumption
<1>2. AdmissionOK(r) /\ About(r.tasks, db.known \cup r.fresh)
  BY <1>1, ClaimsReadAlone DEF IInv, TypeInv
<1>3. r.fresh \cap Taken = {} /\ Start(c, Admission, r) /\ UNCHANGED <<db, lock, raised, clean>>
  BY DEF IngestUserMessage
<1> HIDE DEF r
<1> QED BY <1>2, <1>3, AdmissionAlone, ReadingStarts

LEMMA IngestToolResultKeeps ==
  ASSUME IInv, NEW c \in Callers, NEW b \in Observations, NEW claims \in Outputs,
         IngestToolResult(c, {b}, claims)
  PROVE  IInv'
<1> DEFINE r == [ObservationDrafts(db, {b}) EXCEPT !.found = {claims} \ {{}}]
<1>1. {b} \in SUBSET Basic /\ {claims} \ {{}} \in SUBSET SUBSET Basic
  BY EpisodeAssumption
<1>2. AdmissionOK(r) /\ About(r.tasks, db.known \cup r.fresh)
      /\ r.fresh = ObservationDrafts(db, {b}).fresh
  BY <1>1, ObservationsRead DEF IInv, TypeInv
<1>3. ObservationDrafts(db, {b}).fresh \cap Taken = {} /\ Start(c, Admission, r)
      /\ UNCHANGED <<db, lock, raised, clean>>
  BY DEF IngestToolResult
<1> HIDE DEF r
<1> QED BY <1>2, <1>3, AdmissionAlone, ReadingStarts

LEMMA PromoteKeeps == ASSUME IInv, NEW c \in Callers, Promote(c) PROVE IInv'
<1> DEFINE s == call[c].script
<1>1. Doing(c, "promote") /\ UNCHANGED <<db, lock, raised, clean>>
  BY DEF Promote
<1>2. /\ Rest(c) = Tail(s) /\ Open(Tail(s)) /\ ~Midway(s, call[c].read)
      /\ \A r : Owes(s, r) => Owes(Tail(s), None)
  BY <1>1, OneStep DEF IInv
<1>3. CASE db.unpromoted = {}
  <2>1. Goto(c, Tail(s), None)
    BY <1>3, <1>2 DEF Promote
  <2>2. Fits(Tail(s), None, db.known) /\ ~Midway(Tail(s), None) /\ ~At(Tail(s), "admit")
    BY <1>2, OpenFits
  <2> QED BY <2>1, <2>2, <1>1, <1>2, Reads
<1>4. CASE db.unpromoted # {}
  <2>1. PICK evidence \in db.unpromoted : \E claims \in Extracted(evidence) :
          /\ ClaimDrafts(db, claims).fresh \cap Taken = {}
          /\ Goto(c, Admission \o Tail(s), [ClaimDrafts(db, claims) EXCEPT !.promoted = {evidence}])
    BY <1>4, <1>2 DEF Promote
  <2>2. PICK claims \in Extracted(evidence) :
          /\ ClaimDrafts(db, claims).fresh \cap Taken = {}
          /\ Goto(c, Admission \o Tail(s), [ClaimDrafts(db, claims) EXCEPT !.promoted = {evidence}])
    BY <2>1
  <2> DEFINE r == [ClaimDrafts(db, claims) EXCEPT !.promoted = {evidence}]
             s1 == Admission \o Tail(s)
  <2>3. claims \in SUBSET Basic
    BY <2>1, <2>2 DEF Extracted, IInv, TypeInv, TablesOK
  <2>4. AdmissionOK(r) /\ About(r.tasks, db.known \cup r.fresh)
        /\ r.fresh = ClaimDrafts(db, claims).fresh
    BY <2>3, ClaimsRead DEF IInv, TypeInv
  <2>5. Goto(c, s1, r) /\ r.fresh \cap Taken = {}
    BY <2>2, <2>4
  <2>6. Fits(s1, r, db.known) /\ ~Midway(s1, r) /\ Owes(s1, r)
    BY <2>4, <1>2, AdmissionFits
  <2> HIDE DEF r, s1, s
  <2> QED BY <2>5, <2>6, <1>1, <1>2, Reads DEF s
<1> QED BY <1>3, <1>4

LEMMA ConcatOpen ==
  ASSUME NEW x, Closed(x), Open(x), NEW s, Open(s)
  PROVE  Open(x \o s)
<1>1. ScriptOK(x \o s) /\ x \in Seq(Steps) /\ s \in Seq(Steps)
  BY ConcatOK DEF Open, Closed, ScriptOK
<1>2. CASE x = <<>>
  BY <1>2, <1>1 DEF Open
<1>3. CASE x # <<>>
  <2>1. (x \o s)[1] = x[1]
    BY <1>1, <1>3, ConcatOf
  <2> QED BY <2>1, <1>1, <1>3 DEF Open
<1> QED BY <1>2, <1>3

LEMMA ConcatClosed ==
  ASSUME NEW x, Closed(x), NEW s, Closed(s), Open(s)
  PROVE  Closed(x \o s)
<1>1. ScriptOK(x \o s) /\ x \in Seq(Steps) /\ s \in Seq(Steps)
  BY ConcatOK DEF Closed, ScriptOK
<1>2. ASSUME NEW i \in 1..Len(x \o s) PROVE (x \o s)[i][1] # "premises"
  <2>1. /\ Len(x) \in Nat /\ Len(s) \in Nat /\ Len(x \o s) = Len(x) + Len(s)
        /\ \A j \in 1..Len(x) : (x \o s)[j] = x[j]
        /\ \A j \in 1..Len(s) : (x \o s)[Len(x) + j] = s[j]
    BY <1>1, ConcatOf
  <2>2. CASE i <= Len(x)
    BY <2>1, <2>2 DEF Closed
  <2>3. CASE i > Len(x)
    <3>1. i - Len(x) \in 1..Len(s) /\ i = Len(x) + (i - Len(x))
      BY <2>1, <2>3
    <3>2. (x \o s)[i] = s[i - Len(x)]
      BY <2>1, <3>1
    <3> QED BY <3>1, <3>2 DEF Closed
  <2> QED BY <2>1, <2>2, <2>3
<1> QED BY <1>1, <1>2 DEF Closed

\* What an audit that was judged puts before the rest of its script.
LEMMA JudgedOpen ==
  ASSUME NEW t \in Tasks, NEW result \in Results, NEW s, Open(s), Owes(s, None)
  PROVE  LET s1 == <<<<"judged", t, result>>>> \o Completion(t, result) \o s IN
         Open(s1) /\ Owes(s1, None)
<1> DEFINE j == <<"judged", t, result>>
           x == Completion(t, result)
           s1 == <<j>> \o x \o s
<1>1. ScriptOK(s1)
  BY JudgedScript
<1>2. j \in Steps /\ x \in Seq(Steps) /\ s \in Seq(Steps) /\ <<j>> \in Seq(Steps)
  BY TaskSteps, CompletionScript, WrittenSteps DEF Closed, ScriptOK, Open
<1>3. (<<j>> \o x) \in Seq(Steps) /\ (<<j>> \o x)[1] = j /\ Len(<<j>> \o x) = 1 + Len(x) /\ Len(x) \in Nat
  <2> HIDE DEF j, x
  <2>1. Len(<<j>>) = 1 /\ <<j>>[1] = j
    OBVIOUS
  <2> QED BY <2>1, <1>2, ConcatOf
<1>4. s1 \in Seq(Steps) /\ s1[1] = j /\ Len(s1) >= 1
  <2> DEFINE y == <<j>> \o x
  <2> HIDE DEF j, x, y
  <2>1. y \in Seq(Steps) /\ y[1] = j /\ Len(y) = 1 + Len(x) /\ Len(x) \in Nat
    BY <1>3 DEF y
  <2>2. /\ Len(y) \in Nat /\ Len(s) \in Nat /\ y \o s \in Seq(Steps) /\ Len(y \o s) = Len(y) + Len(s)
        /\ \A i \in 1..Len(y) : (y \o s)[i] = y[i]
        /\ \A i \in 1..Len(s) : (y \o s)[Len(y) + i] = s[i]
    BY <2>1, <1>2
  <2>3. y \o s \in Seq(Steps) /\ (y \o s)[1] = j /\ Len(y \o s) >= 1
    BY <2>1, <2>2
  <2> QED BY <2>3 DEF y
<1>5. j[1] = "judged"
  OBVIOUS
<1> HIDE DEF s1, j, x
<1>6. s1[1][1] = "judged" /\ 1 \in 1..Len(s1)
  BY <1>4, <1>5
<1>7. Open(s1)
  BY <1>1, <1>6 DEF Open
<1>8. PICK i \in 1..Len(s1) : i > 1 /\ Sure(s1, i)
  BY <1>1, <1>6 DEF ScriptOK, Unsettling, Covers
<1>9. Owes(s1, None)
  BY <1>8 DEF Owes
<1> QED BY <1>7, <1>9 DEF s1, j, x

LEMMA RelabellingStarts ==
  ASSUME NEW known
  PROVE  Fits(<<Relabelling>>, None, known) /\ ~Midway(<<Relabelling>>, None)
         /\ ~At(<<Relabelling>>, "admit") /\ Owes(<<Relabelling>>, None)
BY RelabelScript, OpenFits

-----------------------------------------------------------------------------
(* The steps of an inference, and of the detection of contradictions.      *)

LEMMA RecordInferenceKeeps == ASSUME IInv, NEW c \in Callers, RecordInference(c) PROVE IInv'
<1> DEFINE s1 == <<Relabelling, <<"premises">>>>
<1>1. ScriptOK(s1) /\ Owes(s1, None)
  BY InferenceScript
<1>2. s1 # <<>> => s1[1][1] \notin {"admit", "stakes", "render"}
  BY DEF Relabelling
<1>3. Start(c, s1, None) /\ UNCHANGED <<db, lock, raised, clean>>
  BY DEF RecordInference
<1> HIDE DEF s1
<1>4. Open(s1)
  BY <1>1, <1>2 DEF Open
<1> QED BY <1>3, <1>4, OpenFits, ReadingStarts

LEMMA ReadPremisesKeeps == ASSUME IInv, NEW c \in Callers, ReadPremises(c) PROVE IInv'
<1> DEFINE s == call[c].script
           Premise(b, p) == [fresh |-> {b}, again |-> {}, decision |-> [x \in {b} |-> Cell(x, db.stakes)],
                             floor |-> db.stakes, tasks |-> TaskFor(b, Cell(b, db.stakes)),
                             premises |-> {p}, observed |-> ops, found |-> {}, promoted |-> {}]
<1>1. Doing(c, "premises") /\ UNCHANGED <<db, lock, raised, clean>>
  BY DEF ReadPremises
<1>2. /\ ScriptOK(s) /\ s # <<>> /\ s[1][1] = "premises" /\ ~Midway(s, call[c].read)
      /\ \A r : Owes(s, r) => Owes(Tail(s), None)
  BY <1>1, OneStep DEF IInv
<1>3. Tail(s) = <<>>
  BY <1>2 DEF ScriptOK
<1>4. \A r : ~Owes(s, r)
  BY <1>2, <1>3, EmptyScript
<1>5. CASE Goto(c, <<>>, None)
  <2>1. Fits(<<>>, None, db.known) /\ ~Midway(<<>>, None) /\ ~At(<<>>, "admit")
    BY EmptyScript, OpenFits
  <2> QED BY <2>1, <1>5, <1>1, <1>2, <1>4, Reads
<1>6. CASE \E b \in Derived \ Taken, p \in db.known : Goto(c, Admission, Premise(b, p))
  <2>1. PICK b \in Derived \ Taken, p \in db.known : Goto(c, Admission, Premise(b, p))
    BY <1>6
  <2> DEFINE r == Premise(b, p)
  <2>2. b \in Beliefs \ Verdicts /\ p \in Beliefs /\ TablesOK(db) /\ db.stakes \in Stakes
    BY <2>1, EpisodeAssumption DEF Beliefs, IInv, TypeInv, TablesOK
  <2>3. Cell(b, db.stakes) \in Decisions
    BY <2>2, TrustType
  <2>4. /\ Cell(b, db.stakes).status \in Statuses
        /\ TaskFor(b, Cell(b, db.stakes)) \subseteq Tasks /\ About(TaskFor(b, Cell(b, db.stakes)), {b})
    BY <2>2, <2>3, DecisionTasks
  <2>5. AdmissionOK(r) /\ About(r.tasks, db.known \cup r.fresh) /\ r.fresh = {b}
    BY <2>2, <2>4 DEF AdmissionOK, About
  <2>6. r.fresh \cap Taken = {}
    BY <2>1, <2>5
  <2> HIDE DEF r, Premise
  <2>7. Goto(c, Admission, r)
    BY <2>1 DEF r
  <2>8. Fits(Admission, r, db.known) /\ ~Midway(Admission, r) /\ Owes(Admission, r)
    BY <2>5, AdmissionAlone
  <2> QED BY <2>6, <2>7, <2>8, <1>1, <1>2, Reads
<1> QED BY <1>5, <1>6 DEF ReadPremises

\* A detection that has read stays at its step.
LEMMA DetectionStays ==
  ASSUME IInv, NEW c \in Callers, Doing(c, "detect"), NEW r, DetectionOK(r, db.known),
         Goto(c, call[c].script, r), UNCHANGED <<db, lock, raised, clean>>
  PROVE  IInv'
<1> DEFINE s == call[c].script
<1>1. ScriptOK(s) /\ s # <<>> /\ At(s, "detect") /\ s[1][1] = "detect" /\ Head(s) = s[1]
      /\ ~Midway(s, call[c].read)
  BY OneStep DEF IInv
<1>2. Fits(s, r, db.known) /\ ~Midway(s, r) /\ ~At(s, "admit")
  BY <1>1 DEF Fits, Midway, At
<1>3. Owes(s, call[c].read) => Owes(s, r)
  BY <1>1 DEF Owes, Sure
<1> HIDE DEF s
<1> QED BY <1>1, <1>2, <1>3, Reads DEF s

LEMMA DetectReadKeeps == ASSUME IInv, NEW c \in Callers, DetectRead(c) PROVE IInv'
<1> DEFINE Draft(asked) == [edges |-> Found(db), asked |-> asked, classified |-> {}, tasks |-> {}]
<1>1. Doing(c, "detect") /\ UNCHANGED <<db, lock, raised, clean>>
  BY DEF DetectRead
<1>2. CASE Goto(c, Rest(c), None)
  <2> DEFINE s == call[c].script
  <2>1. /\ Rest(c) = Tail(s) /\ Open(Tail(s)) /\ ~Midway(s, call[c].read)
        /\ \A r : Owes(s, r) => Owes(Tail(s), None)
    BY <1>1, OneStep DEF IInv
  <2>2. Fits(Tail(s), None, db.known) /\ ~Midway(Tail(s), None) /\ ~At(Tail(s), "admit")
    BY <2>1, OpenFits
  <2> HIDE DEF s
  <2> QED BY <1>1, <1>2, <2>1, <2>2, Reads DEF s
<1>3. CASE \E asked \in {{}} \cup {{pair} : pair \in Undecided(db)} :
             Goto(c, call[c].script, Draft(asked))
  <2>1. PICK asked \in {{}} \cup {{pair} : pair \in Undecided(db)} :
               Goto(c, call[c].script, Draft(asked))
    BY <1>3
  <2>2. asked \subseteq SUBSET db.known /\ asked \subseteq Pairs
    BY DEF Undecided, Related
  <2>3. Found(db) \subseteq db.known \X db.known
    BY BothWaysKnown DEF Found
  <2>4. DetectionOK(Draft(asked), db.known)
    BY <2>2, <2>3 DEF DetectionOK, About
  <2> HIDE DEF Draft
  <2> QED BY <1>1, <2>1, <2>4, DetectionStays
<1> QED BY <1>2, <1>3 DEF DetectRead

\* What a detection has read is what its next step needs.
LEMMA DetectionRead ==
  ASSUME IInv, NEW c \in Callers, Doing(c, "detect"), call[c].read # None
  PROVE  DetectionOK(call[c].read, db.known) /\ TablesOK(db) /\ db.known \in SUBSET Beliefs
<1>1. Fits(call[c].script, call[c].read, db.known) /\ TablesOK(db)
  BY Calls DEF IInv, TypeInv
<1>2. At(call[c].script, "detect")
  BY DEF Doing, IsIdle, At
<1> QED BY <1>1, <1>2 DEF Fits, TablesOK

LEMMA AdjudicateKeeps == ASSUME IInv, NEW c \in Callers, Adjudicate(c) PROVE IInv'
<1>1. /\ Doing(c, "detect") /\ call[c].read # None /\ UNCHANGED <<db, lock, raised, clean>>
      /\ \E pair \in call[c].read.asked, verdict \in {"rebut", "uncertain", "compatible", "unavailable"} :
           Goto(c, call[c].script, Adjudicated(call[c].read, db.open, pair, verdict))
  BY DEF Adjudicate
<1>2. PICK pair \in call[c].read.asked, verdict \in {"rebut", "uncertain", "compatible", "unavailable"} :
        Goto(c, call[c].script, Adjudicated(call[c].read, db.open, pair, verdict))
  BY <1>1
<1>3. DetectionOK(Adjudicated(call[c].read, db.open, pair, verdict), db.known)
  BY <1>1, DetectionRead, AdjudicatedOK
<1> QED BY <1>1, <1>2, <1>3, DetectionStays

LEMMA DetectWriteKeeps == ASSUME IInv, NEW c \in Callers, DetectWrite(c) PROVE IInv'
<1> DEFINE s == call[c].script
           r == call[c].read
<1>1. /\ Doing(c, "detect") /\ r # None /\ UNCHANGED <<lock, clean>>
      /\ AppendEvents(c, Insertable(r.tasks, db.open), Contradicted(db, r), Rest(c))
  BY DEF DetectWrite
<1>2. /\ Rest(c) = Tail(s) /\ Open(Tail(s)) /\ Owes(Tail(s), None) /\ ~Midway(s, r)
  BY <1>1, OneStep DEF IInv, Unsettling
<1>3. DetectionOK(r, db.known) /\ TablesOK(db) /\ EmptyOK(db)
  BY <1>1, DetectionRead DEF IInv
<1>4. CASE Insertable(r.tasks, db.open)
  <2>1. db' = Contradicted(db, r) /\ Goto(c, Tail(s), None)
    BY <1>1, <1>2, <1>4 DEF AppendEvents
  <2>2. TablesOK(db')
    BY <2>1, <1>3, <1>4, ContradictedOK
  <2>3. Same(db, db', {"classified", "rebuts", "open"}) /\ db'.rebuts = db.rebuts \cup r.edges
    BY <2>1, <1>3, ContradictedIs DEF TablesOK
  <2>4. /\ db'.noticed = db.noticed /\ db'.rendered = db.rendered /\ db'.known = db.known
        /\ db'.confirmed = db.confirmed /\ db'.defeated = db.defeated /\ db'.status = db.status
        /\ db'.conflicts = db.conflicts /\ db'.active = db.active /\ db'.undercuts = db.undercuts
    BY <2>3, FieldsAre DEF Same
  <2>5. EmptyOK(db')
    BY <1>3, <2>3, <2>4 DEF EmptyOK, DetectionOK
  <2>6. Fits(Tail(s), None, db'.known) /\ ~Midway(Tail(s), None) /\ ~At(Tail(s), "admit")
    BY <1>2, OpenFits
  <2>7. db.known \subseteq db'.known /\ db'.known \subseteq db.known
        /\ \A b \in db.known : db'.status[b] = db.status[b]
    BY <2>4
  <2>8. lock' = lock /\ clean' = clean
    BY <1>1
  <2> HIDE DEF s, r
  <2> QED BY <2>1, <2>2, <2>4, <2>5, <2>6, <2>7, <2>8, <1>2, Moves DEF s, r
<1>5. CASE ~Insertable(r.tasks, db.open)
  <2>1. UNCHANGED db /\ Abort(c)
    BY <1>1, <1>5 DEF AppendEvents
  <2> QED BY <2>1, <1>1, <1>2, Aborts
<1> QED BY <1>4, <1>5

-----------------------------------------------------------------------------
(* The steps of verification and of audits that hold no lock.              *)

LEMMA PassiveKeeps == ASSUME IInv, NEW c \in Callers, Passive(c) PROVE IInv'
<1> DEFINE s == call[c].script
           todo == SetToSeq({t \in db.open : Confirmable(db, t)})
           last == IF todo = <<>> THEN <<>> ELSE <<Relabelling>>
           x == Sweep(todo) \o last
           s1 == x \o Tail(s)
<1>1. Doing(c, "passive") /\ UNCHANGED <<db, lock, raised, clean>>
  BY DEF Passive
<1>2. /\ Rest(c) = Tail(s) /\ Open(Tail(s)) /\ ~Midway(s, call[c].read)
      /\ \A r : Owes(s, r) => Owes(Tail(s), None)
  BY <1>1, OneStep DEF IInv
<1>3. Goto(c, s1, None)
  BY <1>2 DEF Passive
<1>4. todo \in Seq(Tasks)
  <2>1. {t \in db.open : Confirmable(db, t)} \in SUBSET Tasks
    BY DEF IInv, TypeInv, TablesOK
  <2> QED BY <2>1, ListedTasks
<1> HIDE DEF todo
<1>5. Closed(Sweep(todo)) /\ Open(Sweep(todo))
  BY <1>4, SweepScript
<1>6. Closed(last) /\ Open(last)
  <2>1. Closed(<<>>)
    BY EmptyScript DEF Closed
  <2> QED BY <2>1, EmptyScript, RelabelScript
<1> HIDE DEF last
<1>7. Closed(x) /\ Open(x)
  BY <1>5, <1>6, ConcatOpen, ConcatClosed
<1> HIDE DEF x, s
<1>8. Open(s1) /\ (Owes(Tail(s), None) => Owes(s1, None))
  BY <1>2, <1>7, ConcatOpen, OwesConcat DEF Open, Closed
<1> HIDE DEF s1
<1>9. Fits(s1, None, db.known) /\ ~Midway(s1, None) /\ ~At(s1, "admit")
  BY <1>8, OpenFits
<1> QED BY <1>1, <1>2, <1>3, <1>8, <1>9, Reads DEF s

\* A caller that wrote at once and has nothing left to do, when no relabelling depends
\* on what it wrote.
LEMMA WritesAtOnce ==
  ASSUME IInv, NEW c \in Callers, NEW s1, Start(c, s1, None), Open(s1),
         UNCHANGED <<lock, raised, clean>>, TablesOK(db'), EmptyOK(db'),
         NEW but, Same(db, db', but),
         but \cap {"known", "status", "noticed", "rendered", "confirmed", "defeated"} = {},
         Owes(s1, None) \/ but \cap View = {}
  PROVE  IInv'
<1>1. /\ Goto(c, s1, None) /\ ~Midway(call[c].script, call[c].read)
      /\ ~Owes(call[c].script, call[c].read)
  BY Starts
<1>2. /\ db'.noticed = db.noticed /\ db'.rendered = db.rendered /\ db'.known = db.known
      /\ db'.confirmed = db.confirmed /\ db'.defeated = db.defeated /\ db'.status = db.status
  BY FieldsAre DEF Same
<1>3. Fits(s1, None, db'.known) /\ ~Midway(s1, None) /\ ~At(s1, "admit")
  BY OpenFits
<1>4. but \cap View = {} => SameView(db, db')
  BY FieldsAre DEF Same, SameView, View
<1>5. lock' = lock /\ clean' = clean /\ raised' = raised
  OBVIOUS
<1>6. db.known \subseteq db'.known /\ db'.known \subseteq db.known
      /\ \A b \in db.known : db'.status[b] = db.status[b]
  BY <1>2
<1> QED BY <1>1, <1>2, <1>3, <1>4, <1>5, <1>6, Moves

LEMMA RequestVerificationKeeps ==
  ASSUME IInv, NEW c \in Callers, NEW b \in db.known, NEW method \in Requestable,
         RequestVerification(c, b, method)
  PROVE  IInv'
<1> DEFINE t == [belief |-> b, method |-> method, k |-> 1]
<1>1. /\ KeyOf(t) \notin Keys(db.open) /\ Start(c, <<>>, None) /\ db' = TasksCreated(db, {t})
      /\ UNCHANGED <<lock, raised, clean>>
  BY DEF RequestVerification
<1>2. t \in Tasks /\ t.belief \in db.known /\ TablesOK(db) /\ EmptyOK(db)
  <2>1. b \in Beliefs /\ method \in Methods /\ TablesOK(db) /\ EmptyOK(db)
    BY EpisodeAssumption DEF IInv, TypeInv, TablesOK
  <2> QED BY <2>1 DEF Tasks
<1> HIDE DEF t
<1>3. TablesOK(db') /\ Same(db, db', {"open"})
  BY <1>1, <1>2, TasksCreatedOK
<1>4. EmptyOK(db')
  BY <1>2, <1>3, FieldsAre DEF Same, EmptyOK
<1>5. {"open"} \cap {"known", "status", "noticed", "rendered", "confirmed", "defeated"} = {}
      /\ {"open"} \cap View = {}
  BY DEF View
<1> QED BY <1>1, <1>3, <1>4, <1>5, EmptyScript, WritesAtOnce

LEMMA CompleteVerificationKeeps ==
  ASSUME IInv, NEW c \in Callers, NEW t \in db.open, NEW result \in Results,
         CompleteVerification(c, t, result)
  PROVE  IInv'
<1> DEFINE s1 == Completion(t, result)
<1>1. Start(c, s1, None) /\ UNCHANGED <<db, lock, raised, clean>>
  BY DEF CompleteVerification
<1>2. t \in Tasks
  BY DEF IInv, TypeInv, TablesOK
<1>3. Open(s1)
  BY <1>2, CompletionScript
<1> HIDE DEF s1
<1> QED BY <1>1, <1>3, OpenFits, ReadingStarts

LEMMA AuditKeeps == ASSUME IInv, NEW c \in Callers, Audit(c) PROVE IInv'
<1> DEFINE s == call[c].script
<1>1. Doing(c, "audit") /\ UNCHANGED <<db, lock, raised, clean>>
  BY DEF Audit
<1>2. /\ Rest(c) = Tail(s) /\ Open(Tail(s)) /\ ~Midway(s, call[c].read) /\ Owes(Tail(s), None)
  BY <1>1, OneStep DEF IInv, Unsettling
<1>3. ASSUME NEW s1, Open(s1), Owes(s1, None), Goto(c, s1, None)
      PROVE  IInv'
  BY <1>1, <1>2, <1>3, OpenFits, Reads
<1>4. CASE Goto(c, Tail(s), None)
  BY <1>2, <1>3, <1>4
<1>5. \A t \in DueAudits : t \in Tasks
  BY DEF DueAudits, IInv, TypeInv, TablesOK
<1>6. ASSUME NEW t \in DueAudits, NEW verdict \in {"confirmed", "disconfirmed"},
             Goto(c, <<<<"judged", t, verdict>>>> \o Completion(t, verdict) \o Tail(s), None)
      PROVE  IInv'
  <2> DEFINE s1 == <<<<"judged", t, verdict>>>> \o Completion(t, verdict) \o Tail(s)
  <2>1. Open(s1) /\ Owes(s1, None)
    BY <1>2, <1>5, JudgedOpen DEF Results
  <2> HIDE DEF s1
  <2>2. Goto(c, s1, None)
    BY <1>6 DEF s1
  <2> QED BY <2>1, <2>2, <1>3
<1>7. ASSUME NEW t \in DueAudits, Goto(c, Completion(t, "disconfirmed") \o Tail(s), None)
      PROVE  IInv'
  <2>1. Closed(Completion(t, "disconfirmed")) /\ Open(Completion(t, "disconfirmed"))
    BY <1>5, CompletionScript DEF Results
  <2>2. Open(Completion(t, "disconfirmed") \o Tail(s)) /\ Owes(Completion(t, "disconfirmed") \o Tail(s), None)
    BY <2>1, <1>2, ConcatOpen, OwesConcat DEF Open, Closed
  <2> QED BY <2>2, <1>3, <1>7
<1>8. \/ Goto(c, Tail(s), None)
      \/ \E t \in DueAudits : \E verdict \in {"confirmed", "disconfirmed"} :
           Goto(c, <<<<"judged", t, verdict>>>> \o Completion(t, verdict) \o Tail(s), None)
      \/ \E t \in DueAudits : Goto(c, Completion(t, "disconfirmed") \o Tail(s), None)
  BY <1>2 DEF Audit
<1> QED BY <1>4, <1>6, <1>7, <1>8

LEMMA RecordVerdictKeeps == ASSUME IInv, NEW c \in Callers, RecordVerdict(c) PROVE IInv'
<1> DEFINE s == call[c].script
           step == Head(s)
           b == step[2].belief
           standing == {p \in db.premises[b] : db.status[p] = "in"}
           now == IF step[3] = "confirmed" THEN db.audited \cup {b} ELSE db.audited \ {b}
           audited == [db EXCEPT !.audited = now]
           free == IF standing = {} THEN {} ELSE Verdicts \ db.known
           v == Min(free)
           judged == Judged(audited, v, standing)
           cut == IF step[3] = "disconfirmed" THEN {<<v, b>>} ELSE {}
<1>1. Doing(c, "judged") /\ Goto(c, Rest(c), None) /\ UNCHANGED <<lock, raised, clean>>
  BY DEF RecordVerdict
<1>2. /\ Rest(c) = Tail(s) /\ Open(Tail(s)) /\ Owes(Tail(s), None) /\ ~Midway(s, call[c].read)
      /\ step \in Steps /\ step[1] = "judged"
  BY <1>1, OneStep DEF IInv, Unsettling
<1>3. b \in Beliefs
  <2>1. step[2] \in Tasks
    BY <1>2, TaskStep
  <2> QED BY <2>1 DEF Tasks
<1>4. TablesOK(db) /\ DOMAIN db = Fields /\ EmptyOK(db)
  BY DEF IInv, TypeInv, TablesOK
<1>5. standing \in SUBSET Beliefs
  BY <1>3, <1>4 DEF TablesOK
<1>6. db' = IF free = {} THEN audited ELSE [judged EXCEPT !.undercuts = judged.undercuts \cup cut]
  BY DEF RecordVerdict
<1>7. TablesOK(audited) /\ Same(db, audited, {"audited"})
  BY <1>4, AuditedOK
<1>8. free # {} => v \in Verdicts \ db.known
  <2>1. free \subseteq Nat
    BY EpisodeAssumption DEF Beliefs
  <2>2. free # {} => v \in free
    BY <2>1, MinIn
  <2> QED BY <2>2
<1> DEFINE changed == {"audited", "open", "known", "status", "admission", "floor", "observed",
                       "premises", "undercuts"}
<1> HIDE DEF standing, now, audited, free, v, judged, cut
<1>9. /\ TablesOK(db') /\ Same(db, db', changed) /\ EmptyOK(db')
      /\ db.known \subseteq db'.known /\ db'.known \subseteq db.known \cup Verdicts
      /\ \A x \in db.known : db'.status[x] = db.status[x]
  <2>1. CASE free = {}
    <3>1. db' = audited
      BY <1>6, <2>1
    <3>2. /\ Same(db, db', changed) /\ db'.known = db.known /\ db'.status = db.status
          /\ db'.conflicts = db.conflicts /\ db'.active = db.active
          /\ db'.undercuts = db.undercuts /\ db'.rebuts = db.rebuts
      BY <3>1, <1>7, FieldsAre DEF Same
    <3> QED BY <3>1, <3>2, <1>4, <1>7 DEF EmptyOK
  <2>2. CASE free # {}
    <3>1. v \in Verdicts \ db.known /\ v \in Beliefs /\ audited.known = db.known
          /\ audited.status = db.status
      BY <2>2, <1>8, <1>7, FieldsAre DEF Beliefs, Same
    <3>2. TablesOK(judged)
      BY <3>1, <1>5, <1>7, JudgedOK DEF judged
    <3>3. /\ Same(audited, judged, {"open", "known", "status", "admission", "floor", "observed", "premises"})
          /\ judged.open = audited.open \cup TaskFor(v, Cell(v, audited.stakes))
          /\ judged.known = audited.known \cup {v}
          /\ judged.status = [x \in Beliefs |-> IF x = v THEN Cell(v, audited.stakes).status
                                                ELSE audited.status[x]]
          /\ judged.admission = [x \in Beliefs |-> IF x = v THEN Cell(v, audited.stakes).status
                                                   ELSE audited.admission[x]]
          /\ judged.floor = [x \in Beliefs |-> IF x = v THEN audited.stakes ELSE audited.floor[x]]
          /\ judged.observed = [x \in Beliefs |-> judged.observed[x]]
          /\ judged.premises = [x \in Beliefs |-> IF x = v THEN standing ELSE audited.premises[x]]
      BY <3>1, <1>7, JudgedIs DEF judged
    <3>4. cut \subseteq Beliefs \X Beliefs
      BY <3>1, <1>3 DEF cut
    <3>5. db' = [judged EXCEPT !.undercuts = judged.undercuts \cup cut]
      BY <2>2, <1>6
    <3>6. TablesOK(db') /\ Same(judged, db', {"undercuts"})
      BY <3>2, <3>4, <3>5, UndercutsOK
    <3>7. db'.known = judged.known /\ db'.status = judged.status
      BY <3>6, FieldsAre DEF Same
    <3>8. Same(db, db', changed)
      BY <3>3, <3>6, <1>7 DEF Same
    <3>9. db'.known = db.known \cup {v}
      BY <3>1, <3>3, <3>7
    <3>10. \A x \in db.known : db'.status[x] = db.status[x]
      BY <3>1, <3>3, <3>7, <1>4 DEF TablesOK
    <3>11. EmptyOK(db')
      BY <3>9 DEF EmptyOK
    <3> QED BY <3>1, <3>6, <3>8, <3>9, <3>10, <3>11
  <2> QED BY <2>1, <2>2
<1>10. /\ db'.noticed = db.noticed /\ db'.rendered = db.rendered
       /\ db'.confirmed = db.confirmed /\ db'.defeated = db.defeated
  BY <1>9, FieldsAre DEF Same
<1>11. Fits(Tail(s), None, db'.known) /\ ~Midway(Tail(s), None) /\ ~At(Tail(s), "admit")
  BY <1>2, OpenFits
<1>12. lock' = lock /\ clean' = clean /\ Goto(c, Tail(s), None)
  BY <1>1, <1>2
<1>13. db'.known \subseteq db.known \cup Verdicts \cup (IF Admitting(c) THEN call[c].read.fresh ELSE {})
  BY <1>9
<1> HIDE DEF s, changed
<1> QED BY <1>9, <1>10, <1>11, <1>12, <1>13, <1>2, Moves DEF s

-----------------------------------------------------------------------------
(* Stakes, context, notices and defeats stated by a caller.                *)

LEMMA SetStakesKeeps ==
  ASSUME IInv, NEW c \in Callers, NEW stakes \in Stakes, SetStakes(c, stakes) PROVE IInv'
<1> DEFINE s1 == <<<<"stakes">>, Relabelling>>
           r == StakesDrafts(db, stakes)
<1>1. Start(c, s1, r) /\ UNCHANGED <<db, lock, raised, clean>>
  BY DEF SetStakes
<1>2. StakesOK(r) /\ About(r.tasks, db.known)
  BY StakesDraftsOK DEF IInv, TypeInv
<1>3. ScriptOK(s1) /\ s1 # <<>> /\ Head(s1)[1] = "stakes"
  BY StakesScript
<1> HIDE DEF s1, r
<1>4. Fits(s1, r, db.known) /\ ~Midway(s1, r) /\ ~At(s1, "admit")
  BY <1>2, <1>3 DEF Fits, Midway, At
<1> QED BY <1>1, <1>4, ReadingStarts

LEMMA ChangeStakesKeeps == ASSUME IInv, NEW c \in Callers, ChangeStakes(c) PROVE IInv'
<1> DEFINE s == call[c].script
           r == call[c].read
           gone == r.superseded \cap db.open
           accepted == Keys(gone) \cap db.done = {} /\ Insertable(r.tasks, db.open \ gone)
<1>1. Doing(c, "stakes") /\ UNCHANGED <<lock, clean>>
      /\ AppendEvents(c, accepted, StakesChanged(db, r), Rest(c))
  BY DEF ChangeStakes, StakesChanged
<1>2. /\ Rest(c) = Tail(s) /\ Open(Tail(s)) /\ Owes(Tail(s), None) /\ ~Midway(s, r) /\ At(s, "stakes")
  BY <1>1, OneStep DEF IInv, Unsettling
<1>3. Fits(s, r, db.known) /\ TablesOK(db) /\ EmptyOK(db)
  BY Calls DEF IInv, TypeInv
<1>4. StakesOK(r) /\ About(r.tasks, db.known)
  BY <1>2, <1>3 DEF Fits
<1>5. CASE accepted
  <2>1. db' = StakesChanged(db, r) /\ Goto(c, Tail(s), None)
    BY <1>1, <1>2, <1>5 DEF AppendEvents
  <2>2. TablesOK(db') /\ Same(db, db', {"stakes", "admission", "open", "done"})
    BY <2>1, <1>3, <1>4, <1>5, StakesChangedOK
  <2>3. /\ db'.noticed = db.noticed /\ db'.rendered = db.rendered /\ db'.known = db.known
        /\ db'.confirmed = db.confirmed /\ db'.defeated = db.defeated /\ db'.status = db.status
        /\ db'.conflicts = db.conflicts /\ db'.active = db.active
        /\ db'.undercuts = db.undercuts /\ db'.rebuts = db.rebuts
    BY <2>2, FieldsAre DEF Same
  <2>4. EmptyOK(db')
    BY <2>3, <1>3 DEF EmptyOK
  <2>5. Fits(Tail(s), None, db'.known) /\ ~Midway(Tail(s), None) /\ ~At(Tail(s), "admit")
    BY <1>2, OpenFits
  <2>6. db.known \subseteq db'.known /\ db'.known \subseteq db.known
        /\ \A b \in db.known : db'.status[b] = db.status[b]
    BY <2>3
  <2>7. lock' = lock /\ clean' = clean
    BY <1>1
  <2> HIDE DEF s, r
  <2> QED BY <2>1, <2>2, <2>3, <2>4, <2>5, <2>6, <2>7, <1>2, Moves DEF s, r
<1>6. CASE ~accepted
  <2>1. UNCHANGED db /\ Abort(c)
    BY <1>1, <1>6 DEF AppendEvents
  <2> QED BY <2>1, <1>1, <1>2, Aborts
<1> QED BY <1>5, <1>6

LEMMA AddUndercutKeeps ==
  ASSUME IInv, NEW c \in Callers, NEW b1 \in db.known, NEW b2 \in db.known, AddUndercut(c, b1, b2)
  PROVE  IInv'
<1>1. /\ Start(c, <<Relabelling>>, None) /\ UNCHANGED <<lock, raised, clean>>
      /\ db' = [db EXCEPT !.undercuts = db.undercuts \cup {<<b1, b2>>}]
  BY DEF AddUndercut
<1>2. TablesOK(db) /\ {<<b1, b2>>} \subseteq Beliefs \X Beliefs
  BY DEF IInv, TypeInv, TablesOK
<1>3. TablesOK(db') /\ Same(db, db', {"undercuts"})
  BY <1>1, <1>2, UndercutsOK
<1>4. EmptyOK(db')
  BY <1>3, FieldsAre DEF Same, EmptyOK
<1>5. {"undercuts"} \cap {"known", "status", "noticed", "rendered", "confirmed", "defeated"} = {}
  OBVIOUS
<1> QED BY <1>1, <1>3, <1>4, <1>5, RelabelScript, WritesAtOnce

LEMMA AddRebutKeeps ==
  ASSUME IInv, NEW c \in Callers, NEW b1 \in db.known, NEW b2 \in db.known, AddRebut(c, {b1, b2})
  PROVE  IInv'
<1>1. /\ Start(c, <<Relabelling>>, None) /\ UNCHANGED <<lock, raised, clean>>
      /\ db' = [db EXCEPT !.rebuts = db.rebuts \cup BothWays({b1, b2})]
  BY DEF AddRebut
<1>2. TablesOK(db) /\ BothWays({b1, b2}) \subseteq db.known \X db.known
  BY BothWaysKnown DEF IInv, TypeInv
<1>3. TablesOK(db') /\ Same(db, db', {"rebuts"})
  BY <1>1, <1>2, RebutsOK
<1>4. EmptyOK(db')
  BY <1>3, FieldsAre DEF Same, EmptyOK
<1>5. {"rebuts"} \cap {"known", "status", "noticed", "rendered", "confirmed", "defeated"} = {}
  OBVIOUS
<1> QED BY <1>1, <1>3, <1>4, <1>5, RelabelScript, WritesAtOnce

LEMMA AcknowledgeRetractionKeeps ==
  ASSUME IInv, NEW c \in Callers, NEW b, AcknowledgeRetraction(c, b) PROVE IInv'
<1>1. /\ Start(c, <<>>, None) /\ UNCHANGED <<lock, raised, clean>>
      /\ db' = [db EXCEPT !.notices = db.notices \ {b}]
  BY DEF AcknowledgeRetraction
<1>2. TablesOK(db') /\ Same(db, db', {"notices"})
  BY <1>1, AcknowledgedOK DEF IInv, TypeInv
<1>3. EmptyOK(db')
  BY <1>2, FieldsAre DEF Same, EmptyOK, IInv
<1>4. {"notices"} \cap {"known", "status", "noticed", "rendered", "confirmed", "defeated"} = {}
      /\ {"notices"} \cap View = {}
  BY DEF View
<1> QED BY <1>1, <1>2, <1>3, <1>4, EmptyScript, WritesAtOnce

LEMMA BeginTurnKeeps == ASSUME IInv, NEW c \in Callers, BeginTurn(c) PROVE IInv'
<1> DEFINE turn == db.turn + 1
           kept == {b \in db.notices : turn - db.born[b] < NoticeTtl}
<1>1. /\ Start(c, <<>>, None) /\ UNCHANGED <<lock, raised, clean>>
      /\ db' = [db EXCEPT !.turn = turn, !.notices = kept]
  BY DEF BeginTurn
<1>2. turn \in Nat /\ kept \in SUBSET db.notices /\ TablesOK(db)
  BY DEF IInv, TypeInv, TablesOK
<1> HIDE DEF turn, kept
<1>3. TablesOK(db') /\ Same(db, db', {"turn", "notices"})
  BY <1>1, <1>2, NoticesKeptOK
<1>4. EmptyOK(db')
  BY <1>3, FieldsAre DEF Same, EmptyOK, IInv
<1>5. {"turn", "notices"} \cap {"known", "status", "noticed", "rendered", "confirmed", "defeated"} = {}
      /\ {"turn", "notices"} \cap View = {}
  BY DEF View
<1> QED BY <1>1, <1>3, <1>4, <1>5, EmptyScript, WritesAtOnce

LEMMA GateActionKeeps == ASSUME IInv, NEW c \in Callers, GateAction(c) PROVE IInv'
BY RelabellingStarts, ReadingStarts DEF GateAction

LEMMA CompileContextKeeps ==
  ASSUME IInv, NEW c \in Callers, NEW deferred \in BOOLEAN, CompileContext(c, deferred) PROVE IInv'
<1> DEFINE x == IF deferred THEN <<>> ELSE <<<<"promote">>, <<"audit">>>>
           y == <<Relabelling, <<"select">>, <<"render">>>>
           s1 == x \o y
<1>1. Start(c, s1, None) /\ UNCHANGED <<db, lock, raised, clean>>
  BY DEF CompileContext
<1>2. ScriptOK(s1)
  BY ContextScript
<1>3. s1[1][1] \in {"relabel", "promote"}
  <2>1. CASE deferred
    BY <2>1 DEF Relabelling
  <2>2. CASE ~deferred
    BY <2>2, PlainSteps, WrittenFive DEF Relabelling
  <2> QED BY <2>1, <2>2
<1> HIDE DEF s1
<1>4. Open(s1)
  BY <1>2, <1>3 DEF Open
<1> QED BY <1>1, <1>4, OpenFits, ReadingStarts

LEMMA MaintainKeeps == ASSUME IInv, NEW c \in Callers, Maintain(c) PROVE IInv'
<1> DEFINE y == <<<<"promote">>, <<"audit">>, Relabelling>>
           s1 == AfterNewBeliefs \o y
<1>1. Start(c, s1, None) /\ UNCHANGED <<db, lock, raised, clean>>
  BY DEF Maintain
<1>2. ScriptOK(s1)
  BY MaintenanceScript
<1>3. s1[1][1] = "detect"
  <2>1. AfterNewBeliefs \in Seq(Steps) /\ y \in Seq(Steps)
    BY PlainSteps, WrittenSteps DEF AfterNewBeliefs, Relabelling
  <2>2. Len(AfterNewBeliefs) = 3 /\ AfterNewBeliefs[1] = <<"detect">>
    BY DEF AfterNewBeliefs
  <2> HIDE DEF y
  <2>3. s1[1] = AfterNewBeliefs[1]
    BY <2>1, <2>2, ConcatOf
  <2> QED BY <2>2, <2>3
<1> HIDE DEF s1
<1>4. Open(s1)
  BY <1>2, <1>3 DEF Open
<1> QED BY <1>1, <1>4, OpenFits, ReadingStarts

LEMMA PresentableKnown ==
  ASSUME NEW d, NEW query, NEW beliefs \in Fitting(Presentable(d, query))
  PROVE  beliefs \subseteq d.known
<1>1. Presentable(d, query) \subseteq d.known
  BY DEF Presentable
<1> QED BY <1>1 DEF Fitting

LEMMA SelectKeeps == ASSUME IInv, NEW c \in Callers, Select(c) PROVE IInv'
<1> DEFINE s == call[c].script
<1>1. Doing(c, "select") /\ UNCHANGED <<db, lock, raised, clean>>
  BY DEF Select
<1>2. /\ ScriptOK(s) /\ s # <<>> /\ s[1][1] = "select" /\ ScriptOK(Tail(s)) /\ Rest(c) = Tail(s)
      /\ ~Midway(s, call[c].read)
      /\ \A r : Owes(s, r) => Owes(Tail(s), None)
  BY <1>1, OneStep DEF IInv
<1>3. PICK query \in Queries : \E beliefs \in Fitting(Presentable(db, query)) : Goto(c, Tail(s), beliefs)
  BY <1>2 DEF Select
<1>4. PICK beliefs \in Fitting(Presentable(db, query)) : Goto(c, Tail(s), beliefs)
  BY <1>3
<1>5. beliefs \subseteq db.known
  BY PresentableKnown
<1>6. Tail(s) # <<>> /\ Head(Tail(s))[1] = "render" /\ Tail(s)[1][1] = "render"
  <2>1. 1 \in 1..Len(s) /\ s \in Seq(Steps) /\ s[1][1] = "select"
    BY <1>2, HeadOf
  <2>2. 1 < Len(s) /\ s[1 + 1][1] = "render"
    BY <1>2, <2>1 DEF ScriptOK
  <2>3. Tail(s)[1] = s[1 + 1] /\ Len(Tail(s)) = Len(s) - 1 /\ Len(s) \in Nat
    BY <1>2, <2>1, <2>2, TailOf
  <2>4. Tail(s) # <<>>
    BY <2>2, <2>3
  <2> QED BY <2>2, <2>3, <2>4, <1>2, HeadOf
<1> HIDE DEF s
<1>7. Fits(Tail(s), beliefs, db.known) /\ ~Midway(Tail(s), beliefs) /\ ~At(Tail(s), "admit")
  BY <1>2, <1>5, <1>6 DEF Fits, Midway, At
<1>8. Owes(Tail(s), None) => Owes(Tail(s), beliefs)
  BY <1>6 DEF Owes, Sure
<1> QED BY <1>1, <1>2, <1>4, <1>7, <1>8, Reads DEF s

LEMMA RenderKeeps == ASSUME IInv, NEW c \in Callers, Render(c) PROVE IInv'
<1> DEFINE s == call[c].script
           r == call[c].read
<1>1. /\ Doing(c, "render") /\ UNCHANGED <<lock, raised>> /\ Goto(c, Rest(c), None)
      /\ db' = Shown(db, r)
      /\ clean' = clean \cup {b \in r \ AboutToFall : db.status[b] = "in"}
  BY DEF Render
<1>2. /\ Rest(c) = Tail(s) /\ Open(Tail(s)) /\ ~Midway(s, r) /\ At(s, "render")
      /\ Owes(s, r) => Owes(Tail(s), None)
  BY <1>1, OneStep DEF IInv
<1>3. TypeInv /\ CallsOK /\ LockOK /\ TablesOK(db) /\ DOMAIN db = Fields
  BY DEF IInv, TypeInv, TablesOK
<1>4. r \in SUBSET db.known
  <2>1. Fits(s, r, db.known)
    BY <1>3, Calls
  <2> QED BY <2>1, <1>2 DEF Fits
<1>5. TablesOK(db') /\ Same(db, db', {"rendered"}) /\ db'.rendered = db.rendered \cup r
  BY <1>1, <1>3, <1>4, ShownOK
<1>6. /\ db'.noticed = db.noticed /\ db'.known = db.known /\ db'.status = db.status
      /\ db'.confirmed = db.confirmed /\ db'.defeated = db.defeated
      /\ SameView(db, db')
  BY <1>5, FieldsAre DEF Same, SameView, View
<1>7. Fits(Tail(s), None, db'.known) /\ ~Midway(Tail(s), None) /\ ~At(Tail(s), "admit")
  BY <1>2, OpenFits
<1>8. Goto(c, Tail(s), None)
  BY <1>1, <1>2
<1> HIDE DEF s
<1>9. TypeInv'
  <2>1. lock' = lock /\ lock \in Callers \cup {None} /\ lock # c
    BY <1>1, <1>2, <1>3 DEF LockOK, s
  <2>2. db.known \subseteq db'.known
    BY <1>6
  <2> QED BY <2>1, <2>2, <1>3, <1>5, <1>7, <1>8, TypeMoves
<1>10. FreshOK'
  BY <1>3, <1>6, <1>7, <1>8, FreshMoves DEF IInv
<1>11. CountsOK'
  BY <1>3, <1>6, <1>7, <1>8, CountsMoves DEF IInv
<1>12. EmptyOK(db')
  BY <1>6, EmptyView DEF IInv
<1>13. CoveredOK'
  <2>1. ~(At(Tail(s), "relabel") /\ None # None) /\ ~Relabels(c)
    BY <1>2, <1>3, OneMidway DEF s
  <2> QED BY <2>1, <1>1, <1>2, <1>3, <1>5, <1>6, <1>7, <1>8, CoveredMoves DEF IInv, s, Same
<1>14. NoticesOK'
  <2>1. /\ \A o \in Callers \ {c} : call'[o] = call[o]
        /\ ~Relabels(c)'
        /\ \A o \in Callers \ {c} : Relabels(o)' <=> Relabels(o)
    BY <1>3, <1>7, <1>8, CallIs DEF Relabels, Midway
  <2>2. clean' \subseteq db'.rendered
    BY <1>1, <1>5 DEF IInv, NoticesOK
  <2>3. \A b \in clean' : db'.status[b] = "in" \/ b \in db'.noticed
    BY <1>1, <1>6 DEF IInv, NoticesOK
  <2>4. ASSUME NEW o \in Callers, Relabels(o)', NEW b \in clean' \cap DOMAIN call'[o].read.labels
        PROVE  call'[o].read.labels[b] = "in" \/ b \in db'.noticed \/ b \in call'[o].read.announced
    <3>1. o # c /\ Relabels(o) /\ call'[o] = call[o]
      BY <2>1, <2>4
    <3>2. CASE b \in clean
      BY <3>1, <3>2, <2>4, <1>6 DEF IInv, NoticesOK
    <3>3. CASE b \notin clean
      <4>1. b \notin AboutToFall
        BY <3>3, <2>4, <1>1
      <4>2. Doing(o, "relabel") /\ call[o].read # None
        BY <3>1 DEF Relabels
      <4> QED BY <4>1, <4>2, <3>1, <2>4 DEF AboutToFall
    <3> QED BY <3>2, <3>3
  <2> QED BY <2>2, <2>3, <2>4 DEF NoticesOK
<1> QED BY <1>9, <1>10, <1>11, <1>12, <1>13, <1>14 DEF IInv

-----------------------------------------------------------------------------
(* When a labelling is settled.                                            *)

\* Graphs that differ in what is stale at most.
SameButStale(g, h) ==
  /\ h.beliefs = g.beliefs /\ h.admission = g.admission /\ h.grounded = g.grounded
  /\ h.premises = g.premises /\ h.undercuts = g.undercuts /\ h.rebuts = g.rebuts
  /\ h.priority = g.priority

LEMMA AlikeLabels ==
  ASSUME NEW g, NEW h, SameButStale(g, h), NEW s
  PROVE  /\ \A b : Supported(h, s, b) <=> Supported(g, s, b)
         /\ \A b : Defeated(h, s, b) <=> Defeated(g, s, b)
         /\ Ties(h, s) = Ties(g, s) /\ ActiveEdges(h, s) = ActiveEdges(g, s)
<1>1. \A b : Undercut(h, s, b) <=> Undercut(g, s, b)
  BY DEF Undercut, SameButStale
<1>2. \A b : Supported(h, s, b) <=> Supported(g, s, b)
  BY <1>1 DEF Supported, SameButStale
<1>3. \A b : Live(h, s, b) <=> Live(g, s, b)
  BY <1>2 DEF Live, SameButStale
<1>4. \A b : Defeated(h, s, b) <=> Defeated(g, s, b)
  BY <1>2 DEF Defeated, SameButStale
<1>5. Ties(h, s) = Ties(g, s)
  BY <1>3 DEF Ties, SameButStale
<1>6. ActiveEdges(h, s) = ActiveEdges(g, s)
  BY DEF ActiveEdges, SameButStale
<1> QED BY <1>2, <1>4, <1>5, <1>6

\* A fixed point stays one while beliefs that are in are not seen stale, and no other
\* becomes fresh again.
LEMMA AlikeSettles ==
  ASSUME NEW g, NEW h, SameButStale(g, h), \A b \in g.beliefs : g.admission[b] \in Statuses,
         NEW s, NextLabels(g, s) = s,
         \A b \in g.beliefs : s[b] = "in" => b \notin h.stale,
         \A b \in g.beliefs : s[b] # "in" /\ b \in g.stale => b \in h.stale
  PROVE  NextLabels(h, s) = s
<1>1. ASSUME NEW b \in g.beliefs PROVE NextLabels(h, s)[b] = s[b]
  <2>1. /\ s[b] = IF Defeated(g, s, b) THEN "out"
                  ELSE IF b \in UNION Ties(g, s) THEN "pending" ELSE Candidate(g, s, b)
        /\ NextLabels(h, s)[b] = IF Defeated(h, s, b) THEN "out"
                                 ELSE IF b \in UNION Ties(h, s) THEN "pending"
                                 ELSE Candidate(h, s, b)
    BY <1>1 DEF NextLabels, SameButStale
  <2>2. (Defeated(h, s, b) <=> Defeated(g, s, b)) /\ Ties(h, s) = Ties(g, s)
        /\ (Supported(h, s, b) <=> Supported(g, s, b)) /\ h.admission = g.admission
    BY AlikeLabels DEF SameButStale
  <2>3. CASE Defeated(g, s, b) \/ b \in UNION Ties(g, s)
    BY <2>1, <2>2, <2>3
  <2>4. CASE ~(Defeated(g, s, b) \/ b \in UNION Ties(g, s))
    <3>1. s[b] = Candidate(g, s, b) /\ NextLabels(h, s)[b] = Candidate(h, s, b)
      BY <2>1, <2>2, <2>4
    <3>2. CASE g.admission[b] = "quarantined"
      BY <3>1, <3>2, <2>2 DEF Candidate
    <3>3. CASE g.admission[b] # "quarantined" /\ (g.admission[b] = "out" \/ ~Supported(g, s, b))
      <4>1. Candidate(g, s, b) = "out" /\ Candidate(h, s, b) = "out"
        BY <3>3, <2>2 DEF Candidate
      <4> QED BY <4>1, <3>1
    <3>4. CASE g.admission[b] \in {"in", "pending"} /\ Supported(g, s, b)
      <4>1. /\ Candidate(g, s, b) = IF g.admission[b] = "in" /\ b \notin g.stale THEN "in" ELSE "pending"
            /\ Candidate(h, s, b) = IF g.admission[b] = "in" /\ b \notin h.stale THEN "in" ELSE "pending"
        BY <3>4, <2>2 DEF Candidate
      <4> QED BY <4>1, <3>1
    <3> QED BY <3>2, <3>3, <3>4 DEF Statuses
  <2> QED BY <2>3, <2>4
<1>2. s = [b \in g.beliefs |-> s[b]]
  BY DEF NextLabels
<1>3. NextLabels(h, s) = [b \in g.beliefs |-> NextLabels(h, s)[b]]
  BY DEF NextLabels, SameButStale
<1> QED BY <1>1, <1>2, <1>3

LEMMA SeenIs ==
  ASSUME NEW d
  PROVE  SameButStale(Graph(d), Seen(d)) /\ Seen(d).stale = {b \in d.stale : d.status[b] # "in"}
BY DEF SameButStale, Seen, Graph

LEMMA SettledAges ==
  ASSUME NEW d, NEW e, \A f \in View \ {"stale"} : e[f] = d[f], d.stale \subseteq e.stale,
         \A b \in d.known : d.admission[b] \in Statuses, Settled(d)
  PROVE  Settled(e)
<1>1. /\ e.known = d.known /\ e.admission = d.admission /\ e.premises = d.premises
      /\ e.undercuts = d.undercuts /\ e.rebuts = d.rebuts /\ e.observed = d.observed
      /\ e.audited = d.audited /\ e.status = d.status /\ e.conflicts = d.conflicts
      /\ e.active = d.active /\ e.samsaya = d.samsaya
  BY DEF View
<1>2. SameButStale(Graph(d), Graph(e))
  BY <1>1 DEF SameButStale, Graph
<1>3. SameButStale(Seen(d), Seen(e)) /\ LabelsOf(e) = LabelsOf(d)
  BY <1>1, <1>2, SeenIs DEF SameButStale, LabelsOf
<1>4. Seen(d).beliefs = d.known /\ Seen(d).admission = d.admission
  BY SeenIs, GraphIs DEF SameButStale
<1>5. SUFFICES ASSUME ~d.samsaya PROVE Settled(e)
  BY <1>1 DEF Settled
<1>6. /\ NextLabels(Seen(d), LabelsOf(d)) = LabelsOf(d)
      /\ d.conflicts = Ties(Seen(d), LabelsOf(d))
      /\ d.active = ActiveEdges(Seen(d), LabelsOf(d))
  BY <1>5 DEF Settled
<1>7. \A b \in d.known : LabelsOf(d)[b] = "in" => b \notin Seen(e).stale
  BY <1>1, SeenIs DEF LabelsOf
<1>8. \A b \in d.known : LabelsOf(d)[b] # "in" /\ b \in Seen(d).stale => b \in Seen(e).stale
  BY <1>1, SeenIs DEF LabelsOf
<1>9. NextLabels(Seen(e), LabelsOf(d)) = LabelsOf(d)
  <2> DEFINE g == Seen(d)
             h == Seen(e)
             s == LabelsOf(d)
  <2>1. /\ SameButStale(g, h) /\ \A b \in g.beliefs : g.admission[b] \in Statuses
        /\ NextLabels(g, s) = s
        /\ \A b \in g.beliefs : s[b] = "in" => b \notin h.stale
        /\ \A b \in g.beliefs : s[b] # "in" /\ b \in g.stale => b \in h.stale
    BY <1>3, <1>4, <1>6, <1>7, <1>8
  <2> HIDE DEF g, h, s
  <2>2. NextLabels(h, s) = s
    BY <2>1, AlikeSettles
  <2> QED BY <2>2 DEF h, s
<1>10. Ties(Seen(e), LabelsOf(d)) = Ties(Seen(d), LabelsOf(d))
       /\ ActiveEdges(Seen(e), LabelsOf(d)) = ActiveEdges(Seen(d), LabelsOf(d))
  BY <1>3, AlikeLabels
<1> QED BY <1>1, <1>3, <1>6, <1>9, <1>10 DEF Settled

\* What a relabelling is to write settles the tables it has read.
LEMMA RelabelSettles ==
  ASSUME NEW d, TablesOK(d)
  PROVE  Settled(WithLabels(d, RelabelDrafts(d)))
<1> DEFINE r == RelabelDrafts(d)
           x == Outcome(d)
           e == WithLabels(d, r)
<1>1. /\ x.labels \in [d.known -> Statuses] /\ x.oscillation \in BOOLEAN
      /\ ~x.oscillation => NextLabels(Graph(d), x.labels) = x.labels /\ x.ties = Ties(Graph(d), x.labels)
  BY OutcomeIs
<1>2. /\ r.labels = [b \in {b \in d.known : x.labels[b] # d.status[b]} |-> x.labels[b]]
      /\ r.active = ActiveEdges(Graph(d), x.labels)
      /\ r.opened = x.ties \ d.conflicts /\ r.settled = d.conflicts \ x.ties
      /\ r.samsaya = x.oscillation
  BY RelabelDraftsIs
<1>3. DOMAIN d = Fields
  BY DEF TablesOK
<1>4. /\ Same(d, e, {"status", "defeated", "notices", "noticed", "born", "active", "samsaya",
                     "conflicts", "resolved", "open"})
      /\ e.status = [b \in Beliefs |-> IF b \in DOMAIN r.labels THEN r.labels[b] ELSE d.status[b]]
      /\ e.defeated = [b \in Beliefs |-> IF b \in r.defeated THEN d.defeated[b] + 1 ELSE d.defeated[b]]
      /\ e.notices = d.notices \cup r.announced /\ e.noticed = d.noticed \cup r.announced
      /\ e.active = r.active /\ e.samsaya = r.samsaya
      /\ e.conflicts = (d.conflicts \cup r.opened) \ r.settled
      /\ e.open = d.open \cup r.tasks
  BY <1>3, WithLabelsIs
<1> HIDE DEF r, x, e
<1>5. /\ e.known = d.known /\ e.admission = d.admission /\ e.premises = d.premises
      /\ e.undercuts = d.undercuts /\ e.rebuts = d.rebuts /\ e.observed = d.observed
      /\ e.audited = d.audited /\ e.stale = d.stale
  BY <1>4, FieldsAre DEF Same
<1>6. LabelsOf(e) = x.labels
  <2>1. \A b \in d.known : e.status[b] = x.labels[b]
    BY <1>2, <1>4 DEF TablesOK
  <2>2. x.labels = [b \in d.known |-> x.labels[b]]
    BY <1>1
  <2> QED BY <2>1, <2>2, <1>5 DEF LabelsOf
<1>7. Graph(e) = Graph(d)
  BY <1>5 DEF Graph
<1>8. SUFFICES ASSUME ~x.oscillation PROVE Settled(e)
  BY <1>2, <1>4 DEF Settled, e, r
<1>9. SameButStale(Graph(d), Seen(e)) /\ Seen(e).stale = {b \in d.stale : e.status[b] # "in"}
  BY <1>5, <1>7, SeenIs
<1>10. /\ Graph(d).beliefs = d.known /\ Graph(d).stale = d.stale
       /\ \A b \in d.known : Graph(d).admission[b] \in Statuses
  BY GraphIs DEF TablesOK
<1>11. NextLabels(Seen(e), x.labels) = x.labels
  <2> DEFINE g == Graph(d)
             h == Seen(e)
             s == x.labels
  <2>1. \A b \in d.known : e.status[b] = s[b]
    BY <1>5, <1>6 DEF LabelsOf
  <2>2. /\ SameButStale(g, h) /\ \A b \in g.beliefs : g.admission[b] \in Statuses
        /\ NextLabels(g, s) = s
        /\ \A b \in g.beliefs : s[b] = "in" => b \notin h.stale
        /\ \A b \in g.beliefs : s[b] # "in" /\ b \in g.stale => b \in h.stale
    BY <2>1, <1>1, <1>8, <1>9, <1>10
  <2> HIDE DEF g, h, s
  <2>3. NextLabels(h, s) = s
    BY <2>2, AlikeSettles
  <2> QED BY <2>3 DEF h, s
<1>12. Ties(Seen(e), x.labels) = x.ties /\ ActiveEdges(Seen(e), x.labels) = r.active
  BY <1>1, <1>2, <1>8, <1>9, AlikeLabels
<1>13. e.conflicts = x.ties
  BY <1>2, <1>4
<1> QED BY <1>4, <1>6, <1>11, <1>12, <1>13 DEF Settled

LEMMA EmptySettled ==
  ASSUME NEW d, d.known = {}, EmptyOK(d)
  PROVE  Settled(d)
<1>1. Graph(d).beliefs = {} /\ Graph(d).rebuts = {} /\ Graph(d).undercuts = {}
  BY GraphIs DEF EmptyOK
<1>2. Seen(d).beliefs = {} /\ Seen(d).rebuts = {} /\ Seen(d).undercuts = {}
  BY <1>1, SeenIs DEF SameButStale
<1>3. NextLabels(Seen(d), LabelsOf(d)) = LabelsOf(d)
  BY <1>2 DEF NextLabels, LabelsOf
<1>4. Ties(Seen(d), LabelsOf(d)) = {} /\ ActiveEdges(Seen(d), LabelsOf(d)) = {}
  BY <1>2 DEF Ties, ActiveEdges
<1> QED BY <1>3, <1>4 DEF Settled, EmptyOK

-----------------------------------------------------------------------------
(* The steps that take and release the lock.                               *)

\* The caller that holds the lock is the only one that has read what it is to write.
LEMMA Alone ==
  ASSUME TypeInv, NEW c \in Callers, Midway(call[c].script, call[c].read)
  PROVE  lock = c /\ \A o \in Callers \ {c} : ~Relabels(o) /\ ~Completes(o)
BY OneMidway DEF TypeInv, LockOK

LEMMA LockFree ==
  ASSUME TypeInv, lock = None
  PROVE  \A o \in Callers : ~Relabels(o) /\ ~Completes(o)
BY OneMidway, NoneAssumption DEF TypeInv, LockOK

LEMMA Releases ==
  ASSUME TypeInv, NEW c \in Callers, lock = c, lock' = None, NEW s1, Open(s1), Goto(c, s1, None),
         TablesOK(db'), db.known \subseteq db'.known
  PROVE  /\ TypeInv' /\ ~At(s1, "admit")
         /\ \A o \in Callers : ~Relabels(o)' /\ ~Completes(o)'
<1>1. Fits(s1, None, db'.known) /\ ~Midway(s1, None) /\ ~At(s1, "admit")
  BY OpenFits
<1>2. TypeInv'
  BY <1>1, TypeMoves, NoneAssumption
<1>3. \A o \in Callers : ~Midway(call'[o].script, call'[o].read)
  BY <1>2, NoneAssumption DEF TypeInv, LockOK
<1>4. CallsOK'
  BY <1>2 DEF TypeInv
<1>5. ASSUME NEW o \in Callers PROVE ~Relabels(o)' /\ ~Completes(o)'
  BY <1>3 DEF Relabels, Completes, Midway, Doing, IsIdle, At
<1> QED BY <1>1, <1>2, <1>5

LEMMA RelabelReadKeeps == ASSUME IInv, NEW c \in Callers, RelabelRead(c) PROVE IInv'
<1> DEFINE s == call[c].script
<1>1. Doing(c, "relabel") /\ call[c].read = None /\ UNCHANGED <<db, clean>> /\ raised' = FALSE
  BY DEF RelabelRead
<1>2. /\ Rest(c) = Tail(s) /\ ScriptOK(s) /\ Open(Tail(s)) /\ At(s, "relabel") /\ ~Midway(s, None)
  BY <1>1, OneStep DEF IInv, Midway
<1>3. TypeInv /\ CallsOK /\ LockOK /\ TablesOK(db) /\ DOMAIN db = Fields /\ EmptyOK(db)
  BY DEF IInv, TypeInv, TablesOK
<1>4. db' = db /\ db.known \subseteq db'.known /\ TablesOK(db') /\ SameView(db, db') /\ DOMAIN db' = Fields
      /\ db'.confirmed = db.confirmed /\ db'.defeated = db.defeated /\ EmptyOK(db')
  BY <1>1, <1>3 DEF SameView
<1> HIDE DEF s
<1>5. CASE db.known = {}
  <2>1. Goto(c, Tail(s), None) /\ lock' = lock
    BY <1>5, <1>2 DEF RelabelRead
  <2>2. Fits(Tail(s), None, db'.known) /\ ~Midway(Tail(s), None) /\ ~At(Tail(s), "admit")
    BY <1>2, OpenFits
  <2>3. TypeInv'
    <3>1. lock' \in Callers \cup {None} /\ lock' # c
      BY <1>1, <1>2, <1>3, <2>1 DEF LockOK, s
    <3> QED BY <3>1, <2>1, <2>2, <1>3, <1>4, TypeMoves
  <2>4. FreshOK'
    BY <1>3, <1>4, <2>1, <2>2, FreshMoves DEF IInv
  <2>5. CountsOK'
    BY <1>3, <1>4, <2>1, <2>2, CountsMoves DEF IInv
  <2>6. NoticesOK'
    BY <1>1, <1>3, <1>4, <2>1, <2>2, NoticesMoves DEF IInv
  <2>7. \A o \in Callers : ~Relabels(o)'
    <3>1. \A o \in Callers : Fits(call'[o].script, call'[o].read, db'.known)
      BY <2>3 DEF TypeInv, CallsOK
    <3> QED BY <3>1, <1>4, <1>5 DEF Fits, Relabels, Doing, IsIdle, At
  <2>8. Settled(db')
    BY <1>4, <1>5, EmptySettled
  <2>9. CoveredOK'
    BY <2>7, <2>8 DEF CoveredOK
  <2> QED BY <2>3, <2>4, <2>5, <2>6, <2>9, <1>4 DEF IInv
<1>6. CASE db.known # {}
  <2> DEFINE r == RelabelDrafts(db)
  <2>1. Goto(c, s, r) /\ lock = None /\ lock' = c
    BY <1>6 DEF RelabelRead, Free, s
  <2>2. r \in LabelDrafts /\ About(r.tasks, db.known) /\ r # None
    BY <1>3, RelabelDraftsOK, NoneAssumption
  <2>3. /\ r.labels = [b \in {b \in db.known : Outcome(db).labels[b] # db.status[b]} |->
                         Outcome(db).labels[b]]
        /\ r.announced = ToAnnounce(db, Outcome(db).labels)
        /\ r.defeated = {b \in Falling(db, Outcome(db).labels) :
                           Outcome(db).labels[b] = "out" /\ Uncounted(db.defeated, b)}
    BY <1>3, RelabelDraftsIs
  <2>4. Settled(WithLabels(db, r))
    BY <1>3, RelabelSettles
  <2>5. /\ s # <<>> /\ ~At(s, "admit") /\ ~At(s, "stakes") /\ ~At(s, "render") /\ ~At(s, "detect")
        /\ ~At(s, "complete")
    BY <1>2 DEF At
  <2> HIDE DEF r
  <2>6. Fits(s, r, db'.known) /\ Midway(s, r)
    BY <2>2, <2>5, <1>2, <1>4, <1>6 DEF Fits, Midway
  <2>7. TypeInv'
    <3>1. \A o \in Callers \ {c} : lock' = o <=> lock = o
      BY <2>1, NoneAssumption
    <3>2. lock' \in Callers \cup {None} /\ (Midway(s, r) <=> lock' = c)
      BY <2>1, <2>6
    <3> QED BY <3>1, <3>2, <2>1, <2>6, <1>3, <1>4, TypeMoves
  <2>8. FreshOK'
    <3>1. db'.known \subseteq db.known \cup Verdicts \cup (IF Admitting(c) THEN call[c].read.fresh ELSE {})
      BY <1>4
    <3> QED BY <3>1, <2>1, <2>5, <1>3, FreshMoves DEF IInv
  <2>9. /\ call'[c].script = s /\ call'[c].read = r
        /\ \A o \in Callers \ {c} : ~Relabels(o)' /\ ~Completes(o)'
        /\ ~Completes(c)'
    <3>1. \A o \in Callers : ~Relabels(o) /\ ~Completes(o)
      BY <1>3, <2>1, LockFree
    <3>2. /\ call'[c].script = s /\ call'[c].read = r
          /\ \A o \in Callers \ {c} : call'[o] = call[o]
          /\ Doing(c, "complete")' <=> At(s, "complete")
          /\ \A o \in Callers \ {c} : \A kind : Doing(o, kind)' <=> Doing(o, kind)
      BY <1>3, <2>1, CallIs
    <3>3. ~Completes(c)'
      BY <3>2, <2>5 DEF Completes
    <3> QED BY <3>1, <3>2, <3>3 DEF Relabels, Completes
  <2>10. CountsOK'
    <3>1. \A b \in r.defeated : db'.defeated[b] = 0
      BY <2>3, <1>4 DEF Uncounted
    <3>2. \A b \in Beliefs : db'.confirmed[b] <= 1 /\ db'.defeated[b] <= 1
      BY <1>4 DEF IInv, CountsOK
    <3>3. \A o \in Callers : Relabels(o)' => o = c
      BY <2>9
    <3>4. \A o \in Callers : ~Completes(o)'
      BY <2>9
    <3> QED BY <3>1, <3>2, <3>3, <3>4, <2>9 DEF CountsOK
  <2>11. NoticesOK'
    <3>1. clean' = clean /\ clean \subseteq db.rendered
          /\ \A b \in clean : db.status[b] = "in" \/ b \in db.noticed
      BY <1>1 DEF IInv, NoticesOK
    <3>2. ASSUME NEW b \in clean \cap DOMAIN r.labels
          PROVE  r.labels[b] = "in" \/ b \in db.noticed \/ b \in r.announced
      <4>1. b \in db.known /\ r.labels[b] = Outcome(db).labels[b]
        BY <3>2, <2>3
      <4>2. CASE db.status[b] = "in" /\ r.labels[b] # "in"
        <5>1. b \in Falling(db, Outcome(db).labels)
          BY <4>1, <4>2 DEF Falling
        <5>2. b \in db.rendered /\ (b \in db.notices => b \in db.noticed)
          BY <3>1, <3>2, <1>3 DEF TablesOK
        <5> QED BY <5>1, <5>2, <2>3 DEF ToAnnounce
      <4> QED BY <4>2, <3>1, <3>2
    <3>3. \A o \in Callers : Relabels(o)' => o = c
      BY <2>9
    <3> QED BY <3>1, <3>2, <3>3, <2>9, <1>4 DEF NoticesOK
  <2>12. CoveredOK'
    <3>1. Relabels(c)'
      <4>1. Relabels(c)' \/ Completes(c)'
        <5>1. At(s, "relabel") /\ r # None
          BY <1>2, <2>2
        <5> QED BY <5>1, <2>9 DEF Relabels, Doing, IsIdle, At
      <4> QED BY <4>1, <2>9
    <3>2. \A o \in Callers : Relabels(o)' => o = c
      BY <2>9
    <3>3. Settled(WithLabels(db', call'[c].read))
      BY <2>4, <2>9, <1>4
    <3> QED BY <3>1, <3>2, <3>3 DEF CoveredOK
  <2> QED BY <2>7, <2>8, <2>10, <2>11, <2>12, <1>4 DEF IInv
<1> QED BY <1>5, <1>6

LEMMA RelabelWriteKeeps == ASSUME IInv, NEW c \in Callers, RelabelWrite(c) PROVE IInv'
<1> DEFINE s == call[c].script
           r == call[c].read
<1>1. /\ Doing(c, "relabel") /\ r # None /\ UNCHANGED clean /\ lock' = None
      /\ AppendEvents(c, LabelsAccepted(db, r), WithLabels(db, r), Rest(c))
  BY DEF RelabelWrite
<1>2. Rest(c) = Tail(s) /\ ScriptOK(s) /\ s # <<>> /\ Open(Tail(s)) /\ At(s, "relabel") /\ Midway(s, r)
  BY <1>1, OneStep DEF IInv, Midway
<1>3. TypeInv /\ CallsOK /\ TablesOK(db) /\ DOMAIN db = Fields /\ EmptyOK(db)
  BY DEF IInv, TypeInv, TablesOK
<1>4. lock = c /\ Relabels(c) /\ \A o \in Callers \ {c} : ~Relabels(o) /\ ~Completes(o)
  BY <1>1, <1>2, <1>3, Alone DEF Relabels
<1>5. r \in LabelDrafts /\ About(r.tasks, db.known) /\ db.known # {}
  <2>1. Fits(s, r, db.known)
    BY <1>3, Calls
  <2> QED BY <2>1, <1>1, <1>2 DEF Fits
<1> HIDE DEF s
<1>6. CASE LabelsAccepted(db, r)
  <2>1. db' = WithLabels(db, r) /\ Goto(c, Tail(s), None) /\ raised' = raised
    BY <1>1, <1>2, <1>6 DEF AppendEvents
  <2>2. TablesOK(db')
    BY <2>1, <1>3, <1>5, <1>6, WithLabelsOK
  <2>3. /\ Same(db, db', {"status", "defeated", "notices", "noticed", "born", "active", "samsaya",
                          "conflicts", "resolved", "open"})
        /\ db'.status = [b \in Beliefs |-> IF b \in DOMAIN r.labels THEN r.labels[b] ELSE db.status[b]]
        /\ db'.defeated = [b \in Beliefs |-> IF b \in r.defeated THEN db.defeated[b] + 1 ELSE db.defeated[b]]
        /\ db'.noticed = db.noticed \cup r.announced
    BY <2>1, <1>3, WithLabelsIs
  <2>4. db'.known = db.known /\ db'.rendered = db.rendered /\ db'.confirmed = db.confirmed
    BY <2>3, FieldsAre DEF Same
  <2>5. db.known \subseteq db'.known
    BY <2>4
  <2>6. TypeInv' /\ ~At(Tail(s), "admit") /\ \A o \in Callers : ~Relabels(o)' /\ ~Completes(o)'
    BY <2>1, <2>2, <2>5, <1>1, <1>2, <1>3, <1>4, Releases
  <2>7. FreshOK'
    BY <2>1, <2>4, <2>6, <1>3, FreshMoves DEF IInv
  <2>8. CountsOK'
    <3>1. \A b \in Beliefs : db'.confirmed[b] <= 1 /\ db'.defeated[b] <= 1
      <4>1. \A b \in Beliefs : db.confirmed[b] <= 1 /\ db.defeated[b] <= 1
        BY DEF IInv, CountsOK
      <4>2. \A b \in r.defeated : db.defeated[b] = 0
        BY <1>4 DEF IInv, CountsOK
      <4> QED BY <4>1, <4>2, <2>3, <2>4
    <3> QED BY <3>1, <2>6 DEF CountsOK
  <2>9. NoticesOK'
    <3>1. /\ clean' = clean /\ clean \subseteq db.rendered
          /\ \A b \in clean : db.status[b] = "in" \/ b \in db.noticed
          /\ \A b \in clean \cap DOMAIN r.labels :
               r.labels[b] = "in" \/ b \in db.noticed \/ b \in r.announced
      BY <1>1, <1>4 DEF IInv, NoticesOK
    <3>2. \A b \in clean : b \in Beliefs
      BY <3>1, <1>3 DEF TablesOK
    <3>3. \A b \in clean : db'.status[b] = "in" \/ b \in db'.noticed
      BY <3>1, <3>2, <2>3
    <3>4. clean' \subseteq db'.rendered
      BY <3>1, <2>4
    <3>5. \A b \in clean' : db'.status[b] = "in" \/ b \in db'.noticed
      BY <3>1, <3>3
    <3> HIDE DEF r
    <3> QED BY <3>4, <3>5, <2>6 DEF NoticesOK
  <2>10. EmptyOK(db')
    BY <2>4, <1>5 DEF EmptyOK
  <2>11. CoveredOK'
    <3>1. CASE raised
      BY <3>1, <2>1 DEF CoveredOK
    <3>2. CASE \E o \in Callers : Owes(call[o].script, call[o].read)
      <4>1. Owes(s, r) => Owes(Tail(s), None)
        BY <1>1, <1>2, OwesTail
      <4>2. Owes(Tail(s), None) \/ \E o \in Callers \ {c} : Owes(call[o].script, call[o].read)
        BY <3>2, <4>1 DEF s
      <4> QED BY <4>2, <2>1, <1>3, OthersOwe
    <3>3. CASE \A o \in Callers : Relabels(o) => Settled(WithLabels(db, call[o].read))
      <4>1. Settled(db')
        BY <3>3, <1>4, <2>1
      <4> QED BY <4>1, <2>6 DEF CoveredOK
    <3> QED BY <3>1, <3>2, <3>3 DEF IInv, CoveredOK
  <2> QED BY <2>6, <2>7, <2>8, <2>9, <2>10, <2>11 DEF IInv
<1>7. CASE ~LabelsAccepted(db, r)
  <2>1. db' = db /\ Goto(c, <<>>, None) /\ raised'
    BY <1>1, <1>7 DEF AppendEvents, Abort
  <2>2. Open(<<>>) /\ TablesOK(db') /\ db.known \subseteq db'.known /\ db'.known = db.known
    BY <2>1, <1>3, EmptyScript
  <2>3. TypeInv' /\ ~At(<<>>, "admit") /\ \A o \in Callers : ~Relabels(o)' /\ ~Completes(o)'
    BY <2>1, <2>2, <1>1, <1>3, <1>4, Releases
  <2>4. FreshOK'
    BY <2>1, <2>2, <2>3, <1>3, FreshMoves DEF IInv
  <2>5. CountsOK'
    BY <2>1, <2>3 DEF IInv, CountsOK
  <2>6. NoticesOK'
    BY <2>1, <2>3, <1>1 DEF IInv, NoticesOK
  <2>7. EmptyOK(db') /\ CoveredOK'
    BY <2>1, <1>3 DEF CoveredOK
  <2> QED BY <2>3, <2>4, <2>5, <2>6, <2>7 DEF IInv
<1> QED BY <1>6, <1>7

LEMMA CompletionIs ==
  ASSUME TablesOK(db), NEW t \in Tasks, NEW result \in Results
  PROVE  LET to == IF result = "confirmed" THEN "in" ELSE "out"
             decided == result # "inconclusive"
             r == [task |-> t,
                   admission |-> IF decided /\ db.admission[t.belief] # to THEN {to} ELSE {},
                   confirmed |-> result = "confirmed" /\ Uncounted(db.confirmed, t.belief),
                   defeated |-> result = "disconfirmed" /\ Uncounted(db.defeated, t.belief)]
         IN /\ r \in CompletionDrafts
            /\ r.confirmed => db.confirmed[r.task.belief] = 0
            /\ r.defeated => db.defeated[r.task.belief] = 0
<1> DEFINE to == IF result = "confirmed" THEN "in" ELSE "out"
           decided == result # "inconclusive"
           admission == IF decided /\ db.admission[t.belief] # to THEN {to} ELSE {}
           confirmed == result = "confirmed" /\ Uncounted(db.confirmed, t.belief)
           defeated == result = "disconfirmed" /\ Uncounted(db.defeated, t.belief)
           r == [task |-> t, admission |-> admission, confirmed |-> confirmed, defeated |-> defeated]
<1>1. admission \in SUBSET Statuses
  BY DEF Statuses
<1>2. confirmed \in BOOLEAN /\ defeated \in BOOLEAN
  BY DEF Uncounted
<1>3. confirmed => db.confirmed[t.belief] = 0
  BY DEF Uncounted
<1>4. defeated => db.defeated[t.belief] = 0
  BY DEF Uncounted
<1> HIDE DEF admission, confirmed, defeated
<1>5. r \in CompletionDrafts
  BY <1>1, <1>2 DEF CompletionDrafts
<1>6. r.task = t /\ r.confirmed = confirmed /\ r.defeated = defeated
  BY Zenon
<1>7. (r.confirmed => db.confirmed[r.task.belief] = 0) /\ (r.defeated => db.defeated[r.task.belief] = 0)
  BY <1>3, <1>4, <1>6
<1> QED BY <1>5, <1>7 DEF admission, confirmed, defeated

LEMMA CompleteReadKeeps == ASSUME IInv, NEW c \in Callers, CompleteRead(c) PROVE IInv'
<1> DEFINE s == call[c].script
           step == Head(s)
           t == step[2]
           to == IF step[3] = "confirmed" THEN "in" ELSE "out"
           decided == step[3] # "inconclusive"
           r == [task |-> t,
                 admission |-> IF decided /\ db.admission[t.belief] # to THEN {to} ELSE {},
                 confirmed |-> step[3] = "confirmed" /\ Uncounted(db.confirmed, t.belief),
                 defeated |-> step[3] = "disconfirmed" /\ Uncounted(db.defeated, t.belief)]
<1>1. Doing(c, "complete") /\ call[c].read = None /\ UNCHANGED <<db, raised, clean>>
  BY DEF CompleteRead
<1>2. /\ Rest(c) = Tail(s) /\ ScriptOK(s) /\ s # <<>> /\ s[1][1] = "complete" /\ At(s, "complete")
      /\ ~Midway(s, None) /\ step \in Steps /\ step[1] = "complete"
  BY <1>1, OneStep DEF IInv, Midway
<1>3. TypeInv /\ CallsOK /\ LockOK /\ TablesOK(db) /\ DOMAIN db = Fields /\ EmptyOK(db)
  BY DEF IInv, TypeInv, TablesOK
<1>4. t \in Tasks /\ step[3] \in Results
  BY <1>2, TaskStep
<1>5. /\ r \in CompletionDrafts /\ r # None
      /\ r.confirmed => db.confirmed[r.task.belief] = 0
      /\ r.defeated => db.defeated[r.task.belief] = 0
  <2> HIDE DEF t, s
  <2>1. /\ r \in CompletionDrafts
        /\ r.confirmed => db.confirmed[r.task.belief] = 0
        /\ r.defeated => db.defeated[r.task.belief] = 0
    BY <1>3, <1>4, CompletionIs
  <2> QED BY <2>1, NoneAssumption
<1>6. CASE t \notin db.open
  <2>1. Goto(c, Tail(Tail(s)), None) /\ lock' = lock
    BY <1>6, <1>2 DEF CompleteRead
  <2>2. Open(Tail(Tail(s))) /\ \A x : Owes(s, x) => Owes(Tail(Tail(s)), None)
    BY <1>2, OwesSkip
  <2>3. Fits(Tail(Tail(s)), None, db.known) /\ ~Midway(Tail(Tail(s)), None)
        /\ ~At(Tail(Tail(s)), "admit")
    BY <2>2, OpenFits
  <2> HIDE DEF s
  <2> QED BY <2>1, <2>2, <2>3, <1>1, <1>2, Reads DEF s
<1>7. CASE t \in db.open
  <2>1. Goto(c, s, r) /\ lock = None /\ lock' = c
    BY <1>7 DEF CompleteRead, Free
  <2>2. /\ s # <<>> /\ ~At(s, "admit") /\ ~At(s, "stakes") /\ ~At(s, "render") /\ ~At(s, "detect")
        /\ ~At(s, "relabel")
    BY <1>2 DEF At
  <2>3. db' = db /\ db.known \subseteq db'.known /\ TablesOK(db') /\ SameView(db, db')
        /\ DOMAIN db' = Fields /\ EmptyOK(db') /\ raised' = raised /\ clean' = clean
    BY <1>1, <1>3 DEF SameView
  <2> HIDE DEF r, s, step, t
  <2>4. Fits(s, r, db'.known) /\ Midway(s, r)
    BY <2>2, <1>2, <1>5 DEF Fits, Midway
  <2>5. TypeInv'
    <3>1. \A o \in Callers \ {c} : lock' = o <=> lock = o
      BY <2>1, NoneAssumption
    <3>2. lock' \in Callers \cup {None} /\ (Midway(s, r) <=> lock' = c)
      BY <2>1, <2>4
    <3> QED BY <3>1, <3>2, <2>1, <2>3, <2>4, <1>3, TypeMoves
  <2>6. FreshOK'
    <3>1. db'.known \subseteq db.known \cup Verdicts \cup (IF Admitting(c) THEN call[c].read.fresh ELSE {})
      BY <2>3
    <3> QED BY <3>1, <2>1, <2>2, <1>3, FreshMoves DEF IInv
  <2>7. CountsOK'
    <3>1. \A o \in Callers : ~Relabels(o) /\ ~Completes(o)
      BY <1>3, <2>1, LockFree
    <3>2. /\ call'[c].read = r
          /\ \A o \in Callers \ {c} : call'[o] = call[o]
          /\ Doing(c, "relabel")' <=> At(s, "relabel")
          /\ \A o \in Callers \ {c} : \A kind : Doing(o, kind)' <=> Doing(o, kind)
      BY <1>3, <2>1, CallIs
    <3>3. \A o \in Callers : ~Relabels(o)'
      BY <3>1, <3>2, <2>2 DEF Relabels
    <3>4. \A o \in Callers : Completes(o)' => o = c
      BY <3>1, <3>2 DEF Completes
    <3>5. \A b \in Beliefs : db'.confirmed[b] <= 1 /\ db'.defeated[b] <= 1
      BY <2>3 DEF IInv, CountsOK
    <3>6. \A o \in Callers : Completes(o)' =>
            /\ call'[o].read.confirmed => db'.confirmed[call'[o].read.task.belief] = 0
            /\ call'[o].read.defeated => db'.defeated[call'[o].read.task.belief] = 0
      BY <3>2, <3>4, <2>3, <1>5
    <3> QED BY <3>3, <3>5, <3>6 DEF CountsOK
  <2>8. NoticesOK'
    BY <2>1, <2>2, <2>3, <1>3, NoticesMoves DEF IInv
  <2>9. CoveredOK'
    <3>1. Owes(call[c].script, call[c].read) => Owes(s, r)
      BY <1>2 DEF Owes, Sure, s
    <3>2. ~Relabels(c)
      BY <1>1 DEF Relabels
    <3> QED BY <3>1, <3>2, <2>1, <2>2, <2>3, <1>3, CoveredMoves DEF IInv
  <2> QED BY <2>3, <2>5, <2>6, <2>7, <2>8, <2>9 DEF IInv
<1> QED BY <1>6, <1>7

LEMMA CompleteWriteKeeps == ASSUME IInv, NEW c \in Callers, CompleteWrite(c) PROVE IInv'
<1> DEFINE s == call[c].script
           r == call[c].read
           b == r.task.belief
<1>1. /\ Doing(c, "complete") /\ r # None /\ UNCHANGED clean /\ lock' = None
      /\ IF r.task \notin db.open THEN Goto(c, Tail(Rest(c)), None) /\ UNCHANGED <<db, raised>>
         ELSE AppendEvents(c, KeyOf(r.task) \notin db.done, Completed(db, r), Rest(c))
  BY DEF CompleteWrite
<1>2. /\ Rest(c) = Tail(s) /\ ScriptOK(s) /\ s # <<>> /\ Open(Tail(s)) /\ s[1][1] = "complete"
      /\ At(s, "complete") /\ Midway(s, r)
  BY <1>1, OneStep DEF IInv, Midway
<1>3. TypeInv /\ CallsOK /\ TablesOK(db) /\ DOMAIN db = Fields /\ EmptyOK(db)
  BY DEF IInv, TypeInv, TablesOK
<1>4. lock = c /\ Completes(c) /\ ~Relabels(c) /\ \A o \in Callers \ {c} : ~Relabels(o) /\ ~Completes(o)
  BY <1>1, <1>2, <1>3, Alone, OneMidway DEF Completes
<1>5. r \in CompletionDrafts
  <2>1. Fits(s, r, db.known)
    BY <1>3, Calls
  <2> QED BY <2>1, <1>1, <1>2 DEF Fits
<1> HIDE DEF s
<1>6. ASSUME NEW s1, Open(s1), Goto(c, s1, None), TablesOK(db'), EmptyOK(db'), db'.known = db.known,
             db'.status = db.status, db'.noticed = db.noticed, db'.rendered = db.rendered,
             \A x \in Beliefs : db'.confirmed[x] <= 1 /\ db'.defeated[x] <= 1,
             \/ raised' \/ Owes(s1, None)
             \/ SameView(db, db') /\ raised' = raised /\ (Owes(s, r) => Owes(s1, None))
      PROVE  IInv'
  <2>1. db.known \subseteq db'.known
    BY <1>6
  <2>2. TypeInv' /\ ~At(s1, "admit") /\ \A o \in Callers : ~Relabels(o)' /\ ~Completes(o)'
    BY <2>1, <1>1, <1>3, <1>4, <1>6, Releases
  <2>3. FreshOK'
    BY <2>2, <1>3, <1>6, FreshMoves DEF IInv
  <2>4. CountsOK'
    BY <2>2, <1>6 DEF CountsOK
  <2>5. NoticesOK'
    <3>1. clean' = clean /\ ~(At(s1, "relabel") /\ None # None)
      BY <1>1
    <3> QED BY <3>1, <1>3, <1>6, NoticesMoves DEF IInv
  <2>6. CoveredOK'
    <3>1. CASE raised'
      BY <3>1 DEF CoveredOK
    <3>2. CASE Owes(s1, None)
      BY <3>2, <1>3, <1>6, OthersOwe
    <3>3. CASE SameView(db, db') /\ raised' = raised /\ (Owes(s, r) => Owes(s1, None))
      <4>1. ~(At(s1, "relabel") /\ None # None) /\ DOMAIN db' = Fields
        BY <1>6 DEF TablesOK
      <4> QED BY <4>1, <3>3, <1>3, <1>4, <1>6, CoveredMoves DEF IInv, s
    <3> QED BY <3>1, <3>2, <3>3, <1>6
  <2> QED BY <2>2, <2>3, <2>4, <2>5, <2>6, <1>6 DEF IInv
<1>7. \A x \in Beliefs : db.confirmed[x] <= 1 /\ db.defeated[x] <= 1
  BY DEF IInv, CountsOK
<1>8. CASE r.task \notin db.open
  <2>1. Goto(c, Tail(Tail(s)), None) /\ db' = db /\ raised' = raised
    BY <1>1, <1>2, <1>8
  <2>2. Open(Tail(Tail(s))) /\ \A x : Owes(s, x) => Owes(Tail(Tail(s)), None)
    BY <1>2, OwesSkip
  <2>3. SameView(db, db')
    BY <2>1 DEF SameView
  <2> QED BY <2>1, <2>2, <2>3, <1>3, <1>6, <1>7
<1>9. CASE r.task \in db.open /\ KeyOf(r.task) \notin db.done
  <2>1. Goto(c, Tail(s), None) /\ db' = Completed(db, r)
    BY <1>1, <1>2, <1>9 DEF AppendEvents
  <2>2. TablesOK(db')
    BY <2>1, <1>3, <1>5, CompletedOK
  <2>3. /\ Same(db, db', {"open", "done", "admission", "confirmed", "defeated"})
        /\ db'.confirmed = [x \in Beliefs |-> IF x = r.task.belief /\ r.confirmed THEN db.confirmed[x] + 1
                                              ELSE db.confirmed[x]]
        /\ db'.defeated = [x \in Beliefs |-> IF x = r.task.belief /\ r.defeated THEN db.defeated[x] + 1
                                             ELSE db.defeated[x]]
    <3>1. /\ db.admission = [x \in Beliefs |-> db.admission[x]]
          /\ db.confirmed = [x \in Beliefs |-> db.confirmed[x]]
          /\ db.defeated = [x \in Beliefs |-> db.defeated[x]]
      BY <1>3 DEF TablesOK
    <3>2. DOMAIN db = Fields
      BY <1>3 DEF TablesOK
    <3> DEFINE e == Completed(db, r)
               t == r.task
    <3>3. /\ Same(db, e, {"open", "done", "admission", "confirmed", "defeated"})
          /\ e.open = db.open \ {t} /\ e.done = db.done \cup {KeyOf(t)}
          /\ e.admission = [x \in Beliefs |-> IF x = t.belief /\ r.admission # {}
                                              THEN CHOOSE y \in r.admission : TRUE ELSE db.admission[x]]
          /\ e.confirmed = [x \in Beliefs |-> IF x = t.belief /\ r.confirmed THEN db.confirmed[x] + 1
                                              ELSE db.confirmed[x]]
          /\ e.defeated = [x \in Beliefs |-> IF x = t.belief /\ r.defeated THEN db.defeated[x] + 1
                                             ELSE db.defeated[x]]
      BY <3>1, <3>2, CompletedIs
    <3> QED BY <2>1, <3>3
  <2>4. /\ db'.known = db.known /\ db'.status = db.status /\ db'.noticed = db.noticed
        /\ db'.rendered = db.rendered /\ db'.conflicts = db.conflicts /\ db'.active = db.active
        /\ db'.undercuts = db.undercuts /\ db'.rebuts = db.rebuts
    BY <2>3, FieldsAre DEF Same
  <2>5. EmptyOK(db')
    BY <2>4, <1>3 DEF EmptyOK
  <2>6. (r.confirmed => db.confirmed[b] = 0) /\ (r.defeated => db.defeated[b] = 0)
    BY <1>4 DEF IInv, CountsOK
  <2>7. \A x \in Beliefs : db'.confirmed[x] <= 1 /\ db'.defeated[x] <= 1
    BY <2>3, <2>6, <1>7
  <2>8. Owes(Tail(s), None)
    <3>1. 1 \in 1..Len(s) /\ s \in Seq(Steps)
      BY <1>2, HeadOf
    <3>2. 1 < Len(s) /\ s[1 + 1][1] = "relabel"
      BY <3>1, <1>2 DEF ScriptOK
    <3>3. Tail(s)[1] = s[1 + 1] /\ Len(Tail(s)) = Len(s) - 1 /\ Len(s) \in Nat
      BY <3>1, <3>2, <1>2, TailOf
    <3>4. Sure(Tail(s), 1)
      BY <3>2, <3>3 DEF Sure
    <3> QED BY <3>4 DEF Owes, Sure
  <2> HIDE DEF r, b
  <2> QED BY <2>1, <2>2, <2>4, <2>5, <2>7, <2>8, <1>2, <1>6
<1>10. CASE r.task \in db.open /\ KeyOf(r.task) \in db.done
  <2>1. Goto(c, <<>>, None) /\ db' = db /\ raised'
    BY <1>1, <1>10 DEF AppendEvents, Abort
  <2> QED BY <2>1, <1>3, <1>6, <1>7, EmptyScript
<1> QED BY <1>8, <1>9, <1>10

-----------------------------------------------------------------------------
(* The steps of no caller, and the theorems.                               *)

LEMMA AgeKeeps == ASSUME IInv, NEW b, Age(b) PROVE IInv'
<1>1. /\ b \in db.known /\ db' = [db EXCEPT !.stale = db.stale \cup {b}]
      /\ UNCHANGED <<lock, call, raised, clean>>
  BY DEF Age
<1>2. TypeInv /\ TablesOK(db) /\ DOMAIN db = Fields /\ EmptyOK(db)
  BY DEF IInv, TypeInv, TablesOK
<1>3. TablesOK(db') /\ Same(db, db', {"stale"}) /\ db'.stale = db.stale \cup {b}
  BY <1>1, <1>2, AgedOK
<1>4. /\ db'.noticed = db.noticed /\ db'.rendered = db.rendered /\ db'.known = db.known
      /\ db'.confirmed = db.confirmed /\ db'.defeated = db.defeated /\ db'.status = db.status
      /\ db'.conflicts = db.conflicts /\ db'.active = db.active
      /\ db'.undercuts = db.undercuts /\ db'.rebuts = db.rebuts
  BY <1>3, FieldsAre DEF Same
<1>5. TypeInv'
  BY <1>1, <1>2, <1>3, <1>4 DEF TypeInv, CallsOK, LockOK
<1>6. FreshOK'
  BY <1>1, <1>4 DEF IInv, FreshOK, Admitting, Doing, IsIdle
<1>7. \A o \in Callers : (Relabels(o)' <=> Relabels(o)) /\ (Completes(o)' <=> Completes(o))
  BY <1>1 DEF Relabels, Completes, Doing, IsIdle
<1>8. CountsOK'
  BY <1>1, <1>4, <1>7 DEF IInv, CountsOK
<1>9. NoticesOK'
  BY <1>1, <1>4, <1>7 DEF IInv, NoticesOK
<1>10. EmptyOK(db')
  BY <1>2, <1>4 DEF EmptyOK
<1>11. CoveredOK'
  <2>1. CASE raised
    BY <2>1, <1>1 DEF CoveredOK
  <2>2. CASE \E o \in Callers : Owes(call[o].script, call[o].read)
    BY <2>2, <1>1 DEF CoveredOK
  <2>3. CASE /\ \A o \in Callers : Relabels(o) => Settled(WithLabels(db, call[o].read))
             /\ (\A o \in Callers : ~Relabels(o)) => Settled(db)
    <3>1. DOMAIN db' = Fields /\ \A x \in db.known : db.admission[x] \in Statuses
      BY <1>2, <1>3 DEF TablesOK, Same
    <3>2. /\ \A f \in View \ {"stale"} : f \in Fields /\ db'[f] = db[f]
          /\ db.stale \subseteq db'.stale
      BY <1>3, FieldsAre DEF Same, View
    <3>3. Settled(db) => Settled(db')
      BY <3>1, <3>2, SettledAges
    <3>4. ASSUME NEW r, Settled(WithLabels(db, r)) PROVE Settled(WithLabels(db', r))
      <4> DEFINE d == WithLabels(db, r)
                 e == WithLabels(db', r)
      <4>1. /\ \A f \in View \ {"status", "active", "samsaya", "conflicts"} : d[f] = db[f]
            /\ d.status = [x \in Beliefs |-> IF x \in DOMAIN r.labels THEN r.labels[x] ELSE db.status[x]]
            /\ d.active = r.active /\ d.samsaya = r.samsaya
            /\ d.conflicts = (db.conflicts \cup r.opened) \ r.settled
        <5>1. DOMAIN db = Fields
          BY <1>2 DEF TablesOK
        <5> QED BY <5>1, WithLabelsOnView
      <4>7. /\ \A f \in View \ {"status", "active", "samsaya", "conflicts"} : e[f] = db'[f]
            /\ e.status = [x \in Beliefs |-> IF x \in DOMAIN r.labels THEN r.labels[x] ELSE db'.status[x]]
            /\ e.active = r.active /\ e.samsaya = r.samsaya
            /\ e.conflicts = (db'.conflicts \cup r.opened) \ r.settled
        BY <3>1, WithLabelsOnView
      <4> HIDE DEF d, e
      <4>2. \A f \in View \ {"stale"} : e[f] = d[f]
        <5>1. \A f \in View \ {"stale", "status", "active", "samsaya", "conflicts"} : e[f] = d[f]
          BY <4>1, <4>7, <3>2
        <5>2. db'.status = db.status /\ db'.conflicts = db.conflicts
          BY <3>2 DEF View
        <5>3. /\ e.status = d.status /\ e.active = d.active /\ e.samsaya = d.samsaya
              /\ e.conflicts = d.conflicts
          BY <4>1, <4>7, <5>2
        <5> QED BY <5>1, <5>3 DEF View
      <4>3. d.stale \subseteq e.stale /\ d.known = db.known /\ d.admission = db.admission
        BY <4>1, <4>7, <3>2 DEF View
      <4>4. \A x \in d.known : d.admission[x] \in Statuses
        BY <4>3, <3>1
      <4>5. Settled(d)
        BY <3>4 DEF d
      <4>6. Settled(e)
        BY <4>2, <4>3, <4>4, <4>5, SettledAges
      <4> QED BY <4>6 DEF e
    <3>5. \A o \in Callers : Relabels(o)' => Settled(WithLabels(db', call'[o].read))
      <4> TAKE o \in Callers
      <4> HAVE Relabels(o)'
      <4>1. Relabels(o) /\ call'[o] = call[o]
        BY <1>1, <1>7
      <4> QED BY <4>1, <3>4, <2>3
    <3> QED BY <3>3, <3>5, <1>7, <2>3 DEF CoveredOK
  <2> QED BY <2>1, <2>2, <2>3 DEF IInv, CoveredOK
<1> QED BY <1>5, <1>6, <1>8, <1>9, <1>10, <1>11 DEF IInv

LEMMA IdleCalls ==
  ASSUME call = [c \in Callers |-> Idle], lock = None
  PROVE  CallsOK /\ LockOK /\ \A c \in Callers : ~Admitting(c) /\ ~Relabels(c) /\ ~Completes(c)
<1>1. \A c \in Callers : call[c].script = <<>> /\ call[c].read = None
  BY DEF Idle
<1>2. \A known : Fits(<<>>, None, known) /\ ~Midway(<<>>, None)
  BY EmptyScript, OpenFits
<1>3. call = [c \in Callers |-> [script |-> call[c].script, read |-> call[c].read]]
  BY DEF Idle
<1>4. CallsOK
  BY <1>1, <1>2, <1>3 DEF CallsOK
<1>5. LockOK
  BY <1>1, <1>2, NoneAssumption DEF LockOK
<1> QED BY <1>1, <1>4, <1>5 DEF Admitting, Relabels, Completes, Doing, IsIdle

LEMMA RestartKeeps == ASSUME IInv, Restart PROVE IInv'
<1>1. /\ lock' = None /\ call' = [c \in Callers |-> Idle] /\ raised' = TRUE /\ UNCHANGED <<db, clean>>
  BY DEF Restart
<1>2. CallsOK' /\ LockOK' /\ \A c \in Callers : ~Admitting(c)' /\ ~Relabels(c)' /\ ~Completes(c)'
  <2>1. \A c \in Callers : call'[c] = Idle
    BY <1>1
  <2>2. \A c \in Callers : call'[c].script = <<>> /\ call'[c].read = None
    BY <2>1 DEF Idle
  <2>3. \A known : Fits(<<>>, None, known) /\ ~Midway(<<>>, None)
    BY EmptyScript, OpenFits
  <2>4. call' = [c \in Callers |-> [script |-> call'[c].script, read |-> call'[c].read]]
    BY <1>1 DEF Idle
  <2>5. CallsOK'
    BY <2>2, <2>3, <2>4 DEF CallsOK
  <2>6. LockOK'
    BY <1>1, <2>2, <2>3, NoneAssumption DEF LockOK
  <2> QED BY <2>2, <2>5, <2>6 DEF Admitting, Relabels, Completes, Doing, IsIdle
<1>3. TypeInv'
  BY <1>1, <1>2 DEF IInv, TypeInv
<1>4. FreshOK' /\ CountsOK' /\ NoticesOK' /\ CoveredOK'
  BY <1>1, <1>2 DEF IInv, FreshOK, CountsOK, NoticesOK, CoveredOK
<1> QED BY <1>1, <1>3, <1>4 DEF IInv

LEMMA InitTables == ASSUME NEW stakes \in Stakes PROVE TablesOK(InitialTables(stakes))
<1> DEFINE d == InitialTables(stakes)
<1>1. DOMAIN d = Fields
  BY DEF Fields, InitialTables
<1>2. /\ d.stakes = stakes /\ d.turn = 0 /\ d.known = {} /\ d.stale = {}
      /\ d.status = [b \in Beliefs |-> "out"] /\ d.admission = [b \in Beliefs |-> "out"]
      /\ d.floor = [b \in Beliefs |-> stakes] /\ d.premises = [b \in Beliefs |-> {}]
      /\ d.observed = [b \in Beliefs |-> 0]
      /\ d.undercuts = {} /\ d.rebuts = {} /\ d.samsaya = FALSE
      /\ d.open = {} /\ d.done = {} /\ d.conflicts = {}
      /\ d.rendered = {} /\ d.notices = {} /\ d.noticed = {}
      /\ d.confirmed = [b \in Beliefs |-> 0] /\ d.defeated = [b \in Beliefs |-> 0]
      /\ d.unpromoted = {}
  BY DEF InitialTables
<1> HIDE DEF d
<1>3. "out" \in Statuses
  BY DEF Statuses
<1>4. Distinct({}) /\ About({}, {})
  BY DEF Distinct, About
<1>6. /\ d.status \in [Beliefs -> Statuses] /\ d.admission \in [Beliefs -> Statuses]
      /\ d.floor \in [Beliefs -> Stakes] /\ d.premises \in [Beliefs -> SUBSET Beliefs]
      /\ d.confirmed \in [Beliefs -> Nat] /\ d.defeated \in [Beliefs -> Nat]
  BY <1>2, <1>3
<1>7. d.observed = [b \in Beliefs |-> d.observed[b]]
  BY <1>2
<1>8. d.stakes \in Stakes /\ d.turn \in Nat /\ d.samsaya \in BOOLEAN
  <2>1. d.stakes = stakes /\ d.turn = 0 /\ d.samsaya = FALSE
    BY <1>2
  <2>2. d.samsaya \in BOOLEAN
    BY <2>1, Zenon
  <2> QED BY <2>1, <2>2
<1>9. /\ d.known = {} /\ d.stale = {} /\ d.undercuts = {} /\ d.rebuts = {} /\ d.open = {} /\ d.done = {}
      /\ d.conflicts = {} /\ d.rendered = {} /\ d.notices = {} /\ d.noticed = {} /\ d.unpromoted = {}
  BY <1>2
<1>5. TablesOK(d)
  BY <1>1, <1>4, <1>6, <1>7, <1>8, <1>9 DEF TablesOK
<1> QED BY <1>5 DEF d

LEMMA InitIInv == Init => IInv
<1> SUFFICES ASSUME Init PROVE IInv
  OBVIOUS
<1>1. PICK stakes \in Stakes : db = InitialTables(stakes)
  BY DEF Init
<1>2. TablesOK(db)
  BY <1>1, InitTables
<1>3. CallsOK /\ LockOK /\ \A c \in Callers : ~Admitting(c) /\ ~Relabels(c) /\ ~Completes(c)
  BY IdleCalls DEF Init
<1>4. /\ db.known = {} /\ db.conflicts = {} /\ db.active = {} /\ db.undercuts = {} /\ db.rebuts = {}
      /\ db.confirmed = [b \in Beliefs |-> 0] /\ db.defeated = [b \in Beliefs |-> 0] /\ clean = {}
  BY <1>1 DEF InitialTables, Init
<1>5. EmptyOK(db) /\ Settled(db)
  BY <1>4, EmptySettled DEF EmptyOK
<1>6. FreshOK /\ CountsOK /\ NoticesOK /\ CoveredOK
  BY <1>3, <1>4, <1>5 DEF FreshOK, CountsOK, NoticesOK, CoveredOK
<1> QED BY <1>2, <1>3, <1>5, <1>6 DEF IInv, TypeInv

LEMMA AskKeeps == ASSUME IInv, NEW c \in Callers, Ask(c) PROVE IInv'
<1>1. CASE \E claims \in Messages : IngestUserMessage(c, claims)
  BY <1>1, IngestUserMessageKeeps
<1>2. CASE \E b \in Observations, claims \in Outputs : IngestToolResult(c, {b}, claims)
  BY <1>2, IngestToolResultKeeps
<1>3. CASE RecordInference(c)
  BY <1>3, RecordInferenceKeeps
<1>4. CASE \E b1, b2 \in db.known : AddUndercut(c, b1, b2) \/ (b1 < b2 /\ AddRebut(c, {b1, b2}))
  BY <1>4, AddUndercutKeeps, AddRebutKeeps
<1>5. CASE \E b \in db.known, method \in Requestable : RequestVerification(c, b, method)
  BY <1>5, RequestVerificationKeeps
<1>6. CASE \E t \in db.open, result \in {"confirmed", "disconfirmed", "inconclusive"} :
             CompleteVerification(c, t, result)
  BY <1>6, CompleteVerificationKeeps DEF Results
<1>7. CASE \E stakes \in Stakes : SetStakes(c, stakes)
  BY <1>7, SetStakesKeeps
<1>8. CASE \E deferred \in BOOLEAN : CompileContext(c, deferred)
  BY <1>8, CompileContextKeeps
<1>9. CASE \E b \in db.notices : AcknowledgeRetraction(c, b)
  BY <1>9, AcknowledgeRetractionKeeps
<1>10. CASE BeginTurn(c) \/ GateAction(c) \/ Maintain(c)
  BY <1>10, BeginTurnKeeps, GateActionKeeps, MaintainKeeps
<1> QED BY <1>1, <1>2, <1>3, <1>4, <1>5, <1>6, <1>7, <1>8, <1>9, <1>10 DEF Ask

LEMMA ContinueKeeps == ASSUME IInv, NEW c \in Callers, Continue(c) PROVE IInv'
BY AdmitKeeps, PromoteKeeps, ReadPremisesKeeps, DetectReadKeeps, AdjudicateKeeps,
   DetectWriteKeeps, RelabelReadKeeps, RelabelWriteKeeps,
   PassiveKeeps, CompleteReadKeeps, CompleteWriteKeeps, AuditKeeps, RecordVerdictKeeps,
   ChangeStakesKeeps, SelectKeeps, RenderKeeps
DEF Continue

LEMMA StutterKeeps == ASSUME IInv, UNCHANGED vars PROVE IInv'
BY DEF vars, IInv, TypeInv, CallsOK, LockOK, FreshOK, CountsOK, NoticesOK, CoveredOK,
   Admitting, Relabels, Completes, Doing, IsIdle

\* The inductive invariant: what each caller has read still is what its next step may
\* write, one caller at most is between the reading and the writing of a relabelling
\* or a completion, and what the last relabelling did not see a further one will.
THEOREM Inductive == Spec => []IInv
<1>1. Init => IInv
  BY InitIInv
<1>2. IInv /\ [Next]_vars => IInv'
  <2> SUFFICES ASSUME IInv, [Next]_vars PROVE IInv'
    OBVIOUS
  <2>1. CASE UNCHANGED vars
    BY <2>1, StutterKeeps
  <2>2. CASE \E c \in Callers : Ask(c) \/ Continue(c)
    BY <2>2, AskKeeps, ContinueKeeps
  <2>3. CASE \E b \in Beliefs : Age(b)
    BY <2>3, AgeKeeps
  <2>4. CASE Restart
    BY <2>4, RestartKeeps
  <2> QED BY <2>1, <2>2, <2>3, <2>4 DEF Next, Finished
<1> QED BY <1>1, <1>2, PTL DEF Spec

\* The tables keep their types and the tasks one row per key however operations of
\* EpisodeService interleave, a caller that is done keeps nothing it has read, and
\* whoever holds the episode's lock is relabelling or completing a task.
THEOREM EpisodeTypes == Spec => []EpisodeTypeOK
<1>1. IInv => EpisodeTypeOK
  <2> SUFFICES ASSUME IInv PROVE EpisodeTypeOK
    OBVIOUS
  <2>1. CallsOK /\ TablesOK(db) /\ LockOK
    BY DEF IInv, TypeInv
  <2>2. \A c \in Callers : IsIdle(c) => call[c] = Idle
    <3> SUFFICES ASSUME NEW c \in Callers, call[c].script = <<>> PROVE call[c] = Idle
      BY DEF IsIdle
    <3>1. call[c].read = None
      BY <2>1, Calls DEF Fits
    <3>2. call[c] = [script |-> call[c].script, read |-> call[c].read]
      BY <2>1 DEF CallsOK
    <3> QED BY <3>1, <3>2 DEF Idle
  <2>3. lock # None => /\ Doing(lock, "relabel") \/ Doing(lock, "complete")
                       /\ call[lock].read # None
    <3> SUFFICES ASSUME lock \in Callers
                 PROVE  /\ Doing(lock, "relabel") \/ Doing(lock, "complete")
                        /\ call[lock].read # None
      BY <2>1 DEF LockOK
    <3>1. Midway(call[lock].script, call[lock].read)
      BY <2>1 DEF LockOK
    <3> QED BY <3>1, <2>1, Calls DEF Midway
  <2> QED BY <2>1, <2>2, <2>3 DEF EpisodeTypeOK, TablesOK
<1> QED BY <1>1, Inductive, PTL

LEMMA QuietSettled == ASSUME IInv, Quiet PROVE Settled(db) /\ ~db.samsaya
<1>1. \A c \in Callers : call[c].script = <<>>
  BY DEF Quiet, IsIdle
<1>2. \A c \in Callers : ~Owes(call[c].script, call[c].read)
  BY <1>1, EmptyScript
<1>3. \A c \in Callers : ~Relabels(c)
  BY DEF Quiet, Relabels, Doing
<1> QED BY <1>2, <1>3 DEF IInv, CoveredOK, Quiet

LEMMA SeenNow == SeenGraph = Seen(db) /\ Labels = LabelsOf(db)
BY DEF SeenGraph, Seen, Labels, LabelsOf

\* When all callers have returned, none early, the stored labels are a fixed point of
\* the labelling of what is stored: every append of _after_new_beliefs, set_stakes,
\* complete_verification and the audits is followed by a relabelling that reads after
\* it, and only one caller at a time is between reading and writing.
THEOREM QuiescentSettled == Spec => []QuiescentIsSettled
<1>1. IInv => QuiescentIsSettled
  BY QuietSettled, SeenNow DEF QuiescentIsSettled, Settled
<1> QED BY <1>1, Inductive, PTL

LEMMA TiedIsNotIn ==
  ASSUME NEW g, NEW s, NextLabels(g, s) = s, NEW b \in g.beliefs, b \in UNION Ties(g, s)
  PROVE  s[b] # "in"
BY DEF NextLabels

\* In the same states the conflicts that relabel has opened and not resolved are the
\* ties of the labelling, both sides of each in doubt, and the edges stored as active
\* are those of the labels.
THEOREM ConflictsTie == Spec => []ConflictsAreTies
<1>1. IInv => ConflictsAreTies
  <2> SUFFICES ASSUME IInv, Quiet
               PROVE  /\ db.conflicts = Ties(SeenGraph, Labels)
                      /\ \A pair \in db.conflicts : \A b \in pair : db.status[b] # "in"
                      /\ db.active = ActiveEdges(SeenGraph, Labels)
    BY DEF ConflictsAreTies
  <2>1. /\ NextLabels(Seen(db), LabelsOf(db)) = LabelsOf(db)
        /\ db.conflicts = Ties(Seen(db), LabelsOf(db))
        /\ db.active = ActiveEdges(Seen(db), LabelsOf(db))
    BY QuietSettled DEF Settled
  <2>2. Seen(db).beliefs = db.known /\ Seen(db).rebuts = db.rebuts
    BY SeenIs, GraphIs DEF SameButStale
  <2>3. db.rebuts \subseteq db.known \X db.known
    BY DEF IInv, TypeInv, TablesOK
  <2>4. ASSUME NEW pair \in db.conflicts, NEW b \in pair
        PROVE  db.status[b] # "in"
    <3>1. PICK x \in db.rebuts : pair = {x[1], x[2]}
      BY <2>1, <2>2, <2>4 DEF Ties
    <3>2. b \in db.known
      BY <3>1, <2>3, <2>4
    <3>3. LabelsOf(db)[b] # "in"
      BY <3>2, <2>1, <2>2, <2>4, TiedIsNotIn
    <3> QED BY <3>2, <3>3 DEF LabelsOf
  <2> QED BY <2>1, <2>4, SeenNow
<1> QED BY <1>1, Inductive, PTL

\* A belief that compile_context showed as in, with no relabelling under way that takes it
\* out, has been announced once it is not in any more: relabel decides on the notices while
\* nobody else can change the labels, and after it has read no such belief is shown.
THEOREM FallenAnnounced == Spec => []FallenIsAnnounced
<1>1. IInv => FallenIsAnnounced
  BY DEF IInv, NoticesOK, FallenIsAnnounced
<1> QED BY <1>1, Inductive, PTL

\* A belief counts at most once as confirmed and once as defeated for its source: who
\* has looked whether it counted already holds the lock until it is counted.
THEOREM SampledOnce == Spec => []DefeatSampledOnce
<1>1. IInv => DefeatSampledOnce
  BY DEF IInv, CountsOK, DefeatSampledOnce
<1> QED BY <1>1, Inductive, PTL
=============================================================================
