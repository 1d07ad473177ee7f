---------------------------- MODULE LedgerProofs ----------------------------
(***************************************************************************)
(* Theorems about LedgerStore: any number of episodes, callers, keys and   *)
(* snapshots, logs of any length, and any bounds.                          *)
(***************************************************************************)
EXTENDS LedgerStore, SelectionProofs, FiniteSetTheorems

EventRecords == [seq : Nat, id : Nat, episode : Episodes, prev : Nat, kind : Kinds, task : Nat,
                 key : Keys \cup {None}, print : Prints \cup {None}]
Logs == Seq(EventRecords)

-----------------------------------------------------------------------------
(* Applying a batch of events, one after the other.                        *)

\* f records the tables after every event of the batch.
Course(t, batch, f) ==
  f = [i \in 0..Len(batch) |-> IF i = 0 THEN t ELSE Applied(f[i - 1], batch[i])]

LEMMA CourseExists ==
  ASSUME NEW t, NEW batch \in Logs
  PROVE  \E f : Course(t, batch, f)
<1> DEFINE S == {h \in Logs : \E f : Course(t, h, f)}
<1>1. << >> \in S
  <2>1. Course(t, << >>, [i \in 0..0 |-> t])
    BY DEF Course
  <2> QED BY <2>1 DEF Logs
<1>2. ASSUME NEW h \in Logs, NEW x \in EventRecords, h \in S PROVE Append(h, x) \in S
  <2>1. PICK f : Course(t, h, f)
    BY <1>2
  <2> DEFINE n == Len(h) + 1
             g == [i \in 0..n |-> IF i = n THEN Applied(f[n - 1], x) ELSE f[i]]
  <2>2. /\ Len(h) \in Nat /\ Append(h, x) \in Logs /\ Len(Append(h, x)) = n /\ Append(h, x)[n] = x
        /\ \A i \in 1..Len(h) : Append(h, x)[i] = h[i]
    BY DEF Logs
  <2>3. ASSUME NEW i \in 0..n
        PROVE  g[i] = IF i = 0 THEN t ELSE Applied(g[i - 1], Append(h, x)[i])
    BY <2>1, <2>2 DEF Course
  <2>4. Course(t, Append(h, x), g)
    <3>1. g = [i \in 0..n |-> g[i]]
      OBVIOUS
    <3> HIDE DEF g
    <3> QED BY <2>2, <2>3, <3>1 DEF Course
  <2> QED BY <2>2, <2>4
<1> HIDE DEF S
<1>3. Logs \subseteq S
  BY <1>1, <1>2, SequenceInduction DEF Logs
<1> QED BY <1>3 DEF S

\* Courses that begin alike go alike as long as their events are the same.
LEMMA CoursesAgree ==
  ASSUME NEW t, NEW b \in Logs, NEW c \in Logs, NEW f, NEW g, NEW n \in Nat,
         Course(t, b, f), Course(t, c, g), Alike(b, c, n)
  PROVE  f[n] = g[n]
<1> DEFINE S == {i \in Nat : i =< n => f[i] = g[i]}
<1>0. /\ Len(b) \in Nat /\ Len(c) \in Nat /\ n =< Len(b) /\ n =< Len(c)
      /\ \A i \in 1..n : b[i] = c[i]
  BY DEF Logs, Alike
<1>1. 0 \in S
  BY <1>0 DEF Course
<1>2. ASSUME NEW i \in Nat, i \in S PROVE i + 1 \in S
  BY <1>0, <1>2 DEF Course
<1> HIDE DEF S
<1>3. Nat \subseteq S
  BY <1>1, <1>2, SetInduction
<1> QED BY <1>3 DEF S

LEMMA CourseOf ==
  ASSUME NEW t, NEW batch \in Logs
  PROVE  \E f : Course(t, batch, f) /\ ApplyAll(t, batch) = f[Len(batch)]
<1> DEFINE f == CHOOSE f : Course(t, batch, f)
<1>1. Course(t, batch, f)
  BY CourseExists
<1>2. ApplyAll(t, batch) = f[Len(batch)]
  BY DEF ApplyAll, Course
<1> QED BY <1>1, <1>2

LEMMA ApplyNothing == ASSUME NEW t PROVE ApplyAll(t, << >>) = t
<1>1. << >> \in Logs /\ Len(<< >>) = 0
  BY DEF Logs
<1> QED BY <1>1, CourseOf DEF Course

LEMMA ApplyNext ==
  ASSUME NEW t, NEW h \in Logs, NEW x \in EventRecords
  PROVE  ApplyAll(t, Append(h, x)) = Applied(ApplyAll(t, h), x)
<1> DEFINE n == Len(h)
<1>0. /\ n \in Nat /\ Append(h, x) \in Logs /\ Len(Append(h, x)) = n + 1 /\ Append(h, x)[n + 1] = x
      /\ Alike(h, Append(h, x), n)
  BY AppendAlike DEF Logs
<1>1. PICK f : Course(t, h, f) /\ ApplyAll(t, h) = f[n]
  BY CourseOf
<1>2. PICK g : Course(t, Append(h, x), g) /\ ApplyAll(t, Append(h, x)) = g[n + 1]
  BY <1>0, CourseOf
<1>3. f[n] = g[n]
  BY <1>0, <1>1, <1>2, CoursesAgree
<1>4. g[n + 1] = Applied(g[n], x)
  BY <1>0, <1>2 DEF Course
<1> QED BY <1>1, <1>2, <1>3, <1>4

-----------------------------------------------------------------------------
(* Parts of a log.                                                         *)

LEMMA LogOnlyNext ==
  ASSUME NEW chosen, NEW h \in Logs, NEW x \in EventRecords
  PROVE  Only(Append(h, x), chosen) =
           IF x \in chosen THEN Append(Only(h, chosen), x) ELSE Only(h, chosen)
BY OnlyNext DEF Logs

LEMMA LogEntriesNext ==
  ASSUME NEW h \in Logs, NEW x \in EventRecords
  PROVE  Entries(Append(h, x)) = Entries(h) \cup {x} /\ Entries(h) \subseteq EventRecords
BY EntriesNext DEF Logs

\* A part of a log is a log, of the chosen events and no others.
LEMMA LogOnlyType ==
  ASSUME NEW chosen, NEW log0 \in Logs
  PROVE  Only(log0, chosen) \in Logs /\ Entries(Only(log0, chosen)) = Entries(log0) \cap chosen
BY OnlyType DEF Logs

\* Choosing differently outside the log makes no difference.
LEMMA LogOnlyAgree ==
  ASSUME NEW log0 \in Logs, NEW X, NEW Y, X \cap Entries(log0) = Y \cap Entries(log0)
  PROVE  Only(log0, X) = Only(log0, Y)
BY OnlyAgree DEF Logs

LEMMA LogOnlyOnly ==
  ASSUME NEW log0 \in Logs, NEW X, NEW Y
  PROVE  Only(Only(log0, X), Y) = Only(log0, X \cap Y)
BY OnlyOnly DEF Logs

LEMMA LogOnlyNone ==
  ASSUME NEW h \in Logs, NEW X, X \cap Entries(h) = {}
  PROVE  Only(h, X) = << >>
BY OnlyNone DEF Logs

-----------------------------------------------------------------------------
(* One event applied to the tables.                                        *)

LEMMA RowAfterIsRow ==
  ASSUME NEW r \in EpisodeRows, NEW x \in EventRecords
  PROVE  RowAfter(r, x) \in EpisodeRows
<1>1. /\ r.open \in SUBSET Nat /\ r.completed \in SUBSET Nat /\ r.samples \in Nat
      /\ x.id \in Nat /\ x.task \in Nat /\ x.kind \in Kinds
      /\ r = [state |-> r.state, samples |-> r.samples, open |-> r.open, completed |-> r.completed]
      /\ r.state \in {"absent", "active", "finalized"}
  BY DEF EpisodeRows, EventRecords
<1>2. CASE x.kind = "EPISODE_CREATED"
  BY <1>1, <1>2 DEF RowAfter, EpisodeRows
<1>3. CASE x.kind = "EPISODE_FINALIZED"
  BY <1>1, <1>3 DEF RowAfter, EpisodeRows
<1>4. CASE x.kind = "EVIDENCE_INGESTED"
  BY <1>1, <1>4 DEF RowAfter, EpisodeRows
<1>5. CASE x.kind = "VERIFICATION_TASK_COMPLETED"
  BY <1>1, <1>5 DEF RowAfter, EpisodeRows
<1>6. CASE x.kind = "SOURCE_STATS_DELTA"
  BY <1>1, <1>6 DEF RowAfter, EpisodeRows
<1> QED BY <1>1, <1>2, <1>3, <1>4, <1>5, <1>6 DEF Kinds

\* u is t after x, but for the idempotency keys, which no event touches.
StepTo(t, x, u) ==
  /\ u \in Tables /\ u # None
  /\ u.rows = [t.rows EXCEPT ![x.episode] = RowAfter(t.rows[x.episode], x)]
  /\ u.heads = [t.heads EXCEPT ![x.episode] = [seq |-> x.seq, id |-> x.id]]
  /\ u.answers = t.answers

LEMMA AppliedSteps ==
  ASSUME NEW t \in Tables, NEW x \in EventRecords, Applicable(t.rows[x.episode], x)
  PROVE  StepTo(t, x, Applied(t, x))
<1>1. /\ x.episode \in Episodes /\ x.seq \in Nat /\ x.id \in Nat
      /\ t.rows \in [Episodes -> EpisodeRows] /\ t.heads \in [Episodes -> [seq : Nat, id : Nat]]
      /\ t.answers \in [Episodes -> [Keys -> Seq(Nat)]]
      /\ t = [rows |-> t.rows, heads |-> t.heads, answers |-> t.answers]
  BY DEF Tables, EventRecords
<1>2. t # None
  BY LedgerNoneAssumption
<1> DEFINE row == RowAfter(t.rows[x.episode], x)
           head == [seq |-> x.seq, id |-> x.id]
           rows == [t.rows EXCEPT ![x.episode] = row]
           heads == [t.heads EXCEPT ![x.episode] = head]
<1>3. row \in EpisodeRows
  BY <1>1, RowAfterIsRow
<1>4. head \in [seq : Nat, id : Nat]
  BY <1>1
<1>5. Applied(t, x) = [rows |-> rows, heads |-> heads, answers |-> t.answers]
  BY <1>1, <1>2 DEF Applied
<1> HIDE DEF row, head
<1>6. rows \in [Episodes -> EpisodeRows] /\ heads \in [Episodes -> [seq : Nat, id : Nat]]
  BY <1>1, <1>3, <1>4
<1> HIDE DEF rows, heads
<1>7. Applied(t, x) \in Tables
  BY <1>1, <1>5, <1>6 DEF Tables
<1> QED BY <1>5, <1>7, LedgerNoneAssumption DEF StepTo, rows, heads, row, head

LEMMA AppliedNone ==
  ASSUME NEW t, NEW x, t = None \/ ~Applicable(t.rows[x.episode], x)
  PROVE  Applied(t, x) = None
BY DEF Applied

LEMMA EmptyIsTables == EmptyTables \in Tables
<1>1. AbsentEpisode \in EpisodeRows
  BY DEF AbsentEpisode, EpisodeRows
<1>2. NoHead \in [seq : Nat, id : Nat]
  BY DEF NoHead
<1>3. [k \in Keys |-> << >>] \in [Keys -> Seq(Nat)]
  OBVIOUS
<1> QED BY <1>1, <1>2, <1>3 DEF EmptyTables, Tables

\* Two tables that differ in their idempotency keys at most.
SameProjections(t, u) == t.rows = u.rows /\ t.heads = u.heads

LEMMA SameSteps ==
  ASSUME NEW t \in Tables, NEW u \in Tables, NEW x \in EventRecords, SameProjections(t, u),
         Applicable(t.rows[x.episode], x)
  PROVE  /\ Applied(t, x) \in Tables /\ Applied(u, x) \in Tables
         /\ SameProjections(Applied(t, x), Applied(u, x))
<1>1. Applicable(u.rows[x.episode], x)
  BY DEF SameProjections
<1>2. StepTo(t, x, Applied(t, x)) /\ StepTo(u, x, Applied(u, x))
  BY <1>1, AppliedSteps
<1> QED BY <1>2 DEF StepTo, SameProjections

\* Replaying h from t ends in the projections of u.
Leads(t, h, u) == ApplyAll(t, h) \in Tables /\ SameProjections(ApplyAll(t, h), u)

LEMMA LeadsNext ==
  ASSUME NEW t, NEW h \in Logs, NEW u \in Tables, NEW x \in EventRecords, Leads(t, h, u),
         Applicable(u.rows[x.episode], x)
  PROVE  Leads(t, Append(h, x), Applied(u, x))
<1>1. Applicable(ApplyAll(t, h).rows[x.episode], x)
  BY DEF Leads, SameProjections
<1>2. ApplyAll(t, Append(h, x)) = Applied(ApplyAll(t, h), x)
  BY ApplyNext
<1> QED BY <1>1, <1>2, SameSteps DEF Leads

LEMMA LeadsNothing ==
  ASSUME NEW t \in Tables PROVE Leads(t, << >>, t)
BY ApplyNothing DEF Leads, SameProjections

\* No event touches the idempotency keys.
LEMMA ReplayedAnswers ==
  ASSUME NEW t \in Tables, NEW log0 \in Logs
  PROVE  ApplyAll(t, log0) = None \/ (ApplyAll(t, log0) \in Tables
                                     /\ ApplyAll(t, log0).answers = t.answers)
<1> DEFINE S == {h \in Logs : ApplyAll(t, h) = None
                              \/ (ApplyAll(t, h) \in Tables /\ ApplyAll(t, h).answers = t.answers)}
<1>1. << >> \in S
  BY ApplyNothing DEF Logs
<1>2. ASSUME NEW h \in Logs, NEW x \in EventRecords, h \in S PROVE Append(h, x) \in S
  <2>1. Append(h, x) \in Logs /\ ApplyAll(t, Append(h, x)) = Applied(ApplyAll(t, h), x)
    BY ApplyNext DEF Logs
  <2>2. CASE ApplyAll(t, h) = None \/ ~Applicable(ApplyAll(t, h).rows[x.episode], x)
    BY <2>1, <2>2, AppliedNone
  <2>3. CASE ApplyAll(t, h) # None /\ Applicable(ApplyAll(t, h).rows[x.episode], x)
    <3>1. ApplyAll(t, h) \in Tables /\ ApplyAll(t, h).answers = t.answers
      BY <1>2, <2>3
    <3>2. StepTo(ApplyAll(t, h), x, Applied(ApplyAll(t, h), x))
      BY <2>3, <3>1, AppliedSteps
    <3> QED BY <2>1, <3>1, <3>2 DEF StepTo
  <2> QED BY <2>2, <2>3
<1> HIDE DEF S
<1>3. Logs \subseteq S
  BY <1>1, <1>2, SequenceInduction DEF Logs
<1> QED BY <1>3 DEF S

-----------------------------------------------------------------------------
(* Replaying a log without one episode: what purge_episode relies on.      *)

Others(e) == {x \in EventRecords : x.episode # e}

\* u is t without anything of the episode.
Without(t, e, u) ==
  /\ u \in Tables
  /\ u.rows = [t.rows EXCEPT ![e] = AbsentEpisode]
  /\ u.heads = [t.heads EXCEPT ![e] = NoHead]

LEMMA ReplayWithout ==
  ASSUME NEW e \in Episodes, NEW log0 \in Logs, ApplyAll(EmptyTables, log0) # None
  PROVE  Without(ApplyAll(EmptyTables, log0), e, ApplyAll(EmptyTables, Only(log0, Others(e))))
<1> DEFINE R(h) == ApplyAll(EmptyTables, h)
           S == {h \in Logs : R(h) # None => Without(R(h), e, R(Only(h, Others(e))))}
<1>1. << >> \in S
  <2>1. R(<< >>) = EmptyTables /\ R(Only(<< >>, Others(e))) = EmptyTables
    BY ApplyNothing, OnlyNothing
  <2>2. Without(EmptyTables, e, EmptyTables)
    <3>1. /\ EmptyTables.rows = [f \in Episodes |-> AbsentEpisode]
          /\ EmptyTables.heads = [f \in Episodes |-> NoHead]
      BY DEF EmptyTables
    <3> QED BY <3>1, EmptyIsTables DEF Without
  <2> QED BY <2>1, <2>2 DEF Logs
<1>2. ASSUME NEW h \in Logs, NEW x \in EventRecords, h \in S PROVE Append(h, x) \in S
  <2> DEFINE t == R(h)
             u == R(Only(h, Others(e)))
  <2>0. /\ Append(h, x) \in Logs /\ R(Append(h, x)) = Applied(t, x)
        /\ Only(h, Others(e)) \in Logs
    BY ApplyNext, LogOnlyType DEF Logs
  <2> SUFFICES ASSUME R(Append(h, x)) # None
               PROVE  Without(R(Append(h, x)), e, R(Only(Append(h, x), Others(e))))
    BY <2>0
  <2>1. t # None /\ Applicable(t.rows[x.episode], x)
    BY <2>0, AppliedNone
  <2>2. t \in Tables
    BY <2>1, EmptyIsTables, ReplayedAnswers
  <2>3. Without(t, e, u)
    BY <1>2, <2>1
  <2>4. StepTo(t, x, Applied(t, x))
    BY <2>1, <2>2, AppliedSteps
  <2>5. x.episode \in Episodes
    BY DEF EventRecords
  <2>6. /\ DOMAIN t.rows = Episodes /\ DOMAIN t.heads = Episodes
    BY <2>2 DEF Tables
  <2>7. CASE x.episode = e
    <3>1. Only(Append(h, x), Others(e)) = Only(h, Others(e))
      BY <2>7, LogOnlyNext DEF Others
    <3>2. Without(Applied(t, x), e, u)
      <4> HIDE DEF t, u
      <4> QED BY <2>3, <2>4, <2>6, <2>7 DEF Without, StepTo
    <3> QED BY <2>0, <3>1, <3>2
  <2>8. CASE x.episode # e
    <3>1. Only(Append(h, x), Others(e)) = Append(Only(h, Others(e)), x)
      BY <2>8, LogOnlyNext DEF Others
    <3>2. R(Only(Append(h, x), Others(e))) = Applied(u, x)
      BY <2>0, <3>1, ApplyNext
    <3> HIDE DEF t, u
    <3>3. u \in Tables /\ u.rows[x.episode] = t.rows[x.episode]
      BY <2>3, <2>6, <2>8, <2>5 DEF Without
    <3>4. StepTo(u, x, Applied(u, x))
      BY <2>1, <3>3, AppliedSteps
    <3>5. Without(Applied(t, x), e, Applied(u, x))
      BY <2>3, <2>4, <2>6, <2>8, <3>3, <3>4 DEF Without, StepTo
    <3> QED BY <2>0, <3>2, <3>5 DEF t, u
  <2> QED BY <2>7, <2>8
<1> HIDE DEF S
<1>3. Logs \subseteq S
  BY <1>1, <1>2, SequenceInduction DEF Logs
<1> QED BY <1>3 DEF S

-----------------------------------------------------------------------------
(* Numbers of events.                                                      *)

Increasing(h) == \A i, j \in DOMAIN h : i < j => h[i].seq < h[j].seq

\* Every event of h has a smaller number than x.
Before(h, x) == \A y \in Entries(h) : y.seq < x.seq

LEMMA IncreasingNext ==
  ASSUME NEW h \in Logs, NEW x \in EventRecords
  PROVE  Increasing(Append(h, x)) <=> (Increasing(h) /\ Before(h, x))
<1> DEFINE c == Append(h, x)
           n == Len(h)
<1>1. /\ n \in Nat /\ c \in Logs /\ Len(c) = n + 1 /\ c[n + 1] = x
      /\ \A i \in 1..n : c[i] = h[i]
  BY AppendAlike DEF Logs, Alike
<1>2. DOMAIN h = 1..n /\ DOMAIN c = 1..(n + 1)
  BY <1>1 DEF Logs
<1> HIDE DEF c, n
<1>3. ASSUME Increasing(c) PROVE Increasing(h) /\ Before(h, x)
  <2>1. Increasing(h)
    BY <1>1, <1>2, <1>3 DEF Increasing
  <2>2. ASSUME NEW i \in 1..n PROVE h[i].seq < x.seq
    <3>1. i \in DOMAIN c /\ n + 1 \in DOMAIN c /\ i < n + 1 /\ c[i] = h[i]
      BY <1>1, <1>2
    <3> QED BY <1>1, <1>3, <3>1 DEF Increasing
  <2> QED BY <1>2, <2>1, <2>2 DEF Before, Entries
<1>4. ASSUME Increasing(h), Before(h, x) PROVE Increasing(c)
  <2> SUFFICES ASSUME NEW i \in 1..(n + 1), NEW j \in 1..(n + 1), i < j PROVE c[i].seq < c[j].seq
    BY <1>2 DEF Increasing
  <2>1. i \in 1..n /\ c[i] = h[i]
    BY <1>1
  <2>2. CASE j = n + 1
    <3>1. h[i] \in Entries(h)
      BY <1>2, <2>1 DEF Entries
    <3> QED BY <1>1, <1>4, <2>1, <2>2, <3>1 DEF Before
  <2>3. CASE j # n + 1
    <3>1. j \in 1..n /\ c[j] = h[j]
      BY <1>1, <2>3
    <3> QED BY <1>2, <1>4, <2>1, <3>1 DEF Increasing
  <2> QED BY <2>2, <2>3
<1> QED BY <1>3, <1>4 DEF c

LEMMA IncreasingOnly ==
  ASSUME NEW log0 \in Logs, NEW chosen, Increasing(log0)
  PROVE  Increasing(Only(log0, chosen))
<1> DEFINE S == {h \in Logs : Increasing(h) => Increasing(Only(h, chosen))}
<1>1. << >> \in S
  BY OnlyNothing DEF Increasing, Logs
<1>2. ASSUME NEW h \in Logs, NEW x \in EventRecords, h \in S PROVE Append(h, x) \in S
  <2>0. Append(h, x) \in Logs
    BY DEF Logs
  <2> SUFFICES ASSUME Increasing(Append(h, x)) PROVE Increasing(Only(Append(h, x), chosen))
    BY <2>0
  <2>1. Increasing(h) /\ Before(h, x)
    BY IncreasingNext
  <2>2. Only(h, chosen) \in Logs /\ Entries(Only(h, chosen)) \subseteq Entries(h)
    BY LogOnlyType
  <2>3. Increasing(Append(Only(h, chosen), x))
    <3>1. Increasing(Only(h, chosen)) /\ Before(Only(h, chosen), x)
      BY <1>2, <2>1, <2>2 DEF Before
    <3> QED BY <2>2, <3>1, IncreasingNext
  <2>4. Only(Append(h, x), chosen) \in {Append(Only(h, chosen), x), Only(h, chosen)}
    BY LogOnlyNext
  <2> QED BY <1>2, <2>1, <2>3, <2>4
<1> HIDE DEF S
<1>3. Logs \subseteq S
  BY <1>1, <1>2, SequenceInduction DEF Logs
<1> QED BY <1>3 DEF S

\* No two events of a log have one number.
LEMMA NumbersDiffer ==
  ASSUME NEW h \in Logs, Increasing(h), NEW x \in Entries(h), NEW y \in Entries(h),
         x.seq = y.seq
  PROVE  x = y
<1>1. PICK i \in DOMAIN h, j \in DOMAIN h : x = h[i] /\ y = h[j]
  BY DEF Entries
<1>2. DOMAIN h = 1..Len(h) /\ Len(h) \in Nat /\ h[i] \in EventRecords /\ h[j] \in EventRecords
  BY DEF Logs
<1>3. ~(i < j) /\ ~(j < i)
  <2>1. h[i].seq \in Nat /\ h[j].seq \in Nat /\ h[i].seq = h[j].seq
    BY <1>1, <1>2 DEF EventRecords
  <2> QED BY <2>1 DEF Increasing
<1> QED BY <1>1, <1>2, <1>3

LEMMA GreatestIs ==
  ASSUME NEW S \in SUBSET Nat, NEW n \in S, \A m \in S : m =< n
  PROVE  Greatest(S) = n
<1>1. S # {}
  OBVIOUS
<1>2. \E k \in S : \A m \in S : m =< k
  OBVIOUS
<1> DEFINE g == CHOOSE k \in S : \A m \in S : m =< k
<1>3. g \in S /\ \A m \in S : m =< g
  BY <1>2
<1>4. g = n
  <2>1. g \in Nat /\ n \in Nat /\ g =< n /\ n =< g
    BY <1>3
  <2> QED BY <2>1
<1> QED BY <1>1, <1>4 DEF Greatest

\* The number of the newest event, zero when there is none.
IsMaxSeq(h, n) ==
  /\ n \in Nat
  /\ \A x \in Entries(h) : x.seq =< n
  /\ n = 0 \/ \E x \in Entries(h) : x.seq = n

LEMMA MaxSeqIs ==
  ASSUME NEW h \in Logs, NEW n, IsMaxSeq(h, n)
  PROVE  MaxSeq(h) = n
<1> DEFINE S == {x.seq : x \in Entries(h)}
<1>0. Entries(h) \subseteq EventRecords
  BY DEF Entries, Logs
<1>1. S \in SUBSET Nat /\ n \in Nat /\ \A m \in S : m =< n
  BY <1>0 DEF EventRecords, IsMaxSeq
<1>2. CASE S = {}
  <2>1. n = 0
    BY <1>2 DEF IsMaxSeq
  <2> QED BY <1>2, <2>1 DEF MaxSeq, Greatest
<1>3. CASE S # {}
  <2>1. n \in S
    <3>1. CASE n = 0
      <4>1. PICK m \in S : TRUE
        BY <1>3
      <4>2. m \in Nat /\ m =< 0
        BY <1>1, <3>1, <4>1
      <4>3. m = n
        BY <3>1, <4>2
      <4> QED BY <4>1, <4>3
    <3>2. CASE n # 0
      BY <3>2 DEF IsMaxSeq
    <3> QED BY <3>1, <3>2
  <2> HIDE DEF S
  <2>2. Greatest(S) = n
    BY <1>1, <2>1, GreatestIs
  <2> QED BY <2>2 DEF S, MaxSeq
<1> QED BY <1>2, <1>3

LEMMA MaxSeqNext ==
  ASSUME NEW h \in Logs, NEW x \in EventRecords, Before(h, x)
  PROVE  MaxSeq(Append(h, x)) = x.seq
<1>1. Append(h, x) \in Logs /\ Entries(Append(h, x)) = Entries(h) \cup {x}
      /\ Entries(h) \subseteq EventRecords
  BY LogEntriesNext DEF Logs
<1>2. x.seq \in Nat /\ \A y \in Entries(h) : y.seq =< x.seq
  BY <1>1 DEF Before, EventRecords
<1>3. IsMaxSeq(Append(h, x), x.seq)
  BY <1>1, <1>2 DEF IsMaxSeq
<1> QED BY <1>1, <1>3, MaxSeqIs

LEMMA MaxSeqType ==
  ASSUME NEW log0 \in Logs
  PROVE  IsMaxSeq(log0, MaxSeq(log0))
<1> DEFINE S == {h \in Logs : \E n : IsMaxSeq(h, n)}
<1>1. << >> \in S
  <2>1. IsMaxSeq(<< >>, 0)
    BY EntriesNothing DEF IsMaxSeq
  <2> QED BY <2>1 DEF Logs
<1>2. ASSUME NEW h \in Logs, NEW x \in EventRecords, h \in S PROVE Append(h, x) \in S
  <2>1. PICK n : IsMaxSeq(h, n)
    BY <1>2
  <2>2. Append(h, x) \in Logs /\ Entries(Append(h, x)) = Entries(h) \cup {x}
        /\ Entries(h) \subseteq EventRecords
    BY LogEntriesNext DEF Logs
  <2>3. CASE x.seq =< n
    <3>1. IsMaxSeq(Append(h, x), n)
      BY <2>1, <2>2, <2>3 DEF IsMaxSeq
    <3> QED BY <2>2, <3>1
  <2>4. CASE ~(x.seq =< n)
    <3>1. n \in Nat /\ x.seq \in Nat /\ n < x.seq
      BY <2>1, <2>4 DEF IsMaxSeq, EventRecords
    <3>2. \A y \in Entries(h) : y.seq \in Nat /\ y.seq =< n
      BY <2>1, <2>2 DEF IsMaxSeq, EventRecords
    <3>3. \A y \in Entries(h) : y.seq =< x.seq
      BY <3>1, <3>2
    <3>4. IsMaxSeq(Append(h, x), x.seq)
      BY <2>2, <3>1, <3>3 DEF IsMaxSeq
    <3> QED BY <2>2, <3>4
  <2> QED BY <2>3, <2>4
<1> HIDE DEF S
<1>3. Logs \subseteq S
  BY <1>1, <1>2, SequenceInduction DEF Logs
<1>4. PICK n : IsMaxSeq(log0, n)
  BY <1>3 DEF S
<1> QED BY <1>4, MaxSeqIs

-----------------------------------------------------------------------------
(* Heads.                                                                  *)

LEMMA HeadOfLast ==
  ASSUME NEW h \in Logs, Increasing(h), NEW own \in SUBSET Entries(h), NEW x \in own,
         \A y \in own : y.seq =< x.seq
  PROVE  HeadOf(own) = [seq |-> x.seq, id |-> x.id]
<1>1. Entries(h) \subseteq EventRecords
  BY DEF Entries, Logs
<1> DEFINE last == CHOOSE z \in own : \A y \in own : y.seq =< z.seq
<1>2. last \in own /\ \A y \in own : y.seq =< last.seq
  OBVIOUS
<1>3. last.seq = x.seq
  <2>1. last.seq \in Nat /\ x.seq \in Nat /\ last.seq =< x.seq /\ x.seq =< last.seq
    BY <1>1, <1>2 DEF EventRecords
  <2> QED BY <2>1
<1>4. last = x
  BY <1>2, <1>3, NumbersDiffer
<1> QED BY <1>4 DEF HeadOf

LEMMA HeadOfNone == HeadOf({}) = NoHead
BY DEF HeadOf

LEMMA HeadOfSome ==
  ASSUME NEW h \in Logs, Increasing(h), NEW own \in SUBSET Entries(h), own # {}
  PROVE  \E x \in own : HeadOf(own) = [seq |-> x.seq, id |-> x.id]
<1>0. Entries(h) \subseteq EventRecords
  BY DEF Entries, Logs
<1>1. MaxSeq(h) \in Nat /\ \A x \in Entries(h) : x.seq =< MaxSeq(h)
  BY MaxSeqType DEF IsMaxSeq
<1> DEFINE S == {x.seq : x \in own}
<1>2. S \in SUBSET (0..MaxSeq(h)) /\ S # {}
  BY <1>0, <1>1 DEF EventRecords
<1>3. PICK n \in S : \A m \in S : n >= m
  <2> HIDE DEF S
  <2> QED BY <1>1, <1>2, GreatestNatural
<1>4. PICK x \in own : n = x.seq
  BY <1>3
<1>5. \A y \in own : y.seq =< x.seq
  BY <1>2, <1>3, <1>4
<1> QED BY <1>5, HeadOfLast

\* What comes later does not move the heads of an earlier height.
LEMMA HeadsStay ==
  ASSUME NEW h \in Logs, NEW x \in EventRecords, NEW n \in Int, n < x.seq
  PROVE  HeadsAt(Append(h, x), n) = HeadsAt(h, n)
<1>1. Entries(Append(h, x)) = Entries(h) \cup {x} /\ x.seq \in Nat
  BY LogEntriesNext DEF EventRecords
<1>2. ASSUME NEW e \in Episodes
      PROVE  {y \in Entries(Append(h, x)) : y.episode = e /\ y.seq =< n}
               = {y \in Entries(h) : y.episode = e /\ y.seq =< n}
  BY <1>1
<1> QED BY <1>2 DEF HeadsAt

LEMMA HeadsAtTop ==
  ASSUME NEW h \in Logs
  PROVE  HeadsAt(h, MaxSeq(h)) = [e \in Episodes |-> HeadOf({x \in Entries(h) : x.episode = e})]
<1>1. \A x \in Entries(h) : x.seq =< MaxSeq(h)
  BY MaxSeqType DEF IsMaxSeq
<1>2. ASSUME NEW e \in Episodes
      PROVE  {x \in Entries(h) : x.episode = e /\ x.seq =< MaxSeq(h)}
               = {x \in Entries(h) : x.episode = e}
  BY <1>1
<1> QED BY <1>2 DEF HeadsAt

-----------------------------------------------------------------------------
(* A sound database: the log is numbered and chained, and the projections  *)
(* are what the log says.                                                  *)

Numbered(h, m) == \A x \in Entries(h) : x.seq # 0 /\ x.id \in 1..m
Chained(h) == \A x \in Entries(h) : x.prev = HeadsAt(h, x.seq - 1)[x.episode].id
HeadsNamed(h, t) == \A e \in Episodes : t.heads[e] = HeadOf({x \in Entries(h) : x.episode = e})

Sound(h, t, m) ==
  /\ h \in Logs /\ t \in Tables /\ m \in Nat
  /\ Increasing(h) /\ Numbered(h, m) /\ Chained(h) /\ HeadsNamed(h, t)
  /\ Leads(EmptyTables, h, t)

LEMMA SoundNext ==
  ASSUME NEW h, NEW t, NEW m, NEW x \in EventRecords, Sound(h, t, m),
         x.seq = MaxSeq(h) + 1, x.id = m + 1, x.prev = t.heads[x.episode].id,
         Applicable(t.rows[x.episode], x)
  PROVE  /\ Sound(Append(h, x), Applied(t, x), m + 1)
         /\ StepTo(t, x, Applied(t, x))
         /\ MaxSeq(Append(h, x)) = x.seq
<1> DEFINE c == Append(h, x)
           u == Applied(t, x)
<1>1. h \in Logs /\ t \in Tables /\ m \in Nat /\ Increasing(h) /\ Numbered(h, m) /\ Chained(h)
      /\ HeadsNamed(h, t) /\ Leads(EmptyTables, h, t)
  BY DEF Sound
<1>2. /\ c \in Logs /\ Entries(c) = Entries(h) \cup {x} /\ Entries(h) \subseteq EventRecords
  BY <1>1, LogEntriesNext DEF Logs
<1>3. x.seq \in Nat /\ x.seq # 0 /\ x.episode \in Episodes /\ m + 1 \in Nat
  <2>1. MaxSeq(h) \in Nat
    BY <1>1, MaxSeqType DEF IsMaxSeq
  <2> QED BY <1>1, <2>1 DEF EventRecords
<1>4. Before(h, x)
  <2> SUFFICES ASSUME NEW y \in Entries(h) PROVE y.seq < x.seq
    BY DEF Before
  <2>1. MaxSeq(h) \in Nat /\ y.seq =< MaxSeq(h)
    BY <1>1, MaxSeqType DEF IsMaxSeq
  <2>2. y.seq \in Nat
    BY <1>2 DEF EventRecords
  <2> QED BY <2>1, <2>2
<1>5. StepTo(t, x, u)
  BY <1>1, AppliedSteps
<1>6. MaxSeq(c) = x.seq
  BY <1>1, <1>4, MaxSeqNext
<1>7. Increasing(c)
  BY <1>1, <1>4, IncreasingNext
<1>8. Numbered(c, m + 1)
  BY <1>1, <1>2, <1>3 DEF Numbered
<1>9. Chained(c)
  <2> SUFFICES ASSUME NEW y \in Entries(c) PROVE y.prev = HeadsAt(c, y.seq - 1)[y.episode].id
    BY DEF Chained
  <2>1. y \in EventRecords
    BY <1>2
  <2>2. y.seq \in Nat
    BY <2>1 DEF EventRecords
  <2>3. y.seq =< x.seq
    <3>1. CASE y \in Entries(h)
      BY <1>3, <1>4, <2>2, <3>1 DEF Before
    <3>2. CASE y = x
      BY <1>3, <3>2
    <3> QED BY <1>2, <3>1, <3>2
  <2>4. HeadsAt(c, y.seq - 1) = HeadsAt(h, y.seq - 1)
    BY <1>1, <1>3, <2>2, <2>3, HeadsStay
  <2>5. CASE y \in Entries(h)
    BY <1>1, <2>4, <2>5 DEF Chained
  <2>6. CASE y = x
    <3>1. y.seq - 1 = MaxSeq(h)
      <4>1. MaxSeq(h) \in Nat
        BY <1>1, MaxSeqType DEF IsMaxSeq
      <4> QED BY <2>6, <4>1
    <3>2. HeadsAt(h, MaxSeq(h))[x.episode] = t.heads[x.episode]
      <4>1. HeadsAt(h, MaxSeq(h)) = [f \in Episodes |-> HeadOf({z \in Entries(h) : z.episode = f})]
        BY <1>1, HeadsAtTop
      <4>2. t.heads[x.episode] = HeadOf({z \in Entries(h) : z.episode = x.episode})
        BY <1>1, <1>3 DEF HeadsNamed
      <4> QED BY <1>3, <4>1, <4>2
    <3>3. HeadsAt(c, y.seq - 1)[y.episode] = t.heads[x.episode]
      BY <2>4, <2>6, <3>1, <3>2
    <3> QED BY <2>6, <3>3
  <2> QED BY <1>2, <2>5, <2>6
<1>10. HeadsNamed(c, u)
  <2> SUFFICES ASSUME NEW e \in Episodes
               PROVE  u.heads[e] = HeadOf({y \in Entries(c) : y.episode = e})
    BY DEF HeadsNamed
  <2>0. DOMAIN t.heads = Episodes
    BY <1>1 DEF Tables
  <2>1. CASE e = x.episode
    <3> DEFINE own == {y \in Entries(c) : y.episode = e}
    <3>1. own \in SUBSET Entries(c) /\ x \in own
      BY <1>2, <2>1
    <3>2. \A y \in own : y.seq =< x.seq
      <4>1. \A y \in Entries(h) : y.seq =< x.seq
        BY <1>2, <1>3, <1>4 DEF Before, EventRecords
      <4> QED BY <1>2, <1>3, <4>1
    <3>3. HeadOf(own) = [seq |-> x.seq, id |-> x.id]
      <4> HIDE DEF own, c
      <4> QED BY <1>2, <1>7, <3>1, <3>2, HeadOfLast
    <3>4. u.heads[e] = [seq |-> x.seq, id |-> x.id]
      BY <1>5, <2>0, <2>1 DEF StepTo
    <3> QED BY <3>3, <3>4
  <2>2. CASE e # x.episode
    <3>1. {y \in Entries(c) : y.episode = e} = {y \in Entries(h) : y.episode = e}
      BY <1>2, <2>2
    <3>2. u.heads[e] = t.heads[e]
      BY <1>5, <2>0, <2>2 DEF StepTo
    <3> QED BY <1>1, <3>1, <3>2 DEF HeadsNamed
  <2> QED BY <2>1, <2>2
<1>11. Leads(EmptyTables, c, u)
  BY <1>1, LeadsNext
<1> QED BY <1>2, <1>3, <1>5, <1>6, <1>7, <1>8, <1>9, <1>10, <1>11 DEF Sound, StepTo

\* Without one episode a sound database is sound.
LEMMA SoundWithout ==
  ASSUME NEW h, NEW t, NEW m, NEW e \in Episodes, Sound(h, t, m)
  PROVE  LET own == Only(h, Others(e))
             u == ApplyAll(EmptyTables, own)
         IN  Sound(own, u, m) /\ Without(t, e, u) /\ Entries(own) = Entries(h) \cap Others(e)
<1> DEFINE own == Only(h, Others(e))
           u == ApplyAll(EmptyTables, own)
           r == ApplyAll(EmptyTables, h)
<1>1. h \in Logs /\ t \in Tables /\ m \in Nat /\ Increasing(h) /\ Numbered(h, m) /\ Chained(h)
      /\ HeadsNamed(h, t) /\ Leads(EmptyTables, h, t)
  BY DEF Sound
<1>2. own \in Logs /\ Entries(own) = Entries(h) \cap Others(e) /\ Entries(h) \subseteq EventRecords
  <2>1. Entries(h) \subseteq EventRecords
    BY <1>1 DEF Entries, Logs
  <2> QED BY <1>1, <2>1, LogOnlyType
<1>3. Increasing(own)
  BY <1>1, IncreasingOnly
<1>4. Numbered(own, m)
  BY <1>1, <1>2 DEF Numbered
<1>5. \A x \in Entries(h) : x \in Entries(own) <=> x.episode # e
  BY <1>2 DEF Others
<1>6. Chained(own)
  <2> SUFFICES ASSUME NEW x \in Entries(own) PROVE x.prev = HeadsAt(own, x.seq - 1)[x.episode].id
    BY DEF Chained
  <2>1. x \in Entries(h) /\ x.episode # e /\ x.episode \in Episodes
    BY <1>2 DEF Others, EventRecords
  <2>2. {y \in Entries(own) : y.episode = x.episode /\ y.seq =< x.seq - 1}
          = {y \in Entries(h) : y.episode = x.episode /\ y.seq =< x.seq - 1}
    <3> HIDE DEF own
    <3> QED BY <1>2, <1>5, <2>1
  <2>3. HeadsAt(own, x.seq - 1)[x.episode] = HeadsAt(h, x.seq - 1)[x.episode]
    <3> DEFINE n == x.seq - 1
               f == x.episode
    <3>1. /\ f \in Episodes
          /\ {y \in Entries(own) : y.episode = f /\ y.seq =< n}
               = {y \in Entries(h) : y.episode = f /\ y.seq =< n}
      BY <2>1, <2>2
    <3> HIDE DEF own, n, f
    <3>2. HeadsAt(own, n)[f] = HeadsAt(h, n)[f]
      BY <3>1 DEF HeadsAt
    <3> QED BY <3>2 DEF n, f
  <2> QED BY <1>1, <2>1, <2>3 DEF Chained
<1>7. r \in Tables /\ r # None /\ SameProjections(r, t)
  BY <1>1, LedgerNoneAssumption DEF Leads
<1>8. Without(r, e, u)
  BY <1>1, <1>7, ReplayWithout
<1>9. Without(t, e, u)
  BY <1>7, <1>8 DEF Without, SameProjections
<1>10. HeadsNamed(own, u)
  <2> SUFFICES ASSUME NEW f \in Episodes
               PROVE  u.heads[f] = HeadOf({y \in Entries(own) : y.episode = f})
    BY DEF HeadsNamed
  <2>0. DOMAIN t.heads = Episodes /\ u.heads = [t.heads EXCEPT ![e] = NoHead]
    BY <1>1, <1>9 DEF Tables, Without
  <2> HIDE DEF own, u
  <2>1. CASE f = e
    <3>1. {y \in Entries(own) : y.episode = f} = {}
      BY <1>2, <1>5, <2>1
    <3> QED BY <2>0, <2>1, <3>1, HeadOfNone
  <2>2. CASE f # e
    <3>1. {y \in Entries(own) : y.episode = f} = {y \in Entries(h) : y.episode = f}
      BY <1>2, <1>5, <2>2
    <3> QED BY <1>1, <2>0, <2>2, <3>1 DEF HeadsNamed
  <2> QED BY <2>1, <2>2
<1>11. Leads(EmptyTables, own, u)
  BY <1>8 DEF Leads, Without, SameProjections
<1> QED BY <1>1, <1>2, <1>3, <1>4, <1>6, <1>9, <1>10, <1>11 DEF Sound, Without

LEMMA SoundAtFirst == Sound(<< >>, EmptyTables, 0)
<1>1. << >> \in Logs /\ EmptyTables \in Tables
  BY EmptyIsTables DEF Logs
<1>2. Increasing(<< >>) /\ Numbered(<< >>, 0) /\ Chained(<< >>)
  BY EntriesNothing DEF Increasing, Numbered, Chained
<1>3. HeadsNamed(<< >>, EmptyTables)
  BY EntriesNothing, HeadOfNone DEF HeadsNamed, EmptyTables
<1> QED BY <1>1, <1>2, <1>3, LeadsNothing DEF Sound

LEMMA SoundSame ==
  ASSUME NEW h, NEW t, NEW m, NEW u \in Tables, Sound(h, t, m), SameProjections(t, u)
  PROVE  Sound(h, u, m)
BY DEF Sound, SameProjections, HeadsNamed, Leads

-----------------------------------------------------------------------------
(* Idempotency keys.                                                       *)

LEMMA IdsNext ==
  ASSUME NEW s \in Logs, NEW x \in EventRecords
  PROVE  Ids(s) \in Seq(Nat) /\ Ids(Append(s, x)) = Append(Ids(s), x.id)
<1> DEFINE c == Append(s, x)
           n == Len(s)
<1>1. /\ n \in Nat /\ c \in Logs /\ Len(c) = n + 1 /\ c[n + 1] = x
      /\ \A i \in 1..n : c[i] = s[i]
  BY AppendAlike DEF Logs, Alike
<1>2. DOMAIN s = 1..n /\ DOMAIN c = 1..(n + 1)
  BY <1>1 DEF Logs
<1>3. \A i \in 1..n : s[i].id \in Nat
  <2> SUFFICES ASSUME NEW i \in 1..n PROVE s[i].id \in Nat
    OBVIOUS
  <2>1. s[i] \in EventRecords
    BY DEF Logs
  <2> QED BY <2>1 DEF EventRecords
<1>4. x.id \in Nat
  BY DEF EventRecords
<1> HIDE DEF c, n
<1>5. Ids(s) = [i \in 1..n |-> s[i].id] /\ Ids(c) = [i \in 1..(n + 1) |-> c[i].id]
  BY <1>2 DEF Ids
<1>6. Ids(s) \in Seq(Nat) /\ Len(Ids(s)) = n
  BY <1>1, <1>3, <1>5
<1>7. Append(Ids(s), x.id) = [i \in 1..(n + 1) |-> IF i = n + 1 THEN x.id ELSE Ids(s)[i]]
  BY <1>1, <1>4, <1>6
<1>8. Ids(c) = Append(Ids(s), x.id)
  BY <1>1, <1>5, <1>7
<1> QED BY <1>6, <1>8 DEF c

LEMMA IdsType ==
  ASSUME NEW s \in Logs, NEW m \in Nat, \A x \in Entries(s) : x.id \in 1..m
  PROVE  Ids(s) \in Seq(1..m) /\ Len(Ids(s)) = Len(s)
<1>1. DOMAIN s = 1..Len(s) /\ Len(s) \in Nat
  BY DEF Logs
<1>2. \A i \in 1..Len(s) : s[i].id \in 1..m
  BY <1>1 DEF Entries
<1>3. Ids(s) = [i \in 1..Len(s) |-> s[i].id]
  BY <1>1 DEF Ids
<1> QED BY <1>1, <1>2, <1>3

LEMMA KeyedNext ==
  ASSUME NEW h \in Logs, NEW x \in EventRecords, NEW e, NEW k
  PROVE  Keyed(Append(h, x), e, k) =
           IF x.episode = e /\ x.key = k THEN Append(Keyed(h, e, k), x.id) ELSE Keyed(h, e, k)
<1> DEFINE c == Append(h, x)
           C == {y \in Entries(c) : y.episode = e /\ y.key = k}
           H == {y \in Entries(h) : y.episode = e /\ y.key = k}
<1>1. Entries(c) = Entries(h) \cup {x}
  BY LogEntriesNext
<1>2. C \cap Entries(h) = H \cap Entries(h) /\ (x \in C <=> (x.episode = e /\ x.key = k))
  BY <1>1
<1>3. Keyed(c, e, k) = Ids(Only(c, C)) /\ Keyed(h, e, k) = Ids(Only(h, H))
  BY DEF Keyed
<1> HIDE DEF C, H
<1>4. Only(h, C) = Only(h, H) /\ Only(h, H) \in Logs
  BY <1>2, LogOnlyAgree, LogOnlyType
<1>5. Only(c, C) = IF x \in C THEN Append(Only(h, H), x) ELSE Only(h, H)
  BY <1>4, LogOnlyNext
<1>6. Ids(Append(Only(h, H), x)) = Append(Ids(Only(h, H)), x.id)
  BY <1>4, IdsNext
<1> HIDE DEF c
<1>7. CASE x \in C
  BY <1>2, <1>3, <1>5, <1>6, <1>7 DEF c
<1>8. CASE x \notin C
  BY <1>2, <1>3, <1>5, <1>8 DEF c
<1> QED BY <1>7, <1>8

LEMMA KeyedWithout ==
  ASSUME NEW h \in Logs, NEW e, NEW f, NEW k, e # f
  PROVE  Keyed(Only(h, Others(e)), f, k) = Keyed(h, f, k)
<1> DEFINE own == Only(h, Others(e))
           C == {y \in Entries(own) : y.episode = f /\ y.key = k}
           H == {y \in Entries(h) : y.episode = f /\ y.key = k}
<1>1. Entries(own) = Entries(h) \cap Others(e) /\ Entries(h) \subseteq EventRecords
  <2>1. Entries(h) \subseteq EventRecords
    BY DEF Entries, Logs
  <2> QED BY <2>1, LogOnlyType
<1>2. (Others(e) \cap C) \cap Entries(h) = H \cap Entries(h)
  <2> HIDE DEF own
  <2> QED BY <1>1 DEF Others
<1>3. Keyed(own, f, k) = Ids(Only(own, C)) /\ Keyed(h, f, k) = Ids(Only(h, H))
  BY DEF Keyed
<1> HIDE DEF C, H
<1>4. Only(own, C) = Only(h, Others(e) \cap C)
  BY LogOnlyOnly
<1>5. Only(h, Others(e) \cap C) = Only(h, H)
  BY <1>2, LogOnlyAgree
<1> QED BY <1>3, <1>4, <1>5

LEMMA KeyedType ==
  ASSUME NEW h \in Logs, NEW m \in Nat, Numbered(h, m), NEW e, NEW k
  PROVE  Keyed(h, e, k) \in Seq(1..m)
<1> DEFINE H == {y \in Entries(h) : y.episode = e /\ y.key = k}
<1>1. Only(h, H) \in Logs /\ Entries(Only(h, H)) \subseteq Entries(h)
  BY LogOnlyType
<1>2. \A x \in Entries(Only(h, H)) : x.id \in 1..m
  BY <1>1 DEF Numbered
<1> DEFINE s == Only(h, H)
<1>3. Keyed(h, e, k) = Ids(s)
  BY DEF Keyed
<1>4. s \in Logs /\ \A x \in Entries(s) : x.id \in 1..m
  BY <1>1, <1>2
<1> HIDE DEF s
<1> QED BY <1>3, <1>4, IdsType

\* The idempotency table holds the ids of the events under each key.
Answering(h, t) == \A e \in Episodes, k \in Keys : t.answers[e][k] = Keyed(h, e, k)

KeyTable(h) == [e \in Episodes |-> [k \in Keys |-> Keyed(h, e, k)]]

LEMMA FullReplayIs ==
  ASSUME NEW h \in Logs, NEW r \in Tables, ApplyAll(EmptyTables, h) = r
  PROVE  FullReplay(h) = [rows |-> r.rows, heads |-> r.heads, answers |-> KeyTable(h)]
<1>1. r # None /\ r = [rows |-> r.rows, heads |-> r.heads, answers |-> r.answers]
  BY LedgerNoneAssumption DEF Tables
<1>2. FullReplay(h) = [r EXCEPT !.answers = KeyTable(h)]
  BY <1>1 DEF FullReplay, RestoreIdempotency, KeyTable
<1> DEFINE K == KeyTable(h)
<1> HIDE DEF K
<1>3. [r EXCEPT !.answers = K] = [rows |-> r.rows, heads |-> r.heads, answers |-> K]
  BY <1>1
<1> QED BY <1>2, <1>3 DEF K

LEMMA ReplaysToTables ==
  ASSUME NEW h, NEW t, NEW m, Sound(h, t, m), Answering(h, t)
  PROVE  FullReplay(h) = t
<1> DEFINE r == ApplyAll(EmptyTables, h)
<1>1. h \in Logs /\ t \in Tables /\ r \in Tables /\ SameProjections(r, t)
  BY DEF Sound, Leads
<1>2. t.answers = KeyTable(h)
  <2>1. /\ t.answers = [e \in Episodes |-> t.answers[e]]
        /\ \A e \in Episodes : t.answers[e] = [k \in Keys |-> t.answers[e][k]]
    <3>1. t.answers \in [Episodes -> [Keys -> Seq(Nat)]]
      BY <1>1 DEF Tables
    <3> QED BY <3>1
  <2> DEFINE K == KeyTable(h)
  <2>2. K = [e \in Episodes |-> [k \in Keys |-> Keyed(h, e, k)]]
    BY DEF KeyTable
  <2>3. \A e \in Episodes : t.answers[e] = K[e]
    <3> SUFFICES ASSUME NEW e \in Episodes PROVE t.answers[e] = K[e]
      OBVIOUS
    <3>1. \A k \in Keys : t.answers[e][k] = Keyed(h, e, k)
      BY DEF Answering
    <3>2. K[e] = [k \in Keys |-> Keyed(h, e, k)]
      BY <2>2
    <3> QED BY <2>1, <3>1, <3>2
  <2>4. K = [e \in Episodes |-> K[e]]
    BY <2>2
  <2> HIDE DEF K
  <2>5. t.answers = K
    BY <2>1, <2>3, <2>4
  <2> QED BY <2>5 DEF K
<1>3. t = [rows |-> t.rows, heads |-> t.heads, answers |-> t.answers]
  BY <1>1 DEF Tables
<1>4. FullReplay(h) = [rows |-> r.rows, heads |-> r.heads, answers |-> KeyTable(h)]
  BY <1>1, FullReplayIs
<1> QED BY <1>1, <1>2, <1>3, <1>4 DEF SameProjections

-----------------------------------------------------------------------------
(* What an append leaves as it was.                                        *)

\* From h and t to h2 and t2 only episode e went on.
Grown(h, t, h2, t2, e) ==
  /\ Entries(h) \subseteq Entries(h2)
  /\ \A x \in Entries(h2) : x \in Entries(h) \/ x.episode = e
  /\ MaxSeq(h) =< MaxSeq(h2)
  /\ \A n \in Nat : n =< MaxSeq(h) => HeadsAt(h2, n) = HeadsAt(h, n)
  /\ \A f \in Episodes : f # e => t2.rows[f] = t.rows[f]
  /\ \A s, n : n \in Nat /\ n =< MaxSeq(h) /\ Leads(s, Above(h, n), t) => Leads(s, Above(h2, n), t2)

LEMMA AboveNext ==
  ASSUME NEW h \in Logs, NEW x \in EventRecords, NEW n \in Nat, n < x.seq
  PROVE  Above(h, n) \in Logs /\ Above(Append(h, x), n) = Append(Above(h, n), x)
<1> DEFINE c == Append(h, x)
           C == {y \in Entries(c) : y.seq > n}
           H == {y \in Entries(h) : y.seq > n}
<1>1. Entries(c) = Entries(h) \cup {x} /\ x.seq \in Nat
  BY LogEntriesNext DEF EventRecords
<1>2. C \cap Entries(h) = H \cap Entries(h) /\ x \in C
  BY <1>1
<1>3. Above(c, n) = Only(c, C) /\ Above(h, n) = Only(h, H)
  BY DEF Above
<1> HIDE DEF C, H
<1>4. Only(h, C) = Only(h, H) /\ Only(h, H) \in Logs
  BY <1>2, LogOnlyAgree, LogOnlyType
<1>5. Only(c, C) = Append(Only(h, C), x)
  BY <1>2, LogOnlyNext
<1> QED BY <1>3, <1>4, <1>5

LEMMA AboveTop ==
  ASSUME NEW h \in Logs
  PROVE  Above(h, MaxSeq(h)) = << >>
<1> DEFINE H == {y \in Entries(h) : y.seq > MaxSeq(h)}
<1>1. H = {}
  <2>1. Entries(h) \subseteq EventRecords
    BY DEF Entries, Logs
  <2> SUFFICES ASSUME NEW y \in Entries(h), y.seq > MaxSeq(h) PROVE FALSE
    OBVIOUS
  <2>2. y.seq \in Nat /\ MaxSeq(h) \in Nat /\ y.seq =< MaxSeq(h)
    BY <2>1, MaxSeqType DEF IsMaxSeq, EventRecords
  <2> QED BY <2>2
<1>2. Only(h, H) = << >>
  <2>1. H \cap Entries(h) = {}
    BY <1>1
  <2> HIDE DEF H
  <2> QED BY <2>1, LogOnlyNone
<1> QED BY <1>2 DEF Above

LEMMA GrowsByOne ==
  ASSUME NEW h, NEW t, NEW m, NEW x \in EventRecords, Sound(h, t, m),
         x.seq = MaxSeq(h) + 1, x.id = m + 1, x.prev = t.heads[x.episode].id,
         Applicable(t.rows[x.episode], x)
  PROVE  Grown(h, t, Append(h, x), Applied(t, x), x.episode)
<1> DEFINE c == Append(h, x)
           u == Applied(t, x)
           top == MaxSeq(h)
<1>1. h \in Logs /\ t \in Tables /\ top \in Nat /\ DOMAIN t.rows = Episodes
  BY MaxSeqType DEF Sound, IsMaxSeq, Tables
<1>2. Entries(c) = Entries(h) \cup {x}
  BY <1>1, LogEntriesNext
<1>3. MaxSeq(c) = x.seq /\ StepTo(t, x, u)
  BY SoundNext
<1>4. top < x.seq /\ top =< MaxSeq(c)
  <2> HIDE DEF c
  <2> QED BY <1>1, <1>3
<1>5. ASSUME NEW n \in Nat, n =< top PROVE HeadsAt(c, n) = HeadsAt(h, n)
  <2>1. n \in Int /\ n < x.seq
    BY <1>1, <1>5
  <2> QED BY <1>1, <2>1, HeadsStay
<1>6. ASSUME NEW f \in Episodes, f # x.episode PROVE u.rows[f] = t.rows[f]
  BY <1>1, <1>3, <1>6 DEF StepTo
<1>7. ASSUME NEW s, NEW n, n \in Nat, n =< top, Leads(s, Above(h, n), t)
      PROVE  Leads(s, Above(c, n), u)
  <2>1. n < x.seq
    BY <1>1, <1>7
  <2>2. Above(h, n) \in Logs /\ Above(c, n) = Append(Above(h, n), x)
    BY <1>1, <1>7, <2>1, AboveNext
  <2> QED BY <1>1, <1>7, <2>2, LeadsNext
<1> HIDE DEF c, u, top
<1> QED BY <1>2, <1>4, <1>5, <1>6, <1>7 DEF Grown, c, u, top

LEMMA GrownTwice ==
  ASSUME NEW h \in Logs, NEW t, NEW h2 \in Logs, NEW t2, NEW h3 \in Logs, NEW t3, NEW e,
         Grown(h, t, h2, t2, e), Grown(h2, t2, h3, t3, e)
  PROVE  Grown(h, t, h3, t3, e)
<1>1. MaxSeq(h) \in Nat /\ MaxSeq(h2) \in Nat /\ MaxSeq(h3) \in Nat
      /\ MaxSeq(h) =< MaxSeq(h2) /\ MaxSeq(h2) =< MaxSeq(h3)
  BY MaxSeqType DEF IsMaxSeq, Grown
<1>2. /\ Entries(h) \subseteq Entries(h3)
      /\ \A x \in Entries(h3) : x \in Entries(h) \/ x.episode = e
      /\ MaxSeq(h) =< MaxSeq(h3)
      /\ \A f \in Episodes : f # e => t3.rows[f] = t.rows[f]
  BY <1>1 DEF Grown
<1>3. ASSUME NEW n \in Nat, n =< MaxSeq(h) PROVE HeadsAt(h3, n) = HeadsAt(h, n)
  <2>1. n =< MaxSeq(h2)
    BY <1>1, <1>3
  <2> QED BY <1>3, <2>1 DEF Grown
<1>4. ASSUME NEW s, NEW n, n \in Nat, n =< MaxSeq(h), Leads(s, Above(h, n), t)
      PROVE  Leads(s, Above(h3, n), t3)
  <2>1. n =< MaxSeq(h2)
    BY <1>1, <1>4
  <2>2. Leads(s, Above(h2, n), t2)
    BY <1>4 DEF Grown
  <2> QED BY <1>4, <2>1, <2>2 DEF Grown
<1> QED BY <1>2, <1>3, <1>4 DEF Grown

LEMMA GrownSame ==
  ASSUME NEW h, NEW t, NEW h2, NEW t2, NEW e, NEW u \in Tables, Grown(h, t, h2, t2, e),
         SameProjections(t2, u)
  PROVE  Grown(h, t, h2, u, e)
BY DEF Grown, Leads, SameProjections

-----------------------------------------------------------------------------
(* Rows of an episode.                                                     *)

RowOK(r, m) ==
  /\ r \in EpisodeRows
  /\ r.open \subseteq 1..m /\ r.completed \subseteq 1..m /\ r.open \cap r.completed = {}
  /\ r.state = "absent" => r = AbsentEpisode

\* A verification outcome is a sample of its source.
Counted(r) == r.samples = Cardinality(r.completed)

LEMMA RowStays ==
  ASSUME NEW r, NEW m \in Nat, NEW n \in Nat, m =< n, RowOK(r, m)
  PROVE  RowOK(r, n)
<1>1. 1..m \subseteq 1..n
  OBVIOUS
<1> QED BY <1>1 DEF RowOK

LEMMA RowAbsent == \A m \in Nat : RowOK(AbsentEpisode, m) /\ Counted(AbsentEpisode)
BY FS_EmptySet DEF RowOK, Counted, AbsentEpisode, EpisodeRows

LEMMA RowCreated ==
  ASSUME NEW r, NEW m \in Nat, NEW x \in EventRecords, RowOK(r, m), Counted(r),
         x.kind = "EPISODE_CREATED", r.state = "absent"
  PROVE  /\ Applicable(r, x) /\ RowOK(RowAfter(r, x), m) /\ Counted(RowAfter(r, x))
         /\ RowAfter(r, x).state # "absent"
<1>1. RowAfter(r, x) = [r EXCEPT !.state = "active"] /\ Applicable(r, x)
  BY DEF RowAfter, Applicable
<1>2. RowAfter(r, x) \in EpisodeRows
  BY RowAfterIsRow DEF RowOK
<1> QED BY <1>1, <1>2 DEF RowOK, Counted, EpisodeRows

LEMMA RowFinalized ==
  ASSUME NEW r, NEW m \in Nat, NEW x \in EventRecords, RowOK(r, m), Counted(r),
         x.kind = "EPISODE_FINALIZED", r.state # "absent"
  PROVE  /\ Applicable(r, x) /\ RowOK(RowAfter(r, x), m) /\ Counted(RowAfter(r, x))
         /\ RowAfter(r, x).state # "absent"
<1>1. RowAfter(r, x) = [r EXCEPT !.state = "finalized"] /\ Applicable(r, x)
  BY DEF RowAfter, Applicable
<1>2. RowAfter(r, x) \in EpisodeRows
  BY RowAfterIsRow DEF RowOK
<1> QED BY <1>1, <1>2 DEF RowOK, Counted, EpisodeRows

LEMMA RowIngested ==
  ASSUME NEW r, NEW m \in Nat, NEW x \in EventRecords, RowOK(r, m), Counted(r),
         x.kind = "EVIDENCE_INGESTED", x.id = m + 1, r.state # "absent"
  PROVE  /\ Applicable(r, x) /\ RowOK(RowAfter(r, x), m + 1) /\ Counted(RowAfter(r, x))
         /\ RowAfter(r, x).state # "absent"
<1>1. r.open \subseteq 1..m /\ r.completed \subseteq 1..m /\ r \in EpisodeRows /\ m + 1 \notin 1..m
  BY DEF RowOK
<1>2. RowAfter(r, x) = [r EXCEPT !.open = @ \cup {m + 1}] /\ Applicable(r, x)
  BY <1>1 DEF RowAfter, Applicable
<1>3. RowAfter(r, x) \in EpisodeRows
  BY <1>1, RowAfterIsRow
<1>4. 1..m \subseteq 1..(m + 1) /\ m + 1 \in 1..(m + 1)
  OBVIOUS
<1>5. /\ RowAfter(r, x).open = r.open \cup {m + 1} /\ RowAfter(r, x).completed = r.completed
      /\ RowAfter(r, x).samples = r.samples /\ RowAfter(r, x).state = r.state
  BY <1>1, <1>2 DEF EpisodeRows
<1> QED BY <1>1, <1>2, <1>3, <1>4, <1>5 DEF RowOK, Counted

LEMMA RowCompleted ==
  ASSUME NEW r, NEW m \in Nat, NEW x \in EventRecords, NEW y \in EventRecords, RowOK(r, m),
         Counted(r), x.kind = "VERIFICATION_TASK_COMPLETED", x.task \in r.open,
         y.kind = "SOURCE_STATS_DELTA", r.state # "absent"
  PROVE  /\ Applicable(r, x) /\ Applicable(RowAfter(r, x), y)
         /\ RowOK(RowAfter(RowAfter(r, x), y), m) /\ Counted(RowAfter(RowAfter(r, x), y))
         /\ RowAfter(RowAfter(r, x), y).state # "absent"
<1> DEFINE r2 == RowAfter(r, x)
           r3 == RowAfter(r2, y)
<1>1. /\ r.open \subseteq 1..m /\ r.completed \subseteq 1..m /\ r \in EpisodeRows
      /\ r.open \cap r.completed = {} /\ r.samples \in Nat
  BY DEF RowOK, EpisodeRows
<1>2. r2 = [r EXCEPT !.open = @ \ {x.task}, !.completed = @ \cup {x.task}] /\ Applicable(r, x)
  BY DEF RowAfter, Applicable
<1>3. r2 \in EpisodeRows /\ r3 \in EpisodeRows
  BY <1>1, RowAfterIsRow
<1>4. /\ r2.open = r.open \ {x.task} /\ r2.completed = r.completed \cup {x.task}
      /\ r2.samples = r.samples /\ r2.state = r.state
  BY <1>1, <1>2 DEF EpisodeRows
<1> HIDE DEF r2
<1>5. r3 = [r2 EXCEPT !.samples = @ + 1] /\ Applicable(r2, y)
  BY <1>4 DEF RowAfter, Applicable
<1>6. /\ r3.open = r2.open /\ r3.completed = r2.completed
      /\ r3.samples = r2.samples + 1 /\ r3.state = r2.state
  BY <1>3, <1>5 DEF EpisodeRows
<1> HIDE DEF r3
<1>7. RowOK(r3, m) /\ r3.state # "absent"
  BY <1>1, <1>3, <1>4, <1>6 DEF RowOK
<1>8. Cardinality(r.completed \cup {x.task}) = Cardinality(r.completed) + 1
  <2>1. IsFiniteSet(r.completed) /\ x.task \notin r.completed
    <3>1. IsFiniteSet(1..m)
      BY FS_Interval
    <3>2. IsFiniteSet(r.completed)
      BY <1>1, <3>1, FS_Subset
    <3> QED BY <1>1, <3>2
  <2> QED BY <2>1, FS_AddElement
<1>9. Counted(r3)
  BY <1>4, <1>6, <1>8 DEF Counted
<1> QED BY <1>2, <1>5, <1>7, <1>9 DEF r2, r3

-----------------------------------------------------------------------------
(* append_events, on a sound database and for a request some caller makes. *)

RowsOK(t, m) == \A e \in Episodes : RowOK(t.rows[e], m) /\ Counted(t.rows[e])

Single(q, kind) == q.drafts = << Draft(kind) >> /\ q.task = 0
Completion(q) ==
  q.drafts = << [kind |-> "VERIFICATION_TASK_COMPLETED", task |-> q.task], Draft("SOURCE_STATS_DELTA") >>

\* What a caller asks for still makes sense when its transaction begins.
Asked(q, t, m) ==
  /\ q \in Requests
  /\ \/ Single(q, "EPISODE_CREATED") /\ q.key = None /\ t.rows[q.episode].state = "absent"
     \/ Single(q, "EPISODE_FINALIZED") /\ q.key = None /\ t.rows[q.episode].state # "absent"
     \/ Single(q, "EVIDENCE_INGESTED") /\ t.rows[q.episode].state # "absent"
     \/ Completion(q) /\ q.key = None /\ q.task \in 1..m /\ t.rows[q.episode].state # "absent"

Database(h, t, m) == Sound(h, t, m) /\ RowsOK(t, m) /\ Answering(h, t)

\* The result of an append: the database is sound, only the episode of the request
\* went on, and only the key of the request got an answer.
AppendsTo(h, t, m, q, ids, h2, t2, m2) ==
  /\ Database(h2, t2, m2) /\ m =< m2
  /\ Grown(h, t, h2, t2, q.episode)
  /\ t2.rows[q.episode].state # "absent"
  /\ ids # << >>
  /\ q.key \in Keys => Keyed(h2, q.episode, q.key) = ids
  /\ \A e \in Episodes, k \in Keys :
       e # q.episode \/ k # q.key => Keyed(h2, e, k) = Keyed(h, e, k)

LEMMA BuiltEvents ==
  ASSUME NEW q, Sound(events, tables, minted), Asked(q, tables, minted), NEW i \in DOMAIN q.drafts
  PROVE  /\ Built(q)[i] \in EventRecords
         /\ Built(q)[i].seq = MaxSeq(events) + i /\ Built(q)[i].id = minted + i
         /\ Built(q)[i].prev = IF i = 1 THEN tables.heads[q.episode].id ELSE minted + i - 1
         /\ Built(q)[i].episode = q.episode /\ Built(q)[i].key = q.key
         /\ Built(q)[i].kind = q.drafts[i].kind /\ Built(q)[i].task = q.drafts[i].task
<1>1. /\ q.episode \in Episodes /\ q.key \in Keys \cup {None} /\ q.print \in Prints \cup {None}
      /\ q.drafts \in Seq([kind : Kinds, task : Nat])
  BY DEF Asked, Requests
<1>2. i \in Nat /\ i >= 1 /\ q.drafts[i] \in [kind : Kinds, task : Nat]
  <2> DEFINE D == [kind : Kinds, task : Nat]
             s == q.drafts
  <2>1. s \in Seq(D) /\ i \in DOMAIN s
    BY <1>1
  <2> HIDE DEF D, s
  <2>2. DOMAIN s = 1..Len(s) /\ Len(s) \in Nat /\ s[i] \in D
    BY <2>1
  <2> QED BY <2>1, <2>2 DEF D, s
<1>3. /\ MaxSeq(events) \in Nat /\ minted \in Nat
      /\ tables.heads \in [Episodes -> [seq : Nat, id : Nat]]
  BY MaxSeqType DEF Sound, IsMaxSeq, Tables
<1>4. tables.heads[q.episode].id \in Nat
  BY <1>1, <1>3
<1> DEFINE prev == IF i = 1 THEN tables.heads[q.episode].id ELSE minted + i - 1
           top == MaxSeq(events)
<1>5. prev \in Nat
  BY <1>2, <1>3, <1>4
<1>6. Built(q)[i] = [seq |-> top + 1 + i - 1, id |-> minted + i, episode |-> q.episode,
                     prev |-> prev, kind |-> q.drafts[i].kind, task |-> q.drafts[i].task,
                     key |-> q.key, print |-> q.print]
  BY DEF Built, NextSeq
<1>7. top + 1 + i - 1 = top + i /\ top + i \in Nat /\ minted + i \in Nat
  BY <1>2, <1>3
<1>8. q.drafts[i].kind \in Kinds /\ q.drafts[i].task \in Nat
  BY <1>2
<1> HIDE DEF prev, top
<1>9. Built(q)[i] \in EventRecords
  BY <1>1, <1>5, <1>6, <1>7, <1>8 DEF EventRecords
<1> QED BY <1>6, <1>7, <1>9 DEF prev, top

\* A batch of one event.
LEMMA AppendsOne ==
  ASSUME NEW q, NEW d, Database(events, tables, minted), Asked(q, tables, minted),
         q.drafts = << d >>, AppendFresh(q),
         Applicable(tables.rows[q.episode], Built(q)[1]),
         RowOK(RowAfter(tables.rows[q.episode], Built(q)[1]), minted + 1),
         Counted(RowAfter(tables.rows[q.episode], Built(q)[1])),
         RowAfter(tables.rows[q.episode], Built(q)[1]).state # "absent"
  PROVE  AppendsTo(events, tables, minted, q, Ids(Built(q)), events', tables', minted')
<1> DEFINE x == Built(q)[1]
           u == Applied(tables, x)
           h2 == Append(events, x)
<1>0. /\ Sound(events, tables, minted) /\ RowsOK(tables, minted) /\ Answering(events, tables)
      /\ events \in Logs /\ tables \in Tables /\ minted \in Nat
      /\ q.episode \in Episodes /\ q.key \in Keys \cup {None} /\ 1 \in DOMAIN q.drafts
  BY DEF Database, Sound, Asked, Requests
<1>1. /\ x \in EventRecords /\ x.seq = MaxSeq(events) + 1 /\ x.id = minted + 1
      /\ x.prev = tables.heads[q.episode].id /\ x.episode = q.episode /\ x.key = q.key
      /\ x.prev = tables.heads[x.episode].id /\ Applicable(tables.rows[x.episode], x)
  BY <1>0, BuiltEvents
<1>2. Built(q) = << x >>
  <2>1. DOMAIN Built(q) = 1..1 /\ Built(q) = [i \in 1..1 |-> Built(q)[i]]
    BY DEF Built
  <2> QED BY <2>1
<1> HIDE DEF x
<1>3. /\ events' = h2 /\ minted' = minted + 1
      /\ tables' = IF q.key = None THEN u ELSE [u EXCEPT !.answers[q.episode][q.key] = Ids(Built(q))]
      /\ Ids(Built(q)) = << x.id >>
  <2>1. ApplyAll(tables, << x >>) = u
    <3>1. << x >> = Append(<< >>, x) /\ << >> \in Logs
      BY DEF Logs
    <3> QED BY <1>1, <3>1, ApplyNext, ApplyNothing
  <2>2. events \o << x >> = Append(events, x)
    BY <1>0, <1>1 DEF Logs
  <2>3. Ids(<< x >>) = << x.id >>
    BY DEF Ids
  <2> QED BY <1>2, <2>1, <2>2, <2>3 DEF AppendFresh
<1>4. Sound(h2, u, minted + 1) /\ StepTo(tables, x, u)
  BY <1>0, <1>1, SoundNext
<1>5. Grown(events, tables, h2, u, q.episode)
  BY <1>0, <1>1, GrowsByOne
<1> HIDE DEF u, h2
<1>6. /\ u \in Tables /\ u.answers = tables.answers /\ DOMAIN tables.rows = Episodes
      /\ u.rows = [tables.rows EXCEPT ![q.episode] = RowAfter(tables.rows[q.episode], x)]
      /\ u.answers \in [Episodes -> [Keys -> Seq(Nat)]]
      /\ u = [rows |-> u.rows, heads |-> u.heads, answers |-> u.answers]
  BY <1>0, <1>1, <1>4 DEF StepTo, Tables
<1>7. tables' \in Tables /\ SameProjections(u, tables')
  <2>1. CASE q.key = None
    BY <1>3, <1>6, <2>1 DEF SameProjections
  <2>2. CASE q.key # None
    <3> DEFINE ids == << x.id >>
               a == [u.answers EXCEPT ![q.episode] = [u.answers[q.episode] EXCEPT ![q.key] = ids]]
    <3>1. ids \in Seq(Nat)
      BY <1>0, <1>1
    <3> HIDE DEF ids
    <3>2. u.answers[q.episode] \in [Keys -> Seq(Nat)] /\ q.key \in Keys
      BY <1>0, <1>6, <2>2
    <3>3. [u.answers[q.episode] EXCEPT ![q.key] = ids] \in [Keys -> Seq(Nat)]
      BY <3>1, <3>2
    <3>4. a \in [Episodes -> [Keys -> Seq(Nat)]]
      BY <1>0, <1>6, <3>3
    <3>5. tables' = [rows |-> u.rows, heads |-> u.heads, answers |-> a]
      BY <1>3, <1>6, <2>2 DEF ids
    <3> HIDE DEF a
    <3> QED BY <1>6, <3>4, <3>5 DEF Tables, SameProjections
  <2> QED BY <2>1, <2>2
<1>8. Sound(h2, tables', minted + 1) /\ Grown(events, tables, h2, tables', q.episode)
  BY <1>4, <1>5, <1>7, SoundSame, GrownSame
<1>9. tables'.rows = u.rows
  BY <1>7 DEF SameProjections
<1>10. RowsOK(tables', minted + 1) /\ tables'.rows[q.episode].state # "absent"
  <2>1. tables'.rows[q.episode] = RowAfter(tables.rows[q.episode], x)
    BY <1>0, <1>6, <1>9
  <2>2. ASSUME NEW e \in Episodes, e # q.episode
        PROVE  RowOK(tables'.rows[e], minted + 1) /\ Counted(tables'.rows[e])
    <3>1. tables'.rows[e] = tables.rows[e]
      BY <1>6, <1>9, <2>2
    <3>2. RowOK(tables.rows[e], minted) /\ Counted(tables.rows[e])
      BY <1>0 DEF RowsOK
    <3>3. minted + 1 \in Nat /\ minted =< minted + 1
      BY <1>0
    <3> QED BY <1>0, <3>1, <3>2, <3>3, RowStays
  <2> QED BY <2>1, <2>2 DEF RowsOK, x
<1>11. \A e \in Episodes, k \in Keys :
         Keyed(h2, e, k) = IF e = q.episode /\ k = q.key THEN << x.id >> ELSE Keyed(events, e, k)
  <2> SUFFICES ASSUME NEW e \in Episodes, NEW k \in Keys
               PROVE  Keyed(h2, e, k) = IF e = q.episode /\ k = q.key THEN << x.id >>
                                        ELSE Keyed(events, e, k)
    OBVIOUS
  <2>1. Keyed(h2, e, k) = IF x.episode = e /\ x.key = k THEN Append(Keyed(events, e, k), x.id)
                          ELSE Keyed(events, e, k)
    BY <1>0, <1>1, KeyedNext DEF h2
  <2>2. CASE e = q.episode /\ k = q.key
    <3>1. tables.answers[e][k] = << >>
      BY <2>2, LedgerNoneAssumption DEF AppendFresh, Repeated, FirstAnswer
    <3>2. Keyed(events, e, k) = << >>
      BY <1>0, <3>1 DEF Answering
    <3>3. Append(<< >>, x.id) = << x.id >>
      OBVIOUS
    <3> QED BY <1>1, <2>1, <2>2, <3>2, <3>3
  <2>3. CASE ~(e = q.episode /\ k = q.key)
    BY <1>1, <2>1, <2>3
  <2> QED BY <2>2, <2>3
<1>12. \A e \in Episodes, k \in Keys :
         tables'.answers[e][k] = IF e = q.episode /\ k = q.key THEN << x.id >>
                                 ELSE tables.answers[e][k]
  <2>1. CASE q.key = None
    BY <1>3, <1>6, <2>1, LedgerNoneAssumption
  <2>2. CASE q.key # None
    BY <1>0, <1>3, <1>6, <2>2
  <2> QED BY <2>1, <2>2
<1>13. Answering(h2, tables')
  BY <1>0, <1>11, <1>12 DEF Answering
<1>14. << x.id >> # << >> /\ minted =< minted + 1
  BY <1>0
<1> QED BY <1>0, <1>3, <1>8, <1>10, <1>11, <1>13, <1>14 DEF AppendsTo, Database

LEMMA ConcatTwo ==
  ASSUME NEW T, NEW s \in Seq(T), NEW x \in T, NEW y \in T
  PROVE  s \o << x, y >> = Append(Append(s, x), y)
<1> DEFINE a == s \o << x, y >>
           b == Append(Append(s, x), y)
           n == Len(s)
<1>0. n \in Nat
  OBVIOUS
<1>1. a \in Seq(T) /\ Len(a) = n + 2 /\ a[n + 1] = x /\ a[n + 2] = y /\ \A i \in 1..n : a[i] = s[i]
  OBVIOUS
<1>2. b \in Seq(T) /\ Len(b) = n + 2 /\ b[n + 1] = x /\ b[n + 2] = y /\ \A i \in 1..n : b[i] = s[i]
  OBVIOUS
<1> HIDE DEF a, b, n
<1>3. \A i \in 1..(n + 2) : a[i] = b[i]
  BY <1>0, <1>1, <1>2
<1> QED BY <1>0, <1>1, <1>2, <1>3 DEF a, b

\* A batch of two events: a completed task and what it says of the source.
LEMMA AppendsTwo ==
  ASSUME NEW q, Database(events, tables, minted), Asked(q, tables, minted), AppendFresh(q),
         Completion(q), q.key = None, q.task \in 1..minted,
         tables.rows[q.episode].state # "absent"
  PROVE  AppendsTo(events, tables, minted, q, Ids(Built(q)), events', tables', minted')
<1> DEFINE x == Built(q)[1]
           y == Built(q)[2]
           t2 == Applied(tables, x)
           t3 == Applied(t2, y)
           h2 == Append(events, x)
           h3 == Append(h2, y)
           r == tables.rows[q.episode]
<1>0. /\ Sound(events, tables, minted) /\ RowsOK(tables, minted) /\ Answering(events, tables)
      /\ events \in Logs /\ tables \in Tables /\ minted \in Nat /\ q.episode \in Episodes
      /\ 1 \in DOMAIN q.drafts /\ 2 \in DOMAIN q.drafts /\ MaxSeq(events) \in Nat
  BY MaxSeqType DEF Database, Sound, Asked, Requests, Completion, IsMaxSeq
<1>1. /\ q.drafts[1] = [kind |-> "VERIFICATION_TASK_COMPLETED", task |-> q.task]
      /\ q.drafts[2] = [kind |-> "SOURCE_STATS_DELTA", task |-> 0]
  BY DEF Completion, Draft
<1>2. /\ x \in EventRecords /\ x.seq = MaxSeq(events) + 1 /\ x.id = minted + 1
      /\ x.prev = tables.heads[q.episode].id /\ x.episode = q.episode /\ x.key = None
      /\ x.kind = "VERIFICATION_TASK_COMPLETED" /\ x.task = q.task
  BY <1>0, <1>1, BuiltEvents
<1>3. /\ y \in EventRecords /\ y.seq = MaxSeq(events) + 2 /\ y.id = minted + 2
      /\ y.prev = minted + 1 /\ y.episode = q.episode /\ y.key = None
      /\ y.kind = "SOURCE_STATS_DELTA"
  <2>1. minted + 2 - 1 = minted + 1
    BY <1>0
  <2> QED BY <1>0, <1>1, <2>1, BuiltEvents
<1>4. Built(q) = << x, y >>
  <2>1. DOMAIN Built(q) = 1..2 /\ Built(q) = [i \in 1..2 |-> Built(q)[i]]
    BY DEF Built, Completion
  <2> QED BY <2>1
<1>5. q.task \in r.open
  <2>1. q.task # 0
    BY <1>0
  <2> QED BY <2>1 DEF AppendFresh, TaskOpen
<1> HIDE DEF x, y
<1>6. RowOK(r, minted) /\ Counted(r)
  BY <1>0 DEF RowsOK
<1> DEFINE r3 == RowAfter(RowAfter(r, x), y)
<1>7. /\ Applicable(r, x) /\ Applicable(RowAfter(r, x), y)
      /\ RowOK(r3, minted) /\ Counted(r3) /\ r3.state # "absent"
  <2> HIDE DEF r
  <2> QED BY <1>0, <1>2, <1>3, <1>5, <1>6, RowCompleted DEF r
<1>8. /\ Sound(h2, t2, minted + 1) /\ StepTo(tables, x, t2) /\ MaxSeq(h2) = x.seq
      /\ Grown(events, tables, h2, t2, q.episode)
  <2>1. x.prev = tables.heads[x.episode].id /\ Applicable(tables.rows[x.episode], x)
    BY <1>2, <1>7
  <2> QED BY <1>0, <1>2, <2>1, SoundNext, GrowsByOne
<1>9. /\ h2 \in Logs /\ t2 \in Tables
      /\ t2.rows[q.episode] = RowAfter(r, x) /\ t2.heads[q.episode].id = minted + 1
  <2>1. /\ DOMAIN tables.rows = Episodes /\ DOMAIN tables.heads = Episodes
    BY <1>0 DEF Tables
  <2> HIDE DEF t2, h2
  <2> QED BY <1>0, <1>2, <1>8, <2>1 DEF Sound, StepTo
<1> HIDE DEF t2, h2
<1>10. Sound(h3, t3, minted + 2) /\ StepTo(t2, y, t3) /\ Grown(h2, t2, h3, t3, q.episode)
  <2>1. /\ y.seq = MaxSeq(h2) + 1 /\ y.id = (minted + 1) + 1 /\ (minted + 1) + 1 = minted + 2
        /\ y.prev = t2.heads[y.episode].id /\ Applicable(t2.rows[y.episode], y)
    BY <1>0, <1>2, <1>3, <1>7, <1>8, <1>9
  <2>2. Sound(h3, t3, (minted + 1) + 1) /\ StepTo(t2, y, t3)
    BY <1>3, <1>8, <2>1, SoundNext
  <2>3. Grown(h2, t2, h3, t3, q.episode)
    BY <1>3, <1>8, <2>1, GrowsByOne
  <2> QED BY <2>1, <2>2, <2>3
<1>11. /\ events' = h3 /\ minted' = minted + 2 /\ tables' = t3
  <2>1. ApplyAll(tables, << x, y >>) = t3
    <3>1. << x >> = Append(<< >>, x) /\ << >> \in Logs /\ << x >> \in Logs
          /\ << x, y >> = Append(<< x >>, y)
      BY <1>2, <1>3 DEF Logs
    <3>2. ApplyAll(tables, << x >>) = t2
      BY <1>2, <3>1, ApplyNext, ApplyNothing DEF t2
    <3> QED BY <1>3, <3>1, <3>2, ApplyNext
  <2>2. events \o << x, y >> = h3
    BY <1>0, <1>2, <1>3, ConcatTwo DEF Logs, h2
  <2> HIDE DEF t3, h3
  <2> QED BY <1>4, <2>1, <2>2 DEF AppendFresh
<1>12. h3 \in Logs
  BY <1>10 DEF Sound
<1>13. Grown(events, tables, h3, t3, q.episode)
  <2> HIDE DEF h3, t3
  <2> QED BY <1>0, <1>8, <1>9, <1>10, <1>12, GrownTwice
<1>14. /\ t3.answers = tables.answers /\ t3.rows[q.episode] = r3
  <2>1. DOMAIN t2.rows = Episodes
    BY <1>9 DEF Tables
  <2> HIDE DEF t3
  <2> QED BY <1>0, <1>3, <1>8, <1>9, <1>10, <2>1 DEF StepTo
<1>15. \A e \in Episodes, k \in Keys : Keyed(h3, e, k) = Keyed(events, e, k)
  <2> SUFFICES ASSUME NEW e \in Episodes, NEW k \in Keys PROVE Keyed(h3, e, k) = Keyed(events, e, k)
    OBVIOUS
  <2>1. k # None
    BY LedgerNoneAssumption
  <2>2. Keyed(h2, e, k) = Keyed(events, e, k)
    BY <1>0, <1>2, <2>1, KeyedNext DEF h2
  <2>3. Keyed(h3, e, k) = Keyed(h2, e, k)
    BY <1>3, <1>9, <2>1, KeyedNext
  <2> QED BY <2>2, <2>3
<1> HIDE DEF h3, t3, r, r3
<1>16. Answering(h3, t3)
  BY <1>0, <1>14, <1>15 DEF Answering
<1>17. RowsOK(t3, minted + 2) /\ t3.rows[q.episode].state # "absent"
  <2>1. minted + 2 \in Nat /\ minted =< minted + 2
    BY <1>0
  <2>2. ASSUME NEW e \in Episodes PROVE RowOK(t3.rows[e], minted + 2) /\ Counted(t3.rows[e])
    <3>1. CASE e = q.episode
      BY <1>0, <1>7, <1>14, <2>1, <3>1, RowStays
    <3>2. CASE e # q.episode
      <4>1. t3.rows[e] = tables.rows[e]
        BY <1>13, <3>2 DEF Grown
      <4>2. RowOK(tables.rows[e], minted) /\ Counted(tables.rows[e])
        BY <1>0 DEF RowsOK
      <4> QED BY <1>0, <2>1, <4>1, <4>2, RowStays
    <3> QED BY <3>1, <3>2
  <2> QED BY <1>7, <1>14, <2>2 DEF RowsOK
<1>18. Ids(Built(q)) # << >>
  <2>1. 1 \in DOMAIN Ids(Built(q))
    BY <1>4 DEF Ids
  <2>2. 1 \notin DOMAIN << >>
    OBVIOUS
  <2> QED BY <2>1, <2>2
<1>19. minted =< minted + 2 /\ q.key \notin Keys
  BY <1>0, LedgerNoneAssumption
<1> QED BY <1>0, <1>10, <1>11, <1>13, <1>15, <1>16, <1>17, <1>18, <1>19 DEF AppendsTo, Database

LEMMA Appends ==
  ASSUME NEW q, Database(events, tables, minted), Asked(q, tables, minted), AppendFresh(q)
  PROVE  AppendsTo(events, tables, minted, q, Ids(Built(q)), events', tables', minted')
<1> DEFINE r == tables.rows[q.episode]
           x == Built(q)[1]
<1>1. /\ Sound(events, tables, minted) /\ minted \in Nat /\ q.episode \in Episodes
      /\ RowOK(r, minted) /\ Counted(r) /\ minted + 1 \in Nat /\ minted =< minted + 1
  BY DEF Database, Sound, RowsOK, Asked, Requests
<1>2. ASSUME NEW kind, Single(q, kind)
      PROVE  /\ q.drafts = << Draft(kind) >> /\ x \in EventRecords /\ x.kind = kind /\ x.id = minted + 1
  <2>1. q.drafts = << Draft(kind) >> /\ 1 \in DOMAIN q.drafts /\ q.drafts[1].kind = kind
    BY <1>2 DEF Single, Draft
  <2> QED BY <1>1, <2>1, BuiltEvents
<1> HIDE DEF x, r
<1>3. CASE Single(q, "EPISODE_CREATED") /\ r.state = "absent"
  <2>1. /\ Applicable(r, x) /\ RowOK(RowAfter(r, x), minted) /\ Counted(RowAfter(r, x))
        /\ RowAfter(r, x).state # "absent"
    BY <1>1, <1>2, <1>3, RowCreated
  <2>2. RowOK(RowAfter(r, x), minted + 1)
    BY <1>1, <2>1, RowStays
  <2> QED BY <1>2, <1>3, <2>1, <2>2, AppendsOne DEF x, r
<1>4. CASE Single(q, "EPISODE_FINALIZED") /\ r.state # "absent"
  <2>1. /\ Applicable(r, x) /\ RowOK(RowAfter(r, x), minted) /\ Counted(RowAfter(r, x))
        /\ RowAfter(r, x).state # "absent"
    BY <1>1, <1>2, <1>4, RowFinalized
  <2>2. RowOK(RowAfter(r, x), minted + 1)
    BY <1>1, <2>1, RowStays
  <2> QED BY <1>2, <1>4, <2>1, <2>2, AppendsOne DEF x, r
<1>5. CASE Single(q, "EVIDENCE_INGESTED") /\ r.state # "absent"
  <2>1. /\ Applicable(r, x) /\ RowOK(RowAfter(r, x), minted + 1) /\ Counted(RowAfter(r, x))
        /\ RowAfter(r, x).state # "absent"
    BY <1>1, <1>2, <1>5, RowIngested
  <2> QED BY <1>2, <1>5, <2>1, AppendsOne DEF x, r
<1>6. CASE Completion(q) /\ q.key = None /\ q.task \in 1..minted /\ r.state # "absent"
  BY <1>6, AppendsTwo DEF r
<1> QED BY <1>3, <1>4, <1>5, <1>6 DEF Asked, r

-----------------------------------------------------------------------------
(* Anchors.                                                                *)

Uncovered(a, P) == \A e \in P : a.heads[e] = NoHead

\* A record published once still describes the chain, unless it covers a purged
\* episode; its height is the number of an event that is still there.
AnchorOK(a, h, P) ==
  /\ a.height \in Nat
  /\ Uncovered(a, P) => /\ HeadsAt(h, a.height) = a.heads
                        /\ a.height = 0 \/ \E x \in Entries(h) : x.seq = a.height

LEMMA AnchorNew ==
  ASSUME NEW h \in Logs, NEW P
  PROVE  AnchorOK(ChainState(h), h, P)
BY MaxSeqType DEF AnchorOK, ChainState, IsMaxSeq

LEMMA AnchorReached ==
  ASSUME NEW a, NEW h \in Logs, NEW P, AnchorOK(a, h, P), Uncovered(a, P)
  PROVE  a.height \in Nat /\ a.height =< MaxSeq(h)
BY MaxSeqType DEF AnchorOK, IsMaxSeq

LEMMA AnchorGrows ==
  ASSUME NEW a, NEW h \in Logs, NEW t, NEW h2, NEW t2, NEW e, NEW P, AnchorOK(a, h, P),
         Grown(h, t, h2, t2, e)
  PROVE  AnchorOK(a, h2, P)
<1> SUFFICES ASSUME Uncovered(a, P)
             PROVE  /\ HeadsAt(h2, a.height) = a.heads
                    /\ a.height = 0 \/ \E x \in Entries(h2) : x.seq = a.height
  BY DEF AnchorOK
<1>1. a.height \in Nat /\ a.height =< MaxSeq(h)
  BY AnchorReached
<1>2. HeadsAt(h2, a.height) = HeadsAt(h, a.height)
  BY <1>1 DEF Grown
<1> QED BY <1>2 DEF AnchorOK, Grown

LEMMA AnchorPurge ==
  ASSUME NEW a, NEW h, NEW t, NEW m, NEW e \in Episodes, NEW P, Sound(h, t, m), AnchorOK(a, h, P)
  PROVE  AnchorOK(a, Only(h, Others(e)), P \cup {e})
<1> DEFINE own == Only(h, Others(e))
           n == a.height
<1> SUFFICES ASSUME Uncovered(a, P), a.heads[e] = NoHead
             PROVE  /\ HeadsAt(own, n) = a.heads
                    /\ n = 0 \/ \E x \in Entries(own) : x.seq = n
  BY DEF AnchorOK, Uncovered
<1>1. /\ h \in Logs /\ Increasing(h) /\ Entries(own) = Entries(h) \cap Others(e)
      /\ Entries(h) \subseteq EventRecords
  <2>1. h \in Logs /\ Increasing(h)
    BY DEF Sound
  <2>2. Entries(h) \subseteq EventRecords
    BY <2>1 DEF Entries, Logs
  <2> QED BY <2>1, <2>2, LogOnlyType
<1>2. n \in Nat /\ HeadsAt(h, n) = a.heads /\ (n = 0 \/ \E x \in Entries(h) : x.seq = n)
  BY DEF AnchorOK
<1> HIDE DEF own, n
<1> DEFINE mine == {x \in Entries(h) : x.episode = e /\ x.seq =< n}
<1>3. mine = {}
  <2> SUFFICES ASSUME mine # {} PROVE FALSE
    OBVIOUS
  <2>1. HeadOf(mine) = NoHead
    BY <1>2 DEF HeadsAt, n
  <2>2. mine \in SUBSET Entries(h)
    OBVIOUS
  <2> HIDE DEF mine
  <2>3. PICK x \in mine : HeadOf(mine) = [seq |-> x.seq, id |-> x.id]
    BY <1>1, <2>2, HeadOfSome
  <2>4. x.seq = 0
    BY <2>1, <2>3 DEF NoHead
  <2> QED BY <2>2, <2>4 DEF Sound, Numbered
<1>4. HeadsAt(own, n) = HeadsAt(h, n)
  <2>1. ASSUME NEW f \in Episodes
        PROVE  {x \in Entries(own) : x.episode = f /\ x.seq =< n}
                 = {x \in Entries(h) : x.episode = f /\ x.seq =< n}
    <3>1. CASE f = e
      BY <1>1, <1>3, <3>1
    <3>2. CASE f # e
      BY <1>1, <3>2 DEF Others
    <3> QED BY <3>1, <3>2
  <2> QED BY <2>1 DEF HeadsAt
<1>5. ASSUME NEW x \in Entries(h), x.seq = n PROVE x \in Entries(own)
  <2>1. x \notin mine
    BY <1>3
  <2>2. x.episode # e
    BY <1>2, <1>5, <2>1
  <2> QED BY <1>1, <2>2 DEF Others
<1> QED BY <1>2, <1>4, <1>5

-----------------------------------------------------------------------------
(* Tables in the database and in snapshots.                                *)

Shaped(t, m) ==
  /\ t \in Tables /\ t # None
  /\ \A e \in Episodes : RowOK(t.rows[e], m)
  /\ t.heads \in [Episodes -> [seq : Nat, id : 0..m]]
  /\ t.answers \in [Episodes -> [Keys -> Seq(1..m)]]

LEMMA ShapedStays ==
  ASSUME NEW t, NEW m \in Nat, NEW n \in Nat, m =< n, Shaped(t, m)
  PROVE  Shaped(t, n)
<1>1. 0..m \subseteq 0..n /\ 1..m \subseteq 1..n
  OBVIOUS
<1>2. \A e \in Episodes : RowOK(t.rows[e], n)
  BY RowStays DEF Shaped
<1>3. t.heads \in [Episodes -> [seq : Nat, id : 0..n]]
  <2>1. [seq : Nat, id : 0..m] \subseteq [seq : Nat, id : 0..n]
    BY <1>1
  <2> QED BY <2>1 DEF Shaped
<1>4. t.answers \in [Episodes -> [Keys -> Seq(1..n)]]
  <2> DEFINE A == Seq(1..m)
             B == Seq(1..n)
  <2>1. A \subseteq B
    BY <1>1
  <2>2. t.answers \in [Episodes -> [Keys -> A]]
    BY DEF Shaped
  <2> HIDE DEF A, B
  <2>3. t.answers \in [Episodes -> [Keys -> B]]
    BY <2>1, <2>2
  <2> QED BY <2>3 DEF B
<1> QED BY <1>2, <1>3, <1>4 DEF Shaped

LEMMA DatabaseShaped ==
  ASSUME NEW h, NEW t, NEW m, Database(h, t, m)
  PROVE  Shaped(t, m)
<1>1. /\ h \in Logs /\ t \in Tables /\ t # None /\ m \in Nat /\ Increasing(h) /\ Numbered(h, m)
      /\ HeadsNamed(h, t) /\ RowsOK(t, m) /\ Answering(h, t)
  BY LedgerNoneAssumption DEF Database, Sound
<1>2. t.heads \in [Episodes -> [seq : Nat, id : Nat]] /\ t.answers \in [Episodes -> [Keys -> Seq(Nat)]]
  BY <1>1 DEF Tables
<1>3. ASSUME NEW e \in Episodes PROVE t.heads[e] \in [seq : Nat, id : 0..m]
  <2> DEFINE own == {x \in Entries(h) : x.episode = e}
  <2>1. t.heads[e] = HeadOf(own) /\ own \in SUBSET Entries(h)
    BY <1>1 DEF HeadsNamed
  <2>2. Entries(h) \subseteq EventRecords
    BY <1>1 DEF Entries, Logs
  <2> HIDE DEF own
  <2>3. CASE own = {}
    BY <1>1, <2>1, <2>3, HeadOfNone DEF NoHead
  <2>4. CASE own # {}
    <3>1. PICK x \in own : HeadOf(own) = [seq |-> x.seq, id |-> x.id]
      BY <1>1, <2>1, <2>4, HeadOfSome
    <3>2. x.seq \in Nat /\ x.id \in 1..m
      BY <1>1, <2>1, <2>2 DEF EventRecords, Numbered
    <3> QED BY <1>1, <2>1, <3>1, <3>2
  <2> QED BY <2>3, <2>4
<1>4. ASSUME NEW e \in Episodes, NEW k \in Keys PROVE t.answers[e][k] \in Seq(1..m)
  BY <1>1, KeyedType DEF Answering
<1>5. t.heads \in [Episodes -> [seq : Nat, id : 0..m]]
  BY <1>2, <1>3
<1>6. t.answers \in [Episodes -> [Keys -> Seq(1..m)]]
  <2> DEFINE A == Seq(1..m)
             B == Seq(Nat)
  <2>1. t.answers \in [Episodes -> [Keys -> B]] /\ \A e \in Episodes, k \in Keys : t.answers[e][k] \in A
    BY <1>2, <1>4
  <2> HIDE DEF A, B
  <2>2. t.answers \in [Episodes -> [Keys -> A]]
    BY <2>1
  <2> QED BY <2>2 DEF A
<1> QED BY <1>1, <1>5, <1>6 DEF Shaped, RowsOK

\* The heads reach as high as the log.
LEMMA ContentIsTop ==
  ASSUME NEW h, NEW t, NEW m, Sound(h, t, m)
  PROVE  Greatest({t.heads[e].seq : e \in Episodes}) = MaxSeq(h)
<1> DEFINE S == {t.heads[e].seq : e \in Episodes}
           top == MaxSeq(h)
<1>1. /\ h \in Logs /\ Increasing(h) /\ HeadsNamed(h, t) /\ Entries(h) \subseteq EventRecords
      /\ t.heads \in [Episodes -> [seq : Nat, id : Nat]]
  BY DEF Sound, Entries, Logs, Tables
<1>2. top \in Nat /\ (\A x \in Entries(h) : x.seq =< top) /\ (top = 0 \/ \E x \in Entries(h) : x.seq = top)
  BY <1>1, MaxSeqType DEF IsMaxSeq
<1> HIDE DEF top
<1>3. ASSUME NEW e \in Episodes
      PROVE  t.heads[e].seq =< top /\ (top # 0 => \A x \in Entries(h) :
                                         x.episode = e /\ x.seq = top => t.heads[e].seq = top)
  <2> DEFINE own == {x \in Entries(h) : x.episode = e}
  <2>1. t.heads[e] = HeadOf(own) /\ own \in SUBSET Entries(h)
    BY <1>1 DEF HeadsNamed
  <2>2. t.heads[e].seq =< top
    <3> HIDE DEF own
    <3>1. CASE own = {}
      BY <1>2, <2>1, <3>1, HeadOfNone DEF NoHead
    <3>2. CASE own # {}
      <4>1. PICK x \in own : HeadOf(own) = [seq |-> x.seq, id |-> x.id]
        BY <1>1, <2>1, <3>2, HeadOfSome
      <4> QED BY <1>2, <2>1, <4>1
    <3> QED BY <3>1, <3>2
  <2>3. ASSUME NEW x \in Entries(h), x.episode = e, x.seq = top PROVE t.heads[e].seq = top
    <3>1. x \in own /\ \A y \in own : y.seq =< x.seq
      BY <1>2, <2>3
    <3> HIDE DEF own
    <3>2. HeadOf(own) = [seq |-> x.seq, id |-> x.id]
      BY <1>1, <2>1, <3>1, HeadOfLast
    <3> QED BY <2>1, <2>3, <3>2
  <2> QED BY <2>2, <2>3
<1>4. S \in SUBSET Nat /\ \A n \in S : n =< top
  BY <1>1, <1>3
<1>5. CASE S = {}
  <2>1. Entries(h) = {}
    <3> SUFFICES ASSUME NEW x \in Entries(h) PROVE FALSE
      OBVIOUS
    <3>1. x.episode \in Episodes
      BY <1>1 DEF EventRecords
    <3>2. t.heads[x.episode].seq \in S
      BY <3>1
    <3> QED BY <1>5, <3>2
  <2> QED BY <1>2, <1>5, <2>1 DEF Greatest, top
<1>6. CASE S # {}
  <2>1. top \in S
    <3>1. CASE top = 0
      <4>1. PICK n \in S : n \in Nat /\ n =< top
        BY <1>4, <1>6
      <4>2. n = top
        BY <3>1, <4>1
      <4> QED BY <4>1, <4>2
    <3>2. CASE top # 0
      <4>1. PICK x \in Entries(h) : x.seq = top
        BY <1>2, <3>2
      <4>2. x.episode \in Episodes
        BY <1>1 DEF EventRecords
      <4>3. t.heads[x.episode].seq = top
        BY <1>3, <3>2, <4>1, <4>2
      <4> QED BY <4>2, <4>3
    <3> QED BY <3>1, <3>2
  <2> HIDE DEF S
  <2>2. Greatest(S) = top
    BY <1>4, <2>1, GreatestIs
  <2> QED BY <2>2 DEF S, top
<1> QED BY <1>5, <1>6

-----------------------------------------------------------------------------
(* The inductive invariant.                                                *)

Creates(q) == Single(q, "EPISODE_CREATED")

CallOK(call, t, m, P) ==
  /\ call.at \in {"idle", "ready", "capture"}
  /\ call.at = "ready" <=> call.request # None
  /\ call.at = "capture" => call.height \in Nat
  /\ call.at = "ready" => Asked(call.request, t, m) /\ call.request.episode \notin P

\* An episode that is being created is nobody else's.
Apart(cs, c, d) ==
  c # d /\ cs[c].at = "ready" /\ cs[d].at = "ready" /\ Creates(cs[c].request)
  => cs[c].request.episode # cs[d].request.episode

CallsOK(cs, t, m, P) ==
  /\ cs = [c \in Callers |-> cs[c]]
  /\ \A c \in Callers : CallOK(cs[c], t, m, P)
  /\ \A c, d \in Callers : Apart(cs, c, d)

SnapshotOK(s, h, t, m) ==
  /\ s.height \in Nat /\ Shaped(s.tables, m)
  /\ s.height = ContentHeight(s) =>
       s.height =< MaxSeq(h) /\ Leads(s.tables, Above(h, s.height), t)

OnePerHeight(S) == \A s, r \in S : s.height = r.height => s = r

AnsweredOK(ans, h, P) ==
  /\ ans = [e \in Episodes |-> [k \in Keys |-> ans[e][k]]]
  /\ \A e \in Episodes, k \in Keys :
       /\ \E ids : ans[e][k] \subseteq {ids}
       /\ e \notin P => ans[e][k] = {Keyed(h, e, k)} \ {<< >>}

PurgedOK(h, t, P) ==
  /\ P \subseteq Episodes
  /\ \A e \in P : t.rows[e] = AbsentEpisode /\ \A x \in Entries(h) : x.episode # e

LedgerInv ==
  /\ Database(events, tables, minted)
  /\ PurgedOK(events, tables, purged)
  /\ CallsOK(calls, tables, minted, purged)
  /\ AnsweredOK(answered, events, purged)
  /\ \A a \in anchors : AnchorOK(a, events, purged)
  /\ \A s \in snapshots : SnapshotOK(s, events, tables, minted)
  /\ OnePerHeight(snapshots)

LEMMA LedgerFirst == Init => LedgerInv
<1> SUFFICES ASSUME Init PROVE LedgerInv
  OBVIOUS
<1>1. Database(events, tables, minted)
  <2>1. Sound(<< >>, EmptyTables, 0)
    BY SoundAtFirst
  <2>2. RowsOK(EmptyTables, 0)
    BY RowAbsent DEF RowsOK, EmptyTables
  <2>3. Answering(<< >>, EmptyTables)
    <3> SUFFICES ASSUME NEW e \in Episodes, NEW k \in Keys PROVE Keyed(<< >>, e, k) = << >>
      BY DEF Answering, EmptyTables
    <3>1. Keyed(<< >>, e, k) = Ids(<< >>)
      BY OnlyNothing DEF Keyed
    <3> QED BY <3>1 DEF Ids
  <2> QED BY <2>1, <2>2, <2>3 DEF Database, Init
<1>2. PurgedOK(events, tables, purged)
  BY DEF PurgedOK, Init
<1>3. CallsOK(calls, tables, minted, purged)
  BY DEF CallsOK, CallOK, Apart, Init, Idle
<1>4. AnsweredOK(answered, events, purged)
  <2> SUFFICES ASSUME NEW e \in Episodes, NEW k \in Keys
               PROVE  {} \subseteq {<< >>} /\ {} = {Keyed(<< >>, e, k)} \ {<< >>}
    BY DEF AnsweredOK, Init
  <2>1. Keyed(<< >>, e, k) = << >>
    BY <1>1, EmptyIsTables DEF Database, Answering, Init, EmptyTables
  <2> QED BY <2>1
<1> QED BY <1>1, <1>2, <1>3, <1>4 DEF LedgerInv, OnePerHeight, Init

-----------------------------------------------------------------------------
(* Calls.                                                                  *)

LEMMA RequestShapes ==
  ASSUME NEW q, NEW t, NEW m, Asked(q, t, m)
  PROVE  /\ Creates(q) => t.rows[q.episode].state = "absent"
         /\ ~Creates(q) => t.rows[q.episode].state # "absent"
         /\ q.key # None => ~Creates(q)
         /\ q.episode \in Episodes /\ q # None
<1>1. q.episode \in Episodes /\ q # None
  BY LedgerNoneAssumption DEF Asked, Requests
<1>2. ASSUME NEW s, NEW z, s = << Draft(z) >> PROVE s[1].kind = z /\ Len(s) = 1
  BY <1>2 DEF Draft
<1>3. Single(q, "EPISODE_FINALIZED") => ~Creates(q)
  <2> SUFFICES ASSUME Single(q, "EPISODE_FINALIZED"), Creates(q) PROVE FALSE
    OBVIOUS
  <2>1. q.drafts[1].kind = "EPISODE_FINALIZED" /\ q.drafts[1].kind = "EPISODE_CREATED"
    BY <1>2 DEF Single, Creates
  <2> QED BY <2>1
<1>4. Single(q, "EVIDENCE_INGESTED") => ~Creates(q)
  <2> SUFFICES ASSUME Single(q, "EVIDENCE_INGESTED"), Creates(q) PROVE FALSE
    OBVIOUS
  <2>1. q.drafts[1].kind = "EVIDENCE_INGESTED" /\ q.drafts[1].kind = "EPISODE_CREATED"
    BY <1>2 DEF Single, Creates
  <2> QED BY <2>1
<1>5. Completion(q) => ~Creates(q)
  <2> SUFFICES ASSUME Completion(q), Creates(q) PROVE FALSE
    OBVIOUS
  <2>1. Len(q.drafts) = 2
    BY DEF Completion
  <2>2. Len(q.drafts) = 1
    BY DEF Creates, Single
  <2> QED BY <2>1, <2>2
<1> QED BY <1>1, <1>3, <1>4, <1>5 DEF Asked, Creates

\* A request that does not create the episode that went on stays possible.
LEMMA StillAsked ==
  ASSUME NEW q, NEW h, NEW t, NEW m \in Nat, NEW h2, NEW t2, NEW m2 \in Nat, NEW e,
         Asked(q, t, m), Grown(h, t, h2, t2, e), m =< m2, t2.rows[e].state # "absent",
         q.episode = e => ~Creates(q)
  PROVE  Asked(q, t2, m2)
<1>1. q.episode \in Episodes /\ 1..m \subseteq 1..m2
  BY RequestShapes
<1>2. CASE q.episode = e
  <2>1. t.rows[q.episode].state # "absent" /\ t2.rows[q.episode].state # "absent"
    BY <1>2, RequestShapes
  <2> QED BY <1>1, <2>1 DEF Asked
<1>3. CASE q.episode # e
  <2>1. t2.rows[q.episode] = t.rows[q.episode]
    BY <1>1, <1>3 DEF Grown
  <2> QED BY <1>1, <2>1 DEF Asked
<1> QED BY <1>2, <1>3

LEMMA CallsReturn ==
  ASSUME NEW cs, NEW t, NEW m, NEW P, NEW c \in Callers, CallsOK(cs, t, m, P)
  PROVE  CallsOK([cs EXCEPT ![c] = Idle], t, m, P)
<1> DEFINE ds == [cs EXCEPT ![c] = Idle]
<1>1. DOMAIN cs = Callers
  BY DEF CallsOK
<1>2. ds[c] = Idle /\ \A d \in Callers : d # c => ds[d] = cs[d]
  BY <1>1
<1>3. ds = [d \in Callers |-> ds[d]]
  BY <1>1
<1> HIDE DEF ds
<1>4. CallOK(Idle, t, m, P) /\ Idle.at # "ready"
  BY DEF CallOK, Idle
<1>5. \A d \in Callers : CallOK(ds[d], t, m, P)
  BY <1>2, <1>4 DEF CallsOK
<1>6. \A d, e \in Callers : Apart(ds, d, e)
  <2> SUFFICES ASSUME NEW d \in Callers, NEW e \in Callers PROVE Apart(ds, d, e)
    OBVIOUS
  <2>1. CASE d = c \/ e = c
    BY <1>2, <1>4, <2>1 DEF Apart
  <2>2. CASE d # c /\ e # c
    <3>1. ds[d] = cs[d] /\ ds[e] = cs[e] /\ Apart(cs, d, e)
      BY <1>2, <2>2 DEF CallsOK
    <3> QED BY <3>1 DEF Apart
  <2> QED BY <2>1, <2>2
<1> QED BY <1>3, <1>5, <1>6 DEF CallsOK, ds

\* A caller that was not ready begins a call.
LEMMA CallsBegin ==
  ASSUME NEW cs, NEW t, NEW m, NEW P, NEW c \in Callers, NEW call, CallsOK(cs, t, m, P),
         CallOK(call, t, m, P), cs[c].at # "ready",
         call.at = "ready" => \A d \in Callers : cs[d].at = "ready" =>
            /\ Creates(call.request) => cs[d].request.episode # call.request.episode
            /\ Creates(cs[d].request) => cs[d].request.episode # call.request.episode
  PROVE  CallsOK([cs EXCEPT ![c] = call], t, m, P)
<1> DEFINE ds == [cs EXCEPT ![c] = call]
<1>1. DOMAIN cs = Callers
  BY DEF CallsOK
<1>2. ds[c] = call /\ \A d \in Callers : d # c => ds[d] = cs[d]
  BY <1>1
<1>3. ds = [d \in Callers |-> ds[d]]
  BY <1>1
<1> HIDE DEF ds
<1>4. \A d \in Callers : CallOK(ds[d], t, m, P)
  BY <1>2 DEF CallsOK
<1>5. \A d, e \in Callers : Apart(ds, d, e)
  <2> SUFFICES ASSUME NEW d \in Callers, NEW e \in Callers PROVE Apart(ds, d, e)
    OBVIOUS
  <2>1. CASE d = c
    BY <1>2, <2>1 DEF Apart
  <2>2. CASE d # c /\ e = c
    BY <1>2, <2>2 DEF Apart
  <2>3. CASE d # c /\ e # c
    <3>1. ds[d] = cs[d] /\ ds[e] = cs[e] /\ Apart(cs, d, e)
      BY <1>2, <2>3 DEF CallsOK
    <3> QED BY <3>1 DEF Apart
  <2> QED BY <2>1, <2>2, <2>3
<1> QED BY <1>3, <1>4, <1>5 DEF CallsOK, ds

-----------------------------------------------------------------------------
(* Every action keeps the invariant.                                       *)

LEMMA DraftTyped ==
  ASSUME NEW z \in Kinds, NEW n \in Nat
  PROVE  [kind |-> z, task |-> n] \in [kind : Kinds, task : Nat]
OBVIOUS

LEMMA SingleTyped ==
  ASSUME NEW z \in Kinds, NEW e \in Episodes, NEW key \in Keys \cup {None},
         NEW print \in Prints \cup {None}
  PROVE  LET q == Request(e, << Draft(z) >>, key, print, 0)
         IN  q \in Requests /\ Single(q, z) /\ q.episode = e /\ q.key = key
<1> DEFINE ds == << Draft(z) >>
           q == Request(e, ds, key, print, 0)
<1>1. Draft(z) \in [kind : Kinds, task : Nat]
  BY DraftTyped DEF Draft
<1>2. ds \in Seq([kind : Kinds, task : Nat])
  BY <1>1
<1> HIDE DEF ds
<1>3. q \in Requests /\ q.episode = e /\ q.drafts = ds /\ q.key = key /\ q.task = 0
  BY <1>2 DEF Request, Requests
<1> QED BY <1>3 DEF Single, ds

LEMMA AskKeepsCalls ==
  ASSUME LedgerInv, NEW c \in Callers, Ask(c)
  PROVE  CallsOK(calls', tables, minted, purged)
<1>1. /\ CallsOK(calls, tables, minted, purged) /\ PurgedOK(events, tables, purged)
      /\ RowsOK(tables, minted) /\ minted \in Nat
  BY DEF LedgerInv, Database, Sound
<1>2. calls[c].at # "ready"
  BY DEF Ask
<1>3. ASSUME NEW q, Asked(q, tables, minted), q.episode \notin purged, Prepare(c, q),
             Creates(q) => \A d \in Callers : calls[d].at = "ready" => calls[d].request.episode # q.episode
      PROVE  CallsOK(calls', tables, minted, purged)
  <2> DEFINE call == [at |-> "ready", request |-> q, height |-> 0]
  <2>1. CallOK(call, tables, minted, purged)
    BY <1>3, RequestShapes DEF CallOK
  <2>2. ASSUME NEW d \in Callers, calls[d].at = "ready", Creates(calls[d].request)
        PROVE  calls[d].request.episode # q.episode
    <3>1. Asked(calls[d].request, tables, minted)
      BY <1>1, <2>2 DEF CallsOK, CallOK
    <3>2. tables.rows[calls[d].request.episode].state = "absent"
      BY <2>2, <3>1, RequestShapes
    <3>3. CASE Creates(q)
      BY <1>3, <2>2, <3>3
    <3>4. CASE ~Creates(q)
      <4>1. tables.rows[q.episode].state # "absent"
        BY <1>3, <3>4, RequestShapes
      <4> QED BY <3>2, <4>1
    <3> QED BY <3>3, <3>4
  <2>3. call.request = q /\ calls' = [calls EXCEPT ![c] = call]
    BY <1>3 DEF Prepare
  <2> HIDE DEF call
  <2>4. \A d \in Callers : calls[d].at = "ready" =>
            /\ Creates(call.request) => calls[d].request.episode # call.request.episode
            /\ Creates(calls[d].request) => calls[d].request.episode # call.request.episode
    BY <1>3, <2>2, <2>3
  <2> QED BY <1>1, <1>2, <2>1, <2>3, <2>4, CallsBegin
<1>4. PICK e \in Episodes :
       \/ AskCreate(c, e) \/ AskFinalize(c, e)
       \/ AskIngest(c, e, None, None)
       \/ \E key \in Keys, print \in Prints : AskIngest(c, e, key, print)
       \/ \E task \in tables.rows[e].open : AskComplete(c, e, task)
  BY DEF Ask
<1>5. RowOK(tables.rows[e], minted)
  BY <1>1 DEF RowsOK
<1>6. tables.rows[e].state # "absent" => e \notin purged
  BY <1>1 DEF PurgedOK, AbsentEpisode
<1>7. CASE AskCreate(c, e)
  <2> DEFINE q == Request(e, << Draft("EPISODE_CREATED") >>, None, None, 0)
  <2>1. q \in Requests /\ Single(q, "EPISODE_CREATED") /\ q.episode = e /\ q.key = None
    BY SingleTyped DEF Kinds
  <2>2. e \notin purged /\ tables.rows[e].state = "absent" /\ Prepare(c, q)
        /\ \A d \in Callers : calls[d].at = "ready" => calls[d].request.episode # e
    BY <1>7 DEF AskCreate
  <2> HIDE DEF q
  <2>3. Asked(q, tables, minted)
    BY <2>1, <2>2 DEF Asked
  <2> QED BY <1>3, <2>1, <2>2, <2>3
<1>8. CASE AskFinalize(c, e)
  <2> DEFINE q == Request(e, << Draft("EPISODE_FINALIZED") >>, None, None, 0)
  <2>1. q \in Requests /\ Single(q, "EPISODE_FINALIZED") /\ q.episode = e /\ q.key = None
    BY SingleTyped DEF Kinds
  <2>2. tables.rows[e].state # "absent" /\ Prepare(c, q)
    BY <1>8 DEF AskFinalize
  <2> HIDE DEF q
  <2>3. Asked(q, tables, minted)
    BY <2>1, <2>2 DEF Asked
  <2>4. ~Creates(q)
    BY <2>1, <2>2, <2>3, RequestShapes
  <2> QED BY <1>3, <1>6, <2>1, <2>2, <2>3, <2>4
<1>9. ASSUME NEW key \in Keys \cup {None}, NEW print \in Prints \cup {None},
             AskIngest(c, e, key, print)
      PROVE  CallsOK(calls', tables, minted, purged)
  <2> DEFINE q == Request(e, << Draft("EVIDENCE_INGESTED") >>, key, print, 0)
  <2>1. q \in Requests /\ Single(q, "EVIDENCE_INGESTED") /\ q.episode = e
    BY SingleTyped DEF Kinds
  <2>2. tables.rows[e].state # "absent" /\ Prepare(c, q)
    BY <1>9 DEF AskIngest
  <2> HIDE DEF q
  <2>3. Asked(q, tables, minted)
    BY <2>1, <2>2 DEF Asked
  <2>4. ~Creates(q)
    BY <2>1, <2>2, <2>3, RequestShapes
  <2> QED BY <1>3, <1>6, <2>1, <2>2, <2>3, <2>4
<1>10. ASSUME NEW task \in tables.rows[e].open, AskComplete(c, e, task)
       PROVE  CallsOK(calls', tables, minted, purged)
  <2> DEFINE ds == << [kind |-> "VERIFICATION_TASK_COMPLETED", task |-> task],
                      Draft("SOURCE_STATS_DELTA") >>
             q == Request(e, ds, None, None, task)
  <2>1. tables.rows[e].state # "absent" /\ task \in 1..minted
    BY <1>5 DEF RowOK, AbsentEpisode
  <2>2. task \in Nat
    BY <1>1, <2>1
  <2>3. ds \in Seq([kind : Kinds, task : Nat])
    <3>1. /\ [kind |-> "VERIFICATION_TASK_COMPLETED", task |-> task] \in [kind : Kinds, task : Nat]
          /\ Draft("SOURCE_STATS_DELTA") \in [kind : Kinds, task : Nat]
      BY <2>2, DraftTyped DEF Draft, Kinds
    <3> QED BY <3>1
  <2>4. q \in Requests /\ q.episode = e /\ q.drafts = ds /\ q.key = None /\ q.task = task
    <3>1. None \in Keys \cup {None} /\ None \in Prints \cup {None}
      OBVIOUS
    <3> DEFINE D == [kind : Kinds, task : Nat]
    <3>2. ds \in Seq(D)
      BY <2>3
    <3> HIDE DEF ds
    <3> QED BY <2>2, <3>1, <3>2 DEF Request, Requests
  <2>5. Prepare(c, q)
    BY <1>10 DEF AskComplete
  <2> HIDE DEF q
  <2>6. Completion(q)
    BY <2>4 DEF Completion
  <2>7. Asked(q, tables, minted)
    BY <2>1, <2>4, <2>6 DEF Asked
  <2>8. ~Creates(q)
    BY <2>1, <2>4, <2>7, RequestShapes
  <2> QED BY <1>3, <1>6, <2>1, <2>4, <2>5, <2>7, <2>8
<1> QED BY <1>4, <1>7, <1>8, <1>9, <1>10

LEMMA AskKeeps == ASSUME LedgerInv, NEW c \in Callers, Ask(c) PROVE LedgerInv'
<1>1. /\ UNCHANGED <<events, tables, minted>>
      /\ UNCHANGED <<snapshots, anchors, purged, answered>>
  BY DEF Ask, log
<1>2. CallsOK(calls', tables', minted', purged')
  BY <1>1, AskKeepsCalls
<1> QED BY <1>1, <1>2 DEF LedgerInv

LEMMA ReadHeightKeeps == ASSUME LedgerInv, NEW c \in Callers, ReadHeight(c) PROVE LedgerInv'
<1>1. /\ UNCHANGED <<events, tables, minted>>
      /\ UNCHANGED <<snapshots, anchors, purged, answered>>
  BY DEF ReadHeight, log
<1> DEFINE call == [at |-> "capture", request |-> None, height |-> ChainHeight]
<1>2. CallOK(call, tables, minted, purged) /\ call.at # "ready"
  <2>1. ChainHeight \in Nat
    BY MaxSeqType DEF LedgerInv, Database, Sound, ChainHeight, IsMaxSeq
  <2> QED BY <2>1 DEF CallOK
<1>3. calls[c].at # "ready" /\ calls' = [calls EXCEPT ![c] = call]
  BY DEF ReadHeight
<1> HIDE DEF call
<1>4. CallsOK(calls', tables, minted, purged)
  BY <1>2, <1>3, CallsBegin DEF LedgerInv
<1> QED BY <1>1, <1>4 DEF LedgerInv

LEMMA StopKeeps == ASSUME LedgerInv, NEW c \in Callers, Stop(c) PROVE LedgerInv'
<1>1. /\ UNCHANGED <<events, tables, minted>>
      /\ UNCHANGED <<snapshots, anchors, purged, answered>>
  BY DEF Stop, log
<1>2. CallsOK(calls', tables, minted, purged)
  BY CallsReturn DEF LedgerInv, Stop, Return
<1> QED BY <1>1, <1>2 DEF LedgerInv

LEMMA PruneKeeps == ASSUME LedgerInv, NEW keep, PruneSnapshots(keep) PROVE LedgerInv'
<1>1. /\ UNCHANGED <<events, tables, minted>>
      /\ UNCHANGED <<anchors, calls, purged, answered>>
      /\ snapshots' \subseteq snapshots
  BY DEF PruneSnapshots, log
<1> QED BY <1>1 DEF LedgerInv, OnePerHeight

LEMMA CaptureKeeps == ASSUME LedgerInv, NEW c \in Callers, NEW version, Capture(c, version)
                      PROVE  LedgerInv'
<1> DEFINE s == [height |-> calls[c].height, version |-> version, tables |-> tables]
<1>1. /\ UNCHANGED <<events, tables, minted>>
      /\ UNCHANGED <<anchors, purged, answered>>
      /\ snapshots' = Kept(calls[c].height) \cup {s}
  BY DEF Capture, log
<1>2. CallsOK(calls', tables, minted, purged)
  BY CallsReturn DEF LedgerInv, Capture, Return
<1>3. SnapshotOK(s, events, tables, minted)
  <2>1. /\ Sound(events, tables, minted) /\ events \in Logs /\ tables \in Tables
        /\ Shaped(tables, minted) /\ calls[c].height \in Nat
    BY DatabaseShaped DEF LedgerInv, Database, Sound, CallsOK, CallOK, Capture
  <2>2. s.height = calls[c].height /\ s.tables = tables /\ ContentHeight(s) = MaxSeq(events)
    BY <2>1, ContentIsTop DEF ContentHeight
  <2> HIDE DEF s
  <2>3. ASSUME s.height = ContentHeight(s)
        PROVE  s.height =< MaxSeq(events) /\ Leads(s.tables, Above(events, s.height), tables)
    <3>1. s.height = MaxSeq(events) /\ s.height =< s.height
      BY <2>1, <2>2, <2>3
    <3> QED BY <2>1, <2>2, <3>1, AboveTop, LeadsNothing
  <2> QED BY <2>1, <2>2, <2>3 DEF SnapshotOK
<1>4. OnePerHeight(snapshots')
  BY <1>1 DEF LedgerInv, OnePerHeight, Kept
<1>5. \A r \in snapshots' : SnapshotOK(r, events, tables, minted)
  BY <1>1, <1>3 DEF LedgerInv, Kept
<1> QED BY <1>1, <1>2, <1>4, <1>5 DEF LedgerInv

\* A transaction that appends nothing: what was promised under the key is what the
\* caller is told.
LEMMA SubmitNothing ==
  ASSUME LedgerInv, NEW c \in Callers, Submit(c), UNCHANGED log,
         AnswerRepeated(calls[c].request) \/ AppendNothing(calls[c].request)
  PROVE  LedgerInv'
<1> DEFINE q == calls[c].request
<1>0. /\ UNCHANGED <<events, tables, minted>> /\ UNCHANGED <<snapshots, purged>>
      /\ anchors' = anchors \cup {ChainState(events)}
      /\ Return(c) \/ UNCHANGED calls
  BY DEF Submit, log, PublishAnchor
<1>1. /\ CallOK(calls[c], tables, minted, purged) /\ calls[c].at = "ready"
      /\ events \in Logs /\ Answering(events, tables) /\ AnsweredOK(answered, events, purged)
  BY DEF LedgerInv, CallsOK, Submit, Database, Sound
<1>2. q.episode \in Episodes \ purged /\ q.key \in Keys \cup {None}
  BY <1>1 DEF CallOK, Asked, Requests
<1>3. CallsOK(calls', tables, minted, purged)
  <2>1. CASE Return(c)
    BY <2>1, CallsReturn DEF LedgerInv, Return
  <2>2. CASE UNCHANGED calls
    BY <2>2 DEF LedgerInv
  <2> QED BY <1>0, <2>1, <2>2
<1>4. answered' = answered
  <2>1. CASE AppendNothing(q)
    BY <2>1 DEF AppendNothing
  <2>2. CASE AnswerRepeated(q) /\ q.key = None
    BY <2>2 DEF AnswerRepeated, Answer
  <2>3. CASE AnswerRepeated(q) /\ q.key # None
    <3> DEFINE a == answered[q.episode][q.key]
               first == FirstAnswer(q)
    <3>1. q.key \in Keys /\ first = Keyed(events, q.episode, q.key) /\ first # << >>
      BY <1>1, <1>2, <2>3 DEF AnswerRepeated, Repeated, FirstAnswer, Answering
    <3>2. a = {first}
      BY <1>1, <1>2, <3>1 DEF AnsweredOK
    <3>3. answered' = [answered EXCEPT ![q.episode][q.key] = a \cup {first}]
      BY <2>3 DEF AnswerRepeated, Answer
    <3>4. a \cup {first} = a
      BY <3>2
    <3>5. answered' = [answered EXCEPT ![q.episode][q.key] = a]
      BY <3>3, <3>4
    <3>6. answered = [e \in Episodes |-> [k \in Keys |-> answered[e][k]]]
      BY <1>1 DEF AnsweredOK
    <3>7. answered = [e \in Episodes |-> answered[e]] /\ answered[q.episode] = [k \in Keys |-> answered[q.episode][k]]
      BY <1>2, <3>6
    <3>8. [answered[q.episode] EXCEPT ![q.key] = a] = answered[q.episode]
      BY <3>1, <3>7
    <3>9. answered' = [answered EXCEPT ![q.episode] = answered[q.episode]]
      BY <3>5, <3>8
    <3> QED BY <3>7, <3>9
  <2> QED BY <2>1, <2>2, <2>3
<1>5. \A a \in anchors' : AnchorOK(a, events, purged)
  BY <1>0, <1>1, AnchorNew DEF LedgerInv
<1> QED BY <1>0, <1>3, <1>4, <1>5 DEF LedgerInv

LEMMA SubmitFresh ==
  ASSUME LedgerInv, NEW c \in Callers, Submit(c), AppendFresh(calls[c].request)
  PROVE  LedgerInv'
<1> DEFINE q == calls[c].request
           ids == Ids(Built(q))
           e == q.episode
<1>0. /\ UNCHANGED <<snapshots, purged>>
      /\ anchors' = anchors \cup {ChainState(events')}
      /\ Return(c) \/ (q.key # None /\ UNCHANGED calls)
      /\ calls[c].at = "ready" /\ Answer(q, ids) /\ ~Repeated(q)
  BY DEF Submit, PublishAnchor, AppendFresh
<1>1. /\ CallsOK(calls, tables, minted, purged) /\ CallOK(calls[c], tables, minted, purged)
      /\ Database(events, tables, minted) /\ Answering(events, tables)
      /\ AnsweredOK(answered, events, purged) /\ PurgedOK(events, tables, purged)
      /\ events \in Logs /\ minted \in Nat
  BY DEF LedgerInv, CallsOK, Database, Sound
<1>2. Asked(q, tables, minted) /\ e \in Episodes \ purged /\ q.key \in Keys \cup {None}
  BY <1>0, <1>1 DEF CallOK, Asked, Requests
<1>3. AppendsTo(events, tables, minted, q, ids, events', tables', minted')
  BY <1>1, <1>2, Appends
<1> HIDE DEF q, ids
<1>4. /\ Database(events', tables', minted') /\ minted =< minted'
      /\ Grown(events, tables, events', tables', e)
      /\ tables'.rows[e].state # "absent" /\ ids # << >>
      /\ q.key \in Keys => Keyed(events', e, q.key) = ids
      /\ \A f \in Episodes, k \in Keys :
           f # e \/ k # q.key => Keyed(events', f, k) = Keyed(events, f, k)
      /\ events' \in Logs /\ minted' \in Nat
  BY <1>3 DEF AppendsTo, Database, Sound
<1>5. PurgedOK(events', tables', purged')
  BY <1>0, <1>1, <1>2, <1>4 DEF PurgedOK, Grown
<1>6. CallsOK(calls', tables', minted', purged')
  <2>1. ASSUME NEW d \in Callers, calls[d].at = "ready", calls[d].request.episode = e => ~Creates(calls[d].request)
        PROVE  CallOK(calls[d], tables', minted', purged)
    <3>1. CallOK(calls[d], tables, minted, purged) /\ Asked(calls[d].request, tables, minted)
      BY <1>1, <2>1 DEF CallsOK, CallOK
    <3>2. Asked(calls[d].request, tables', minted')
      <4> DEFINE qd == calls[d].request
      <4>1. Asked(qd, tables, minted) /\ (qd.episode = e => ~Creates(qd))
        BY <2>1, <3>1
      <4> HIDE DEF qd, e
      <4>2. Asked(qd, tables', minted')
        BY <1>1, <1>4, <4>1, StillAsked
      <4> QED BY <4>2 DEF qd
    <3> QED BY <3>1, <3>2 DEF CallOK
  <2>2. ASSUME NEW d \in Callers, calls[d].at # "ready" PROVE CallOK(calls[d], tables', minted', purged)
    BY <1>1, <2>2 DEF CallsOK, CallOK
  <2>3. ASSUME NEW d \in Callers, d # c PROVE CallOK(calls[d], tables', minted', purged)
    <3>1. CASE calls[d].at = "ready"
      <4>1. Apart(calls, d, c)
        BY <1>1 DEF CallsOK
      <4>2. Creates(calls[d].request) => calls[d].request.episode # e
        BY <1>0, <2>3, <3>1, <4>1 DEF Apart, q
      <4> QED BY <2>1, <3>1, <4>2
    <3>2. CASE calls[d].at # "ready"
      BY <2>2, <3>2
    <3> QED BY <3>1, <3>2
  <2>4. CASE Return(c)
    <3>0. calls' = [calls EXCEPT ![c] = Idle] /\ calls = [d \in Callers |-> calls[d]]
      BY <1>1, <2>4 DEF Return, CallsOK
    <3>1. CallsOK(calls', tables, minted, purged)
      BY <1>1, <3>0, CallsReturn
    <3>2. \A d \in Callers : calls'[d] = IF d = c THEN Idle ELSE calls[d]
      BY <3>0
    <3>3. CallOK(Idle, tables', minted', purged)
      BY DEF CallOK, Idle
    <3>4. \A d \in Callers : CallOK(calls'[d], tables', minted', purged)
      BY <2>3, <3>2, <3>3
    <3> QED BY <1>0, <3>1, <3>4 DEF CallsOK
  <2>5. CASE q.key # None /\ UNCHANGED calls
    <3>1. ~Creates(q)
      BY <1>2, <2>5, RequestShapes
    <3>2. CallOK(calls[c], tables', minted', purged)
      BY <1>0, <2>1, <3>1 DEF q
    <3>3. \A d \in Callers : CallOK(calls[d], tables', minted', purged)
      BY <2>3, <3>2
    <3> QED BY <1>0, <1>1, <2>5, <3>3 DEF CallsOK
  <2> QED BY <1>0, <2>4, <2>5
<1>7. AnsweredOK(answered', events', purged')
  <2>0. answered = [f \in Episodes |-> [k \in Keys |-> answered[f][k]]]
    BY <1>1 DEF AnsweredOK
  <2>1. CASE q.key = None
    <3>1. answered' = answered
      BY <1>0, <2>1 DEF Answer
    <3>2. \A f \in Episodes, k \in Keys : Keyed(events', f, k) = Keyed(events, f, k)
      BY <1>4, <2>1, LedgerNoneAssumption
    <3> QED BY <1>0, <1>1, <3>1, <3>2 DEF AnsweredOK
  <2>2. CASE q.key # None
    <3> DEFINE b == answered'
    <3>0. q.key \in Keys /\ e \in Episodes
      BY <1>2, <2>2
    <3>1. answered' = [answered EXCEPT ![e][q.key] = @ \cup {ids}]
      BY <1>0, <2>2 DEF Answer
    <3>2. answered[e][q.key] = {}
      <4>1. Keyed(events, e, q.key) = << >>
        BY <1>0, <1>1, <2>2, <3>0 DEF Repeated, FirstAnswer, Answering
      <4> QED BY <1>1, <1>2, <3>0, <4>1 DEF AnsweredOK
    <3>3. answered'[e][q.key] = {ids} /\ answered' = [f \in Episodes |-> [k \in Keys |-> answered'[f][k]]]
      BY <2>0, <3>0, <3>1, <3>2
    <3>4. \A f \in Episodes, k \in Keys : f # e \/ k # q.key => answered'[f][k] = answered[f][k]
      BY <2>0, <3>0, <3>1
    <3>5. ASSUME NEW f \in Episodes, NEW k \in Keys
          PROVE  /\ \E i : answered'[f][k] \subseteq {i}
                 /\ f \notin purged => answered'[f][k] = {Keyed(events', f, k)} \ {<< >>}
      <4>1. CASE f = e /\ k = q.key
        <5>1. answered'[f][k] = {ids} /\ Keyed(events', f, k) = ids
          BY <1>4, <3>3, <4>1
        <5> QED BY <1>4, <5>1
      <4>2. CASE ~(f = e /\ k = q.key)
        <5>1. answered'[f][k] = answered[f][k] /\ Keyed(events', f, k) = Keyed(events, f, k)
          BY <1>4, <3>4, <4>2
        <5> QED BY <1>1, <5>1 DEF AnsweredOK
      <4> QED BY <4>1, <4>2
    <3> QED BY <1>0, <3>3, <3>5 DEF AnsweredOK
  <2> QED BY <2>1, <2>2
<1>8. \A a \in anchors' : AnchorOK(a, events', purged')
  <2>1. \A a \in anchors : AnchorOK(a, events', purged)
    BY <1>1, <1>4, AnchorGrows DEF LedgerInv
  <2> QED BY <1>0, <1>4, <2>1, AnchorNew
<1>9. \A s \in snapshots' : SnapshotOK(s, events', tables', minted')
  <2> SUFFICES ASSUME NEW s \in snapshots PROVE SnapshotOK(s, events', tables', minted')
    BY <1>0
  <2>1. SnapshotOK(s, events, tables, minted)
    BY DEF LedgerInv
  <2>2. s.height \in Nat /\ Shaped(s.tables, minted')
    BY <1>1, <1>4, <2>1, ShapedStays DEF SnapshotOK
  <2>3. ASSUME s.height = ContentHeight(s)
        PROVE  s.height =< MaxSeq(events') /\ Leads(s.tables, Above(events', s.height), tables')
    <3>1. s.height =< MaxSeq(events) /\ Leads(s.tables, Above(events, s.height), tables)
      BY <2>1, <2>3 DEF SnapshotOK
    <3>2. MaxSeq(events) \in Nat /\ MaxSeq(events') \in Nat /\ MaxSeq(events) =< MaxSeq(events')
      BY <1>1, <1>4, MaxSeqType DEF Grown, IsMaxSeq
    <3>3. s.height =< MaxSeq(events')
      BY <2>2, <3>1, <3>2
    <3> QED BY <1>4, <2>2, <3>1, <3>3 DEF Grown
  <2> QED BY <2>2, <2>3 DEF SnapshotOK
<1>10. OnePerHeight(snapshots')
  BY <1>0 DEF LedgerInv
<1> QED BY <1>4, <1>5, <1>6, <1>7, <1>8, <1>9, <1>10 DEF LedgerInv

LEMMA SubmitKeeps == ASSUME LedgerInv, NEW c \in Callers, Submit(c) PROVE LedgerInv'
<1> DEFINE q == calls[c].request
<1>1. AppendFresh(q) \/ AnswerRepeated(q) \/ AppendNothing(q)
  BY DEF Submit
<1>2. AnswerRepeated(q) \/ AppendNothing(q) => UNCHANGED log
  BY DEF AnswerRepeated, AppendNothing
<1> QED BY <1>1, <1>2, SubmitFresh, SubmitNothing

LEMMA PurgeKeeps == ASSUME LedgerInv, NEW e \in Episodes, PurgeEpisode(e) PROVE LedgerInv'
<1> DEFINE own == Only(events, Others(e))
           u == ApplyAll(EmptyTables, own)
<1>0. /\ Sound(events, tables, minted) /\ RowsOK(tables, minted) /\ Answering(events, tables)
      /\ events \in Logs /\ tables \in Tables /\ minted \in Nat
      /\ Entries(events) \subseteq EventRecords
  BY DEF LedgerInv, Database, Sound, Entries, Logs
<1>1. Only(events, {x \in Entries(events) : x.episode # e}) = own
  <2>1. {x \in Entries(events) : x.episode # e} \cap Entries(events) = Others(e) \cap Entries(events)
    BY <1>0 DEF Others
  <2> QED BY <1>0, <2>1, LogOnlyAgree
<1>2. /\ events' = own /\ tables' = FullReplay(own) /\ snapshots' = {} /\ purged' = purged \cup {e}
      /\ UNCHANGED <<minted, anchors, calls, answered>>
      /\ \A c \in Callers : calls[c].at = "idle"
  BY <1>1 DEF PurgeEpisode, Replacement
<1>3. Sound(own, u, minted) /\ Without(tables, e, u) /\ Entries(own) = Entries(events) \cap Others(e)
  BY <1>0, SoundWithout
<1> HIDE DEF own, u
<1>4. own \in Logs /\ u \in Tables /\ Numbered(own, minted)
  BY <1>3 DEF Sound
<1>5. tables' = [rows |-> u.rows, heads |-> u.heads, answers |-> KeyTable(own)]
  BY <1>2, <1>4, FullReplayIs DEF u
<1>6. KeyTable(own) \in [Episodes -> [Keys -> Seq(Nat)]]
  <2>1. ASSUME NEW f \in Episodes, NEW k \in Keys PROVE Keyed(own, f, k) \in Seq(Nat)
    <3>1. Keyed(own, f, k) \in Seq(1..minted)
      BY <1>0, <1>4, KeyedType
    <3>2. Seq(1..minted) \subseteq Seq(Nat)
      <4> DEFINE A == 1..minted
      <4>1. A \subseteq Nat
        BY <1>0
      <4> HIDE DEF A
      <4>2. ASSUME NEW s \in Seq(A) PROVE s \in Seq(Nat)
        <5>1. Len(s) \in Nat /\ s = [i \in 1..Len(s) |-> s[i]] /\ \A i \in 1..Len(s) : s[i] \in A
          OBVIOUS
        <5> QED BY <4>1, <5>1
      <4> QED BY <4>2 DEF A
    <3> QED BY <3>1, <3>2
  <2> DEFINE B == Seq(Nat)
  <2>2. \A f \in Episodes, k \in Keys : Keyed(own, f, k) \in B
    BY <2>1
  <2> HIDE DEF B
  <2>3. KeyTable(own) \in [Episodes -> [Keys -> B]]
    BY <2>2 DEF KeyTable
  <2> QED BY <2>3 DEF B
<1>7. tables' \in Tables /\ SameProjections(u, tables') /\ tables'.answers = KeyTable(own)
  <2> DEFINE K == KeyTable(own)
  <2>1. /\ u.rows \in [Episodes -> EpisodeRows] /\ u.heads \in [Episodes -> [seq : Nat, id : Nat]]
        /\ K \in [Episodes -> [Keys -> Seq(Nat)]] /\ tables' = [rows |-> u.rows, heads |-> u.heads, answers |-> K]
    BY <1>4, <1>5, <1>6 DEF Tables
  <2> HIDE DEF K
  <2> QED BY <2>1 DEF Tables, SameProjections, K
<1>8. Sound(own, tables', minted)
  BY <1>3, <1>7, SoundSame
<1>9. /\ tables'.rows[e] = AbsentEpisode
      /\ \A f \in Episodes : f # e => tables'.rows[f] = tables.rows[f]
  <2>1. DOMAIN tables.rows = Episodes
    BY <1>0 DEF Tables
  <2> QED BY <1>3, <1>7, <2>1 DEF Without, SameProjections
<1>10. RowsOK(tables', minted)
  BY <1>0, <1>9, RowAbsent DEF RowsOK
<1>11. Answering(own, tables')
  BY <1>7 DEF Answering, KeyTable
<1>12. Database(events', tables', minted')
  BY <1>2, <1>8, <1>10, <1>11 DEF Database
<1>13. PurgedOK(events', tables', purged')
  <2>1. PurgedOK(events, tables, purged)
    BY DEF LedgerInv
  <2> QED BY <1>2, <1>3, <1>9, <2>1 DEF PurgedOK, Others
<1>14. CallsOK(calls', tables', minted', purged')
  <2>1. CallsOK(calls, tables, minted, purged)
    BY DEF LedgerInv
  <2> QED BY <1>2, <2>1 DEF CallsOK, CallOK, Apart
<1>15. AnsweredOK(answered', events', purged')
  <2>1. AnsweredOK(answered, events, purged)
    BY DEF LedgerInv
  <2>2. ASSUME NEW f \in Episodes, NEW k \in Keys, f \notin purged \cup {e}
        PROVE  Keyed(own, f, k) = Keyed(events, f, k)
    BY <1>0, <2>2, KeyedWithout DEF own
  <2>3. ASSUME NEW f \in Episodes, NEW k \in Keys
        PROVE  /\ \E ids : answered[f][k] \subseteq {ids}
               /\ f \notin purged \cup {e} => answered[f][k] = {Keyed(own, f, k)} \ {<< >>}
    BY <2>1, <2>2 DEF AnsweredOK
  <2>4. answered = [f \in Episodes |-> [k \in Keys |-> answered[f][k]]]
    BY <2>1 DEF AnsweredOK
  <2> QED BY <1>2, <2>3, <2>4 DEF AnsweredOK
<1>16. \A a \in anchors' : AnchorOK(a, events', purged')
  BY <1>0, <1>2, AnchorPurge DEF LedgerInv, own
<1> QED BY <1>2, <1>12, <1>13, <1>14, <1>15, <1>16 DEF LedgerInv, OnePerHeight

\* Every step keeps the invariant, and so every reachable state has it.
THEOREM LedgerInvariant == Spec => []LedgerInv
<1>1. LedgerInv /\ [Next]_vars => LedgerInv'
  <2> SUFFICES ASSUME LedgerInv, [Next]_vars PROVE LedgerInv'
    OBVIOUS
  <2>1. ASSUME NEW c \in Callers, Ask(c) \/ Submit(c) \/ ReadHeight(c) \/ Stop(c) PROVE LedgerInv'
    BY <2>1, AskKeeps, SubmitKeeps, ReadHeightKeeps, StopKeeps
  <2>2. ASSUME NEW c \in Callers, NEW version \in Versions, Capture(c, version) PROVE LedgerInv'
    BY <2>2, CaptureKeeps
  <2>3. ASSUME NEW keep \in 0..MaxSnapshots, PruneSnapshots(keep) PROVE LedgerInv'
    BY <2>3, PruneKeeps
  <2>4. ASSUME NEW e \in Episodes, PurgeEpisode(e) PROVE LedgerInv'
    BY <2>4, PurgeKeeps
  <2>5. CASE UNCHANGED vars
    BY <2>5 DEF vars, LedgerInv
  <2> QED BY <2>1, <2>2, <2>3, <2>4, <2>5 DEF Next
<1> QED BY LedgerFirst, <1>1, PTL DEF Spec

-----------------------------------------------------------------------------
(* What the store promises.                                                *)

\* Tables keep their shape: no handler of apply_event ever raises inside append_events
\* or in a replay, ids are ids that were handed out, and create_snapshot leaves one
\* snapshot per height.
THEOREM TablesKeepShape == Spec => []LedgerTypeOK
<1>1. LedgerInv => LedgerTypeOK
  <2> SUFFICES ASSUME LedgerInv PROVE LedgerTypeOK
    OBVIOUS
  <2>1. ASSUME NEW t, Shaped(t, minted) PROVE TablesOK(t)
    <3>1. ASSUME NEW e \in Episodes PROVE t.rows[e] \in Row
      BY <2>1 DEF Shaped, RowOK, EpisodeRows, Row, IdSets
    <3> QED BY <2>1, <3>1 DEF Shaped, TablesOK
  <2>2. TablesOK(tables)
    BY <2>1, DatabaseShaped DEF LedgerInv
  <2>3. \A s \in snapshots : TablesOK(s.tables)
    BY <2>1 DEF LedgerInv, SnapshotOK
  <2> QED BY <2>2, <2>3 DEF LedgerTypeOK, LedgerInv, OnePerHeight, CallsOK, CallOK
<1> QED BY LedgerInvariant, <1>1, PTL

\* The chain that verify_hash_chain walks is never broken: not by concurrent appends,
\* and not by a purge, which drops events and leaves the numbers of the others.
THEOREM ChainStaysIntact == Spec => []ChainIntact
<1>1. LedgerInv => ChainIntact
  <2> SUFFICES ASSUME LedgerInv PROVE ChainIntact
    OBVIOUS
  <2>1. /\ events \in Logs /\ Increasing(events) /\ Chained(events) /\ HeadsNamed(events, tables)
        /\ tables \in Tables
    BY DEF LedgerInv, Database, Sound
  <2>2. ASSUME NEW i \in DOMAIN events
        PROVE  events[i].prev = HeadsAt(events, events[i].seq - 1)[events[i].episode].id
    BY <2>1 DEF Chained, Entries
  <2>3. tables.heads = HeadsAt(events, ChainHeight)
    <3>1. HeadsAt(events, ChainHeight) = [e \in Episodes |-> HeadOf({x \in Entries(events) : x.episode = e})]
      BY <2>1, HeadsAtTop DEF ChainHeight
    <3>2. tables.heads = [e \in Episodes |-> tables.heads[e]]
      BY <2>1 DEF Tables
    <3> QED BY <2>1, <3>1, <3>2 DEF HeadsNamed
  <2> QED BY <2>1, <2>2, <2>3 DEF ChainIntact, Increasing
<1> QED BY LedgerInvariant, <1>1, PTL

\* replay() from origin gives back every table, whatever was appended, retried, refused
\* or purged before.
THEOREM ReplayIsExact == Spec => []ReplayReproducesTables
<1>1. LedgerInv => ReplayReproducesTables
  BY ReplaysToTables DEF LedgerInv, Database, ReplayReproducesTables
<1> QED BY LedgerInvariant, <1>1, PTL

\* However many callers complete one task, require_open_verification_task_id lets one
\* of them through and the source gets one sample.
THEOREM OutcomesCountOnce == Spec => []OutcomeCountedOnce
<1>1. LedgerInv => OutcomeCountedOnce
  BY DEF LedgerInv, Database, RowsOK, Counted, OutcomeCountedOnce
<1> QED BY LedgerInvariant, <1>1, PTL

\* Every answer given under one idempotency key is the first one, and its batch is in
\* the log once, until the episode is purged.
THEOREM RetriesAreAnswered == Spec => []RetriesGetFirstAnswer
<1>1. LedgerInv => RetriesGetFirstAnswer
  <2> SUFFICES ASSUME LedgerInv, NEW e \in Episodes, NEW k \in Keys
               PROVE  /\ Cardinality(answered[e][k]) =< 1
                      /\ e \notin purged => answered[e][k] = {Keyed(events, e, k)} \ {<< >>}
    BY DEF RetriesGetFirstAnswer
  <2>1. /\ \E ids : answered[e][k] \subseteq {ids}
        /\ e \notin purged => answered[e][k] = {Keyed(events, e, k)} \ {<< >>}
    BY DEF LedgerInv, AnsweredOK
  <2>2. PICK ids : answered[e][k] \subseteq {ids}
    BY <2>1
  <2>3. answered[e][k] = {} \/ answered[e][k] = {ids}
    BY <2>2
  <2>4. Cardinality(answered[e][k]) =< 1
    <3>1. Cardinality({}) = 0 /\ Cardinality({ids}) = 1
      BY FS_EmptySet, FS_Singleton
    <3> QED BY <2>3, <3>1
  <2> QED BY <2>1, <2>4
<1> QED BY LedgerInvariant, <1>1, PTL

\* replay(from_snapshot=True) of a snapshot nobody raced gives back every projection but
\* the idempotency keys, however much was appended since.
THEOREM QuietSnapshotsReplay == Spec => []QuietSnapshotReplays
<1>1. LedgerInv => QuietSnapshotReplays
  <2> SUFFICES ASSUME LedgerInv, NEW s \in snapshots, s.height = ContentHeight(s)
               PROVE  LET t == AcceleratedReplay(events, s)
                      IN  t # None /\ [t EXCEPT !.answers = tables.answers] = tables
    BY DEF QuietSnapshotReplays
  <2> DEFINE t == AcceleratedReplay(events, s)
  <2>1. Leads(s.tables, Above(events, s.height), tables) /\ tables \in Tables
    BY DEF LedgerInv, SnapshotOK, Database, Sound
  <2>2. t \in Tables /\ t.rows = tables.rows /\ t.heads = tables.heads
    BY <2>1 DEF AcceleratedReplay, Leads, SameProjections
  <2> HIDE DEF t
  <2>3. /\ t = [rows |-> t.rows, heads |-> t.heads, answers |-> t.answers]
        /\ tables = [rows |-> tables.rows, heads |-> tables.heads, answers |-> tables.answers]
    BY <2>1, <2>2 DEF Tables
  <2>4. [t EXCEPT !.answers = tables.answers] = tables
    BY <2>2, <2>3
  <2> QED BY <2>2, <2>4, LedgerNoneAssumption DEF t
<1> QED BY LedgerInvariant, <1>1, PTL

\* compare_against_anchors reports a match for a record exactly when no episode the
\* record covers was purged.
THEOREM AnchorsAreJudged == Spec => []AnchorVerdicts
<1>1. LedgerInv => AnchorVerdicts
  <2> SUFFICES ASSUME LedgerInv, NEW a \in anchors
               PROVE  Comparison(a) = "match" <=> Uncovered(a, purged)
    BY DEF AnchorVerdicts, Uncovered
  <2>0. /\ events \in Logs /\ AnchorOK(a, events, purged) /\ PurgedOK(events, tables, purged)
        /\ a.height \in Nat /\ ChainHeight \in Nat
    BY MaxSeqType DEF LedgerInv, Database, Sound, AnchorOK, ChainHeight, IsMaxSeq
  <2>1. ASSUME Uncovered(a, purged) PROVE Comparison(a) = "match"
    <3>1. a.height =< ChainHeight /\ HeadsAt(events, a.height) = a.heads
      BY <2>0, <2>1, AnchorReached DEF AnchorOK, ChainHeight
    <3>2. ~(a.height > ChainHeight)
      BY <2>0, <3>1
    <3> QED BY <3>1, <3>2 DEF Comparison
  <2>2. ASSUME Comparison(a) = "match" PROVE Uncovered(a, purged)
    <3>1. HeadsAt(events, a.height) = a.heads
      <4> SUFFICES ASSUME HeadsAt(events, a.height) # a.heads PROVE FALSE
        OBVIOUS
      <4>1. Comparison(a) \in {"unreachable", "mismatch"}
        BY DEF Comparison
      <4> QED BY <2>2, <4>1
    <3>2. ASSUME NEW e \in purged PROVE a.heads[e] = NoHead
      <4>1. e \in Episodes /\ \A x \in Entries(events) : x.episode # e
        BY <2>0 DEF PurgedOK
      <4>2. {x \in Entries(events) : x.episode = e /\ x.seq =< a.height} = {}
        BY <4>1
      <4>3. HeadsAt(events, a.height)[e] = HeadOf({})
        BY <4>1, <4>2 DEF HeadsAt
      <4> QED BY <3>1, <4>3, HeadOfNone
    <3> QED BY <3>2 DEF Uncovered
  <2> QED BY <2>1, <2>2
<1> QED BY LedgerInvariant, <1>1, PTL
=============================================================================
