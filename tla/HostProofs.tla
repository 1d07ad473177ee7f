----------------------------- MODULE HostProofs -----------------------------
(***************************************************************************)
(* Theorems about PluginRuntime and LlmBudget: any number of callback      *)
(* threads, episodes, sessions and turns, caches of any size, and any      *)
(* budget.                                                                 *)
(***************************************************************************)
EXTENDS PluginRuntime, SelectionProofs, FiniteSetTheorems

-----------------------------------------------------------------------------
(* Scripts.  The steps of a callback follow one another as these pairs     *)
(* say, and end as they say; the maintenance thread has a script of its    *)
(* own.                                                                    *)

Steps ==
  {"resolve", "create", "remember", "mark", "reload", "count", "append", "lock", "enter", "leave",
   "gate", "answer", "promote", "schedule", "start", "component", "inject", "check", "lint", "entail",
   "enforce", "rewrite", "relint", "record", "archive", "forget", "pop", "active"}

CallbackPairs ==
  {"resolve", "create"} \X {"remember", "lock", "promote", "check", "archive"}
    \cup {<<"remember", "mark">>, <<"mark", "lock">>, <<"reload", "count">>, <<"count", "append">>,
          <<"append", "lock">>, <<"lock", "enter">>, <<"enter", "leave">>, <<"leave", "gate">>,
          <<"gate", "answer">>, <<"leave", "inject">>, <<"promote", "lock">>, <<"schedule", "lock">>,
          <<"start", "lock">>, <<"component", "lock">>, <<"component", "entail">>,
          <<"component", "rewrite">>, <<"entail", "enforce">>, <<"check", "lint">>,
          <<"archive", "forget">>}
CallbackEnds == {"leave", "answer", "inject", "forget", "lint", "enforce", "record", "relint", "rewrite"}

MaintenancePairs == {<<"component", "lock">>, <<"lock", "enter">>, <<"enter", "leave">>, <<"leave", "pop">>}
MaintenanceEnds == {"pop", "active"}

Shape(s, pairs, ends) ==
  /\ s \in Seq(Steps)
  /\ \A i \in 1..Len(s) - 1 : <<s[i], s[i + 1]>> \in pairs
  /\ s # << >> => s[Len(s)] \in ends

PairsOf(h) == IF h = Drainer THEN MaintenancePairs ELSE CallbackPairs
EndsOf(h) == IF h = Drainer THEN MaintenanceEnds ELSE CallbackEnds
ShapeOf(h, s) == Shape(s, PairsOf(h), EndsOf(h))

LEMMA ShapeTail ==
  ASSUME NEW pairs, NEW ends, NEW s, Shape(s, pairs, ends), s # << >>
  PROVE  /\ Shape(Tail(s), pairs, ends)
         /\ Tail(s) = << >> => Head(s) \in ends
         /\ Tail(s) # << >> => <<Head(s), Head(Tail(s))>> \in pairs
<1> DEFINE t == Tail(s)
<1>1. /\ s \in Seq(Steps) /\ Len(s) \in Nat \ {0} /\ t \in Seq(Steps) /\ Len(t) = Len(s) - 1
      /\ \A i \in 1..Len(t) : t[i] = s[i + 1]
      /\ Head(s) = s[1]
  BY DEF Shape
<1> HIDE DEF t
<1>0. (t # << >> => Head(t) = t[1] /\ Len(t) # 0) /\ (t = << >> => Len(t) = 0)
  BY <1>1
<1>2. \A i \in 1..Len(t) - 1 : <<t[i], t[i + 1]>> \in pairs
  <2> SUFFICES ASSUME NEW i \in 1..Len(t) - 1 PROVE <<t[i], t[i + 1]>> \in pairs
    OBVIOUS
  <2>1. i + 1 \in 1..Len(s) - 1 /\ t[i] = s[i + 1] /\ t[i + 1] = s[(i + 1) + 1]
    BY <1>1
  <2> QED BY <2>1 DEF Shape
<1>3. t # << >> => t[Len(t)] \in ends
  <2> SUFFICES ASSUME t # << >> PROVE t[Len(t)] \in ends
    OBVIOUS
  <2>1. Len(t) \in 1..Len(t) /\ Len(t) + 1 = Len(s)
    BY <1>0, <1>1
  <2> QED BY <1>1, <2>1 DEF Shape
<1>4. Shape(t, pairs, ends)
  BY <1>1, <1>2, <1>3 DEF Shape
<1>5. t = << >> => Head(s) \in ends
  <2> SUFFICES ASSUME t = << >> PROVE Head(s) \in ends
    OBVIOUS
  <2>1. Len(s) = 1
    BY <1>0, <1>1
  <2>2. s[Len(s)] \in ends
    BY DEF Shape
  <2> QED BY <1>1, <2>1, <2>2
<1>6. t # << >> => <<Head(s), Head(t)>> \in pairs
  <2> SUFFICES ASSUME t # << >> PROVE <<Head(s), Head(t)>> \in pairs
    OBVIOUS
  <2>1. 1 \in 1..Len(s) - 1 /\ t[1] = s[1 + 1]
    BY <1>0, <1>1
  <2> QED BY <1>0, <1>1, <2>1 DEF Shape
<1> QED BY <1>4, <1>5, <1>6 DEF t

LEMMA TupleTypes ==
  ASSUME NEW T
  PROVE  /\ \A x \in T : <<x>> \in Seq(T)
         /\ \A x, y \in T : <<x, y>> \in Seq(T)
         /\ \A x, y, z \in T : <<x, y, z>> \in Seq(T)
         /\ \A x, y, z, u \in T : <<x, y, z, u>> \in Seq(T)
<1>1. ASSUME NEW x \in T PROVE <<x>> \in Seq(T)
  OBVIOUS
<1>2. ASSUME NEW x \in T, NEW y \in T PROVE <<x, y>> \in Seq(T)
  OBVIOUS
<1>3. ASSUME NEW x \in T, NEW y \in T, NEW z \in T PROVE <<x, y, z>> \in Seq(T)
  OBVIOUS
<1>4. ASSUME NEW x \in T, NEW y \in T, NEW z \in T, NEW u \in T PROVE <<x, y, z, u>> \in Seq(T)
  OBVIOUS
<1> QED BY <1>1, <1>2, <1>3, <1>4

LEMMA FirstEntry ==
  ASSUME NEW T, NEW s \in Seq(T), Len(s) # 0
  PROVE  Head(s) = s[1]
OBVIOUS

LEMMA NotEmpty ==
  ASSUME NEW T, NEW s \in Seq(T)
  PROVE  s # << >> <=> Len(s) # 0
OBVIOUS

LEMMA Joined ==
  ASSUME NEW T, NEW p \in Seq(T), NEW s \in Seq(T)
  PROVE  /\ p \o s \in Seq(T) /\ Len(p \o s) = Len(p) + Len(s)
OBVIOUS

LEMMA JoinedFront ==
  ASSUME NEW T, NEW p \in Seq(T), NEW s \in Seq(T), NEW i \in 1..Len(p)
  PROVE  (p \o s)[i] = p[i]
OBVIOUS

LEMMA JoinedBack ==
  ASSUME NEW T, NEW p \in Seq(T), NEW s \in Seq(T), NEW i \in 1..Len(s)
  PROVE  (p \o s)[Len(p) + i] = s[i]
OBVIOUS

\* Steps put before a script.
Linked(p, pairs) == \A i \in 1..Len(p) - 1 : <<p[i], p[i + 1]>> \in pairs

LEMMA ShapePut ==
  ASSUME NEW pairs, NEW ends, NEW s, Shape(s, pairs, ends), s # << >>,
         NEW p \in Seq(Steps), Len(p) # 0, Linked(p, pairs), <<p[Len(p)], Head(s)>> \in pairs
  PROVE  Shape(p \o s, pairs, ends) /\ p \o s # << >> /\ Head(p \o s) = p[1]
<1> DEFINE t == p \o s
           n == Len(p)
<1>1. /\ s \in Seq(Steps) /\ Len(s) \in Nat /\ Len(s) # 0 /\ n \in Nat /\ n # 0
  BY NotEmpty DEF Shape
<1>2. Head(s) = s[1]
  BY <1>1, FirstEntry
<1>3. t \in Seq(Steps) /\ Len(t) = n + Len(s)
  BY <1>1, Joined
<1>4. \A i \in 1..n : t[i] = p[i]
  BY <1>1, JoinedFront
<1>5. \A i \in 1..Len(s) : t[n + i] = s[i]
  BY <1>1, JoinedBack
<1> HIDE DEF t, n
<1>6. Len(t) # 0
  BY <1>1, <1>3
<1>7. t # << >>
  BY <1>3, <1>6, NotEmpty
<1>8. Head(t) = p[1]
  <2>1. 1 \in 1..n
    BY <1>1
  <2> QED BY <1>3, <1>4, <1>6, <2>1, FirstEntry
<1>9. ASSUME NEW i \in 1..Len(t) - 1 PROVE <<t[i], t[i + 1]>> \in pairs
  <2>1. CASE i < n
    <3>1. i \in 1..n - 1 /\ i \in 1..n /\ i + 1 \in 1..n
      BY <1>1, <1>3, <2>1
    <3>2. t[i] = p[i] /\ t[i + 1] = p[i + 1]
      BY <1>4, <3>1
    <3> QED BY <3>1, <3>2 DEF Linked, n
  <2>2. CASE i = n
    <3>1. n \in 1..n /\ 1 \in 1..Len(s)
      BY <1>1
    <3>2. t[i] = p[n] /\ t[i + 1] = s[1]
      BY <1>4, <1>5, <2>2, <3>1
    <3> QED BY <1>2, <3>2 DEF n
  <2>3. CASE i > n
    <3>1. i - n \in 1..Len(s) - 1 /\ i - n \in 1..Len(s) /\ (i - n) + 1 \in 1..Len(s)
          /\ n + (i - n) = i /\ n + ((i - n) + 1) = i + 1
      BY <1>1, <1>3, <2>3
    <3>2. t[i] = s[i - n] /\ t[i + 1] = s[(i - n) + 1]
      BY <1>5, <3>1
    <3> QED BY <3>1, <3>2 DEF Shape
  <2> QED BY <1>1, <1>3, <2>1, <2>2, <2>3
<1>10. t[Len(t)] \in ends
  <2>1. Len(s) \in 1..Len(s)
    BY <1>1
  <2>2. t[n + Len(s)] = s[Len(s)]
    BY <1>5, <2>1
  <2> QED BY <1>3, <2>2 DEF Shape
<1>11. Shape(t, pairs, ends)
  BY <1>3, <1>9, <1>10 DEF Shape
<1> QED BY <1>7, <1>8, <1>11 DEF t

LEMMA Starts ==
  ASSUME NEW s \in Seq(Steps), Len(s) # 0
  PROVE  Head(s) = s[1] /\ s # << >>
<1>1. Head(s) = s[1]
  BY FirstEntry
<1>2. s # << >>
  BY NotEmpty
<1> QED BY <1>1, <1>2

LEMMA ShapeNone == ASSUME NEW pairs, NEW ends PROVE Shape(<< >>, pairs, ends)
BY DEF Shape

LEMMA ShapeOne ==
  ASSUME NEW pairs, NEW ends, NEW x \in Steps, x \in ends
  PROVE  Shape(<<x>>, pairs, ends) /\ <<x>> # << >> /\ Head(<<x>>) = x
<1> DEFINE s == <<x>>
<1>1. s \in Seq(Steps)
  BY TupleTypes
<1>2. Len(s) = 1 /\ s[1] = x
  OBVIOUS
<1> HIDE DEF s
<1>3. Head(s) = x /\ s # << >>
  <2>1. Len(s) # 0
    BY <1>2
  <2> QED BY <1>1, <1>2, <2>1, Starts
<1>4. Shape(s, pairs, ends)
  <2>1. \A i \in 1..Len(s) - 1 : FALSE
    BY <1>2
  <2>2. s[Len(s)] \in ends
    BY <1>2
  <2> QED BY <1>1, <2>1, <2>2 DEF Shape
<1> QED BY <1>3, <1>4 DEF s

LEMMA ShapeTwo ==
  ASSUME NEW pairs, NEW ends, NEW x \in Steps, NEW y \in Steps, <<x, y>> \in pairs, y \in ends
  PROVE  Shape(<<x, y>>, pairs, ends) /\ <<x, y>> # << >> /\ Head(<<x, y>>) = x
<1> DEFINE s == <<x, y>>
<1>1. s \in Seq(Steps)
  BY TupleTypes
<1>2. Len(s) = 2 /\ s[1] = x /\ s[2] = y
  OBVIOUS
<1> HIDE DEF s
<1>3. Head(s) = x /\ s # << >>
  <2>1. Len(s) # 0
    BY <1>2
  <2> QED BY <1>1, <1>2, <2>1, Starts
<1>4. ASSUME NEW i \in 1..Len(s) - 1 PROVE <<s[i], s[i + 1]>> \in pairs
  <2>1. i = 1 /\ i + 1 = 2
    BY <1>2
  <2> QED BY <1>2, <2>1
<1>5. Shape(s, pairs, ends)
  BY <1>1, <1>2, <1>4 DEF Shape
<1> QED BY <1>3, <1>5 DEF s

LEMMA ShapeThree ==
  ASSUME NEW pairs, NEW ends, NEW x \in Steps, NEW y \in Steps, NEW z \in Steps,
         <<x, y>> \in pairs, <<y, z>> \in pairs, z \in ends
  PROVE  Shape(<<x, y, z>>, pairs, ends) /\ <<x, y, z>> # << >> /\ Head(<<x, y, z>>) = x
<1> DEFINE s == <<x, y, z>>
<1>1. s \in Seq(Steps)
  BY TupleTypes
<1>2. Len(s) = 3 /\ s[1] = x /\ s[2] = y /\ s[3] = z
  OBVIOUS
<1> HIDE DEF s
<1>3. Head(s) = x /\ s # << >>
  <2>1. Len(s) # 0
    BY <1>2
  <2> QED BY <1>1, <1>2, <2>1, Starts
<1>4. ASSUME NEW i \in 1..Len(s) - 1 PROVE <<s[i], s[i + 1]>> \in pairs
  <2>1. (i = 1 /\ i + 1 = 2) \/ (i = 2 /\ i + 1 = 3)
    BY <1>2
  <2> QED BY <1>2, <2>1
<1>5. Shape(s, pairs, ends)
  BY <1>1, <1>2, <1>4 DEF Shape
<1> QED BY <1>3, <1>5 DEF s

-----------------------------------------------------------------------------
(* Threads: where each is in its script.                                   *)

Fields == {"script", "hook", "session", "marker", "ep", "num", "lock", "warned", "text", "annotated",
           "helped", "open", "snap", "seen", "answer"}

At(h) == IF th[h].script = << >> THEN "rest" ELSE Head(th[h].script)

HooksOf(h) == IF h = Drainer THEN {"maintenance"} ELSE Callbacks

\* A thread at work runs a script of its kind; it has a lock only to enter and leave it.
RecordOK(h, k) ==
  /\ DOMAIN k = Fields
  /\ ShapeOf(h, k.script)
  /\ k.script # << >> => k.hook \in HooksOf(h)
  /\ k.lock # 0 => k.script # << >> /\ Head(k.script) \in {"enter", "leave"}

ThreadOK(h) == RecordOK(h, th[h]) /\ (th[h].script = << >> => th[h] = Resting)

ThreadsOK == DOMAIN th = Threads /\ \A h \in Threads : ThreadOK(h)

\* Only the record of h changes, to a record like this or to that of a resting thread.
Becomes(h, r) ==
  /\ \A g \in Threads \ {h} : th'[g] = th[g]
  /\ th'[h] = IF r.script = << >> THEN Resting ELSE r
  /\ At(h)' = IF r.script = << >> THEN "rest" ELSE Head(r.script)

LEMMA RestingOK == ASSUME NEW h PROVE RecordOK(h, Resting) /\ Resting.script = << >>
<1>1. DOMAIN Resting = Fields /\ Resting.script = << >> /\ Resting.lock = 0
  BY DEF Resting, Fields
<1> QED BY <1>1, ShapeNone DEF RecordOK, ShapeOf

LEMMA BecomeMoves ==
  ASSUME ThreadsOK, NEW h \in Threads, NEW r, Become(h, r), RecordOK(h, r)
  PROVE  ThreadsOK' /\ Becomes(h, r)
<1>1. th' = [th EXCEPT ![h] = IF r.script = << >> THEN Resting ELSE r] /\ DOMAIN th = Threads
  BY DEF Become, ThreadsOK
<1>2. /\ DOMAIN th' = Threads /\ th'[h] = IF r.script = << >> THEN Resting ELSE r
      /\ \A g \in Threads \ {h} : th'[g] = th[g]
  BY <1>1
<1>3. At(h)' = IF r.script = << >> THEN "rest" ELSE Head(r.script)
  BY <1>2, RestingOK DEF At
<1>4. ThreadOK(h)'
  BY <1>2, RestingOK DEF ThreadOK
<1>5. ASSUME NEW g \in Threads \ {h} PROVE ThreadOK(g)'
  BY <1>2 DEF ThreadsOK, ThreadOK
<1> QED BY <1>2, <1>3, <1>4, <1>5 DEF ThreadsOK, Becomes

\* What is known of a thread that is about to take a step.
Stands(h, x) ==
  /\ At(h) = x /\ th[h].script # << >> /\ Head(th[h].script) = x
  /\ DOMAIN th[h] = Fields /\ th[h].hook \in HooksOf(h)
  /\ ShapeOf(h, th[h].script)
  /\ x \notin {"enter", "leave"} => th[h].lock = 0

\* What follows step x in a script of h.
FollowUps(h, x) == {y \in Steps : <<x, y>> \in PairsOf(h)} \cup (IF x \in EndsOf(h) THEN {"rest"} ELSE {})

LEMMA DoingStands ==
  ASSUME ThreadsOK, NEW h \in Threads, NEW x, Doing(h, x)
  PROVE  Stands(h, x)
BY DEF ThreadsOK, ThreadOK, RecordOK, Doing, Stands, At

LEMMA HeadIsString == ASSUME NEW h, NEW s, ShapeOf(h, s), s # << >> PROVE Head(s) \in Steps
<1>1. s \in Seq(Steps)
  BY DEF ShapeOf, Shape
<1> QED BY <1>1

LEMMA RestShape ==
  ASSUME NEW h, NEW x, Stands(h, x)
  PROVE  /\ ShapeOf(h, Rest(h))
         /\ (IF Rest(h) = << >> THEN "rest" ELSE Head(Rest(h))) \in FollowUps(h, x)
<1> DEFINE s == th[h].script
<1>1. /\ ShapeOf(h, Tail(s)) /\ (Tail(s) = << >> => x \in EndsOf(h))
      /\ (Tail(s) # << >> => <<x, Head(Tail(s))>> \in PairsOf(h))
  BY ShapeTail DEF ShapeOf, Stands
<1>2. Tail(s) # << >> => Head(Tail(s)) \in Steps
  BY <1>1, HeadIsString
<1> QED BY <1>1, <1>2 DEF Rest, FollowUps

\* What other steps than the lookup of the episode leave alone.
Keeps(h) ==
  \/ th'[h] = Resting
  \/ /\ th'[h].hook = th[h].hook /\ th'[h].warned = th[h].warned
     /\ th'[h].marker = th[h].marker /\ th'[h].ep = th[h].ep
     /\ th'[h].session = th[h].session /\ th'[h].num = th[h].num

Alone(h) == \A g \in Threads \ {h} : th'[g] = th[g]

LEMMA OnMoves ==
  ASSUME ThreadsOK, NEW h \in Threads, NEW x, Stands(h, x), x # "leave", On(h)
  PROVE  /\ ThreadsOK' /\ Alone(h) /\ At(h)' \in FollowUps(h, x)
         /\ \/ th'[h] = Resting
            \/ th'[h] = [th[h] EXCEPT !.script = Rest(h)]
<1> DEFINE r == [th[h] EXCEPT !.script = Rest(h)]
<1>1. r.script = Rest(h) /\ r.hook = th[h].hook /\ r.lock = th[h].lock /\ DOMAIN r = Fields
  BY DEF Stands, Fields
<1>2. Become(h, r)
  BY DEF On, Go
<1>3. /\ ShapeOf(h, Rest(h))
      /\ (IF Rest(h) = << >> THEN "rest" ELSE Head(Rest(h))) \in FollowUps(h, x)
  BY RestShape
<1>4. r.lock # 0 => r.script # << >> /\ Head(r.script) \in {"enter", "leave"}
  <2> SUFFICES ASSUME r.lock # 0 PROVE r.script # << >> /\ Head(r.script) \in {"enter", "leave"}
    OBVIOUS
  <2>1. x = "enter"
    BY <1>1 DEF Stands
  <2>2. FollowUps(h, x) \subseteq {"leave"}
    BY <2>1 DEF FollowUps, PairsOf, EndsOf, CallbackPairs, MaintenancePairs, CallbackEnds, MaintenanceEnds
  <2> QED BY <1>1, <1>3, <2>2
<1>5. RecordOK(h, r)
  BY <1>1, <1>3, <1>4 DEF RecordOK, Stands
<1> HIDE DEF r
<1>6. ThreadsOK' /\ Becomes(h, r)
  BY <1>2, <1>5, BecomeMoves
<1> QED BY <1>1, <1>3, <1>6 DEF Becomes, Alone, r

\* A step that begins a new script, or answers, without a lock.
LEMMA FreshMoves ==
  ASSUME ThreadsOK, NEW h \in Threads, NEW x, Stands(h, x), NEW r, Become(h, r),
         DOMAIN r = Fields, r.hook = th[h].hook, r.lock = 0, ShapeOf(h, r.script)
  PROVE  /\ ThreadsOK' /\ Alone(h)
         /\ At(h)' = IF r.script = << >> THEN "rest" ELSE Head(r.script)
         /\ th'[h] = IF r.script = << >> THEN Resting ELSE r
<1>1. RecordOK(h, r)
  BY DEF RecordOK, Stands
<1> QED BY <1>1, BecomeMoves DEF Becomes, Alone

LEMMA OneStep ==
  ASSUME NEW h, NEW y \in EndsOf(h)
  PROVE  ShapeOf(h, <<y>>) /\ <<y>> # << >> /\ Head(<<y>>) = y
<1>1. y \in Steps
  BY DEF EndsOf, CallbackEnds, MaintenanceEnds, Steps
<1> QED BY <1>1, ShapeOne DEF ShapeOf

LEMMA AnswerMoves ==
  ASSUME ThreadsOK, NEW h \in Threads, NEW x, Stands(h, x), h # Drainer, NEW a, Answer(h, a)
  PROVE  /\ ThreadsOK' /\ Alone(h) /\ At(h)' = "answer" /\ Keeps(h)
         /\ th'[h] = [th[h] EXCEPT !.script = <<"answer">>, !.lock = 0, !.answer = a]
<1> DEFINE r == [th[h] EXCEPT !.script = <<"answer">>, !.lock = 0, !.answer = a]
<1>1. DOMAIN r = Fields /\ r.hook = th[h].hook /\ r.lock = 0 /\ r.script = <<"answer">>
      /\ r.warned = th[h].warned /\ r.marker = th[h].marker /\ r.session = th[h].session /\ r.num = th[h].num /\ r.ep = th[h].ep
  BY DEF Stands, Fields
<1>2. "answer" \in EndsOf(h)
  BY DEF EndsOf, CallbackEnds
<1>3. ShapeOf(h, <<"answer">>) /\ <<"answer">> # << >> /\ Head(<<"answer">>) = "answer"
  BY <1>2, OneStep
<1>4. Become(h, r)
  BY DEF Answer
<1> HIDE DEF r
<1>5. ThreadsOK' /\ Alone(h) /\ At(h)' = "answer" /\ th'[h] = r
  BY <1>1, <1>3, <1>4, FreshMoves
<1> QED BY <1>1, <1>5 DEF Keeps, r

LEMMA QuitMoves ==
  ASSUME ThreadsOK, NEW h \in Threads, NEW x, Stands(h, x), NEW s, ShapeOf(h, s), Quit(h, s)
  PROVE  /\ ThreadsOK' /\ Alone(h) /\ Keeps(h)
         /\ At(h)' = IF s = << >> THEN "rest" ELSE Head(s)
         /\ \/ th'[h] = Resting
            \/ th'[h] = [th[h] EXCEPT !.script = s, !.lock = 0]
<1> DEFINE r == [th[h] EXCEPT !.script = s, !.lock = 0]
<1>1. DOMAIN r = Fields /\ r.hook = th[h].hook /\ r.lock = 0 /\ r.script = s
      /\ r.warned = th[h].warned /\ r.marker = th[h].marker /\ r.session = th[h].session /\ r.num = th[h].num /\ r.ep = th[h].ep
  BY DEF Stands, Fields
<1>4. Become(h, r)
  BY DEF Quit
<1> HIDE DEF r
<1>5. /\ ThreadsOK' /\ Alone(h) /\ At(h)' = IF s = << >> THEN "rest" ELSE Head(s)
      /\ th'[h] = IF s = << >> THEN Resting ELSE r
  BY <1>1, <1>4, FreshMoves
<1> QED BY <1>1, <1>5 DEF Keeps, r

\* Where a thread is after an exception.
Landings(h) == IF h = Drainer THEN {"pop"} ELSE {"rest", "answer"}

LEMMA HandleMoves ==
  ASSUME ThreadsOK, NEW h \in Threads, NEW x, Stands(h, x), Handle(h)
  PROVE  /\ ThreadsOK' /\ Alone(h) /\ Keeps(h) /\ At(h)' \in Landings(h)
         /\ \/ th'[h] = Resting
            \/ th'[h].answer \in {th[h].answer, "block"}
<1>0. ShapeOf(h, << >>) /\ DOMAIN th[h] = Fields
  BY ShapeNone DEF ShapeOf, Stands
<1>1. CASE h = Drainer
  <2>1. Quit(h, NextJob)
    BY <1>1 DEF Handle, Stands, HooksOf, Callbacks
  <2>2. ShapeOf(h, NextJob) /\ NextJob # << >> /\ Head(NextJob) = "pop"
    <3>1. "pop" \in EndsOf(h)
      BY <1>1 DEF EndsOf, MaintenanceEnds
    <3> QED BY <3>1, OneStep DEF NextJob
  <2>3. /\ ThreadsOK' /\ Alone(h) /\ Keeps(h) /\ At(h)' = "pop"
        /\ th'[h] = Resting \/ th'[h] = [th[h] EXCEPT !.script = NextJob, !.lock = 0]
    BY <2>1, <2>2, QuitMoves
  <2> QED BY <1>0, <1>1, <2>3 DEF Landings, Fields
<1>2. CASE h # Drainer /\ Answer(h, "block")
  <2>1. /\ ThreadsOK' /\ Alone(h) /\ Keeps(h) /\ At(h)' = "answer"
        /\ th'[h] = [th[h] EXCEPT !.script = <<"answer">>, !.lock = 0, !.answer = "block"]
    BY <1>2, AnswerMoves
  <2> QED BY <1>0, <1>2, <2>1 DEF Landings, Fields
<1>3. CASE h # Drainer /\ Quit(h, << >>)
  <2>1. /\ ThreadsOK' /\ Alone(h) /\ Keeps(h) /\ At(h)' = "rest"
        /\ th'[h] = Resting \/ th'[h] = [th[h] EXCEPT !.script = << >>, !.lock = 0]
    BY <1>0, <1>3, QuitMoves
  <2> QED BY <1>0, <1>3, <2>1 DEF Landings, Fields
<1>4. h # Drainer => Answer(h, "block") \/ Quit(h, << >>)
  BY DEF Handle, Stands, HooksOf, Callbacks
<1> QED BY <1>1, <1>2, <1>3, <1>4

LEMMA CallbackStep ==
  ASSUME NEW h \in Threads, NEW x, Stands(h, x),
         x \notin {"component", "lock", "enter", "leave", "pop", "active"}
  PROVE  h # Drainer
<1> SUFFICES ASSUME h = Drainer PROVE FALSE
  OBVIOUS
<1>1. FollowUps(h, x) # {}
  BY RestShape
<1>2. FollowUps(h, x) = {}
  BY DEF FollowUps, PairsOf, EndsOf, MaintenancePairs, MaintenanceEnds
<1> QED BY <1>1, <1>2

LEMMA DrainerStep ==
  ASSUME NEW h \in Threads, NEW x, Stands(h, x), x \in {"pop", "active"}
  PROVE  h = Drainer
<1> SUFFICES ASSUME h # Drainer PROVE FALSE
  OBVIOUS
<1>1. FollowUps(h, x) # {}
  BY RestShape
<1>2. FollowUps(h, x) = {}
  BY DEF FollowUps, PairsOf, EndsOf, CallbackPairs, CallbackEnds
<1> QED BY <1>1, <1>2

LEMMA GoMoves ==
  ASSUME ThreadsOK, NEW h \in Threads, NEW x, Stands(h, x), x \notin {"enter", "leave"},
         NEW s, ShapeOf(h, s), s # << >>, Go(h, s)
  PROVE  /\ ThreadsOK' /\ Alone(h) /\ At(h)' = Head(s)
         /\ th'[h] = [th[h] EXCEPT !.script = s]
<1> DEFINE r == [th[h] EXCEPT !.script = s]
<1>1. DOMAIN r = Fields /\ r.hook = th[h].hook /\ r.lock = 0 /\ r.script = s
  BY DEF Stands, Fields
<1>2. Become(h, r)
  BY DEF Go
<1> HIDE DEF r
<1>3. ThreadsOK' /\ Alone(h) /\ At(h)' = Head(s) /\ th'[h] = r
  BY <1>1, <1>2, FreshMoves
<1> QED BY <1>3 DEF r

\* The thread says nothing to the host, or rests again.
Silent(h) == th'[h] = Resting \/ th'[h].answer = th[h].answer

\* A step from x to one of ys that only h notices.
Quiet(h, x, ys) ==
  Stands(h, x) /\ ThreadsOK' /\ Alone(h) /\ Keeps(h) /\ Silent(h) /\ At(h)' \in ys

LEMMA ScriptQuiet ==
  ASSUME NEW h, NEW x, NEW s, NEW ys, Stands(h, x), ThreadsOK', Alone(h), At(h)' \in ys,
         th'[h] = Resting \/ th'[h] = [th[h] EXCEPT !.script = s]
  PROVE  Quiet(h, x, ys)
BY DEF Quiet, Keeps, Silent, Stands, Fields

LEMMA OnQuiet ==
  ASSUME ThreadsOK, NEW h \in Threads, NEW x, Doing(h, x), x # "leave", On(h)
  PROVE  Quiet(h, x, FollowUps(h, x))
<1>1. Stands(h, x)
  BY DoingStands
<1>2. /\ ThreadsOK' /\ Alone(h) /\ At(h)' \in FollowUps(h, x)
      /\ th'[h] = Resting \/ th'[h] = [th[h] EXCEPT !.script = Rest(h)]
  BY <1>1, OnMoves
<1> QED BY <1>1, <1>2, ScriptQuiet

LEMMA GoQuiet ==
  ASSUME ThreadsOK, NEW h \in Threads, NEW x, Doing(h, x), x \notin {"enter", "leave"},
         NEW s, ShapeOf(h, s), s # << >>, Go(h, s), NEW y, Head(s) = y
  PROVE  Quiet(h, x, {y})
<1>1. Stands(h, x)
  BY DoingStands
<1>2. ThreadsOK' /\ Alone(h) /\ At(h)' = y /\ th'[h] = [th[h] EXCEPT !.script = s]
  BY <1>1, GoMoves
<1> QED BY <1>1, <1>2, ScriptQuiet

\* One step, or three, put before the rest of the script.
LEMMA PutOne ==
  ASSUME NEW h, NEW x, Stands(h, x), NEW y \in Steps, Rest(h) # << >>,
         \A z \in FollowUps(h, x) \ {"rest"} : <<y, z>> \in PairsOf(h)
  PROVE  ShapeOf(h, <<y>> \o Rest(h)) /\ <<y>> \o Rest(h) # << >> /\ Head(<<y>> \o Rest(h)) = y
<1> DEFINE s == Rest(h)
           p == <<y>>
<1>1. ShapeOf(h, s) /\ Head(s) \in FollowUps(h, x) /\ Head(s) \in Steps
  BY RestShape, HeadIsString
<1>2. "rest" \notin Steps
  BY DEF Steps
<1>3. <<y, Head(s)>> \in PairsOf(h)
  BY <1>1, <1>2
<1>4. p \in Seq(Steps)
  BY TupleTypes
<1>5. Len(p) = 1 /\ p[1] = y
  OBVIOUS
<1> HIDE DEF s, p
<1>6. Len(p) # 0 /\ <<p[Len(p)], Head(s)>> \in PairsOf(h)
  BY <1>3, <1>5
<1>7. Linked(p, PairsOf(h))
  BY <1>5 DEF Linked
<1>8. s # << >>
  BY DEF s
<1>9. Shape(p \o s, PairsOf(h), EndsOf(h)) /\ p \o s # << >> /\ Head(p \o s) = p[1]
  BY <1>1, <1>4, <1>6, <1>7, <1>8, ShapePut DEF ShapeOf
<1> QED BY <1>5, <1>9 DEF ShapeOf, s, p

-----------------------------------------------------------------------------
(* The lookup of the episode.                                              *)

\* A thread that has found its episode.
Finds(h, x, e) ==
  /\ Stands(h, x) /\ h # Drainer /\ ThreadsOK' /\ Alone(h) /\ Silent(h)
  /\ th'[h].hook = th[h].hook /\ th'[h].warned = th[h].warned /\ th'[h].marker = th[h].marker
  /\ th'[h].session = None /\ th'[h].num = th[h].num
  /\ th'[h].ep = e /\ th'[h].script # << >>
  /\ At(h)' \in {"remember", "lock", "promote", "check", "archive"}

LEMMA ResolvedMoves ==
  ASSUME ThreadsOK, NEW h \in Threads, NEW x \in {"resolve", "create"}, Doing(h, x),
         NEW e, Resolved(h, e)
  PROVE  Finds(h, x, e)
<1>1. Stands(h, x) /\ h # Drainer
  BY DoingStands, CallbackStep
<1> DEFINE r == [th[h] EXCEPT !.script = Rest(h), !.ep = e, !.session = None]
<1>2. /\ DOMAIN r = Fields /\ r.hook = th[h].hook /\ r.lock = 0 /\ r.script = Rest(h)
      /\ r.warned = th[h].warned /\ r.marker = th[h].marker /\ r.session = None /\ r.num = th[h].num /\ r.ep = e /\ r.answer = th[h].answer
  BY <1>1 DEF Stands, Fields
<1>3. Become(h, r)
  BY DEF Resolved
<1> HIDE DEF r
<1>4. FollowUps(h, x) \subseteq {"remember", "lock", "promote", "check", "archive"}
  BY <1>1 DEF FollowUps, PairsOf, EndsOf, CallbackPairs, CallbackEnds
<1>5. ShapeOf(h, Rest(h)) /\ (IF Rest(h) = << >> THEN "rest" ELSE Head(Rest(h))) \in FollowUps(h, x)
  BY <1>1, RestShape
<1>6. Rest(h) # << >>
  BY <1>4, <1>5
<1>7. ThreadsOK' /\ Alone(h) /\ At(h)' = Head(Rest(h)) /\ th'[h] = r
  BY <1>1, <1>2, <1>3, <1>5, <1>6, FreshMoves
<1> QED BY <1>1, <1>2, <1>4, <1>5, <1>6, <1>7 DEF Finds, Silent

LEMMA ResolveMoves ==
  ASSUME ThreadsOK, NEW h \in Threads, Resolve(h)
  PROVE  /\ h # Drainer
         /\ \/ Quiet(h, "resolve", {"create"}) /\ th'[h] # Resting /\ UNCHANGED turnEpisode
            \/ Found(th[h].session) # {} /\ Finds(h, "resolve", Some(Found(th[h].session)))
               /\ UNCHANGED turnEpisode
            \/ LET route == turnEpisode[Some(Routed(th[h].marker))]
               IN  /\ Routed(th[h].marker) # {} /\ Finds(h, "resolve", route.ep)
                   /\ turnEpisode' = Append(Routes(th[h].marker), route)
<1>1. Doing(h, "resolve")
  BY DEF Resolve
<1>2. Stands(h, "resolve") /\ h # Drainer
  BY <1>1, DoingStands, CallbackStep
<1>3. CASE Go(h, <<"create">> \o Rest(h)) /\ UNCHANGED turnEpisode
  <2>1. FollowUps(h, "resolve") \subseteq FollowUps(h, "create")
        /\ FollowUps(h, "resolve") \subseteq Steps /\ "create" \in Steps /\ "rest" \notin Steps
    BY <1>2 DEF FollowUps, PairsOf, EndsOf, CallbackPairs, CallbackEnds, Steps
  <2>2. Rest(h) # << >>
    BY <1>2, <2>1, RestShape
  <2>3. \A z \in FollowUps(h, "resolve") \ {"rest"} : <<"create", z>> \in PairsOf(h)
    BY <2>1 DEF FollowUps
  <2> DEFINE s == <<"create">> \o Rest(h)
  <2>4. ShapeOf(h, s) /\ s # << >> /\ Head(s) = "create"
    BY <1>2, <2>1, <2>2, <2>3, PutOne
  <2> HIDE DEF s
  <2>5. Go(h, s)
    BY <1>3 DEF s
  <2>6. Quiet(h, "resolve", {"create"})
    BY <1>1, <2>4, <2>5, GoQuiet
  <2>7. th'[h] # Resting
    <3>1. ThreadsOK' /\ At(h)' = "create"
      BY <2>6 DEF Quiet
    <3>2. th'[h].script # << >>
      BY <3>1 DEF At
    <3> QED BY <3>2, RestingOK
  <2> QED BY <1>2, <1>3, <2>6, <2>7
<1>4. CASE Found(th[h].session) # {} /\ Resolved(h, Some(Found(th[h].session))) /\ UNCHANGED turnEpisode
  BY <1>1, <1>2, <1>4, ResolvedMoves
<1>5. ASSUME NEW route, route = turnEpisode[Some(Routed(th[h].marker))], Routed(th[h].marker) # {},
             Resolved(h, route.ep), turnEpisode' = Append(Routes(th[h].marker), route)
      PROVE  Finds(h, "resolve", route.ep)
  BY <1>1, <1>5, ResolvedMoves
<1> QED BY <1>2, <1>3, <1>4, <1>5 DEF Resolve

LEMMA CreateMoves ==
  ASSUME ThreadsOK, NEW h \in Threads, Create(h)
  PROVE  \/ /\ Found(th[h].session) # {} /\ Finds(h, "create", Some(Found(th[h].session)))
            /\ UNCHANGED <<episodes, locks>>
         \/ /\ Found(th[h].session) = {} /\ Finds(h, "create", Some(Free))
            /\ episodes' = [episodes EXCEPT ![Some(Free)] =
                 [Absent EXCEPT !.state = "active",
                                !.key = IF th[h].session = None THEN "oneshot" ELSE th[h].session]]
            /\ locks' = [locks EXCEPT ![Some(Free)] = NewLock]
<1>1. Doing(h, "create")
  BY DEF Create
<1>2. CASE Found(th[h].session) # {}
  <2>1. Resolved(h, Some(Found(th[h].session))) /\ UNCHANGED <<episodes, locks>>
    BY <1>2 DEF Create
  <2> QED BY <1>1, <1>2, <2>1, ResolvedMoves
<1>3. CASE Found(th[h].session) = {}
  <2>1. /\ Resolved(h, Some(Free))
        /\ episodes' = [episodes EXCEPT ![Some(Free)] =
             [Absent EXCEPT !.state = "active",
                            !.key = IF th[h].session = None THEN "oneshot" ELSE th[h].session]]
        /\ locks' = [locks EXCEPT ![Some(Free)] = NewLock]
    BY <1>3 DEF Create
  <2>2. Finds(h, "create", Some(Free))
    BY <1>1, <2>1, ResolvedMoves
  <2> QED BY <1>3, <2>1, <2>2
<1> QED BY <1>2, <1>3

-----------------------------------------------------------------------------
(* The other steps of a thread.                                            *)

LEMMA RememberMoves ==
  ASSUME ThreadsOK, NEW h \in Threads, Remember(h)
  PROVE  Quiet(h, "remember", {"mark"}) /\ h # Drainer
<1>1. Doing(h, "remember") /\ On(h)
  BY DEF Remember
<1>2. Stands(h, "remember") /\ h # Drainer
  BY <1>1, DoingStands, CallbackStep
<1>3. FollowUps(h, "remember") \subseteq {"mark"}
  BY <1>2 DEF FollowUps, PairsOf, EndsOf, CallbackPairs, CallbackEnds
<1>4. Quiet(h, "remember", FollowUps(h, "remember"))
  BY <1>1, OnQuiet
<1> QED BY <1>2, <1>3, <1>4 DEF Quiet

LEMMA MarkMoves ==
  ASSUME ThreadsOK, NEW h \in Threads, Mark(h)
  PROVE  Quiet(h, "mark", {"lock", "reload"}) /\ h # Drainer
<1>1. Doing(h, "mark")
  BY DEF Mark
<1>2. Stands(h, "mark") /\ h # Drainer
  BY <1>1, DoingStands, CallbackStep
<1>3. FollowUps(h, "mark") \subseteq {"lock"}
  BY <1>2 DEF FollowUps, PairsOf, EndsOf, CallbackPairs, CallbackEnds
<1>4. CASE On(h)
  <2>1. Quiet(h, "mark", FollowUps(h, "mark"))
    BY <1>1, <1>4, OnQuiet
  <2> QED BY <1>2, <1>3, <2>1 DEF Quiet
<1>5. CASE Go(h, <<"reload", "count", "append">> \o Rest(h))
  <2> DEFINE p == <<"reload", "count", "append">>
             s == Rest(h)
  <2>1. /\ ShapeOf(h, s) /\ s # << >> /\ Head(s) = "lock"
    BY <1>2, <1>3, RestShape
  <2>2. p \in Seq(Steps)
    <3>1. "reload" \in Steps /\ "count" \in Steps /\ "append" \in Steps
      BY DEF Steps
    <3> QED BY <3>1, TupleTypes
  <2>3. Len(p) = 3 /\ p[1] = "reload" /\ p[2] = "count" /\ p[3] = "append"
    OBVIOUS
  <2> HIDE DEF p, s
  <2>4. Linked(p, PairsOf(h))
    <3> SUFFICES ASSUME NEW i \in 1..Len(p) - 1 PROVE <<p[i], p[i + 1]>> \in PairsOf(h)
      BY DEF Linked
    <3>1. (i = 1 /\ i + 1 = 2) \/ (i = 2 /\ i + 1 = 3)
      BY <2>3
    <3>2. <<"reload", "count">> \in PairsOf(h) /\ <<"count", "append">> \in PairsOf(h)
      BY <1>2 DEF PairsOf, CallbackPairs
    <3> QED BY <2>3, <3>1, <3>2
  <2>5. Len(p) # 0 /\ <<p[Len(p)], Head(s)>> \in PairsOf(h)
    BY <1>2, <2>1, <2>3 DEF PairsOf, CallbackPairs
  <2>6. ShapeOf(h, p \o s) /\ p \o s # << >> /\ Head(p \o s) = p[1]
    BY <2>1, <2>2, <2>4, <2>5, ShapePut DEF ShapeOf
  <2>7. Go(h, p \o s)
    BY <1>5 DEF p, s
  <2>8. Quiet(h, "mark", {p[1]})
    <3> DEFINE t == p \o s
    <3>1. ShapeOf(h, t) /\ t # << >> /\ Head(t) = p[1] /\ Go(h, t)
      BY <2>6, <2>7
    <3> HIDE DEF t
    <3> QED BY <1>1, <3>1, GoQuiet
  <2> QED BY <1>2, <2>3, <2>8 DEF Quiet
<1> QED BY <1>4, <1>5 DEF Mark

LEMMA ReloadMoves ==
  ASSUME ThreadsOK, NEW h \in Threads, Reload(h)
  PROVE  Quiet(h, "reload", {"count"}) /\ h # Drainer
<1>1. Doing(h, "reload") /\ On(h)
  BY DEF Reload
<1>2. Stands(h, "reload") /\ h # Drainer
  BY <1>1, DoingStands, CallbackStep
<1>3. FollowUps(h, "reload") \subseteq {"count"}
  BY <1>2 DEF FollowUps, PairsOf, EndsOf, CallbackPairs, CallbackEnds
<1>4. Quiet(h, "reload", FollowUps(h, "reload"))
  BY <1>1, OnQuiet
<1> QED BY <1>2, <1>3, <1>4 DEF Quiet

LEMMA CountTurnMoves ==
  ASSUME ThreadsOK, NEW h \in Threads, CountTurn(h)
  PROVE  /\ Stands(h, "count") /\ h # Drainer /\ ThreadsOK' /\ Alone(h) /\ Silent(h) /\ At(h)' = "append"
         /\ th'[h].hook = th[h].hook /\ th'[h].warned = th[h].warned /\ th'[h].marker = th[h].marker
         /\ th'[h].ep = th[h].ep /\ th'[h].session = th[h].session /\ th'[h].script # << >>
         /\ th'[h].num = episodes[th[h].ep].turn + 1
<1>1. Doing(h, "count")
  BY DEF CountTurn
<1>2. Stands(h, "count") /\ h # Drainer
  BY <1>1, DoingStands, CallbackStep
<1>3. FollowUps(h, "count") \subseteq {"append"}
  BY <1>2 DEF FollowUps, PairsOf, EndsOf, CallbackPairs, CallbackEnds
<1>4. ShapeOf(h, Rest(h)) /\ Rest(h) # << >> /\ Head(Rest(h)) = "append"
  BY <1>2, <1>3, RestShape
<1> DEFINE r == [th[h] EXCEPT !.script = Rest(h), !.num = episodes[th[h].ep].turn + 1]
<1>5. /\ DOMAIN r = Fields /\ r.hook = th[h].hook /\ r.lock = 0 /\ r.script = Rest(h)
      /\ r.warned = th[h].warned /\ r.marker = th[h].marker /\ r.session = th[h].session /\ r.ep = th[h].ep
      /\ r.answer = th[h].answer /\ r.num = episodes[th[h].ep].turn + 1
  BY <1>2 DEF Stands, Fields
<1>6. th' = [th EXCEPT ![h] = r]
  BY DEF CountTurn
<1> HIDE DEF r
<1>7. Become(h, r)
  BY <1>4, <1>5, <1>6 DEF Become
<1>8. ThreadsOK' /\ Alone(h) /\ At(h)' = "append" /\ th'[h] = r
  BY <1>2, <1>4, <1>5, <1>7, FreshMoves
<1> QED BY <1>2, <1>4, <1>5, <1>8 DEF Silent

\* A step that may raise instead: every except clause lands alike.
Falls(h, x) ==
  /\ Stands(h, x) /\ ThreadsOK' /\ Alone(h) /\ Keeps(h) /\ At(h)' \in Landings(h)
  /\ th'[h] = Resting \/ th'[h].answer \in {th[h].answer, "block"}
  /\ Handle(h)

LEMMA HandleFalls ==
  ASSUME ThreadsOK, NEW h \in Threads, NEW x, Doing(h, x), Handle(h)
  PROVE  Falls(h, x)
<1>1. Stands(h, x)
  BY DoingStands
<1> QED BY <1>1, HandleMoves DEF Falls

\* A lookup that fails.
Fallen(h) == \E x \in Lookups : Falls(h, x)

LEMMA FailMoves ==
  ASSUME ThreadsOK, NEW h \in Threads, Fail(h)
  PROVE  Fallen(h) /\ UNCHANGED <<episodes, registry, work, late, budget>>
<1>1. PICK x \in Lookups : Doing(h, x)
  BY DEF Fail, Doing
<1> QED BY <1>1, HandleFalls DEF Fail, Raise, Fallen

LEMMA AppendTurnMoves ==
  ASSUME ThreadsOK, NEW h \in Threads, AppendTurn(h)
  PROVE  /\ h # Drainer
         /\ Quiet(h, "append", {"lock"}) \/ (Falls(h, "append") /\ UNCHANGED episodes)
<1>1. Doing(h, "append")
  BY DEF AppendTurn
<1>2. Stands(h, "append") /\ h # Drainer
  BY <1>1, DoingStands, CallbackStep
<1>3. CASE On(h)
  <2>1. FollowUps(h, "append") \subseteq {"lock"}
    BY <1>2 DEF FollowUps, PairsOf, EndsOf, CallbackPairs, CallbackEnds
  <2>2. Quiet(h, "append", FollowUps(h, "append"))
    BY <1>1, <1>3, OnQuiet
  <2> QED BY <1>2, <2>1, <2>2 DEF Quiet
<1>4. CASE Raise(h) /\ UNCHANGED episodes
  BY <1>1, <1>2, <1>4, HandleFalls DEF Raise
<1> QED BY <1>3, <1>4 DEF AppendTurn

LEMMA FindLockMoves ==
  ASSUME ThreadsOK, NEW h \in Threads, FindLock(h)
  PROVE  /\ Quiet(h, "lock", {"enter"}) /\ th'[h].lock = LockFor(th[h].ep)
         /\ th'[h].script # << >> /\ th'[h].ep = th[h].ep
<1>1. Doing(h, "lock")
  BY DEF FindLock
<1>2. Stands(h, "lock")
  BY <1>1, DoingStands
<1>3. FollowUps(h, "lock") \subseteq {"enter"}
  BY DEF FollowUps, PairsOf, EndsOf, CallbackPairs, CallbackEnds, MaintenancePairs, MaintenanceEnds
<1>4. ShapeOf(h, Rest(h)) /\ Rest(h) # << >> /\ Head(Rest(h)) = "enter"
  BY <1>2, <1>3, RestShape
<1> DEFINE r == [th[h] EXCEPT !.script = Rest(h), !.lock = LockFor(th[h].ep)]
<1>5. /\ DOMAIN r = Fields /\ r.hook = th[h].hook /\ r.lock = LockFor(th[h].ep) /\ r.script = Rest(h)
      /\ r.warned = th[h].warned /\ r.marker = th[h].marker /\ r.session = th[h].session /\ r.num = th[h].num /\ r.ep = th[h].ep
      /\ r.answer = th[h].answer
  BY <1>2 DEF Stands, Fields
<1>6. th' = [th EXCEPT ![h] = r]
  BY DEF FindLock
<1> HIDE DEF r
<1>7. Become(h, r)
  BY <1>4, <1>5, <1>6 DEF Become
<1>8. RecordOK(h, r)
  BY <1>2, <1>4, <1>5 DEF RecordOK, Stands
<1>9. ThreadsOK' /\ Becomes(h, r)
  BY <1>7, <1>8, BecomeMoves
<1>10. Alone(h) /\ At(h)' = "enter" /\ th'[h] = r
  BY <1>4, <1>5, <1>9 DEF Becomes, Alone
<1> QED BY <1>2, <1>4, <1>5, <1>9, <1>10 DEF Quiet, Keeps, Silent

LEMMA EnterMoves ==
  ASSUME ThreadsOK, NEW h \in Threads, Enter(h)
  PROVE  /\ Quiet(h, "enter", {"leave"}) /\ th'[h].lock = th[h].lock
         /\ th'[h].script # << >> /\ th'[h].ep = th[h].ep
<1>1. Doing(h, "enter") /\ On(h)
  BY DEF Enter
<1>2. Stands(h, "enter")
  BY <1>1, DoingStands
<1>3. FollowUps(h, "enter") \subseteq {"leave"}
  BY DEF FollowUps, PairsOf, EndsOf, CallbackPairs, CallbackEnds, MaintenancePairs, MaintenanceEnds
<1>4. /\ ThreadsOK' /\ Alone(h) /\ At(h)' \in FollowUps(h, "enter")
      /\ th'[h] = Resting \/ th'[h] = [th[h] EXCEPT !.script = Rest(h)]
  BY <1>1, <1>2, OnMoves
<1>5. th'[h].script # << >>
  BY <1>3, <1>4 DEF At
<1>6. th'[h] = [th[h] EXCEPT !.script = Rest(h)]
  BY <1>4, <1>5, RestingOK
<1>7. th'[h].lock = th[h].lock /\ th'[h].ep = th[h].ep
  BY <1>2, <1>6 DEF Stands, Fields
<1>8. Quiet(h, "enter", {"leave"})
  BY <1>2, <1>3, <1>4, ScriptQuiet
<1> QED BY <1>5, <1>7, <1>8

LEMMA LeaveMoves ==
  ASSUME ThreadsOK, NEW h \in Threads, Leave(h)
  PROVE  \/ /\ Quiet(h, "leave", {"gate", "inject", "rest", "pop"})
            /\ holder' = [holder EXCEPT ![th[h].lock] = None] /\ UNCHANGED <<condition, bounds>>
         \/ Falls(h, "leave") /\ holder' = AfterFailure(h)
<1>1. Doing(h, "leave")
  BY DEF Leave
<1>2. Stands(h, "leave")
  BY <1>1, DoingStands
<1>3. CASE Quit(h, Rest(h)) /\ UNCHANGED <<condition, bounds>>
           /\ holder' = [holder EXCEPT ![th[h].lock] = None]
  <2>1. FollowUps(h, "leave") \subseteq {"gate", "inject", "rest", "pop"}
    BY DEF FollowUps, PairsOf, EndsOf, CallbackPairs, CallbackEnds, MaintenancePairs, MaintenanceEnds
  <2>2. ShapeOf(h, Rest(h)) /\ (IF Rest(h) = << >> THEN "rest" ELSE Head(Rest(h))) \in FollowUps(h, "leave")
    BY <1>2, RestShape
  <2>3. /\ ThreadsOK' /\ Alone(h) /\ Keeps(h)
        /\ At(h)' = IF Rest(h) = << >> THEN "rest" ELSE Head(Rest(h))
        /\ \/ th'[h] = Resting
           \/ th'[h] = [th[h] EXCEPT !.script = Rest(h), !.lock = 0]
    BY <1>2, <1>3, <2>2, QuitMoves
  <2>4. Silent(h)
    BY <1>2, <2>3 DEF Silent, Stands, Fields
  <2> QED BY <1>2, <1>3, <2>1, <2>2, <2>3, <2>4 DEF Quiet
<1>4. CASE Raise(h) /\ holder' = AfterFailure(h)
  BY <1>1, <1>4, HandleFalls DEF Raise
<1> QED BY <1>3, <1>4 DEF Leave

LEMMA GateMoves ==
  ASSUME ThreadsOK, NEW h \in Threads, Gate(h)
  PROVE  /\ h # Drainer /\ Stands(h, "gate") /\ ThreadsOK' /\ Alone(h) /\ Keeps(h) /\ At(h)' = "answer"
         /\ th'[h].answer = "allow" => ~Degraded(h)
<1>1. Doing(h, "gate")
  BY DEF Gate
<1>2. Stands(h, "gate") /\ h # Drainer
  BY <1>1, DoingStands, CallbackStep
<1>3. PICK answer \in IF Degraded(h) THEN {"block"} ELSE {"allow", "block"} : Answer(h, answer)
  BY DEF Gate
<1>4. /\ ThreadsOK' /\ Alone(h) /\ At(h)' = "answer" /\ Keeps(h)
      /\ th'[h] = [th[h] EXCEPT !.script = <<"answer">>, !.lock = 0, !.answer = answer]
  BY <1>2, <1>3, AnswerMoves
<1>5. th'[h].answer = answer
  BY <1>2, <1>4 DEF Stands, Fields
<1> QED BY <1>2, <1>3, <1>4, <1>5

LEMMA FinishMoves ==
  ASSUME ThreadsOK, NEW h \in Threads, Finish(h)
  PROVE  Quiet(h, "answer", {"rest"}) /\ h # Drainer /\ th'[h] = Resting
<1>1. Doing(h, "answer") /\ th' = [th EXCEPT ![h] = Resting]
  BY DEF Finish
<1>2. Stands(h, "answer") /\ h # Drainer
  BY <1>1, DoingStands, CallbackStep
<1>3. Become(h, Resting)
  BY <1>1, RestingOK DEF Become
<1>4. ThreadsOK' /\ Becomes(h, Resting)
  BY <1>3, RestingOK, BecomeMoves
<1> QED BY <1>2, <1>4, RestingOK DEF Becomes, Quiet, Alone, Keeps, Silent

LEMMA PromoteMoves ==
  ASSUME ThreadsOK, NEW h \in Threads, Promote(h)
  PROVE  Quiet(h, "promote", {"schedule", "component"}) /\ h # Drainer
<1>1. Doing(h, "promote")
  BY DEF Promote
<1>2. Stands(h, "promote") /\ h # Drainer
  BY <1>1, DoingStands, CallbackStep
<1>3. PICK step \in {"schedule", "component"} : Go(h, <<step>> \o Rest(h))
  BY DEF Promote
<1>4. FollowUps(h, "promote") \subseteq {"lock"}
  BY <1>2 DEF FollowUps, PairsOf, EndsOf, CallbackPairs, CallbackEnds
<1>5. Rest(h) # << >>
  BY <1>2, <1>4, RestShape
<1>6. step \in Steps /\ \A z \in FollowUps(h, "promote") \ {"rest"} : <<step, z>> \in PairsOf(h)
  BY <1>2, <1>4 DEF PairsOf, CallbackPairs, Steps
<1> DEFINE s == <<step>> \o Rest(h)
<1>7. ShapeOf(h, s) /\ s # << >> /\ Head(s) = step
  BY <1>2, <1>5, <1>6, PutOne
<1> HIDE DEF s
<1>8. Go(h, s)
  BY <1>3 DEF s
<1>9. Quiet(h, "promote", {step})
  BY <1>1, <1>7, <1>8, GoQuiet
<1> QED BY <1>2, <1>9 DEF Quiet

LEMMA ScheduleMoves ==
  ASSUME ThreadsOK, NEW h \in Threads, Schedule(h)
  PROVE  /\ h # Drainer
         /\ IF draining THEN Quiet(h, "schedule", {"lock"}) ELSE Quiet(h, "schedule", {"start"})
<1>1. Doing(h, "schedule")
  BY DEF Schedule
<1>2. Stands(h, "schedule") /\ h # Drainer
  BY <1>1, DoingStands, CallbackStep
<1>3. FollowUps(h, "schedule") \subseteq {"lock"}
  BY <1>2 DEF FollowUps, PairsOf, EndsOf, CallbackPairs, CallbackEnds
<1>4. ShapeOf(h, Rest(h)) /\ Rest(h) # << >> /\ Head(Rest(h)) = "lock"
  BY <1>2, <1>3, RestShape
<1>5. CASE draining
  <2>1. Go(h, Rest(h))
    BY <1>5 DEF Schedule
  <2>2. Quiet(h, "schedule", {"lock"})
    BY <1>1, <1>4, <2>1, GoQuiet
  <2> QED BY <1>2, <1>5, <2>2
<1>6. CASE ~draining
  <2>1. "start" \in Steps /\ \A z \in FollowUps(h, "schedule") \ {"rest"} : <<"start", z>> \in PairsOf(h)
    BY <1>2, <1>3 DEF PairsOf, CallbackPairs, Steps
  <2> DEFINE s == <<"start">> \o Rest(h)
  <2>2. ShapeOf(h, s) /\ s # << >> /\ Head(s) = "start"
    BY <1>2, <1>4, <2>1, PutOne
  <2> HIDE DEF s
  <2>3. Go(h, s)
    BY <1>6 DEF Schedule, s
  <2>4. Quiet(h, "schedule", {"start"})
    BY <1>1, <2>2, <2>3, GoQuiet
  <2> QED BY <1>2, <1>6, <2>4
<1> QED BY <1>5, <1>6

\* The thread that a drain begins with.
Woken == [Resting EXCEPT !.script = <<"pop">>, !.hook = "maintenance"]

LEMMA WokenOK ==
  /\ RecordOK(Drainer, Woken) /\ Woken.script = <<"pop">> /\ Woken.script # << >>
  /\ Head(Woken.script) = "pop" /\ Woken.ep = 0 /\ Woken.marker = None /\ Woken.lock = 0
  /\ Woken.hook = "maintenance" /\ Woken.answer = None
<1>1. DOMAIN Woken = Fields /\ Woken.hook = "maintenance" /\ Woken.lock = 0 /\ Woken.script = <<"pop">>
      /\ Woken.ep = 0 /\ Woken.marker = None /\ Woken.answer = None
  BY DEF Woken, Resting, Fields
<1>2. "pop" \in EndsOf(Drainer)
  BY DEF EndsOf, MaintenanceEnds
<1>3. ShapeOf(Drainer, <<"pop">>) /\ <<"pop">> # << >> /\ Head(<<"pop">>) = "pop"
  BY <1>2, OneStep
<1> QED BY <1>1, <1>3 DEF RecordOK, HooksOf

LEMMA StartDrainerMoves ==
  ASSUME ThreadsOK, Drainer \in Threads, NEW h \in Threads, StartDrainer(h)
  PROVE  /\ h # Drainer /\ Stands(h, "start")
         /\ \/ /\ ThreadsOK' /\ th'[Drainer] = Woken /\ At(Drainer)' = "pop" /\ At(h)' = "lock"
               /\ \A g \in Threads \ {h, Drainer} : th'[g] = th[g]
               /\ Keeps(h) /\ Silent(h) /\ UNCHANGED <<draining, condition, bounds>>
            \/ Falls(h, "start") /\ draining' = FALSE
<1>1. Doing(h, "start")
  BY DEF StartDrainer
<1>2. Stands(h, "start") /\ h # Drainer
  BY <1>1, DoingStands, CallbackStep
<1>3. CASE /\ th' = [th EXCEPT ![h].script = Rest(h),
                               ![Drainer] = [Resting EXCEPT !.script = <<"pop">>, !.hook = "maintenance"]]
           /\ UNCHANGED <<draining, condition, bounds>>
  <2> DEFINE r == [th[h] EXCEPT !.script = Rest(h)]
  <2>1. FollowUps(h, "start") \subseteq {"lock"}
    BY <1>2 DEF FollowUps, PairsOf, EndsOf, CallbackPairs, CallbackEnds
  <2>2. ShapeOf(h, Rest(h)) /\ Rest(h) # << >> /\ Head(Rest(h)) = "lock"
    BY <1>2, <2>1, RestShape
  <2>3. DOMAIN r = Fields /\ r.hook = th[h].hook /\ r.lock = 0 /\ r.script = Rest(h)
        /\ r.warned = th[h].warned /\ r.marker = th[h].marker /\ r.session = th[h].session /\ r.num = th[h].num /\ r.ep = th[h].ep /\ r.answer = th[h].answer
    BY <1>2 DEF Stands, Fields
  <2>4. th' = [th EXCEPT ![h] = r, ![Drainer] = Woken]
    BY <1>3 DEF Woken
  <2> HIDE DEF r
  <2>5. /\ DOMAIN th' = Threads /\ th'[h] = r /\ th'[Drainer] = Woken
        /\ \A g \in Threads \ {h, Drainer} : th'[g] = th[g]
    BY <1>2, <2>4 DEF ThreadsOK
  <2>6. ThreadOK(h)'
    BY <1>2, <2>2, <2>3, <2>5 DEF ThreadOK, RecordOK, Stands
  <2>7. ThreadOK(Drainer)'
    BY <2>5, WokenOK DEF ThreadOK
  <2>8. ASSUME NEW g \in Threads \ {h, Drainer} PROVE ThreadOK(g)'
    BY <2>5 DEF ThreadsOK, ThreadOK
  <2>9. ThreadsOK'
    BY <2>5, <2>6, <2>7, <2>8 DEF ThreadsOK
  <2>10. At(h)' = "lock" /\ At(Drainer)' = "pop"
    BY <2>2, <2>3, <2>5, WokenOK DEF At
  <2> QED BY <1>2, <1>3, <2>3, <2>5, <2>9, <2>10 DEF Keeps, Silent
<1>4. CASE Handle(h) /\ draining' = FALSE
  BY <1>1, <1>2, <1>4, HandleFalls
<1> QED BY <1>3, <1>4 DEF StartDrainer

LEMMA TakeJobMoves ==
  ASSUME ThreadsOK, NEW h \in Threads, TakeJob(h)
  PROVE  /\ h = Drainer /\ Stands(h, "pop") /\ ThreadsOK' /\ Alone(h)
         /\ \/ /\ queue = << >> /\ draining' = FALSE /\ th'[h] = Resting /\ At(h)' = "rest"
               /\ UNCHANGED queue
            \/ /\ queue # << >> /\ queue' = Tail(queue) /\ UNCHANGED draining
               /\ At(h)' = "active" /\ th'[h].ep = Head(queue) /\ th'[h].script # << >>
               /\ th'[h].hook = th[h].hook /\ th'[h].warned = th[h].warned
               /\ th'[h].marker = th[h].marker /\ th'[h].session = th[h].session /\ th'[h].num = th[h].num
               /\ th'[h].answer = th[h].answer
<1>1. Doing(h, "pop")
  BY DEF TakeJob
<1>2. Stands(h, "pop") /\ h = Drainer
  BY <1>1, DoingStands, DrainerStep
<1>3. CASE queue = << >>
  <2>1. draining' = FALSE /\ th' = [th EXCEPT ![h] = Resting] /\ UNCHANGED queue
    BY <1>3 DEF TakeJob
  <2>2. Become(h, Resting)
    BY <2>1, RestingOK DEF Become
  <2>3. ThreadsOK' /\ Becomes(h, Resting)
    BY <2>2, RestingOK, BecomeMoves
  <2> QED BY <1>2, <1>3, <2>1, <2>3, RestingOK DEF Becomes, Alone
<1>4. CASE queue # << >>
  <2> DEFINE r == [th[h] EXCEPT !.script = <<"active">>, !.ep = Head(queue)]
  <2>1. /\ queue' = Tail(queue) /\ UNCHANGED draining /\ th' = [th EXCEPT ![h] = r]
    BY <1>4 DEF TakeJob
  <2>2. DOMAIN r = Fields /\ r.hook = th[h].hook /\ r.lock = 0 /\ r.script = <<"active">>
        /\ r.warned = th[h].warned /\ r.marker = th[h].marker /\ r.session = th[h].session /\ r.num = th[h].num /\ r.ep = Head(queue)
        /\ r.answer = th[h].answer
    BY <1>2 DEF Stands, Fields
  <2>3. "active" \in EndsOf(h)
    BY <1>2 DEF EndsOf, MaintenanceEnds
  <2>4. ShapeOf(h, <<"active">>) /\ <<"active">> # << >> /\ Head(<<"active">>) = "active"
    BY <2>3, OneStep
  <2> HIDE DEF r
  <2>5. Become(h, r)
    BY <2>1, <2>2, <2>4 DEF Become
  <2>6. ShapeOf(h, r.script) /\ r.script # << >> /\ Head(r.script) = "active"
    BY <2>2, <2>4
  <2>7. ThreadsOK' /\ Alone(h) /\ At(h)' = "active" /\ th'[h] = r
    BY <1>2, <2>2, <2>5, <2>6, FreshMoves
  <2> QED BY <1>2, <1>4, <2>1, <2>2, <2>6, <2>7
<1> QED BY <1>3, <1>4

LEMMA CheckActiveMoves ==
  ASSUME ThreadsOK, NEW h \in Threads, CheckActive(h)
  PROVE  /\ h = Drainer /\ Quiet(h, "active", {"component", "pop"})
         /\ At(h)' = "component" => episodes[th[h].ep].state = "active"
<1>1. Doing(h, "active")
  BY DEF CheckActive
<1>2. Stands(h, "active") /\ h = Drainer
  BY <1>1, DoingStands, DrainerStep
<1>3. "pop" \in EndsOf(h)
  BY <1>2 DEF EndsOf, MaintenanceEnds
<1>4. ShapeOf(h, NextJob) /\ NextJob # << >> /\ Head(NextJob) = "pop"
  BY <1>3, OneStep DEF NextJob
<1>5. CASE episodes[th[h].ep].state = "active"
  <2> DEFINE p == <<"component", "lock", "enter", "leave">>
  <2>1. p \in Seq(Steps)
    <3>1. "component" \in Steps /\ "lock" \in Steps /\ "enter" \in Steps /\ "leave" \in Steps
      BY DEF Steps
    <3> QED BY <3>1, TupleTypes
  <2>2. Len(p) = 4 /\ p[1] = "component" /\ p[2] = "lock" /\ p[3] = "enter" /\ p[4] = "leave"
    OBVIOUS
  <2>3. Maintenance = p
    BY DEF Maintenance
  <2> HIDE DEF p
  <2>4. Linked(p, PairsOf(h))
    <3> SUFFICES ASSUME NEW i \in 1..Len(p) - 1 PROVE <<p[i], p[i + 1]>> \in PairsOf(h)
      BY DEF Linked
    <3>1. (i = 1 /\ i + 1 = 2) \/ (i = 2 /\ i + 1 = 3) \/ (i = 3 /\ i + 1 = 4)
      BY <2>2
    <3>2. <<"component", "lock">> \in PairsOf(h) /\ <<"lock", "enter">> \in PairsOf(h)
          /\ <<"enter", "leave">> \in PairsOf(h)
      BY <1>2 DEF PairsOf, MaintenancePairs
    <3> QED BY <2>2, <3>1, <3>2
  <2>5. Len(p) # 0 /\ <<p[Len(p)], Head(NextJob)>> \in PairsOf(h)
    BY <1>2, <1>4, <2>2 DEF PairsOf, MaintenancePairs
  <2> DEFINE t == p \o NextJob
  <2>6. ShapeOf(h, t) /\ t # << >> /\ Head(t) = "component"
    BY <1>4, <2>1, <2>2, <2>4, <2>5, ShapePut DEF ShapeOf
  <2> HIDE DEF t
  <2>7. Go(h, t)
    BY <1>5, <2>3 DEF CheckActive, t
  <2>8. Quiet(h, "active", {"component"})
    BY <1>1, <2>6, <2>7, GoQuiet
  <2> QED BY <1>2, <1>5, <2>8 DEF Quiet
<1>6. CASE episodes[th[h].ep].state # "active"
  <2>1. Go(h, NextJob)
    BY <1>6 DEF CheckActive
  <2>2. Quiet(h, "active", {"pop"})
    BY <1>1, <1>4, <2>1, GoQuiet
  <2> QED BY <1>2, <2>2 DEF Quiet
<1> QED BY <1>5, <1>6

LEMMA UseAnswerMoves ==
  ASSUME ThreadsOK, NEW h \in Threads, UseAnswer(h)
  PROVE  \/ Quiet(h, "component", {"lock", "entail", "rewrite"}) /\ UNCHANGED condition
         \/ Falls(h, "component")
<1>1. Doing(h, "component")
  BY DEF UseAnswer
<1>2. Stands(h, "component")
  BY <1>1, DoingStands
<1>3. CASE Handle(h)
  BY <1>1, <1>3, HandleFalls
<1>4. ASSUME NEW helped, th' = [th EXCEPT ![h].script = Rest(h), ![h].helped = helped], UNCHANGED condition
      PROVE  Quiet(h, "component", {"lock", "entail", "rewrite"})
  <2>1. FollowUps(h, "component") \subseteq {"lock", "entail", "rewrite"}
    BY DEF FollowUps, PairsOf, EndsOf, CallbackPairs, CallbackEnds, MaintenancePairs, MaintenanceEnds
  <2>2. ShapeOf(h, Rest(h)) /\ Rest(h) # << >> /\ Head(Rest(h)) \in {"lock", "entail", "rewrite"}
    BY <1>2, <2>1, RestShape
  <2> DEFINE r == [th[h] EXCEPT !.script = Rest(h), !.helped = helped]
  <2>3. DOMAIN r = Fields /\ r.hook = th[h].hook /\ r.lock = 0 /\ r.script = Rest(h)
        /\ r.warned = th[h].warned /\ r.marker = th[h].marker /\ r.session = th[h].session /\ r.num = th[h].num /\ r.ep = th[h].ep /\ r.answer = th[h].answer
    BY <1>2 DEF Stands, Fields
  <2>4. th' = [th EXCEPT ![h] = r]
    BY <1>4
  <2> HIDE DEF r
  <2>5. Become(h, r)
    BY <2>2, <2>3, <2>4 DEF Become
  <2>6. ThreadsOK' /\ Alone(h) /\ At(h)' = Head(Rest(h)) /\ th'[h] = r
    BY <1>2, <2>2, <2>3, <2>5, FreshMoves
  <2> QED BY <1>2, <2>2, <2>3, <2>6 DEF Quiet, Keeps, Silent
<1>5. \/ Handle(h)
      \/ \E helped : th' = [th EXCEPT ![h].script = Rest(h), ![h].helped = helped] /\ UNCHANGED condition
  BY DEF UseAnswer
<1> QED BY <1>3, <1>4, <1>5

LEMMA InjectMoves ==
  ASSUME ThreadsOK, NEW h \in Threads, Inject(h)
  PROVE  /\ h # Drainer
         /\ \/ Quiet(h, "inject", {"rest"}) /\ UNCHANGED <<health, reasons, bounds>>
            \/ Falls(h, "inject")
<1>1. Doing(h, "inject")
  BY DEF Inject
<1>2. Stands(h, "inject") /\ h # Drainer
  BY <1>1, DoingStands, CallbackStep
<1>3. CASE Go(h, << >>) /\ UNCHANGED <<health, reasons, bounds>>
  <2> DEFINE r == [th[h] EXCEPT !.script = << >>]
  <2>1. DOMAIN r = Fields /\ r.hook = th[h].hook /\ r.lock = 0 /\ r.script = << >>
    BY <1>2 DEF Stands, Fields
  <2>2. Become(h, r)
    BY <1>3 DEF Go
  <2> HIDE DEF r
  <2>3. ThreadsOK' /\ Alone(h) /\ At(h)' = "rest" /\ th'[h] = Resting
    BY <1>2, <2>1, <2>2, FreshMoves, ShapeNone DEF ShapeOf
  <2> QED BY <1>2, <1>3, <2>3 DEF Quiet, Keeps, Silent
<1>4. CASE Raise(h)
  BY <1>1, <1>2, <1>4, HandleFalls DEF Raise
<1> QED BY <1>3, <1>4 DEF Inject

\* A step that goes on in the lint of a response, or answers without allowing anything.
LintSteps == {"check", "lint", "entail", "enforce", "rewrite", "relint", "record"}

LintMove(h) ==
  /\ h # Drainer /\ ThreadsOK' /\ Alone(h) /\ Keeps(h) /\ Stands(h, At(h)) /\ At(h) \in LintSteps
  /\ At(h)' \in LintSteps \cup {"component", "answer", "rest"}
  /\ th'[h] = Resting \/ th'[h].answer \in {th[h].answer, "block", "deliver"}

LEMMA TakesOn ==
  ASSUME ThreadsOK, NEW h \in Threads, NEW x \in LintSteps, Doing(h, x), NEW r, Become(h, r),
         DOMAIN r = Fields, r.hook = th[h].hook, r.warned = th[h].warned, r.marker = th[h].marker,
         r.session = th[h].session, r.num = th[h].num,
         r.ep = th[h].ep, r.answer = th[h].answer, r.lock = th[h].lock,
         ShapeOf(h, r.script), r.script # << >>, Head(r.script) \in LintSteps \cup {"component"}
  PROVE  LintMove(h) /\ th'[h] = r
<1>1. Stands(h, x) /\ h # Drainer
  BY DoingStands, CallbackStep DEF LintSteps
<1>2. At(h) = x /\ th[h].lock = 0
  BY <1>1 DEF Stands, LintSteps
<1>3. ThreadsOK' /\ Alone(h) /\ At(h)' = Head(r.script) /\ th'[h] = r
  BY <1>1, <1>2, FreshMoves
<1> QED BY <1>1, <1>2, <1>3 DEF LintMove, Keeps

LEMMA Answers ==
  ASSUME ThreadsOK, NEW h \in Threads, NEW x \in LintSteps, Doing(h, x),
         NEW a \in {"block", "deliver"}, Answer(h, a)
  PROVE  LintMove(h)
<1>1. Stands(h, x) /\ h # Drainer
  BY DoingStands, CallbackStep DEF LintSteps
<1>2. /\ ThreadsOK' /\ Alone(h) /\ At(h)' = "answer" /\ Keeps(h)
      /\ th'[h] = [th[h] EXCEPT !.script = <<"answer">>, !.lock = 0, !.answer = a]
  BY <1>1, AnswerMoves
<1>3. th'[h].answer = a
  BY <1>1, <1>2 DEF Stands, Fields
<1>4. At(h) = x
  BY <1>1 DEF Stands
<1> QED BY <1>1, <1>2, <1>3, <1>4 DEF LintMove

LEMMA CheckHealthMoves ==
  ASSUME ThreadsOK, NEW h \in Threads, CheckHealth(h)
  PROVE  LintMove(h)
<1>1. Doing(h, "check") /\ "check" \in LintSteps
  BY DEF CheckHealth, LintSteps
<1>2. Stands(h, "check") /\ h # Drainer /\ At(h) = "check"
  BY <1>1, DoingStands, CallbackStep DEF Stands
<1>3. CASE Answer(h, "block")
  BY <1>1, <1>3, Answers
<1>4. CASE On(h)
  <2>1. FollowUps(h, "check") \subseteq {"lint"}
    BY <1>2 DEF FollowUps, PairsOf, EndsOf, CallbackPairs, CallbackEnds
  <2>2. Quiet(h, "check", FollowUps(h, "check"))
    BY <1>1, <1>4, OnQuiet
  <2> QED BY <1>1, <1>2, <2>1, <2>2 DEF Quiet, Silent, LintMove, LintSteps
<1> QED BY <1>3, <1>4 DEF CheckHealth

LEMMA LintResponseMoves ==
  ASSUME ThreadsOK, NEW h \in Threads, LintResponse(h)
  PROVE  LintMove(h)
<1>1. Doing(h, "lint") /\ "lint" \in LintSteps
  BY DEF LintResponse, LintSteps
<1>2. Stands(h, "lint") /\ h # Drainer
  BY <1>1, DoingStands, CallbackStep
<1>3. ASSUME NEW text, NEW open, NEW status, NEW seen, NEW s,
             ShapeOf(h, s), s # << >>, Head(s) \in LintSteps \cup {"component"},
             Become(h, [th[h] EXCEPT !.script = s, !.text = text, !.open = open, !.snap = status, !.seen = seen])
      PROVE  LintMove(h)
  <2> DEFINE r == [th[h] EXCEPT !.script = s, !.text = text, !.open = open, !.snap = status, !.seen = seen]
  <2>1. /\ DOMAIN r = Fields /\ r.hook = th[h].hook /\ r.warned = th[h].warned /\ r.marker = th[h].marker
  /\ r.session = th[h].session /\ r.num = th[h].num
        /\ r.ep = th[h].ep /\ r.answer = th[h].answer /\ r.lock = th[h].lock /\ r.script = s
    BY <1>2 DEF Stands, Fields
  <2>2. Become(h, r)
    BY <1>3
  <2> HIDE DEF r
  <2> QED BY <1>1, <1>3, <2>1, <2>2, TakesOn
<1>4. ShapeOf(h, <<"enforce">>) /\ <<"enforce">> # << >> /\ Head(<<"enforce">>) = "enforce"
  <2>1. "enforce" \in EndsOf(h)
    BY <1>2 DEF EndsOf, CallbackEnds
  <2> QED BY <2>1, OneStep
<1>5. /\ ShapeOf(h, <<"component", "entail", "enforce">>) /\ <<"component", "entail", "enforce">> # << >>
      /\ Head(<<"component", "entail", "enforce">>) = "component"
  <2>1. /\ "component" \in Steps /\ "entail" \in Steps /\ "enforce" \in Steps
        /\ <<"component", "entail">> \in PairsOf(h) /\ <<"entail", "enforce">> \in PairsOf(h)
        /\ "enforce" \in EndsOf(h)
    BY <1>2 DEF Steps, PairsOf, EndsOf, CallbackPairs, CallbackEnds
  <2> QED BY <2>1, ShapeThree DEF ShapeOf
<1>6. PICK text \in Texts, status \in Statuses, s \in {<<"enforce">>, <<"component", "entail", "enforce">>} :
        Become(h, [th[h] EXCEPT !.script = s, !.text = Plain(text), !.open = Unsupported(Plain(text), status, TRUE),
                                !.snap = status, !.seen = Seen(status)])
  BY DEF LintResponse
<1>7. ShapeOf(h, s) /\ s # << >> /\ Head(s) \in LintSteps \cup {"component"}
  BY <1>4, <1>5, <1>6 DEF LintSteps
<1> QED BY <1>3, <1>6, <1>7

LEMMA EntailMoves ==
  ASSUME ThreadsOK, NEW h \in Threads, Entail(h)
  PROVE  LintMove(h)
<1>1. Doing(h, "entail") /\ "entail" \in LintSteps
  BY DEF Entail, LintSteps
<1>2. Stands(h, "entail") /\ h # Drainer
  BY <1>1, DoingStands, CallbackStep
<1>3. FollowUps(h, "entail") \subseteq {"enforce"}
  BY <1>2 DEF FollowUps, PairsOf, EndsOf, CallbackPairs, CallbackEnds
<1>4. ShapeOf(h, Rest(h)) /\ Rest(h) # << >> /\ Head(Rest(h)) = "enforce"
  BY <1>2, <1>3, RestShape
<1>5. PICK entailed \in SUBSET Entailable(th[h].text, th[h].snap, TRUE) :
        Become(h, [th[h] EXCEPT !.script = Rest(h), !.open = @ \ entailed, !.snap = << >>, !.helped = FALSE])
  BY DEF Entail
<1> DEFINE r == [th[h] EXCEPT !.script = Rest(h), !.open = @ \ entailed, !.snap = << >>, !.helped = FALSE]
<1>6. /\ DOMAIN r = Fields /\ r.hook = th[h].hook /\ r.warned = th[h].warned /\ r.marker = th[h].marker
/\ r.session = th[h].session /\ r.num = th[h].num
      /\ r.ep = th[h].ep /\ r.answer = th[h].answer /\ r.lock = th[h].lock /\ r.script = Rest(h)
  BY <1>2 DEF Stands, Fields
<1>7. Become(h, r)
  BY <1>5
<1> HIDE DEF r
<1>8. ShapeOf(h, r.script) /\ r.script # << >> /\ Head(r.script) \in LintSteps \cup {"component"}
  BY <1>4, <1>6 DEF LintSteps
<1> QED BY <1>1, <1>6, <1>7, <1>8, TakesOn

LEMMA EnforceMoves ==
  ASSUME ThreadsOK, NEW h \in Threads, Enforce(h)
  PROVE  LintMove(h)
<1>1. Doing(h, "enforce") /\ "enforce" \in LintSteps
  BY DEF Enforce, LintSteps
<1>2. Stands(h, "enforce") /\ h # Drainer
  BY <1>1, DoingStands, CallbackStep
<1>3. ShapeOf(h, <<"record">>) /\ <<"record">> # << >> /\ Head(<<"record">>) = "record"
  <2>1. "record" \in EndsOf(h)
    BY <1>2 DEF EndsOf, CallbackEnds
  <2> QED BY <2>1, OneStep
<1>4. /\ ShapeOf(h, <<"component", "rewrite">>) /\ <<"component", "rewrite">> # << >>
      /\ Head(<<"component", "rewrite">>) = "component"
  <2>1. /\ "component" \in Steps /\ "rewrite" \in Steps
        /\ <<"component", "rewrite">> \in PairsOf(h) /\ "rewrite" \in EndsOf(h)
    BY <1>2 DEF Steps, PairsOf, EndsOf, CallbackPairs, CallbackEnds
  <2> QED BY <2>1, ShapeTwo DEF ShapeOf
<1>5. ASSUME NEW s \in {<<"record">>, <<"component", "rewrite">>}, NEW r,
             r \in {[th[h] EXCEPT !.script = s], [th[h] EXCEPT !.script = s, !.annotated = TRUE]}, Become(h, r)
      PROVE  LintMove(h)
  <2>1. /\ DOMAIN r = Fields /\ r.hook = th[h].hook /\ r.warned = th[h].warned /\ r.marker = th[h].marker
  /\ r.session = th[h].session /\ r.num = th[h].num
        /\ r.ep = th[h].ep /\ r.answer = th[h].answer /\ r.lock = th[h].lock /\ r.script = s
    BY <1>2, <1>5 DEF Stands, Fields
  <2>2. ShapeOf(h, r.script) /\ r.script # << >> /\ Head(r.script) \in LintSteps \cup {"component"}
    BY <1>3, <1>4, <1>5, <2>1 DEF LintSteps
  <2> QED BY <1>1, <1>5, <2>1, <2>2, TakesOn
<1>6. CASE Go(h, <<"record">>)
  BY <1>5, <1>6 DEF Go
<1>7. CASE Become(h, [th[h] EXCEPT !.script = <<"record">>, !.annotated = TRUE])
  BY <1>5, <1>7
<1>8. CASE Answer(h, "block")
  BY <1>1, <1>8, Answers
<1>9. CASE Go(h, <<"component", "rewrite">>)
  BY <1>5, <1>9 DEF Go
<1> QED BY <1>6, <1>7, <1>8, <1>9 DEF Enforce

LEMMA RewriteMoves ==
  ASSUME ThreadsOK, NEW h \in Threads, Rewrite(h)
  PROVE  LintMove(h)
<1>1. Doing(h, "rewrite") /\ "rewrite" \in LintSteps
  BY DEF Rewrite, LintSteps
<1>2. Stands(h, "rewrite") /\ h # Drainer
  BY <1>1, DoingStands, CallbackStep
<1>3. ASSUME NEW s \in {<<"record">>, <<"relint">>}
      PROVE  ShapeOf(h, s) /\ s # << >> /\ Head(s) \in LintSteps \cup {"component"}
  <2>1. "record" \in EndsOf(h) /\ "relint" \in EndsOf(h)
    BY <1>2 DEF EndsOf, CallbackEnds
  <2>2. ShapeOf(h, <<"record">>) /\ <<"record">> # << >> /\ Head(<<"record">>) = "record"
    BY <2>1, OneStep
  <2>3. ShapeOf(h, <<"relint">>) /\ <<"relint">> # << >> /\ Head(<<"relint">>) = "relint"
    BY <2>1, OneStep
  <2> QED BY <2>2, <2>3 DEF LintSteps
<1>4. CASE th[h].helped
  <2>1. PICK text \in Texts, status \in Statuses :
          LET again == Plain(text)
              passes == Passes(again, status, TRUE)
              marked == MarkUnsupported(again, Unsupported(again, status, TRUE))
          IN Become(h, [th[h] EXCEPT !.script = IF passes THEN <<"record">> ELSE <<"relint">>, !.open = {},
                                     !.text = IF passes THEN again ELSE marked, !.helped = FALSE,
                                     !.seen = @ \cup Seen(status)])
    BY <1>4 DEF Rewrite
  <2>2. PICK s \in {<<"record">>, <<"relint">>} : \E t :
          Become(h, [th[h] EXCEPT !.script = s, !.open = {}, !.text = t, !.helped = FALSE,
                                  !.seen = @ \cup Seen(status)])
    BY <2>1
  <2>3. PICK t : Become(h, [th[h] EXCEPT !.script = s, !.open = {}, !.text = t, !.helped = FALSE,
                                         !.seen = @ \cup Seen(status)])
    BY <2>2
  <2> DEFINE r == [th[h] EXCEPT !.script = s, !.open = {}, !.text = t, !.helped = FALSE,
                                !.seen = @ \cup Seen(status)]
  <2>4. /\ DOMAIN r = Fields /\ r.hook = th[h].hook /\ r.warned = th[h].warned /\ r.marker = th[h].marker
  /\ r.session = th[h].session /\ r.num = th[h].num
        /\ r.ep = th[h].ep /\ r.answer = th[h].answer /\ r.lock = th[h].lock /\ r.script = s
    BY <1>2 DEF Stands, Fields
  <2>5. Become(h, r)
    BY <2>3
  <2> HIDE DEF r
  <2>6. ShapeOf(h, r.script) /\ r.script # << >> /\ Head(r.script) \in LintSteps \cup {"component"}
    BY <1>3, <2>4
  <2> QED BY <1>1, <2>4, <2>5, <2>6, TakesOn
<1>5. CASE ~th[h].helped
  <2> DEFINE r == [th[h] EXCEPT !.script = <<"relint">>, !.open = {},
                                !.text = MarkUnsupported(@, th[h].open)]
  <2>4. /\ DOMAIN r = Fields /\ r.hook = th[h].hook /\ r.warned = th[h].warned /\ r.marker = th[h].marker
  /\ r.session = th[h].session /\ r.num = th[h].num
        /\ r.ep = th[h].ep /\ r.answer = th[h].answer /\ r.lock = th[h].lock /\ r.script = <<"relint">>
    BY <1>2 DEF Stands, Fields
  <2>5. Become(h, r)
    BY <1>5 DEF Rewrite
  <2> HIDE DEF r
  <2>6. ShapeOf(h, r.script) /\ r.script # << >> /\ Head(r.script) \in LintSteps \cup {"component"}
    BY <1>3, <2>4
  <2> QED BY <1>1, <2>4, <2>5, <2>6, TakesOn
<1> QED BY <1>4, <1>5

LEMMA RelintMoves ==
  ASSUME ThreadsOK, NEW h \in Threads, Relint(h)
  PROVE  LintMove(h)
<1>1. Doing(h, "relint") /\ "relint" \in LintSteps
  BY DEF Relint, LintSteps
<1>2. Stands(h, "relint") /\ h # Drainer
  BY <1>1, DoingStands, CallbackStep
<1>3. "record" \in EndsOf(h)
  BY <1>2 DEF EndsOf, CallbackEnds
<1>4. ShapeOf(h, <<"record">>) /\ <<"record">> # << >> /\ Head(<<"record">>) = "record"
  BY <1>3, OneStep
<1>5. CASE Answer(h, "block")
  BY <1>1, <1>5, Answers
<1>6. ASSUME NEW checked, NEW status,
             Become(h, [th[h] EXCEPT !.script = <<"record">>, !.text = checked, !.seen = @ \cup Seen(status)])
      PROVE  LintMove(h)
  <2> DEFINE r == [th[h] EXCEPT !.script = <<"record">>, !.text = checked, !.seen = @ \cup Seen(status)]
  <2>4. /\ DOMAIN r = Fields /\ r.hook = th[h].hook /\ r.warned = th[h].warned /\ r.marker = th[h].marker
  /\ r.session = th[h].session /\ r.num = th[h].num
        /\ r.ep = th[h].ep /\ r.answer = th[h].answer /\ r.lock = th[h].lock /\ r.script = <<"record">>
    BY <1>2 DEF Stands, Fields
  <2>5. Become(h, r)
    BY <1>6
  <2> HIDE DEF r
  <2>6. ShapeOf(h, r.script) /\ r.script # << >> /\ Head(r.script) \in LintSteps \cup {"component"}
    BY <1>4, <2>4 DEF LintSteps
  <2> QED BY <1>1, <2>4, <2>5, <2>6, TakesOn
<1> QED BY <1>5, <1>6 DEF Relint

LEMMA RecordLintMoves ==
  ASSUME ThreadsOK, NEW h \in Threads, RecordLint(h)
  PROVE  LintMove(h) /\ (UNCHANGED condition \/ Handle(h))
<1>1. Doing(h, "record") /\ "record" \in LintSteps
  BY DEF RecordLint, LintSteps
<1>2. Stands(h, "record") /\ h # Drainer /\ At(h) = "record"
  BY <1>1, DoingStands, CallbackStep DEF Stands
<1>3. CASE Answer(h, "deliver") /\ UNCHANGED condition
  BY <1>1, <1>3, Answers
<1>4. CASE Handle(h)
  <2>1. Falls(h, "record")
    BY <1>1, <1>4, HandleFalls
  <2> QED BY <1>1, <1>2, <1>4, <2>1 DEF Falls, Landings, LintMove
<1> QED BY <1>3, <1>4 DEF RecordLint, Raise

LEMMA ArchiveMoves ==
  ASSUME ThreadsOK, NEW h \in Threads, Archive(h)
  PROVE  /\ h # Drainer
         /\ \/ /\ Quiet(h, "archive", {"forget"}) /\ th'[h].script # << >> /\ th'[h].ep = th[h].ep
               /\ UNCHANGED <<condition, bounds>>
               /\ episodes' = [episodes EXCEPT ![th[h].ep].state = "finalized", ![th[h].ep].key = "closed"]
            \/ Falls(h, "archive") /\ UNCHANGED episodes
<1>1. Doing(h, "archive")
  BY DEF Archive
<1>2. Stands(h, "archive") /\ h # Drainer
  BY <1>1, DoingStands, CallbackStep
<1>3. CASE /\ On(h) /\ UNCHANGED <<condition, bounds>>
           /\ episodes' = [episodes EXCEPT ![th[h].ep].state = "finalized", ![th[h].ep].key = "closed"]
  <2>1. FollowUps(h, "archive") \subseteq {"forget"}
    BY <1>2 DEF FollowUps, PairsOf, EndsOf, CallbackPairs, CallbackEnds
  <2>2. Quiet(h, "archive", FollowUps(h, "archive"))
    BY <1>1, <1>3, OnQuiet
  <2>3. At(h)' = "forget" /\ Keeps(h)
    BY <2>1, <2>2 DEF Quiet
  <2>4. th'[h].script # << >>
    BY <2>3 DEF At
  <2>5. th'[h] # Resting
    BY <2>4, RestingOK
  <2> QED BY <1>2, <1>3, <2>1, <2>2, <2>3, <2>4, <2>5 DEF Quiet, Keeps
<1>4. CASE Raise(h) /\ UNCHANGED episodes
  BY <1>1, <1>2, <1>4, HandleFalls DEF Raise
<1> QED BY <1>3, <1>4 DEF Archive

LEMMA ForgetMoves ==
  ASSUME ThreadsOK, NEW h \in Threads, Forget(h)
  PROVE  Quiet(h, "forget", {"rest"}) /\ h # Drainer /\ th'[h] = Resting
<1>1. Doing(h, "forget") /\ On(h)
  BY DEF Forget
<1>2. Stands(h, "forget") /\ h # Drainer
  BY <1>1, DoingStands, CallbackStep
<1>3. FollowUps(h, "forget") \subseteq {"rest"}
  BY <1>2 DEF FollowUps, PairsOf, EndsOf, CallbackPairs, CallbackEnds
<1>4. Quiet(h, "forget", FollowUps(h, "forget"))
  BY <1>1, OnQuiet
<1>5. Quiet(h, "forget", {"rest"})
  BY <1>3, <1>4 DEF Quiet
<1>6. th'[h].script = << >>
  <2>1. At(h)' = "rest"
    BY <1>5 DEF Quiet
  <2>2. CASE th'[h].script # << >>
    <3>1. ThreadOK(h)'
      BY <1>5 DEF Quiet, ThreadsOK
    <3>2. ShapeOf(h, th'[h].script)
      BY <3>1 DEF ThreadOK, RecordOK
    <3>3. Head(th'[h].script) \in Steps
      BY <2>2, <3>2, HeadIsString
    <3> QED BY <2>1, <2>2, <3>3 DEF At, Steps
  <2> QED BY <2>2
<1>7. th'[h] = Resting
  BY <1>5, <1>6 DEF Quiet, ThreadsOK, ThreadOK
<1> QED BY <1>2, <1>5, <1>7

-----------------------------------------------------------------------------
(* The world around the threads, and every step there is.                  *)

LEMMA LongTuples ==
  ASSUME NEW T
  PROVE  /\ \A x, y, z, u, v \in T : <<x, y, z, u, v>> \in Seq(T)
         /\ \A x, y, z, u, v, w \in T : <<x, y, z, u, v, w>> \in Seq(T)
<1>1. ASSUME NEW x \in T, NEW y \in T, NEW z \in T, NEW u \in T, NEW v \in T
      PROVE  <<x, y, z, u, v>> \in Seq(T)
  OBVIOUS
<1>2. ASSUME NEW x \in T, NEW y \in T, NEW z \in T, NEW u \in T, NEW v \in T, NEW w \in T
      PROVE  <<x, y, z, u, v, w>> \in Seq(T)
  OBVIOUS
<1> QED BY <1>1, <1>2

\* A whole script is a list of steps that follow one another.
LEMMA ShapeList ==
  ASSUME NEW pairs, NEW ends, NEW p \in Seq(Steps), Len(p) # 0, Linked(p, pairs), p[Len(p)] \in ends
  PROVE  Shape(p, pairs, ends) /\ p # << >> /\ Head(p) = p[1]
<1>1. p # << >> /\ Head(p) = p[1]
  BY Starts
<1> QED BY <1>1 DEF Shape, Linked

LEMMA ScriptShapes ==
  ASSUME NEW h, h # Drainer, NEW hook \in Callbacks
  PROVE  /\ ShapeOf(h, Script(hook)) /\ Script(hook) # << >>
         /\ Head(Script(hook)) = "resolve"
<1> DEFINE p == Script(hook)
<1>0. /\ "resolve" \in Steps /\ "remember" \in Steps /\ "mark" \in Steps /\ "lock" \in Steps
      /\ "enter" \in Steps /\ "leave" \in Steps /\ "gate" \in Steps /\ "answer" \in Steps
      /\ "promote" \in Steps /\ "inject" \in Steps /\ "check" \in Steps /\ "lint" \in Steps
      /\ "archive" \in Steps /\ "forget" \in Steps
  BY DEF Steps
<1>1. ASSUME NEW q \in Seq(Steps), Len(q) # 0, q[1] = "resolve", Linked(q, PairsOf(h)),
             q[Len(q)] \in EndsOf(h), p = q
      PROVE  ShapeOf(h, p) /\ p # << >> /\ Head(p) = "resolve"
  BY <1>1, ShapeList DEF ShapeOf
<1>2. CASE hook = "pre_llm_call"
  <2> DEFINE q == PreLlmCall
  <2>1. q \in Seq(Steps)
    BY <1>0, LongTuples DEF PreLlmCall
  <2>2. /\ Len(q) = 6 /\ q[1] = "resolve" /\ q[2] = "remember" /\ q[3] = "mark" /\ q[4] = "lock"
        /\ q[5] = "enter" /\ q[6] = "leave"
    BY DEF PreLlmCall
  <2>3. p = q
    BY <1>2 DEF Script
  <2> HIDE DEF p, q
  <2>4. ASSUME NEW i \in 1..Len(q) - 1 PROVE <<q[i], q[i + 1]>> \in PairsOf(h)
    <3>1. i = 1 \/ i = 2 \/ i = 3 \/ i = 4 \/ i = 5
      BY <2>2
    <3>2. /\ <<"resolve", "remember">> \in PairsOf(h) /\ <<"remember", "mark">> \in PairsOf(h)
          /\ <<"mark", "lock">> \in PairsOf(h) /\ <<"lock", "enter">> \in PairsOf(h)
          /\ <<"enter", "leave">> \in PairsOf(h)
      BY DEF PairsOf, CallbackPairs
    <3> QED BY <2>2, <3>1, <3>2
  <2>5. Linked(q, PairsOf(h)) /\ Len(q) # 0 /\ q[Len(q)] \in EndsOf(h)
    BY <2>2, <2>4 DEF Linked, EndsOf, CallbackEnds
  <2> QED BY <1>1, <2>1, <2>2, <2>3, <2>5 DEF p
<1>3. CASE hook = "pre_tool_call"
  <2> DEFINE q == PreToolCall
  <2>1. q \in Seq(Steps)
    BY <1>0, LongTuples DEF PreToolCall
  <2>2. /\ Len(q) = 6 /\ q[1] = "resolve" /\ q[2] = "lock" /\ q[3] = "enter" /\ q[4] = "leave"
        /\ q[5] = "gate" /\ q[6] = "answer"
    BY DEF PreToolCall
  <2>3. p = q
    BY <1>3 DEF Script
  <2> HIDE DEF p, q
  <2>4. ASSUME NEW i \in 1..Len(q) - 1 PROVE <<q[i], q[i + 1]>> \in PairsOf(h)
    <3>1. i = 1 \/ i = 2 \/ i = 3 \/ i = 4 \/ i = 5
      BY <2>2
    <3>2. /\ <<"resolve", "lock">> \in PairsOf(h) /\ <<"lock", "enter">> \in PairsOf(h)
          /\ <<"enter", "leave">> \in PairsOf(h) /\ <<"leave", "gate">> \in PairsOf(h)
          /\ <<"gate", "answer">> \in PairsOf(h)
      BY DEF PairsOf, CallbackPairs
    <3> QED BY <2>2, <3>1, <3>2
  <2>5. Linked(q, PairsOf(h)) /\ Len(q) # 0 /\ q[Len(q)] \in EndsOf(h)
    BY <2>2, <2>4 DEF Linked, EndsOf, CallbackEnds
  <2> QED BY <1>1, <2>1, <2>2, <2>3, <2>5 DEF p
<1>4. CASE hook = "transform_tool_result"
  <2> DEFINE q == TransformToolResult
  <2>1. q \in Seq(Steps)
    BY <1>0, TupleTypes DEF TransformToolResult
  <2>2. Len(q) = 4 /\ q[1] = "resolve" /\ q[2] = "lock" /\ q[3] = "enter" /\ q[4] = "leave"
    BY DEF TransformToolResult
  <2>3. p = q
    BY <1>4 DEF Script
  <2> HIDE DEF p, q
  <2>4. ASSUME NEW i \in 1..Len(q) - 1 PROVE <<q[i], q[i + 1]>> \in PairsOf(h)
    <3>1. i = 1 \/ i = 2 \/ i = 3
      BY <2>2
    <3>2. /\ <<"resolve", "lock">> \in PairsOf(h) /\ <<"lock", "enter">> \in PairsOf(h)
          /\ <<"enter", "leave">> \in PairsOf(h)
      BY DEF PairsOf, CallbackPairs
    <3> QED BY <2>2, <3>1, <3>2
  <2>5. Linked(q, PairsOf(h)) /\ Len(q) # 0 /\ q[Len(q)] \in EndsOf(h)
    BY <2>2, <2>4 DEF Linked, EndsOf, CallbackEnds
  <2> QED BY <1>1, <2>1, <2>2, <2>3, <2>5 DEF p
<1>5. CASE hook = "llm_request"
  <2> DEFINE q == LlmRequest
  <2>1. q \in Seq(Steps)
    BY <1>0, LongTuples DEF LlmRequest
  <2>2. /\ Len(q) = 6 /\ q[1] = "resolve" /\ q[2] = "promote" /\ q[3] = "lock" /\ q[4] = "enter"
        /\ q[5] = "leave" /\ q[6] = "inject"
    BY DEF LlmRequest
  <2>3. p = q
    BY <1>5 DEF Script
  <2> HIDE DEF p, q
  <2>4. ASSUME NEW i \in 1..Len(q) - 1 PROVE <<q[i], q[i + 1]>> \in PairsOf(h)
    <3>1. i = 1 \/ i = 2 \/ i = 3 \/ i = 4 \/ i = 5
      BY <2>2
    <3>2. /\ <<"resolve", "promote">> \in PairsOf(h) /\ <<"promote", "lock">> \in PairsOf(h)
          /\ <<"lock", "enter">> \in PairsOf(h) /\ <<"enter", "leave">> \in PairsOf(h)
          /\ <<"leave", "inject">> \in PairsOf(h)
      BY DEF PairsOf, CallbackPairs
    <3> QED BY <2>2, <3>1, <3>2
  <2>5. Linked(q, PairsOf(h)) /\ Len(q) # 0 /\ q[Len(q)] \in EndsOf(h)
    BY <2>2, <2>4 DEF Linked, EndsOf, CallbackEnds
  <2> QED BY <1>1, <2>1, <2>2, <2>3, <2>5 DEF p
<1>6. CASE hook = "transform_llm_output"
  <2> DEFINE q == TransformLlmOutput
  <2>1. q \in Seq(Steps)
    BY <1>0, TupleTypes DEF TransformLlmOutput
  <2>2. Len(q) = 3 /\ q[1] = "resolve" /\ q[2] = "check" /\ q[3] = "lint"
    BY DEF TransformLlmOutput
  <2>3. p = q
    BY <1>6 DEF Script
  <2> HIDE DEF p, q
  <2>4. ASSUME NEW i \in 1..Len(q) - 1 PROVE <<q[i], q[i + 1]>> \in PairsOf(h)
    <3>1. i = 1 \/ i = 2
      BY <2>2
    <3>2. <<"resolve", "check">> \in PairsOf(h) /\ <<"check", "lint">> \in PairsOf(h)
      BY DEF PairsOf, CallbackPairs
    <3> QED BY <2>2, <3>1, <3>2
  <2>5. Linked(q, PairsOf(h)) /\ Len(q) # 0 /\ q[Len(q)] \in EndsOf(h)
    BY <2>2, <2>4 DEF Linked, EndsOf, CallbackEnds
  <2> QED BY <1>1, <2>1, <2>2, <2>3, <2>5 DEF p
<1>7. CASE hook = "on_session_finalize"
  <2> DEFINE q == OnSessionFinalize
  <2>1. q \in Seq(Steps)
    BY <1>0, TupleTypes DEF OnSessionFinalize
  <2>2. Len(q) = 3 /\ q[1] = "resolve" /\ q[2] = "archive" /\ q[3] = "forget"
    BY DEF OnSessionFinalize
  <2>3. p = q
    BY <1>7 DEF Script
  <2> HIDE DEF p, q
  <2>4. ASSUME NEW i \in 1..Len(q) - 1 PROVE <<q[i], q[i + 1]>> \in PairsOf(h)
    <3>1. i = 1 \/ i = 2
      BY <2>2
    <3>2. <<"resolve", "archive">> \in PairsOf(h) /\ <<"archive", "forget">> \in PairsOf(h)
      BY DEF PairsOf, CallbackPairs
    <3> QED BY <2>2, <3>1, <3>2
  <2>5. Linked(q, PairsOf(h)) /\ Len(q) # 0 /\ q[Len(q)] \in EndsOf(h)
    BY <2>2, <2>4 DEF Linked, EndsOf, CallbackEnds
  <2> QED BY <1>1, <2>1, <2>2, <2>3, <2>5 DEF p
<1> QED BY <1>2, <1>3, <1>4, <1>5, <1>6, <1>7 DEF Callbacks

LEMMA CallbackMoves ==
  ASSUME ThreadsOK, NEW h \in Threads, NEW hook \in Callbacks, NEW session, NEW marker,
         Callback(h, hook, session, marker)
  PROVE  /\ h # Drainer /\ th[h] = Resting /\ ThreadsOK' /\ Alone(h) /\ At(h)' = "resolve"
         /\ th'[h].script # << >> /\ th'[h].hook = hook /\ th'[h].session = session
         /\ th'[h].marker = marker /\ th'[h].ep = 0 /\ th'[h].answer = None /\ th'[h].lock = 0
         /\ th'[h].warned = (hook = "pre_tool_call" /\ "component" \in reasons)
<1>1. h # Drainer /\ th[h].script = << >>
  BY DEF Callback
<1>2. th[h] = Resting
  BY <1>1 DEF ThreadsOK, ThreadOK
<1> DEFINE s == Script(hook)
           r == [Resting EXCEPT !.script = s, !.hook = hook, !.session = session,
                                !.marker = marker, !.warned = hook = "pre_tool_call" /\ "component" \in reasons]
<1>3. /\ DOMAIN r = Fields /\ r.script = s /\ r.hook = hook /\ r.session = session /\ r.marker = marker
      /\ r.ep = 0 /\ r.answer = None /\ r.lock = 0
      /\ r.warned = (hook = "pre_tool_call" /\ "component" \in reasons)
  BY DEF Resting, Fields
<1>4. ShapeOf(h, s) /\ s # << >> /\ Head(s) = "resolve"
  BY <1>1, ScriptShapes
<1>5. th' = [th EXCEPT ![h] = r]
  BY DEF Callback
<1> HIDE DEF r, s
<1>6. RecordOK(h, r)
  BY <1>1, <1>3, <1>4 DEF RecordOK, HooksOf
<1>7. Become(h, r)
  BY <1>3, <1>4, <1>5 DEF Become
<1>8. ThreadsOK' /\ Becomes(h, r)
  BY <1>6, <1>7, BecomeMoves
<1>9. th'[h] = r /\ Alone(h) /\ At(h)' = "resolve"
  BY <1>3, <1>4, <1>8 DEF Becomes, Alone
<1> QED BY <1>1, <1>2, <1>3, <1>4, <1>8, <1>9

LEMMA RestartMoves ==
  ASSUME Restart
  PROVE  ThreadsOK' /\ \A h \in Threads : th'[h] = Resting /\ At(h)' = "rest"
<1>1. th' = [h \in Threads |-> Resting]
  BY DEF Restart
<1>2. DOMAIN th' = Threads /\ \A h \in Threads : th'[h] = Resting
  BY <1>1
<1>3. \A h \in Threads : At(h)' = "rest"
  BY <1>2, RestingOK DEF At
<1>4. \A h \in Threads : ThreadOK(h)'
  BY <1>2, RestingOK DEF ThreadOK
<1> QED BY <1>2, <1>3, <1>4 DEF ThreadsOK

\* What is true of every step of a thread.
Answered(h) ==
  \/ th'[h] = Resting
  \/ th'[h].answer \in {th[h].answer, "block", "deliver"}
  \/ th'[h].answer = "allow" /\ ~Degraded(h)

Others(h) == \A g \in Threads \ {h} : th'[g] = th[g] \/ (g = Drainer /\ th'[g] = Woken /\ At(h) = "start")

Same(h) ==
  \/ th'[h] = Resting
  \/ /\ th'[h].hook = th[h].hook /\ th'[h].warned = th[h].warned /\ th'[h].marker = th[h].marker
     /\ th'[h].session \in {th[h].session, None}
     /\ th'[h].num = th[h].num \/ (At(h) = "count" /\ th'[h].num = episodes[th[h].ep].turn + 1)

Passage(h) == ThreadsOK' /\ Others(h) /\ Same(h) /\ Answered(h) /\ h \in DOMAIN th /\ th[h].script # << >>

LEMMA QuietPasses ==
  ASSUME ThreadsOK, NEW h \in Threads, NEW x, NEW ys, Quiet(h, x, ys)
  PROVE  Passage(h)
BY DEF Quiet, Stands, Passage, Alone, Others, Same, Keeps, Silent, Answered, ThreadsOK

LEMMA FallsPasses ==
  ASSUME ThreadsOK, NEW h \in Threads, NEW x, Falls(h, x)
  PROVE  Passage(h)
BY DEF Falls, Stands, Passage, Alone, Others, Same, Keeps, Answered, ThreadsOK

LEMMA LintPasses ==
  ASSUME ThreadsOK, NEW h \in Threads, LintMove(h)
  PROVE  Passage(h)
BY DEF LintMove, Stands, Passage, Alone, Others, Same, Keeps, Answered, ThreadsOK

LEMMA FindsPasses ==
  ASSUME ThreadsOK, NEW h \in Threads, NEW x, NEW e, Finds(h, x, e)
  PROVE  Passage(h)
BY DEF Finds, Stands, Passage, Alone, Others, Same, Silent, Answered, ThreadsOK

LEMMA StepPasses ==
  ASSUME ThreadsOK, NEW h \in Threads, Step(h)
  PROVE  Passage(h)
<1>0. Drainer \in Threads
  BY RuntimeAssumption
<1>1. CASE Resolve(h)
  BY <1>1, ResolveMoves, QuietPasses, FindsPasses
<1>2. CASE Create(h)
  BY <1>2, CreateMoves, FindsPasses
<1>3. CASE Remember(h)
  BY <1>3, RememberMoves, QuietPasses
<1>4. CASE Mark(h)
  BY <1>4, MarkMoves, QuietPasses
<1>5. CASE Reload(h)
  BY <1>5, ReloadMoves, QuietPasses
<1>6. CASE CountTurn(h)
  BY <1>6, CountTurnMoves DEF Stands, Passage, Alone, Others, Same, Silent, Answered, ThreadsOK
<1>7. CASE AppendTurn(h)
  BY <1>7, AppendTurnMoves, QuietPasses, FallsPasses
<1>8. CASE FindLock(h)
  BY <1>8, FindLockMoves, QuietPasses
<1>9. CASE Enter(h)
  BY <1>9, EnterMoves, QuietPasses
<1>10. CASE Leave(h)
  BY <1>10, LeaveMoves, QuietPasses, FallsPasses
<1>11. CASE Gate(h)
  <2>1. Gate(h) /\ ThreadsOK' /\ Alone(h) /\ Keeps(h) /\ Stands(h, "gate")
    BY <1>11, GateMoves
  <2>2. Answered(h)
    <3>1. PICK answer \in IF Degraded(h) THEN {"block"} ELSE {"allow", "block"} : Answer(h, answer)
      BY <2>1 DEF Gate
    <3>2. th'[h] = [th[h] EXCEPT !.script = <<"answer">>, !.lock = 0, !.answer = answer]
      BY <2>1, <3>1, AnswerMoves, CallbackStep
    <3> QED BY <2>1, <3>1, <3>2 DEF Answered, Stands, Fields
  <2> QED BY <2>1, <2>2 DEF Stands, Passage, Alone, Others, Same, Keeps, ThreadsOK
<1>12. CASE Finish(h)
  BY <1>12, FinishMoves, QuietPasses
<1>13. CASE Promote(h)
  BY <1>13, PromoteMoves, QuietPasses
<1>14. CASE Schedule(h)
  BY <1>14, ScheduleMoves, QuietPasses
<1>15. CASE StartDrainer(h)
  <2>1. CASE Falls(h, "start")
    BY <2>1, FallsPasses
  <2>2. CASE /\ Stands(h, "start") /\ ThreadsOK' /\ th'[Drainer] = Woken /\ h # Drainer
             /\ \A g \in Threads \ {h, Drainer} : th'[g] = th[g]
             /\ Keeps(h) /\ Silent(h)
    BY <2>2 DEF Stands, Passage, Others, Same, Keeps, Silent, Answered, ThreadsOK
  <2> QED BY <1>0, <1>15, <2>1, <2>2, StartDrainerMoves
<1>16. CASE TakeJob(h)
  <2>1. /\ Stands(h, "pop") /\ ThreadsOK' /\ Alone(h)
        /\ \/ th'[h] = Resting
           \/ /\ th'[h].hook = th[h].hook /\ th'[h].warned = th[h].warned
              /\ th'[h].marker = th[h].marker /\ th'[h].session = th[h].session /\ th'[h].num = th[h].num
              /\ th'[h].answer = th[h].answer
    BY <1>16, TakeJobMoves
  <2> QED BY <2>1 DEF Stands, Passage, Alone, Others, Same, Answered, ThreadsOK
<1>17. CASE CheckActive(h)
  BY <1>17, CheckActiveMoves, QuietPasses
<1>18. CASE CallComponent(h)
  <2>1. Doing(h, "component") /\ UNCHANGED th
    BY <1>18 DEF CallComponent
  <2> QED BY <2>1 DEF Doing, Passage, Others, Same, Answered, ThreadsOK, ThreadOK, RecordOK
<1>19. CASE UseAnswer(h)
  BY <1>19, UseAnswerMoves, QuietPasses, FallsPasses
<1>20. CASE Inject(h)
  BY <1>20, InjectMoves, QuietPasses, FallsPasses
<1>21. CASE \/ CheckHealth(h) \/ LintResponse(h) \/ Entail(h) \/ Enforce(h) \/ Rewrite(h) \/ Relint(h)
            \/ RecordLint(h)
  BY <1>21, LintPasses, CheckHealthMoves, LintResponseMoves, EntailMoves, EnforceMoves, RewriteMoves,
     RelintMoves, RecordLintMoves
<1>22. CASE Archive(h)
  BY <1>22, ArchiveMoves, QuietPasses, FallsPasses
<1>23. CASE Forget(h)
  BY <1>23, ForgetMoves, QuietPasses
<1>24. CASE Fail(h)
  BY <1>24, FailMoves, FallsPasses DEF Fallen
<1> QED
  BY <1>1, <1>2, <1>3, <1>4, <1>5, <1>6, <1>7, <1>8, <1>9, <1>10, <1>11, <1>12, <1>13, <1>14, <1>15,
     <1>16, <1>17, <1>18, <1>19, <1>20, <1>21, <1>22, <1>23, <1>24 DEF Step

LEMMA ThreadsKept == ASSUME ThreadsOK, [HostNext]_hostVars PROVE ThreadsOK'
<1>1. CASE \E h \in Threads : Step(h)
  BY <1>1, StepPasses DEF Passage
<1>2. CASE \E h \in Threads, hook \in Hooks, session \in Sessions \cup {None}, marker \in Markers :
             Callback(h, hook, session, marker)
  BY <1>2, CallbackMoves, RuntimeAssumption
<1>3. CASE Restart
  BY <1>3, RestartMoves
<1>4. CASE UNCHANGED th
  BY <1>4 DEF ThreadsOK, ThreadOK, RecordOK
<1>5. UNCHANGED hostVars => UNCHANGED th
  BY DEF hostVars
<1> QED BY <1>1, <1>2, <1>3, <1>4, <1>5 DEF HostNext, Environment

\* Every thread of the process is in a callback's script, or in the maintenance
\* thread's, and has a lock object only between finding and leaving it.
THEOREM ScriptsFollow == HostSpec => []ThreadsOK
<1>1. HostInit => ThreadsOK
  <2> SUFFICES ASSUME HostInit PROVE ThreadsOK
    OBVIOUS
  <2>1. DOMAIN th = Threads /\ \A h \in Threads : th[h] = Resting
    BY DEF HostInit
  <2> QED BY <2>1, RestingOK DEF ThreadsOK, ThreadOK
<1> QED BY <1>1, ThreadsKept, PTL DEF HostSpec

-----------------------------------------------------------------------------
(* FailClosed: reasons of a failed component stay until the process ends,  *)
(* and a process with a reason is degraded.                                *)

Conditions ==
  \/ UNCHANGED <<health, reasons>>
  \/ MarkGlobalFailure
  \/ MarkConfigurationDegraded
  \/ ClearConfigurationDegradation

LEMMA HandleConditions ==
  ASSUME NEW h \in Threads, NEW x, Stands(h, x), Handle(h)
  PROVE  Conditions
BY DEF Stands, HooksOf, Callbacks, Handle, Conditions, condition

LEMMA FallsConditions ==
  ASSUME NEW h \in Threads, NEW x, Falls(h, x)
  PROVE  Conditions
BY HandleConditions DEF Falls

LEMMA StepConditions ==
  ASSUME ThreadsOK, NEW h \in Threads, Step(h)
  PROVE  Conditions
<1>0. Drainer \in Threads
  BY RuntimeAssumption
<1>1. CASE UNCHANGED <<health, reasons>>
  BY <1>1 DEF Conditions
<1>2. CASE Reload(h)
  BY <1>2 DEF Reload, Conditions
<1>3. CASE AppendTurn(h)
  <2>1. UNCHANGED condition \/ Handle(h)
    BY <1>3 DEF AppendTurn, Raise
  <2>2. Doing(h, "append")
    BY <1>3 DEF AppendTurn
  <2> QED BY <1>1, <2>1, <2>2, DoingStands, HandleConditions DEF condition
<1>4. CASE Leave(h)
  BY <1>1, <1>4, LeaveMoves, FallsConditions DEF condition
<1>5. CASE StartDrainer(h)
  BY <1>0, <1>1, <1>5, StartDrainerMoves, FallsConditions DEF condition
<1>6. CASE UseAnswer(h)
  BY <1>1, <1>6, UseAnswerMoves, FallsConditions DEF condition
<1>7. CASE Inject(h)
  BY <1>1, <1>7, InjectMoves, FallsConditions DEF condition
<1>8. CASE RecordLint(h)
  <2>1. Doing(h, "record")
    BY <1>8 DEF RecordLint
  <2> QED BY <1>1, <1>8, <2>1, RecordLintMoves, DoingStands, HandleConditions DEF condition
<1>9. CASE Archive(h)
  BY <1>1, <1>9, ArchiveMoves, FallsConditions DEF condition
<1>10. CASE Forget(h)
  BY <1>1, <1>10 DEF Forget
<1>11. CASE \/ Resolve(h) \/ Create(h) \/ Remember(h) \/ Mark(h) \/ CountTurn(h) \/ FindLock(h)
            \/ Enter(h) \/ Gate(h) \/ Finish(h) \/ Promote(h) \/ Schedule(h)
  BY <1>1, <1>11 DEF Resolve, Create, Remember, Mark, CountTurn, FindLock, Enter, Gate, Finish, Promote,
     Schedule, condition
<1>12. CASE \/ TakeJob(h) \/ CheckActive(h) \/ CallComponent(h) \/ CheckHealth(h) \/ LintResponse(h)
            \/ Entail(h) \/ Enforce(h) \/ Rewrite(h) \/ Relint(h)
  BY <1>1, <1>12 DEF TakeJob, CheckActive, CallComponent, CheckHealth, LintResponse, Entail, Enforce,
     Rewrite, Relint, condition
<1>13. CASE Fail(h)
  BY <1>13, FailMoves, FallsConditions DEF Fallen
<1> QED
  BY <1>2, <1>3, <1>4, <1>5, <1>6, <1>7, <1>8, <1>9, <1>10, <1>11, <1>12, <1>13 DEF Step

HealthOK == health = "healthy" <=> reasons = {}

Warned(h) == th[h].hook = "pre_tool_call" /\ th[h].warned

WarnedOK == \A h \in Threads : Warned(h) => "component" \in reasons /\ th[h].answer # "allow"

LEMMA ConditionsKeep ==
  ASSUME HealthOK, Conditions
  PROVE  HealthOK' /\ ("component" \in reasons => "component" \in reasons')
<1>1. CASE ClearConfigurationDegradation
  <2>1. /\ reasons' = reasons \ {"config"}
        /\ health' = IF reasons \ {"config"} = {} THEN "healthy" ELSE health
    BY <1>1 DEF ClearConfigurationDegradation, StillDegraded
  <2> QED BY <2>1 DEF HealthOK
<1>2. CASE MarkConfigurationDegraded
  BY <1>2 DEF MarkConfigurationDegraded, HealthOK
<1>3. CASE MarkGlobalFailure
  BY <1>3 DEF MarkGlobalFailure, HealthOK
<1> QED BY <1>1, <1>2, <1>3 DEF Conditions, HealthOK

LEMMA RestsUnwarned == ~Resting.warned /\ ~Woken.warned
BY DEF Resting, Woken

LEMMA StepWarned ==
  ASSUME ThreadsOK, HealthOK, WarnedOK, NEW h \in Threads, Step(h)
  PROVE  HealthOK' /\ WarnedOK'
<1>1. Conditions /\ Passage(h)
  BY StepConditions, StepPasses
<1>2. HealthOK' /\ ("component" \in reasons => "component" \in reasons')
  BY <1>1, ConditionsKeep
<1>3. ASSUME NEW g \in Threads, th'[g] = Resting \/ th'[g] = Woken
      PROVE  ~Warned(g)'
  BY <1>3, RestsUnwarned DEF Warned
<1>4. ASSUME NEW g \in Threads, Warned(g)' PROVE Warned(g)
  BY <1>1, <1>3, <1>4 DEF Passage, Others, Same, Warned
<1>5. ASSUME NEW g \in Threads, Warned(g)' PROVE th'[g].answer # "allow"
  <2>1. Warned(g) /\ "component" \in reasons /\ th[g].answer # "allow"
    BY <1>4, <1>5 DEF WarnedOK
  <2>2. CASE g # h
    BY <1>1, <1>3, <1>5, <2>1, <2>2 DEF Passage, Others
  <2>3. CASE g = h
    <3>1. health # "healthy"
      BY <2>1 DEF HealthOK
    <3>2. Degraded(h)
      BY <3>1 DEF Degraded
    <3> QED BY <1>1, <1>3, <1>5, <2>1, <2>3, <3>2 DEF Passage, Answered
  <2> QED BY <2>2, <2>3
<1> QED BY <1>2, <1>4, <1>5 DEF WarnedOK

\* pre_tool_call: after a component has failed, the process allows no effectful
\* call of high stakes, whatever is reloaded meanwhile.
THEOREM FailuresClose == HostSpec => [](FailClosed /\ HealthOK)
<1>1. HostInit => HealthOK /\ WarnedOK
  <2> SUFFICES ASSUME HostInit PROVE HealthOK /\ WarnedOK
    OBVIOUS
  <2>1. \A h \in Threads : th[h] = Resting
    BY DEF HostInit
  <2>2. WarnedOK
    BY <2>1, RestsUnwarned DEF WarnedOK, Warned
  <2> QED BY <2>2 DEF HostInit, HealthOK
<1>2. ASSUME ThreadsOK, HealthOK, WarnedOK, [HostNext]_hostVars
      PROVE  HealthOK' /\ WarnedOK'
  <2>1. CASE \E h \in Threads : Step(h)
    BY <1>2, <2>1, StepWarned
  <2>2. CASE \E h \in Threads, hook \in Hooks, session \in Sessions \cup {None}, marker \in Markers :
               Callback(h, hook, session, marker)
    <3>1. PICK h \in Threads, hook \in Callbacks, session \in Sessions \cup {None}, marker \in Markers :
            Callback(h, hook, session, marker)
      BY <2>2, RuntimeAssumption
    <3>2. UNCHANGED <<health, reasons>>
      BY <3>1 DEF Callback, condition
    <3>3. /\ Alone(h) /\ th'[h].hook = hook /\ th'[h].answer = None
          /\ th'[h].warned = (hook = "pre_tool_call" /\ "component" \in reasons)
      BY <1>2, <3>1, CallbackMoves
    <3>4. ASSUME NEW g \in Threads, Warned(g)' PROVE "component" \in reasons' /\ th'[g].answer # "allow"
      <4>1. CASE g = h
        BY <3>2, <3>3, <3>4, <4>1, HostNoneAssumption DEF Warned
      <4>2. CASE g # h
        BY <1>2, <3>2, <3>3, <3>4, <4>2 DEF Warned, WarnedOK, Alone
      <4> QED BY <4>1, <4>2
    <3> QED BY <1>2, <3>2, <3>4 DEF HealthOK, WarnedOK
  <2>3. CASE Restart
    <3>1. \A h \in Threads : th'[h] = Resting
      BY <2>3, RestartMoves
    <3>2. HealthOK'
      BY <2>3 DEF Restart, HealthOK
    <3> QED BY <3>1, <3>2, RestsUnwarned DEF WarnedOK, Warned
  <2>4. CASE UNCHANGED <<th, health, reasons>>
    BY <1>2, <2>4 DEF HealthOK, WarnedOK, Warned
  <2>5. UNCHANGED hostVars => UNCHANGED <<th, health, reasons>>
    BY DEF hostVars
  <2>6. UNCHANGED condition => UNCHANGED <<health, reasons>>
    BY DEF condition
  <2> QED BY <1>2, <2>1, <2>2, <2>3, <2>4, <2>5, <2>6 DEF HostNext, Environment
<1>3. WarnedOK => FailClosed
  BY DEF WarnedOK, Warned, FailClosed
<1> QED BY <1>1, <1>2, <1>3, ScriptsFollow, PTL DEF HostSpec

-----------------------------------------------------------------------------
(* TurnCountedOnce: the idempotency key is looked up and stored in one     *)
(* transaction, so it does not matter what the cache has forgotten.        *)

Keys == Sessions \cup {None, "oneshot", "closed"}

RowOK(k) ==
  /\ DOMAIN k = {"key", "state", "turn", "begun"}
  /\ k.key \in Keys /\ k.state \in {"absent", "active", "finalized"} /\ k.begun \in Seq(Markers)

Distinct(s) == \A i, j \in DOMAIN s : s[i] = s[j] => i = j

EpisodesOK ==
  /\ DOMAIN episodes = Episodes
  /\ \A e \in Episodes : RowOK(episodes[e]) /\ Distinct(episodes[e].begun)

AskedOK(h) ==
  /\ th[h].session \in Sessions \cup {None}
  /\ h # Drainer /\ th[h].script # << >> => th[h].marker \in Markers

AllAskedOK == \A h \in Threads : AskedOK(h)

LEMMA DistinctNext ==
  ASSUME NEW T, NEW s \in Seq(T), NEW x \in T, Distinct(s), x \notin Entries(s)
  PROVE  Append(s, x) \in Seq(T) /\ Distinct(Append(s, x))
<1> DEFINE t == Append(s, x)
<1>1. /\ Len(s) \in Nat /\ t \in Seq(T) /\ Len(t) = Len(s) + 1 /\ t[Len(s) + 1] = x
      /\ \A i \in 1..Len(s) : t[i] = s[i]
      /\ DOMAIN t = 1..Len(t) /\ DOMAIN s = 1..Len(s)
  OBVIOUS
<1> HIDE DEF t
<1>2. \A i \in 1..Len(s) : s[i] # x
  BY <1>1 DEF Entries
<1>3. ASSUME NEW i \in DOMAIN t, NEW j \in DOMAIN t, t[i] = t[j] PROVE i = j
  <2>1. i \in 1..Len(s) \/ i = Len(s) + 1
    BY <1>1
  <2>2. j \in 1..Len(s) \/ j = Len(s) + 1
    BY <1>1
  <2> QED BY <1>1, <1>2, <1>3, <2>1, <2>2 DEF Distinct
<1>4. Distinct(t)
  BY <1>3 DEF Distinct
<1> QED BY <1>1, <1>4 DEF t

\* Who touches the table of episodes, and how.
Opens(h) ==
  /\ Stands(h, "create") /\ h # Drainer /\ Found(th[h].session) = {} /\ Finds(h, "create", Some(Free))
  /\ episodes' = [episodes EXCEPT ![Some(Free)] =
       [Absent EXCEPT !.state = "active",
                      !.key = IF th[h].session = None THEN "oneshot" ELSE th[h].session]]

Begins(h) ==
  /\ Stands(h, "append") /\ h # Drainer /\ ~Begun(th[h].ep, th[h].marker)
  /\ episodes' = [episodes EXCEPT ![th[h].ep].turn = th[h].num,
                                  ![th[h].ep].begun = Append(@, th[h].marker)]

Closes(h) ==
  /\ Stands(h, "archive") /\ h # Drainer /\ At(h)' = "forget" /\ th'[h].ep = th[h].ep
  /\ episodes' = [episodes EXCEPT ![th[h].ep].state = "finalized", ![th[h].ep].key = "closed"]

LEMMA StepEpisodes ==
  ASSUME ThreadsOK, NEW h \in Threads, Step(h)
  PROVE  UNCHANGED episodes \/ Opens(h) \/ Begins(h) \/ Closes(h)
<1>1. CASE Create(h)
  BY <1>1, CreateMoves DEF Opens, Finds
<1>2. CASE AppendTurn(h)
  <2>1. Stands(h, "append") /\ h # Drainer
    <3>1. Doing(h, "append")
      BY <1>2 DEF AppendTurn
    <3> QED BY <3>1, DoingStands, CallbackStep
  <2> QED BY <1>2, <2>1 DEF AppendTurn, Begins
<1>3. CASE Archive(h)
  <2>1. UNCHANGED episodes \/ (Quiet(h, "archive", {"forget"}) /\ th'[h].ep = th[h].ep /\ h # Drainer
          /\ episodes' = [episodes EXCEPT ![th[h].ep].state = "finalized", ![th[h].ep].key = "closed"])
    BY <1>3, ArchiveMoves
  <2> QED BY <2>1 DEF Quiet, Closes
<1>4. CASE \/ Resolve(h) \/ Remember(h) \/ Mark(h) \/ Reload(h) \/ CountTurn(h)
           \/ FindLock(h) \/ Enter(h) \/ Leave(h) \/ Gate(h) \/ Finish(h)
           \/ Promote(h) \/ Schedule(h) \/ StartDrainer(h) \/ TakeJob(h) \/ CheckActive(h)
  BY <1>4 DEF Resolve, Remember, Mark, Reload, CountTurn, FindLock, Enter, Leave, Gate, Finish, Promote,
     Schedule, StartDrainer, TakeJob, CheckActive
<1>5. CASE \/ CallComponent(h) \/ UseAnswer(h) \/ Inject(h)
           \/ CheckHealth(h) \/ LintResponse(h) \/ Entail(h) \/ Enforce(h) \/ Rewrite(h) \/ Relint(h)
           \/ RecordLint(h) \/ Forget(h) \/ Fail(h)
  BY <1>5 DEF CallComponent, UseAnswer, Inject, CheckHealth, LintResponse, Entail, Enforce, Rewrite,
     Relint, RecordLint, Forget, Fail
<1> QED BY <1>1, <1>2, <1>3, <1>4, <1>5 DEF Step

LEMMA AbsentOK ==
  /\ RowOK(Absent) /\ Distinct(Absent.begun) /\ Absent.state = "absent" /\ Absent.key = None
  /\ Absent.begun = << >> /\ Absent.turn = 0 /\ DOMAIN Absent = {"key", "state", "turn", "begun"}
<1>1. /\ DOMAIN Absent = {"key", "state", "turn", "begun"} /\ Absent.key = None /\ Absent.state = "absent"
      /\ Absent.begun = << >> /\ Absent.turn = 0
  BY DEF Absent
<1>2. << >> \in Seq(Markers) /\ Distinct(<< >>)
  BY DEF Distinct
<1> QED BY <1>1, <1>2 DEF RowOK, Keys

LEMMA StepTable ==
  ASSUME ThreadsOK, EpisodesOK, AllAskedOK, NEW h \in Threads, Step(h)
  PROVE  EpisodesOK'
<1>1. CASE UNCHANGED episodes
  BY <1>1 DEF EpisodesOK
<1>2. ASSUME NEW x \in Episodes, NEW k, RowOK(k), Distinct(k.begun), episodes' = [episodes EXCEPT ![x] = k]
      PROVE  EpisodesOK'
  BY <1>2 DEF EpisodesOK
<1>3. ASSUME NEW x, x \notin Episodes, NEW k, episodes' = [episodes EXCEPT ![x] = k]
      PROVE  EpisodesOK'
  BY <1>3 DEF EpisodesOK
<1>4. CASE Opens(h)
  <2> DEFINE k == [Absent EXCEPT !.state = "active",
                                 !.key = IF th[h].session = None THEN "oneshot" ELSE th[h].session]
  <2>1. /\ DOMAIN k = {"key", "state", "turn", "begun"} /\ k.state = "active" /\ k.begun = << >>
        /\ k.key = IF th[h].session = None THEN "oneshot" ELSE th[h].session
    BY AbsentOK
  <2>2. k.key \in Keys
    BY <2>1 DEF AllAskedOK, AskedOK, Keys
  <2>3. << >> \in Seq(Markers) /\ Distinct(<< >>)
    BY DEF Distinct
  <2>4. episodes' = [episodes EXCEPT ![Some(Free)] = k]
    BY <1>4 DEF Opens
  <2> HIDE DEF k
  <2>5. RowOK(k) /\ Distinct(k.begun)
    BY <2>1, <2>2, <2>3 DEF RowOK
  <2> QED BY <1>2, <1>3, <2>4, <2>5
<1>5. CASE Begins(h)
  <2> DEFINE e == th[h].ep
             k == [episodes[e] EXCEPT !.turn = th[h].num, !.begun = Append(@, th[h].marker)]
  <2>1. th[h].marker \in Markers
    BY <1>5 DEF Begins, Stands, AllAskedOK, AskedOK
  <2>2. episodes' = [episodes EXCEPT ![e] = k]
    BY <1>5 DEF Begins
  <2>3. CASE e \in Episodes
    <3>1. RowOK(episodes[e]) /\ Distinct(episodes[e].begun)
      BY <2>3 DEF EpisodesOK
    <3>2. /\ DOMAIN k = {"key", "state", "turn", "begun"} /\ k.key = episodes[e].key
          /\ k.state = episodes[e].state /\ k.begun = Append(episodes[e].begun, th[h].marker)
      BY <3>1 DEF RowOK
    <3>3. th[h].marker \notin Entries(episodes[e].begun)
      BY <1>5 DEF Begins, Begun
    <3>4. k.begun \in Seq(Markers) /\ Distinct(k.begun)
      BY <2>1, <3>1, <3>2, <3>3, DistinctNext DEF RowOK
    <3> HIDE DEF k, e
    <3>5. RowOK(k)
      BY <3>1, <3>2, <3>4 DEF RowOK
    <3> QED BY <1>2, <2>2, <2>3, <3>4, <3>5
  <2> HIDE DEF k, e
  <2> QED BY <1>3, <2>2, <2>3
<1>6. CASE Closes(h)
  <2> DEFINE e == th[h].ep
             k == [episodes[e] EXCEPT !.state = "finalized", !.key = "closed"]
  <2>1. episodes' = [episodes EXCEPT ![e] = k]
    BY <1>6 DEF Closes
  <2>2. CASE e \in Episodes
    <3>1. RowOK(episodes[e]) /\ Distinct(episodes[e].begun)
      BY <2>2 DEF EpisodesOK
    <3>2. /\ DOMAIN k = {"key", "state", "turn", "begun"} /\ k.key = "closed"
          /\ k.state = "finalized" /\ k.begun = episodes[e].begun
      BY <3>1 DEF RowOK
    <3> HIDE DEF k, e
    <3>3. RowOK(k) /\ Distinct(k.begun)
      BY <3>1, <3>2 DEF RowOK, Keys
    <3> QED BY <1>2, <2>1, <2>2, <3>3
  <2> HIDE DEF k, e
  <2> QED BY <1>3, <2>1, <2>2
<1> QED BY <1>1, <1>4, <1>5, <1>6, StepEpisodes

LEMMA RestAsked ==
  /\ Resting.session = None /\ Resting.script = << >> /\ Resting.num = 0 /\ Resting.ep = 0
  /\ Resting.lock = 0 /\ Resting.answer = None
  /\ Woken.session = None /\ Woken.num = 0 /\ Woken.ep = 0
BY DEF Resting, Woken

LEMMA AskedKept ==
  ASSUME ThreadsOK, AllAskedOK, [HostNext]_hostVars
  PROVE  AllAskedOK'
<1>1. ASSUME NEW h \in Threads, Step(h) PROVE AllAskedOK'
  <2>1. Passage(h)
    BY <1>1, StepPasses
  <2>2. AskedOK(h)'
    BY <2>1, RestAsked DEF Passage, Same, AllAskedOK, AskedOK
  <2>3. ASSUME NEW g \in Threads \ {h} PROVE AskedOK(g)'
    BY <2>1, RestAsked DEF Passage, Others, AllAskedOK, AskedOK
  <2> QED BY <2>2, <2>3 DEF AllAskedOK
<1>2. ASSUME NEW h \in Threads, NEW hook \in Hooks, NEW session \in Sessions \cup {None},
             NEW marker \in Markers, Callback(h, hook, session, marker)
      PROVE  AllAskedOK'
  <2>1. hook \in Callbacks
    BY RuntimeAssumption
  <2>2. Alone(h) /\ th'[h].session = session /\ th'[h].marker = marker
    BY <1>2, <2>1, CallbackMoves
  <2> QED BY <2>2 DEF Alone, AllAskedOK, AskedOK
<1>3. CASE Restart
  BY <1>3, RestartMoves, RestAsked DEF AllAskedOK, AskedOK
<1>4. CASE UNCHANGED th
  BY <1>4 DEF AllAskedOK, AskedOK
<1>5. UNCHANGED hostVars => UNCHANGED th
  BY DEF hostVars
<1> QED BY <1>1, <1>2, <1>3, <1>4, <1>5 DEF HostNext, Environment

LEMMA TableKept ==
  ASSUME ThreadsOK, EpisodesOK, AllAskedOK, [HostNext]_hostVars
  PROVE  EpisodesOK'
<1>1. CASE \E h \in Threads : Step(h)
  BY <1>1, StepTable
<1>2. CASE UNCHANGED episodes
  BY <1>2 DEF EpisodesOK
<1>3. UNCHANGED hostVars => UNCHANGED episodes
  BY DEF hostVars
<1> QED BY <1>1, <1>2, <1>3 DEF HostNext, Environment, Callback, Restart

LEMMA TablesBegin == ASSUME HostInit PROVE EpisodesOK /\ AllAskedOK
<1>1. \A h \in Threads : th[h] = Resting
  BY DEF HostInit
<1>2. AllAskedOK
  BY <1>1, RestAsked DEF AllAskedOK, AskedOK
<1>3. DOMAIN episodes = Episodes /\ \A e \in Episodes : episodes[e] = Absent
  BY DEF HostInit
<1>4. EpisodesOK
  BY <1>3, AbsentOK DEF EpisodesOK
<1> QED BY <1>2, <1>4

\* begin_turn: the ledger starts a turn once, although the cache of begun turns
\* forgets turns and is lost with the process.
THEOREM TurnsStartOnce == HostSpec => [](TurnCountedOnce /\ EpisodesOK /\ AllAskedOK)
<1>1. EpisodesOK => TurnCountedOnce
  BY DEF EpisodesOK, Distinct, TurnCountedOnce
<1> QED BY <1>1, TablesBegin, AskedKept, TableKept, ScriptsFollow, PTL DEF HostSpec

-----------------------------------------------------------------------------
(* Most steps go on in the script of an episode without its lock and leave *)
(* the maintenance queue alone.                                            *)

Ordinary(h) ==
  /\ ThreadsOK' /\ Alone(h) /\ Stands(h, At(h)) /\ UNCHANGED <<work, holder>>
  /\ At(h) \notin {"rest", "resolve", "create", "schedule", "start", "pop", "lock", "enter", "leave",
                   "archive"}
  /\ At(h)' \notin {"resolve", "create", "start", "enter", "leave", "forget", "active"}
  /\ th'[h] = Resting \/ th'[h].ep = th[h].ep

OrdinarySteps ==
  {"remember", "mark", "reload", "count", "append", "gate", "answer", "promote", "active", "component",
   "inject", "check", "lint", "entail", "enforce", "rewrite", "relint", "record", "forget"}

LEMMA QuietOrdinary ==
  ASSUME ThreadsOK, NEW h \in Threads, NEW x \in OrdinarySteps, NEW ys, Quiet(h, x, ys),
         UNCHANGED <<work, holder>>,
         ys \cap {"resolve", "create", "start", "enter", "leave", "forget", "active"} = {}
  PROVE  Ordinary(h)
<1>1. At(h) = x /\ At(h)' \in ys
  BY DEF Quiet, Stands
<1> QED BY <1>1 DEF Quiet, Stands, Keeps, Ordinary, OrdinarySteps

LEMMA FallsOrdinary ==
  ASSUME ThreadsOK, NEW h \in Threads, NEW x \in OrdinarySteps, Falls(h, x), UNCHANGED <<work, holder>>
  PROVE  Ordinary(h)
<1>1. At(h) = x /\ At(h)' \in {"pop", "rest", "answer"}
  BY DEF Falls, Stands, Landings
<1> QED BY <1>1 DEF Falls, Stands, Keeps, Ordinary, OrdinarySteps

LEMMA LintOrdinary ==
  ASSUME ThreadsOK, NEW h \in Threads, LintMove(h), UNCHANGED <<work, holder>>
  PROVE  Ordinary(h)
BY DEF LintMove, LintSteps, Keeps, Ordinary

\* A callback that has failed before it had its episode.
Lost(h) ==
  /\ ThreadsOK' /\ Alone(h) /\ Keeps(h) /\ UNCHANGED <<work, holder, episodes>>
  /\ Stands(h, At(h)) /\ At(h) \in {"resolve", "create"} /\ At(h)' \in {"rest", "answer"} /\ h # Drainer

LEMMA FailOrdinary ==
  ASSUME ThreadsOK, NEW h \in Threads, Fail(h)
  PROVE  Lost(h) \/ Ordinary(h)
<1>1. UNCHANGED <<work, holder, episodes>>
  BY DEF Fail, registry
<1>2. PICK x \in Lookups : Falls(h, x)
  BY FailMoves DEF Fallen
<1>3. CASE x \in {"resolve", "create"}
  <2>1. Stands(h, x) /\ At(h) = x /\ h # Drainer
    BY <1>2, <1>3, CallbackStep DEF Falls, Stands
  <2> QED BY <1>1, <1>2, <1>3, <2>1 DEF Falls, Landings, Lost
<1>4. CASE x \notin {"resolve", "create"}
  <2>1. x \in OrdinarySteps
    BY <1>4 DEF Lookups, OrdinarySteps
  <2> QED BY <1>1, <1>2, <2>1, FallsOrdinary
<1> QED BY <1>3, <1>4

LEMMA StepOrdinary ==
  ASSUME ThreadsOK, NEW h \in Threads, Step(h)
  PROVE  \/ Resolve(h) \/ Create(h) \/ Schedule(h) \/ StartDrainer(h) \/ TakeJob(h)
         \/ FindLock(h) \/ Enter(h) \/ Leave(h) \/ Archive(h)
         \/ Ordinary(h) \/ Lost(h)
<1>0. \A x \in OrdinarySteps : x \in OrdinarySteps
  OBVIOUS
<1>3. CASE Remember(h)
  BY <1>3, RememberMoves, QuietOrdinary DEF Remember, OrdinarySteps, registry, work
<1>4. CASE Mark(h)
  BY <1>4, MarkMoves, QuietOrdinary DEF Mark, OrdinarySteps
<1>5. CASE Reload(h)
  BY <1>5, ReloadMoves, QuietOrdinary DEF Reload, OrdinarySteps, registry
<1>6. CASE CountTurn(h)
  <2>1. UNCHANGED <<work, holder>>
    BY <1>6 DEF CountTurn, registry
  <2>2. /\ Stands(h, "count") /\ ThreadsOK' /\ Alone(h) /\ At(h)' = "append" /\ th'[h].ep = th[h].ep
    BY <1>6, CountTurnMoves
  <2>3. At(h) = "count"
    BY <2>2 DEF Stands
  <2> QED BY <2>1, <2>2, <2>3 DEF Ordinary
<1>7. CASE AppendTurn(h)
  <2>1. UNCHANGED <<work, holder>>
    BY <1>7 DEF AppendTurn, registry
  <2> QED BY <1>7, <2>1, AppendTurnMoves, QuietOrdinary, FallsOrdinary DEF OrdinarySteps
<1>11. CASE Gate(h)
  <2>1. UNCHANGED <<work, holder>>
    BY <1>11 DEF Gate, registry
  <2>2. Stands(h, "gate") /\ ThreadsOK' /\ Alone(h) /\ Keeps(h) /\ At(h)' = "answer"
    BY <1>11, GateMoves
  <2>3. At(h) = "gate"
    BY <2>2 DEF Stands
  <2> QED BY <2>1, <2>2, <2>3 DEF Ordinary, Keeps
<1>12. CASE Finish(h)
  <2>1. UNCHANGED <<work, holder>>
    BY <1>12 DEF Finish, registry
  <2> QED BY <1>12, <2>1, FinishMoves, QuietOrdinary DEF OrdinarySteps
<1>13. CASE Promote(h)
  <2>1. UNCHANGED <<work, holder>>
    BY <1>13 DEF Promote, registry
  <2> QED BY <1>13, <2>1, PromoteMoves, QuietOrdinary DEF OrdinarySteps
<1>17. CASE CheckActive(h)
  <2>1. UNCHANGED <<work, holder>>
    BY <1>17 DEF CheckActive, registry
  <2> QED BY <1>17, <2>1, CheckActiveMoves, QuietOrdinary DEF OrdinarySteps
<1>18. CASE CallComponent(h)
  <2>1. Doing(h, "component") /\ UNCHANGED <<th, work, holder>>
    BY <1>18 DEF CallComponent, registry
  <2>2. Stands(h, "component")
    BY <2>1, DoingStands
  <2>3. At(h) = "component" /\ At(h)' = "component" /\ ThreadsOK' /\ Alone(h) /\ th'[h].ep = th[h].ep
    BY <2>1, <2>2 DEF Stands, At, Alone, ThreadsOK, ThreadOK, RecordOK
  <2> QED BY <2>1, <2>2, <2>3 DEF Ordinary
<1>19. CASE UseAnswer(h)
  <2>1. UNCHANGED <<work, holder>>
    BY <1>19 DEF UseAnswer, registry
  <2> QED BY <1>19, <2>1, UseAnswerMoves, QuietOrdinary, FallsOrdinary DEF OrdinarySteps
<1>20. CASE Inject(h)
  <2>1. UNCHANGED <<work, holder>>
    BY <1>20 DEF Inject, registry
  <2> QED BY <1>20, <2>1, InjectMoves, QuietOrdinary, FallsOrdinary DEF OrdinarySteps
<1>21. CASE \/ CheckHealth(h) \/ LintResponse(h) \/ Entail(h) \/ Enforce(h) \/ Rewrite(h) \/ Relint(h)
            \/ RecordLint(h)
  <2>1. UNCHANGED <<work, holder>>
    BY <1>21 DEF CheckHealth, LintResponse, Entail, Enforce, Rewrite, Relint, RecordLint, registry
  <2> QED BY <1>21, <2>1, LintOrdinary, CheckHealthMoves, LintResponseMoves, EntailMoves, EnforceMoves,
             RewriteMoves, RelintMoves, RecordLintMoves
<1>23. CASE Forget(h)
  <2>1. UNCHANGED <<work, holder>>
    BY <1>23 DEF Forget
  <2> QED BY <1>23, <2>1, ForgetMoves, QuietOrdinary DEF OrdinarySteps
<1> QED
  BY <1>3, <1>4, <1>5, <1>6, <1>7, <1>11, <1>12, <1>13, <1>17, <1>18, <1>19, <1>20, <1>21, <1>23,
     FailOrdinary DEF Step

-----------------------------------------------------------------------------
(* Deferred maintenance: one thread drains the queue, and only while       *)
(* draining says so.                                                       *)

DrainOK ==
  /\ draining \in BOOLEAN
  /\ th[Drainer].script # << >> => draining
  /\ \A h \in Threads : At(h) = "start" => draining /\ th[Drainer].script = << >>
  /\ \A g, h \in Threads : At(g) = "start" /\ At(h) = "start" => g = h

LEMMA DrainLeft ==
  ASSUME DrainOK, NEW h \in Threads, th[h].script # << >>, Alone(h), At(h)' # "start", UNCHANGED draining
  PROVE  DrainOK'
<1>1. Drainer \in Threads
  BY RuntimeAssumption
<1>2. ASSUME NEW g \in Threads, At(g)' = "start" PROVE g # h /\ At(g) = "start"
  BY <1>2 DEF Alone, At
<1>3. th'[Drainer].script # << >> => draining
  BY <1>1 DEF Alone, DrainOK
<1>4. ASSUME NEW g \in Threads, At(g)' = "start" PROVE draining' /\ th'[Drainer].script = << >>
  <2>1. draining /\ th[Drainer].script = << >>
    BY <1>2, <1>4 DEF DrainOK
  <2>2. h # Drainer
    BY <2>1
  <2> QED BY <1>1, <2>1, <2>2 DEF Alone
<1> QED BY <1>2, <1>3, <1>4 DEF DrainOK

LEMMA StepDrain ==
  ASSUME ThreadsOK, DrainOK, NEW h \in Threads, Step(h)
  PROVE  DrainOK'
<1>0. Drainer \in Threads
  BY RuntimeAssumption
<1>1. CASE Ordinary(h)
  BY <1>1, DrainLeft DEF Ordinary, Stands, work
<1>2. CASE Resolve(h)
  <2>1. UNCHANGED draining
    BY <1>2 DEF Resolve, work
  <2>2. th[h].script # << >> /\ Alone(h) /\ At(h)' # "start"
    BY <1>2, ResolveMoves DEF Quiet, Finds, Stands
  <2> QED BY <2>1, <2>2, DrainLeft
<1>3. CASE Create(h)
  <2>1. UNCHANGED draining
    BY <1>3 DEF Create, work
  <2>2. th[h].script # << >> /\ Alone(h) /\ At(h)' # "start"
    BY <1>3, CreateMoves DEF Finds, Stands
  <2> QED BY <2>1, <2>2, DrainLeft
<1>4. CASE FindLock(h) \/ Enter(h)
  <2>1. UNCHANGED draining
    BY <1>4 DEF FindLock, Enter, work
  <2>2. th[h].script # << >> /\ Alone(h) /\ At(h)' # "start"
    BY <1>4, FindLockMoves, EnterMoves DEF Quiet, Stands
  <2> QED BY <2>1, <2>2, DrainLeft
<1>5. CASE Leave(h)
  <2>1. UNCHANGED draining
    BY <1>5 DEF Leave, work
  <2>2. th[h].script # << >> /\ Alone(h) /\ At(h)' # "start"
    BY <1>5, LeaveMoves DEF Quiet, Falls, Stands, Landings
  <2> QED BY <2>1, <2>2, DrainLeft
<1>6. CASE Archive(h)
  <2>1. UNCHANGED draining
    BY <1>6 DEF Archive, work
  <2>2. th[h].script # << >> /\ Alone(h) /\ At(h)' # "start"
    BY <1>6, ArchiveMoves DEF Quiet, Falls, Stands, Landings
  <2> QED BY <2>1, <2>2, DrainLeft
<1>7. CASE Schedule(h)
  <2>1. draining' = TRUE
    BY <1>7 DEF Schedule
  <2>2. CASE draining
    <3>1. th[h].script # << >> /\ Alone(h) /\ At(h)' # "start"
      BY <1>7, <2>2, ScheduleMoves DEF Quiet, Stands
    <3> QED BY <2>1, <2>2, <3>1, DrainLeft
  <2>3. CASE ~draining
    <3>1. /\ Alone(h) /\ h # Drainer
      BY <1>7, <2>3, ScheduleMoves DEF Quiet
    <3>2. th'[Drainer].script = << >>
      BY <1>0, <2>3, <3>1 DEF Alone, DrainOK
    <3>3. ASSUME NEW g \in Threads, At(g)' = "start" PROVE g = h
      BY <2>3, <3>1, <3>3 DEF Alone, DrainOK, At
    <3> QED BY <2>1, <3>2, <3>3 DEF DrainOK
  <2> QED BY <2>2, <2>3
<1>8. CASE StartDrainer(h)
  <2>0. Stands(h, "start") /\ h # Drainer
    BY <1>0, <1>8, StartDrainerMoves
  <2>1. At(h) = "start" /\ draining /\ th[Drainer].script = << >>
    BY <2>0 DEF Stands, DrainOK
  <2>2. CASE /\ th'[Drainer] = Woken /\ At(Drainer)' = "pop" /\ At(h)' = "lock"
             /\ \A g \in Threads \ {h, Drainer} : th'[g] = th[g]
             /\ UNCHANGED draining
    <3>1. ASSUME NEW g \in Threads, At(g)' = "start" PROVE FALSE
      <4>1. g # h /\ g # Drainer
        BY <2>2, <3>1
      <4>2. At(g) = "start"
        BY <2>2, <3>1, <4>1 DEF At
      <4> QED BY <2>1, <4>1, <4>2 DEF DrainOK
    <3> QED BY <2>1, <2>2, <3>1 DEF DrainOK
  <2>3. CASE Falls(h, "start") /\ draining' = FALSE
    <3>1. Alone(h) /\ At(h)' # "start"
      BY <2>3 DEF Falls, Landings
    <3>2. ASSUME NEW g \in Threads, At(g)' = "start" PROVE FALSE
      <4>1. g # h /\ At(g) = "start"
        BY <3>1, <3>2 DEF Alone, At
      <4> QED BY <2>1, <4>1 DEF DrainOK
    <3>3. th'[Drainer].script = << >>
      BY <1>0, <2>0, <2>1, <3>1 DEF Alone
    <3> QED BY <2>3, <3>2, <3>3 DEF DrainOK
  <2> QED BY <1>0, <1>8, <2>2, <2>3, StartDrainerMoves
<1>9. CASE TakeJob(h)
  <2>0. h = Drainer /\ Stands(h, "pop") /\ Alone(h)
    BY <1>9, TakeJobMoves
  <2>1. th[h].script # << >> /\ draining
    BY <2>0 DEF Stands, DrainOK
  <2>2. CASE draining' = FALSE /\ th'[h] = Resting /\ At(h)' = "rest"
    <3>1. ASSUME NEW g \in Threads, At(g)' = "start" PROVE FALSE
      <4>1. g # h /\ At(g) = "start"
        BY <2>0, <2>2, <3>1 DEF Alone, At
      <4> QED BY <2>0, <2>1, <4>1 DEF DrainOK
    <3> QED BY <2>0, <2>2, <3>1, RestAsked DEF DrainOK
  <2>3. CASE UNCHANGED draining /\ At(h)' = "active"
    BY <2>0, <2>1, <2>3, DrainLeft
  <2> QED BY <1>9, <2>2, <2>3, TakeJobMoves
<1>10. CASE Lost(h)
  BY <1>10, DrainLeft DEF Lost, Stands, work
<1> QED BY <1>1, <1>2, <1>3, <1>4, <1>5, <1>6, <1>7, <1>8, <1>9, <1>10, StepOrdinary

LEMMA DrainKept ==
  ASSUME ThreadsOK, DrainOK, [HostNext]_hostVars
  PROVE  DrainOK'
<1>0. Drainer \in Threads
  BY RuntimeAssumption
<1>1. CASE \E h \in Threads : Step(h)
  BY <1>1, StepDrain
<1>2. ASSUME NEW h \in Threads, NEW hook \in Hooks, NEW session \in Sessions \cup {None},
             NEW marker \in Markers, Callback(h, hook, session, marker)
      PROVE  DrainOK'
  <2>1. hook \in Callbacks
    BY RuntimeAssumption
  <2>2. h # Drainer /\ Alone(h) /\ At(h)' = "resolve"
    BY <1>2, <2>1, CallbackMoves
  <2>3. UNCHANGED draining
    BY <1>2 DEF Callback, work
  <2>4. th'[Drainer] = th[Drainer]
    BY <1>0, <2>2 DEF Alone
  <2>5. ASSUME NEW g \in Threads, At(g)' = "start" PROVE At(g) = "start"
    BY <2>2, <2>5 DEF Alone, At
  <2> QED BY <2>3, <2>4, <2>5 DEF DrainOK
<1>3. CASE Restart
  <2>1. draining' = FALSE
    BY <1>3 DEF Restart
  <2>2. \A h \in Threads : th'[h] = Resting /\ At(h)' = "rest"
    BY <1>3, RestartMoves
  <2> QED BY <1>0, <2>1, <2>2, RestAsked DEF DrainOK
<1>4. CASE UNCHANGED <<th, draining>>
  BY <1>4 DEF DrainOK, At
<1>5. UNCHANGED hostVars => UNCHANGED <<th, draining>>
  BY DEF hostVars
<1>6. UNCHANGED work => UNCHANGED draining
  BY DEF work
<1> QED BY <1>1, <1>2, <1>3, <1>4, <1>5, <1>6 DEF HostNext, Environment

LEMMA DrainBegins == ASSUME HostInit PROVE DrainOK
<1>1. (\A h \in Threads : th[h] = Resting) /\ draining = FALSE
  BY DEF HostInit
<1>2. \A h \in Threads : At(h) = "rest"
  BY <1>1, RestAsked DEF At
<1> QED BY <1>1, <1>2, RestAsked, RuntimeAssumption DEF DrainOK

\* schedule_context_maintenance: the process has at most one maintenance thread, and
\* a callback that starts it finds none.
THEOREM OneMaintenanceThread == HostSpec => []DrainOK
BY DrainBegins, DrainKept, ScriptsFollow, PTL DEF HostSpec

-----------------------------------------------------------------------------
(* Every callback past its lookup works on an episode of the ledger, and   *)
(* the routes and the queue only name such episodes.                       *)

Known == {e \in Episodes : episodes[e].state # "absent"}

RoutesTo == [marker : Markers, ep : Known]

Placed(h) ==
  /\ At(h) \notin {"rest", "resolve", "create", "pop", "answer"} => th[h].ep \in Known
  /\ At(h) = "answer" => th[h].ep \in Known \cup {0}
  /\ At(h) \in {"resolve", "create"} => th[h].ep = 0

AllPlaced == \A h \in Threads : Placed(h)

KeysOK ==
  \A e \in Episodes :
    /\ episodes[e].state = "absent" => episodes[e].key = None
    /\ episodes[e].state = "finalized" => episodes[e].key = "closed"

NamesOK == queue \in Seq(Known) /\ turnEpisode \in Seq(RoutesTo)

Waiting == {h \in Threads \ {Drainer} : th[h].ep = 0 /\ th[h].script # << >>}

RoomOK == Cardinality(Waiting) <= Cardinality(Free)

PlacesOK == AllPlaced /\ KeysOK /\ NamesOK /\ RoomOK

LEMMA SomeMember == ASSUME NEW S, S # {} PROVE Some(S) \in S
BY DEF Some

LEMMA SeqWider == ASSUME NEW S, NEW T, S \subseteq T, NEW s \in Seq(S) PROVE s \in Seq(T)
OBVIOUS

LEMMA FreeOrKnown ==
  ASSUME EpisodesOK
  PROVE  /\ Free \subseteq Episodes /\ Known \subseteq Episodes /\ Known = Episodes \ Free
         /\ IsFiniteSet(Free) /\ 0 \notin Episodes
<1>1. Free \subseteq Episodes /\ Known = Episodes \ Free
  BY DEF Free, Known
<1> QED BY <1>1, BudgetAssumption, FS_Subset

LEMMA FindsKnown ==
  ASSUME KeysOK, NEW session, Found(session) # {}
  PROVE  Some(Found(session)) \in Known
<1>1. Some(Found(session)) \in Found(session)
  BY SomeMember
<1> QED BY <1>1 DEF Found, KeysOK, Known

\* There is room for an episode when one is opened.
LEMMA RoomLeft ==
  ASSUME EpisodesOK, AllPlaced, RoomOK, NEW h \in Threads, h # Drainer, Stands(h, "create")
  PROVE  h \in Waiting /\ IsFiniteSet(Waiting) /\ Some(Free) \in Free
<1>1. th[h].ep = 0 /\ th[h].script # << >>
  BY DEF AllPlaced, Placed, Stands
<1>2. h \in Waiting
  BY <1>1 DEF Waiting
<1>3. IsFiniteSet(Waiting) /\ Cardinality(Waiting) \in Nat
  <2>1. Waiting \subseteq Threads
    BY DEF Waiting
  <2> QED BY <2>1, BudgetAssumption, FS_Subset, FS_CardinalityType
<1>4. Cardinality(Waiting) # 0
  BY <1>2, <1>3, FS_EmptySet
<1>5. IsFiniteSet(Free) /\ Cardinality(Free) \in Nat
  BY FreeOrKnown, FS_CardinalityType
<1>6. Free # {}
  <2> SUFFICES ASSUME Free = {} PROVE FALSE
    OBVIOUS
  <2>1. Cardinality(Free) = 0
    BY FS_EmptySet
  <2> QED BY <1>3, <1>4, <1>5, <2>1 DEF RoomOK
<1> QED BY <1>2, <1>3, <1>6, SomeMember

\* The table after a step: what becomes of one episode.
LEMMA OpensTable ==
  ASSUME EpisodesOK, AllPlaced, RoomOK, NEW h \in Threads, Opens(h)
  PROVE  /\ Some(Free) \in Free /\ h \in Waiting /\ IsFiniteSet(Waiting) /\ DOMAIN episodes' = Episodes
         /\ \A e \in Episodes \ {Some(Free)} : episodes'[e] = episodes[e]
         /\ episodes'[Some(Free)].state = "active" /\ episodes'[Some(Free)].begun = << >>
         /\ episodes'[Some(Free)].turn = 0
         /\ episodes'[Some(Free)].key = IF th[h].session = None THEN "oneshot" ELSE th[h].session
<1>1. Some(Free) \in Free /\ h \in Waiting /\ IsFiniteSet(Waiting)
  BY RoomLeft DEF Opens
<1>2. Some(Free) \in Episodes
  BY <1>1 DEF Free
<1> DEFINE k == [Absent EXCEPT !.state = "active",
                               !.key = IF th[h].session = None THEN "oneshot" ELSE th[h].session]
<1>3. /\ k.state = "active" /\ k.begun = << >> /\ k.turn = 0
      /\ k.key = IF th[h].session = None THEN "oneshot" ELSE th[h].session
  BY AbsentOK
<1>4. episodes' = [episodes EXCEPT ![Some(Free)] = k] /\ DOMAIN episodes = Episodes
  BY DEF Opens, EpisodesOK
<1> HIDE DEF k
<1>5. DOMAIN episodes' = Episodes /\ episodes'[Some(Free)] = k
      /\ \A e \in Episodes \ {Some(Free)} : episodes'[e] = episodes[e]
  BY <1>2, <1>4
<1> QED BY <1>1, <1>3, <1>5

LEMMA BeginsTable ==
  ASSUME EpisodesOK, AllPlaced, NEW h \in Threads, Begins(h)
  PROVE  /\ th[h].ep \in Known /\ DOMAIN episodes' = Episodes
         /\ \A e \in Episodes \ {th[h].ep} : episodes'[e] = episodes[e]
         /\ episodes'[th[h].ep].state = episodes[th[h].ep].state
         /\ episodes'[th[h].ep].key = episodes[th[h].ep].key
         /\ episodes'[th[h].ep].turn = th[h].num
         /\ episodes'[th[h].ep].begun = Append(episodes[th[h].ep].begun, th[h].marker)
<1> DEFINE e == th[h].ep
           k == [episodes[e] EXCEPT !.turn = th[h].num, !.begun = Append(@, th[h].marker)]
<1>1. e \in Known
  BY DEF Begins, Stands, AllPlaced, Placed
<1>2. e \in Episodes /\ DOMAIN episodes[e] = {"key", "state", "turn", "begun"}
  BY <1>1 DEF Known, EpisodesOK, RowOK
<1>3. /\ k.state = episodes[e].state /\ k.key = episodes[e].key /\ k.turn = th[h].num
      /\ k.begun = Append(episodes[e].begun, th[h].marker)
  BY <1>2
<1>4. episodes' = [episodes EXCEPT ![e] = k] /\ DOMAIN episodes = Episodes
  BY DEF Begins, EpisodesOK
<1> HIDE DEF k, e
<1>5. DOMAIN episodes' = Episodes /\ episodes'[e] = k /\ \A x \in Episodes \ {e} : episodes'[x] = episodes[x]
  BY <1>2, <1>4
<1> QED BY <1>1, <1>3, <1>5 DEF e

LEMMA ClosesTable ==
  ASSUME EpisodesOK, AllPlaced, NEW h \in Threads, Closes(h)
  PROVE  /\ th[h].ep \in Known /\ DOMAIN episodes' = Episodes
         /\ \A e \in Episodes \ {th[h].ep} : episodes'[e] = episodes[e]
         /\ episodes'[th[h].ep].state = "finalized" /\ episodes'[th[h].ep].key = "closed"
         /\ episodes'[th[h].ep].turn = episodes[th[h].ep].turn
         /\ episodes'[th[h].ep].begun = episodes[th[h].ep].begun
<1> DEFINE e == th[h].ep
           k == [episodes[e] EXCEPT !.state = "finalized", !.key = "closed"]
<1>1. e \in Known
  BY DEF Closes, Stands, AllPlaced, Placed
<1>2. e \in Episodes /\ DOMAIN episodes[e] = {"key", "state", "turn", "begun"}
  BY <1>1 DEF Known, EpisodesOK, RowOK
<1>3. /\ k.state = "finalized" /\ k.key = "closed" /\ k.turn = episodes[e].turn
      /\ k.begun = episodes[e].begun
  BY <1>2
<1>4. episodes' = [episodes EXCEPT ![e] = k] /\ DOMAIN episodes = Episodes
  BY DEF Closes, EpisodesOK
<1> HIDE DEF k, e
<1>5. DOMAIN episodes' = Episodes /\ episodes'[e] = k /\ \A x \in Episodes \ {e} : episodes'[x] = episodes[x]
  BY <1>2, <1>4
<1> QED BY <1>1, <1>3, <1>5 DEF e

\* No episode leaves the ledger, and only opening one takes a free number.
LEMMA KnownGrows ==
  ASSUME ThreadsOK, EpisodesOK, AllAskedOK, PlacesOK, NEW h \in Threads, Step(h)
  PROVE  /\ Known \subseteq Known' /\ KeysOK'
         /\ Free' = Free \/ (Opens(h) /\ Free' = Free \ {Some(Free)})
<1>1. CASE UNCHANGED episodes
  BY <1>1 DEF Known, Free, KeysOK, PlacesOK
<1>2. CASE Opens(h)
  <2>1. /\ Some(Free) \in Free
        /\ \A e \in Episodes \ {Some(Free)} : episodes'[e] = episodes[e]
        /\ episodes'[Some(Free)].state = "active"
    BY <1>2, OpensTable DEF PlacesOK
  <2>2. Known \subseteq Known' /\ Free' = Free \ {Some(Free)}
    BY <2>1 DEF Known, Free
  <2>3. KeysOK'
    BY <2>1 DEF PlacesOK, KeysOK
  <2> QED BY <1>2, <2>2, <2>3
<1>3. CASE Begins(h)
  <2>1. /\ \A e \in Episodes \ {th[h].ep} : episodes'[e] = episodes[e]
        /\ episodes'[th[h].ep].state = episodes[th[h].ep].state
        /\ episodes'[th[h].ep].key = episodes[th[h].ep].key
    BY <1>3, BeginsTable DEF PlacesOK
  <2>2. \A e \in Episodes : episodes'[e].state = episodes[e].state /\ episodes'[e].key = episodes[e].key
    BY <2>1
  <2> QED BY <2>2 DEF Known, Free, KeysOK, PlacesOK
<1>4. CASE Closes(h)
  <2>1. /\ th[h].ep \in Known /\ \A e \in Episodes \ {th[h].ep} : episodes'[e] = episodes[e]
        /\ episodes'[th[h].ep].state = "finalized" /\ episodes'[th[h].ep].key = "closed"
    BY <1>4, ClosesTable DEF PlacesOK
  <2>2. Known' = Known /\ Free' = Free
    BY <2>1 DEF Known, Free
  <2>3. KeysOK'
    BY <2>1 DEF PlacesOK, KeysOK
  <2> QED BY <2>2, <2>3
<1> QED BY <1>1, <1>2, <1>3, <1>4, StepEpisodes

LEMMA RememberedType ==
  ASSUME NEW T, NEW s \in Seq(T), NEW x \in T, NEW limit
  PROVE  Remembered(s, x, limit) \in Seq(T) /\ Entries(Remembered(s, x, limit)) \subseteq Entries(s) \cup {x}
<1> DEFINE o == Only(s, Entries(s) \ {x})
           k == Append(o, x)
<1>1. o \in Seq(T) /\ Entries(o) = Entries(s) \cap (Entries(s) \ {x})
  BY OnlyType
<1> HIDE DEF o
<1>2. Entries(k) = Entries(o) \cup {x}
  BY <1>1, EntriesNext
<1>5. k \in Seq(T) /\ k # << >>
  BY <1>1
<1> HIDE DEF k
<1>3. Tail(k) \in Seq(T) /\ Entries(Tail(k)) \subseteq Entries(k)
  BY <1>5, TailEntries
<1>4. Remembered(s, x, limit) \in {k, Tail(k)}
  BY DEF Remembered, k, o
<1> QED BY <1>1, <1>2, <1>3, <1>4, <1>5

LEMMA RememberedFits ==
  ASSUME NEW T, NEW s \in Seq(T), NEW x \in T, NEW limit \in Nat \ {0}, Len(s) <= limit
  PROVE  Len(Remembered(s, x, limit)) <= limit
<1> DEFINE o == Only(s, Entries(s) \ {x})
           k == Append(o, x)
<1>1. o \in Seq(T) /\ Len(o) <= Len(s)
  BY OnlyType, OnlyShorter
<1> HIDE DEF o
<1>2. k \in Seq(T) /\ Len(k) = Len(o) + 1 /\ k # << >>
  BY <1>1
<1> HIDE DEF k
<1>3. Len(Tail(k)) = Len(k) - 1
  BY <1>2, TailEntries
<1>4. Remembered(s, x, limit) = IF Len(k) > limit THEN Tail(k) ELSE k
  BY DEF Remembered, k, o
<1>5. Len(o) \in Nat /\ Len(s) \in Nat
  BY <1>1
<1> QED BY <1>1, <1>2, <1>3, <1>4, <1>5

LEMMA RoutesType ==
  ASSUME NEW T, turnEpisode \in Seq(T), NEW marker
  PROVE  Routes(marker) \in Seq(T) /\ Len(Routes(marker)) <= Len(turnEpisode)
BY OnlyType, OnlyShorter DEF Routes

LEMMA StepNames ==
  ASSUME ThreadsOK, EpisodesOK, AllAskedOK, PlacesOK, NEW h \in Threads, Step(h)
  PROVE  NamesOK'
<1>0. /\ queue \in Seq(Known) /\ turnEpisode \in Seq(RoutesTo)
      /\ \A e \in Episodes : e \in Known => e \in Known'
  BY KnownGrows DEF PlacesOK, NamesOK
<1>1. Known \subseteq Known' /\ RoutesTo \subseteq RoutesTo'
  BY <1>0 DEF Known, RoutesTo
<1>2. ASSUME queue' \in Seq(Known), turnEpisode' \in Seq(RoutesTo) PROVE NamesOK'
  <2>1. queue' \in Seq(Known') /\ turnEpisode' \in Seq(RoutesTo')
    BY <1>1, <1>2, SeqWider
  <2> QED BY <2>1 DEF NamesOK
<1>3. CASE UNCHANGED <<queue, turnEpisode>>
  BY <1>0, <1>2, <1>3
<1>4. CASE Resolve(h)
  <2>1. UNCHANGED queue
    BY <1>4 DEF Resolve, work
  <2>2. CASE UNCHANGED turnEpisode
    BY <1>0, <1>2, <2>1, <2>2
  <2>3. CASE /\ Routed(th[h].marker) # {}
             /\ turnEpisode' = Append(Routes(th[h].marker), turnEpisode[Some(Routed(th[h].marker))])
    <3> DEFINE i == Some(Routed(th[h].marker))
    <3>1. i \in DOMAIN turnEpisode
      BY <2>3, SomeMember DEF Routed
    <3>2. turnEpisode[i] \in RoutesTo
      BY <1>0, <3>1
    <3>3. Routes(th[h].marker) \in Seq(RoutesTo)
      BY <1>0, RoutesType
    <3>4. turnEpisode' \in Seq(RoutesTo)
      <4> HIDE DEF i
      <4>1. turnEpisode' = Append(Routes(th[h].marker), turnEpisode[i])
        BY <2>3 DEF i
      <4> QED BY <3>2, <3>3, <4>1
    <3> QED BY <1>0, <1>2, <2>1, <3>4
  <2> QED BY <1>4, <2>2, <2>3, ResolveMoves
<1>5. CASE Remember(h)
  <2> DEFINE x == [marker |-> th[h].marker, ep |-> th[h].ep]
  <2>1. turnEpisode' = Remembered(Routes(th[h].marker), x, CacheLimit) /\ UNCHANGED queue
    BY <1>5 DEF Remember, work
  <2>2. Stands(h, "remember") /\ h # Drainer
    BY <1>5, RememberMoves DEF Quiet
  <2>3. th[h].ep \in Known /\ th[h].marker \in Markers
    BY <2>2 DEF Stands, PlacesOK, AllPlaced, Placed, AllAskedOK, AskedOK
  <2>4. x \in RoutesTo /\ Routes(th[h].marker) \in Seq(RoutesTo)
    BY <1>0, <2>3, RoutesType DEF RoutesTo
  <2> HIDE DEF x
  <2>5. turnEpisode' \in Seq(RoutesTo)
    BY <2>1, <2>4, RememberedType
  <2> QED BY <1>0, <1>2, <2>1, <2>5
<1>6. CASE Schedule(h)
  <2>1. queue' = Remembered(queue, th[h].ep, QueueLimit) /\ UNCHANGED turnEpisode
    BY <1>6 DEF Schedule, registry
  <2>2. Stands(h, "schedule")
    BY <1>6, ScheduleMoves DEF Quiet
  <2>3. th[h].ep \in Known
    BY <2>2 DEF Stands, PlacesOK, AllPlaced, Placed
  <2>4. queue' \in Seq(Known)
    BY <1>0, <2>1, <2>3, RememberedType
  <2> QED BY <1>0, <1>2, <2>1, <2>4
<1>7. CASE TakeJob(h)
  <2>1. UNCHANGED turnEpisode
    BY <1>7 DEF TakeJob, registry
  <2>2. queue' = queue \/ (queue # << >> /\ queue' = Tail(queue))
    BY <1>7, TakeJobMoves
  <2>3. queue' \in Seq(Known)
    BY <1>0, <2>2, TailEntries
  <2> QED BY <1>0, <1>2, <2>1, <2>3
<1>8. CASE Forget(h)
  <2>1. turnEpisode' = RoutesOfOthers(th[h].ep) /\ UNCHANGED queue
    BY <1>8 DEF Forget, work
  <2>2. turnEpisode' \in Seq(RoutesTo)
    BY <1>0, <2>1, OnlyType DEF RoutesOfOthers
  <2> QED BY <1>0, <1>2, <2>1, <2>2
<1>9. CASE \/ Create(h) \/ Mark(h) \/ Reload(h) \/ CountTurn(h) \/ AppendTurn(h)
           \/ FindLock(h) \/ Enter(h) \/ Leave(h) \/ Gate(h) \/ Finish(h)
           \/ Promote(h) \/ StartDrainer(h) \/ CheckActive(h)
  BY <1>3, <1>9 DEF Create, Mark, Reload, CountTurn, AppendTurn, FindLock, Enter, Leave, Gate, Finish,
     Promote, StartDrainer, CheckActive, work, registry
<1>10. CASE \/ CallComponent(h) \/ UseAnswer(h) \/ Inject(h)
            \/ CheckHealth(h) \/ LintResponse(h) \/ Entail(h) \/ Enforce(h) \/ Rewrite(h) \/ Relint(h)
            \/ RecordLint(h) \/ Archive(h) \/ Fail(h)
  BY <1>3, <1>10 DEF CallComponent, UseAnswer, Inject, CheckHealth, LintResponse, Entail, Enforce, Rewrite,
     Relint, RecordLint, Archive, Fail, work, registry
<1> QED BY <1>4, <1>5, <1>6, <1>7, <1>8, <1>9, <1>10 DEF Step

\* After an answer there is nothing left to do.
LEMMA OnlyFinish ==
  ASSUME ThreadsOK, NEW h \in Threads, Step(h), At(h) = "answer"
  PROVE  th'[h] = Resting
<1>1. \A x : Doing(h, x) => x = "answer"
  BY DEF At, Doing
<1>2. Finish(h)
  BY <1>1 DEF Step, Resolve, Create, Remember, Mark, Reload, CountTurn, AppendTurn, FindLock, Enter,
     Leave, Gate, Promote, Schedule, StartDrainer, TakeJob, CheckActive, CallComponent, UseAnswer,
     Inject, CheckHealth, LintResponse, Entail, Enforce, Rewrite, Relint, RecordLint, Archive, Forget,
     Fail, Doing, Lookups
<1> QED BY <1>2, FinishMoves

\* Where a thread goes on, it keeps its episode, or has just been given one.
LEMMA StepPlaced ==
  ASSUME ThreadsOK, EpisodesOK, AllAskedOK, PlacesOK, NEW h \in Threads, Step(h)
  PROVE  /\ AllPlaced'
         /\ h # Drainer /\ th'[h].script # << >> /\ th'[h].ep = 0 => th[h].ep = 0
         /\ th[h].ep # 0 => ~Opens(h)
         /\ Opens(h) => th'[h].ep # 0
<1>0. Known \subseteq Known' /\ Others(h) /\ ThreadsOK'
  BY KnownGrows, StepPasses DEF Passage
<1>1. ASSUME NEW g \in Threads \ {h} PROVE Placed(g)'
  <2>1. CASE th'[g] = th[g]
    BY <1>0, <1>1, <2>1 DEF PlacesOK, AllPlaced, Placed, At
  <2>2. CASE th'[g] = Woken
    <3>1. At(g)' = "pop"
      BY <2>2, WokenOK DEF At
    <3> QED BY <3>1 DEF Placed
  <2> QED BY <1>0, <1>1, <2>1, <2>2 DEF Others
<1>2. Placed(h)
  BY DEF PlacesOK, AllPlaced
<1>3. ASSUME th'[h] = Resting PROVE Placed(h)'
  <2>1. At(h)' = "rest"
    BY <1>3, RestAsked DEF At
  <2> QED BY <2>1 DEF Placed
<1>4. 0 \notin Known
  BY FreeOrKnown
<1>5. th[h].ep # 0 => ~Opens(h)
  BY <1>2 DEF Opens, Stands, Placed
<1>6. Opens(h) => th'[h].ep # 0
  <2> SUFFICES ASSUME Opens(h) PROVE th'[h].ep # 0
    OBVIOUS
  <2>1. Some(Free) \in Free
    BY OpensTable DEF PlacesOK
  <2>2. th'[h].ep = Some(Free)
    BY DEF Opens, Finds
  <2>3. Some(Free) # 0
    BY <2>1, FreeOrKnown
  <2> QED BY <2>2, <2>3
<1> DEFINE Fits == Placed(h)' /\ (h # Drainer /\ th'[h].script # << >> /\ th'[h].ep = 0 => th[h].ep = 0)
<1>7. ASSUME At(h) \notin {"rest", "resolve", "create", "pop"}, At(h)' \notin {"resolve", "create"},
             th'[h] = Resting \/ th'[h].ep = th[h].ep
      PROVE  Fits
  <2>1. CASE th'[h] = Resting
    BY <1>3, <2>1, RestAsked
  <2>2. CASE At(h) # "answer" /\ th'[h].ep = th[h].ep
    BY <1>0, <1>2, <1>4, <1>7, <2>2 DEF Placed
  <2> QED BY <1>7, <2>1, <2>2, OnlyFinish
<1>8. ASSUME NEW e \in Known', e # 0, NEW x, Finds(h, x, e) PROVE Fits
  BY <1>8 DEF Finds, Placed
<1>9. 0 \notin Known'
  BY BudgetAssumption DEF Known
<1>10. ASSUME Ordinary(h) PROVE Fits
  BY <1>7, <1>10 DEF Ordinary
<1>11. ASSUME Resolve(h) PROVE Fits
  <2>1. CASE Quiet(h, "resolve", {"create"})
    <3>1. At(h)' = "create" /\ Keeps(h) /\ At(h) = "resolve"
      BY <2>1 DEF Quiet, Stands
    <3>2. th'[h] # Resting
      BY <3>1, RestAsked DEF At
    <3> QED BY <1>2, <3>1, <3>2 DEF Keeps, Placed
  <2>2. CASE Found(th[h].session) # {} /\ Finds(h, "resolve", Some(Found(th[h].session)))
    <3>1. Some(Found(th[h].session)) \in Known
      BY <2>2, FindsKnown DEF PlacesOK
    <3> QED BY <1>0, <1>8, <1>9, <2>2, <3>1
  <2>3. CASE /\ Routed(th[h].marker) # {}
             /\ Finds(h, "resolve", turnEpisode[Some(Routed(th[h].marker))].ep)
    <3>1. Some(Routed(th[h].marker)) \in DOMAIN turnEpisode
      BY <2>3, SomeMember DEF Routed
    <3>2. turnEpisode[Some(Routed(th[h].marker))] \in RoutesTo
      BY <3>1 DEF PlacesOK, NamesOK
    <3>3. turnEpisode[Some(Routed(th[h].marker))].ep \in Known
      BY <3>2 DEF RoutesTo
    <3> QED BY <1>0, <1>8, <1>9, <2>3, <3>3
  <2> QED BY <1>11, <2>1, <2>2, <2>3, ResolveMoves
<1>12. ASSUME Create(h) PROVE Fits
  <2>1. CASE Found(th[h].session) # {} /\ Finds(h, "create", Some(Found(th[h].session)))
    <3>1. Some(Found(th[h].session)) \in Known
      BY <2>1, FindsKnown DEF PlacesOK
    <3> QED BY <1>0, <1>8, <1>9, <2>1, <3>1
  <2>2. CASE Opens(h)
    <3>1. Some(Free) \in Free /\ episodes'[Some(Free)].state = "active"
      BY <2>2, OpensTable DEF PlacesOK
    <3>2. Some(Free) \in Known'
      BY <3>1, FreeOrKnown DEF Known
    <3> QED BY <1>8, <1>9, <2>2, <3>2 DEF Opens
  <2>3. Opens(h) \/ (Found(th[h].session) # {} /\ Finds(h, "create", Some(Found(th[h].session))))
    BY <1>12, CreateMoves DEF Opens, Finds
  <2> QED BY <2>1, <2>2, <2>3
<1>13. ASSUME Schedule(h) PROVE Fits
  <2>1. Stands(h, "schedule") /\ Keeps(h) /\ At(h)' \in {"lock", "start"}
    BY <1>13, ScheduleMoves DEF Quiet
  <2> QED BY <1>7, <2>1 DEF Keeps, Stands
<1>14. ASSUME StartDrainer(h) PROVE Fits
  <2>1. Stands(h, "start") /\ Keeps(h) /\ At(h)' \in {"lock", "pop", "rest", "answer"}
    BY <1>14, StartDrainerMoves, RuntimeAssumption DEF Falls, Landings
  <2> QED BY <1>7, <2>1 DEF Keeps, Stands
<1>15. ASSUME TakeJob(h) PROVE Fits
  <2>1. h = Drainer
    BY <1>15, TakeJobMoves
  <2>2. CASE th'[h] = Resting
    BY <1>3, <2>1, <2>2
  <2>3. CASE queue # << >> /\ At(h)' = "active" /\ th'[h].ep = Head(queue)
    <3>1. Head(queue) \in Known
      BY <2>3 DEF PlacesOK, NamesOK
    <3> QED BY <1>0, <2>1, <2>3, <3>1 DEF Placed
  <2> QED BY <1>15, <2>2, <2>3, TakeJobMoves
<1>16. ASSUME FindLock(h) PROVE Fits
  <2>1. Stands(h, "lock") /\ Keeps(h) /\ At(h)' = "enter"
    BY <1>16, FindLockMoves DEF Quiet
  <2> QED BY <1>7, <2>1 DEF Keeps, Stands
<1>17. ASSUME Enter(h) PROVE Fits
  <2>1. Stands(h, "enter") /\ Keeps(h) /\ At(h)' = "leave"
    BY <1>17, EnterMoves DEF Quiet
  <2> QED BY <1>7, <2>1 DEF Keeps, Stands
<1>18. ASSUME Leave(h) PROVE Fits
  <2>1. Stands(h, "leave") /\ Keeps(h) /\ At(h)' \in {"gate", "inject", "rest", "pop", "answer"}
    BY <1>18, LeaveMoves DEF Quiet, Falls, Landings
  <2> QED BY <1>7, <2>1 DEF Keeps, Stands
<1>19. ASSUME Archive(h) PROVE Fits
  <2>1. Stands(h, "archive") /\ Keeps(h) /\ At(h)' \in {"forget", "rest", "pop", "answer"}
    BY <1>19, ArchiveMoves DEF Quiet, Falls, Landings
  <2> QED BY <1>7, <2>1 DEF Keeps, Stands
<1>21. ASSUME Lost(h) PROVE Fits
  <2>1. At(h) \in {"resolve", "create"} /\ Keeps(h) /\ At(h)' \in {"rest", "answer"} /\ th[h].ep = 0
    BY <1>2, <1>21 DEF Lost, Placed
  <2> QED BY <1>3, <2>1, RestAsked DEF Keeps, Placed
<1>20. Fits
  BY <1>10, <1>11, <1>12, <1>13, <1>14, <1>15, <1>16, <1>17, <1>18, <1>19, <1>21, StepOrdinary
<1> QED BY <1>1, <1>5, <1>6, <1>20 DEF AllPlaced

LEMMA StepRoom ==
  ASSUME ThreadsOK, EpisodesOK, AllAskedOK, PlacesOK, NEW h \in Threads, Step(h)
  PROVE  RoomOK'
<1>0. /\ Others(h) /\ (h # Drainer /\ th'[h].script # << >> /\ th'[h].ep = 0 => th[h].ep = 0)
      /\ (Opens(h) => th'[h].ep # 0) /\ th[h].script # << >>
  BY StepPasses, StepPlaced DEF Passage
<1>1. Waiting' \subseteq Waiting
  BY <1>0 DEF Waiting, Others
<1>2. IsFiniteSet(Waiting) /\ Cardinality(Waiting) \in Nat
  <2>1. Waiting \subseteq Threads
    BY DEF Waiting
  <2> QED BY <2>1, BudgetAssumption, FS_Subset, FS_CardinalityType
<1>3. IsFiniteSet(Free) /\ Cardinality(Free) \in Nat
  BY FreeOrKnown, FS_CardinalityType
<1>4. Cardinality(Waiting) <= Cardinality(Free)
  BY DEF PlacesOK, RoomOK
<1>5. Cardinality(Waiting') <= Cardinality(Waiting) /\ Cardinality(Waiting') \in Nat
  BY <1>1, <1>2, FS_Subset, FS_CardinalityType
<1>6. CASE Free' = Free
  BY <1>2, <1>3, <1>4, <1>5, <1>6 DEF RoomOK
<1>7. CASE Opens(h) /\ Free' = Free \ {Some(Free)}
  <2>1. Some(Free) \in Free /\ h \in Waiting
    BY <1>7, OpensTable DEF PlacesOK
  <2>2. h \notin Waiting'
    BY <1>0, <1>7 DEF Waiting
  <2>3. Waiting' \subseteq Waiting \ {h}
    BY <1>1, <2>2
  <2>4. IsFiniteSet(Waiting \ {h}) /\ Cardinality(Waiting \ {h}) = Cardinality(Waiting) - 1
    BY <1>2, <2>1, FS_RemoveElement
  <2>5. Cardinality(Waiting') <= Cardinality(Waiting) - 1
    BY <2>3, <2>4, FS_Subset
  <2>6. Cardinality(Free') = Cardinality(Free) - 1
    BY <1>3, <1>7, <2>1, FS_RemoveElement
  <2> QED BY <1>2, <1>3, <1>4, <1>5, <2>5, <2>6 DEF RoomOK
<1> QED BY <1>6, <1>7, KnownGrows

LEMMA CallbackPlaces ==
  ASSUME ThreadsOK, EpisodesOK, PlacesOK, NEW h \in Threads, NEW hook \in Callbacks, NEW session, NEW marker,
         Callback(h, hook, session, marker)
  PROVE  PlacesOK'
<1>1. /\ h # Drainer /\ th[h] = Resting /\ Alone(h) /\ At(h)' = "resolve" /\ th'[h].ep = 0
  BY CallbackMoves
<1>2. UNCHANGED <<episodes, queue, turnEpisode>>
  BY DEF Callback, registry, work
<1>3. Known' = Known /\ KeysOK' /\ Free' = Free
  BY <1>2 DEF Known, KeysOK, PlacesOK, Free
<1>4. NamesOK'
  <2>1. RoutesTo' = RoutesTo
    BY <1>3 DEF RoutesTo
  <2> QED BY <1>2, <1>3, <2>1 DEF PlacesOK, NamesOK
<1>5. Placed(h)'
  BY <1>1 DEF Placed
<1>6. ASSUME NEW g \in Threads \ {h} PROVE Placed(g)'
  BY <1>1, <1>3 DEF Alone, At, Placed, PlacesOK, AllPlaced
<1>7. RoomOK'
  <2> DEFINE C == {x \in Threads : th[x].ep = 0 /\ th[x].script # << >>}
  <2>1. Cardinality(C) < Cardinality(Free)
    BY DEF Callback
  <2>2. Waiting \subseteq C /\ C \subseteq Threads
    BY DEF Waiting
  <2> HIDE DEF C
  <2>3. IsFiniteSet(C) /\ Cardinality(C) \in Nat
    BY <2>2, BudgetAssumption, FS_Subset, FS_CardinalityType
  <2>4. IsFiniteSet(Waiting) /\ Cardinality(Waiting) \in Nat /\ Cardinality(Waiting) <= Cardinality(C)
    BY <2>2, <2>3, FS_Subset, FS_CardinalityType
  <2>5. Waiting' \subseteq Waiting \cup {h}
    BY <1>1 DEF Waiting, Alone
  <2>6. /\ IsFiniteSet(Waiting \cup {h}) /\ Cardinality(Waiting \cup {h}) <= Cardinality(Waiting) + 1
        /\ Cardinality(Waiting \cup {h}) \in Nat
    <3> DEFINE W == Waiting
    <3>1. IsFiniteSet(W) /\ Cardinality(W) \in Nat
      BY <2>4
    <3> HIDE DEF W
    <3>2. /\ IsFiniteSet(W \cup {h})
          /\ Cardinality(W \cup {h}) = IF h \in W THEN Cardinality(W) ELSE Cardinality(W) + 1
      BY <3>1, FS_AddElement
    <3> QED BY <3>1, <3>2 DEF W
  <2>7. Cardinality(Waiting') <= Cardinality(Waiting \cup {h}) /\ Cardinality(Waiting') \in Nat
    BY <2>5, <2>6, FS_Subset, FS_CardinalityType
  <2>8. Cardinality(Free) \in Nat
    BY FreeOrKnown, FS_CardinalityType
  <2> QED BY <1>3, <2>1, <2>3, <2>4, <2>6, <2>7, <2>8 DEF RoomOK
<1> QED BY <1>3, <1>4, <1>5, <1>6, <1>7 DEF PlacesOK, AllPlaced

LEMMA RestPlaces ==
  ASSUME EpisodesOK, \A h \in Threads : th[h] = Resting, KeysOK, queue = << >>, turnEpisode = << >>
  PROVE  PlacesOK
<1>1. \A h \in Threads : At(h) = "rest"
  BY RestAsked DEF At
<1>2. AllPlaced
  BY <1>1 DEF AllPlaced, Placed
<1>3. << >> \in Seq(Known) /\ << >> \in Seq(RoutesTo)
  OBVIOUS
<1>4. Waiting = {}
  BY RestAsked DEF Waiting
<1>5. Cardinality(Waiting) = 0 /\ Cardinality(Free) \in Nat
  BY <1>4, FreeOrKnown, FS_EmptySet, FS_CardinalityType
<1> QED BY <1>2, <1>3, <1>5 DEF PlacesOK, NamesOK, RoomOK

LEMMA PlacesBegin == ASSUME HostInit PROVE PlacesOK
<1>1. (\A h \in Threads : th[h] = Resting) /\ queue = << >> /\ turnEpisode = << >>
  BY DEF HostInit
<1>2. \A e \in Episodes : episodes[e] = Absent
  BY DEF HostInit
<1>3. KeysOK
  BY <1>2, AbsentOK DEF KeysOK
<1> QED BY <1>1, <1>3, RestPlaces, TablesBegin

LEMMA PlacesKept ==
  ASSUME ThreadsOK, EpisodesOK, AllAskedOK, PlacesOK, [HostNext]_hostVars
  PROVE  PlacesOK'
<1>1. CASE \E h \in Threads : Step(h)
  BY <1>1, StepPlaced, StepNames, StepRoom, KnownGrows DEF PlacesOK
<1>2. ASSUME NEW h \in Threads, NEW hook \in Hooks, NEW session \in Sessions \cup {None},
             NEW marker \in Markers, Callback(h, hook, session, marker)
      PROVE  PlacesOK'
  <2>1. hook \in Callbacks
    BY RuntimeAssumption
  <2> QED BY <1>2, <2>1, CallbackPlaces
<1>3. CASE Restart
  <2>1. (\A h \in Threads : th'[h] = Resting) /\ queue' = << >> /\ turnEpisode' = << >> /\ UNCHANGED episodes
    BY <1>3, RestartMoves DEF Restart
  <2>2. EpisodesOK' /\ KeysOK'
    BY <2>1 DEF EpisodesOK, KeysOK, PlacesOK
  <2>3. \A h \in Threads : At(h)' = "rest"
    BY <1>3, RestartMoves
  <2>4. AllPlaced'
    BY <2>3 DEF AllPlaced, Placed
  <2>5. << >> \in Seq(Known') /\ << >> \in Seq(RoutesTo')
    OBVIOUS
  <2>6. Waiting' = {}
    BY <2>1, RestAsked DEF Waiting
  <2>7. Free' = Free
    BY <2>1 DEF Free
  <2>8. Cardinality(Waiting') = 0 /\ Cardinality(Free') \in Nat
    BY <2>6, <2>7, FreeOrKnown, FS_EmptySet, FS_CardinalityType
  <2> QED BY <2>1, <2>2, <2>4, <2>5, <2>8 DEF PlacesOK, NamesOK, RoomOK
<1>4. CASE UNCHANGED <<th, episodes, queue, turnEpisode>>
  BY <1>4 DEF PlacesOK, AllPlaced, Placed, At, KeysOK, NamesOK, RoomOK, Waiting, Free, Known, RoutesTo
<1>5. UNCHANGED hostVars => UNCHANGED <<th, episodes, queue, turnEpisode>>
  BY DEF hostVars
<1>6. UNCHANGED <<registry, work>> => UNCHANGED <<queue, turnEpisode>>
  BY DEF registry, work
<1> QED BY <1>1, <1>2, <1>3, <1>4, <1>5, <1>6 DEF HostNext, Environment

\* resolve_episode_id: past its lookup a callback works on an episode of the ledger,
\* and so does whatever the process has routed or queued.
THEOREM WorkIsPlaced == HostSpec => []PlacesOK
BY PlacesBegin, PlacesKept, ScriptsFollow, TurnsStartOnce, PTL DEF HostSpec

-----------------------------------------------------------------------------
(* OneHolder: every thread in a section of an active episode took the lock *)
(* object that the registry names for the episode.                         *)

LockOK(h) ==
  /\ th[h].lock \in LockIds \cup {0}
  /\ At(h) \in {"enter", "leave"} => th[h].lock # 0
  /\ At(h) = "leave" => holder[th[h].lock] = h
  /\ th[h].lock # 0 /\ episodes[th[h].ep].state = "active" => locks[th[h].ep] = th[h].lock
  /\ At(h) = "forget" => episodes[th[h].ep].state = "finalized"

LockTables ==
  /\ locks \in [Episodes -> LockIds \cup {0}]
  /\ \A e \in Episodes : episodes[e].state = "absent" => locks[e] = 0
  /\ holder \in [LockIds -> Threads \cup {None}]

LocksOK == LockTables /\ \A h \in Threads : LockOK(h)

LEMMA ImageSize ==
  ASSUME NEW S, IsFiniteSet(S), NEW f, DOMAIN f = S
  PROVE  IsFiniteSet({f[x] : x \in S}) /\ Cardinality({f[x] : x \in S}) <= Cardinality(S)
<1> DEFINE T == {f[x] : x \in S}
           g == [x \in S |-> f[x]]
<1>1. g \in Surjection(S, T)
  BY DEF Surjection
<1> HIDE DEF g, T
<1>2. IsFiniteSet(T) /\ Cardinality(T) <= Cardinality(S)
  BY <1>1, FS_Surjection
<1> QED BY <1>2 DEF T

\* There are more lock objects than threads and episodes can hold.
LEMMA NewLockFresh ==
  ASSUME NEW e \in Episodes, locks[e] = 0, NEW h \in Threads, th[h].lock = 0,
         DOMAIN locks = Episodes, DOMAIN th = Threads
  PROVE  NewLock \in LockIds
<1> DEFINE E == Episodes \ {e}
           H == Threads \ {h}
           own == [g \in H |-> th[g].lock]
           named == [x \in E |-> locks[x]]
           A == {named[x] : x \in E}
           B == {own[g] : g \in H}
           N == Cardinality(Episodes) + Cardinality(Threads)
<1>1. /\ IsFiniteSet(E) /\ IsFiniteSet(H) /\ Cardinality(Episodes) \in Nat /\ Cardinality(Threads) \in Nat
      /\ Cardinality(E) = Cardinality(Episodes) - 1 /\ Cardinality(H) = Cardinality(Threads) - 1
  BY BudgetAssumption, FS_RemoveElement, FS_CardinalityType
<1>2. /\ IsFiniteSet(A) /\ Cardinality(A) <= Cardinality(E) /\ IsFiniteSet(B)
      /\ Cardinality(B) <= Cardinality(H)
  <2>1. DOMAIN named = E /\ DOMAIN own = H
    OBVIOUS
  <2> HIDE DEF named, own, E, H
  <2> QED BY <1>1, <2>1, ImageSize
<1>3. Cardinality(A) \in Nat /\ Cardinality(B) \in Nat
  <2> HIDE DEF A, B
  <2> QED BY <1>2, FS_CardinalityType
<1>4. \A x \in E : locks[x] \in A
  OBVIOUS
<1>5. \A g \in H : th[g].lock \in B
  OBVIOUS
<1> HIDE DEF A, B
<1>6. IsFiniteSet(A \cup B) /\ Cardinality(A \cup B) <= Cardinality(A) + Cardinality(B)
  <2>1. Cardinality(A \cap B) \in Nat
    <3>1. A \cap B \subseteq A
      OBVIOUS
    <3> QED BY <1>2, <3>1, FS_Subset, FS_CardinalityType
  <2>2. IsFiniteSet(A \cup B) /\ Cardinality(A \cup B) = Cardinality(A) + Cardinality(B) - Cardinality(A \cap B)
    BY <1>2, FS_Union
  <2> QED BY <1>3, <2>1, <2>2
<1> HIDE DEF E, H
<1>7. Cardinality(A \cup B) <= N - 2 /\ N \in Nat /\ Cardinality(A \cup B) \in Nat
  BY <1>1, <1>2, <1>3, <1>6, FS_CardinalityType
<1> HIDE DEF N
<1>8. Cardinality(1..N) = N
  BY <1>7, FS_Interval
<1>9. \E l \in 1..N : l \notin A \cup B
  <2> SUFFICES ASSUME 1..N \subseteq A \cup B PROVE FALSE
    OBVIOUS
  <2>1. Cardinality(1..N) <= Cardinality(A \cup B)
    BY <1>6, FS_Subset
  <2> QED BY <1>7, <1>8, <2>1
<1>10. PICK l \in 1..N : l \notin A \cup B
  BY <1>9
<1>11. l \in LockIds /\ l # 0
  BY <1>10, <1>7 DEF LockIds, N
<1>12. \A x \in Episodes : locks[x] # l
  BY <1>4, <1>10, <1>11 DEF E
<1>13. \A g \in Threads : th[g].lock # l
  BY <1>5, <1>10, <1>11 DEF H
<1>14. l \in LockIds \ ({locks[x] : x \in Episodes} \cup {th[g].lock : g \in Threads})
  BY <1>11, <1>12, <1>13
<1>15. LockIds \ ({locks[x] : x \in Episodes} \cup {th[g].lock : g \in Threads}) # {}
  BY <1>14
<1> QED BY <1>15, SomeMember DEF NewLock

LEMMA LockIdsPositive == 0 \notin LockIds
<1>1. Cardinality(Episodes) + Cardinality(Threads) \in Nat
  BY BudgetAssumption, FS_CardinalityType
<1> QED BY <1>1 DEF LockIds

\* A closed episode stays closed, and only an absent one becomes active.
LEMMA StatesMove ==
  ASSUME ThreadsOK, EpisodesOK, AllAskedOK, PlacesOK, NEW h \in Threads, Step(h)
  PROVE  /\ \A e \in Known : /\ episodes'[e].state = "active" => episodes[e].state = "active"
                             /\ episodes[e].state = "finalized" => episodes'[e].state = "finalized"
         /\ \A e \in Episodes : episodes'[e].state = "absent" => episodes[e].state = "absent"
<1>1. CASE UNCHANGED episodes
  BY <1>1
<1>2. CASE Opens(h)
  <2>1. /\ Some(Free) \in Free /\ episodes'[Some(Free)].state = "active"
        /\ \A e \in Episodes \ {Some(Free)} : episodes'[e] = episodes[e]
    BY <1>2, OpensTable DEF PlacesOK
  <2> QED BY <2>1 DEF Known, Free
<1>3. CASE Begins(h)
  <2>1. /\ \A e \in Episodes \ {th[h].ep} : episodes'[e] = episodes[e]
        /\ episodes'[th[h].ep].state = episodes[th[h].ep].state
    BY <1>3, BeginsTable DEF PlacesOK
  <2> QED BY <2>1 DEF Known
<1>4. CASE Closes(h)
  <2>1. /\ th[h].ep \in Known /\ \A e \in Episodes \ {th[h].ep} : episodes'[e] = episodes[e]
        /\ episodes'[th[h].ep].state = "finalized"
    BY <1>4, ClosesTable DEF PlacesOK
  <2> QED BY <2>1 DEF Known
<1> QED BY <1>1, <1>2, <1>3, <1>4, StepEpisodes

\* Where the tables of locks stay, so does every thread but the one that steps.
LEMMA LocksElsewhere ==
  ASSUME ThreadsOK, EpisodesOK, AllAskedOK, PlacesOK, LocksOK, NEW h \in Threads, Step(h),
         NEW g \in Threads \ {h},
         At(g) = "leave" => holder'[th[g].lock] = g,
         th[g].lock # 0 /\ episodes[th[g].ep].state = "active" => locks'[th[g].ep] = th[g].lock
  PROVE  LockOK(g)'
<1>1. th'[g] = th[g] \/ th'[g] = Woken
  BY StepPasses DEF Passage, Others
<1>2. CASE th'[g] = Woken
  <2>1. At(g)' = "pop" /\ th'[g].lock = 0
    BY <1>2, WokenOK DEF At
  <2> QED BY <2>1 DEF LockOK
<1>3. CASE th'[g] = th[g]
  <2>1. At(g)' = At(g) /\ LockIds' = LockIds
    BY <1>3 DEF At, LockIds
  <2>2. LockOK(g) /\ Placed(g) /\ RecordOK(g, th[g])
    BY DEF LocksOK, PlacesOK, AllPlaced, ThreadsOK, ThreadOK
  <2>3. th[g].lock # 0 => At(g) \in {"enter", "leave"}
    BY <2>2 DEF RecordOK, At
  <2>4. th[g].lock # 0 \/ At(g) = "forget" => th[g].ep \in Known
    BY <2>2, <2>3 DEF Placed
  <2>5. th'[g].lock # 0 /\ episodes'[th'[g].ep].state = "active" => locks'[th'[g].ep] = th'[g].lock
    BY <1>3, <2>4, StatesMove
  <2>6. At(g) = "forget" => episodes'[th'[g].ep].state = "finalized"
    BY <1>3, <2>2, <2>4, StatesMove DEF LockOK
  <2> QED BY <1>3, <2>1, <2>2, <2>5, <2>6 DEF LockOK
<1> QED BY <1>1, <1>2, <1>3

\* The thread that steps, where it goes on without a lock.
LEMMA LocksLet ==
  ASSUME NEW h \in Threads, ThreadsOK', At(h)' \notin {"enter", "leave", "forget"}
  PROVE  LockOK(h)' /\ th'[h].lock = 0
<1>1. RecordOK(h, th'[h])
  BY DEF ThreadsOK, ThreadOK, RecordOK
<1>2. th'[h].lock = 0
  BY <1>1 DEF RecordOK, At
<1> QED BY <1>2 DEF LockOK

LEMMA TablesLeft ==
  ASSUME ThreadsOK, EpisodesOK, AllAskedOK, PlacesOK, LocksOK, NEW h \in Threads, Step(h),
         UNCHANGED <<locks, holder>>
  PROVE  LockTables' /\ \A g \in Threads \ {h} : LockOK(g)'
<1>1. LockTables'
  BY StatesMove DEF LocksOK, LockTables, LockIds
<1>2. ASSUME NEW g \in Threads \ {h} PROVE LockOK(g)'
  BY LocksElsewhere DEF LocksOK, LockOK
<1> QED BY <1>1, <1>2

LEMMA LocksTouched ==
  ASSUME NEW h \in Threads, Step(h)
  PROVE  /\ UNCHANGED locks \/ Create(h) \/ FindLock(h) \/ Forget(h)
         /\ UNCHANGED holder \/ Enter(h) \/ Leave(h)
<1>1. CASE Create(h)
  BY <1>1 DEF Create
<1>2. CASE FindLock(h)
  BY <1>2 DEF FindLock
<1>3. CASE Forget(h)
  BY <1>3 DEF Forget
<1>4. CASE Enter(h)
  BY <1>4 DEF Enter
<1>5. CASE Leave(h)
  BY <1>5 DEF Leave
<1>6. CASE \/ Resolve(h) \/ Remember(h) \/ Mark(h) \/ Reload(h) \/ CountTurn(h) \/ AppendTurn(h)
           \/ Gate(h) \/ Finish(h) \/ Promote(h) \/ Schedule(h) \/ StartDrainer(h) \/ TakeJob(h) \/ CheckActive(h)
  BY <1>6 DEF Resolve, Remember, Mark, Reload, CountTurn, AppendTurn, Gate, Finish, Promote, Schedule,
     StartDrainer, TakeJob, CheckActive, registry
<1>7. CASE \/ CallComponent(h) \/ UseAnswer(h) \/ Inject(h)
           \/ CheckHealth(h) \/ LintResponse(h) \/ Entail(h) \/ Enforce(h) \/ Rewrite(h) \/ Relint(h)
           \/ RecordLint(h) \/ Archive(h) \/ Fail(h)
  BY <1>7 DEF CallComponent, UseAnswer, Inject, CheckHealth, LintResponse, Entail, Enforce, Rewrite,
     Relint, RecordLint, Archive, Fail, registry
<1> QED BY <1>1, <1>2, <1>3, <1>4, <1>5, <1>6, <1>7 DEF Step

LEMMA StepLocks ==
  ASSUME ThreadsOK, EpisodesOK, AllAskedOK, PlacesOK, LocksOK, NEW h \in Threads, Step(h)
  PROVE  LocksOK'
<1>0. LockTables /\ LockOK(h) /\ Placed(h) /\ ThreadsOK'
  BY StepPasses DEF Passage, LocksOK, PlacesOK, AllPlaced
<1>1. CASE UNCHANGED <<locks, holder>>
  <2>1. LockTables' /\ \A g \in Threads \ {h} : LockOK(g)'
    BY <1>1, TablesLeft
  <2>2. CASE At(h)' \notin {"enter", "leave", "forget"}
    <3>1. LockOK(h)'
      BY <1>0, <2>2, LocksLet
    <3> QED BY <2>1, <3>1 DEF LocksOK
  <2>3. CASE \/ Ordinary(h) \/ Resolve(h) \/ Create(h) \/ Schedule(h) \/ StartDrainer(h) \/ TakeJob(h)
             \/ Lost(h)
    <3>1. CASE Ordinary(h)
      BY <2>2, <3>1 DEF Ordinary
    <3>2. CASE Resolve(h)
      BY <2>2, <3>2, ResolveMoves DEF Quiet, Finds
    <3>3. CASE Create(h)
      BY <2>2, <3>3, CreateMoves DEF Finds
    <3>4. CASE Schedule(h)
      BY <2>2, <3>4, ScheduleMoves DEF Quiet
    <3>5. CASE StartDrainer(h)
      BY <2>2, <3>5, StartDrainerMoves, RuntimeAssumption DEF Falls, Landings
    <3>6. CASE TakeJob(h)
      BY <2>2, <3>6, TakeJobMoves
    <3>7. CASE Lost(h)
      BY <2>2, <3>7 DEF Lost
    <3> QED BY <2>3, <3>1, <3>2, <3>3, <3>4, <3>5, <3>6, <3>7
  <2>4. CASE Archive(h)
    <3>1. CASE Quiet(h, "archive", {"forget"}) /\ th'[h].ep = th[h].ep /\ Closes(h)
      <4>1. At(h)' = "forget" /\ episodes'[th'[h].ep].state = "finalized"
        BY <3>1, ClosesTable DEF Quiet, PlacesOK
      <4>2. RecordOK(h, th'[h])
        BY <1>0 DEF ThreadsOK, ThreadOK, RecordOK
      <4>3. th'[h].lock = 0
        BY <4>1, <4>2 DEF RecordOK, At
      <4>4. LockOK(h)'
        BY <4>1, <4>3 DEF LockOK
      <4> QED BY <2>1, <4>4 DEF LocksOK
    <3>2. CASE Falls(h, "archive")
      BY <2>2, <3>2 DEF Falls, Landings
    <3>3. \/ /\ Quiet(h, "archive", {"forget"}) /\ th'[h].ep = th[h].ep /\ h # Drainer
             /\ episodes' = [episodes EXCEPT ![th[h].ep].state = "finalized", ![th[h].ep].key = "closed"]
          \/ Falls(h, "archive")
      BY <2>4, ArchiveMoves
    <3> QED BY <3>1, <3>2, <3>3 DEF Quiet, Closes
  <2>5. CASE FindLock(h) \/ Enter(h) \/ Leave(h)
    <3>1. CASE Leave(h)
      BY <2>2, <3>1, LeaveMoves DEF Quiet, Falls, Landings
    <3>2. CASE FindLock(h)
      <4>1. /\ Stands(h, "lock") /\ At(h)' = "enter" /\ th'[h].lock = LockFor(th[h].ep) /\ th'[h].ep = th[h].ep
        BY <3>2, FindLockMoves DEF Quiet
      <4>2. th[h].ep \in Known /\ th[h].lock = 0
        BY <1>0, <4>1 DEF Placed, Stands
      <4>3. th[h].ep \in Episodes
        BY <4>2 DEF Known
      <4>4. locks' = [locks EXCEPT ![th[h].ep] = LockFor(th[h].ep)]
        BY <3>2 DEF FindLock
      <4>5. locks[th[h].ep] = LockFor(th[h].ep)
        BY <1>0, <1>1, <4>3, <4>4 DEF LockTables
      <4>6. LockFor(th[h].ep) \in LockIds
        <5>1. CASE locks[th[h].ep] = 0
          <6>1. NewLock \in LockIds
            BY <1>0, <4>2, <4>3, <5>1, NewLockFresh DEF LockTables, ThreadsOK
          <6> QED BY <5>1, <6>1 DEF LockFor
        <5>2. CASE locks[th[h].ep] # 0
          BY <1>0, <4>3, <5>2 DEF LockFor, LockTables
        <5> QED BY <5>1, <5>2
      <4>7. LockOK(h)'
        <5>1. th'[h].lock \in LockIds \cup {0} /\ th'[h].lock # 0 /\ locks'[th'[h].ep] = th'[h].lock
          BY <1>1, <4>1, <4>5, <4>6, LockIdsPositive
        <5> QED BY <4>1, <5>1 DEF LockOK, LockIds
      <4> QED BY <2>1, <4>7 DEF LocksOK
    <3>3. CASE Enter(h)
      <4>1. /\ Stands(h, "enter") /\ At(h)' = "leave" /\ th'[h].lock = th[h].lock /\ th'[h].ep = th[h].ep
        BY <3>3, EnterMoves DEF Quiet
      <4>2. th[h].lock \in LockIds
        BY <1>0, <4>1 DEF LockOK, Stands
      <4>3. holder[th[h].lock] = None /\ holder' = [holder EXCEPT ![th[h].lock] = h]
        BY <3>3 DEF Enter
      <4>4. holder'[th[h].lock] = h
        BY <1>0, <4>2, <4>3 DEF LockTables
      <4> QED BY <1>1, <4>3, <4>4, HostNoneAssumption
    <3> QED BY <2>5, <3>1, <3>2, <3>3
  <2> QED BY <2>3, <2>4, <2>5, StepOrdinary
<1>2. CASE Create(h) /\ ~UNCHANGED locks
  <2>1. Opens(h) /\ locks' = [locks EXCEPT ![Some(Free)] = NewLock] /\ UNCHANGED holder
    BY <1>2, CreateMoves, LocksTouched DEF Opens, Finds, Create
  <2>2. /\ Some(Free) \in Free /\ episodes'[Some(Free)].state = "active"
    BY <2>1, OpensTable DEF PlacesOK
  <2>3. Some(Free) \in Episodes /\ episodes[Some(Free)].state = "absent"
    BY <2>2 DEF Free
  <2>4. locks[Some(Free)] = 0 /\ th[h].lock = 0
    BY <1>0, <2>1, <2>3 DEF LockTables, Opens, Stands
  <2>5. NewLock \in LockIds
    BY <1>0, <2>3, <2>4, NewLockFresh DEF LockTables, ThreadsOK
  <2>6. LockTables'
    <3>1. DOMAIN locks' = Episodes /\ \A e \in Episodes \ {Some(Free)} : locks'[e] = locks[e]
      BY <1>0, <2>1 DEF LockTables
    <3>2. locks'[Some(Free)] = NewLock
      BY <1>0, <2>1, <2>3 DEF LockTables
    <3> QED BY <1>0, <2>1, <2>2, <2>5, <3>1, <3>2, StatesMove DEF LockTables, LockIds
  <2>7. ASSUME NEW g \in Threads \ {h} PROVE LockOK(g)'
    <3>1. LockOK(g) /\ Placed(g) /\ RecordOK(g, th[g])
      BY DEF LocksOK, PlacesOK, AllPlaced, ThreadsOK, ThreadOK
    <3>2. th[g].lock # 0 => th[g].ep \in Known
      BY <3>1 DEF RecordOK, Placed, At
    <3>3. th[g].lock # 0 => th[g].ep # Some(Free)
      BY <2>2, <3>2 DEF Known, Free
    <3>4. th[g].lock # 0 /\ episodes[th[g].ep].state = "active" => locks'[th[g].ep] = th[g].lock
      <4>1. th[g].lock # 0 => th[g].ep \in Episodes
        BY <3>2 DEF Known
      <4> QED BY <1>0, <2>1, <3>1, <3>3, <4>1 DEF LockOK, LockTables
    <3> QED BY <2>1, <3>1, <3>4, LocksElsewhere DEF LockOK
  <2>8. LockOK(h)'
    BY <1>0, <2>1, LocksLet DEF Opens, Finds
  <2> QED BY <2>6, <2>7, <2>8 DEF LocksOK
<1>3. CASE FindLock(h) /\ ~UNCHANGED locks
  <2> DEFINE e == th[h].ep
             l == LockFor(e)
  <2>1. /\ Stands(h, "lock") /\ At(h)' = "enter" /\ th'[h].lock = l /\ th'[h].ep = e
    BY <1>3, FindLockMoves DEF Quiet
  <2>2. e \in Known /\ th[h].lock = 0
    BY <1>0, <2>1 DEF Placed, Stands
  <2>3. e \in Episodes /\ episodes[e].state # "absent"
    BY <2>2 DEF Known
  <2>4. locks' = [locks EXCEPT ![e] = l] /\ UNCHANGED holder
    BY <1>3 DEF FindLock
  <2>5. locks[e] = 0
    <3> SUFFICES ASSUME locks[e] # 0 PROVE FALSE
      OBVIOUS
    <3>1. l = locks[e]
      BY DEF LockFor
    <3>2. locks' = locks
      <4> HIDE DEF l, e
      <4> QED BY <1>0, <2>3, <2>4, <3>1 DEF LockTables
    <3> QED BY <1>3, <3>2
  <2>6. l \in LockIds
    <3>1. NewLock \in LockIds
      BY <1>0, <2>2, <2>3, <2>5, NewLockFresh DEF LockTables, ThreadsOK
    <3> QED BY <2>5, <3>1 DEF LockFor
  <2> HIDE DEF l
  <2>7. LockTables'
    <3>1. DOMAIN locks' = Episodes /\ locks'[e] = l /\ \A x \in Episodes \ {e} : locks'[x] = locks[x]
      BY <1>0, <2>3, <2>4 DEF LockTables
    <3>2. episodes'[e].state # "absent"
      BY <2>3, StatesMove
    <3> QED BY <1>0, <2>4, <2>6, <3>1, <3>2, StatesMove DEF LockTables, LockIds
  <2>8. ASSUME NEW g \in Threads \ {h} PROVE LockOK(g)'
    <3>1. LockOK(g) /\ Placed(g) /\ RecordOK(g, th[g])
      BY DEF LocksOK, PlacesOK, AllPlaced, ThreadsOK, ThreadOK
    <3>2. th[g].lock # 0 => th[g].ep \in Episodes
      BY <3>1 DEF RecordOK, Placed, At, Known
    <3>3. th[g].lock # 0 /\ episodes[th[g].ep].state = "active" => locks'[th[g].ep] = th[g].lock
      BY <1>0, <2>4, <2>5, <3>1, <3>2 DEF LockOK, LockTables
    <3> QED BY <2>4, <3>1, <3>3, LocksElsewhere DEF LockOK
  <2>9. LockOK(h)'
    <3>1. th'[h].lock \in LockIds \cup {0} /\ th'[h].lock # 0 /\ locks'[th'[h].ep] = th'[h].lock
      BY <1>0, <2>1, <2>3, <2>4, <2>6, LockIdsPositive DEF LockTables
    <3> QED BY <2>1, <3>1 DEF LockOK, LockIds
  <2> QED BY <2>7, <2>8, <2>9 DEF LocksOK
<1>4. CASE Forget(h)
  <2>1. Stands(h, "forget") /\ At(h)' = "rest"
    BY <1>4, ForgetMoves DEF Quiet
  <2>2. episodes[th[h].ep].state = "finalized"
    BY <1>0, <2>1 DEF LockOK, Stands
  <2>3. locks' = [locks EXCEPT ![th[h].ep] = 0] /\ UNCHANGED holder
    BY <1>4 DEF Forget
  <2>4. LockTables'
    BY <1>0, <2>3, StatesMove DEF LockTables, LockIds
  <2>5. ASSUME NEW g \in Threads \ {h} PROVE LockOK(g)'
    <3>1. LockOK(g)
      BY DEF LocksOK
    <3>2. th[g].lock # 0 /\ episodes[th[g].ep].state = "active" => locks'[th[g].ep] = th[g].lock
      BY <1>0, <2>2, <2>3, <3>1 DEF LockOK, LockTables
    <3> QED BY <2>3, <3>1, <3>2, LocksElsewhere DEF LockOK
  <2>6. LockOK(h)'
    BY <1>0, <2>1, LocksLet
  <2> QED BY <2>4, <2>5, <2>6 DEF LocksOK
<1>5. CASE Enter(h)
  <2>1. /\ Stands(h, "enter") /\ At(h)' = "leave" /\ th'[h].lock = th[h].lock /\ th'[h].ep = th[h].ep
    BY <1>5, EnterMoves DEF Quiet
  <2>2. th[h].lock \in LockIds /\ th[h].lock # 0 /\ th[h].ep \in Known
    BY <1>0, <2>1 DEF LockOK, Stands, Placed
  <2>3. holder[th[h].lock] = None /\ holder' = [holder EXCEPT ![th[h].lock] = h] /\ UNCHANGED <<locks, episodes>>
    BY <1>5 DEF Enter
  <2>4. LockTables'
    BY <1>0, <2>3 DEF LockTables, LockIds
  <2>5. ASSUME NEW g \in Threads \ {h} PROVE LockOK(g)'
    <3>1. LockOK(g)
      BY DEF LocksOK
    <3>2. At(g) = "leave" => holder'[th[g].lock] = g
      <4>1. At(g) = "leave" => holder[th[g].lock] = g /\ th[g].lock \in LockIds
        BY <3>1 DEF LockOK
      <4> QED BY <1>0, <2>3, <4>1, HostNoneAssumption DEF LockTables
    <3> QED BY <2>3, <3>1, <3>2, LocksElsewhere DEF LockOK
  <2>6. LockOK(h)'
    <3>1. holder'[th'[h].lock] = h
      BY <1>0, <2>1, <2>2, <2>3 DEF LockTables
    <3> QED BY <1>0, <2>1, <2>2, <2>3, <3>1 DEF LockOK, LockIds
  <2> QED BY <2>4, <2>5, <2>6 DEF LocksOK
<1>6. CASE Leave(h)
  <2>1. Stands(h, "leave") /\ At(h)' \notin {"enter", "leave", "forget"}
    BY <1>6, LeaveMoves DEF Quiet, Falls, Landings
  <2>2. holder' = [holder EXCEPT ![th[h].lock] = None] /\ UNCHANGED <<locks, episodes>>
    BY <1>6 DEF Leave, AfterFailure
  <2>3. holder[th[h].lock] = h
    BY <1>0, <2>1 DEF LockOK, Stands
  <2>4. LockTables'
    BY <1>0, <2>2 DEF LockTables, LockIds
  <2>5. ASSUME NEW g \in Threads \ {h} PROVE LockOK(g)'
    <3>1. LockOK(g)
      BY DEF LocksOK
    <3>2. At(g) = "leave" => holder'[th[g].lock] = g
      <4>1. At(g) = "leave" => holder[th[g].lock] = g /\ th[g].lock \in LockIds
        BY <3>1 DEF LockOK
      <4> QED BY <1>0, <2>2, <2>3, <4>1 DEF LockTables
    <3> QED BY <2>2, <3>1, <3>2, LocksElsewhere DEF LockOK
  <2>6. LockOK(h)'
    BY <1>0, <2>1, LocksLet
  <2> QED BY <2>4, <2>5, <2>6 DEF LocksOK
<1> QED BY <1>1, <1>2, <1>3, <1>4, <1>5, <1>6, LocksTouched

LEMMA RestLocks ==
  ASSUME \A h \in Threads : th[h] = Resting, locks = [e \in Episodes |-> 0], holder = [l \in LockIds |-> None]
  PROVE  LocksOK
<1>1. \A h \in Threads : At(h) = "rest" /\ th[h].lock = 0
  BY RestAsked DEF At
<1>2. \A h \in Threads : LockOK(h)
  BY <1>1 DEF LockOK
<1> QED BY <1>2 DEF LocksOK, LockTables

LEMMA LocksKept ==
  ASSUME ThreadsOK, EpisodesOK, AllAskedOK, PlacesOK, LocksOK, [HostNext]_hostVars
  PROVE  LocksOK'
<1>1. CASE \E h \in Threads : Step(h)
  BY <1>1, StepLocks
<1>2. ASSUME NEW h \in Threads, NEW hook \in Hooks, NEW session \in Sessions \cup {None},
             NEW marker \in Markers, Callback(h, hook, session, marker)
      PROVE  LocksOK'
  <2>1. hook \in Callbacks
    BY RuntimeAssumption
  <2>2. Alone(h) /\ At(h)' = "resolve" /\ ThreadsOK'
    BY <1>2, <2>1, CallbackMoves
  <2>3. UNCHANGED <<episodes, locks, holder>>
    BY <1>2 DEF Callback, registry
  <2>4. LockOK(h)'
    BY <2>2, LocksLet
  <2>5. \A g \in Threads \ {h} : LockOK(g)'
    BY <2>2, <2>3 DEF Alone, LocksOK, LockOK, At, LockIds
  <2> QED BY <2>3, <2>4, <2>5 DEF LocksOK, LockTables, LockIds
<1>3. CASE Restart
  <2>1. /\ \A h \in Threads : th'[h] = Resting /\ At(h)' = "rest"
        /\ locks' = [e \in Episodes |-> 0] /\ holder' = [l \in LockIds |-> None]
    BY <1>3, RestartMoves DEF Restart
  <2>2. \A h \in Threads : LockOK(h)'
    BY <2>1, RestAsked DEF LockOK
  <2> QED BY <2>1, <2>2 DEF LocksOK, LockTables, LockIds
<1>4. CASE UNCHANGED <<th, episodes, locks, holder>>
  BY <1>4 DEF LocksOK, LockTables, LockOK, At, LockIds
<1>5. UNCHANGED hostVars => UNCHANGED <<th, episodes, locks, holder>>
  BY DEF hostVars
<1>6. UNCHANGED registry => UNCHANGED <<locks, holder>>
  BY DEF registry
<1> QED BY <1>1, <1>2, <1>3, <1>4, <1>5, <1>6 DEF HostNext, Environment

\* A thread that works on an episode is between entering and leaving its section.
OneInSection ==
  \A g, h \in Threads :
    At(g) = "leave" /\ At(h) = "leave" /\ th[g].ep = th[h].ep /\ episodes[th[g].ep].state = "active"
      => g = h

\* episode_lock: two threads never work on an active episode at once, whoever
\* created the lock object, and after a restart too.
THEOREM SectionsExclude == HostSpec => [](OneHolder /\ OneInSection)
<1>1. HostInit => LocksOK
  BY RestLocks DEF HostInit
<1>2. LocksOK => OneHolder /\ OneInSection
  <2> SUFFICES ASSUME LocksOK PROVE OneHolder /\ OneInSection
    OBVIOUS
  <2>1. OneHolder
    BY DEF LocksOK, LockOK, OneHolder, Holds
  <2>2. OneInSection
    <3> SUFFICES ASSUME NEW g \in Threads, NEW h \in Threads, At(g) = "leave", At(h) = "leave",
                        th[g].ep = th[h].ep, episodes[th[g].ep].state = "active"
                 PROVE  g = h
      BY DEF OneInSection
    <3>1. LockOK(g) /\ LockOK(h)
      BY DEF LocksOK
    <3>2. th[g].lock = locks[th[g].ep] /\ holder[th[g].lock] = g
      BY <3>1 DEF LockOK
    <3>3. th[h].lock = locks[th[h].ep] /\ holder[th[h].lock] = h
      BY <3>1 DEF LockOK
    <3> QED BY <3>2, <3>3
  <2> QED BY <2>1, <2>2
<1> QED BY <1>1, <1>2, LocksKept, ScriptsFollow, TurnsStartOnce, WorkIsPlaced, PTL DEF HostSpec

-----------------------------------------------------------------------------
(* BudgetKept: what an episode used, with what is still reserved for its   *)
(* calls under way, stays within its budget and what was charged without a *)
(* reservation.  A reservation may go at any time: then less is promised,  *)
(* and the call it was made for is charged without one.                    *)

Amounts == [1..MaxRows -> Nat]

Sums(f, amounts, n) == f = [i \in 0..n |-> IF i = 0 THEN 0 ELSE f[i - 1] + amounts[i]]

LEMMA SumsExist ==
  ASSUME NEW amounts, NEW k \in Nat
  PROVE  \E f : Sums(f, amounts, k)
<1> DEFINE S == {n \in Nat : \E f : Sums(f, amounts, n)}
<1>1. 0 \in S
  <2>1. Sums([i \in 0..0 |-> 0], amounts, 0)
    BY DEF Sums
  <2> QED BY <2>1
<1>2. ASSUME NEW n \in Nat, n \in S PROVE n + 1 \in S
  <2>1. PICK f : Sums(f, amounts, n)
    BY <1>2
  <2> DEFINE last == f[n] + amounts[n + 1]
             g == [i \in 0..n + 1 |-> IF i = n + 1 THEN last ELSE f[i]]
  <2>2. ASSUME NEW i \in 0..n + 1
        PROVE  g[i] = IF i = 0 THEN 0 ELSE g[i - 1] + amounts[i]
    <3>1. CASE i = n + 1
      <4>1. i # 0 /\ i - 1 = n /\ n \in 0..n + 1 /\ n # n + 1
        BY <3>1
      <4>2. g[n] = f[n] /\ g[n + 1] = last
        BY <4>1
      <4> QED BY <3>1, <4>1, <4>2
    <3>2. CASE i # n + 1 /\ i # 0
      <4>1. i \in 0..n /\ i - 1 \in 0..n + 1 /\ i - 1 # n + 1
        BY <3>2
      <4>2. f[i] = f[i - 1] + amounts[i]
        BY <2>1, <3>2, <4>1, Zenon DEF Sums
      <4>3. g[i] = f[i] /\ g[i - 1] = f[i - 1]
        BY <3>2, <4>1
      <4> QED BY <3>2, <4>2, <4>3
    <3>3. CASE i = 0
      <4>1. f[0] = 0
        BY <2>1 DEF Sums
      <4>2. g[0] = f[0]
        OBVIOUS
      <4> QED BY <3>3, <4>1, <4>2
    <3> QED BY <3>1, <3>2, <3>3
  <2>3. Sums(g, amounts, n + 1)
    <3>1. g = [i \in 0..n + 1 |-> g[i]]
      OBVIOUS
    <3> HIDE DEF g
    <3> QED BY <2>2, <3>1 DEF Sums
  <2> QED BY <2>3
<1> HIDE DEF S
<1>3. Nat \subseteq S
  BY <1>1, <1>2, SetInduction
<1> QED BY <1>3 DEF S

LEMMA TotalSums ==
  ASSUME NEW amounts \in Amounts
  PROVE  \E f : /\ f[0] = 0 /\ Total(amounts) = f[MaxRows]
                /\ \A i \in 1..MaxRows : f[i] = f[i - 1] + amounts[i]
<1>0. MaxRows \in Nat
  BY BudgetAssumption
<1> DEFINE f == CHOOSE f : Sums(f, amounts, MaxRows)
<1>1. Sums(f, amounts, MaxRows)
  BY <1>0, SumsExist
<1>2. Total(amounts) = f[MaxRows]
  BY DEF Total, Sums
<1> HIDE DEF f
<1>3. f[0] = 0
  BY <1>0, <1>1 DEF Sums
<1>4. ASSUME NEW i \in 1..MaxRows PROVE f[i] = f[i - 1] + amounts[i]
  <2>1. i \in 0..MaxRows /\ i # 0
    BY <1>0
  <2> QED BY <1>1, <2>1, Zenon DEF Sums
<1> QED BY <1>2, <1>3, <1>4

\* Amounts that are no larger, but for one that is larger by d at most, sum to d more at most.
LEMMA TotalBound ==
  ASSUME NEW a \in Amounts, NEW b \in Amounts, NEW k \in Nat \ {0}, NEW d \in Int,
         \A i \in 1..MaxRows : b[i] <= a[i] + (IF i = k THEN d ELSE 0)
  PROVE  /\ Total(a) \in Nat /\ Total(b) \in Nat
         /\ Total(b) <= Total(a) + (IF k <= MaxRows THEN d ELSE 0)
<1>0. MaxRows \in Nat
  BY BudgetAssumption
<1>1. PICK f : /\ f[0] = 0 /\ Total(a) = f[MaxRows] /\ \A i \in 1..MaxRows : f[i] = f[i - 1] + a[i]
  BY TotalSums
<1>2. PICK g : /\ g[0] = 0 /\ Total(b) = g[MaxRows] /\ \A i \in 1..MaxRows : g[i] = g[i - 1] + b[i]
  BY TotalSums
<1> DEFINE S == {n \in Nat : n <= MaxRows => /\ f[n] \in Nat /\ g[n] \in Nat
                                             /\ g[n] <= f[n] + (IF k <= n THEN d ELSE 0)}
<1>3. 0 \in S
  BY <1>1, <1>2
<1>4. ASSUME NEW n \in Nat, n \in S PROVE n + 1 \in S
  <2> SUFFICES ASSUME n + 1 <= MaxRows
               PROVE  /\ f[n + 1] \in Nat /\ g[n + 1] \in Nat
                      /\ g[n + 1] <= f[n + 1] + (IF k <= n + 1 THEN d ELSE 0)
    OBVIOUS
  <2>1. n + 1 \in 1..MaxRows /\ (n + 1) - 1 = n /\ n <= MaxRows
    BY <1>0
  <2>2. f[n] \in Nat /\ g[n] \in Nat /\ g[n] <= f[n] + (IF k <= n THEN d ELSE 0)
    BY <1>4, <2>1
  <2>3. f[n + 1] = f[n] + a[n + 1] /\ g[n + 1] = g[n] + b[n + 1]
    BY <1>1, <1>2, <2>1
  <2>4. a[n + 1] \in Nat /\ b[n + 1] \in Nat /\ b[n + 1] <= a[n + 1] + (IF n + 1 = k THEN d ELSE 0)
    BY <2>1 DEF Amounts
  <2>5. CASE k <= n
    BY <2>2, <2>3, <2>4, <2>5
  <2>6. CASE k = n + 1
    BY <2>2, <2>3, <2>4, <2>6
  <2>7. CASE k > n + 1
    BY <2>2, <2>3, <2>4, <2>7
  <2> QED BY <2>5, <2>6, <2>7
<1> HIDE DEF S
<1>5. Nat \subseteq S
  BY <1>3, <1>4, SetInduction
<1>6. MaxRows \in S
  BY <1>0, <1>5
<1> QED BY <1>0, <1>1, <1>2, <1>6 DEF S

LEMMA TotalLess ==
  ASSUME NEW a \in Amounts, NEW b \in Amounts, \A i \in 1..MaxRows : b[i] <= a[i]
  PROVE  Total(a) \in Nat /\ Total(b) \in Nat /\ Total(b) <= Total(a)
<1> DEFINE k == MaxRows + 1
<1>1. k \in Nat \ {0} /\ ~(k <= MaxRows) /\ \A i \in 1..MaxRows : i # k
  BY BudgetAssumption
<1> HIDE DEF k
<1>2. \A i \in 1..MaxRows : b[i] <= a[i] + (IF i = k THEN 0 ELSE 0)
  BY DEF Amounts
<1>3. Total(a) \in Nat /\ Total(b) \in Nat /\ Total(b) <= Total(a) + (IF k <= MaxRows THEN 0 ELSE 0)
  BY <1>1, <1>2, TotalBound, 0 \in Int
<1> QED BY <1>1, <1>3

LEMMA TotalNothing == Total([i \in 1..MaxRows |-> 0]) = 0
<1> DEFINE z == [i \in 1..MaxRows |-> 0]
<1>0. MaxRows \in Nat
  BY BudgetAssumption
<1>1. z \in Amounts
  BY DEF Amounts
<1>2. \A i \in 1..MaxRows : z[i] = 0
  OBVIOUS
<1> HIDE DEF z
<1>3. PICK f : /\ f[0] = 0 /\ Total(z) = f[MaxRows] /\ \A i \in 1..MaxRows : f[i] = f[i - 1] + z[i]
  BY <1>1, TotalSums
<1> DEFINE S == {n \in Nat : n <= MaxRows => f[n] = 0}
<1>4. 0 \in S
  BY <1>3
<1>5. ASSUME NEW n \in Nat, n \in S PROVE n + 1 \in S
  <2> SUFFICES ASSUME n + 1 <= MaxRows PROVE f[n + 1] = 0
    OBVIOUS
  <2>1. n + 1 \in 1..MaxRows /\ (n + 1) - 1 = n /\ n <= MaxRows
    BY <1>0
  <2> QED BY <1>2, <1>3, <1>5, <2>1
<1> HIDE DEF S
<1>6. Nat \subseteq S
  BY <1>4, <1>5, SetInduction
<1> QED BY <1>0, <1>3, <1>6 DEF S, z


Pending(h) == comp[h].at \in {"reserved", "answered"}
Held(h) == comp[h].at \in {"reserved", "answered", "recorded"}

\* The reservations of calls under way that may still be charged to the episode.
Promised(e) ==
  {i \in 1..MaxRows : i \in DOMAIN rows /\ \E h \in Threads : Pending(h) /\ th[h].ep = e /\ comp[h].row = i}
PromisedTurn(e, t) == {i \in Promised(e) : rows[i].turn = t}
AmountsOf(S) == [i \in 1..MaxRows |-> IF i \in S THEN rows[i].size ELSE 0]

\* The limits, and what was charged without a reservation.
CallLimit(e) == MaxCallsEpisode + beyond[e].calls
TokenLimit(e) == MaxTokens + beyond[e].tokens
TurnLimit(e, t) == MaxCallsTurn + beyond[e].turns[t]

WithinBudget(e) ==
  /\ used[e].calls + Cardinality(Promised(e)) <= CallLimit(e)
  /\ used[e].tokens + Total(AmountsOf(Promised(e))) <= TokenLimit(e)
  /\ \A t \in Turns : charged[e][t] + Cardinality(PromisedTurn(e, t)) <= TurnLimit(e, t)

RowFields == {"episode", "turn", "size", "stale"}
CallFields == {"at", "turn", "size", "row", "outcome"}

BudgetTables ==
  /\ used \in [Episodes -> [calls : Nat, tokens : Nat]]
  /\ charged \in [Episodes -> [Turns -> Nat]]
  /\ beyond \in [Episodes -> [calls : Nat, tokens : Nat, turns : [Turns -> Nat]]]
  /\ DOMAIN rows \subseteq 1..MaxRows
  /\ \A i \in DOMAIN rows : DOMAIN rows[i] = RowFields /\ rows[i].size \in Nat /\ rows[i].stale \in BOOLEAN

\* A call is made at the step "component", and its reservation, while there is one, is
\* for its episode and its turn.
CallOK(h) ==
  /\ DOMAIN comp[h] = CallFields /\ comp[h].size \in Nat
  /\ comp[h].at \in {"none", "asked", "reserved", "answered", "recorded", "done"}
  /\ comp[h].at # "none" => At(h) = "component" /\ th[h].ep \in Episodes
  /\ Held(h) => comp[h].row \in 1..MaxRows
  /\ Pending(h) /\ comp[h].row \in DOMAIN rows =>
       rows[comp[h].row].episode = th[h].ep /\ rows[comp[h].row].turn = comp[h].turn

CallsOK ==
  /\ DOMAIN comp = Threads /\ \A h \in Threads : CallOK(h)
  /\ \A g, h \in Threads : Held(g) /\ Held(h) /\ comp[g].row = comp[h].row => g = h

BudgetOK == BudgetTables /\ CallsOK /\ \A e \in Episodes : WithinBudget(e)

\* A step adds no reservation, and changes none in what it is for.
FewerReservations ==
  \A i \in DOMAIN rows' :
    /\ i \in DOMAIN rows /\ rows'[i].episode = rows[i].episode
    /\ rows'[i].turn = rows[i].turn /\ rows'[i].size = rows[i].size

LEMMA LimitTypes ==
  ASSUME BudgetTables, NEW e \in Episodes
  PROVE  /\ CallLimit(e) \in Nat /\ MaxCallsEpisode \in Nat /\ MaxCallsEpisode <= CallLimit(e)
         /\ TokenLimit(e) \in Nat /\ MaxTokens \in Nat /\ MaxTokens <= TokenLimit(e)
         /\ MaxCallsTurn \in Nat
         /\ \A t \in Turns : TurnLimit(e, t) \in Nat /\ MaxCallsTurn <= TurnLimit(e, t)
<1>1. beyond[e].calls \in Nat /\ beyond[e].tokens \in Nat /\ \A t \in Turns : beyond[e].turns[t] \in Nat
  BY DEF BudgetTables
<1>2. MaxCallsEpisode \in Nat /\ MaxTokens \in Nat /\ MaxCallsTurn \in Nat
  BY BudgetAssumption
<1> QED BY <1>1, <1>2 DEF CallLimit, TokenLimit, TurnLimit

LEMMA FiniteRows ==
  ASSUME NEW S, S \subseteq 1..MaxRows
  PROVE  IsFiniteSet(S) /\ Cardinality(S) \in Nat
<1>1. IsFiniteSet(1..MaxRows)
  BY FS_Interval, BudgetAssumption
<1> QED BY <1>1, FS_Subset, FS_CardinalityType

LEMMA FewerRows ==
  ASSUME NEW S, NEW T, S \subseteq T, T \subseteq 1..MaxRows
  PROVE  Cardinality(S) <= Cardinality(T)
BY FiniteRows, FS_Subset

LEMMA OneMoreRow ==
  ASSUME NEW S, NEW T, NEW i, T \subseteq 1..MaxRows, S \subseteq T \cup {i}, S \subseteq 1..MaxRows
  PROVE  Cardinality(S) <= Cardinality(T) + 1
<1>1. IsFiniteSet(T) /\ Cardinality(T) \in Nat
  BY FiniteRows
<1>2. IsFiniteSet(T \cup {i}) /\ Cardinality(T \cup {i}) <= Cardinality(T) + 1 /\ Cardinality(T \cup {i}) \in Nat
  <2>1. IsFiniteSet(T \cup {i}) /\ (Cardinality(T \cup {i}) = IF i \in T THEN Cardinality(T) ELSE Cardinality(T) + 1)
    BY <1>1, FS_AddElement
  <2> QED BY <1>1, <2>1
<1>3. Cardinality(S) <= Cardinality(T \cup {i}) /\ Cardinality(S) \in Nat
  BY <1>2, FS_Subset, FiniteRows
<1> QED BY <1>1, <1>2, <1>3

LEMMA OneRowLess ==
  ASSUME NEW S, NEW T, NEW i \in T, T \subseteq 1..MaxRows, S \subseteq T \ {i}
  PROVE  Cardinality(S) + 1 <= Cardinality(T)
<1>1. IsFiniteSet(T) /\ Cardinality(T) \in Nat
  BY FiniteRows
<1>2. IsFiniteSet(T \ {i}) /\ Cardinality(T \ {i}) = Cardinality(T) - 1
  BY <1>1, FS_RemoveElement
<1>3. Cardinality(S) <= Cardinality(T \ {i}) /\ Cardinality(S) \in Nat
  BY <1>2, FS_Subset, FiniteRows
<1> QED BY <1>1, <1>2, <1>3

\* What is promised is in the ledger.
LEMMA PromisedRows ==
  ASSUME BudgetTables, CallsOK, NEW e
  PROVE  /\ Promised(e) \subseteq DOMAIN rows /\ Promised(e) \subseteq 1..MaxRows
         /\ \A i \in Promised(e) : rows[i].episode = e /\ rows[i].size \in Nat
         /\ AmountsOf(Promised(e)) \in Amounts
<1>1. ASSUME NEW i \in Promised(e)
      PROVE  i \in DOMAIN rows /\ rows[i].episode = e /\ rows[i].size \in Nat
  <2>1. i \in DOMAIN rows
    BY DEF Promised
  <2>2. PICK h \in Threads : Pending(h) /\ th[h].ep = e /\ comp[h].row = i
    BY DEF Promised
  <2>3. CallOK(h)
    BY DEF CallsOK
  <2>4. rows[i].episode = e
    BY <2>1, <2>2, <2>3 DEF CallOK
  <2> QED BY <2>1, <2>4 DEF BudgetTables
<1>2. Promised(e) \subseteq 1..MaxRows
  BY DEF Promised
<1>3. AmountsOf(Promised(e)) \in Amounts
  BY <1>1, <1>2 DEF AmountsOf, Amounts
<1> QED BY <1>1, <1>2, <1>3

\* A step that promises the episode nothing new.
LEMMA PromisesShrink ==
  ASSUME BudgetTables, CallsOK, BudgetTables', CallsOK', NEW e \in Episodes, WithinBudget(e),
         used'[e] = used[e], charged'[e] = charged[e], beyond'[e] = beyond[e],
         \A i \in Promised(e)' : i \in Promised(e) /\ rows'[i].turn = rows[i].turn /\ rows'[i].size = rows[i].size
  PROVE  WithinBudget(e)'
<1> DEFINE P == Promised(e)
           Q == Promised(e)'
<1>1. P \subseteq 1..MaxRows /\ AmountsOf(P) \in Amounts /\ \A i \in P : rows[i].size \in Nat
  BY PromisedRows
<1>2. Q \subseteq P /\ Q \subseteq 1..MaxRows
  BY <1>1
<1>3. AmountsOf(Promised(e))' \in Amounts /\ \A i \in 1..MaxRows : AmountsOf(Promised(e))'[i] <= AmountsOf(P)[i]
  BY <1>1, <1>2 DEF AmountsOf, Amounts
<1>4. /\ used[e].calls \in Nat /\ used[e].tokens \in Nat /\ CallLimit(e) \in Nat /\ TokenLimit(e) \in Nat
      /\ CallLimit(e)' = CallLimit(e) /\ TokenLimit(e)' = TokenLimit(e)
      /\ \A t \in Turns : TurnLimit(e, t) \in Nat /\ TurnLimit(e, t)' = TurnLimit(e, t)
  BY LimitTypes DEF BudgetTables, CallLimit, TokenLimit, TurnLimit
<1>5. Total(AmountsOf(Promised(e))') <= Total(AmountsOf(P)) /\ Total(AmountsOf(Promised(e))') \in Nat
      /\ Total(AmountsOf(P)) \in Nat
  <2> DEFINE a == AmountsOf(P)
             b == AmountsOf(Promised(e))'
  <2>1. a \in Amounts /\ b \in Amounts /\ \A i \in 1..MaxRows : b[i] <= a[i]
    BY <1>1, <1>3
  <2> HIDE DEF a, b
  <2>2. Total(a) \in Nat /\ Total(b) \in Nat /\ Total(b) <= Total(a)
    BY <2>1, TotalLess
  <2> QED BY <2>2 DEF a, b
<1>6. Cardinality(Q) <= Cardinality(P) /\ Cardinality(Q) \in Nat /\ Cardinality(P) \in Nat
  BY <1>1, <1>2, FewerRows, FiniteRows
<1>7. (used[e].calls + Cardinality(Promised(e)) <= CallLimit(e))'
  <2>1. used[e].calls + Cardinality(P) <= CallLimit(e)
    BY DEF WithinBudget
  <2> HIDE DEF P, Q
  <2>2. used[e].calls + Cardinality(Q) <= CallLimit(e)
    BY <1>4, <1>6, <2>1
  <2> QED BY <1>4, <2>2 DEF Q
<1>8. (used[e].tokens + Total(AmountsOf(Promised(e))) <= TokenLimit(e))'
  <2>1. used[e].tokens + Total(AmountsOf(P)) <= TokenLimit(e)
    BY DEF WithinBudget
  <2> DEFINE a == Total(AmountsOf(P))
             b == Total(AmountsOf(Promised(e))')
  <2>2. used[e].tokens + a <= TokenLimit(e) /\ a \in Nat /\ b \in Nat /\ b <= a
    BY <1>5, <2>1
  <2> HIDE DEF a, b
  <2>3. used'[e].tokens + b <= TokenLimit(e)
    BY <1>4, <2>2
  <2> QED BY <1>4, <2>3 DEF b
<1>9. ASSUME NEW t \in Turns
      PROVE  (charged[e][t] + Cardinality(PromisedTurn(e, t)) <= TurnLimit(e, t))'
  <2> DEFINE A == PromisedTurn(e, t)
             B == PromisedTurn(e, t)'
  <2>1. B \subseteq A /\ A \subseteq 1..MaxRows
    BY <1>1, <1>2 DEF PromisedTurn
  <2>2. charged[e][t] + Cardinality(A) <= TurnLimit(e, t)
    BY DEF WithinBudget
  <2>3. charged[e][t] \in Nat /\ TurnLimit(e, t) \in Nat /\ TurnLimit(e, t)' = TurnLimit(e, t)
    BY <1>4 DEF BudgetTables
  <2> HIDE DEF A, B
  <2>4. Cardinality(B) <= Cardinality(A) /\ Cardinality(B) \in Nat /\ Cardinality(A) \in Nat
    <3>1. B \subseteq 1..MaxRows
      BY <2>1
    <3> QED BY <2>1, <3>1, FewerRows, FiniteRows
  <2>5. charged'[e][t] + Cardinality(B) <= TurnLimit(e, t)
    BY <2>2, <2>3, <2>4
  <2> QED BY <2>3, <2>5 DEF B
<1> HIDE DEF P, Q
<1> QED BY <1>7, <1>8, <1>9 DEF WithinBudget

\* A step that charges nothing and promises nothing new.
LEMMA CallsShrink ==
  ASSUME BudgetOK, UNCHANGED <<used, charged, beyond>>, BudgetTables', DOMAIN comp' = Threads,
         FewerReservations, \A g \in Threads : CallOK(g)',
         \A g \in Threads : Held(g)' => Held(g) /\ comp'[g].row = comp[g].row,
         \A g \in Threads : Pending(g)' => Pending(g) /\ th'[g].ep = th[g].ep
  PROVE  BudgetOK'
<1>1. BudgetTables /\ CallsOK
  BY DEF BudgetOK
<1>2. CallsOK'
  BY <1>1 DEF CallsOK
<1>3. ASSUME NEW e \in Episodes PROVE WithinBudget(e)'
  <2>1. ASSUME NEW i \in Promised(e)'
        PROVE  i \in Promised(e) /\ rows'[i].turn = rows[i].turn /\ rows'[i].size = rows[i].size
    <3>1. PICK h \in Threads : Pending(h)' /\ th'[h].ep = e /\ comp'[h].row = i
      BY DEF Promised
    <3>2. Held(h)'
      BY <3>1 DEF Pending, Held
    <3>3. Pending(h) /\ th[h].ep = e /\ comp[h].row = i
      BY <3>1, <3>2
    <3>4. i \in 1..MaxRows /\ i \in DOMAIN rows /\ rows'[i].turn = rows[i].turn /\ rows'[i].size = rows[i].size
      BY DEF Promised, FewerReservations
    <3> QED BY <3>3, <3>4 DEF Promised
  <2>2. WithinBudget(e) /\ used'[e] = used[e] /\ charged'[e] = charged[e] /\ beyond'[e] = beyond[e]
    BY DEF BudgetOK
  <2> QED BY <1>1, <1>2, <2>1, <2>2, PromisesShrink
<1> QED BY <1>2, <1>3 DEF BudgetOK

\* The call of one thread changes, and the reservations of the others stay.
LEMMA OneCall ==
  ASSUME BudgetOK, NEW h \in Threads, NEW c, comp' = [comp EXCEPT ![h] = c], UNCHANGED th
  PROVE  /\ DOMAIN comp' = Threads /\ comp'[h] = c /\ \A g \in Threads \ {h} : comp'[g] = comp[g]
         /\ BudgetTables /\ CallsOK /\ \A g \in Threads : CallOK(g)
         /\ \A g \in Threads : At(g)' = At(g) /\ th'[g] = th[g]
         /\ \A g \in Threads \ {h} : (Held(g)' <=> Held(g)) /\ (Pending(g)' <=> Pending(g))
BY DEF BudgetOK, CallsOK, At, Held, Pending

LEMMA SameRows ==
  ASSUME BudgetOK, NEW h \in Threads, NEW c, comp' = [comp EXCEPT ![h] = c],
         UNCHANGED <<th, used, charged, rows, beyond>>, CallOK(h)',
         Held(h)' => Held(h) /\ c.row = comp[h].row, Pending(h)' => Pending(h)
  PROVE  BudgetOK'
<1>1. /\ DOMAIN comp' = Threads /\ comp'[h] = c /\ \A g \in Threads \ {h} : comp'[g] = comp[g]
      /\ BudgetTables /\ CallsOK /\ \A g \in Threads : CallOK(g)
      /\ \A g \in Threads : At(g)' = At(g) /\ th'[g] = th[g]
      /\ \A g \in Threads \ {h} : (Held(g)' <=> Held(g)) /\ (Pending(g)' <=> Pending(g))
  BY OneCall
<1>2. BudgetTables'
  BY <1>1 DEF BudgetTables
<1>3. ASSUME NEW g \in Threads PROVE CallOK(g)'
  <2>1. CASE g = h
    BY <2>1
  <2>2. CASE g # h
    BY <1>1, <2>2 DEF CallOK
  <2> QED BY <2>1, <2>2
<1>4. ASSUME NEW g \in Threads
      PROVE  /\ Held(g)' => Held(g) /\ comp'[g].row = comp[g].row
             /\ Pending(g)' => Pending(g) /\ th'[g].ep = th[g].ep
  BY <1>1
<1> QED BY <1>1, <1>2, <1>3, <1>4, CallsShrink DEF FewerReservations

LEMMA AskKept ==
  ASSUME BudgetOK, NEW h \in Threads, NEW turn, AskComponent(h, turn), UNCHANGED th,
         At(h) = "component", th[h].ep \in Episodes
  PROVE  BudgetOK'
<1>1. PICK size \in Sizes : comp' = [comp EXCEPT ![h] = [NoCall EXCEPT !.at = "asked", !.turn = turn, !.size = size]]
  BY DEF AskComponent
<1> DEFINE c == [NoCall EXCEPT !.at = "asked", !.turn = turn, !.size = size]
<1>2. DOMAIN c = CallFields /\ c.size \in Nat /\ c.at = "asked"
  BY BudgetAssumption DEF NoCall, CallFields
<1>3. comp' = [comp EXCEPT ![h] = c]
  BY <1>1
<1> HIDE DEF c
<1>4. comp'[h] = c /\ At(h)' = "component" /\ th'[h].ep \in Episodes
  BY <1>3, OneCall
<1>5. ~Held(h)' /\ ~Pending(h)'
  BY <1>2, <1>4 DEF Held, Pending
<1>6. CallOK(h)'
  BY <1>2, <1>4, <1>5 DEF CallOK
<1> QED BY <1>3, <1>5, <1>6, SameRows DEF AskComponent

LEMMA ProviderKept ==
  ASSUME BudgetOK, NEW h \in Threads, CallProvider(h), UNCHANGED th
  PROVE  BudgetOK'
<1>0. CallOK(h) /\ comp[h].at = "reserved"
  BY DEF BudgetOK, CallsOK, CallProvider, Calling
<1>1. PICK tokens \in Reports \cup {comp[h].size}, outcome \in {"success", "error"} :
        comp' = [comp EXCEPT ![h].at = "answered", ![h].outcome = outcome, ![h].size = tokens]
  BY DEF CallProvider
<1> DEFINE c == [comp[h] EXCEPT !.at = "answered", !.outcome = outcome, !.size = tokens]
<1>2. /\ DOMAIN c = CallFields /\ c.size \in Nat /\ c.at = "answered"
      /\ c.row = comp[h].row /\ c.turn = comp[h].turn
  BY <1>0, BudgetAssumption DEF CallOK, CallFields
<1>3. comp' = [comp EXCEPT ![h] = c]
  BY <1>1
<1> HIDE DEF c
<1>4. comp'[h] = c /\ At(h)' = At(h) /\ th'[h] = th[h]
  BY <1>3, OneCall
<1>5. Held(h) /\ Pending(h)
  BY <1>0 DEF Held, Pending
<1>6. CallOK(h)'
  BY <1>0, <1>2, <1>4, <1>5 DEF CallOK, Held, Pending, CallProvider
<1> QED BY <1>2, <1>3, <1>5, <1>6, SameRows DEF CallProvider

\* A call that ends without touching its reservation.
LEMMA EndKept ==
  ASSUME BudgetOK, NEW h \in Threads, NEW outcome, Done(h, outcome), At(h) = "component",
         th[h].ep \in Episodes, UNCHANGED <<th, used, charged, rows, beyond>>
  PROVE  BudgetOK'
<1> DEFINE c == [NoCall EXCEPT !.at = "done", !.outcome = outcome]
<1>1. DOMAIN c = CallFields /\ c.size \in Nat /\ c.at = "done"
  BY DEF NoCall, CallFields
<1>2. comp' = [comp EXCEPT ![h] = c]
  BY DEF Done
<1> HIDE DEF c
<1>3. comp'[h] = c /\ At(h)' = "component" /\ th'[h].ep \in Episodes
  BY <1>2, OneCall
<1>4. ~Held(h)' /\ ~Pending(h)'
  BY <1>1, <1>3 DEF Held, Pending
<1>5. CallOK(h)'
  BY <1>1, <1>3, <1>4 DEF CallOK
<1> QED BY <1>2, <1>4, <1>5, SameRows

LEMMA LoseKept ==
  ASSUME BudgetOK, NEW h \in Threads, LoseUsage(h), UNCHANGED th
  PROVE  BudgetOK'
<1>0. CallOK(h) /\ comp[h].at = "answered"
  BY DEF BudgetOK, CallsOK, LoseUsage, Calling
<1> DEFINE c == [comp[h] EXCEPT !.at = "recorded", !.outcome = "lost"]
<1>2. DOMAIN c = CallFields /\ c.size \in Nat /\ c.at = "recorded" /\ c.row = comp[h].row
  BY <1>0 DEF CallOK, CallFields
<1>3. comp' = [comp EXCEPT ![h] = c]
  BY DEF LoseUsage
<1> HIDE DEF c
<1>4. comp'[h] = c /\ At(h)' = At(h) /\ th'[h] = th[h]
  BY <1>3, OneCall
<1>5. Held(h) /\ Pending(h) /\ ~Pending(h)'
  BY <1>0, <1>2, <1>4 DEF Held, Pending
<1>6. CallOK(h)'
  BY <1>0, <1>2, <1>4, <1>5 DEF CallOK, LoseUsage
<1> QED BY <1>2, <1>3, <1>5, <1>6, SameRows DEF LoseUsage

LEMMA TakeKept ==
  ASSUME BudgetOK, NEW h \in Threads, TakeAnswer(h),
         \A g \in Threads \ {h} : comp[g].at # "none" => th'[g] = th[g]
  PROVE  BudgetOK'
<1>1. comp' = [comp EXCEPT ![h] = NoCall] /\ UNCHANGED <<used, charged, rows, beyond>>
  BY DEF TakeAnswer
<1>2. /\ BudgetTables /\ CallsOK /\ DOMAIN comp = Threads /\ \A g \in Threads : CallOK(g)
  BY DEF BudgetOK, CallsOK
<1>3. DOMAIN comp' = Threads /\ comp'[h] = NoCall /\ \A g \in Threads \ {h} : comp'[g] = comp[g]
  BY <1>1, <1>2
<1>4. DOMAIN NoCall = CallFields /\ NoCall.size \in Nat /\ NoCall.at = "none"
  BY DEF NoCall, CallFields
<1>5. BudgetTables'
  BY <1>1, <1>2 DEF BudgetTables
<1>6. ~Held(h)' /\ ~Pending(h)' /\ CallOK(h)'
  BY <1>3, <1>4 DEF Held, Pending, CallOK
<1>7. ASSUME NEW g \in Threads \ {h}
      PROVE  /\ Held(g)' = Held(g) /\ Pending(g)' = Pending(g) /\ CallOK(g)'
             /\ comp'[g] = comp[g] /\ (Pending(g) => th'[g].ep = th[g].ep)
    BY <1>1, <1>2, <1>3 DEF Held, Pending, CallOK, At
<1> QED BY <1>1, <1>3, <1>5, <1>6, <1>7, CallsShrink DEF FewerReservations

LEMMA ReleaseKept ==
  ASSUME BudgetOK, NEW h \in Threads, ReleaseReservation(h), UNCHANGED th
  PROVE  BudgetOK'
<1> DEFINE c == [NoCall EXCEPT !.at = "done", !.outcome = comp[h].outcome]
<1>1. /\ comp[h].at = "recorded" /\ comp' = [comp EXCEPT ![h] = c] /\ UNCHANGED <<used, charged, beyond>>
      /\ rows' = [i \in DOMAIN rows \ {comp[h].row} |-> rows[i]]
  BY DEF ReleaseReservation, Calling, Done
<1>2. DOMAIN c = CallFields /\ c.size \in Nat /\ c.at = "done"
  BY DEF NoCall, CallFields
<1> HIDE DEF c
<1>3. /\ DOMAIN comp' = Threads /\ comp'[h] = c /\ \A g \in Threads \ {h} : comp'[g] = comp[g]
      /\ BudgetTables /\ CallsOK /\ \A g \in Threads : CallOK(g)
      /\ \A g \in Threads : At(g)' = At(g) /\ th'[g] = th[g]
      /\ \A g \in Threads \ {h} : (Held(g)' <=> Held(g)) /\ (Pending(g)' <=> Pending(g))
  BY <1>1, OneCall
<1>4. Held(h)
  BY <1>1 DEF Held
<1>5. BudgetTables'
  BY <1>1, <1>3 DEF BudgetTables
<1>6. ~Held(h)' /\ ~Pending(h)'
  BY <1>2, <1>3 DEF Held, Pending
<1>7. CallOK(h)'
  BY <1>1, <1>2, <1>3, <1>6 DEF CallOK
<1>8. FewerReservations
  BY <1>1 DEF FewerReservations
<1>9. ASSUME NEW g \in Threads \ {h} PROVE CallOK(g)'
  BY <1>3, <1>8 DEF CallOK, FewerReservations
<1> QED BY <1>1, <1>3, <1>5, <1>6, <1>7, <1>8, <1>9, CallsShrink

LEMMA RowsAgeKept ==
  ASSUME BudgetOK, RowsAge \/ ReplayLedger, UNCHANGED th
  PROVE  BudgetOK'
<1>0. /\ BudgetTables /\ CallsOK /\ DOMAIN comp = Threads /\ \A g \in Threads : CallOK(g)
      /\ UNCHANGED <<used, charged, comp, beyond>>
  BY DEF BudgetOK, CallsOK, RowsAge, ReplayLedger
<1>1. BudgetTables' /\ FewerReservations
  <2>1. CASE rows' = << >>
    BY <1>0, <2>1 DEF BudgetTables, FewerReservations
  <2>2. CASE \E i \in DOMAIN rows : rows' = [rows EXCEPT ![i].stale = TRUE]
    <3>1. PICK i \in DOMAIN rows : rows' = [rows EXCEPT ![i].stale = TRUE]
      BY <2>2
    <3>2. DOMAIN rows' = DOMAIN rows /\ \A j \in DOMAIN rows \ {i} : rows'[j] = rows[j]
      BY <3>1
    <3>3. rows'[i] = [rows[i] EXCEPT !.stale = TRUE]
      BY <3>1
    <3>4. /\ DOMAIN rows'[i] = RowFields /\ rows'[i].size \in Nat /\ rows'[i].stale \in BOOLEAN
          /\ rows'[i].episode = rows[i].episode /\ rows'[i].turn = rows[i].turn /\ rows'[i].size = rows[i].size
      BY <1>0, <3>3 DEF BudgetTables, RowFields
    <3> QED BY <1>0, <3>2, <3>4 DEF BudgetTables, FewerReservations
  <2> QED BY <2>1, <2>2 DEF RowsAge, ReplayLedger
<1>2. ASSUME NEW g \in Threads
      PROVE  /\ Held(g)' = Held(g) /\ Pending(g)' = Pending(g) /\ At(g)' = At(g)
             /\ th'[g] = th[g] /\ comp'[g] = comp[g]
  BY <1>0 DEF Held, Pending, At
<1>3. ASSUME NEW g \in Threads PROVE CallOK(g)'
  <2>1. CallOK(g)
    BY <1>0
  <2> QED BY <1>1, <1>2, <2>1 DEF CallOK, FewerReservations
<1> QED BY <1>0, <1>1, <1>2, <1>3, CallsShrink

\* The end of the process forgets the calls; what they reserved stays in the ledger,
\* unless it is replayed.
LEMMA CallsForgotten ==
  ASSUME BudgetOK, comp' = [h \in Threads |-> NoCall], rows' \in {rows, << >>},
         UNCHANGED <<used, charged, beyond>>
  PROVE  BudgetOK'
<1>1. \A h \in Threads : comp'[h] = NoCall
  OBVIOUS
<1>2. DOMAIN NoCall = CallFields /\ NoCall.size \in Nat /\ NoCall.at = "none"
  BY DEF NoCall, CallFields
<1>3. \A h \in Threads : ~Held(h)' /\ ~Pending(h)' /\ CallOK(h)'
  BY <1>1, <1>2 DEF Held, Pending, CallOK
<1>4. BudgetTables' /\ FewerReservations
  BY DEF BudgetOK, BudgetTables, FewerReservations
<1> QED BY <1>3, <1>4, CallsShrink

\* A step that leaves calls alone, taken by nobody who is in one.
LEMMA CallsLeft ==
  ASSUME BudgetOK, UNCHANGED budget,
         \A g \in Threads : comp[g].at # "none" => th'[g] = th[g]
  PROVE  BudgetOK'
<1>1. UNCHANGED <<used, charged, rows, comp, beyond>>
  BY DEF budget
<1>2. /\ BudgetTables /\ CallsOK /\ DOMAIN comp = Threads /\ \A g \in Threads : CallOK(g)
  BY DEF BudgetOK, CallsOK
<1>3. BudgetTables'
  BY <1>1, <1>2 DEF BudgetTables
<1>4. ASSUME NEW g \in Threads
      PROVE  /\ Held(g)' = Held(g) /\ Pending(g)' = Pending(g) /\ CallOK(g)'
             /\ comp'[g] = comp[g] /\ (Pending(g) => th'[g].ep = th[g].ep)
    BY <1>1, <1>2 DEF Held, Pending, CallOK, At
<1> QED BY <1>1, <1>2, <1>3, <1>4, CallsShrink DEF FewerReservations

\* The append of a call charges what was promised for it, and what it used without a
\* reservation.
LEMMA RecordKept ==
  ASSUME BudgetOK, NEW h \in Threads, RecordUsage(h, th[h].ep), UNCHANGED th
  PROVE  BudgetOK'
<1>0. CallOK(h) /\ comp[h].at = "answered"
  BY DEF BudgetOK, CallsOK, RecordUsage, Calling
<1>00. PICK e \in Episodes : e = th[h].ep
  BY <1>0 DEF CallOK
<1> DEFINE r == comp[h].row
           t0 == comp[h].turn
           c == [comp[h] EXCEPT !.at = "recorded"]
           k == IF Backing(h) THEN 0 ELSE 1
           x0 == Excess(h)
<1>1. /\ comp[h].at = "answered" /\ comp' = [comp EXCEPT ![h] = c] /\ UNCHANGED rows
      /\ beyond' = [beyond EXCEPT ![e].calls = @ + k, ![e].tokens = @ + x0, ![e].turns[t0] = @ + k]
      /\ used' = [used EXCEPT ![e] = [calls |-> @.calls + 1, tokens |-> @.tokens + comp[h].size]]
      /\ charged' = [charged EXCEPT ![e][t0] = @ + 1]
  BY <1>00 DEF RecordUsage, Calling
<1>2. /\ BudgetTables /\ CallsOK /\ CallOK(h) /\ \A g \in Threads : CallOK(g)
      /\ \A x \in Episodes : WithinBudget(x)
  BY DEF BudgetOK, CallsOK
<1>3. Held(h) /\ Pending(h)
  BY <1>1 DEF Held, Pending
<1>4. /\ e \in Episodes /\ comp[h].size \in Nat /\ At(h) = "component"
      /\ r \in DOMAIN rows => rows[r].episode = e /\ rows[r].turn = t0 /\ rows[r].size \in Nat
  BY <1>00, <1>1, <1>2, <1>3 DEF CallOK, BudgetTables
<1>41. /\ r \in DOMAIN rows => k = 0 /\ comp[h].size - x0 <= rows[r].size
       /\ r \notin DOMAIN rows => k = 1 /\ x0 = comp[h].size
       /\ k \in Nat /\ x0 \in Nat
  BY <1>4 DEF Backing, Excess
<1>5. DOMAIN c = CallFields /\ c.size = comp[h].size /\ c.at = "recorded" /\ c.row = r
  BY <1>2 DEF CallOK, CallFields
<1> HIDE DEF c, k, x0
<1>6. /\ DOMAIN comp' = Threads /\ comp'[h] = c /\ \A g \in Threads \ {h} : comp'[g] = comp[g]
      /\ \A g \in Threads : At(g)' = At(g) /\ th'[g] = th[g]
      /\ \A g \in Threads \ {h} : (Held(g)' <=> Held(g)) /\ (Pending(g)' <=> Pending(g))
  BY <1>1, OneCall
<1>7. Held(h)' /\ ~Pending(h)'
  BY <1>5, <1>6 DEF Held, Pending
<1>8. /\ used'[e].calls = used[e].calls + 1 /\ used'[e].tokens = used[e].tokens + comp[h].size
      /\ used[e].calls \in Nat /\ used[e].tokens \in Nat
      /\ \A x \in Episodes \ {e} : used'[x] = used[x] /\ charged'[x] = charged[x]
      /\ \A t \in Turns : charged[e][t] \in Nat
      /\ \A t \in Turns : charged'[e][t] = IF t = t0 THEN charged[e][t] + 1 ELSE charged[e][t]
  BY <1>1, <1>2, <1>4 DEF BudgetTables
<1>81. /\ CallLimit(e)' = CallLimit(e) + k /\ TokenLimit(e)' = TokenLimit(e) + x0
       /\ \A x \in Episodes \ {e} : beyond'[x] = beyond[x]
       /\ \A t \in Turns : TurnLimit(e, t)' = TurnLimit(e, t) + (IF t = t0 THEN k ELSE 0)
  <2>1. /\ beyond \in [Episodes -> [calls : Nat, tokens : Nat, turns : [Turns -> Nat]]]
        /\ MaxCallsEpisode \in Nat /\ MaxTokens \in Nat /\ MaxCallsTurn \in Nat
    BY <1>2, BudgetAssumption DEF BudgetTables
  <2>2. /\ beyond'[e].calls = beyond[e].calls + k /\ beyond'[e].tokens = beyond[e].tokens + x0
        /\ \A x \in Episodes \ {e} : beyond'[x] = beyond[x]
        /\ beyond'[e].turns = [beyond[e].turns EXCEPT ![t0] = @ + k]
    BY <1>1, <1>4, <2>1
  <2>3. /\ beyond[e].calls \in Nat /\ beyond[e].tokens \in Nat /\ beyond[e].turns \in [Turns -> Nat]
    BY <1>4, <2>1
  <2>4. \A t \in Turns : beyond'[e].turns[t] = beyond[e].turns[t] + (IF t = t0 THEN k ELSE 0)
    BY <1>41, <2>2, <2>3
  <2>5. \A t \in Turns : beyond[e].turns[t] \in Nat
    BY <2>3
  <2> QED BY <1>41, <2>1, <2>2, <2>3, <2>4, <2>5 DEF CallLimit, TokenLimit, TurnLimit
<1>9. BudgetTables'
  <2>1. used' \in [Episodes -> [calls : Nat, tokens : Nat]]
    BY <1>1, <1>2, <1>4 DEF BudgetTables
  <2>2. charged' \in [Episodes -> [Turns -> Nat]]
    <3> DEFINE f == [charged[e] EXCEPT ![t0] = @ + 1]
    <3>1. charged \in [Episodes -> [Turns -> Nat]] /\ charged[e] \in [Turns -> Nat]
      BY <1>2 DEF BudgetTables
    <3>2. f \in [Turns -> Nat]
      <4>1. DOMAIN f = Turns /\ \A t \in Turns : f[t] = IF t = t0 THEN charged[e][t] + 1 ELSE charged[e][t]
        BY <3>1
      <4>2. \A t \in Turns : f[t] \in Nat
        BY <3>1, <4>1
      <4>3. f = [t \in DOMAIN f |-> f[t]]
        OBVIOUS
      <4> HIDE DEF f
      <4> QED BY <4>1, <4>2, <4>3
    <3>3. charged' = [charged EXCEPT ![e] = f]
      BY <1>1
    <3> HIDE DEF f
    <3> QED BY <3>1, <3>2, <3>3
  <2>3. beyond' \in [Episodes -> [calls : Nat, tokens : Nat, turns : [Turns -> Nat]]]
    <3> DEFINE f == [beyond[e].turns EXCEPT ![t0] = @ + k]
    <3>1. /\ beyond \in [Episodes -> [calls : Nat, tokens : Nat, turns : [Turns -> Nat]]]
          /\ beyond[e] \in [calls : Nat, tokens : Nat, turns : [Turns -> Nat]]
      BY <1>2, <1>4 DEF BudgetTables
    <3>2. f \in [Turns -> Nat]
      <4>1. beyond[e].turns \in [Turns -> Nat]
        BY <3>1
      <4>2. DOMAIN f = Turns /\ \A t \in Turns : f[t] = IF t = t0 THEN beyond[e].turns[t] + k ELSE beyond[e].turns[t]
        BY <4>1
      <4>3. \A t \in Turns : f[t] \in Nat
        BY <1>41, <4>1, <4>2
      <4>4. f = [t \in DOMAIN f |-> f[t]]
        OBVIOUS
      <4> HIDE DEF f
      <4> QED BY <4>2, <4>3, <4>4
    <3>3. /\ beyond' = [beyond EXCEPT ![e] = beyond'[e]]
          /\ beyond'[e] = [beyond[e] EXCEPT !.calls = @ + k, !.tokens = @ + x0, !.turns = f]
      BY <1>1, <3>1
    <3> HIDE DEF f
    <3>4. beyond'[e] \in [calls : Nat, tokens : Nat, turns : [Turns -> Nat]]
      <4>1. beyond'[e] = [calls |-> beyond[e].calls + k, tokens |-> beyond[e].tokens + x0, turns |-> f]
        BY <3>1, <3>3
      <4>2. beyond[e].calls + k \in Nat /\ beyond[e].tokens + x0 \in Nat
        BY <1>41, <3>1
      <4> QED BY <3>2, <4>1, <4>2
    <3> QED BY <3>1, <3>3, <3>4
  <2> QED BY <1>1, <1>2, <2>1, <2>2, <2>3 DEF BudgetTables
<1>10. CallsOK'
  <2>1. CallOK(h)'
    BY <1>1, <1>2, <1>3, <1>5, <1>6, <1>7 DEF CallOK
  <2>2. ASSUME NEW g \in Threads \ {h} PROVE CallOK(g)'
    BY <1>1, <1>2, <1>6 DEF CallOK
  <2>3. ASSUME NEW g \in Threads PROVE (Held(g)' <=> Held(g)) /\ comp'[g].row = comp[g].row
    BY <1>3, <1>5, <1>6, <1>7
  <2> QED BY <1>2, <1>6, <2>1, <2>2, <2>3 DEF CallsOK
<1>11. ASSUME NEW x \in Episodes, NEW i \in Promised(x)' PROVE i \in Promised(x) /\ i # r
  <2>1. PICK g \in Threads : Pending(g)' /\ th'[g].ep = x /\ comp'[g].row = i
    BY <1>11 DEF Promised
  <2>2. g # h /\ Pending(g) /\ th[g].ep = x /\ comp[g].row = i
    BY <1>6, <1>7, <2>1
  <2>3. Held(g)
    BY <2>2 DEF Held, Pending
  <2>4. i # r
    BY <1>2, <1>3, <2>2, <2>3 DEF CallsOK
  <2>5. i \in 1..MaxRows /\ i \in DOMAIN rows
    BY <1>1, <1>11 DEF Promised
  <2> QED BY <2>2, <2>4, <2>5 DEF Promised
<1>12. ASSUME NEW x \in Episodes, x # e PROVE WithinBudget(x)'
  <2>1. WithinBudget(x) /\ used'[x] = used[x] /\ charged'[x] = charged[x] /\ beyond'[x] = beyond[x]
    BY <1>2, <1>8, <1>81, <1>12
  <2>2. \A i \in Promised(x)' : i \in Promised(x) /\ rows'[i].turn = rows[i].turn /\ rows'[i].size = rows[i].size
    BY <1>1, <1>11
  <2> QED BY <1>2, <1>9, <1>10, <2>1, <2>2, PromisesShrink
<1>13. WithinBudget(e)'
  <2> DEFINE P == Promised(e)
             Q == Promised(e)'
  <2>1. /\ P \subseteq 1..MaxRows /\ P \subseteq DOMAIN rows /\ AmountsOf(P) \in Amounts
        /\ \A i \in P : rows[i].size \in Nat
    BY <1>2, PromisedRows
  <2>2. (r \in DOMAIN rows => r \in P) /\ (r \notin DOMAIN rows => r \notin P)
    BY <1>00, <1>2, <1>3, <1>4, <2>1 DEF Promised, BudgetTables
  <2>3. Q \subseteq P /\ r \notin Q /\ Q \subseteq 1..MaxRows
    BY <1>4, <1>11, <2>1
  <2> HIDE DEF P, Q, r, t0
  <2>4. /\ Cardinality(Q) <= Cardinality(P) + k - 1 /\ Cardinality(Q) \in Nat /\ Cardinality(P) \in Nat
    <3>1. Cardinality(Q) <= Cardinality(P) /\ Cardinality(Q) \in Nat /\ Cardinality(P) \in Nat
      BY <2>1, <2>3, FewerRows, FiniteRows
    <3>2. CASE r \in DOMAIN rows
      <4>1. Q \subseteq P \ {r} /\ r \in P
        BY <2>2, <2>3, <3>2
      <4>2. Cardinality(Q) + 1 <= Cardinality(P)
        BY <2>1, <4>1, OneRowLess
      <4> QED BY <1>41, <3>1, <3>2, <4>2
    <3>3. CASE r \notin DOMAIN rows
      BY <1>41, <3>1, <3>3
    <3> QED BY <3>2, <3>3
  <2>5. used[e].calls + Cardinality(P) <= CallLimit(e) /\ CallLimit(e) \in Nat
    BY <1>2, <1>4, LimitTypes DEF WithinBudget, P
  <2>6. used'[e].calls + Cardinality(Q) <= CallLimit(e)'
    BY <1>8, <1>41, <1>81, <2>4, <2>5
  <2>7. used'[e].tokens + Total(AmountsOf(Promised(e))') <= TokenLimit(e)'
    <3> DEFINE a == AmountsOf(P)
               b == [i \in 1..MaxRows |-> IF i \in Q THEN rows[i].size ELSE 0]
               d == x0 - comp[h].size
               l == IF r \in DOMAIN rows THEN r ELSE MaxRows + 1
    <3>1. /\ a \in Amounts /\ b \in Amounts /\ d \in Int /\ l \in Nat \ {0}
          /\ (l <= MaxRows => l = r /\ r \in DOMAIN rows) /\ (r \in DOMAIN rows => l = r /\ r \in 1..MaxRows)
          /\ (r \notin DOMAIN rows => d = 0)
      <4>1. a \in Amounts /\ MaxRows \in Nat /\ (r \in DOMAIN rows => r \in 1..MaxRows)
        BY <2>1, <2>2, BudgetAssumption
      <4>2. b \in Amounts
        BY <2>1, <2>3 DEF Amounts
      <4>3. d \in Int /\ (r \notin DOMAIN rows => d = 0)
        BY <1>4, <1>41
      <4> HIDE DEF a, b, d
      <4> QED BY <4>1, <4>2, <4>3
    <3>2. ASSUME NEW i \in 1..MaxRows PROVE b[i] <= a[i] + (IF i = l THEN d ELSE 0)
      <4>1. CASE i = l
        <5>1. l = r /\ r \in DOMAIN rows
          BY <3>1, <4>1, BudgetAssumption
        <5>2. b[i] = 0 /\ a[i] = rows[r].size
          BY <2>2, <2>3, <4>1, <5>1 DEF AmountsOf
        <5>3. comp[h].size - x0 <= rows[r].size /\ rows[r].size \in Nat /\ comp[h].size \in Nat /\ x0 \in Nat
          BY <1>4, <1>41, <5>1
        <5> QED BY <4>1, <5>2, <5>3
      <4>2. CASE i # l
        <5>1. (b[i] = 0 \/ b[i] = a[i]) /\ a[i] \in Nat
          BY <2>1, <2>3, <3>1 DEF AmountsOf, Amounts
        <5> QED BY <4>2, <5>1
      <4> QED BY <4>1, <4>2
    <3>3. used[e].tokens + Total(a) <= TokenLimit(e) /\ TokenLimit(e) \in Nat
      BY <1>2, <1>4, LimitTypes DEF WithinBudget, P
    <3>4. AmountsOf(Promised(e))' = b
      BY <1>1 DEF AmountsOf, Q
    <3> HIDE DEF a, b, l
    <3>5. Total(a) \in Nat /\ Total(b) \in Nat /\ Total(b) <= Total(a) + (IF l <= MaxRows THEN d ELSE 0)
      <4> HIDE DEF d
      <4> QED BY <3>1, <3>2, TotalBound
    <3>6. Total(b) <= Total(a) + d
      <4> HIDE DEF d
      <4>1. CASE r \in DOMAIN rows
        BY <3>1, <3>5, <4>1, BudgetAssumption
      <4>2. CASE r \notin DOMAIN rows
        BY <3>1, <3>5, <4>2
      <4> QED BY <4>1, <4>2
    <3>7. used'[e].tokens + Total(b) <= TokenLimit(e)'
      BY <1>4, <1>8, <1>41, <1>81, <3>3, <3>5, <3>6
    <3> QED BY <3>4, <3>7
  <2>8. ASSUME NEW t \in Turns
        PROVE  charged'[e][t] + Cardinality(PromisedTurn(e, t)') <= TurnLimit(e, t)'
    <3> DEFINE A == PromisedTurn(e, t)
               B == PromisedTurn(e, t)'
    <3>1. A \subseteq 1..MaxRows /\ B \subseteq A /\ r \notin B /\ (t = t0 /\ r \in DOMAIN rows => r \in A)
      BY <1>1, <1>4, <2>1, <2>2, <2>3 DEF PromisedTurn, P, Q
    <3>2. charged[e][t] + Cardinality(A) <= TurnLimit(e, t) /\ TurnLimit(e, t) \in Nat
      BY <1>2, <1>4, LimitTypes DEF WithinBudget
    <3> HIDE DEF A, B
    <3>3. /\ Cardinality(B) \in Nat /\ Cardinality(A) \in Nat /\ Cardinality(B) <= Cardinality(A)
          /\ t = t0 => Cardinality(B) <= Cardinality(A) + k - 1
      <4>1. Cardinality(B) \in Nat /\ Cardinality(A) \in Nat /\ Cardinality(B) <= Cardinality(A)
        <5>1. B \subseteq 1..MaxRows
          BY <3>1
        <5> QED BY <3>1, <5>1, FewerRows, FiniteRows
      <4>2. CASE t = t0 /\ r \in DOMAIN rows
        <5>1. Cardinality(B) + 1 <= Cardinality(A)
          <6>1. B \subseteq A \ {r} /\ r \in A
            BY <3>1, <4>2
          <6> QED BY <3>1, <6>1, OneRowLess
        <5> QED BY <1>41, <4>1, <4>2, <5>1
      <4>3. CASE r \notin DOMAIN rows
        BY <1>41, <4>1, <4>3
      <4> QED BY <4>1, <4>2, <4>3
    <3>4. charged'[e][t] + Cardinality(B) <= TurnLimit(e, t)'
      BY <1>8, <1>41, <1>81, <3>2, <3>3
    <3> QED BY <3>4 DEF B
  <2> QED BY <2>6, <2>7, <2>8 DEF WithinBudget, P, Q
<1> QED BY <1>9, <1>10, <1>12, <1>13 DEF BudgetOK

\* The transaction that reserves counts every live reservation, so it promises no more
\* than the budget has left.
LEMMA ReserveKept ==
  ASSUME BudgetOK, NEW h \in Threads, ReserveLlmBudget(h, th[h].ep), UNCHANGED th
  PROVE  BudgetOK'
<1>0. CallOK(h) /\ comp[h].at = "asked"
  BY DEF BudgetOK, CallsOK, ReserveLlmBudget, Calling
<1>00. PICK e \in Episodes : e = th[h].ep
  BY <1>0 DEF CallOK
<1> DEFINE live == [i \in {j \in DOMAIN rows : ~rows[j].stale} |-> rows[i]]
           unused == 1..MaxRows \ (DOMAIN live \cup {comp[g].row : g \in Threads})
           id == CHOOSE i \in unused : TRUE
           refused == [NoCall EXCEPT !.at = "done", !.outcome = "error"]
           c == [comp[h] EXCEPT !.at = "reserved", !.row = id]
           new == [episode |-> e, turn |-> comp[h].turn, size |-> comp[h].size, stale |-> FALSE]
<1>1. /\ BudgetTables /\ CallsOK /\ CallOK(h) /\ \A g \in Threads : CallOK(g)
      /\ \A x \in Episodes : WithinBudget(x)
  BY DEF BudgetOK, CallsOK
<1>2. comp[h].at = "asked" /\ UNCHANGED <<used, charged, beyond>>
  BY DEF ReserveLlmBudget, Calling
<1>3. e \in Episodes /\ comp[h].size \in Nat /\ At(h) = "component" /\ ~Held(h) /\ ~Pending(h)
  BY <1>1, <1>2 DEF CallOK, Held, Pending
<1>4. CASE comp' = [comp EXCEPT ![h] = refused] /\ UNCHANGED rows
  <2>1. DOMAIN refused = CallFields /\ refused.size \in Nat /\ refused.at = "done"
    BY DEF NoCall, CallFields
  <2> HIDE DEF refused
  <2>2. comp'[h] = refused /\ At(h)' = "component" /\ th'[h].ep \in Episodes
    BY <1>00, <1>3, <1>4, OneCall
  <2>3. ~Held(h)' /\ ~Pending(h)'
    BY <2>1, <2>2 DEF Held, Pending
  <2>4. CallOK(h)'
    BY <2>1, <2>2, <2>3 DEF CallOK
  <2> QED BY <1>2, <1>4, <2>3, <2>4, SameRows
<1>5. CASE /\ WithinLimits(e, comp[h].turn, comp[h].size, live) /\ unused # {}
           /\ rows' = [i \in DOMAIN live \cup {id} |-> IF i = id THEN new ELSE live[i]]
           /\ comp' = [comp EXCEPT ![h] = c]
  <2>1. id \in 1..MaxRows /\ id \notin DOMAIN live /\ \A g \in Threads : id # comp[g].row
    BY <1>5
  <2>2. /\ DOMAIN live = {j \in DOMAIN rows : ~rows[j].stale}
        /\ \A i \in DOMAIN live : live[i] = rows[i]
    OBVIOUS
  <2>3. /\ DOMAIN new = RowFields /\ new.episode = e /\ new.turn = comp[h].turn
        /\ new.size = comp[h].size /\ new.stale = FALSE
    BY DEF RowFields
  <2>4. /\ DOMAIN c = CallFields /\ c.size = comp[h].size /\ c.at = "reserved" /\ c.row = id
        /\ c.turn = comp[h].turn
    BY <1>1 DEF CallOK, CallFields
  <2>5. e = th[h].ep
    BY <1>00
  <2> HIDE DEF live, unused, id, new, c
  <2>6. /\ DOMAIN rows' = DOMAIN live \cup {id} /\ rows'[id] = new
        /\ \A i \in DOMAIN live : rows'[i] = rows[i]
    BY <1>5, <2>1, <2>2
  <2>7. /\ DOMAIN comp' = Threads /\ comp'[h] = c /\ \A g \in Threads \ {h} : comp'[g] = comp[g]
        /\ \A g \in Threads : At(g)' = At(g) /\ th'[g] = th[g]
        /\ \A g \in Threads \ {h} : (Held(g)' <=> Held(g)) /\ (Pending(g)' <=> Pending(g))
    BY <1>5, OneCall
  <2>8. Held(h)' /\ Pending(h)'
    BY <2>4, <2>7 DEF Held, Pending
  <2>9. BudgetTables'
    <3>1. DOMAIN rows' \subseteq 1..MaxRows
      BY <1>1, <2>1, <2>2, <2>6 DEF BudgetTables
    <3>2. ASSUME NEW i \in DOMAIN rows'
          PROVE  DOMAIN rows'[i] = RowFields /\ rows'[i].size \in Nat /\ rows'[i].stale \in BOOLEAN
      <4>1. CASE i = id
        BY <1>3, <2>3, <2>6, <4>1
      <4>2. CASE i \in DOMAIN live
        BY <1>1, <2>2, <2>6, <4>2 DEF BudgetTables
      <4> QED BY <2>6, <4>1, <4>2
    <3> QED BY <1>1, <1>2, <3>1, <3>2 DEF BudgetTables
  <2>10. \A g \in Threads : comp[g].row # id
    BY <2>1
  <2>11. CallOK(h)'
    <3>1. th'[h].ep = e /\ At(h)' = "component"
      BY <1>3, <2>5, <2>7
    <3>2. comp'[h].row = id /\ id \in DOMAIN rows' /\ rows'[id] = new /\ id \in 1..MaxRows
      BY <2>1, <2>4, <2>6, <2>7
    <3>3. DOMAIN comp'[h] = CallFields /\ comp'[h].size \in Nat /\ comp'[h].at = "reserved"
      BY <1>3, <2>4, <2>7
    <3>4. rows'[comp'[h].row].episode = th'[h].ep /\ rows'[comp'[h].row].turn = comp'[h].turn
      BY <2>3, <2>4, <2>7, <3>1, <3>2
    <3> QED BY <1>3, <3>1, <3>2, <3>3, <3>4 DEF CallOK
  <2>12. ASSUME NEW g \in Threads \ {h} PROVE CallOK(g)'
    <3>1. Pending(g) => Held(g)
      BY DEF Pending, Held
    <3>2. CallOK(g) /\ comp'[g] = comp[g] /\ th'[g] = th[g] /\ At(g)' = At(g)
      BY <1>1, <2>7
    <3>3. comp[g].row \in DOMAIN rows' => comp[g].row \in DOMAIN rows /\ rows'[comp[g].row] = rows[comp[g].row]
      BY <2>2, <2>6, <2>10
    <3> QED BY <2>7, <3>1, <3>2, <3>3 DEF CallOK
  <2>13. CallsOK'
    <3>1. ASSUME NEW f \in Threads, NEW g \in Threads, Held(f)', Held(g)', comp'[f].row = comp'[g].row
          PROVE  f = g
      <4>1. CASE f # h /\ g # h
        BY <1>1, <2>7, <3>1, <4>1 DEF CallsOK
      <4>2. CASE f = h /\ g # h
        BY <2>4, <2>7, <2>10, <3>1, <4>2
      <4>3. CASE f # h /\ g = h
        BY <2>4, <2>7, <2>10, <3>1, <4>3
      <4> QED BY <4>1, <4>2, <4>3
    <3> QED BY <2>7, <2>11, <2>12, <3>1 DEF CallsOK
  <2>14. ASSUME NEW x \in Episodes, NEW i \in Promised(x)', i # id \/ x # e
         PROVE  i \in Promised(x) /\ i # id /\ i \in DOMAIN live /\ rows'[i] = rows[i]
    <3>1. PICK g \in Threads : Pending(g)' /\ th'[g].ep = x /\ comp'[g].row = i
      BY <2>14 DEF Promised
    <3>2. g # h
      BY <2>4, <2>5, <2>7, <2>14, <3>1
    <3>3. Pending(g) /\ th[g].ep = x /\ comp[g].row = i
      BY <2>7, <3>1, <3>2
    <3>4. i # id
      BY <2>10, <3>3
    <3>5. i \in 1..MaxRows /\ i \in DOMAIN rows'
      BY <2>14 DEF Promised
    <3> QED BY <2>2, <2>6, <3>3, <3>4, <3>5 DEF Promised
  <2>15. ASSUME NEW x \in Episodes, x # e PROVE WithinBudget(x)'
    <3>1. WithinBudget(x) /\ used'[x] = used[x] /\ charged'[x] = charged[x] /\ beyond'[x] = beyond[x]
      BY <1>1, <1>2
    <3>2. \A i \in Promised(x)' : i \in Promised(x) /\ rows'[i].turn = rows[i].turn /\ rows'[i].size = rows[i].size
      BY <2>14, <2>15
    <3> QED BY <1>1, <2>9, <2>13, <3>1, <3>2, PromisesShrink
  <2>16. WithinBudget(e)'
    <3> DEFINE L == RowsOf(e, live)
               Q == Promised(e)'
    <3>1. L = {i \in DOMAIN live : rows[i].episode = e} /\ L \subseteq 1..MaxRows
      BY <1>1, <2>2 DEF RowsOf, BudgetTables
    <3>2. Q \subseteq L \cup {id} /\ Q \subseteq 1..MaxRows
      <4>1. ASSUME NEW i \in Q, i # id PROVE i \in L
        <5>1. i \in Promised(e) /\ i \in DOMAIN live
          BY <1>3, <2>5, <2>14, <4>1
        <5>2. rows[i].episode = e
          BY <1>1, <5>1, PromisedRows
        <5> QED BY <3>1, <5>1, <5>2
      <4> QED BY <4>1 DEF Promised
    <3>3. /\ charged[e][comp[h].turn] + Cardinality({i \in L : live[i].turn = comp[h].turn}) < MaxCallsTurn
          /\ used[e].calls + Cardinality(L) < MaxCallsEpisode
          /\ used[e].tokens + Reserved(e, live) + comp[h].size <= MaxTokens
      BY <1>5, <2>5 DEF WithinLimits
    <3>4. /\ used[e].calls \in Nat /\ used[e].tokens \in Nat /\ \A t \in Turns : charged[e][t] \in Nat
          /\ MaxCallsEpisode \in Nat /\ MaxTokens \in Nat /\ MaxCallsTurn \in Nat
          /\ CallLimit(e)' \in Nat /\ MaxCallsEpisode <= CallLimit(e)'
          /\ TokenLimit(e)' \in Nat /\ MaxTokens <= TokenLimit(e)'
          /\ \A t \in Turns : /\ TurnLimit(e, t)' \in Nat /\ MaxCallsTurn <= TurnLimit(e, t)'
                             /\ TurnLimit(e, t) \in Nat /\ TurnLimit(e, t)' = TurnLimit(e, t)
      BY <1>1, <1>2, <1>3, LimitTypes DEF BudgetTables, CallLimit, TokenLimit, TurnLimit
    <3> HIDE DEF L, Q
    <3>5. Cardinality(Q) <= Cardinality(L) + 1 /\ Cardinality(Q) \in Nat /\ Cardinality(L) \in Nat
      BY <3>1, <3>2, OneMoreRow, FiniteRows
    <3>6. used'[e].calls + Cardinality(Q) <= CallLimit(e)'
      BY <1>2, <3>3, <3>4, <3>5
    <3>7. used'[e].tokens + Total(AmountsOf(Promised(e))') <= TokenLimit(e)'
      <4> DEFINE a == [i \in 1..MaxRows |-> IF i \in RowsOf(e, live) THEN live[i].size ELSE 0]
                 b == AmountsOf(Promised(e))'
                 d == comp[h].size
      <4>1. Reserved(e, live) = Total(a)
        BY DEF Reserved
      <4>2. a \in Amounts /\ \A i \in 1..MaxRows : a[i] = IF i \in L THEN rows[i].size ELSE 0
        BY <1>1, <2>2, <3>1 DEF Amounts, L, BudgetTables
      <4>3. b \in Amounts
        <5>1. ASSUME NEW i \in Q PROVE rows'[i].size \in Nat
          BY <2>6, <2>9, <3>1, <3>2 DEF BudgetTables
        <5>2. b = [i \in 1..MaxRows |-> IF i \in Q THEN rows'[i].size ELSE 0]
          BY DEF AmountsOf, Q
        <5> HIDE DEF b
        <5> QED BY <5>1, <5>2 DEF Amounts
      <4>4. \A i \in 1..MaxRows : b[i] = IF i \in Q THEN rows'[i].size ELSE 0
        BY DEF AmountsOf, Q
      <4> HIDE DEF a, b
      <4>5. ASSUME NEW i \in 1..MaxRows PROVE b[i] <= a[i] + (IF i = id THEN d ELSE 0)
        <5>1. CASE i = id
          <6>1. b[i] <= d
            BY <1>3, <2>3, <2>6, <4>4, <5>1
          <6> QED BY <1>3, <4>2, <4>3, <5>1, <6>1 DEF Amounts
        <5>2. CASE i # id
          <6>1. i \in Q => i \in L /\ rows'[i] = rows[i]
            BY <2>6, <3>1, <3>2, <5>2
          <6>2. b[i] = 0 \/ b[i] = a[i]
            BY <4>2, <4>4, <6>1
          <6> QED BY <4>2, <5>2, <6>2 DEF Amounts
        <5> QED BY <5>1, <5>2
      <4>6. Total(a) \in Nat /\ Total(b) \in Nat /\ Total(b) <= Total(a) + (IF id <= MaxRows THEN d ELSE 0)
        <5>1. id \in Nat \ {0} /\ d \in Int
          BY <1>3, <2>1
        <5> HIDE DEF d
        <5> QED BY <4>2, <4>3, <4>5, <5>1, TotalBound
      <4>7. id <= MaxRows
        BY <2>1, BudgetAssumption
      <4>8. used'[e].tokens + Total(b) <= TokenLimit(e)'
        BY <1>2, <1>3, <3>3, <3>4, <4>1, <4>6, <4>7
      <4> QED BY <4>8 DEF b
    <3>8. ASSUME NEW t \in Turns
          PROVE  charged'[e][t] + Cardinality(PromisedTurn(e, t)') <= TurnLimit(e, t)'
      <4> DEFINE A == {i \in L : live[i].turn = t}
                 O == PromisedTurn(e, t)
                 B == PromisedTurn(e, t)'
      <4>1. /\ B \subseteq Q /\ A \subseteq 1..MaxRows /\ O \subseteq 1..MaxRows
            /\ \A i \in B : rows'[i].turn = t
        BY <3>1 DEF PromisedTurn, Q, Promised
      <4>2. CASE t = comp[h].turn
        <5>1. B \subseteq A \cup {id}
          BY <2>2, <2>6, <3>1, <3>2, <4>1
        <5>2. charged[e][t] + Cardinality(A) < MaxCallsTurn
          BY <3>3, <4>2
        <5> HIDE DEF A, B
        <5>3. Cardinality(B) <= Cardinality(A) + 1 /\ Cardinality(B) \in Nat /\ Cardinality(A) \in Nat
          BY <3>2, <4>1, <5>1, OneMoreRow, FiniteRows
        <5>4. charged'[e][t] + Cardinality(B) <= TurnLimit(e, t)'
          BY <1>2, <3>4, <5>2, <5>3
        <5> QED BY <5>4 DEF B
      <4>3. CASE t # comp[h].turn
        <5>1. ASSUME NEW i \in B PROVE i \in O
          <6>1. i \in Promised(e)' /\ rows'[i].turn = t
            BY <4>1, <5>1 DEF Q
          <6>2. i # id
            BY <2>3, <2>6, <4>3, <6>1
          <6>3. i \in Promised(e) /\ rows'[i] = rows[i]
            BY <1>3, <2>5, <2>14, <6>1, <6>2
          <6> QED BY <6>1, <6>3 DEF PromisedTurn
        <5>2. charged[e][t] + Cardinality(O) <= TurnLimit(e, t)
          BY <1>1, <1>3, <2>5 DEF WithinBudget
        <5> HIDE DEF O, B
        <5>3. Cardinality(B) <= Cardinality(O) /\ Cardinality(B) \in Nat /\ Cardinality(O) \in Nat
          BY <3>2, <4>1, <5>1, FewerRows, FiniteRows
        <5>4. charged'[e][t] + Cardinality(B) <= TurnLimit(e, t)'
          BY <1>2, <3>4, <5>2, <5>3
        <5> QED BY <5>4 DEF B
      <4> QED BY <4>2, <4>3
    <3> QED BY <3>6, <3>7, <3>8 DEF WithinBudget, Q
  <2> QED BY <2>9, <2>13, <2>15, <2>16 DEF BudgetOK
<1> QED BY <1>00, <1>4, <1>5 DEF ReserveLlmBudget, Done

LEMMA OutsideCalls ==
  ASSUME ThreadsOK, NEW h \in Threads, Step(h), ~CallComponent(h), ~UseAnswer(h)
  PROVE  UNCHANGED budget /\ At(h) # "component"
<1>1. PICK x \in Steps \ {"component"} : Doing(h, x) /\ UNCHANGED budget
  <2>1. CASE \/ Resolve(h) \/ Create(h) \/ Remember(h) \/ Mark(h) \/ Reload(h) \/ CountTurn(h) \/ AppendTurn(h)
    BY <2>1 DEF Resolve, Create, Remember, Mark, Reload, CountTurn, AppendTurn, Steps
  <2>2. CASE \/ FindLock(h) \/ Enter(h) \/ Leave(h) \/ Gate(h) \/ Finish(h) \/ Promote(h) \/ Schedule(h)
    BY <2>2 DEF FindLock, Enter, Leave, Gate, Finish, Promote, Schedule, Steps
  <2>3. CASE StartDrainer(h) \/ TakeJob(h) \/ CheckActive(h) \/ Inject(h) \/ CheckHealth(h) \/ LintResponse(h)
    BY <2>3 DEF StartDrainer, TakeJob, CheckActive, Inject, CheckHealth, LintResponse, Steps
  <2>4. CASE \/ Entail(h) \/ Enforce(h) \/ Rewrite(h) \/ Relint(h) \/ RecordLint(h) \/ Archive(h) \/ Forget(h)
    BY <2>4 DEF Entail, Enforce, Rewrite, Relint, RecordLint, Archive, Forget, Steps
  <2>5. CASE Fail(h)
    BY <2>5 DEF Fail, Doing, Lookups, Steps
  <2> QED BY <2>1, <2>2, <2>3, <2>4, <2>5 DEF Step
<1> QED BY <1>1 DEF Doing, At

LEMMA StepSpends ==
  ASSUME ThreadsOK, DrainOK, PlacesOK, BudgetOK, NEW h \in Threads, Step(h)
  PROVE  BudgetOK'
<1>0. CallOK(h) /\ \A g \in Threads : comp[g].at # "none" => At(g) = "component"
  BY DEF BudgetOK, CallsOK, CallOK
<1>1. CASE CallComponent(h)
  <2>1. Doing(h, "component") /\ UNCHANGED th
    BY <1>1 DEF CallComponent
  <2>2. At(h) = "component" /\ th[h].ep \in Episodes
    BY <2>1 DEF Doing, At, PlacesOK, AllPlaced, Placed, Known
  <2>3. CASE LoseReservation(h) \/ LoseRelease(h)
    BY <2>1, <2>2, <2>3, EndKept DEF LoseReservation, LoseRelease
  <2> QED BY <1>1, <2>1, <2>2, <2>3, AskKept, ReserveKept, ProviderKept, RecordKept, LoseKept, ReleaseKept
          DEF CallComponent
<1>2. CASE UseAnswer(h)
  <2>1. Alone(h) /\ TakeAnswer(h)
    BY <1>2, UseAnswerMoves DEF Quiet, Falls, UseAnswer
  <2> QED BY <2>1, TakeKept DEF Alone
<1>3. CASE ~CallComponent(h) /\ ~UseAnswer(h)
  <2>1. UNCHANGED budget /\ At(h) # "component"
    BY <1>3, OutsideCalls
  <2>2. Passage(h)
    BY StepPasses
  <2>3. ASSUME NEW g \in Threads, comp[g].at # "none" PROVE th'[g] = th[g]
    <3>1. At(g) = "component" /\ g # h
      BY <1>0, <2>1, <2>3
    <3>2. g = Drainer => At(h) # "start"
      BY <3>1 DEF DrainOK, At
    <3> QED BY <2>2, <3>1, <3>2 DEF Passage, Others
  <2> QED BY <2>1, <2>3, CallsLeft
<1> QED BY <1>1, <1>2, <1>3

LEMMA BudgetStays ==
  ASSUME ThreadsOK, DrainOK, PlacesOK, BudgetOK, [HostNext]_hostVars
  PROVE  BudgetOK'
<1>1. CASE \E h \in Threads : Step(h)
  BY <1>1, StepSpends
<1>2. ASSUME NEW h \in Threads, NEW hook \in Hooks, NEW session \in Sessions \cup {None},
             NEW marker \in Markers, Callback(h, hook, session, marker)
      PROVE  BudgetOK'
  <2>1. th[h].script = << >> /\ UNCHANGED budget
    BY <1>2 DEF Callback
  <2>2. Alone(h)
    BY <1>2, CallbackMoves, RuntimeAssumption
  <2>3. At(h) = "rest"
    BY <2>1 DEF At
  <2>4. ASSUME NEW g \in Threads, comp[g].at # "none" PROVE th'[g] = th[g]
    <3>1. At(g) = "component"
      BY <2>4 DEF BudgetOK, CallsOK, CallOK
    <3> QED BY <2>2, <2>3, <3>1 DEF Alone
  <2> QED BY <2>1, <2>4, CallsLeft
<1>3. CASE Restart
  BY <1>3, CallsForgotten DEF Restart
<1>4. CASE (RowsAge \/ ReplayLedger) /\ UNCHANGED th
  BY <1>4, RowsAgeKept
<1>5. CASE UNCHANGED hostVars
  <2>1. UNCHANGED budget /\ UNCHANGED th
    BY <1>5 DEF hostVars, budget
  <2> QED BY <2>1, CallsLeft
<1> QED BY <1>1, <1>2, <1>3, <1>4, <1>5 DEF HostNext, Environment

LEMMA BudgetBegins == ASSUME HostInit PROVE BudgetOK
<1>1. /\ used = [e \in Episodes |-> [calls |-> 0, tokens |-> 0]]
      /\ charged = [e \in Episodes |-> [t \in Turns |-> 0]]
      /\ rows = << >> /\ comp = [h \in Threads |-> NoCall]
      /\ beyond = [e \in Episodes |-> [calls |-> 0, tokens |-> 0, turns |-> [t \in Turns |-> 0]]]
  BY DEF HostInit, BudgetInit
<1>2. DOMAIN NoCall = CallFields /\ NoCall.size \in Nat /\ NoCall.at = "none"
  BY DEF NoCall, CallFields
<1>3. BudgetTables
  BY <1>1 DEF BudgetTables
<1>4. \A h \in Threads : ~Held(h) /\ ~Pending(h)
  BY <1>1, <1>2 DEF Held, Pending
<1>5. CallsOK
  BY <1>1, <1>2, <1>4 DEF CallsOK, CallOK
<1>6. ASSUME NEW e \in Episodes PROVE WithinBudget(e)
  <2>1. Promised(e) = {}
    BY <1>4 DEF Promised
  <2>2. AmountsOf(Promised(e)) = [i \in 1..MaxRows |-> 0] /\ \A t : PromisedTurn(e, t) = {}
    BY <2>1 DEF AmountsOf, PromisedTurn
  <2>3. /\ used[e].calls = 0 /\ used[e].tokens = 0 /\ \A t \in Turns : charged[e][t] = 0
        /\ Cardinality({}) = 0 /\ Total([i \in 1..MaxRows |-> 0]) = 0
    BY <1>1, TotalNothing, FS_EmptySet
  <2>4. /\ Cardinality(Promised(e)) = 0 /\ Total(AmountsOf(Promised(e))) = 0
        /\ \A t \in Turns : Cardinality(PromisedTurn(e, t)) = 0
    BY <2>1, <2>2, <2>3
  <2> QED BY <1>3, <2>3, <2>4, LimitTypes DEF WithinBudget
<1> QED BY <1>3, <1>5, <1>6 DEF BudgetOK

\* reserve_llm_budget: whatever the threads do between reserving and recording, and
\* whichever reservations are lost meanwhile, the calls and tokens charged to an episode,
\* and the calls charged to a turn, exceed their limits by no more than was charged
\* without a reservation or above it.
THEOREM BudgetHolds == HostSpec => []BudgetKept
<1>1. BudgetOK => BudgetKept
  <2> SUFFICES ASSUME BudgetOK, NEW e \in Episodes
               PROVE  /\ used[e].calls <= CallLimit(e) /\ used[e].tokens <= TokenLimit(e)
                      /\ \A t \in Turns : charged[e][t] <= TurnLimit(e, t)
    BY DEF BudgetKept, CallLimit, TokenLimit, TurnLimit
  <2>1. BudgetTables /\ CallsOK /\ WithinBudget(e)
    BY DEF BudgetOK
  <2>2. Promised(e) \subseteq 1..MaxRows /\ AmountsOf(Promised(e)) \in Amounts
    BY <2>1, PromisedRows
  <2>3. Cardinality(Promised(e)) \in Nat /\ Total(AmountsOf(Promised(e))) \in Nat
    <3> DEFINE a == AmountsOf(Promised(e))
    <3>1. a \in Amounts /\ \A i \in 1..MaxRows : a[i] <= a[i]
      BY <2>2 DEF Amounts
    <3> HIDE DEF a
    <3>2. Total(a) \in Nat
      BY <3>1, TotalLess
    <3> QED BY <2>2, <3>2, FiniteRows DEF a
  <2>4. \A t \in Turns : PromisedTurn(e, t) \subseteq 1..MaxRows
    BY <2>2 DEF PromisedTurn
  <2>5. \A t \in Turns : Cardinality(PromisedTurn(e, t)) \in Nat /\ charged[e][t] \in Nat
    BY <2>1, <2>4, FiniteRows DEF BudgetTables
  <2>6. used[e].calls \in Nat /\ used[e].tokens \in Nat
    BY <2>1 DEF BudgetTables
  <2> QED BY <2>1, <2>3, <2>5, <2>6, LimitTypes DEF WithinBudget
<1> QED BY <1>1, BudgetBegins, BudgetStays, ScriptsFollow, OneMaintenanceThread, WorkIsPlaced, PTL DEF HostSpec

-----------------------------------------------------------------------------
(* The caches stay within their limits and hold what they should.          *)

MarksOf == [ep : Episodes, marker : Markers]

CachesOK ==
  /\ begunTurns \in Seq(MarksOf)
  /\ Len(turnEpisode) <= CacheLimit /\ Len(begunTurns) <= CacheLimit /\ Len(queue) <= QueueLimit

\* A route that is used moves to the end of its cache.
LEMMA RouteMoves ==
  ASSUME NamesOK, NEW marker, Routed(marker) # {}
  PROVE  /\ turnEpisode[Some(Routed(marker))] \in RoutesTo
         /\ turnEpisode[Some(Routed(marker))] \in Entries(turnEpisode)
         /\ Len(Append(Routes(marker), turnEpisode[Some(Routed(marker))])) <= Len(turnEpisode)
         /\ Entries(Append(Routes(marker), turnEpisode[Some(Routed(marker))])) \subseteq Entries(turnEpisode)
<1> DEFINE i == Some(Routed(marker))
           route == turnEpisode[i]
<1>1. i \in DOMAIN turnEpisode /\ route.marker = marker
  BY SomeMember DEF Routed
<1>2. turnEpisode \in Seq(RoutesTo)
  BY DEF NamesOK
<1>3. route \in RoutesTo /\ route \in Entries(turnEpisode)
  BY <1>1, <1>2 DEF Entries
<1> HIDE DEF i, route
<1>4. route \notin {x \in Entries(turnEpisode) : x.marker # marker}
  BY <1>1
<1>5. Len(Routes(marker)) < Len(turnEpisode)
  BY <1>2, <1>3, <1>4, OnlyDrops DEF Routes
<1>6. Routes(marker) \in Seq(RoutesTo) /\ Entries(Routes(marker)) \subseteq Entries(turnEpisode)
  BY <1>2, OnlyType DEF Routes
<1>7. Entries(Append(Routes(marker), route)) = Entries(Routes(marker)) \cup {route}
  BY <1>3, <1>6, EntriesNext
<1>8. /\ Len(Append(Routes(marker), route)) = Len(Routes(marker)) + 1
      /\ Len(Routes(marker)) \in Nat /\ Len(turnEpisode) \in Nat
  BY <1>2, <1>3, <1>6
<1>9. Len(Append(Routes(marker), route)) <= Len(turnEpisode)
  BY <1>5, <1>8
<1> QED BY <1>3, <1>6, <1>7, <1>9 DEF route, i

\* Who touches the caches.
LEMMA CachesTouched ==
  ASSUME NEW h \in Threads, Step(h)
  PROVE  /\ UNCHANGED turnEpisode \/ Resolve(h) \/ Remember(h) \/ Forget(h)
         /\ UNCHANGED begunTurns \/ Mark(h) \/ Forget(h)
         /\ UNCHANGED queue \/ Schedule(h) \/ TakeJob(h)
         /\ UNCHANGED late \/ Forget(h)
<1>1. CASE Resolve(h) \/ Remember(h) \/ Mark(h) \/ Schedule(h) \/ TakeJob(h) \/ Forget(h)
  BY <1>1 DEF Resolve, Remember, Mark, Schedule, TakeJob, Forget, registry, work, world
<1>2. CASE \/ Create(h) \/ Reload(h) \/ CountTurn(h) \/ AppendTurn(h) \/ FindLock(h) \/ Enter(h) \/ Leave(h)
           \/ Gate(h) \/ Finish(h) \/ Promote(h) \/ StartDrainer(h) \/ CheckActive(h)
  BY <1>2 DEF Create, Reload, CountTurn, AppendTurn, FindLock, Enter, Leave, Gate, Finish, Promote,
     StartDrainer, CheckActive, registry, work, world
<1>3. CASE \/ CallComponent(h) \/ UseAnswer(h) \/ Inject(h)
           \/ CheckHealth(h) \/ LintResponse(h) \/ Entail(h) \/ Enforce(h) \/ Rewrite(h) \/ Relint(h)
           \/ RecordLint(h) \/ Archive(h) \/ Fail(h)
  BY <1>3 DEF CallComponent, UseAnswer, Inject, CheckHealth, LintResponse, Entail, Enforce, Rewrite,
     Relint, RecordLint, Archive, Fail, registry, work, world
<1> QED BY <1>1, <1>2, <1>3 DEF Step

LEMMA LimitsPositive == CacheLimit \in Nat \ {0} /\ QueueLimit \in Nat \ {0}
BY RuntimeAssumption

LEMMA StepCaches ==
  ASSUME ThreadsOK, EpisodesOK, AllAskedOK, PlacesOK, CachesOK, NEW h \in Threads, Step(h)
  PROVE  CachesOK'
<1>1. /\ turnEpisode \in Seq(RoutesTo) /\ queue \in Seq(Known) /\ begunTurns \in Seq(MarksOf)
      /\ Len(turnEpisode) <= CacheLimit /\ Len(begunTurns) <= CacheLimit /\ Len(queue) <= QueueLimit
      /\ Len(turnEpisode) \in Nat /\ Len(begunTurns) \in Nat /\ Len(queue) \in Nat
  BY DEF PlacesOK, NamesOK, CachesOK
<1>2. MarksOf' = MarksOf /\ Placed(h) /\ AskedOK(h)
  BY DEF MarksOf, PlacesOK, AllPlaced, AllAskedOK
<1>3. ASSUME Len(turnEpisode') <= CacheLimit, begunTurns' \in Seq(MarksOf), Len(begunTurns') <= CacheLimit,
             Len(queue') <= QueueLimit
      PROVE  CachesOK'
  BY <1>2, <1>3 DEF CachesOK
<1>4. Len(queue') <= QueueLimit
  <2>1. CASE Schedule(h)
    <3>1. queue' = Remembered(queue, th[h].ep, QueueLimit)
      BY <2>1 DEF Schedule
    <3>2. Stands(h, "schedule")
      BY <2>1, ScheduleMoves DEF Quiet
    <3>3. th[h].ep \in Known
      BY <1>2, <3>2 DEF Stands, Placed
    <3> QED BY <1>1, <3>1, <3>3, RememberedFits, LimitsPositive
  <2>2. CASE TakeJob(h)
    <3>1. queue' = queue \/ (queue # << >> /\ queue' = Tail(queue))
      BY <2>2, TakeJobMoves
    <3>2. queue # << >> => Len(Tail(queue)) = Len(queue) - 1
      BY <1>1, TailEntries
    <3> QED BY <1>1, <3>1, <3>2, LimitsPositive
  <2> QED BY <1>1, <2>1, <2>2, CachesTouched
<1>5. Len(turnEpisode') <= CacheLimit
  <2>1. CASE Resolve(h)
    <3>1. \/ UNCHANGED turnEpisode
          \/ /\ Routed(th[h].marker) # {}
             /\ turnEpisode' = Append(Routes(th[h].marker), turnEpisode[Some(Routed(th[h].marker))])
      BY <2>1, ResolveMoves
    <3>2. CASE /\ Routed(th[h].marker) # {}
               /\ turnEpisode' = Append(Routes(th[h].marker), turnEpisode[Some(Routed(th[h].marker))])
      <4>1. Len(turnEpisode') <= Len(turnEpisode) /\ turnEpisode' \in Seq(RoutesTo)
        <5>1. /\ turnEpisode[Some(Routed(th[h].marker))] \in RoutesTo
              /\ Len(turnEpisode') <= Len(turnEpisode)
          BY <3>2, RouteMoves DEF PlacesOK
        <5>2. Routes(th[h].marker) \in Seq(RoutesTo)
          BY <1>1, RoutesType
        <5> QED BY <3>2, <5>1, <5>2
      <4>2. Len(turnEpisode') \in Nat
        BY <4>1
      <4> QED BY <1>1, <4>1, <4>2, LimitsPositive
    <3> QED BY <1>1, <3>1, <3>2
  <2>2. CASE Remember(h)
    <3> DEFINE x == [marker |-> th[h].marker, ep |-> th[h].ep]
    <3>1. turnEpisode' = Remembered(Routes(th[h].marker), x, CacheLimit)
      BY <2>2 DEF Remember
    <3>2. Stands(h, "remember") /\ h # Drainer
      BY <2>2, RememberMoves DEF Quiet
    <3>3. th[h].ep \in Known /\ th[h].marker \in Markers
      BY <1>2, <3>2 DEF Stands, Placed, AskedOK
    <3>4. x \in RoutesTo /\ Routes(th[h].marker) \in Seq(RoutesTo) /\ Len(Routes(th[h].marker)) <= Len(turnEpisode)
      BY <1>1, <3>3, RoutesType DEF RoutesTo
    <3> HIDE DEF x
    <3>5. Len(Routes(th[h].marker)) \in Nat
      BY <3>4
    <3>6. Len(Routes(th[h].marker)) <= CacheLimit
      BY <1>1, <3>4, <3>5, LimitsPositive
    <3> QED BY <3>1, <3>4, <3>6, RememberedFits, LimitsPositive
  <2>3. CASE Forget(h)
    <3>1. turnEpisode' = RoutesOfOthers(th[h].ep)
      BY <2>3 DEF Forget
    <3>2. turnEpisode' \in Seq(RoutesTo) /\ Len(turnEpisode') <= Len(turnEpisode)
      BY <1>1, <3>1, OnlyType, OnlyShorter DEF RoutesOfOthers
    <3>3. Len(turnEpisode') \in Nat
      BY <3>2
    <3> QED BY <1>1, <3>2, <3>3, LimitsPositive
  <2> QED BY <1>1, <2>1, <2>2, <2>3, CachesTouched
<1>6. begunTurns' \in Seq(MarksOf) /\ Len(begunTurns') <= CacheLimit
  <2>1. CASE Mark(h)
    <3> DEFINE key == [ep |-> th[h].ep, marker |-> th[h].marker]
    <3>1. UNCHANGED begunTurns \/ begunTurns' = Remembered(begunTurns, key, CacheLimit)
      BY <2>1 DEF Mark
    <3>2. Stands(h, "mark") /\ h # Drainer
      BY <2>1, MarkMoves DEF Quiet
    <3>3. th[h].ep \in Known /\ th[h].marker \in Markers
      BY <1>2, <3>2 DEF Stands, Placed, AskedOK
    <3>4. key \in MarksOf
      BY <3>3 DEF MarksOf, Known
    <3> HIDE DEF key
    <3> QED BY <1>1, <3>1, <3>4, RememberedType, RememberedFits, LimitsPositive
  <2>2. CASE Forget(h)
    <3>1. begunTurns' = Only(begunTurns, {x \in Entries(begunTurns) : x.ep # th[h].ep})
      BY <2>2 DEF Forget
    <3>2. begunTurns' \in Seq(MarksOf) /\ Len(begunTurns') <= Len(begunTurns)
      BY <1>1, <3>1, OnlyType, OnlyShorter
    <3>3. Len(begunTurns') \in Nat
      BY <3>2
    <3> QED BY <1>1, <3>2, <3>3, LimitsPositive
  <2> QED BY <1>1, <2>1, <2>2, CachesTouched
<1> QED BY <1>3, <1>4, <1>5, <1>6

LEMMA EmptyCaches == ASSUME turnEpisode = << >>, begunTurns = << >>, queue = << >> PROVE CachesOK
<1>1. << >> \in Seq(MarksOf) /\ Len(<< >>) = 0
  OBVIOUS
<1> QED BY <1>1, LimitsPositive DEF CachesOK

LEMMA CachesKept ==
  ASSUME ThreadsOK, EpisodesOK, AllAskedOK, PlacesOK, CachesOK, [HostNext]_hostVars
  PROVE  CachesOK'
<1>1. CASE \E h \in Threads : Step(h)
  BY <1>1, StepCaches
<1>2. CASE Restart
  <2>1. turnEpisode' = << >> /\ begunTurns' = << >> /\ queue' = << >>
    BY <1>2 DEF Restart
  <2>2. << >> \in Seq(MarksOf') /\ Len(<< >>) = 0
    OBVIOUS
  <2> QED BY <2>1, <2>2, LimitsPositive DEF CachesOK
<1>3. CASE UNCHANGED <<turnEpisode, begunTurns, queue>>
  BY <1>3 DEF CachesOK, MarksOf
<1>4. UNCHANGED hostVars \/ UNCHANGED <<registry, work>> => UNCHANGED <<turnEpisode, begunTurns, queue>>
  BY DEF hostVars, registry, work
<1> QED BY <1>1, <1>2, <1>3, <1>4 DEF HostNext, Environment, Callback

-----------------------------------------------------------------------------
(* HandlesReleased: what the process keeps of a closed episode belongs to  *)
(* the thread that is about to drop it, and no callback can come upon it.  *)

Dropped(e) ==
  /\ locks[e] = 0
  /\ \A x \in Entries(turnEpisode) : x.ep # e
  /\ \A x \in Entries(begunTurns) : x.ep # e

Dropping(e) == \E h \in Threads : At(h) = "forget" /\ th[h].ep = e

\* The maintenance thread may have taken it from the queue, and passes it over.
Unused(e) == \A h \in Threads : th[h].ep = e => At(h) \in {"active", "pop"}

ReleasedOK ==
  \A e \in Episodes \ late : episodes[e].state = "finalized" => Dropping(e) \/ (Dropped(e) /\ Unused(e))

\* A thread keeps its episode, but for looking one up, or taking it from the queue.
Stays(h) == th'[h] = Resting \/ th'[h].ep = th[h].ep

LEMMA StepStays ==
  ASSUME ThreadsOK, NEW h \in Threads, Step(h)
  PROVE  Resolve(h) \/ Create(h) \/ TakeJob(h) \/ Stays(h)
<1>1. CASE Ordinary(h)
  BY <1>1 DEF Ordinary, Stays
<1>2. CASE Schedule(h)
  BY <1>2, ScheduleMoves DEF Quiet, Keeps, Stays
<1>3. CASE StartDrainer(h)
  BY <1>3, StartDrainerMoves, RuntimeAssumption DEF Falls, Keeps, Stays
<1>4. CASE FindLock(h) \/ Enter(h)
  BY <1>4, FindLockMoves, EnterMoves DEF Stays
<1>5. CASE Leave(h)
  BY <1>5, LeaveMoves DEF Quiet, Falls, Keeps, Stays
<1>6. CASE Archive(h)
  BY <1>6, ArchiveMoves DEF Quiet, Falls, Keeps, Stays
<1>7. CASE Lost(h)
  BY <1>7 DEF Lost, Keeps, Stays
<1> QED BY <1>1, <1>2, <1>3, <1>4, <1>5, <1>6, <1>7, StepOrdinary

\* The host does not find a closed episode.
LEMMA ClosedUnfound ==
  ASSUME KeysOK, NEW h \in Threads, AskedOK(h), Found(th[h].session) # {}, NEW e \in Episodes,
         episodes[e].state = "finalized"
  PROVE  Some(Found(th[h].session)) # e
<1>1. Some(Found(th[h].session)) \in Found(th[h].session)
  BY SomeMember
<1>2. th[h].session # None /\ th[h].session \in Sessions
  BY <1>1 DEF Found, AskedOK
<1>3. episodes[e].key # th[h].session
  BY <1>2, SessionsAssumption DEF KeysOK
<1> QED BY <1>1, <1>3 DEF Found

\* Of an episode that is closed and dropped, a step brings nothing back.
LEMMA DroppedStays ==
  ASSUME ThreadsOK, EpisodesOK, AllAskedOK, PlacesOK, LocksOK, CachesOK, NEW h \in Threads, Step(h),
         NEW e \in Episodes, episodes[e].state = "finalized", Dropped(e), Unused(e)
  PROVE  Dropped(e)' /\ Unused(e)'
<1>1. /\ turnEpisode \in Seq(RoutesTo) /\ begunTurns \in Seq(MarksOf)
      /\ AskedOK(h) /\ Placed(h) /\ KeysOK /\ LockTables /\ NamesOK
  BY DEF PlacesOK, NamesOK, AllPlaced, AllAskedOK, CachesOK, LocksOK
<1>2. e # 0
  BY BudgetAssumption
<1>3. ASSUME Stands(h, At(h)), At(h) \notin {"active", "pop"} PROVE th[h].ep # e
  BY <1>3 DEF Unused
<1>4. ASSUME NEW g \in Threads \ {h}, th'[g].ep = e PROVE At(g)' \in {"active", "pop"}
  <2>1. th'[g] = th[g] \/ th'[g] = Woken
    BY StepPasses DEF Passage, Others
  <2>2. th'[g] = th[g]
    BY <1>2, <1>4, <2>1, WokenOK
  <2> QED BY <1>4, <2>2 DEF Unused, At
<1>5. Unused(e)'
  <2> SUFFICES ASSUME th'[h].ep = e PROVE At(h)' \in {"active", "pop"}
    BY <1>4 DEF Unused
  <2>1. CASE Resolve(h)
    <3>1. CASE Quiet(h, "resolve", {"create"}) /\ th'[h] # Resting
      <4>1. th'[h].ep = th[h].ep /\ At(h) = "resolve"
        BY <3>1 DEF Quiet, Keeps, Stands
      <4>2. th[h].ep = 0
        BY <1>1, <4>1 DEF Placed
      <4> QED BY <1>2, <4>1, <4>2
    <3>2. CASE Found(th[h].session) # {} /\ Finds(h, "resolve", Some(Found(th[h].session)))
      <4>1. Some(Found(th[h].session)) # e
        BY <1>1, <3>2, ClosedUnfound
      <4> QED BY <3>2, <4>1 DEF Finds
    <3>3. CASE /\ Routed(th[h].marker) # {}
               /\ Finds(h, "resolve", turnEpisode[Some(Routed(th[h].marker))].ep)
      <4>1. turnEpisode[Some(Routed(th[h].marker))] \in Entries(turnEpisode)
        BY <1>1, <3>3, RouteMoves
      <4>2. turnEpisode[Some(Routed(th[h].marker))].ep # e
        BY <4>1 DEF Dropped
      <4> QED BY <3>3, <4>2 DEF Finds
    <3> QED BY <2>1, <3>1, <3>2, <3>3, ResolveMoves
  <2>2. CASE Create(h)
    <3>1. CASE Found(th[h].session) # {} /\ Finds(h, "create", Some(Found(th[h].session)))
      <4>1. Some(Found(th[h].session)) # e
        BY <1>1, <3>1, ClosedUnfound
      <4> QED BY <3>1, <4>1 DEF Finds
    <3>2. CASE Opens(h)
      <4>1. Some(Free) \in Free
        BY <3>2, OpensTable DEF PlacesOK
      <4>2. Some(Free) # e
        BY <4>1 DEF Free
      <4> QED BY <3>2, <4>2 DEF Opens, Finds
    <3>3. Opens(h) \/ (Found(th[h].session) # {} /\ Finds(h, "create", Some(Found(th[h].session))))
      BY <2>2, CreateMoves DEF Opens, Finds
    <3> QED BY <3>1, <3>2, <3>3
  <2>3. CASE TakeJob(h)
    <3>1. At(h)' = "active" \/ th'[h] = Resting
      BY <2>3, TakeJobMoves
    <3> QED BY <1>2, <3>1, RestAsked
  <2>4. CASE Stays(h)
    <3>1. th[h].ep = e
      BY <1>2, <2>4, RestAsked DEF Stays
    <3>2. At(h) \in {"active", "pop"}
      BY <3>1 DEF Unused
    <3>3. TakeJob(h) \/ CheckActive(h) \/ Fail(h)
      <4>1. th[h].script # << >> /\ Doing(h, At(h))
        BY <3>2 DEF At, Doing
      <4>2. Stands(h, At(h))
        BY <4>1, DoingStands
      <4>3. h = Drainer
        BY <3>2, <4>2, DrainerStep
      <4>4. \A x : Doing(h, x) => x \in {"active", "pop"}
        BY <3>2 DEF At, Doing
      <4>5. ~(Resolve(h) \/ Create(h) \/ Remember(h) \/ Mark(h) \/ Reload(h) \/ CountTurn(h) \/ AppendTurn(h)
               \/ FindLock(h) \/ Enter(h) \/ Leave(h) \/ Gate(h) \/ Finish(h))
        BY <4>4 DEF Resolve, Create, Remember, Mark, Reload, CountTurn, AppendTurn, FindLock, Enter, Leave,
           Gate, Finish
      <4>6. ~(Promote(h) \/ Schedule(h) \/ StartDrainer(h) \/ CallComponent(h) \/ UseAnswer(h) \/ Inject(h)
               \/ Archive(h) \/ Forget(h))
        BY <4>4 DEF Promote, Schedule, StartDrainer, CallComponent, UseAnswer, Inject, Archive, Forget
      <4>7. ~(CheckHealth(h) \/ LintResponse(h) \/ Entail(h) \/ Enforce(h) \/ Rewrite(h) \/ Relint(h)
               \/ RecordLint(h))
        <5>1. ~LintMove(h)
          BY <3>2 DEF LintMove, LintSteps
        <5> QED BY <5>1, CheckHealthMoves, LintResponseMoves, EntailMoves, EnforceMoves, RewriteMoves,
                RelintMoves, RecordLintMoves
      <4> QED BY <4>5, <4>6, <4>7 DEF Step
    <3>4. CASE CheckActive(h)
      <4>1. At(h)' \in {"component", "pop"} /\ (At(h)' = "component" => episodes[e].state = "active")
        BY <3>1, <3>4, CheckActiveMoves DEF Quiet
      <4> QED BY <4>1
    <3>5. CASE Fail(h)
      <4>1. At(h) = "active" /\ Stands(h, "active")
        BY <3>2, <3>5, FailMoves DEF Fallen, Falls, Stands, Lookups
      <4>2. h = Drainer
        BY <4>1, DrainerStep
      <4>3. At(h)' = "pop"
        BY <3>5, <4>2, FailMoves DEF Fallen, Falls, Landings
      <4> QED BY <4>3
    <3> QED BY <2>3, <3>3, <3>4, <3>5
  <2> QED BY <2>1, <2>2, <2>3, <2>4, StepStays
<1>6. \A x \in Entries(turnEpisode') : x.ep # e
  <2>1. CASE Resolve(h)
    <3>1. Entries(turnEpisode') \subseteq Entries(turnEpisode)
      BY <1>1, <2>1, ResolveMoves, RouteMoves
    <3> QED BY <3>1 DEF Dropped
  <2>2. CASE Remember(h)
    <3> DEFINE x == [marker |-> th[h].marker, ep |-> th[h].ep]
    <3>1. turnEpisode' = Remembered(Routes(th[h].marker), x, CacheLimit)
      BY <2>2 DEF Remember
    <3>2. Stands(h, "remember") /\ h # Drainer /\ At(h) = "remember"
      BY <2>2, RememberMoves DEF Quiet, Stands
    <3>3. th[h].ep \in Known /\ th[h].marker \in Markers /\ th[h].ep # e
      BY <1>1, <1>3, <3>2 DEF Placed, AskedOK, Stands
    <3>4. /\ x \in RoutesTo /\ Routes(th[h].marker) \in Seq(RoutesTo) /\ x.ep # e
          /\ Entries(Routes(th[h].marker)) \subseteq Entries(turnEpisode)
      BY <1>1, <3>3, OnlyType DEF RoutesTo, Routes
    <3> HIDE DEF x
    <3>5. Entries(turnEpisode') \subseteq Entries(turnEpisode) \cup {x}
      BY <3>1, <3>4, RememberedType
    <3> QED BY <3>4, <3>5 DEF Dropped
  <2>3. CASE Forget(h)
    <3>1. Entries(turnEpisode') \subseteq Entries(turnEpisode)
      BY <1>1, <2>3, OnlyType DEF Forget, RoutesOfOthers
    <3> QED BY <3>1 DEF Dropped
  <2> QED BY <2>1, <2>2, <2>3, CachesTouched DEF Dropped
<1>7. \A x \in Entries(begunTurns') : x.ep # e
  <2>1. CASE Mark(h)
    <3> DEFINE key == [ep |-> th[h].ep, marker |-> th[h].marker]
    <3>1. UNCHANGED begunTurns \/ begunTurns' = Remembered(begunTurns, key, CacheLimit)
      BY <2>1 DEF Mark
    <3>2. Stands(h, "mark") /\ h # Drainer /\ At(h) = "mark"
      BY <2>1, MarkMoves DEF Quiet, Stands
    <3>3. th[h].ep \in Known /\ th[h].marker \in Markers /\ th[h].ep # e
      BY <1>1, <1>3, <3>2 DEF Placed, AskedOK, Stands
    <3>4. key \in MarksOf /\ key.ep # e
      BY <3>3 DEF MarksOf, Known
    <3> HIDE DEF key
    <3>5. Entries(begunTurns') \subseteq Entries(begunTurns) \cup {key}
      BY <1>1, <3>1, <3>4, RememberedType
    <3> QED BY <3>4, <3>5 DEF Dropped
  <2>2. CASE Forget(h)
    <3>1. Entries(begunTurns') \subseteq Entries(begunTurns)
      BY <1>1, <2>2, OnlyType DEF Forget
    <3> QED BY <3>1 DEF Dropped
  <2> QED BY <2>1, <2>2, CachesTouched DEF Dropped
<1>8. locks'[e] = 0
  <2>0. DOMAIN locks = Episodes /\ locks[e] = 0
    BY <1>1 DEF LockTables, Dropped
  <2>1. CASE Create(h)
    <3>1. UNCHANGED locks \/ (Opens(h) /\ locks' = [locks EXCEPT ![Some(Free)] = NewLock])
      BY <2>1, CreateMoves DEF Opens, Finds
    <3>2. Opens(h) => Some(Free) # e
      BY OpensTable DEF PlacesOK, Free
    <3> QED BY <2>0, <3>1, <3>2
  <2>2. CASE FindLock(h)
    <3>1. Stands(h, "lock") /\ At(h) = "lock"
      BY <2>2, FindLockMoves DEF Quiet, Stands
    <3>2. th[h].ep # e
      BY <1>3, <3>1
    <3> QED BY <2>0, <2>2, <3>2 DEF FindLock
  <2>3. CASE Forget(h)
    BY <2>0, <2>3 DEF Forget
  <2> QED BY <2>0, <2>1, <2>2, <2>3, LocksTouched
<1> QED BY <1>5, <1>6, <1>7, <1>8 DEF Dropped

LEMMA StepReleased ==
  ASSUME ThreadsOK, EpisodesOK, AllAskedOK, DrainOK, PlacesOK, LocksOK, CachesOK, ReleasedOK,
         NEW h \in Threads, Step(h)
  PROVE  ReleasedOK'
<1> SUFFICES ASSUME NEW e \in Episodes, e \notin late', episodes'[e].state = "finalized"
             PROVE  Dropping(e)' \/ (Dropped(e)' /\ Unused(e)')
  BY DEF ReleasedOK
<1>1. CASE episodes[e].state # "finalized"
  <2>1. Closes(h) /\ th[h].ep = e
    <3>1. ~UNCHANGED episodes
      BY <1>1
    <3>2. CASE Opens(h)
      <4>1. /\ episodes'[Some(Free)].state = "active"
            /\ \A x \in Episodes \ {Some(Free)} : episodes'[x] = episodes[x]
        BY <3>2, OpensTable DEF PlacesOK
      <4> QED BY <1>1, <4>1
    <3>3. CASE Begins(h)
      <4>1. /\ \A x \in Episodes \ {th[h].ep} : episodes'[x] = episodes[x]
            /\ episodes'[th[h].ep].state = episodes[th[h].ep].state
        BY <3>3, BeginsTable DEF PlacesOK
      <4> QED BY <1>1, <4>1
    <3>4. CASE Closes(h)
      <4>1. \A x \in Episodes \ {th[h].ep} : episodes'[x] = episodes[x]
        BY <3>4, ClosesTable DEF PlacesOK
      <4> QED BY <1>1, <3>4, <4>1
    <3> QED BY <3>1, <3>2, <3>3, <3>4, StepEpisodes
  <2>2. At(h)' = "forget" /\ th'[h].ep = e
    BY <2>1 DEF Closes
  <2> QED BY <2>2 DEF Dropping
<1>2. CASE episodes[e].state = "finalized"
  <2>1. e \notin late
    <3>1. late \subseteq late'
      BY CachesTouched DEF Forget
    <3> QED BY <3>1
  <2>2. CASE Dropped(e) /\ Unused(e)
    BY <1>2, <2>2, DroppedStays
  <2>3. ASSUME NEW g \in Threads, At(g) = "forget", th[g].ep = e, g # h PROVE Dropping(e)'
    <3>1. th'[g] = th[g] \/ (g = Drainer /\ At(h) = "start")
      BY <2>3, StepPasses DEF Passage, Others
    <3>2. ~(g = Drainer /\ At(h) = "start")
      BY <2>3 DEF DrainOK, At
    <3>3. At(g)' = "forget" /\ th'[g].ep = e
      BY <2>3, <3>1, <3>2 DEF At
    <3> QED BY <3>3 DEF Dropping
  <2>4. CASE At(h) = "forget" /\ th[h].ep = e /\ ~ \E g \in Threads \ {h} : At(g) = "forget" /\ th[g].ep = e
    <3>1. Forget(h)
      <4>1. \A x : Doing(h, x) => x = "forget"
        BY <2>4 DEF At, Doing
      <4> QED BY <4>1 DEF Step, Resolve, Create, Remember, Mark, Reload, CountTurn, AppendTurn, FindLock, Enter,
            Leave, Gate, Finish, Promote, Schedule, StartDrainer, TakeJob, CheckActive, CallComponent, UseAnswer,
            Inject, CheckHealth, LintResponse, Entail, Enforce, Rewrite, Relint, RecordLint, Archive,
            Fail, Doing, Lookups
    <3>2. \A g \in Threads \ {h} : th[g].ep # e
      BY <2>4, <3>1 DEF Forget
    <3>3. th'[h] = Resting /\ Alone(h)
      BY <3>1, ForgetMoves DEF Quiet
    <3>4. Unused(e)'
      <4>1. e # 0
        BY BudgetAssumption
      <4> QED BY <3>2, <3>3, <4>1, RestAsked DEF Unused, Alone
    <3>5. turnEpisode \in Seq(RoutesTo) /\ begunTurns \in Seq(MarksOf) /\ DOMAIN locks = Episodes
      BY DEF PlacesOK, NamesOK, CachesOK, LocksOK, LockTables
    <3>6. locks'[e] = 0
      BY <2>4, <3>1, <3>5 DEF Forget
    <3>7. Entries(turnEpisode') = Entries(turnEpisode) \cap {x \in Entries(turnEpisode) : x.ep # e}
      BY <2>4, <3>1, <3>5, OnlyType DEF Forget, RoutesOfOthers
    <3>8. Entries(begunTurns') = Entries(begunTurns) \cap {x \in Entries(begunTurns) : x.ep # e}
      BY <2>4, <3>1, <3>5, OnlyType DEF Forget
    <3> QED BY <3>4, <3>6, <3>7, <3>8 DEF Dropped
  <2> QED BY <1>2, <2>1, <2>2, <2>3, <2>4 DEF ReleasedOK, Dropping
<1> QED BY <1>1, <1>2

LEMMA ReleasedKept ==
  ASSUME ThreadsOK, EpisodesOK, AllAskedOK, DrainOK, PlacesOK, LocksOK, CachesOK, ReleasedOK,
         [HostNext]_hostVars
  PROVE  ReleasedOK'
<1>1. CASE \E h \in Threads : Step(h)
  BY <1>1, StepReleased
<1>2. ASSUME NEW h \in Threads, NEW hook \in Hooks, NEW session \in Sessions \cup {None},
             NEW marker \in Markers, Callback(h, hook, session, marker)
      PROVE  ReleasedOK'
  <2>1. hook \in Callbacks
    BY RuntimeAssumption
  <2>2. /\ Alone(h) /\ th[h] = Resting /\ th'[h].ep = 0
    BY <1>2, <2>1, CallbackMoves
  <2>3. UNCHANGED <<episodes, locks, turnEpisode, begunTurns, late>>
    BY <1>2 DEF Callback, registry
  <2>4. \A e \in Episodes : Dropped(e) => Dropped(e)'
    BY <2>3 DEF Dropped
  <2>5. \A e \in Episodes : e # 0
    BY BudgetAssumption
  <2>6. \A g \in Threads : At(g) = "forget" => g # h
    BY <2>2, RestAsked DEF At
  <2>7. \A e \in Episodes : Dropping(e) => Dropping(e)'
    BY <2>2, <2>6 DEF Dropping, Alone, At
  <2>8. \A e \in Episodes : Unused(e) => Unused(e)'
    BY <2>2, <2>5 DEF Unused, Alone, At
  <2> QED BY <2>3, <2>4, <2>7, <2>8 DEF ReleasedOK
<1>3. CASE Restart
  <2>1. /\ \A h \in Threads : th'[h] = Resting
        /\ locks' = [e \in Episodes |-> 0] /\ turnEpisode' = << >> /\ begunTurns' = << >>
    BY <1>3, RestartMoves DEF Restart
  <2>2. \A e \in Episodes : e # 0
    BY BudgetAssumption
  <2>3. \A e \in Episodes : Dropped(e)' /\ Unused(e)'
    BY <2>1, <2>2, EntriesNothing, RestAsked DEF Dropped, Unused
  <2> QED BY <2>3 DEF ReleasedOK
<1>4. CASE UNCHANGED <<th, episodes, locks, turnEpisode, begunTurns, late>>
  BY <1>4 DEF ReleasedOK, Dropping, Dropped, Unused, At
<1>5. /\ UNCHANGED hostVars => UNCHANGED <<th, episodes, locks, turnEpisode, begunTurns, late>>
      /\ UNCHANGED registry => UNCHANGED <<locks, turnEpisode, begunTurns>>
  BY DEF hostVars, registry
<1> QED BY <1>1, <1>2, <1>3, <1>4, <1>5 DEF HostNext, Environment

LEMMA ReleasedBegins == ASSUME HostInit PROVE CachesOK /\ ReleasedOK
<1>1. CachesOK
  BY EmptyCaches DEF HostInit
<1>2. \A e \in Episodes : episodes[e].state = "absent"
  BY AbsentOK DEF HostInit
<1> QED BY <1>1, <1>2 DEF ReleasedOK

\* finalize: of a closed episode that no callback was using, the process keeps
\* neither lock, nor route, nor turn.
THEOREM ClosedIsReleased == HostSpec => [](HandlesReleased /\ CachesOK)
<1>1. HostInit => LocksOK
  BY RestLocks DEF HostInit
<1>2. CachesOK /\ ReleasedOK /\ PlacesOK => HandlesReleased
  <2> SUFFICES ASSUME ReleasedOK, CachesOK, PlacesOK, NEW e \in Episodes, e \notin late,
                      episodes[e].state = "finalized", \A h \in Threads : th[h].ep # e
               PROVE  /\ locks[e] = 0
                      /\ \A i \in DOMAIN turnEpisode : turnEpisode[i].ep # e
                      /\ \A i \in DOMAIN begunTurns : begunTurns[i].ep # e
    BY DEF HandlesReleased
  <2>1. Dropped(e)
    BY DEF ReleasedOK, Dropping
  <2> QED BY <2>1 DEF Dropped, Entries
<1> QED BY <1>1, <1>2, ReleasedBegins, ReleasedKept, CachesKept, LocksKept, ScriptsFollow, TurnsStartOnce,
           OneMaintenanceThread, WorkIsPlaced, PTL DEF HostSpec

-----------------------------------------------------------------------------
(* HostTypeOK: what health and its history hold, and how far the turns of  *)
(* an episode count.                                                       *)

ConditionOK ==
  /\ health \in {"healthy", "degraded"} /\ reasons \subseteq {"component", "config", "path"}
  /\ notInjected \subseteq Episodes /\ late \subseteq Episodes

LEMMA ConditionsType ==
  ASSUME ConditionOK, Conditions
  PROVE  health' \in {"healthy", "degraded"} /\ reasons' \subseteq {"component", "config", "path"}
<1>1. CASE MarkGlobalFailure
  BY <1>1 DEF MarkGlobalFailure, ConditionOK
<1>2. CASE MarkConfigurationDegraded
  BY <1>2 DEF MarkConfigurationDegraded, ConditionOK
<1>3. CASE ClearConfigurationDegradation
  BY <1>3 DEF ClearConfigurationDegradation, StillDegraded, ConditionOK
<1> QED BY <1>1, <1>2, <1>3 DEF Conditions, ConditionOK

\* Who touches the injection failures.
LEMMA InjectionsTouched ==
  ASSUME ThreadsOK, NEW h \in Threads, Step(h)
  PROVE  \/ notInjected' \subseteq notInjected
         \/ notInjected' \subseteq notInjected \cup ({th[h].ep} \ {0}) /\ At(h) \notin {"rest", "pop"}
<1>0. Drainer \in Threads
  BY RuntimeAssumption
<1>1. ASSUME NEW x, Doing(h, x), Handle(h), x \notin {"rest", "pop"}
      PROVE  notInjected' \subseteq notInjected \cup ({th[h].ep} \ {0}) /\ At(h) \notin {"rest", "pop"}
  <2>1. th[h].hook \in HooksOf(h) /\ At(h) = x
    BY <1>1, DoingStands DEF Stands
  <2> QED BY <1>1, <2>1 DEF Handle, HooksOf, Callbacks, condition
<1>2. CASE AppendTurn(h)
  <2>1. Doing(h, "append") /\ (UNCHANGED condition \/ Handle(h))
    BY <1>2 DEF AppendTurn, Raise
  <2> QED BY <1>1, <2>1 DEF condition
<1>3. CASE Leave(h)
  <2>1. Doing(h, "leave") /\ (UNCHANGED condition \/ Handle(h))
    BY <1>3 DEF Leave, Raise
  <2> QED BY <1>1, <2>1 DEF condition
<1>4. CASE StartDrainer(h)
  <2>1. Doing(h, "start") /\ (UNCHANGED condition \/ Handle(h))
    BY <1>4 DEF StartDrainer
  <2> QED BY <1>1, <2>1 DEF condition
<1>5. CASE UseAnswer(h)
  <2>1. Doing(h, "component") /\ (UNCHANGED condition \/ Handle(h))
    BY <1>5 DEF UseAnswer
  <2> QED BY <1>1, <2>1 DEF condition
<1>6. CASE Inject(h)
  <2>1. Doing(h, "inject") /\ (ClearInjectionFailure(th[h].ep) \/ Handle(h))
    BY <1>6 DEF Inject, Raise
  <2> QED BY <1>1, <2>1 DEF ClearInjectionFailure
<1>7. CASE RecordLint(h)
  <2>1. Doing(h, "record") /\ (UNCHANGED condition \/ Handle(h))
    BY <1>7 DEF RecordLint, Raise
  <2> QED BY <1>1, <2>1 DEF condition
<1>8. CASE Archive(h)
  <2>1. Doing(h, "archive") /\ (UNCHANGED condition \/ Handle(h))
    BY <1>8 DEF Archive, Raise
  <2> QED BY <1>1, <2>1 DEF condition
<1>9. CASE Forget(h)
  BY <1>9 DEF Forget
<1>10. CASE \/ Resolve(h) \/ Create(h) \/ Remember(h) \/ Mark(h) \/ Reload(h) \/ CountTurn(h) \/ FindLock(h)
            \/ Enter(h) \/ Gate(h) \/ Finish(h) \/ Promote(h) \/ Schedule(h)
  BY <1>10 DEF Resolve, Create, Remember, Mark, Reload, CountTurn, FindLock, Enter, Gate, Finish, Promote,
     Schedule, condition
<1>11. CASE \/ TakeJob(h) \/ CheckActive(h) \/ CallComponent(h) \/ CheckHealth(h) \/ LintResponse(h)
            \/ Entail(h) \/ Enforce(h) \/ Rewrite(h) \/ Relint(h)
  BY <1>11 DEF TakeJob, CheckActive, CallComponent, CheckHealth, LintResponse, Entail, Enforce,
     Rewrite, Relint, condition
<1>12. CASE Fail(h)
  <2>1. PICK x \in Lookups : Doing(h, x) /\ Handle(h)
    BY <1>12 DEF Fail, Raise, Doing
  <2> QED BY <1>1, <2>1 DEF Lookups
<1> QED
  BY <1>2, <1>3, <1>4, <1>5, <1>6, <1>7, <1>8, <1>9, <1>10, <1>11, <1>12 DEF Step

LEMMA StepCondition ==
  ASSUME ThreadsOK, PlacesOK, ConditionOK, NEW h \in Threads, Step(h)
  PROVE  ConditionOK'
<1>1. health' \in {"healthy", "degraded"} /\ reasons' \subseteq {"component", "config", "path"}
  BY StepConditions, ConditionsType
<1>2. /\ At(h) \notin {"rest", "pop"} => th[h].ep \in Episodes \cup {0}
      /\ At(h) = "forget" => th[h].ep \in Episodes
  BY DEF PlacesOK, AllPlaced, Placed, Known
<1>3. notInjected' \subseteq Episodes
  BY <1>2, InjectionsTouched DEF ConditionOK
<1>4. late' \subseteq Episodes
  <2>1. CASE Forget(h)
    <3>1. At(h) = "forget"
      BY <2>1, ForgetMoves DEF Quiet, Stands
    <3>2. late' \subseteq late \cup {th[h].ep}
      BY <2>1 DEF Forget
    <3> QED BY <1>2, <3>1, <3>2 DEF ConditionOK
  <2> QED BY <2>1, CachesTouched DEF ConditionOK
<1> QED BY <1>1, <1>3, <1>4 DEF ConditionOK

LEMMA ConditionKept ==
  ASSUME ThreadsOK, PlacesOK, ConditionOK, [HostNext]_hostVars
  PROVE  ConditionOK'
<1>1. CASE \E h \in Threads : Step(h)
  BY <1>1, StepCondition
<1>2. CASE Restart
  BY <1>2 DEF Restart, ConditionOK
<1>3. CASE UNCHANGED <<health, reasons, notInjected, late>>
  BY <1>3 DEF ConditionOK
<1>4. UNCHANGED hostVars \/ UNCHANGED <<condition, late>> \/ UNCHANGED <<condition, world>>
        => UNCHANGED <<health, reasons, notInjected, late>>
  BY DEF hostVars, condition, world
<1> QED BY <1>1, <1>2, <1>3, <1>4 DEF HostNext, Environment, Callback

\* A turn's number is read before it is stored, but no turn is lost: the number never
\* runs ahead of the turns that the ledger has begun.
CountsOK ==
  /\ \A e \in Episodes : episodes[e].turn \in Nat /\ episodes[e].turn <= Len(episodes[e].begun)
  /\ \A h \in Threads : At(h) = "append" =>
       th[h].num \in Nat /\ th[h].num <= Len(episodes[th[h].ep].begun) + 1

\* Only the step that reads the number comes before the one that stores it.
LEMMA OnlyCounted ==
  ASSUME ThreadsOK, NEW h \in Threads, Step(h), At(h)' = "append"
  PROVE  CountTurn(h)
<1>1. CASE \/ Resolve(h) \/ Create(h) \/ Remember(h) \/ Mark(h) \/ Reload(h)
  BY <1>1, ResolveMoves, CreateMoves, RememberMoves, MarkMoves, ReloadMoves DEF Quiet, Finds
<1>2. CASE AppendTurn(h)
  BY <1>2, AppendTurnMoves DEF Quiet, Falls, Landings
<1>3. CASE FindLock(h) \/ Enter(h)
  BY <1>3, FindLockMoves, EnterMoves DEF Quiet
<1>4. CASE Leave(h)
  BY <1>4, LeaveMoves DEF Quiet, Falls, Landings
<1>5. CASE Gate(h) \/ Finish(h) \/ Promote(h)
  BY <1>5, GateMoves, FinishMoves, PromoteMoves DEF Quiet
<1>6. CASE Schedule(h)
  BY <1>6, ScheduleMoves DEF Quiet
<1>7. CASE StartDrainer(h)
  BY <1>7, StartDrainerMoves, RuntimeAssumption DEF Falls, Landings
<1>8. CASE TakeJob(h) \/ CheckActive(h)
  BY <1>8, TakeJobMoves, CheckActiveMoves DEF Quiet
<1>9. CASE CallComponent(h)
  <2>1. Doing(h, "component") /\ UNCHANGED th
    BY <1>9 DEF CallComponent
  <2>2. At(h)' = "component"
    BY <2>1 DEF At, Doing
  <2> QED BY <2>2
<1>10. CASE UseAnswer(h)
  BY <1>10, UseAnswerMoves DEF Quiet, Falls, Landings
<1>11. CASE Inject(h)
  BY <1>11, InjectMoves DEF Quiet, Falls, Landings
<1>12. CASE \/ CheckHealth(h) \/ LintResponse(h) \/ Entail(h) \/ Enforce(h) \/ Rewrite(h) \/ Relint(h)
            \/ RecordLint(h)
  BY <1>12, CheckHealthMoves, LintResponseMoves, EntailMoves, EnforceMoves, RewriteMoves, RelintMoves,
     RecordLintMoves DEF LintMove, LintSteps
<1>13. CASE Archive(h)
  BY <1>13, ArchiveMoves DEF Quiet, Falls, Landings
<1>14. CASE Forget(h)
  BY <1>14, ForgetMoves DEF Quiet
<1>15. CASE Fail(h)
  BY <1>15, FailMoves DEF Fallen, Falls, Landings
<1> QED
  BY <1>1, <1>2, <1>3, <1>4, <1>5, <1>6, <1>7, <1>8, <1>9, <1>10, <1>11, <1>12, <1>13, <1>14, <1>15 DEF Step

\* An entry more makes a list longer by one.
LEMMA OneMore ==
  ASSUME NEW T, NEW s \in Seq(T), NEW x \in T
  PROVE  Len(s) \in Nat /\ Len(Append(s, x)) = Len(s) + 1
OBVIOUS

\* The turns that an episode has begun never become fewer.
LEMMA BegunGrows ==
  ASSUME ThreadsOK, EpisodesOK, AllAskedOK, PlacesOK, NEW h \in Threads, Step(h), NEW e \in Known
  PROVE  Len(episodes[e].begun) \in Nat /\ Len(episodes'[e].begun) \in Nat
         /\ Len(episodes'[e].begun) >= Len(episodes[e].begun)
<1>1. e \in Episodes /\ episodes[e].begun \in Seq(Markers)
  BY DEF EpisodesOK, RowOK, Known
<1>2. Len(episodes[e].begun) \in Nat
  BY <1>1
<1>3. CASE episodes'[e].begun = episodes[e].begun
  BY <1>2, <1>3
<1>4. CASE Opens(h)
  <2>1. Some(Free) \in Free /\ \A x \in Episodes \ {Some(Free)} : episodes'[x] = episodes[x]
    BY <1>4, OpensTable DEF PlacesOK
  <2>2. e # Some(Free)
    BY <2>1 DEF Free, Known
  <2> QED BY <1>1, <1>3, <2>1, <2>2
<1>5. CASE Begins(h)
  <2>1. /\ \A x \in Episodes \ {th[h].ep} : episodes'[x] = episodes[x]
        /\ episodes'[th[h].ep].begun = Append(episodes[th[h].ep].begun, th[h].marker)
    BY <1>5, BeginsTable DEF PlacesOK
  <2>2. CASE e = th[h].ep
    <3>1. th[h].marker \in Markers
      BY <1>5 DEF Begins, Stands, AllAskedOK, AskedOK
    <3>2. Len(episodes'[e].begun) = Len(episodes[e].begun) + 1
      BY <1>1, <2>1, <2>2, <3>1, OneMore
    <3> QED BY <1>2, <3>2
  <2> QED BY <1>1, <1>3, <2>1, <2>2
<1>6. CASE Closes(h)
  <2>1. /\ \A x \in Episodes \ {th[h].ep} : episodes'[x] = episodes[x]
        /\ episodes'[th[h].ep].begun = episodes[th[h].ep].begun
    BY <1>6, ClosesTable DEF PlacesOK
  <2> QED BY <1>1, <1>3, <2>1
<1> QED BY <1>3, <1>4, <1>5, <1>6, StepEpisodes

LEMMA StepCounts ==
  ASSUME ThreadsOK, EpisodesOK, AllAskedOK, PlacesOK, CountsOK, NEW h \in Threads, Step(h)
  PROVE  CountsOK'
<1>1. ASSUME NEW e \in Episodes PROVE episodes'[e].turn \in Nat /\ episodes'[e].turn <= Len(episodes'[e].begun)
  <2>1. CASE episodes'[e].begun = episodes[e].begun /\ episodes'[e].turn = episodes[e].turn
    BY <2>1 DEF CountsOK
  <2>2. CASE Opens(h)
    <3>1. /\ \A x \in Episodes \ {Some(Free)} : episodes'[x] = episodes[x]
          /\ episodes'[Some(Free)].begun = << >> /\ episodes'[Some(Free)].turn = 0
      BY <2>2, OpensTable DEF PlacesOK
    <3>2. CASE e = Some(Free)
      BY <3>1, <3>2
    <3> QED BY <2>1, <3>1, <3>2
  <2>3. CASE Begins(h)
    <3>1. /\ th[h].ep \in Known /\ \A x \in Episodes \ {th[h].ep} : episodes'[x] = episodes[x]
          /\ episodes'[th[h].ep].turn = th[h].num
          /\ episodes'[th[h].ep].begun = Append(episodes[th[h].ep].begun, th[h].marker)
      BY <2>3, BeginsTable DEF PlacesOK
    <3>2. CASE e = th[h].ep
      <4>1. th[h].marker \in Markers /\ At(h) = "append"
        BY <2>3 DEF Begins, Stands, AllAskedOK, AskedOK
      <4>2. episodes[e].begun \in Seq(Markers)
        BY DEF EpisodesOK, RowOK
      <4>5. Len(Append(episodes[e].begun, th[h].marker)) = Len(episodes[e].begun) + 1
        BY <4>1, <4>2, OneMore
      <4>6. episodes'[e].begun = Append(episodes[e].begun, th[h].marker)
        BY <3>1, <3>2
      <4>3. Len(episodes'[e].begun) = Len(episodes[e].begun) + 1
        BY <4>5, <4>6
      <4>4. th[h].num \in Nat /\ th[h].num <= Len(episodes[e].begun) + 1
        BY <3>2, <4>1 DEF CountsOK
      <4> QED BY <3>1, <3>2, <4>3, <4>4
    <3> QED BY <2>1, <3>1, <3>2
  <2>4. CASE Closes(h)
    <3>1. /\ \A x \in Episodes \ {th[h].ep} : episodes'[x] = episodes[x]
          /\ episodes'[th[h].ep].begun = episodes[th[h].ep].begun
          /\ episodes'[th[h].ep].turn = episodes[th[h].ep].turn
      BY <2>4, ClosesTable DEF PlacesOK
    <3> QED BY <2>1, <3>1
  <2> QED BY <2>1, <2>2, <2>3, <2>4, StepEpisodes
<1>2. ASSUME NEW g \in Threads \ {h}, At(g)' = "append"
      PROVE  th'[g].num \in Nat /\ th'[g].num <= Len(episodes'[th'[g].ep].begun) + 1
  <2>1. th'[g] = th[g] \/ th'[g] = Woken
    BY StepPasses DEF Passage, Others
  <2>2. th'[g] = th[g]
    BY <1>2, <2>1, WokenOK DEF At
  <2>3. At(g) = "append"
    BY <1>2, <2>2 DEF At
  <2>4. th[g].ep \in Known
    BY <2>3 DEF PlacesOK, AllPlaced, Placed
  <2>5. th[g].num \in Nat /\ th[g].num <= Len(episodes[th[g].ep].begun) + 1
    BY <2>3 DEF CountsOK
  <2>6. /\ Len(episodes[th[g].ep].begun) \in Nat /\ Len(episodes'[th[g].ep].begun) \in Nat
        /\ Len(episodes'[th[g].ep].begun) >= Len(episodes[th[g].ep].begun)
    BY <2>4, BegunGrows
  <2> DEFINE new == Len(episodes'[th[g].ep].begun)
             old == Len(episodes[th[g].ep].begun)
  <2>7. /\ old \in Nat /\ new \in Nat /\ new >= old
        /\ th[g].num \in Nat /\ th[g].num <= old + 1
    BY <2>5, <2>6
  <2> HIDE DEF new, old
  <2>8. th[g].num <= new + 1
    BY <2>7
  <2> QED BY <2>2, <2>7, <2>8 DEF new
<1>3. ASSUME At(h)' = "append"
      PROVE  th'[h].num \in Nat /\ th'[h].num <= Len(episodes'[th'[h].ep].begun) + 1
  <2>1. CountTurn(h)
    BY <1>3, OnlyCounted
  <2>2. /\ Stands(h, "count") /\ th'[h].ep = th[h].ep /\ th'[h].num = episodes[th[h].ep].turn + 1
    BY <2>1, CountTurnMoves
  <2>3. UNCHANGED episodes
    BY <2>1 DEF CountTurn
  <2>4. th[h].ep \in Known
    BY <2>2 DEF Stands, PlacesOK, AllPlaced, Placed
  <2>5. /\ episodes[th[h].ep].turn \in Nat /\ episodes[th[h].ep].turn <= Len(episodes[th[h].ep].begun)
        /\ Len(episodes[th[h].ep].begun) \in Nat
    BY <2>4, BegunGrows DEF CountsOK, Known
  <2> QED BY <2>2, <2>3, <2>5
<1> QED BY <1>1, <1>2, <1>3 DEF CountsOK

LEMMA CountsKept ==
  ASSUME ThreadsOK, EpisodesOK, AllAskedOK, PlacesOK, CountsOK, [HostNext]_hostVars
  PROVE  CountsOK'
<1>1. CASE \E h \in Threads : Step(h)
  BY <1>1, StepCounts
<1>2. ASSUME NEW h \in Threads, NEW hook \in Hooks, NEW session \in Sessions \cup {None},
             NEW marker \in Markers, Callback(h, hook, session, marker)
      PROVE  CountsOK'
  <2>1. hook \in Callbacks
    BY RuntimeAssumption
  <2>2. Alone(h) /\ At(h)' = "resolve" /\ UNCHANGED episodes
    BY <1>2, <2>1, CallbackMoves DEF Callback
  <2> QED BY <2>2 DEF CountsOK, Alone, At
<1>3. CASE Restart
  <2>1. (\A h \in Threads : At(h)' = "rest") /\ UNCHANGED episodes
    BY <1>3, RestartMoves DEF Restart
  <2> QED BY <2>1 DEF CountsOK
<1>4. CASE UNCHANGED <<th, episodes>>
  BY <1>4 DEF CountsOK, At
<1>5. UNCHANGED hostVars => UNCHANGED <<th, episodes>>
  BY DEF hostVars
<1> QED BY <1>1, <1>2, <1>3, <1>4, <1>5 DEF HostNext, Environment

LEMMA CountsBegin == ASSUME HostInit PROVE CountsOK
<1>1. (\A h \in Threads : th[h] = Resting) /\ \A e \in Episodes : episodes[e] = Absent
  BY DEF HostInit
<1>2. \A h \in Threads : At(h) = "rest"
  BY <1>1, RestAsked DEF At
<1>3. \A e \in Episodes : episodes[e].turn = 0 /\ episodes[e].begun = << >>
  BY <1>1, AbsentOK
<1> QED BY <1>2, <1>3 DEF CountsOK

\* A list without repetition is no longer than the set it is from.
LEMMA DistinctFits ==
  ASSUME NEW T, IsFiniteSet(T), NEW s \in Seq(T), Distinct(s)
  PROVE  Len(s) \in Nat /\ Len(s) <= Cardinality(T)
<1> DEFINE D == 1..Len(s)
           f == [i \in D |-> s[i]]
<1>1. Len(s) \in Nat /\ DOMAIN s = D
  OBVIOUS
<1>2. f \in [D -> T] /\ \A i, j \in D : f[i] = f[j] => i = j
  BY <1>1 DEF Distinct
<1> HIDE DEF f
<1>3. f \in Injection(D, T)
  BY <1>2 DEF Injection, IsInjective
<1>4. Cardinality(D) <= Cardinality(T)
  BY <1>3, FS_Injection
<1>5. Cardinality(D) = Len(s)
  BY <1>1, FS_Interval
<1> QED BY <1>1, <1>4, <1>5

\* The type of the host process: no cache outgrows its limit, no turn its episode, and
\* the process is healthy exactly while nothing is held against it.
THEOREM HostTypes == HostSpec => []HostTypeOK
<1>1. HostInit => LocksOK
  BY RestLocks DEF HostInit
<1>2. HostInit => ConditionOK
  BY DEF HostInit, ConditionOK
<1>3. ASSUME EpisodesOK, DrainOK, PlacesOK, LocksOK, CachesOK, HealthOK, ConditionOK, CountsOK
      PROVE  HostTypeOK
  <2>1. ASSUME NEW e \in Episodes
        PROVE  /\ episodes[e].state \in {"absent", "active", "finalized"}
               /\ episodes[e].turn \in Turns /\ Entries(episodes[e].begun) \subseteq Markers
               /\ locks[e] \in LockIds \cup {0}
    <3>1. /\ episodes[e].state \in {"absent", "active", "finalized"} /\ episodes[e].begun \in Seq(Markers)
          /\ Distinct(episodes[e].begun)
      BY <1>3 DEF EpisodesOK, RowOK
    <3>2. Len(episodes[e].begun) \in Nat /\ Len(episodes[e].begun) <= Cardinality(Markers)
      BY <3>1, RuntimeAssumption, DistinctFits
    <3>3. Cardinality(Markers) \in Nat /\ Cardinality(Markers) <= MaxTurn /\ MaxTurn \in Nat
      BY RuntimeAssumption, BudgetAssumption, FS_CardinalityType
    <3>4. episodes[e].turn \in Nat /\ episodes[e].turn <= Len(episodes[e].begun)
      BY <1>3 DEF CountsOK
    <3>5. episodes[e].turn \in Turns
      BY <3>2, <3>3, <3>4 DEF Turns
    <3>6. Entries(episodes[e].begun) \subseteq Markers
      BY <3>1 DEF Entries
    <3>7. locks[e] \in LockIds \cup {0}
      BY <1>3 DEF LocksOK, LockTables
    <3> QED BY <3>1, <3>5, <3>6, <3>7
  <2>2. \A l \in LockIds : holder[l] \in Threads \cup {None}
    BY <1>3 DEF LocksOK, LockTables
  <2>3. Entries(queue) \subseteq Episodes /\ draining \in BOOLEAN
    BY <1>3 DEF PlacesOK, NamesOK, Known, Entries, DrainOK
  <2> QED BY <1>3, <2>1, <2>2, <2>3 DEF HostTypeOK, CachesOK, ConditionOK, HealthOK
<1> QED BY <1>1, <1>2, <1>3, ReleasedBegins, CachesKept, LocksKept, CountsBegin, CountsKept, ConditionKept,
           FailuresClose, ScriptsFollow, TurnsStartOnce, OneMaintenanceThread, WorkIsPlaced, PTL DEF HostSpec

-----------------------------------------------------------------------------
(* The lint of a response.  From the first lint to the delivery, every     *)
(* claim of the text at hand that is not open cites a belief that was seen *)
(* to stand; a text that was marked is the exception, until it passes a    *)
(* lint of its own.                                                        *)

Backed(k, seen) ==
  \E b \in ClauseAttr[k].cites :
    <<b, "in">> \in seen \/ (ClauseAttr[k].marked /\ <<b, "pending">> \in seen)

Covered(k) == \A i \in Claims(k.text, TRUE) \ k.open : Backed(k.text[i].clause, k.seen)

\* The component is asked, or about to be, whether citations entail the open claims.
LooksAgain(s) ==
  /\ s # << >>
  /\ Head(s) = "entail" \/ (Head(s) = "component" /\ Tail(s) # << >> /\ Head(Tail(s)) = "entail")

\* What the papers of a thread are good for, by where it stands.
PapersOK(k, at) ==
  /\ k.text \in Seq(Sentences)
  /\ at \notin {"relint", "answer"} \/ k.answer = "deliver" => Covered(k)
  /\ at = "relint" => k.open = {}
  /\ (at = "record" \/ k.answer = "deliver") /\ ~k.annotated => k.open = {}
  /\ k.answer = "deliver" => at = "answer"
  /\ LooksAgain(k.script) => k.snap \in Statuses /\ Seen(k.snap) \subseteq k.seen

AllPapersOK == \A h \in Threads : PapersOK(th[h], At(h))

\* A claim that is grounded, or may be entailed, is backed by what was seen.
LEMMA StandingBacks ==
  ASSUME NEW k \in Clauses, NEW status \in Statuses, NEW seen, Seen(status) \subseteq seen,
         NEW b \in Standing(k, status)
  PROVE  Backed(k, seen)
<1>1. b \in ClauseAttr[k].cites /\ b \in Cited
  BY TextsAssumption DEF Standing
<1>2. <<b, status[b]>> \in seen
  BY <1>1 DEF Seen
<1> QED BY <1>1, <1>2 DEF Standing, Backed

LEMMA ClaimsTyped ==
  ASSUME NEW text \in Seq(Sentences), NEW i \in Claims(text, TRUE)
  PROVE  text[i].clause \in Clauses
<1>1. i \in DOMAIN text
  BY DEF Claims
<1>2. text[i] \in Sentences
  BY <1>1
<1> QED BY <1>2 DEF Sentences

LEMMA GroundedBacked ==
  ASSUME NEW text \in Seq(Sentences), NEW status \in Statuses, NEW seen, Seen(status) \subseteq seen,
         NEW i \in Claims(text, TRUE) \ Unsupported(text, status, TRUE)
  PROVE  Backed(text[i].clause, seen)
<1>1. Grounded(text[i].clause, status)
  BY DEF Unsupported
<1>2. text[i].clause \in Clauses
  BY ClaimsTyped
<1> QED BY <1>1, <1>2, StandingBacks DEF Grounded

LEMMA EntailableBacked ==
  ASSUME NEW text \in Seq(Sentences), NEW status \in Statuses, NEW seen, Seen(status) \subseteq seen,
         NEW i \in Entailable(text, status, TRUE)
  PROVE  Backed(text[i].clause, seen)
<1>1. i \in Claims(text, TRUE) /\ Standing(text[i].clause, status) # {}
  BY DEF Entailable, Candidates, Unsupported
<1>2. text[i].clause \in Clauses
  BY <1>1, ClaimsTyped
<1> QED BY <1>1, <1>2, StandingBacks

LEMMA ListsTyped ==
  ASSUME NEW S, NEW T, NEW s \in Seq(S), NEW f, DOMAIN f = DOMAIN s, \A i \in DOMAIN s : f[i] \in T,
         f = [i \in DOMAIN s |-> f[i]]
  PROVE  f \in Seq(T)
<1>1. DOMAIN s = 1..Len(s) /\ Len(s) \in Nat
  OBVIOUS
<1>2. f \in [1..Len(s) -> T]
  BY <1>1
<1> QED BY <1>1, <1>2

LEMMA PlainTyped == ASSUME NEW text \in Texts PROVE Plain(text) \in Seq(Sentences)
<1> DEFINE f == Plain(text)
<1>1. text \in Seq(Clauses)
  BY TextsAssumption
<1>2. \A i \in DOMAIN text : text[i] \in Clauses
  BY <1>1
<1>3. DOMAIN f = DOMAIN text /\ (\A i \in DOMAIN text : f[i] \in Sentences) /\ f = [i \in DOMAIN text |-> f[i]]
  BY <1>2 DEF Plain, Sentences
<1> HIDE DEF f
<1>4. f \in Seq(Sentences)
  BY <1>1, <1>3, ListsTyped
<1> QED BY <1>4 DEF f

LEMMA MarkedTyped ==
  ASSUME NEW text \in Seq(Sentences), NEW open
  PROVE  MarkUnsupported(text, open) \in Seq(Sentences)
<1> DEFINE f == MarkUnsupported(text, open)
<1>1. \A x \in Sentences : [x EXCEPT !.hedged = TRUE] \in Sentences
  BY DEF Sentences
<1>2. \A i \in DOMAIN text : text[i] \in Sentences
  OBVIOUS
<1>3. DOMAIN f = DOMAIN text /\ (\A i \in DOMAIN text : f[i] \in Sentences) /\ f = [i \in DOMAIN text |-> f[i]]
  BY <1>1, <1>2 DEF MarkUnsupported
<1> HIDE DEF f
<1>4. f \in Seq(Sentences)
  BY <1>3, ListsTyped
<1> QED BY <1>4 DEF f

\* What a step outside the lint leaves of a thread's papers.
SamePapers(k, old) ==
  /\ k.text = old.text /\ k.open = old.open /\ k.seen = old.seen /\ k.snap = old.snap
  /\ k.annotated = old.annotated

Papers(h) == th'[h] = Resting \/ SamePapers(th'[h], th[h])

LEMMA BecomePapers ==
  ASSUME ThreadsOK, NEW h \in Threads, NEW r, Become(h, r), SamePapers(r, th[h])
  PROVE  Papers(h)
<1>1. th'[h] = IF r.script = << >> THEN Resting ELSE r
  BY DEF Become, ThreadsOK
<1> QED BY <1>1 DEF Papers

LEMMA GoPapers ==
  ASSUME ThreadsOK, NEW h \in Threads, NEW x, Stands(h, x), NEW s,
         Go(h, s) \/ Quit(h, s) \/ \E a : Answer(h, a)
  PROVE  Papers(h)
<1>1. DOMAIN th[h] = Fields
  BY DEF Stands
<1>2. CASE Go(h, s)
  BY <1>1, <1>2, BecomePapers DEF Go, SamePapers, Fields
<1>3. CASE Quit(h, s)
  BY <1>1, <1>3, BecomePapers DEF Quit, SamePapers, Fields
<1>4. ASSUME NEW a, Answer(h, a) PROVE Papers(h)
  BY <1>1, <1>4, BecomePapers DEF Answer, SamePapers, Fields
<1> QED BY <1>2, <1>3, <1>4

LEMMA HandlePapers ==
  ASSUME ThreadsOK, NEW h \in Threads, NEW x, Stands(h, x), Handle(h)
  PROVE  Papers(h)
<1>1. th[h].hook \in Callbacks \cup {"maintenance"}
  BY DEF Stands, HooksOf
<1>2. Quit(h, << >>) \/ Quit(h, NextJob) \/ Answer(h, "block")
  BY <1>1 DEF Handle, Callbacks
<1> QED BY <1>2, GoPapers
\* A step outside the lint delivers nothing and does not lead into its end.
Outside(h) ==
  /\ Papers(h) /\ At(h) \notin LintSteps
  /\ th'[h] = Resting \/ (At(h) # "answer" /\ th'[h].answer \in {th[h].answer, "block", "allow"})
  /\ At(h)' \notin {"record", "relint"}
  /\ LooksAgain(th'[h].script) => LooksAgain(th[h].script)

LEMMA QuietOutside ==
  ASSUME NEW h \in Threads, NEW x, x \notin LintSteps, NEW ys, Quiet(h, x, ys), Papers(h),
         th'[h] = Resting \/ x # "answer", ys \cap {"record", "relint", "component", "entail"} = {}
  PROVE  Outside(h)
<1>1. At(h) = x /\ At(h)' \in ys /\ Silent(h)
  BY DEF Quiet, Stands
<1>2. ~LooksAgain(th'[h].script)
  BY <1>1 DEF LooksAgain, At
<1> QED BY <1>1, <1>2 DEF Outside, Silent

LEMMA FallsOutside ==
  ASSUME ThreadsOK, NEW h \in Threads, NEW x, x \notin LintSteps, x # "answer", Falls(h, x)
  PROVE  Outside(h)
<1>1. Stands(h, x) /\ Handle(h) /\ At(h)' \in {"pop", "rest", "answer"} /\ At(h) = x
  BY DEF Falls, Landings, Stands
<1>2. ~LooksAgain(th'[h].script)
  BY <1>1 DEF LooksAgain, At
<1>3. Papers(h)
  BY <1>1, HandlePapers
<1> QED BY <1>1, <1>2, <1>3 DEF Outside, Falls

LEMMA FindsOutside ==
  ASSUME ThreadsOK, NEW h \in Threads, NEW x \in {"resolve", "create"}, NEW e, Finds(h, x, e), Resolved(h, e)
  PROVE  Outside(h)
<1>1. At(h) = x /\ Silent(h) /\ At(h)' \in {"remember", "lock", "promote", "check", "archive"}
      /\ DOMAIN th[h] = Fields
  BY DEF Finds, Stands
<1>2. ~LooksAgain(th'[h].script)
  BY <1>1 DEF LooksAgain, At
<1>3. Papers(h)
  BY <1>1, BecomePapers DEF Resolved, SamePapers, Fields
<1> QED BY <1>1, <1>2, <1>3 DEF Outside, LintSteps, Silent

\* A record whose script alone is another.
LEMMA EditPapers ==
  ASSUME ThreadsOK, NEW h \in Threads, NEW r, th'[h] = r, SamePapers(r, th[h])
  PROVE  Papers(h)
BY DEF Papers

LEMMA StepOutside ==
  ASSUME ThreadsOK, NEW h \in Threads, Step(h)
  PROVE  \/ LintResponse(h) \/ Entail(h) \/ Enforce(h) \/ Rewrite(h) \/ Relint(h)
         \/ CheckHealth(h) \/ RecordLint(h)
         \/ Outside(h) \/ \E x \in LintSteps : Falls(h, x)
<1>0. Drainer \in Threads /\ DOMAIN th = Threads /\ DOMAIN th[h] = Fields
  BY RuntimeAssumption DEF ThreadsOK, ThreadOK, RecordOK
<1>1. CASE Resolve(h)
  <2>1. CASE Found(th[h].session) # {}
    <3>1. Resolved(h, Some(Found(th[h].session))) /\ Doing(h, "resolve")
      BY <1>1, <2>1 DEF Resolve
    <3> QED BY <3>1, ResolvedMoves, FindsOutside
  <2>2. CASE Found(th[h].session) = {} /\ th[h].session = None /\ Routed(th[h].marker) # {}
    <3>1. Resolved(h, turnEpisode[Some(Routed(th[h].marker))].ep) /\ Doing(h, "resolve")
      BY <1>1, <2>2 DEF Resolve
    <3> QED BY <3>1, ResolvedMoves, FindsOutside
  <2>3. CASE Found(th[h].session) = {} /\ ~(th[h].session = None /\ Routed(th[h].marker) # {})
    <3>1. Go(h, <<"create">> \o Rest(h)) /\ Doing(h, "resolve")
      BY <1>1, <2>3 DEF Resolve
    <3>2. Papers(h)
      BY <3>1, DoingStands, GoPapers
    <3>3. Quiet(h, "resolve", {"create"}) \/ \E e : Finds(h, "resolve", e)
      BY <1>1, ResolveMoves
    <3>4. Stands(h, "resolve") /\ Silent(h)
          /\ At(h)' \in {"create", "remember", "lock", "promote", "check", "archive"}
      BY <3>3 DEF Quiet, Finds
    <3>5. ~LooksAgain(th'[h].script)
      BY <3>4 DEF LooksAgain, At
    <3> QED BY <3>2, <3>4, <3>5 DEF Outside, Silent, Stands, LintSteps
  <2> QED BY <2>1, <2>2, <2>3
<1>2. CASE Create(h)
  <2>1. PICK e : Resolved(h, e)
    BY <1>2 DEF Create
  <2>2. Doing(h, "create")
    BY <1>2 DEF Create
  <2> QED BY <2>1, <2>2, ResolvedMoves, FindsOutside
<1>3. CASE Remember(h)
  <2>1. Quiet(h, "remember", {"mark"}) /\ On(h)
    BY <1>3, RememberMoves DEF Remember
  <2>2. Papers(h)
    BY <2>1, GoPapers DEF Quiet, On
  <2> QED BY <2>1, <2>2, QuietOutside DEF LintSteps
<1>4. CASE Mark(h)
  <2>1. Quiet(h, "mark", {"lock", "reload"}) /\ \E s : Go(h, s)
    BY <1>4, MarkMoves DEF Mark, On
  <2>2. Papers(h)
    BY <2>1, GoPapers DEF Quiet
  <2> QED BY <2>1, <2>2, QuietOutside DEF LintSteps
<1>5. CASE Reload(h)
  <2>1. Quiet(h, "reload", {"count"}) /\ On(h)
    BY <1>5, ReloadMoves DEF Reload
  <2>2. Papers(h)
    BY <2>1, GoPapers DEF Quiet, On
  <2> QED BY <2>1, <2>2, QuietOutside DEF LintSteps
<1>6. CASE CountTurn(h)
  <2>1. Stands(h, "count") /\ Silent(h) /\ At(h)' = "append"
    BY <1>6, CountTurnMoves
  <2>2. th'[h] = [th[h] EXCEPT !.script = Rest(h), !.num = episodes[th[h].ep].turn + 1]
    BY <1>0, <1>6 DEF CountTurn
  <2>3. Papers(h)
    BY <1>0, <2>2 DEF Papers, SamePapers, Fields
  <2>4. ~LooksAgain(th'[h].script)
    BY <2>1 DEF LooksAgain, At
  <2> QED BY <2>1, <2>3, <2>4 DEF Outside, Silent, Stands, LintSteps
<1>7. CASE AppendTurn(h)
  <2>1. CASE Falls(h, "append")
    BY <2>1, FallsOutside DEF LintSteps
  <2>2. CASE Quiet(h, "append", {"lock"})
    <3>1. On(h) \/ Handle(h)
      BY <1>7 DEF AppendTurn, Raise
    <3>2. Papers(h)
      BY <2>2, <3>1, GoPapers, HandlePapers DEF Quiet, On
    <3> QED BY <2>2, <3>2, QuietOutside DEF LintSteps
  <2> QED BY <1>7, <2>1, <2>2, AppendTurnMoves
<1>8. CASE FindLock(h)
  <2>1. Quiet(h, "lock", {"enter"})
    BY <1>8, FindLockMoves
  <2>2. th'[h] = [th[h] EXCEPT !.script = Rest(h), !.lock = LockFor(th[h].ep)]
    BY <1>0, <1>8 DEF FindLock
  <2>3. Papers(h)
    BY <1>0, <2>2 DEF Papers, SamePapers, Fields
  <2> QED BY <2>1, <2>3, QuietOutside DEF LintSteps
<1>9. CASE Enter(h)
  <2>1. Quiet(h, "enter", {"leave"}) /\ On(h)
    BY <1>9, EnterMoves DEF Enter
  <2>2. Papers(h)
    BY <2>1, GoPapers DEF Quiet, On
  <2> QED BY <2>1, <2>2, QuietOutside DEF LintSteps
<1>10. CASE Leave(h)
  <2>1. CASE Falls(h, "leave")
    BY <2>1, FallsOutside DEF LintSteps
  <2>2. CASE Quiet(h, "leave", {"gate", "inject", "rest", "pop"})
    <3>1. Quit(h, Rest(h)) \/ Handle(h)
      BY <1>10 DEF Leave, Raise
    <3>2. Papers(h)
      BY <2>2, <3>1, GoPapers, HandlePapers DEF Quiet
    <3> QED BY <2>2, <3>2, QuietOutside DEF LintSteps
  <2> QED BY <1>10, <2>1, <2>2, LeaveMoves
<1>11. CASE Gate(h)
  <2>1. h # Drainer /\ Stands(h, "gate") /\ At(h)' = "answer"
    BY <1>11, GateMoves
  <2>2. PICK answer \in {"allow", "block"} : Answer(h, answer)
    BY <1>11 DEF Gate
  <2>3. th'[h] = [th[h] EXCEPT !.script = <<"answer">>, !.lock = 0, !.answer = answer]
    BY <2>1, <2>2, AnswerMoves
  <2>4. Papers(h)
    BY <2>1, <2>2, GoPapers
  <2>5. ~LooksAgain(th'[h].script)
    BY <2>1 DEF LooksAgain, At
  <2> QED BY <1>0, <2>1, <2>2, <2>3, <2>4, <2>5 DEF Outside, Stands, LintSteps, Fields
<1>12. CASE Finish(h)
  <2>1. Quiet(h, "answer", {"rest"}) /\ th'[h] = Resting
    BY <1>12, FinishMoves
  <2> QED BY <2>1, QuietOutside DEF Papers, LintSteps
<1>13. CASE Promote(h)
  <2>1. Quiet(h, "promote", {"schedule", "component"}) /\ h # Drainer
    BY <1>13, PromoteMoves
  <2>2. PICK step \in {"schedule", "component"} : Go(h, <<step>> \o Rest(h))
    BY <1>13 DEF Promote
  <2>3. Papers(h) /\ Stands(h, "promote")
    BY <2>1, <2>2, GoPapers DEF Quiet
  <2>4. FollowUps(h, "promote") \subseteq {"lock"}
    BY <2>1 DEF FollowUps, PairsOf, EndsOf, CallbackPairs, CallbackEnds
  <2>5. ShapeOf(h, Rest(h)) /\ Rest(h) # << >> /\ Head(Rest(h)) = "lock"
    BY <2>3, <2>4, RestShape
  <2>6. th'[h].script = <<step>> \o Rest(h) \/ th'[h] = Resting
    BY <1>0, <2>2 DEF Go, Become, Fields
  <2> DEFINE s == <<step>> \o Rest(h)
  <2>7. s # << >> /\ Head(s) = step /\ Tail(s) = Rest(h)
    <3>1. Rest(h) \in Seq(Steps) /\ step \in Steps
      BY <2>5 DEF ShapeOf, Shape, Steps
    <3> QED BY <3>1
  <2> HIDE DEF s
  <2>8. ~LooksAgain(s) /\ ~LooksAgain(<< >>)
    BY <2>5, <2>7 DEF LooksAgain
  <2>9. ~LooksAgain(th'[h].script)
    BY <2>6, <2>8, RestingOK DEF s
  <2> QED BY <2>1, <2>3, <2>9 DEF Quiet, Stands, Outside, Silent, LintSteps
<1>14. CASE Schedule(h)
  <2>1. PICK s : Go(h, s)
    BY <1>14 DEF Schedule
  <2>2. Quiet(h, "schedule", {"lock"}) \/ Quiet(h, "schedule", {"start"})
    BY <1>14, ScheduleMoves
  <2>3. Papers(h)
    BY <2>1, <2>2, GoPapers DEF Quiet
  <2> QED BY <2>2, <2>3, QuietOutside DEF LintSteps
<1>15. CASE StartDrainer(h)
  <2>1. CASE Falls(h, "start")
    BY <2>1, FallsOutside DEF LintSteps
  <2>2. CASE th'[Drainer] = Woken /\ At(h)' = "lock" /\ Silent(h) /\ h # Drainer /\ Stands(h, "start")
    <3>1. \/ th'[h] = [th[h] EXCEPT !.script = Rest(h)]
          \/ Handle(h)
      BY <1>0, <1>15, <2>2 DEF StartDrainer
    <3>2. Papers(h)
      BY <1>0, <2>2, <3>1, HandlePapers DEF Papers, SamePapers, Fields
    <3>3. ~LooksAgain(th'[h].script)
      BY <2>2 DEF LooksAgain, At
    <3> QED BY <2>2, <3>2, <3>3 DEF Outside, Silent, Stands, LintSteps
  <2> QED BY <1>0, <1>15, <2>1, <2>2, StartDrainerMoves
<1>16. CASE TakeJob(h)
  <2>1. Stands(h, "pop") /\ At(h)' \in {"rest", "active"} /\ (th'[h] = Resting \/ th'[h].answer = th[h].answer)
    BY <1>16, TakeJobMoves
  <2>2. th'[h] = Resting \/ th'[h] = [th[h] EXCEPT !.script = <<"active">>, !.ep = Head(queue)]
    BY <1>0, <1>16 DEF TakeJob
  <2>3. Papers(h)
    BY <1>0, <2>2 DEF Papers, SamePapers, Fields
  <2>4. ~LooksAgain(th'[h].script)
    BY <2>1 DEF LooksAgain, At
  <2> QED BY <2>1, <2>3, <2>4 DEF Outside, Stands, LintSteps
<1>17. CASE CheckActive(h)
  <2>1. Quiet(h, "active", {"component", "pop"})
    BY <1>17, CheckActiveMoves
  <2>2. PICK s \in {Maintenance \o NextJob, NextJob} : Go(h, s)
    BY <1>17 DEF CheckActive
  <2>3. Papers(h)
    BY <2>1, <2>2, GoPapers DEF Quiet
  <2>4. th'[h].script = s \/ th'[h] = Resting
    BY <1>0, <2>2 DEF Go, Become, Fields
  <2>5. ~LooksAgain(NextJob) /\ ~LooksAgain(Maintenance \o NextJob) /\ ~LooksAgain(<< >>)
    BY DEF LooksAgain, NextJob, Maintenance
  <2>6. ~LooksAgain(th'[h].script)
    BY <2>2, <2>4, <2>5, RestingOK
  <2> QED BY <2>1, <2>3, <2>6 DEF Quiet, Stands, Outside, Silent, LintSteps
<1>18. CASE CallComponent(h)
  <2>1. Doing(h, "component") /\ UNCHANGED th
    BY <1>18 DEF CallComponent
  <2>2. Stands(h, "component")
    BY <2>1, DoingStands
  <2> QED BY <2>1, <2>2 DEF Outside, Papers, SamePapers, At, Stands, LintSteps
<1>19. CASE UseAnswer(h)
  <2>1. CASE Falls(h, "component")
    BY <2>1, FallsOutside DEF LintSteps
  <2>2. CASE Quiet(h, "component", {"lock", "entail", "rewrite"})
    <3>1. \/ Handle(h)
          \/ \E helped : th'[h] = [th[h] EXCEPT !.script = Rest(h), !.helped = helped]
      BY <1>0, <1>19 DEF UseAnswer
    <3>2. Papers(h)
      BY <1>0, <2>2, <3>1, HandlePapers DEF Papers, SamePapers, Fields, Quiet
    <3>3. CASE Handle(h)
      <4>1. Falls(h, "component")
        BY <1>19, <3>3, HandleFalls DEF UseAnswer
      <4> QED BY <4>1, FallsOutside DEF LintSteps
    <3>4. CASE \E helped : th'[h] = [th[h] EXCEPT !.script = Rest(h), !.helped = helped]
      <4>1. th'[h].script = Tail(th[h].script)
        BY <1>0, <3>4 DEF Rest, Fields
      <4>2. th[h].script # << >> /\ Head(th[h].script) = "component" /\ At(h) = "component"
            /\ At(h)' \in {"lock", "entail", "rewrite"} /\ Silent(h)
        BY <2>2 DEF Quiet, Stands
      <4>3. LooksAgain(th'[h].script) => LooksAgain(th[h].script)
        BY <4>1, <4>2 DEF LooksAgain, At
      <4> QED BY <3>2, <4>2, <4>3 DEF Outside, Silent, LintSteps
    <3> QED BY <3>1, <3>3, <3>4
  <2> QED BY <1>19, <2>1, <2>2, UseAnswerMoves
<1>20. CASE Inject(h)
  <2>1. CASE Falls(h, "inject")
    BY <2>1, FallsOutside DEF LintSteps
  <2>2. CASE Quiet(h, "inject", {"rest"})
    <3>1. Go(h, << >>) \/ Handle(h)
      BY <1>20 DEF Inject, Raise
    <3>2. Papers(h)
      BY <2>2, <3>1, GoPapers, HandlePapers DEF Quiet
    <3> QED BY <2>2, <3>2, QuietOutside DEF LintSteps
  <2> QED BY <1>20, <2>1, <2>2, InjectMoves
<1>22. CASE Archive(h)
  <2>1. CASE Falls(h, "archive")
    BY <2>1, FallsOutside DEF LintSteps
  <2>2. CASE Quiet(h, "archive", {"forget"})
    <3>1. On(h) \/ Handle(h)
      BY <1>22 DEF Archive, Raise
    <3>2. Papers(h)
      BY <2>2, <3>1, GoPapers, HandlePapers DEF Quiet, On
    <3> QED BY <2>2, <3>2, QuietOutside DEF LintSteps
  <2> QED BY <1>22, <2>1, <2>2, ArchiveMoves
<1>23. CASE Forget(h)
  <2>1. Quiet(h, "forget", {"rest"}) /\ th'[h] = Resting
    BY <1>23, ForgetMoves
  <2> QED BY <2>1, QuietOutside DEF Papers, LintSteps
<1>24. CASE Fail(h)
  <2>1. PICK x \in Lookups : Falls(h, x)
    BY <1>24, FailMoves DEF Fallen
  <2> QED BY <2>1, FallsOutside DEF Lookups
<1> QED
  BY <1>1, <1>2, <1>3, <1>4, <1>5, <1>6, <1>7, <1>8, <1>9, <1>10, <1>11, <1>12, <1>13, <1>14, <1>15,
     <1>16, <1>17, <1>18, <1>19, <1>20, <1>22, <1>23, <1>24 DEF Step

LEMMA RestPapersOK == PapersOK(Resting, "rest") /\ PapersOK(Woken, "pop")
<1>1. /\ Resting.text = << >> /\ Resting.open = {} /\ Resting.answer = None /\ Resting.script = << >>
      /\ Woken.text = << >> /\ Woken.open = {} /\ Woken.answer = None /\ Woken.script = <<"pop">>
      /\ DOMAIN Resting = Fields
  BY DEF Resting, Woken, Fields
<1>2. Covered(Resting) /\ Covered(Woken)
  BY <1>1 DEF Covered, Claims
<1>3. ~LooksAgain(<< >>) /\ ~LooksAgain(<<"pop">>)
  BY DEF LooksAgain
<1>4. << >> \in Seq(Sentences)
  OBVIOUS
<1> QED BY <1>1, <1>2, <1>3, <1>4, HostNoneAssumption DEF PapersOK

LEMMA OutsidePapers ==
  ASSUME AllPapersOK, NEW h \in Threads, Outside(h)
  PROVE  PapersOK(th'[h], At(h)')
<1>1. CASE th'[h] = Resting
  <2>1. At(h)' = "rest"
    BY <1>1, RestingOK DEF At
  <2> QED BY <1>1, <2>1, RestPapersOK
<1>2. CASE th'[h] # Resting
  <2> DEFINE k == th[h]
             n == th'[h]
  <2>1. PapersOK(k, At(h))
    BY DEF AllPapersOK
  <2>2. SamePapers(n, k) /\ n.answer \in {k.answer, "block", "allow"} /\ At(h) # "answer" /\ At(h) # "relint"
        /\ At(h)' \notin {"record", "relint"} /\ (LooksAgain(n.script) => LooksAgain(k.script))
    BY <1>2 DEF Outside, Papers, LintSteps
  <2> HIDE DEF k, n
  <2>3. k.answer # "deliver" /\ n.answer # "deliver"
    BY <2>1, <2>2 DEF PapersOK
  <2>4. Covered(k) /\ Covered(n)
    BY <2>1, <2>2 DEF PapersOK, SamePapers, Covered
  <2>5. PapersOK(n, At(h)')
    BY <2>1, <2>2, <2>3, <2>4 DEF PapersOK, SamePapers
  <2> QED BY <2>5 DEF n
<1> QED BY <1>1, <1>2

\* The lint of a thread goes on with these papers.
LEMMA LintGoesOn ==
  ASSUME ThreadsOK, NEW h \in Threads, NEW r, Become(h, r), NEW x \in Steps, r.script # << >>, Head(r.script) = x,
         PapersOK(r, x)
  PROVE  PapersOK(th'[h], At(h)')
<1>1. th'[h] = r
  BY DEF Become, ThreadsOK
<1>2. At(h)' = x
  BY <1>1 DEF At
<1> QED BY <1>1, <1>2

LEMMA AnswerPapers ==
  ASSUME ThreadsOK, NEW h \in Threads, PapersOK(th[h], At(h)), NEW x \in LintSteps, Stands(h, x),
         NEW a \in {"block", "deliver"}, Answer(h, a), a = "deliver" => x = "record"
  PROVE  PapersOK(th'[h], At(h)')
<1> DEFINE r == [th[h] EXCEPT !.script = <<"answer">>, !.lock = 0, !.answer = a]
<1>1. /\ r.script = <<"answer">> /\ r.text = th[h].text /\ r.open = th[h].open /\ r.annotated = th[h].annotated
      /\ r.seen = th[h].seen /\ r.snap = th[h].snap /\ r.answer = a /\ At(h) = x
  BY DEF Stands, Fields
<1>2. Become(h, r)
  BY DEF Answer
<1> HIDE DEF r
<1>3. r.script # << >> /\ Head(r.script) = "answer" /\ "answer" \in Steps /\ ~LooksAgain(r.script)
  BY <1>1 DEF Steps, LooksAgain
<1>4. Covered(th[h]) => Covered(r)
  BY <1>1 DEF Covered
<1>5. PapersOK(r, "answer")
  BY <1>1, <1>3, <1>4 DEF PapersOK
<1> QED BY <1>2, <1>3, <1>5, LintGoesOn
LEMMA CheckHealthPapers ==
  ASSUME ThreadsOK, NEW h \in Threads, PapersOK(th[h], At(h)), CheckHealth(h)
  PROVE  PapersOK(th'[h], At(h)')
<1>1. Stands(h, "check") /\ "check" \in LintSteps /\ At(h) = "check" /\ h # Drainer
  BY DoingStands, CallbackStep DEF CheckHealth, LintSteps, Stands
<1>2. CASE Answer(h, "block")
  BY <1>1, <1>2, AnswerPapers
<1>3. CASE On(h)
  <2> DEFINE r == [th[h] EXCEPT !.script = Rest(h)]
  <2>1. Become(h, r) /\ r.script = Rest(h) /\ SamePapers(r, th[h]) /\ r.answer = th[h].answer
    BY <1>1, <1>3 DEF On, Go, Stands, Fields, SamePapers
  <2>2. FollowUps(h, "check") \subseteq {"lint"}
    BY <1>1 DEF FollowUps, PairsOf, EndsOf, CallbackPairs, CallbackEnds
  <2>3. Rest(h) # << >> /\ Head(Rest(h)) = "lint"
    BY <1>1, <2>2, RestShape
  <2> HIDE DEF r
  <2>4. ~LooksAgain(r.script) /\ "lint" \in Steps
    BY <2>1, <2>3 DEF LooksAgain, Steps
  <2>5. Covered(th[h]) /\ Covered(r) /\ th[h].answer # "deliver"
    BY <1>1, <2>1 DEF PapersOK, SamePapers, Covered
  <2>6. PapersOK(r, "lint")
    BY <1>1, <2>1, <2>4, <2>5 DEF PapersOK, SamePapers
  <2> QED BY <2>1, <2>3, <2>4, <2>6, LintGoesOn
<1> QED BY <1>2, <1>3 DEF CheckHealth

LEMMA LintResponsePapers ==
  ASSUME ThreadsOK, NEW h \in Threads, PapersOK(th[h], At(h)), LintResponse(h)
  PROVE  PapersOK(th'[h], At(h)')
<1>1. Stands(h, "lint") /\ At(h) = "lint"
  BY DoingStands DEF LintResponse, Stands
<1>2. PICK text \in Texts, status \in Statuses, s \in {<<"enforce">>, <<"component", "entail", "enforce">>} :
        Become(h, [th[h] EXCEPT !.script = s, !.text = Plain(text), !.open = Unsupported(Plain(text), status, TRUE),
                                !.snap = status, !.seen = Seen(status)])
  BY DEF LintResponse
<1> DEFINE r == [th[h] EXCEPT !.script = s, !.text = Plain(text), !.open = Unsupported(Plain(text), status, TRUE),
                              !.snap = status, !.seen = Seen(status)]
<1>3. /\ r.script = s /\ r.text = Plain(text) /\ r.open = Unsupported(Plain(text), status, TRUE)
      /\ r.snap = status /\ r.seen = Seen(status) /\ r.answer = th[h].answer /\ Become(h, r)
  BY <1>1, <1>2 DEF Stands, Fields
<1> HIDE DEF r
<1>4. PICK x \in {"enforce", "component"} : s # << >> /\ Head(s) = x
  <2>1. CASE s = <<"enforce">>
    <3>1. s # << >> /\ Head(s) = "enforce"
      BY <2>1
    <3> QED BY <3>1
  <2>2. CASE s = <<"component", "entail", "enforce">>
    <3>1. s # << >> /\ Head(s) = "component"
      BY <2>2
    <3> QED BY <3>1
  <2> QED BY <1>2, <2>1, <2>2
<1>5. r.text \in Seq(Sentences)
  BY <1>3, PlainTyped
<1>6. Covered(r)
  BY <1>3, <1>5, GroundedBacked DEF Covered
<1>7. r.answer # "deliver"
  BY <1>1, <1>3 DEF PapersOK
<1>8. PapersOK(r, x)
  BY <1>3, <1>4, <1>5, <1>6, <1>7 DEF PapersOK
<1> QED BY <1>3, <1>4, <1>8, LintGoesOn DEF Steps

LEMMA EntailPapers ==
  ASSUME ThreadsOK, NEW h \in Threads, PapersOK(th[h], At(h)), Entail(h)
  PROVE  PapersOK(th'[h], At(h)')
<1>1. Stands(h, "entail") /\ At(h) = "entail" /\ h # Drainer
  BY DoingStands, CallbackStep DEF Entail, Stands
<1>2. PICK entailed \in SUBSET Entailable(th[h].text, th[h].snap, TRUE) :
        Become(h, [th[h] EXCEPT !.script = Rest(h), !.open = @ \ entailed, !.snap = << >>, !.helped = FALSE])
  BY DEF Entail
<1> DEFINE r == [th[h] EXCEPT !.script = Rest(h), !.open = @ \ entailed, !.snap = << >>, !.helped = FALSE]
<1>3. /\ r.script = Rest(h) /\ r.text = th[h].text /\ r.open = th[h].open \ entailed /\ r.seen = th[h].seen
      /\ r.answer = th[h].answer /\ Become(h, r)
  BY <1>1, <1>2 DEF Stands, Fields
<1> HIDE DEF r
<1>4. FollowUps(h, "entail") \subseteq {"enforce"}
  BY <1>1 DEF FollowUps, PairsOf, EndsOf, CallbackPairs, CallbackEnds
<1>5. Rest(h) # << >> /\ Head(Rest(h)) = "enforce"
  BY <1>1, <1>4, RestShape
<1>6. /\ th[h].text \in Seq(Sentences) /\ Covered(th[h]) /\ th[h].answer # "deliver"
      /\ th[h].snap \in Statuses /\ Seen(th[h].snap) \subseteq th[h].seen
  BY <1>1 DEF PapersOK, LooksAgain, Stands
<1>7. \A i \in entailed : Backed(th[h].text[i].clause, th[h].seen)
  BY <1>2, <1>6, EntailableBacked
<1>8. Covered(r)
  BY <1>3, <1>6, <1>7 DEF Covered
<1>9. ~LooksAgain(r.script) /\ "enforce" \in Steps
  BY <1>3, <1>5 DEF LooksAgain, Steps
<1>10. PapersOK(r, "enforce")
  BY <1>3, <1>6, <1>8, <1>9 DEF PapersOK
<1> QED BY <1>3, <1>5, <1>9, <1>10, LintGoesOn

LEMMA EnforcePapers ==
  ASSUME ThreadsOK, NEW h \in Threads, PapersOK(th[h], At(h)), Enforce(h)
  PROVE  PapersOK(th'[h], At(h)')
<1>1. Stands(h, "enforce") /\ At(h) = "enforce" /\ "enforce" \in LintSteps
  BY DoingStands DEF Enforce, Stands, LintSteps
<1>2. /\ th[h].text \in Seq(Sentences) /\ Covered(th[h]) /\ th[h].answer # "deliver"
  BY <1>1 DEF PapersOK
<1>3. CASE Answer(h, "block")
  BY <1>1, <1>3, AnswerPapers
<1>4. CASE th[h].open = {} /\ Go(h, <<"record">>)
  <2> DEFINE r == [th[h] EXCEPT !.script = <<"record">>]
  <2>1. r.script = <<"record">> /\ SamePapers(r, th[h]) /\ r.answer = th[h].answer /\ Become(h, r)
    BY <1>1, <1>4 DEF Stands, Fields, SamePapers, Go
  <2> HIDE DEF r
  <2>2. r.script # << >> /\ Head(r.script) = "record" /\ "record" \in Steps /\ ~LooksAgain(r.script)
    BY <2>1 DEF LooksAgain, Steps
  <2>3. PapersOK(r, "record")
    BY <1>2, <1>4, <2>1, <2>2 DEF PapersOK, SamePapers, Covered
  <2> QED BY <2>1, <2>2, <2>3, LintGoesOn
<1>5. CASE Become(h, [th[h] EXCEPT !.script = <<"record">>, !.annotated = TRUE])
  <2> DEFINE r == [th[h] EXCEPT !.script = <<"record">>, !.annotated = TRUE]
  <2>1. /\ r.script = <<"record">> /\ r.text = th[h].text /\ r.open = th[h].open /\ r.seen = th[h].seen
        /\ r.annotated /\ r.answer = th[h].answer /\ Become(h, r)
    BY <1>1, <1>5 DEF Stands, Fields
  <2> HIDE DEF r
  <2>2. r.script # << >> /\ Head(r.script) = "record" /\ "record" \in Steps /\ ~LooksAgain(r.script)
    BY <2>1 DEF LooksAgain, Steps
  <2>3. PapersOK(r, "record")
    BY <1>2, <2>1, <2>2 DEF PapersOK, Covered
  <2> QED BY <2>1, <2>2, <2>3, LintGoesOn
<1>6. CASE Go(h, <<"component", "rewrite">>)
  <2> DEFINE r == [th[h] EXCEPT !.script = <<"component", "rewrite">>]
  <2>1. r.script = <<"component", "rewrite">> /\ SamePapers(r, th[h]) /\ r.answer = th[h].answer /\ Become(h, r)
    BY <1>1, <1>6 DEF Stands, Fields, SamePapers, Go
  <2> HIDE DEF r
  <2>2. r.script # << >> /\ Head(r.script) = "component" /\ "component" \in Steps /\ ~LooksAgain(r.script)
    BY <2>1 DEF LooksAgain, Steps
  <2>3. PapersOK(r, "component")
    BY <1>2, <2>1, <2>2 DEF PapersOK, SamePapers, Covered
  <2> QED BY <2>1, <2>2, <2>3, LintGoesOn
<1> QED BY <1>3, <1>4, <1>5, <1>6 DEF Enforce

LEMMA RewritePapers ==
  ASSUME ThreadsOK, NEW h \in Threads, PapersOK(th[h], At(h)), Rewrite(h)
  PROVE  PapersOK(th'[h], At(h)')
<1>1. Stands(h, "rewrite") /\ At(h) = "rewrite"
  BY DoingStands DEF Rewrite, Stands
<1>2. th[h].text \in Seq(Sentences) /\ th[h].answer # "deliver"
  BY <1>1 DEF PapersOK
<1>3. ASSUME NEW x \in {"record", "relint"}
      PROVE  <<x>> # << >> /\ Head(<<x>>) = x /\ x \in Steps /\ ~LooksAgain(<<x>>)
  BY <1>3 DEF LooksAgain, Steps
<1>4. CASE th[h].helped
  <2>1. PICK text \in Texts, status \in Statuses :
          LET again == Plain(text)
              passes == Passes(again, status, TRUE)
              marked == MarkUnsupported(again, Unsupported(again, status, TRUE))
          IN Become(h, [th[h] EXCEPT !.script = IF passes THEN <<"record">> ELSE <<"relint">>, !.open = {},
                                     !.text = IF passes THEN again ELSE marked, !.helped = FALSE,
                                     !.seen = @ \cup Seen(status)])
    BY <1>4 DEF Rewrite
  <2> DEFINE again == Plain(text)
             passes == Passes(again, status, TRUE)
             marked == MarkUnsupported(again, Unsupported(again, status, TRUE))
             x == IF passes THEN "record" ELSE "relint"
             r == [th[h] EXCEPT !.script = IF passes THEN <<"record">> ELSE <<"relint">>, !.open = {},
                                !.text = IF passes THEN again ELSE marked, !.helped = FALSE,
                                !.seen = @ \cup Seen(status)]
  <2>2. /\ r.script = <<x>> /\ r.open = {} /\ r.text = IF passes THEN again ELSE marked
        /\ Seen(status) \subseteq r.seen /\ r.answer = th[h].answer /\ Become(h, r)
    BY <1>1, <2>1 DEF Stands, Fields
  <2>3. again \in Seq(Sentences) /\ marked \in Seq(Sentences)
    BY PlainTyped, MarkedTyped
  <2>4. x \in {"record", "relint"}
    OBVIOUS
  <2>5. passes => Unsupported(again, status, TRUE) = {}
    BY DEF Passes
  <2> HIDE DEF r, again, marked
  <2>6. passes => Covered(r)
    BY <2>2, <2>3, <2>5, GroundedBacked DEF Covered
  <2>7. PapersOK(r, x)
    BY <1>2, <1>3, <2>2, <2>3, <2>4, <2>6 DEF PapersOK
  <2> QED BY <1>3, <2>2, <2>4, <2>7, LintGoesOn
<1>5. CASE ~th[h].helped
  <2> DEFINE r == [th[h] EXCEPT !.script = <<"relint">>, !.open = {}, !.text = MarkUnsupported(@, th[h].open)]
  <2>1. /\ r.script = <<"relint">> /\ r.open = {} /\ r.text = MarkUnsupported(th[h].text, th[h].open)
        /\ r.answer = th[h].answer /\ Become(h, r)
    BY <1>1, <1>5 DEF Stands, Fields, Rewrite
  <2> HIDE DEF r
  <2>2. r.text \in Seq(Sentences)
    BY <1>2, <2>1, MarkedTyped
  <2>3. PapersOK(r, "relint")
    BY <1>2, <1>3, <2>1, <2>2 DEF PapersOK
  <2> QED BY <1>3, <2>1, <2>3, LintGoesOn
<1> QED BY <1>4, <1>5

LEMMA RelintPapers ==
  ASSUME ThreadsOK, NEW h \in Threads, PapersOK(th[h], At(h)), Relint(h)
  PROVE  PapersOK(th'[h], At(h)')
<1>1. Stands(h, "relint") /\ At(h) = "relint" /\ "relint" \in LintSteps
  BY DoingStands DEF Relint, Stands, LintSteps
<1>2. th[h].text \in Seq(Sentences) /\ th[h].answer # "deliver" /\ th[h].open = {}
  BY <1>1 DEF PapersOK
<1>3. CASE Answer(h, "block")
  BY <1>1, <1>3, AnswerPapers
<1>4. CASE ~Answer(h, "block")
  <2>1. PICK status \in Statuses :
          LET checked == MarkedOrBlocked(th[h].text, status, TRUE)
          IN /\ checked # None
             /\ Become(h, [th[h] EXCEPT !.script = <<"record">>, !.text = checked, !.seen = @ \cup Seen(status)])
    BY <1>4 DEF Relint
  <2>2. Passes(th[h].text, status, TRUE) /\ MarkedOrBlocked(th[h].text, status, TRUE) = th[h].text
    BY <2>1 DEF MarkedOrBlocked
  <2> DEFINE r == [th[h] EXCEPT !.script = <<"record">>, !.text = th[h].text, !.seen = @ \cup Seen(status)]
  <2>3. /\ r.script = <<"record">> /\ r.open = {} /\ r.text = th[h].text
        /\ Seen(status) \subseteq r.seen /\ r.answer = th[h].answer /\ Become(h, r)
    BY <1>1, <1>2, <2>1, <2>2 DEF Stands, Fields
  <2> HIDE DEF r
  <2>4. r.script # << >> /\ Head(r.script) = "record" /\ "record" \in Steps /\ ~LooksAgain(r.script)
    BY <2>3 DEF LooksAgain, Steps
  <2>5. Unsupported(th[h].text, status, TRUE) = {}
    BY <2>2 DEF Passes
  <2>6. Covered(r)
    BY <1>2, <2>3, <2>5, GroundedBacked DEF Covered
  <2>7. PapersOK(r, "record")
    BY <1>2, <2>3, <2>4, <2>6 DEF PapersOK
  <2> QED BY <2>3, <2>4, <2>7, LintGoesOn
<1> QED BY <1>3, <1>4

\* A lint that fails: nothing is delivered.
LEMMA FallsPapers ==
  ASSUME ThreadsOK, NEW h \in Threads, PapersOK(th[h], At(h)), NEW x \in LintSteps, Falls(h, x)
  PROVE  PapersOK(th'[h], At(h)')
<1>1. Stands(h, x) /\ At(h) = x /\ Papers(h) /\ ThreadsOK'
  BY HandlePapers DEF Falls, Stands
<1>2. h # Drainer
  BY <1>1, CallbackStep DEF LintSteps
<1>3. At(h)' \in {"rest", "answer"} /\ (th'[h] = Resting \/ th'[h].answer \in {th[h].answer, "block"})
  BY <1>2 DEF Falls, Landings
<1>4. ~LooksAgain(th'[h].script)
  BY <1>3 DEF LooksAgain, At
<1>5. CASE th'[h] = Resting
  <2>1. At(h)' = "rest"
    BY <1>5, RestingOK DEF At
  <2> QED BY <1>5, <2>1, RestPapersOK
<1>6. CASE th'[h] # Resting
  <2> DEFINE k == th[h]
             n == th'[h]
  <2>1. SamePapers(n, k) /\ n.answer \in {k.answer, "block"} /\ ~LooksAgain(n.script)
    BY <1>1, <1>3, <1>4, <1>6 DEF Papers
  <2>2. At(h)' = "answer"
    <3>1. At(h)' # "rest"
      <4>1. th'[h].script # << >> /\ ShapeOf(h, th'[h].script)
        BY <1>1, <1>6 DEF ThreadsOK, ThreadOK, RecordOK
      <4>2. Head(th'[h].script) \in Steps
        BY <4>1, HeadIsString
      <4> QED BY <4>1, <4>2 DEF At, Steps
    <3> QED BY <1>3, <3>1
  <2>3. PapersOK(k, x) /\ x # "answer"
    BY <1>1 DEF LintSteps
  <2> HIDE DEF k, n
  <2>4. k.answer # "deliver" /\ n.answer # "deliver"
    BY <2>1, <2>3 DEF PapersOK
  <2>5. PapersOK(n, "answer")
    BY <2>1, <2>3, <2>4 DEF PapersOK, SamePapers
  <2> QED BY <2>2, <2>5 DEF n
<1> QED BY <1>5, <1>6

LEMMA RecordLintPapers ==
  ASSUME ThreadsOK, NEW h \in Threads, PapersOK(th[h], At(h)), RecordLint(h)
  PROVE  PapersOK(th'[h], At(h)')
<1>1. Stands(h, "record") /\ At(h) = "record" /\ "record" \in LintSteps
  BY DoingStands DEF RecordLint, Stands, LintSteps
<1>2. CASE Answer(h, "deliver")
  BY <1>1, <1>2, AnswerPapers
<1>3. CASE Handle(h)
  <2>1. Falls(h, "record")
    BY <1>1, <1>3, HandleFalls DEF RecordLint
  <2> QED BY <1>1, <2>1, FallsPapers
<1> QED BY <1>2, <1>3 DEF RecordLint, Raise

LEMMA StepPapers ==
  ASSUME ThreadsOK, AllPapersOK, NEW h \in Threads, Step(h)
  PROVE  AllPapersOK'
<1>1. PapersOK(th[h], At(h))
  BY DEF AllPapersOK
<1>2. PapersOK(th'[h], At(h)')
  BY <1>1, StepOutside, OutsidePapers, CheckHealthPapers, LintResponsePapers, EntailPapers, EnforcePapers,
     RewritePapers, RelintPapers, RecordLintPapers, FallsPapers
<1>3. ASSUME NEW g \in Threads \ {h} PROVE PapersOK(th'[g], At(g)')
  <2>1. th'[g] = th[g] \/ th'[g] = Woken
    BY StepPasses DEF Passage, Others
  <2>2. CASE th'[g] = th[g]
    BY <2>2 DEF AllPapersOK, At
  <2>3. CASE th'[g] = Woken
    <3>1. At(g)' = "pop"
      BY <2>3, WokenOK DEF At
    <3> QED BY <2>3, <3>1, RestPapersOK
  <2> QED BY <2>1, <2>2, <2>3
<1> QED BY <1>2, <1>3 DEF AllPapersOK

LEMMA PapersKept ==
  ASSUME ThreadsOK, AllPapersOK, [HostNext]_hostVars
  PROVE  AllPapersOK'
<1>1. CASE \E h \in Threads : Step(h)
  BY <1>1, StepPapers
<1>2. ASSUME NEW h \in Threads, NEW hook \in Hooks, NEW session \in Sessions \cup {None},
             NEW marker \in Markers, Callback(h, hook, session, marker)
      PROVE  AllPapersOK'
  <2>1. hook \in Callbacks
    BY RuntimeAssumption
  <2>2. Alone(h) /\ At(h)' = "resolve" /\ th'[h].answer = None
    BY <1>2, <2>1, CallbackMoves
  <2>3. th'[h].text = << >> /\ th'[h].open = {}
    BY <1>2 DEF Callback, ThreadsOK, Resting
  <2>4. Covered(th'[h]) /\ << >> \in Seq(Sentences)
    BY <2>3 DEF Covered, Claims
  <2>5. ~LooksAgain(th'[h].script)
    BY <2>2 DEF LooksAgain, At
  <2>6. PapersOK(th'[h], At(h)')
    BY <2>2, <2>3, <2>4, <2>5, HostNoneAssumption DEF PapersOK
  <2>7. \A g \in Threads \ {h} : th'[g] = th[g] /\ At(g)' = At(g)
    BY <2>2 DEF Alone, At
  <2> QED BY <2>6, <2>7 DEF AllPapersOK
<1>3. CASE Restart
  BY <1>3, RestartMoves, RestPapersOK DEF AllPapersOK
<1>4. CASE UNCHANGED th
  BY <1>4 DEF AllPapersOK, At
<1>5. UNCHANGED hostVars => UNCHANGED th
  BY DEF hostVars
<1> QED BY <1>1, <1>2, <1>3, <1>4, <1>5 DEF HostNext, Environment

\* transform_llm_output: where policy blocks or rewrites, every claim that is delivered
\* cites a belief that stood, as the claim marks it, when it was linted.
THEOREM DeliveriesAreBacked == HostSpec => []NothingUngroundedDelivered
<1>1. HostInit => AllPapersOK
  <2> SUFFICES ASSUME HostInit PROVE AllPapersOK
    OBVIOUS
  <2>1. \A h \in Threads : th[h] = Resting /\ At(h) = "rest"
    BY RestingOK DEF HostInit, At
  <2> QED BY <2>1, RestPapersOK DEF AllPapersOK
<1>2. AllPapersOK => NothingUngroundedDelivered
  <2> SUFFICES ASSUME AllPapersOK, NEW h \in Threads, th[h].answer = "deliver", ~th[h].annotated,
                      NEW i \in Claims(th[h].text, TRUE)
               PROVE  Backed(th[h].text[i].clause, th[h].seen)
    BY DEF NothingUngroundedDelivered, Backed
  <2>1. PapersOK(th[h], At(h))
    BY DEF AllPapersOK
  <2>2. Covered(th[h]) /\ th[h].open = {}
    BY <2>1 DEF PapersOK
  <2> QED BY <2>2 DEF Covered
<1> QED BY <1>1, <1>2, PapersKept, ScriptsFollow, PTL DEF HostSpec
=============================================================================
