--------------------------- MODULE SelectionProofs ---------------------------
(***************************************************************************)
(* Induction over the natural numbers, stated on sets of numbers instead   *)
(* of predicates; what follows from it: a bounded set of numbers has a     *)
(* greatest member, and what holds of the empty sequence and is kept by    *)
(* every append holds of every sequence; and by that induction what Only   *)
(* and Entries return, for every sequence over any set.                    *)
(***************************************************************************)
EXTENDS Selection, WellFoundedInduction, TLAPS

LessThan == {p \in Nat \X Nat : p[1] < p[2]}

LEMMA LessThanWellFounded == IsWellFoundedOn(LessThan, Nat)
<1>1. OpToRel(<, Nat) = LessThan
  BY DEF OpToRel, LessThan
<1> QED BY <1>1, NatLessThanWellFounded

LEMMA LeastNatural ==
  ASSUME NEW S \in SUBSET Nat, S # {}
  PROVE  \E n \in S : \A m \in S : n =< m
<1>1. PICK n \in S : \A m \in S : <<m, n>> \notin LessThan
  BY LessThanWellFounded, WFMin
<1>2. ASSUME NEW m \in S, m < n PROVE FALSE
  <2>1. <<m, n>> \in Nat \X Nat /\ <<m, n>>[1] < <<m, n>>[2]
    BY <1>2
  <2>2. <<m, n>> \in LessThan
    BY <2>1 DEF LessThan
  <2> QED BY <1>1, <2>2
<1> QED BY <1>2

LEMMA SetInduction ==
  ASSUME NEW S, 0 \in S, \A n \in Nat : n \in S => n + 1 \in S
  PROVE  Nat \subseteq S
<1> SUFFICES ASSUME Nat \ S # {} PROVE FALSE
  OBVIOUS
<1>1. PICK n \in Nat \ S : \A m \in Nat \ S : n =< m
  BY LeastNatural
<1>2. n # 0 /\ n - 1 \in Nat /\ n - 1 \in S
  BY <1>1
<1> QED BY <1>2

LEMMA GreatestNatural ==
  ASSUME NEW bound \in Nat, NEW S \in SUBSET (0..bound), S # {}
  PROVE  \E n \in S : \A m \in S : n >= m
<1> DEFINE T == {bound - n : n \in S}
<1>0. \A n \in S : n \in Nat /\ bound - n \in Nat
  OBVIOUS
<1>1. T \in SUBSET Nat /\ T # {}
  BY <1>0
<1>2. PICK k \in T : \A m \in T : k =< m
  BY <1>1, LeastNatural
<1>3. PICK n \in S : k = bound - n
  BY <1>2
<1>4. \A m \in S : bound - m \in T
  OBVIOUS
<1>5. \A m \in S : bound - n =< bound - m
  <2> HIDE DEF T
  <2> QED BY <1>2, <1>3, <1>4
<1> QED BY <1>0, <1>5

LEMMA SequenceInduction ==
  ASSUME NEW T, NEW S, << >> \in S, \A s \in Seq(T), x \in T : s \in S => Append(s, x) \in S
  PROVE  Seq(T) \subseteq S
<1> DEFINE Lengths == {n \in Nat : \A s \in Seq(T) : Len(s) = n => s \in S}
<1>1. 0 \in Lengths
  OBVIOUS
<1>2. ASSUME NEW n \in Nat, n \in Lengths PROVE n + 1 \in Lengths
  <2> SUFFICES ASSUME NEW s \in Seq(T), Len(s) = n + 1 PROVE s \in S
    OBVIOUS
  <2> DEFINE front == [i \in 1..n |-> s[i]]
  <2>1. front \in Seq(T) /\ Len(front) = n /\ s[n + 1] \in T
    OBVIOUS
  <2>2. s = Append(front, s[n + 1])
    OBVIOUS
  <2>3. front \in S
    BY <1>2, <2>1
  <2> HIDE DEF front
  <2> QED BY <2>1, <2>2, <2>3
<1> HIDE DEF Lengths
<1>3. Nat \subseteq Lengths
  BY <1>1, <1>2, SetInduction
<1> QED BY <1>3 DEF Lengths

-----------------------------------------------------------------------------
(* Selections.                                                             *)

\* The first n entries are the same.
Alike(b, c, n) == n =< Len(b) /\ n =< Len(c) /\ \A i \in 1..n : b[i] = c[i]

LEMMA AppendAlike ==
  ASSUME NEW T, NEW h \in Seq(T), NEW x \in T
  PROVE  /\ Len(h) \in Nat /\ Append(h, x) \in Seq(T)
         /\ Len(Append(h, x)) = Len(h) + 1 /\ Append(h, x)[Len(h) + 1] = x
         /\ Alike(h, Append(h, x), Len(h))
BY DEF Alike

-----------------------------------------------------------------------------
(* Keeping some entries of a sequence, in their order.                     *)

Picks(h, chosen, f) ==
  f = [i \in 0..Len(h) |-> IF i = 0 THEN << >>
                           ELSE IF h[i] \in chosen THEN Append(f[i - 1], h[i]) ELSE f[i - 1]]

LEMMA PicksStart == ASSUME NEW T, NEW chosen, NEW h \in Seq(T), NEW f, Picks(h, chosen, f) PROVE f[0] = << >>
BY Len(h) \in Nat DEF Picks

LEMMA PicksStep ==
  ASSUME NEW T, NEW chosen, NEW h \in Seq(T), NEW f, NEW i \in 1..Len(h), Picks(h, chosen, f)
  PROVE  f[i] = IF h[i] \in chosen THEN Append(f[i - 1], h[i]) ELSE f[i - 1]
<1>1. Len(h) \in Nat
  OBVIOUS
<1>2. i \in 0..Len(h) /\ i # 0
  BY <1>1
<1> QED BY <1>2, Zenon DEF Picks

LEMMA PicksExist ==
  ASSUME NEW T, NEW chosen, NEW s0 \in Seq(T)
  PROVE  \E f : Picks(s0, chosen, f)
<1> DEFINE S == {h \in Seq(T) : \E f : Picks(h, chosen, f)}
<1>1. << >> \in S
  <2>1. Picks(<< >>, chosen, [i \in 0..0 |-> << >>])
    BY DEF Picks
  <2> QED BY <2>1
<1>2. ASSUME NEW h \in Seq(T), NEW x \in T, h \in S PROVE Append(h, x) \in S
  <2>1. PICK f : Picks(h, chosen, f)
    BY <1>2
  <2> DEFINE n == Len(h) + 1
             last == IF x \in chosen THEN Append(f[n - 1], x) ELSE f[n - 1]
             g == [i \in 0..n |-> IF i = n THEN last ELSE f[i]]
  <2>2. /\ Len(h) \in Nat /\ Append(h, x) \in Seq(T) /\ Len(Append(h, x)) = n /\ Append(h, x)[n] = x
        /\ \A i \in 1..Len(h) : Append(h, x)[i] = h[i]
    BY AppendAlike DEF Alike
  <2>3. ASSUME NEW i \in 0..n
        PROVE  g[i] = IF i = 0 THEN << >>
                      ELSE IF Append(h, x)[i] \in chosen THEN Append(g[i - 1], Append(h, x)[i])
                      ELSE g[i - 1]
    <3> DEFINE hx == Append(h, x)
    <3>0. hx = Append(h, x)
      OBVIOUS
    <3> HIDE DEF hx
    <3>1. CASE i = n
      BY <2>2, <3>0, <3>1
    <3>2. CASE i # n /\ i # 0
      <4>1. i \in 1..Len(h) /\ i - 1 \in 0..n /\ i - 1 # n /\ hx[i] = h[i]
        BY <2>2, <3>0, <3>2
      <4>2. f[i] = IF h[i] \in chosen THEN Append(f[i - 1], h[i]) ELSE f[i - 1]
        BY <2>1, <4>1, PicksStep
      <4>3. g[i] = f[i] /\ g[i - 1] = f[i - 1]
        BY <3>2, <4>1
      <4> QED BY <3>0, <3>2, <4>1, <4>2, <4>3
    <3>3. CASE i = 0
      <4>1. f[0] = << >> /\ 0 \in 0..n /\ 0 # n
        BY <2>1, <2>2, PicksStart
      <4>2. g[0] = f[0]
        BY <4>1
      <4> QED BY <3>3, <4>1, <4>2
    <3> QED BY <3>1, <3>2, <3>3
  <2>4. Picks(Append(h, x), chosen, g)
    <3>1. g = [i \in 0..n |-> g[i]]
      OBVIOUS
    <3> HIDE DEF g
    <3> QED BY <2>2, <2>3, <3>1 DEF Picks
  <2> QED BY <2>2, <2>4
<1> HIDE DEF S
<1>3. Seq(T) \subseteq S
  BY <1>1, <1>2, SequenceInduction
<1> QED BY <1>3 DEF S

LEMMA PicksAgree ==
  ASSUME NEW T, NEW chosen, NEW b \in Seq(T), NEW c \in Seq(T), NEW f, NEW g, NEW n \in Nat,
         Picks(b, chosen, f), Picks(c, chosen, g), Alike(b, c, n)
  PROVE  f[n] = g[n]
<1> DEFINE S == {i \in Nat : i =< n => f[i] = g[i]}
<1>0. /\ Len(b) \in Nat /\ Len(c) \in Nat /\ n =< Len(b) /\ n =< Len(c)
      /\ \A i \in 1..n : b[i] = c[i]
  BY DEF Alike
<1>1. 0 \in S
  <2>1. f[0] = << >> /\ g[0] = << >>
    BY PicksStart
  <2> QED BY <2>1
<1>2. ASSUME NEW i \in Nat, i \in S PROVE i + 1 \in S
  <2> SUFFICES ASSUME i + 1 =< n PROVE f[i + 1] = g[i + 1]
    OBVIOUS
  <2>1. i + 1 \in 1..Len(b) /\ i + 1 \in 1..Len(c) /\ i + 1 \in 1..n /\ (i + 1) - 1 = i /\ f[i] = g[i]
    BY <1>0, <1>2
  <2>2. f[i + 1] = IF b[i + 1] \in chosen THEN Append(f[i], b[i + 1]) ELSE f[i]
    BY <2>1, PicksStep
  <2>3. g[i + 1] = IF c[i + 1] \in chosen THEN Append(g[i], c[i + 1]) ELSE g[i]
    BY <2>1, PicksStep
  <2> QED BY <1>0, <2>1, <2>2, <2>3
<1> HIDE DEF S
<1>3. Nat \subseteq S
  BY <1>1, <1>2, SetInduction
<1> QED BY <1>3 DEF S

LEMMA PicksOf ==
  ASSUME NEW T, NEW chosen, NEW h \in Seq(T)
  PROVE  \E f : Picks(h, chosen, f) /\ Only(h, chosen) = f[Len(h)]
<1> DEFINE f == CHOOSE f : Picks(h, chosen, f)
<1>1. Picks(h, chosen, f)
  BY PicksExist
<1>2. Only(h, chosen) = f[Len(h)]
  BY DEF Only, Picks
<1> QED BY <1>1, <1>2

LEMMA OnlyNothing == ASSUME NEW chosen PROVE Only(<< >>, chosen) = << >>
<1>1. << >> \in Seq({}) /\ Len(<< >>) = 0
  OBVIOUS
<1>2. PICK f : Picks(<< >>, chosen, f) /\ Only(<< >>, chosen) = f[Len(<< >>)]
  BY <1>1, PicksOf
<1>3. f[0] = << >>
  BY <1>1, <1>2, PicksStart
<1> QED BY <1>1, <1>2, <1>3

LEMMA OnlyNext ==
  ASSUME NEW T, NEW chosen, NEW h \in Seq(T), NEW x \in T
  PROVE  Only(Append(h, x), chosen) =
           IF x \in chosen THEN Append(Only(h, chosen), x) ELSE Only(h, chosen)
<1> DEFINE n == Len(h)
<1>0. /\ n \in Nat /\ Append(h, x) \in Seq(T) /\ Len(Append(h, x)) = n + 1 /\ Append(h, x)[n + 1] = x
      /\ Alike(h, Append(h, x), n)
  BY AppendAlike
<1>1. PICK f : Picks(h, chosen, f) /\ Only(h, chosen) = f[n]
  BY PicksOf
<1>2. PICK g : Picks(Append(h, x), chosen, g) /\ Only(Append(h, x), chosen) = g[n + 1]
  BY <1>0, PicksOf
<1>3. f[n] = g[n]
  <2> DEFINE c == Append(h, x)
  <2>1. c \in Seq(T) /\ n \in Nat /\ Picks(c, chosen, g) /\ Alike(h, c, n)
    BY <1>0, <1>2
  <2> HIDE DEF c, n
  <2> QED BY <1>1, <2>1, PicksAgree
<1>4. g[n + 1] = IF x \in chosen THEN Append(g[n], x) ELSE g[n]
  <2> DEFINE c == Append(h, x)
  <2>1. c \in Seq(T) /\ n \in Nat /\ Len(c) = n + 1 /\ c[n + 1] = x /\ Picks(c, chosen, g)
    BY <1>0, <1>2
  <2> HIDE DEF c, n
  <2>2. n + 1 \in 1..Len(c) /\ (n + 1) - 1 = n
    BY <2>1
  <2>3. g[n + 1] = IF c[n + 1] \in chosen THEN Append(g[(n + 1) - 1], c[n + 1]) ELSE g[(n + 1) - 1]
    BY <2>1, <2>2, PicksStep
  <2> QED BY <2>1, <2>2, <2>3
<1> QED BY <1>1, <1>2, <1>3, <1>4

\* What a sequence with one entry more holds.
LEMMA EntriesNext ==
  ASSUME NEW T, NEW h \in Seq(T), NEW x \in T
  PROVE  Entries(Append(h, x)) = Entries(h) \cup {x} /\ Entries(h) \subseteq T
<1> DEFINE c == Append(h, x)
<1>1. /\ Len(h) \in Nat /\ c \in Seq(T) /\ Len(c) = Len(h) + 1 /\ c[Len(h) + 1] = x
      /\ \A i \in 1..Len(h) : c[i] = h[i]
  BY AppendAlike DEF Alike
<1>2. DOMAIN h = 1..Len(h) /\ DOMAIN c = 1..(Len(h) + 1)
  BY <1>1
<1> HIDE DEF c
<1>3. Entries(c) = Entries(h) \cup {x}
  BY <1>1, <1>2 DEF Entries
<1>4. Entries(h) \subseteq T
  BY DEF Entries
<1> QED BY <1>3, <1>4 DEF c

LEMMA EntriesNothing == Entries(<< >>) = {}
BY DEF Entries

\* A part of a sequence holds the chosen entries and no others.
LEMMA OnlyType ==
  ASSUME NEW T, NEW chosen, NEW s0 \in Seq(T)
  PROVE  Only(s0, chosen) \in Seq(T) /\ Entries(Only(s0, chosen)) = Entries(s0) \cap chosen
<1> DEFINE S == {h \in Seq(T) : Only(h, chosen) \in Seq(T)
                              /\ Entries(Only(h, chosen)) = Entries(h) \cap chosen}
<1>1. << >> \in S
  <2>1. << >> \in Seq(T) /\ {} \cap chosen = {}
    OBVIOUS
  <2> QED BY <2>1, OnlyNothing, EntriesNothing
<1>2. ASSUME NEW h \in Seq(T), NEW x \in T, h \in S PROVE Append(h, x) \in S
  <2>0. Append(h, x) \in Seq(T)
    OBVIOUS
  <2>1. Entries(Append(h, x)) = Entries(h) \cup {x}
    BY EntriesNext
  <2>2. CASE x \in chosen
    <3>1. Only(Append(h, x), chosen) = Append(Only(h, chosen), x)
      BY <2>2, OnlyNext
    <3>2. Append(Only(h, chosen), x) \in Seq(T)
      BY <1>2
    <3>3. Entries(Append(Only(h, chosen), x)) = Entries(Only(h, chosen)) \cup {x}
      BY <1>2, EntriesNext
    <3> QED BY <1>2, <2>0, <2>1, <2>2, <3>1, <3>2, <3>3
  <2>3. CASE x \notin chosen
    <3>1. Only(Append(h, x), chosen) = Only(h, chosen)
      BY <2>3, OnlyNext
    <3> QED BY <1>2, <2>0, <2>1, <2>3, <3>1
  <2> QED BY <2>2, <2>3
<1> HIDE DEF S
<1>3. Seq(T) \subseteq S
  BY <1>1, <1>2, SequenceInduction
<1> QED BY <1>3 DEF S

\* Choosing differently outside the sequence makes no difference.
LEMMA OnlyAgree ==
  ASSUME NEW T, NEW s0 \in Seq(T), NEW X, NEW Y, X \cap Entries(s0) = Y \cap Entries(s0)
  PROVE  Only(s0, X) = Only(s0, Y)
<1> DEFINE S == {h \in Seq(T) : X \cap Entries(h) = Y \cap Entries(h) => Only(h, X) = Only(h, Y)}
<1>1. << >> \in S
  BY OnlyNothing
<1>2. ASSUME NEW h \in Seq(T), NEW x \in T, h \in S PROVE Append(h, x) \in S
  <2>0. Append(h, x) \in Seq(T) /\ Entries(Append(h, x)) = Entries(h) \cup {x}
    BY EntriesNext
  <2>1. /\ Only(Append(h, x), X) = IF x \in X THEN Append(Only(h, X), x) ELSE Only(h, X)
        /\ Only(Append(h, x), Y) = IF x \in Y THEN Append(Only(h, Y), x) ELSE Only(h, Y)
    BY OnlyNext
  <2>2. ASSUME X \cap (Entries(h) \cup {x}) = Y \cap (Entries(h) \cup {x})
        PROVE  X \cap Entries(h) = Y \cap Entries(h) /\ (x \in X <=> x \in Y)
    BY <2>2
  <2> QED BY <1>2, <2>0, <2>1, <2>2
<1> HIDE DEF S
<1>3. Seq(T) \subseteq S
  BY <1>1, <1>2, SequenceInduction
<1> QED BY <1>3 DEF S

LEMMA OnlyOnly ==
  ASSUME NEW T, NEW s0 \in Seq(T), NEW X, NEW Y
  PROVE  Only(Only(s0, X), Y) = Only(s0, X \cap Y)
<1> DEFINE S == {h \in Seq(T) : Only(Only(h, X), Y) = Only(h, X \cap Y)}
<1>1. << >> \in S
  BY OnlyNothing
<1>2. ASSUME NEW h \in Seq(T), NEW x \in T, h \in S PROVE Append(h, x) \in S
  <2>0. Append(h, x) \in Seq(T) /\ Only(h, X) \in Seq(T)
    BY OnlyType
  <2>1. /\ Only(Append(h, x), X) = IF x \in X THEN Append(Only(h, X), x) ELSE Only(h, X)
        /\ Only(Append(h, x), X \cap Y) =
             IF x \in X \cap Y THEN Append(Only(h, X \cap Y), x) ELSE Only(h, X \cap Y)
    BY OnlyNext
  <2>2. Only(Append(Only(h, X), x), Y) =
          IF x \in Y THEN Append(Only(Only(h, X), Y), x) ELSE Only(Only(h, X), Y)
    BY <2>0, OnlyNext
  <2>3. CASE x \in X
    <3>1. /\ Only(Append(h, x), X) = Append(Only(h, X), x)
          /\ Only(Append(h, x), X \cap Y) =
               IF x \in Y THEN Append(Only(h, X \cap Y), x) ELSE Only(h, X \cap Y)
      BY <2>1, <2>3
    <3>2. Only(Only(h, X), Y) = Only(h, X \cap Y)
      BY <1>2
    <3>3. Only(Only(Append(h, x), X), Y) = Only(Append(Only(h, X), x), Y)
      BY <3>1
    <3>4. Only(Only(Append(h, x), X), Y) = Only(Append(h, x), X \cap Y)
      <4>1. CASE x \in Y
        BY <2>2, <3>1, <3>2, <3>3, <4>1
      <4>2. CASE x \notin Y
        BY <2>2, <3>1, <3>2, <3>3, <4>2
      <4> QED BY <4>1, <4>2
    <3> QED BY <2>0, <3>4
  <2>4. CASE x \notin X
    BY <1>2, <2>0, <2>1, <2>4
  <2> QED BY <2>3, <2>4
<1> HIDE DEF S
<1>3. Seq(T) \subseteq S
  BY <1>1, <1>2, SequenceInduction
<1> QED BY <1>3 DEF S

LEMMA OnlyNone ==
  ASSUME NEW T, NEW h \in Seq(T), NEW X, X \cap Entries(h) = {}
  PROVE  Only(h, X) = << >>
<1>1. Only(h, X) \in Seq(T) /\ Entries(Only(h, X)) = {}
  BY OnlyType
<1> DEFINE s == Only(h, X)
<1>2. s \in Seq(T) /\ Entries(s) = {}
  BY <1>1
<1> HIDE DEF s
<1>3. Len(s) = 0
  <2> SUFFICES ASSUME Len(s) # 0 PROVE FALSE
    OBVIOUS
  <2>1. 1 \in DOMAIN s
    BY <1>2
  <2> QED BY <1>2, <2>1 DEF Entries
<1>4. s = << >>
  BY <1>2, <1>3
<1> QED BY <1>4 DEF s

\* It is no longer than the whole.
LEMMA OnlyShorter ==
  ASSUME NEW T, NEW chosen, NEW s0 \in Seq(T)
  PROVE  Len(Only(s0, chosen)) =< Len(s0)
<1> DEFINE S == {h \in Seq(T) : Len(Only(h, chosen)) =< Len(h)}
<1>1. << >> \in S
  BY OnlyNothing
<1>2. ASSUME NEW h \in Seq(T), NEW x \in T, h \in S PROVE Append(h, x) \in S
  <2>1. Only(Append(h, x), chosen) = IF x \in chosen THEN Append(Only(h, chosen), x) ELSE Only(h, chosen)
    BY OnlyNext
  <2>2. Only(h, chosen) \in Seq(T)
    BY OnlyType
  <2>3. Append(h, x) \in Seq(T) /\ Len(Append(h, x)) = Len(h) + 1 /\ Len(h) \in Nat
    OBVIOUS
  <2>4. /\ Len(Append(Only(h, chosen), x)) = Len(Only(h, chosen)) + 1
        /\ Len(Only(h, chosen)) \in Nat /\ Len(Only(h, chosen)) =< Len(h)
    BY <1>2, <2>2
  <2> QED BY <2>1, <2>3, <2>4
<1> HIDE DEF S
<1>3. Seq(T) \subseteq S
  BY <1>1, <1>2, SequenceInduction
<1> QED BY <1>3 DEF S

\* It is shorter where an entry is left out.
LEMMA OnlyDrops ==
  ASSUME NEW T, NEW chosen, NEW s0 \in Seq(T), NEW y \in Entries(s0), y \notin chosen
  PROVE  Len(Only(s0, chosen)) < Len(s0)
<1> DEFINE S == {h \in Seq(T) : y \in Entries(h) => Len(Only(h, chosen)) < Len(h)}
<1>1. << >> \in S
  BY EntriesNothing
<1>2. ASSUME NEW h \in Seq(T), NEW x \in T, h \in S PROVE Append(h, x) \in S
  <2>1. Only(Append(h, x), chosen) = IF x \in chosen THEN Append(Only(h, chosen), x) ELSE Only(h, chosen)
    BY OnlyNext
  <2>2. Only(h, chosen) \in Seq(T) /\ Len(Only(h, chosen)) =< Len(h)
    BY OnlyType, OnlyShorter
  <2>3. Append(h, x) \in Seq(T) /\ Len(Append(h, x)) = Len(h) + 1 /\ Len(h) \in Nat
    OBVIOUS
  <2>4. Len(Append(Only(h, chosen), x)) = Len(Only(h, chosen)) + 1 /\ Len(Only(h, chosen)) \in Nat
    BY <2>2
  <2>5. Entries(Append(h, x)) = Entries(h) \cup {x}
    BY EntriesNext
  <2>6. CASE x \in chosen
    <3>1. y \in Entries(Append(h, x)) => y \in Entries(h)
      BY <2>5, <2>6
    <3> QED BY <1>2, <2>1, <2>3, <2>4, <2>6, <3>1
  <2>7. CASE x \notin chosen
    BY <2>1, <2>2, <2>3, <2>4, <2>7
  <2> QED BY <2>6, <2>7
<1> HIDE DEF S
<1>3. Seq(T) \subseteq S
  BY <1>1, <1>2, SequenceInduction
<1> QED BY <1>3 DEF S

LEMMA TailEntries ==
  ASSUME NEW T, NEW s \in Seq(T), s # << >>
  PROVE  /\ Head(s) \in Entries(s) /\ Tail(s) \in Seq(T) /\ Len(Tail(s)) = Len(s) - 1
         /\ Entries(Tail(s)) \subseteq Entries(s)
<1>1. /\ Len(s) \in Nat \ {0} /\ Tail(s) \in Seq(T) /\ Len(Tail(s)) = Len(s) - 1 /\ Head(s) = s[1]
      /\ \A i \in 1..Len(s) - 1 : Tail(s)[i] = s[i + 1]
  OBVIOUS
<1>2. DOMAIN s = 1..Len(s) /\ DOMAIN Tail(s) = 1..Len(s) - 1
  BY <1>1
<1> QED BY <1>1, <1>2 DEF Entries
=============================================================================
