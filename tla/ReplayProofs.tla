---------------------------- MODULE ReplayProofs ----------------------------
(***************************************************************************)
(* The enforcement log reproduces the tables, also after an episode was    *)
(* compacted out of it: for any number of receipts, tokens and episodes    *)
(* and logs of any length.                                                 *)
(***************************************************************************)
EXTENDS EnforcementReplay, EnforcementProofs, SelectionProofs

-----------------------------------------------------------------------------
(* Rebuilding, one event after the other.                                  *)

Logs == Seq(Events)

\* f records the tables after every event.
Retold(events, f) ==
  f = [i \in 0..Len(events) |-> IF i = 0 THEN EmptyTables ELSE Replayed(f[i - 1], events[i])]

\* The recursion of Rebuild has a solution for every log, so the CHOOSE behind it is one.
LEMMA RetoldExists ==
  ASSUME NEW s \in Logs
  PROVE  \E f : Retold(s, f)
<1> DEFINE S == {h \in Logs : \E f : Retold(h, f)}
<1>1. << >> \in S
  <2>1. Retold(<< >>, [i \in 0..0 |-> EmptyTables])
    BY DEF Retold
  <2> QED BY <2>1 DEF Logs
<1>2. ASSUME NEW h \in Logs, NEW x \in Events, h \in S PROVE Append(h, x) \in S
  <2>1. PICK f : Retold(h, f)
    BY <1>2
  <2> DEFINE n == Len(h) + 1
             g == [i \in 0..n |-> IF i = n THEN Replayed(f[n - 1], x) ELSE f[i]]
  <2>2. /\ Len(h) \in Nat /\ Append(h, x) \in Logs /\ Len(Append(h, x)) = n /\ Append(h, x)[n] = x
        /\ \A i \in 1..Len(h) : Append(h, x)[i] = h[i]
    BY DEF Logs
  <2>3. ASSUME NEW i \in 0..n
        PROVE  g[i] = IF i = 0 THEN EmptyTables ELSE Replayed(g[i - 1], Append(h, x)[i])
    BY <2>1, <2>2 DEF Retold
  <2>4. Retold(Append(h, x), g)
    <3>1. g = [i \in 0..n |-> g[i]]
      OBVIOUS
    <3> HIDE DEF g
    <3> QED BY <2>2, <2>3, <3>1 DEF Retold
  <2> QED BY <2>2, <2>4
<1> HIDE DEF S
<1>3. Logs \subseteq S
  BY <1>1, <1>2, SequenceInduction DEF Logs
<1> QED BY <1>3 DEF S

\* As long as the events are the same, so are the tables.
LEMMA RetoldAgree ==
  ASSUME NEW b \in Logs, NEW c \in Logs, NEW f, NEW g, NEW n \in Nat,
         Retold(b, f), Retold(c, g), Alike(b, c, n)
  PROVE  f[n] = g[n]
<1> DEFINE S == {i \in Nat : i =< n => f[i] = g[i]}
<1>0. /\ Len(b) \in Nat /\ Len(c) \in Nat /\ n =< Len(b) /\ n =< Len(c)
      /\ \A i \in 1..n : b[i] = c[i]
  BY DEF Logs, Alike
<1>1. 0 \in S
  BY <1>0 DEF Retold
<1>2. ASSUME NEW i \in Nat, i \in S PROVE i + 1 \in S
  BY <1>0, <1>2 DEF Retold
<1> HIDE DEF S
<1>3. Nat \subseteq S
  BY <1>1, <1>2, SetInduction
<1> QED BY <1>3 DEF S

\* Rebuild is the last entry of such a record.
LEMMA RetoldOf ==
  ASSUME NEW s \in Logs
  PROVE  \E f : Retold(s, f) /\ Rebuild(s) = f[Len(s)]
<1> DEFINE f == CHOOSE f : Retold(s, f)
<1>1. Retold(s, f)
  BY RetoldExists
<1>2. Rebuild(s) = f[Len(s)]
  BY DEF Rebuild, Retold
<1> QED BY <1>1, <1>2

LEMMA RebuildNothing == Rebuild(<< >>) = EmptyTables
<1>1. << >> \in Logs /\ Len(<< >>) = 0
  BY DEF Logs
<1> QED BY <1>1, RetoldOf DEF Retold

\* Rebuilding a longer log is one more turn of the loop.
LEMMA RebuildNext ==
  ASSUME NEW h \in Logs, NEW x \in Events
  PROVE  Rebuild(Append(h, x)) = Replayed(Rebuild(h), x)
<1> DEFINE n == Len(h)
<1>0. /\ n \in Nat /\ Append(h, x) \in Logs /\ Len(Append(h, x)) = n + 1
      /\ Append(h, x)[n + 1] = x /\ Alike(h, Append(h, x), n)
  BY AppendAlike DEF Logs
<1>1. PICK f : Retold(h, f) /\ Rebuild(h) = f[n]
  BY RetoldOf
<1>2. PICK g : Retold(Append(h, x), g) /\ Rebuild(Append(h, x)) = g[n + 1]
  BY <1>0, RetoldOf
<1>3. f[n] = g[n]
  BY <1>0, <1>1, <1>2, RetoldAgree
<1>4. g[n + 1] = Replayed(g[n], x)
  BY <1>0, <1>2 DEF Retold
<1> QED BY <1>1, <1>2, <1>3, <1>4

-----------------------------------------------------------------------------
(* Compaction, one event after the other.                                  *)

Binders(h, i) == {j \in 1..i-1 : Has(h[j], "binding") /\ SameSubject(h[j], h[i])}
Latest(S) == CHOOSE j \in S : \A k \in S : k =< j

LEMMA EpisodeIs ==
  ASSUME NEW h, NEW i
  PROVE  EpisodeOf(h, i) = IF Has(h[i], "binding") THEN h[i].binding.episode
                           ELSE IF Binders(h, i) = {} THEN None
                           ELSE h[Latest(Binders(h, i))].binding.episode
BY DEF EpisodeOf, Binders, Latest

\* The CHOOSE of EpisodeOf finds an event wherever there is one.
LEMMA LatestIn ==
  ASSUME NEW n \in Nat, NEW S \in SUBSET (1..n), S # {}
  PROVE  Latest(S) \in S
<1>1. S \in SUBSET (0..n)
  OBVIOUS
<1>2. PICK j \in S : \A k \in S : j >= k
  BY <1>1, GreatestNatural
<1>3. \A k \in S : k =< j
  BY <1>2
<1> QED BY <1>3 DEF Latest

\* Later events do not change the episode an event belongs to.
LEMMA EpisodeStays ==
  ASSUME NEW h \in Seq(Events), NEW x \in Events, NEW i \in 1..Len(h)
  PROVE  EpisodeOf(Append(h, x), i) = EpisodeOf(h, i)
<1> DEFINE c == Append(h, x)
<1>1. Len(h) \in Nat /\ \A j \in 1..i : c[j] = h[j]
  OBVIOUS
<1>2. c[i] = h[i] /\ \A j \in 1..i-1 : c[j] = h[j]
  BY <1>1
<1> HIDE DEF c
<1>3. Binders(c, i) = Binders(h, i)
  BY <1>2 DEF Binders
<1>4. Binders(h, i) # {} => Latest(Binders(h, i)) \in 1..i-1
  <2>1. Binders(h, i) \in SUBSET (1..i-1) /\ i - 1 \in Nat
    BY <1>1 DEF Binders
  <2> QED BY <2>1, LatestIn
<1>5. Binders(h, i) # {} => c[Latest(Binders(h, i))] = h[Latest(Binders(h, i))]
  BY <1>2, <1>4
<1>6. EpisodeOf(c, i) = EpisodeOf(h, i)
  BY <1>2, <1>3, <1>5, EpisodeIs
<1> QED BY <1>6 DEF c

Places(h) == [i \in DOMAIN h |-> i]
Kept(h, e) == {i \in DOMAIN h : EpisodeOf(h, i) # e}

LEMMA CompactIs ==
  ASSUME NEW h, NEW e
  PROVE  Compact(h, e) = [i \in DOMAIN Only(Places(h), Kept(h, e)) |-> h[Only(Places(h), Kept(h, e))[i]]]
BY DEF Compact, Places, Kept

LEMMA PlacesNext ==
  ASSUME NEW h \in Seq(Events), NEW x \in Events
  PROVE  /\ Places(h) \in Seq(Nat) /\ Len(h) + 1 \in Nat /\ Entries(Places(h)) = 1..Len(h)
         /\ Places(Append(h, x)) = Append(Places(h), Len(h) + 1)
<1>1. Len(h) \in Nat /\ DOMAIN h = 1..Len(h) /\ DOMAIN Append(h, x) = 1..Len(h) + 1
  OBVIOUS
<1>2. Places(h) = [i \in 1..Len(h) |-> i] /\ Places(Append(h, x)) = [i \in 1..Len(h) + 1 |-> i]
  BY <1>1 DEF Places
<1>3. Places(h) \in Seq(Nat) /\ Len(Places(h)) = Len(h)
  BY <1>1, <1>2
<1>4. Append(Places(h), Len(h) + 1) = [i \in 1..Len(h) + 1 |-> i]
  BY <1>1, <1>2, <1>3
<1>5. Entries(Places(h)) = 1..Len(h)
  BY <1>1, <1>2 DEF Entries
<1> QED BY <1>1, <1>2, <1>3, <1>4, <1>5

\* A new event joins the kept ones, or not, and changes nothing before it.
LEMMA KeptNext ==
  ASSUME NEW h \in Seq(Events), NEW x \in Events, NEW e
  PROVE  Only(Places(Append(h, x)), Kept(Append(h, x), e)) =
           IF EpisodeOf(Append(h, x), Len(h) + 1) # e
           THEN Append(Only(Places(h), Kept(h, e)), Len(h) + 1)
           ELSE Only(Places(h), Kept(h, e))
<1> DEFINE c == Append(h, x)
           n == Len(h)
<1>1. n \in Nat /\ DOMAIN h = 1..n /\ DOMAIN c = 1..n + 1
  OBVIOUS
<1>2. \A i \in 1..n : EpisodeOf(c, i) = EpisodeOf(h, i)
  BY EpisodeStays
<1>3. Places(h) \in Seq(Nat) /\ n + 1 \in Nat /\ Entries(Places(h)) = 1..n
      /\ Places(c) = Append(Places(h), n + 1)
  BY PlacesNext
<1> HIDE DEF c, n
<1>4. Kept(c, e) \cap 1..n = Kept(h, e) \cap 1..n
  BY <1>1, <1>2 DEF Kept
<1>5. Only(Places(h), Kept(c, e)) = Only(Places(h), Kept(h, e))
  BY <1>3, <1>4, OnlyAgree
<1>6. n + 1 \in Kept(c, e) <=> EpisodeOf(c, n + 1) # e
  BY <1>1 DEF Kept
<1>7. Only(Places(c), Kept(c, e)) = IF n + 1 \in Kept(c, e) THEN Append(Only(Places(h), Kept(c, e)), n + 1)
                                    ELSE Only(Places(h), Kept(c, e))
  <2> DEFINE q == Places(h)
             K == Kept(c, e)
             m == n + 1
  <2>1. q \in Seq(Nat) /\ m \in Nat
    BY <1>3
  <2> HIDE DEF q, K, m
  <2>2. Only(Append(q, m), K) = IF m \in K THEN Append(Only(q, K), m) ELSE Only(q, K)
    BY <2>1, OnlyNext
  <2> QED BY <1>3, <2>2 DEF q, K, m
<1>8. Only(Places(c), Kept(c, e)) = IF EpisodeOf(c, n + 1) # e THEN Append(Only(Places(h), Kept(h, e)), n + 1)
                                    ELSE Only(Places(h), Kept(h, e))
  BY <1>5, <1>6, <1>7
<1> QED BY <1>8 DEF c, n

\* What is left of a log are its events of other episodes.
LEMMA CompactLeft ==
  ASSUME NEW h \in Seq(Events), NEW e
  PROVE  /\ Compact(h, e) \in Seq(Events)
         /\ \A i \in DOMAIN Compact(h, e) : \E j \in DOMAIN h : EpisodeOf(h, j) # e /\ Compact(h, e)[i] = h[j]
<1> DEFINE k == Only(Places(h), Kept(h, e))
<1>1. Places(h) \in Seq(Nat) /\ Entries(Places(h)) = 1..Len(h)
  <2>1. Len(h) \in Nat /\ DOMAIN h = 1..Len(h) /\ Places(h) = [i \in 1..Len(h) |-> i]
    BY DEF Places
  <2> QED BY <2>1 DEF Entries
<1>2. k \in Seq(Nat) /\ Entries(k) = 1..Len(h) \cap Kept(h, e)
  BY <1>1, OnlyType
<1>3. Compact(h, e) = [i \in DOMAIN k |-> h[k[i]]]
  BY CompactIs
<1> HIDE DEF k
<1>4. \A i \in DOMAIN k : k[i] \in DOMAIN h /\ EpisodeOf(h, k[i]) # e /\ h[k[i]] \in Events
  <2>1. \A i \in DOMAIN k : k[i] \in Entries(k)
    BY DEF Entries
  <2>2. DOMAIN h = 1..Len(h) /\ \A j \in DOMAIN h : h[j] \in Events
    OBVIOUS
  <2> QED BY <1>2, <2>1, <2>2 DEF Kept
<1>5. DOMAIN k = 1..Len(k) /\ Len(k) \in Nat
  BY <1>2
<1> QED BY <1>3, <1>4, <1>5

LEMMA CompactNothing == ASSUME NEW e PROVE Compact(<< >>, e) = << >>
<1>1. Places(<< >>) = << >>
  BY DEF Places
<1>2. Only(Places(<< >>), Kept(<< >>, e)) = << >>
  BY <1>1, OnlyNothing
<1> QED BY <1>2, CompactIs

\* Compacting a longer log keeps the new event or drops it.
LEMMA CompactNext ==
  ASSUME NEW h \in Seq(Events), NEW x \in Events, NEW e
  PROVE  Compact(Append(h, x), e) =
           IF EpisodeOf(Append(h, x), Len(h) + 1) # e THEN Append(Compact(h, e), x) ELSE Compact(h, e)
<1> DEFINE c == Append(h, x)
           n == Len(h)
           k == Only(Places(h), Kept(h, e))
           l == Only(Places(c), Kept(c, e))
<1>1. n \in Nat /\ c[n + 1] = x /\ \A i \in 1..n : c[i] = h[i]
  OBVIOUS
<1>2. k \in Seq(Nat) /\ \A i \in DOMAIN k : k[i] \in 1..n
  <2>1. Places(h) \in Seq(Nat) /\ Entries(Places(h)) = 1..n
    BY PlacesNext
  <2>2. k \in Seq(Nat) /\ Entries(k) = 1..n \cap Kept(h, e)
    BY <2>1, OnlyType
  <2> HIDE DEF k
  <2> QED BY <2>2 DEF Entries
<1>3. l = IF EpisodeOf(c, n + 1) # e THEN Append(k, n + 1) ELSE k
  BY KeptNext
<1>4. Compact(h, e) = [i \in DOMAIN k |-> h[k[i]]] /\ Compact(c, e) = [i \in DOMAIN l |-> c[l[i]]]
  BY CompactIs
<1> HIDE DEF c, k, l, n
<1>5. CASE EpisodeOf(c, n + 1) = e
  <2>1. [i \in DOMAIN k |-> c[k[i]]] = [i \in DOMAIN k |-> h[k[i]]]
    BY <1>1, <1>2
  <2> QED BY <1>3, <1>4, <1>5, <2>1 DEF c, n
<1>6. CASE EpisodeOf(c, n + 1) # e
  <2>1. l = Append(k, n + 1) /\ Len(k) \in Nat /\ DOMAIN k = 1..Len(k)
    BY <1>2, <1>3, <1>6
  <2>2. DOMAIN l = 1..Len(k) + 1 /\ l[Len(k) + 1] = n + 1 /\ \A i \in 1..Len(k) : l[i] = k[i]
    BY <1>1, <1>2, <2>1
  <2> DEFINE s == Compact(h, e)
  <2>3. s \in Seq(Events) /\ Len(s) = Len(k) /\ \A i \in 1..Len(k) : s[i] = h[k[i]]
    <3>1. s \in Seq(Events) /\ DOMAIN s = 1..Len(k)
      BY <1>4, <2>1, CompactLeft
    <3> HIDE DEF s
    <3>2. Len(s) = Len(k)
      BY <2>1, <3>1
    <3> QED BY <1>4, <2>1, <3>1, <3>2 DEF s
  <2> HIDE DEF s
  <2> DEFINE a == Append(s, x)
  <2>4. /\ a \in Seq(Events) /\ DOMAIN a = 1..Len(k) + 1 /\ a[Len(k) + 1] = x
        /\ \A i \in 1..Len(k) : a[i] = s[i]
    BY <2>1, <2>3
  <2> HIDE DEF a
  <2>5. \A i \in 1..Len(k) + 1 : c[l[i]] = a[i]
    <3> SUFFICES ASSUME NEW i \in 1..Len(k) + 1 PROVE c[l[i]] = a[i]
      OBVIOUS
    <3>1. CASE i = Len(k) + 1
      BY <1>1, <2>2, <2>4, <3>1
    <3>2. CASE i \in 1..Len(k)
      <4>1. l[i] = k[i] /\ k[i] \in 1..n
        BY <1>2, <2>1, <2>2, <3>2
      <4> QED BY <1>1, <2>3, <2>4, <3>2, <4>1
    <3> QED BY <2>1, <3>1, <3>2
  <2>6. Compact(c, e) = a
    <3>1. Compact(c, e) = [i \in 1..Len(k) + 1 |-> c[l[i]]]
      BY <1>4, <2>2
    <3>2. a = [i \in 1..Len(k) + 1 |-> a[i]]
      BY <2>4
    <3> QED BY <2>5, <3>1, <3>2
  <2> QED BY <1>6, <2>6 DEF a, c, n, s
<1> QED BY <1>5, <1>6

-----------------------------------------------------------------------------
(* Rows, and what is left of them without one episode.                     *)

ReceiptTables == [Receipts -> Row(ApprovalBindings)]
DecisionTables == [Tokens -> Row(ActionBindings)]

LEMMA RowShape ==
  ASSUME NEW B, NEW row \in Row(B)
  PROVE  /\ row = AbsentRow <=> row.state = "absent"
         /\ row # AbsentRow => row.binding \in B
BY DEF Row, AbsentRow

\* Inserting a row of one episode, seen without an episode.
LEMMA InsertKeeps ==
  ASSUME NEW I, NEW B, NEW rows \in [I -> Row(B)], NEW id \in I, rows[id] = AbsentRow,
         NEW x, x.binding \in B, x.expires \in Nat, NEW e
  PROVE  /\ Insert(rows, id, x) \in [I -> Row(B)]
         /\ Insert(rows, id, x)[id] # AbsentRow /\ Insert(rows, id, x)[id].binding = x.binding
         /\ \A j \in I \ {id} : Insert(rows, id, x)[j] = rows[j]
         /\ Keep(rows, e)[id] = AbsentRow
         /\ Keep(Insert(rows, id, x), e) =
              IF x.binding.episode = e THEN Keep(rows, e) ELSE Insert(Keep(rows, e), id, x)
<1> DEFINE row == IssuedRow(x.binding, x.expires)
           new == Insert(rows, id, x)
<1>1. row \in Row(B) /\ row # AbsentRow /\ row.binding = x.binding
  BY RowTypes DEF IssuedRow, AbsentRow
<1> HIDE DEF row
<1>2. new = [rows EXCEPT ![id] = row]
  BY DEF Insert, row
<1>3. new \in [I -> Row(B)] /\ new[id] = row /\ \A j \in I \ {id} : new[j] = rows[j]
  BY <1>1, <1>2
<1>4. Keep(rows, e) = [j \in I |-> IF rows[j] # AbsentRow /\ rows[j].binding.episode = e THEN AbsentRow ELSE rows[j]]
  BY DEF Keep
<1>5. Keep(new, e) = [j \in I |-> IF new[j] # AbsentRow /\ new[j].binding.episode = e THEN AbsentRow ELSE new[j]]
  BY <1>3 DEF Keep
<1>6. Keep(rows, e)[id] = AbsentRow
  BY <1>4
<1>7. CASE x.binding.episode = e
  BY <1>1, <1>3, <1>4, <1>5, <1>6, <1>7
<1>8. CASE x.binding.episode # e
  <2>1. Insert(Keep(rows, e), id, x) = [Keep(rows, e) EXCEPT ![id] = row]
    BY DEF Insert, row
  <2>2. Keep(new, e) = [Keep(rows, e) EXCEPT ![id] = row]
    BY <1>1, <1>3, <1>4, <1>5, <1>8
  <2> QED BY <1>1, <1>3, <1>6, <1>8, <2>1, <2>2
<1> QED BY <1>7, <1>8

\* Settling a row of one episode, seen without an episode.
LEMMA SettleKeeps ==
  ASSUME NEW I, NEW B, NEW rows \in [I -> Row(B)], NEW id \in I, rows[id] # AbsentRow,
         NEW state \in RowStates \ {"absent"}, NEW e
  PROVE  /\ Settle(rows, id, state) \in [I -> Row(B)]
         /\ \A j \in I : /\ Settle(rows, id, state)[j] = AbsentRow <=> rows[j] = AbsentRow
                         /\ Settle(rows, id, state)[j].binding = rows[j].binding
         /\ Keep(Settle(rows, id, state), e) =
              IF rows[id].binding.episode = e THEN Keep(rows, e) ELSE Settle(Keep(rows, e), id, state)
<1> DEFINE row == [rows[id] EXCEPT !.state = state]
           new == Settle(rows, id, state)
           left == Keep(rows, e)
<1>0. /\ rows[id] \in [state : RowStates \ {"absent"}, binding : B, expires : Nat]
      /\ AbsentRow.state = "absent"
  BY DEF Row, AbsentRow
<1>1. row \in Row(B) /\ row # AbsentRow /\ row.binding = rows[id].binding
  BY <1>0 DEF Row
<1>2. left = [j \in I |-> IF rows[j] # AbsentRow /\ rows[j].binding.episode = e THEN AbsentRow ELSE rows[j]]
  BY DEF Keep
<1>3. CASE rows[id].state # "issued"
  <2>1. new = rows
    BY <1>3 DEF Settle
  <2>2. left[id].state # "issued"
    BY <1>0, <1>2, <1>3
  <2>3. Settle(left, id, state) = left
    BY <2>2 DEF Settle
  <2> QED BY <2>1, <2>3
<1>4. CASE rows[id].state = "issued"
  <2>1. new = [rows EXCEPT ![id].state = state]
    BY <1>4 DEF Settle
  <2> HIDE DEF new
  <2>2. new = [rows EXCEPT ![id] = row]
    BY <2>1
  <2> HIDE DEF row
  <2>3. new \in [I -> Row(B)] /\ new[id] = row /\ \A j \in I \ {id} : new[j] = rows[j]
    BY <1>1, <2>2
  <2>4. Keep(new, e) = [j \in I |-> IF new[j] # AbsentRow /\ new[j].binding.episode = e THEN AbsentRow ELSE new[j]]
    BY <2>3 DEF Keep
  <2>5. CASE rows[id].binding.episode = e
    <3>1. Keep(new, e) = left
      BY <1>1, <1>2, <2>3, <2>4, <2>5
    <3> QED BY <1>1, <2>3, <2>5, <3>1 DEF new
  <2>6. CASE rows[id].binding.episode # e
    <3>1. left[id] = rows[id] /\ DOMAIN left = I
      BY <1>2, <2>6
    <3> HIDE DEF left
    <3>2. Settle(left, id, state) = [left EXCEPT ![id].state = state]
      BY <1>4, <3>1 DEF Settle
    <3>3. [left EXCEPT ![id].state = state] = [left EXCEPT ![id] = row]
      BY <3>1 DEF row
    <3>4. Keep(new, e) = [left EXCEPT ![id] = row]
      BY <1>1, <1>2, <2>3, <2>4, <2>6
    <3> QED BY <1>1, <2>3, <2>6, <3>2, <3>3, <3>4 DEF new, left
  <2> QED BY <2>5, <2>6
<1> QED BY <1>3, <1>4

\* A denial, row by row.
Denied(row, b) ==
  IF row.binding = b /\ row.state = "issued" THEN [row EXCEPT !.state = "revoked"] ELSE row
DeniedAll(rows, b) == [r \in Receipts |-> Denied(rows[r], b)]

LEMMA DeniedKeeps ==
  ASSUME NEW rows \in ReceiptTables, NEW b \in ApprovalBindings, NEW e
  PROVE  /\ DeniedAll(rows, b) \in ReceiptTables
         /\ \A j \in Receipts : /\ DeniedAll(rows, b)[j] = AbsentRow <=> rows[j] = AbsentRow
                                /\ DeniedAll(rows, b)[j].binding = rows[j].binding
         /\ Keep(DeniedAll(rows, b), e) =
              IF b.episode = e THEN Keep(rows, e) ELSE DeniedAll(Keep(rows, e), b)
<1> DEFINE new == DeniedAll(rows, b)
<1>1. ASSUME NEW j \in Receipts
      PROVE  /\ Denied(rows[j], b) \in Row(ApprovalBindings)
             /\ Denied(rows[j], b) = AbsentRow <=> rows[j] = AbsentRow
             /\ Denied(rows[j], b).binding = rows[j].binding
             /\ Denied(rows[j], b) # rows[j] => rows[j] # AbsentRow /\ rows[j].binding = b
  BY DEF ReceiptTables, Denied, Row, AbsentRow, RowStates
<1>2. Denied(AbsentRow, b) = AbsentRow
  BY DEF Denied, AbsentRow
<1>3. /\ new \in ReceiptTables
      /\ \A j \in Receipts : new[j] = Denied(rows[j], b)
  BY <1>1 DEF ReceiptTables, DeniedAll
<1>4. Keep(rows, e) = [j \in Receipts |-> IF rows[j] # AbsentRow /\ rows[j].binding.episode = e THEN AbsentRow ELSE rows[j]]
  BY DEF Keep, ReceiptTables
<1>5. Keep(new, e) = [j \in Receipts |-> IF new[j] # AbsentRow /\ new[j].binding.episode = e THEN AbsentRow ELSE new[j]]
  BY <1>3 DEF Keep, ReceiptTables
<1> HIDE DEF new
<1>6. CASE b.episode = e
  BY <1>1, <1>3, <1>4, <1>5, <1>6 DEF new
<1>7. CASE b.episode # e
  <2>1. DeniedAll(Keep(rows, e), b) = [j \in Receipts |-> Denied(Keep(rows, e)[j], b)]
    BY DEF DeniedAll
  <2>2. ASSUME NEW j \in Receipts PROVE Keep(new, e)[j] = Denied(Keep(rows, e)[j], b)
    BY <1>1, <1>2, <1>3, <1>4, <1>5, <1>7
  <2>3. Keep(new, e) = DeniedAll(Keep(rows, e), b)
    BY <1>5, <2>1, <2>2
  <2> QED BY <1>1, <1>3, <1>7, <2>3 DEF new
<1> QED BY <1>6, <1>7

-----------------------------------------------------------------------------
(* One event replayed.                                                     *)

ReceiptKinds == {"APPROVAL_RECEIPT_CONSUMED", "APPROVAL_RECEIPT_EXPIRED", "APPROVAL_RECEIPT_REVOKED"}
DecisionKinds == {"ACTION_DECISION_CONSUMED", "ACTION_DECISION_EXPIRED", "ACTION_DECISION_REVOKED"}

\* The fields each kind of event has.
LEMMA EventShapes ==
  ASSUME NEW x \in Events
  PROVE  /\ x.kind \in {"APPROVAL_RECEIPT_ISSUED", "APPROVAL_RECEIPT_DENIED", "ACTION_DECISION_ISSUED",
                        "ACTION_DECISION_REJECTED"} \cup ReceiptKinds \cup DecisionKinds
         /\ x.kind = "APPROVAL_RECEIPT_ISSUED" =>
              /\ Has(x, "receipt") /\ Has(x, "binding") /\ ~Has(x, "token")
              /\ x.receipt \in Receipts /\ x.binding \in ApprovalBindings /\ x.expires \in Nat
         /\ x.kind = "APPROVAL_RECEIPT_DENIED" =>
              ~Has(x, "receipt") /\ ~Has(x, "token") /\ Has(x, "binding") /\ x.binding \in ApprovalBindings
         /\ x.kind \in ReceiptKinds =>
              Has(x, "receipt") /\ ~Has(x, "token") /\ ~Has(x, "binding") /\ x.receipt \in Receipts
         /\ x.kind = "ACTION_DECISION_ISSUED" =>
              /\ Has(x, "token") /\ Has(x, "binding") /\ ~Has(x, "receipt")
              /\ x.token \in Tokens /\ x.binding \in ActionBindings /\ x.expires \in Nat
         /\ x.kind \in DecisionKinds =>
              Has(x, "token") /\ ~Has(x, "receipt") /\ ~Has(x, "binding") /\ x.token \in Tokens
         /\ x.kind = "ACTION_DECISION_REJECTED" =>
              /\ Has(x, "token") /\ ~Has(x, "receipt") /\ x.token \in Tokens
              /\ Has(x, "binding") => x.binding \in ActionBindings
BY DEF Events, Has, ReceiptKinds, DecisionKinds

\* Tables that were rebuilt without an error.
Good(R, D) == Tables(R, D, TRUE)

\* One turn of the loop, kind by kind, on tables rebuilt without an error.
LEMMA ReplayedIs ==
  ASSUME NEW R, NEW D, NEW x
  PROVE  /\ x.kind = "APPROVAL_RECEIPT_ISSUED" /\ R[x.receipt] = AbsentRow =>
              Replayed(Good(R, D), x) = Good(Insert(R, x.receipt, x), D)
         /\ x.kind = "APPROVAL_RECEIPT_DENIED" /\ DOMAIN R = Receipts =>
              Replayed(Good(R, D), x) = Good(DeniedAll(R, x.binding), D)
         /\ x.kind \in ReceiptKinds =>
              Replayed(Good(R, D), x) = Good(Settle(R, x.receipt, ReceiptStateOf[x.kind]), D)
         /\ x.kind = "ACTION_DECISION_ISSUED" /\ D[x.token] = AbsentRow =>
              Replayed(Good(R, D), x) = Good(R, Insert(D, x.token, x))
         /\ x.kind \in DecisionKinds =>
              Replayed(Good(R, D), x) = Good(R, Settle(D, x.token, DecisionStateOf[x.kind]))
         /\ x.kind = "ACTION_DECISION_REJECTED" => Replayed(Good(R, D), x) = Good(R, D)
<1>0. DOMAIN ReceiptStateOf = ReceiptKinds /\ DOMAIN DecisionStateOf = DecisionKinds
  BY DEF ReceiptStateOf, DecisionStateOf, ReceiptKinds, DecisionKinds
<1> DEFINE yes == TRUE
           T == Tables(R, D, yes)
<1> HIDE DEF yes
<1>1. T.receipts = R /\ T.decisions = D /\ T.ok = TRUE
  BY DEF Tables, yes
<1>2. /\ \A r : [T EXCEPT !.receipts = r] = Tables(r, D, yes)
      /\ \A d : [T EXCEPT !.decisions = d] = Tables(R, d, yes)
  <2>1. ASSUME NEW r PROVE [T EXCEPT !.receipts = r] = Tables(r, D, yes)
    BY DEF Tables
  <2>2. ASSUME NEW d PROVE [T EXCEPT !.decisions = d] = Tables(R, d, yes)
    BY DEF Tables
  <2> QED BY <2>1, <2>2
<1>3. DOMAIN R = Receipts =>
        [T EXCEPT !.receipts = [r \in Receipts |-> IF @[r].binding = x.binding
                                                   THEN Settle(@, r, "revoked")[r] ELSE @[r]]]
          = Tables(DeniedAll(R, x.binding), D, yes)
  <2> SUFFICES ASSUME DOMAIN R = Receipts
               PROVE  [r \in Receipts |-> IF T.receipts[r].binding = x.binding
                                          THEN Settle(T.receipts, r, "revoked")[r] ELSE T.receipts[r]]
                        = DeniedAll(R, x.binding)
    BY <1>2
  <2>1. \A r \in Receipts : (IF R[r].binding = x.binding THEN Settle(R, r, "revoked")[r] ELSE R[r])
                              = Denied(R[r], x.binding)
    BY DEF Denied, Settle
  <2> HIDE DEF T
  <2> QED BY <1>1, <2>1 DEF DeniedAll
<1>4. ASSUME x.kind = "APPROVAL_RECEIPT_ISSUED", R[x.receipt] = AbsentRow
      PROVE  Replayed(T, x) = Tables(Insert(R, x.receipt, x), D, yes)
  <2>1. Replayed(T, x) = Tables(Insert(T.receipts, x.receipt, x), T.decisions,
                                T.ok /\ T.receipts[x.receipt] = AbsentRow)
    BY <1>0, <1>4 DEF Replayed, ReceiptKinds, DecisionKinds
  <2>2. (T.ok /\ T.receipts[x.receipt] = AbsentRow) = TRUE
    BY <1>1, <1>4
  <2> QED BY <1>1, <2>1, <2>2 DEF yes
<1>5. ASSUME x.kind = "APPROVAL_RECEIPT_DENIED", DOMAIN R = Receipts
      PROVE  Replayed(T, x) = Tables(DeniedAll(R, x.binding), D, yes)
  BY <1>0, <1>1, <1>2, <1>3, <1>5 DEF Replayed, ReceiptKinds, DecisionKinds
<1>6. ASSUME x.kind \in ReceiptKinds
      PROVE  Replayed(T, x) = Tables(Settle(R, x.receipt, ReceiptStateOf[x.kind]), D, yes)
  BY <1>0, <1>1, <1>2, <1>6 DEF Replayed, ReceiptKinds, DecisionKinds
<1>7. ASSUME x.kind = "ACTION_DECISION_ISSUED", D[x.token] = AbsentRow
      PROVE  Replayed(T, x) = Tables(R, Insert(D, x.token, x), yes)
  <2>1. Replayed(T, x) = Tables(T.receipts, Insert(T.decisions, x.token, x),
                                T.ok /\ T.decisions[x.token] = AbsentRow)
    BY <1>0, <1>7 DEF Replayed, ReceiptKinds, DecisionKinds
  <2>2. (T.ok /\ T.decisions[x.token] = AbsentRow) = TRUE
    BY <1>1, <1>7
  <2> QED BY <1>1, <2>1, <2>2 DEF yes
<1>8. ASSUME x.kind \in DecisionKinds
      PROVE  Replayed(T, x) = Tables(R, Settle(D, x.token, DecisionStateOf[x.kind]), yes)
  BY <1>0, <1>1, <1>2, <1>8 DEF Replayed, ReceiptKinds, DecisionKinds
<1>9. ASSUME x.kind = "ACTION_DECISION_REJECTED"
      PROVE  Replayed(T, x) = T
  BY <1>0, <1>9 DEF Replayed, ReceiptKinds, DecisionKinds
<1> QED BY <1>4, <1>5, <1>6, <1>7, <1>8, <1>9 DEF yes, Good

\* What an event does to either table.
ReceiptsAfter(R, x) ==
  IF x.kind = "APPROVAL_RECEIPT_ISSUED" THEN Insert(R, x.receipt, x)
  ELSE IF x.kind = "APPROVAL_RECEIPT_DENIED" THEN DeniedAll(R, x.binding)
  ELSE IF x.kind \in ReceiptKinds THEN Settle(R, x.receipt, ReceiptStateOf[x.kind])
  ELSE R
DecisionsAfter(D, x) ==
  IF x.kind = "ACTION_DECISION_ISSUED" THEN Insert(D, x.token, x)
  ELSE IF x.kind \in DecisionKinds THEN Settle(D, x.token, DecisionStateOf[x.kind])
  ELSE D

Unseen(h, t) == \A i \in DOMAIN h : Has(h[i], "token") => h[i].token # t

\* The events a transaction may write in these tables.
Possible(h, R, D, x) ==
  /\ x.kind = "APPROVAL_RECEIPT_ISSUED" => R[x.receipt] = AbsentRow
  /\ x.kind \in ReceiptKinds => R[x.receipt] # AbsentRow
  /\ x.kind = "ACTION_DECISION_ISSUED" => D[x.token] = AbsentRow /\ Unseen(h, x.token)
  /\ x.kind \in DecisionKinds => D[x.token] # AbsentRow
  /\ x.kind = "ACTION_DECISION_REJECTED" /\ Has(x, "binding") => D[x.token] = AbsentRow

\* The episode whose rows the event is about, if it is about any.
Owner(R, D, x, ep) ==
  /\ Has(x, "binding") => ep = x.binding.episode
  /\ Has(x, "receipt") /\ ~Has(x, "binding") /\ R[x.receipt] # AbsentRow => ep = R[x.receipt].binding.episode
  /\ Has(x, "token") /\ ~Has(x, "binding") /\ D[x.token] # AbsentRow => ep = D[x.token].binding.episode

\* Rows stay, with their bindings, and a new one is the event's.
RowsGrow(ids, rows, later, fresh, id, x) ==
  \A i \in ids :
    /\ rows[i] # AbsentRow => later[i] # AbsentRow /\ later[i].binding = rows[i].binding
    /\ later[i] # AbsentRow /\ rows[i] = AbsentRow => fresh /\ i = id /\ later[i].binding = x.binding

\* An event seen from an episode other than e changes what is left without e as it
\* changes the tables, and one of e changes nothing there.
Plays(R, D, x, e, ep) ==
  LET R2 == ReceiptsAfter(R, x)
      D2 == DecisionsAfter(D, x)
  IN
  /\ R2 \in ReceiptTables /\ D2 \in DecisionTables
  /\ Replayed(Good(R, D), x) = Good(R2, D2)
  /\ ep = e => Keep(R2, e) = Keep(R, e) /\ Keep(D2, e) = Keep(D, e)
  /\ ep # e => Replayed(Good(Keep(R, e), Keep(D, e)), x) = Good(Keep(R2, e), Keep(D2, e))
  /\ RowsGrow(Receipts, R, R2, x.kind = "APPROVAL_RECEIPT_ISSUED", x.receipt, x)
  /\ RowsGrow(Tokens, D, D2, x.kind = "ACTION_DECISION_ISSUED", x.token, x)

LEMMA RowsSame == ASSUME NEW ids, NEW rows, NEW fresh, NEW id, NEW x PROVE RowsGrow(ids, rows, rows, fresh, id, x)
BY DEF RowsGrow

LEMMA StatesOf ==
  /\ \A kind \in ReceiptKinds : ReceiptStateOf[kind] \in RowStates \ {"absent"}
  /\ \A kind \in DecisionKinds : DecisionStateOf[kind] \in RowStates \ {"absent"}
BY DEF ReceiptKinds, DecisionKinds, ReceiptStateOf, DecisionStateOf, RowStates

\* Every event the tables allow does so.
LEMMA EventPlays ==
  ASSUME NEW h, NEW R \in ReceiptTables, NEW D \in DecisionTables, NEW x \in Events,
         Possible(h, R, D, x), NEW e, NEW ep, Owner(R, D, x, ep)
  PROVE  Plays(R, D, x, e, ep)
<1> DEFINE R2 == ReceiptsAfter(R, x)
           D2 == DecisionsAfter(D, x)
           R0 == Keep(R, e)
           D0 == Keep(D, e)
<1>0. DOMAIN R = Receipts /\ DOMAIN D = Tokens /\ DOMAIN R0 = Receipts /\ DOMAIN D0 = Tokens
  BY DEF ReceiptTables, DecisionTables, Keep
<1>1. CASE x.kind = "APPROVAL_RECEIPT_ISSUED"
  <2>1. x.receipt \in Receipts /\ x.binding \in ApprovalBindings /\ x.expires \in Nat /\ R[x.receipt] = AbsentRow
        /\ ep = x.binding.episode
    BY <1>1, EventShapes DEF Possible, Owner
  <2>2. R2 = Insert(R, x.receipt, x) /\ D2 = D
    BY <1>1 DEF ReceiptsAfter, DecisionsAfter, DecisionKinds
  <2> HIDE DEF R2, D2
  <2>3. /\ R2 \in ReceiptTables /\ R2[x.receipt] # AbsentRow /\ R2[x.receipt].binding = x.binding
        /\ \A r \in Receipts \ {x.receipt} : R2[r] = R[r]
        /\ R0[x.receipt] = AbsentRow
        /\ Keep(R2, e) = IF ep = e THEN R0 ELSE Insert(R0, x.receipt, x)
    BY <2>1, <2>2, InsertKeeps DEF ReceiptTables
  <2>4. RowsGrow(Receipts, R, R2, TRUE, x.receipt, x)
    BY <2>1, <2>3 DEF RowsGrow
  <2>5. Replayed(Good(R, D), x) = Good(R2, D2)
    BY <1>1, <2>1, <2>2, ReplayedIs
  <2> HIDE DEF R0, D0
  <2>6. ep # e => Replayed(Good(R0, D0), x) = Good(Insert(R0, x.receipt, x), D0)
    BY <1>1, <2>3, ReplayedIs
  <2> QED BY <1>1, <2>2, <2>3, <2>4, <2>5, <2>6, RowsSame DEF Plays, R2, D2, R0, D0
<1>2. CASE x.kind = "APPROVAL_RECEIPT_DENIED"
  <2>1. x.binding \in ApprovalBindings /\ ep = x.binding.episode
    BY <1>2, EventShapes DEF Owner
  <2>2. R2 = DeniedAll(R, x.binding) /\ D2 = D
    BY <1>2 DEF ReceiptsAfter, DecisionsAfter, DecisionKinds
  <2> HIDE DEF R2, D2
  <2>3. /\ R2 \in ReceiptTables
        /\ \A r \in Receipts : (R2[r] = AbsentRow <=> R[r] = AbsentRow) /\ R2[r].binding = R[r].binding
        /\ Keep(R2, e) = IF ep = e THEN R0 ELSE DeniedAll(R0, x.binding)
    BY <2>1, <2>2, DeniedKeeps
  <2>4. RowsGrow(Receipts, R, R2, FALSE, x.receipt, x)
    BY <2>3 DEF RowsGrow
  <2>5. Replayed(Good(R, D), x) = Good(R2, D2)
    BY <1>0, <1>2, <2>2, ReplayedIs
  <2> HIDE DEF R0, D0
  <2>6. Replayed(Good(R0, D0), x) = Good(DeniedAll(R0, x.binding), D0)
    BY <1>0, <1>2, ReplayedIs
  <2> QED BY <1>2, <2>2, <2>3, <2>4, <2>5, <2>6, RowsSame DEF Plays, R2, D2, R0, D0
<1>3. CASE x.kind \in ReceiptKinds
  <2>1. x.receipt \in Receipts /\ R[x.receipt] # AbsentRow /\ ep = R[x.receipt].binding.episode
    BY <1>3, EventShapes DEF Possible, Owner
  <2> DEFINE state == ReceiptStateOf[x.kind]
  <2>2. state \in RowStates \ {"absent"}
    BY <1>3, StatesOf
  <2>3. R2 = Settle(R, x.receipt, state) /\ D2 = D
    BY <1>3 DEF ReceiptsAfter, DecisionsAfter, ReceiptKinds, DecisionKinds
  <2>4. Replayed(Good(R, D), x) = Good(Settle(R, x.receipt, state), D)
    BY <1>3, ReplayedIs
  <2>5. Replayed(Good(R0, D0), x) = Good(Settle(R0, x.receipt, state), D0)
    BY <1>3, ReplayedIs
  <2> HIDE DEF R2, D2, state, R0, D0
  <2>6. /\ R2 \in ReceiptTables
        /\ \A r \in Receipts : (R2[r] = AbsentRow <=> R[r] = AbsentRow) /\ R2[r].binding = R[r].binding
        /\ Keep(R2, e) = IF ep = e THEN R0 ELSE Settle(R0, x.receipt, state)
    BY <2>1, <2>2, <2>3, SettleKeeps DEF ReceiptTables, R0
  <2>7. RowsGrow(Receipts, R, R2, x.kind = "APPROVAL_RECEIPT_ISSUED", x.receipt, x)
    BY <2>6 DEF RowsGrow
  <2> QED BY <1>3, <2>3, <2>4, <2>5, <2>6, <2>7, RowsSame DEF Plays, R2, D2, R0, D0
<1>4. CASE x.kind = "ACTION_DECISION_ISSUED"
  <2>1. x.token \in Tokens /\ x.binding \in ActionBindings /\ x.expires \in Nat /\ D[x.token] = AbsentRow
        /\ ep = x.binding.episode
    BY <1>4, EventShapes DEF Possible, Owner
  <2>2. R2 = R /\ D2 = Insert(D, x.token, x)
    BY <1>4 DEF ReceiptsAfter, DecisionsAfter, ReceiptKinds
  <2> HIDE DEF R2, D2
  <2>3. /\ D2 \in DecisionTables /\ D2[x.token] # AbsentRow /\ D2[x.token].binding = x.binding
        /\ \A t \in Tokens \ {x.token} : D2[t] = D[t]
        /\ D0[x.token] = AbsentRow
        /\ Keep(D2, e) = IF ep = e THEN D0 ELSE Insert(D0, x.token, x)
    BY <2>1, <2>2, InsertKeeps DEF DecisionTables
  <2>4. RowsGrow(Tokens, D, D2, TRUE, x.token, x)
    BY <2>1, <2>3 DEF RowsGrow
  <2>5. Replayed(Good(R, D), x) = Good(R2, D2)
    BY <1>4, <2>1, <2>2, ReplayedIs
  <2> HIDE DEF R0, D0
  <2>6. ep # e => Replayed(Good(R0, D0), x) = Good(R0, Insert(D0, x.token, x))
    BY <1>4, <2>3, ReplayedIs
  <2> QED BY <1>4, <2>2, <2>3, <2>4, <2>5, <2>6, RowsSame DEF Plays, R2, D2, R0, D0
<1>5. CASE x.kind \in DecisionKinds
  <2>1. x.token \in Tokens /\ D[x.token] # AbsentRow /\ ep = D[x.token].binding.episode
    BY <1>5, EventShapes DEF Possible, Owner
  <2> DEFINE state == DecisionStateOf[x.kind]
  <2>2. state \in RowStates \ {"absent"}
    BY <1>5, StatesOf
  <2>3. R2 = R /\ D2 = Settle(D, x.token, state)
    BY <1>5 DEF ReceiptsAfter, DecisionsAfter, ReceiptKinds, DecisionKinds
  <2>4. Replayed(Good(R, D), x) = Good(R, Settle(D, x.token, state))
    BY <1>5, ReplayedIs
  <2>5. Replayed(Good(R0, D0), x) = Good(R0, Settle(D0, x.token, state))
    BY <1>5, ReplayedIs
  <2> HIDE DEF R2, D2, state, R0, D0
  <2>6. /\ D2 \in DecisionTables
        /\ \A t \in Tokens : (D2[t] = AbsentRow <=> D[t] = AbsentRow) /\ D2[t].binding = D[t].binding
        /\ Keep(D2, e) = IF ep = e THEN D0 ELSE Settle(D0, x.token, state)
    BY <2>1, <2>2, <2>3, SettleKeeps DEF DecisionTables, D0
  <2>7. RowsGrow(Tokens, D, D2, x.kind = "ACTION_DECISION_ISSUED", x.token, x)
    BY <2>6 DEF RowsGrow
  <2> QED BY <1>5, <2>3, <2>4, <2>5, <2>6, <2>7, RowsSame DEF Plays, R2, D2, R0, D0
<1>6. CASE x.kind = "ACTION_DECISION_REJECTED"
  <2>1. R2 = R /\ D2 = D
    BY <1>6 DEF ReceiptsAfter, DecisionsAfter, ReceiptKinds, DecisionKinds
  <2>2. Replayed(Good(R, D), x) = Good(R, D)
    BY <1>6, ReplayedIs
  <2>3. Replayed(Good(R0, D0), x) = Good(R0, D0)
    BY <1>6, ReplayedIs
  <2> HIDE DEF R2, D2, R0, D0
  <2> QED BY <2>1, <2>2, <2>3, RowsSame DEF Plays, R2, D2, R0, D0
<1> QED BY <1>1, <1>2, <1>3, <1>4, <1>5, <1>6, EventShapes

-----------------------------------------------------------------------------
(* The log reflects the tables, and so does what compaction leaves of it.  *)

\* Every event about a row belongs to the episode of the row.
Owned(h, R, D) ==
  \A i \in DOMAIN h :
    /\ Has(h[i], "receipt") =>
         R[h[i].receipt] # AbsentRow /\ R[h[i].receipt].binding.episode = EpisodeOf(h, i)
    /\ Has(h[i], "token") /\ D[h[i].token] # AbsentRow =>
         D[h[i].token].binding.episode = EpisodeOf(h, i)

\* Every row was bound by an event.
Rooted(h, R, D) ==
  /\ \A r \in Receipts : R[r] # AbsentRow =>
       \E i \in DOMAIN h : Has(h[i], "receipt") /\ Has(h[i], "binding") /\ h[i].receipt = r
  /\ \A t \in Tokens : D[t] # AbsentRow =>
       \E i \in DOMAIN h : Has(h[i], "token") /\ Has(h[i], "binding") /\ h[i].token = t

Isolated(h, R, D) == \A e \in Episodes : Rebuild(Compact(h, e)) = Good(Keep(R, e), Keep(D, e))

Reflects(h, R, D) ==
  /\ h \in Logs /\ R \in ReceiptTables /\ D \in DecisionTables
  /\ Rebuild(h) = Good(R, D)
  /\ Isolated(h, R, D)
  /\ Owned(h, R, D)
  /\ Rooted(h, R, D)

\* Compaction finds the episode a new event is about.
LEMMA OwnerOf ==
  ASSUME NEW h, NEW R, NEW D, Reflects(h, R, D), NEW x \in Events
  PROVE  Owner(R, D, x, EpisodeOf(Append(h, x), Len(h) + 1))
<1> DEFINE c == Append(h, x)
           n == Len(h)
           ep == EpisodeOf(c, n + 1)
           S == Binders(c, n + 1)
<1>1. n \in Nat /\ DOMAIN h = 1..n /\ c[n + 1] = x /\ \A i \in 1..n : c[i] = h[i]
  BY DEF Reflects, Logs
<1> HIDE DEF c, n
<1>2. Has(x, "binding") => ep = x.binding.episode
  BY <1>1, EpisodeIs
<1>3. ASSUME ~Has(x, "binding"), S # {}
      PROVE  \E j \in DOMAIN h : /\ Has(h[j], "binding") /\ SameSubject(h[j], x)
                                 /\ ep = EpisodeOf(h, j)
  <2>1. S = {j \in 1..n : Has(c[j], "binding") /\ SameSubject(c[j], x)}
    BY <1>1 DEF Binders
  <2>2. Latest(S) \in S
    BY <1>1, <1>3, <2>1, LatestIn
  <2>3. ep = c[Latest(S)].binding.episode
    BY <1>1, <1>3, EpisodeIs
  <2> HIDE DEF ep, S
  <2>4. EpisodeOf(h, Latest(S)) = h[Latest(S)].binding.episode
    BY <1>1, <2>1, <2>2, EpisodeIs
  <2> QED BY <1>1, <2>1, <2>2, <2>3, <2>4
<1>4. S = {j \in 1..n : Has(h[j], "binding") /\ SameSubject(h[j], x)}
  BY <1>1 DEF Binders
<1> HIDE DEF ep, S
<1>5. ASSUME Has(x, "receipt"), ~Has(x, "binding"), R[x.receipt] # AbsentRow
      PROVE  ep = R[x.receipt].binding.episode
  <2>1. x.receipt \in Receipts /\ ~Has(x, "token")
    BY <1>5, EventShapes
  <2>2. PICK i \in DOMAIN h : Has(h[i], "receipt") /\ Has(h[i], "binding") /\ h[i].receipt = x.receipt
    BY <1>5, <2>1 DEF Reflects, Rooted
  <2>3. S # {}
    BY <1>1, <1>4, <1>5, <2>2 DEF SameSubject
  <2>4. PICK j \in DOMAIN h : Has(h[j], "binding") /\ SameSubject(h[j], x) /\ ep = EpisodeOf(h, j)
    BY <1>3, <1>5, <2>3
  <2>5. Has(h[j], "receipt") /\ h[j].receipt = x.receipt
    BY <2>1, <2>4 DEF SameSubject
  <2> QED BY <2>4, <2>5 DEF Reflects, Owned
<1>6. ASSUME Has(x, "token"), ~Has(x, "binding"), D[x.token] # AbsentRow
      PROVE  ep = D[x.token].binding.episode
  <2>1. x.token \in Tokens /\ ~Has(x, "receipt")
    BY <1>6, EventShapes
  <2>2. PICK i \in DOMAIN h : Has(h[i], "token") /\ Has(h[i], "binding") /\ h[i].token = x.token
    BY <1>6, <2>1 DEF Reflects, Rooted
  <2>3. S # {}
    BY <1>1, <1>4, <1>6, <2>2 DEF SameSubject
  <2>4. PICK j \in DOMAIN h : Has(h[j], "binding") /\ SameSubject(h[j], x) /\ ep = EpisodeOf(h, j)
    BY <1>3, <1>6, <2>3
  <2>5. Has(h[j], "token") /\ h[j].token = x.token
    BY <2>1, <2>4 DEF SameSubject
  <2> QED BY <1>6, <2>4, <2>5 DEF Reflects, Owned
<1>7. Owner(R, D, x, ep)
  BY <1>2, <1>5, <1>6 DEF Owner
<1> QED BY <1>7 DEF ep, c, n

\* The rows of an event belong to its episode once it was written.
LEMMA EventOwns ==
  ASSUME NEW h, NEW R \in ReceiptTables, NEW D \in DecisionTables, NEW x \in Events,
         Possible(h, R, D, x), NEW ep, Owner(R, D, x, ep)
  PROVE  /\ Has(x, "receipt") => /\ ReceiptsAfter(R, x)[x.receipt] # AbsentRow
                                 /\ ReceiptsAfter(R, x)[x.receipt].binding.episode = ep
         /\ Has(x, "token") /\ DecisionsAfter(D, x)[x.token] # AbsentRow =>
              DecisionsAfter(D, x)[x.token].binding.episode = ep
<1> DEFINE R2 == ReceiptsAfter(R, x)
           D2 == DecisionsAfter(D, x)
<1>1. /\ RowsGrow(Receipts, R, R2, x.kind = "APPROVAL_RECEIPT_ISSUED", x.receipt, x)
      /\ RowsGrow(Tokens, D, D2, x.kind = "ACTION_DECISION_ISSUED", x.token, x)
  <2>1. Plays(R, D, x, None, ep)
    BY EventPlays
  <2> QED BY <2>1 DEF Plays
<1>2. x.kind = "APPROVAL_RECEIPT_ISSUED" => R2[x.receipt] # AbsentRow /\ R2[x.receipt].binding = x.binding
  <2> SUFFICES ASSUME x.kind = "APPROVAL_RECEIPT_ISSUED"
               PROVE  R2[x.receipt] # AbsentRow /\ R2[x.receipt].binding = x.binding
    OBVIOUS
  <2>1. x.receipt \in Receipts /\ x.binding \in ApprovalBindings /\ x.expires \in Nat /\ R[x.receipt] = AbsentRow
    BY EventShapes DEF Possible
  <2>2. R2 = Insert(R, x.receipt, x)
    BY DEF ReceiptsAfter
  <2> HIDE DEF R2
  <2> QED BY <2>1, <2>2, InsertKeeps DEF ReceiptTables
<1> HIDE DEF R2, D2
<1>3. ASSUME Has(x, "receipt") PROVE R2[x.receipt] # AbsentRow /\ R2[x.receipt].binding.episode = ep
  <2>1. CASE x.kind = "APPROVAL_RECEIPT_ISSUED"
    <3>1. ep = x.binding.episode
      BY <2>1, EventShapes DEF Owner
    <3> QED BY <1>2, <2>1, <3>1
  <2>2. CASE x.kind # "APPROVAL_RECEIPT_ISSUED"
    <3>1. x.kind \in ReceiptKinds
      BY <1>3, <2>2, EventShapes
    <3>2. x.receipt \in Receipts /\ ~Has(x, "binding") /\ R[x.receipt] # AbsentRow
      BY <3>1, EventShapes DEF Possible
    <3> QED BY <1>1, <1>3, <3>2 DEF RowsGrow, Owner
  <2> QED BY <2>1, <2>2
<1>4. ASSUME Has(x, "token"), D2[x.token] # AbsentRow PROVE D2[x.token].binding.episode = ep
  <2>0. x.token \in Tokens
    BY <1>4, EventShapes
  <2>1. CASE D[x.token] = AbsentRow
    <3>1. x.kind = "ACTION_DECISION_ISSUED" /\ D2[x.token].binding = x.binding
      BY <1>1, <1>4, <2>0, <2>1 DEF RowsGrow
    <3> QED BY <3>1, EventShapes DEF Owner
  <2>2. CASE D[x.token] # AbsentRow
    <3>1. ~Has(x, "binding")
      BY <1>4, <2>2, EventShapes DEF Possible
    <3> QED BY <1>1, <1>4, <2>0, <2>2, <3>1 DEF RowsGrow, Owner
  <2> QED BY <2>1, <2>2
<1> QED BY <1>3, <1>4 DEF R2, D2

\* Writing one event the tables allow, and changing the tables as it says.
LEMMA EventNext ==
  ASSUME NEW h, NEW R, NEW D, Reflects(h, R, D), NEW x \in Events, Possible(h, R, D, x)
  PROVE  Reflects(Append(h, x), ReceiptsAfter(R, x), DecisionsAfter(D, x))
<1> DEFINE c == Append(h, x)
           n == Len(h)
           ep == EpisodeOf(c, n + 1)
           R2 == ReceiptsAfter(R, x)
           D2 == DecisionsAfter(D, x)
<1>0. h \in Seq(Events) /\ R \in ReceiptTables /\ D \in DecisionTables /\ Owned(h, R, D) /\ Rooted(h, R, D)
  BY DEF Reflects, Logs
<1>1. /\ n \in Nat /\ DOMAIN h = 1..n /\ DOMAIN c = 1..n + 1 /\ c \in Logs
      /\ c[n + 1] = x /\ \A i \in 1..n : c[i] = h[i]
  BY <1>0 DEF Logs
<1>2. Owner(R, D, x, ep)
  BY OwnerOf
<1>3. \A e : Plays(R, D, x, e, ep)
  BY <1>0, <1>2, EventPlays
<1>4. /\ R2 \in ReceiptTables /\ D2 \in DecisionTables
      /\ RowsGrow(Receipts, R, R2, x.kind = "APPROVAL_RECEIPT_ISSUED", x.receipt, x)
      /\ RowsGrow(Tokens, D, D2, x.kind = "ACTION_DECISION_ISSUED", x.token, x)
  BY <1>3 DEF Plays
<1>5. Rebuild(c) = Good(R2, D2)
  <2>1. Rebuild(c) = Replayed(Rebuild(h), x)
    BY <1>0, RebuildNext DEF Logs
  <2>2. Rebuild(h) = Good(R, D)
    BY DEF Reflects
  <2>3. Replayed(Good(R, D), x) = Good(R2, D2)
    BY <1>3 DEF Plays
  <2> QED BY <2>1, <2>2, <2>3
<1>6. Isolated(c, R2, D2)
  <2> SUFFICES ASSUME NEW e \in Episodes PROVE Rebuild(Compact(c, e)) = Good(Keep(R2, e), Keep(D2, e))
    BY DEF Isolated
  <2>1. Rebuild(Compact(h, e)) = Good(Keep(R, e), Keep(D, e))
    BY DEF Reflects, Isolated
  <2>2. Compact(c, e) = IF ep # e THEN Append(Compact(h, e), x) ELSE Compact(h, e)
    BY <1>0, CompactNext
  <2>3. Plays(R, D, x, e, ep)
    BY <1>3
  <2>4. CASE ep = e
    <3>1. Keep(R2, e) = Keep(R, e) /\ Keep(D2, e) = Keep(D, e)
      BY <2>3, <2>4 DEF Plays
    <3> QED BY <2>1, <2>2, <2>4, <3>1
  <2>5. CASE ep # e
    <3>1. Compact(h, e) \in Logs
      BY <1>0, CompactLeft DEF Logs
    <3>2. Rebuild(Append(Compact(h, e), x)) = Replayed(Rebuild(Compact(h, e)), x)
      BY <3>1, RebuildNext
    <3>3. Replayed(Good(Keep(R, e), Keep(D, e)), x) = Good(Keep(R2, e), Keep(D2, e))
      BY <2>3, <2>5 DEF Plays
    <3> QED BY <2>1, <2>2, <2>5, <3>2, <3>3
  <2> QED BY <2>4, <2>5
<1>7. /\ Has(x, "receipt") => R2[x.receipt] # AbsentRow /\ R2[x.receipt].binding.episode = ep
      /\ Has(x, "token") /\ D2[x.token] # AbsentRow => D2[x.token].binding.episode = ep
  BY <1>0, <1>2, EventOwns
<1>8. \A i \in 1..n : EpisodeOf(c, i) = EpisodeOf(h, i) /\ h[i] \in Events
  BY <1>0, EpisodeStays
<1>9. Owned(c, R2, D2)
  <2> SUFFICES ASSUME NEW i \in 1..n + 1
               PROVE  /\ Has(c[i], "receipt") =>
                           R2[c[i].receipt] # AbsentRow /\ R2[c[i].receipt].binding.episode = EpisodeOf(c, i)
                      /\ Has(c[i], "token") /\ D2[c[i].token] # AbsentRow =>
                           D2[c[i].token].binding.episode = EpisodeOf(c, i)
    BY <1>1 DEF Owned
  <2>1. CASE i = n + 1
    BY <1>1, <1>7, <2>1
  <2>2. CASE i \in 1..n
    <3> DEFINE y == h[i]
    <3>1. y \in Events /\ c[i] = y /\ EpisodeOf(c, i) = EpisodeOf(h, i)
      BY <1>1, <1>8, <2>2
    <3>2. /\ Has(y, "receipt") => R[y.receipt] # AbsentRow /\ R[y.receipt].binding.episode = EpisodeOf(h, i)
          /\ Has(y, "token") /\ D[y.token] # AbsentRow => D[y.token].binding.episode = EpisodeOf(h, i)
      BY <1>0, <1>1, <2>2 DEF Owned
    <3>3. Has(y, "token") => ~(x.kind = "ACTION_DECISION_ISSUED" /\ y.token = x.token)
      BY <1>1, <2>2 DEF Possible, Unseen
    <3> HIDE DEF y, R2, D2, ep, c, n
    <3>4. (Has(y, "receipt") => y.receipt \in Receipts) /\ (Has(y, "token") => y.token \in Tokens)
      BY <3>1, EventShapes
    <3>5. Has(y, "receipt") => R2[y.receipt] # AbsentRow /\ R2[y.receipt].binding.episode = EpisodeOf(h, i)
      BY <1>4, <3>2, <3>4 DEF RowsGrow
    <3>6. Has(y, "token") /\ D2[y.token] # AbsentRow => D2[y.token].binding.episode = EpisodeOf(h, i)
      BY <1>4, <3>2, <3>3, <3>4 DEF RowsGrow
    <3> QED BY <3>1, <3>5, <3>6
  <2> QED BY <1>1, <2>1, <2>2
<1>10. Rooted(c, R2, D2)
  <2> HIDE DEF R2, D2, c, n
  <2>1. ASSUME NEW r \in Receipts, R2[r] # AbsentRow
        PROVE  \E i \in DOMAIN c : Has(c[i], "receipt") /\ Has(c[i], "binding") /\ c[i].receipt = r
    <3>1. CASE R[r] # AbsentRow
      <4>1. PICK i \in DOMAIN h : Has(h[i], "receipt") /\ Has(h[i], "binding") /\ h[i].receipt = r
        BY <1>0, <3>1 DEF Rooted
      <4> QED BY <1>1, <4>1
    <3>2. CASE R[r] = AbsentRow
      <4>1. x.kind = "APPROVAL_RECEIPT_ISSUED" /\ r = x.receipt
        BY <1>4, <2>1, <3>2 DEF RowsGrow
      <4>2. Has(x, "receipt") /\ Has(x, "binding")
        BY <4>1, EventShapes
      <4> QED BY <1>1, <4>1, <4>2
    <3> QED BY <3>1, <3>2
  <2>2. ASSUME NEW t \in Tokens, D2[t] # AbsentRow
        PROVE  \E i \in DOMAIN c : Has(c[i], "token") /\ Has(c[i], "binding") /\ c[i].token = t
    <3>1. CASE D[t] # AbsentRow
      <4>1. PICK i \in DOMAIN h : Has(h[i], "token") /\ Has(h[i], "binding") /\ h[i].token = t
        BY <1>0, <3>1 DEF Rooted
      <4> QED BY <1>1, <4>1
    <3>2. CASE D[t] = AbsentRow
      <4>1. x.kind = "ACTION_DECISION_ISSUED" /\ t = x.token
        BY <1>4, <2>2, <3>2 DEF RowsGrow
      <4>2. Has(x, "token") /\ Has(x, "binding")
        BY <4>1, EventShapes
      <4> QED BY <1>1, <4>1, <4>2
    <3> QED BY <3>1, <3>2
  <2> QED BY <2>1, <2>2 DEF Rooted
<1> QED BY <1>1, <1>4, <1>5, <1>6, <1>9, <1>10 DEF Reflects

-----------------------------------------------------------------------------
(* Every transaction writes events its tables allow.                       *)

StoreReflects == Reflects(log, receipts, decisions)

\* The event may be written after h and turns the tables R and D into R2 and D2.
Changes(h, R, D, x, R2, D2) == Possible(h, R, D, x) /\ R2 = ReceiptsAfter(R, x) /\ D2 = DecisionsAfter(D, x)

\* What each event does, by the name it is written under.
LEMMA ReceiptIssuedChanges ==
  ASSUME NEW R, NEW D, NEW h, NEW r, NEW b, NEW n, R[r] = AbsentRow
  PROVE  Changes(h, R, D, ReceiptIssued(r, b, n), [R EXCEPT ![r] = IssuedRow(b, n)], D)
<1> DEFINE x == ReceiptIssued(r, b, n)
<1>1. x.kind = "APPROVAL_RECEIPT_ISSUED" /\ x.receipt = r /\ x.binding = b /\ x.expires = n
  BY DEF ReceiptIssued
<1> HIDE DEF x
<1>2. Insert(R, r, x) = [R EXCEPT ![r] = IssuedRow(b, n)]
  BY <1>1 DEF Insert
<1>3. Changes(h, R, D, x, [R EXCEPT ![r] = IssuedRow(b, n)], D)
  BY <1>1, <1>2 DEF Changes, ReceiptsAfter, DecisionsAfter, Possible, ReceiptKinds, DecisionKinds
<1> QED BY <1>3 DEF x

LEMMA ReceiptDeniedChanges ==
  ASSUME NEW R, NEW D, NEW h, NEW b
  PROVE  Changes(h, R, D, ReceiptDenied(b), DeniedAll(R, b), D)
BY DEF ReceiptDenied, Changes, ReceiptsAfter, DecisionsAfter, Possible, ReceiptKinds, DecisionKinds

LEMMA ReceiptEventChanges ==
  ASSUME NEW R, NEW D, NEW h, NEW r, NEW kind \in ReceiptKinds, R[r] # AbsentRow
  PROVE  Changes(h, R, D, ReceiptEvent(kind, r), Settle(R, r, ReceiptStateOf[kind]), D)
<1>1. ReceiptEvent(kind, r).kind = kind /\ ReceiptEvent(kind, r).receipt = r
  BY DEF ReceiptEvent
<1> QED BY <1>1 DEF Changes, ReceiptsAfter, DecisionsAfter, Possible, ReceiptKinds, DecisionKinds

LEMMA DecisionIssuedChanges ==
  ASSUME NEW R, NEW D, NEW h, NEW t, NEW b, NEW n, D[t] = AbsentRow, Unseen(h, t)
  PROVE  Changes(h, R, D, DecisionIssued(t, b, n), R, [D EXCEPT ![t] = IssuedRow(b, n)])
<1> DEFINE x == DecisionIssued(t, b, n)
<1>1. x.kind = "ACTION_DECISION_ISSUED" /\ x.token = t /\ x.binding = b /\ x.expires = n
  BY DEF DecisionIssued
<1> HIDE DEF x
<1>2. Insert(D, t, x) = [D EXCEPT ![t] = IssuedRow(b, n)]
  BY <1>1 DEF Insert
<1>3. Changes(h, R, D, x, R, [D EXCEPT ![t] = IssuedRow(b, n)])
  BY <1>1, <1>2 DEF Changes, ReceiptsAfter, DecisionsAfter, Possible, ReceiptKinds, DecisionKinds
<1> QED BY <1>3 DEF x

LEMMA DecisionEventChanges ==
  ASSUME NEW R, NEW D, NEW h, NEW t, NEW kind \in DecisionKinds, D[t] # AbsentRow
  PROVE  Changes(h, R, D, DecisionEvent(kind, t), R, Settle(D, t, DecisionStateOf[kind]))
<1>1. DecisionEvent(kind, t).kind = kind /\ DecisionEvent(kind, t).token = t
  BY DEF DecisionEvent
<1> QED BY <1>1 DEF Changes, ReceiptsAfter, DecisionsAfter, Possible, ReceiptKinds, DecisionKinds

LEMMA IssueRejectedChanges ==
  ASSUME NEW R, NEW D, NEW h, NEW t, NEW b, D[t] = AbsentRow
  PROVE  Changes(h, R, D, IssueRejected(t, b), R, D)
<1>1. IssueRejected(t, b).kind = "ACTION_DECISION_REJECTED" /\ IssueRejected(t, b).token = t
  BY DEF IssueRejected
<1> QED BY <1>1 DEF Changes, ReceiptsAfter, DecisionsAfter, Possible, ReceiptKinds, DecisionKinds

LEMMA RejectionChanges ==
  ASSUME NEW R, NEW D, NEW h, NEW t
  PROVE  Changes(h, R, D, DecisionEvent("ACTION_DECISION_REJECTED", t), R, D)
<1>1. DecisionEvent("ACTION_DECISION_REJECTED", t).kind = "ACTION_DECISION_REJECTED"
      /\ ~Has(DecisionEvent("ACTION_DECISION_REJECTED", t), "binding")
  BY DEF DecisionEvent, Has
<1> QED BY <1>1 DEF Changes, ReceiptsAfter, DecisionsAfter, Possible, ReceiptKinds, DecisionKinds

\* The kinds that settle a row, and the states they leave it in.
LEMMA StateNames ==
  /\ \A kind \in ReceiptKinds, r \in Receipts : ReceiptEvent(kind, r) \in Events
  /\ \A kind \in DecisionKinds, t \in Tokens : DecisionEvent(kind, t) \in Events
  /\ \A t \in Tokens : DecisionEvent("ACTION_DECISION_REJECTED", t) \in Events
  /\ "APPROVAL_RECEIPT_CONSUMED" \in ReceiptKinds /\ ReceiptStateOf["APPROVAL_RECEIPT_CONSUMED"] = "consumed"
  /\ "APPROVAL_RECEIPT_EXPIRED" \in ReceiptKinds /\ ReceiptStateOf["APPROVAL_RECEIPT_EXPIRED"] = "expired"
  /\ "APPROVAL_RECEIPT_REVOKED" \in ReceiptKinds /\ ReceiptStateOf["APPROVAL_RECEIPT_REVOKED"] = "revoked"
  /\ "ACTION_DECISION_CONSUMED" \in DecisionKinds /\ DecisionStateOf["ACTION_DECISION_CONSUMED"] = "consumed"
  /\ "ACTION_DECISION_EXPIRED" \in DecisionKinds /\ DecisionStateOf["ACTION_DECISION_EXPIRED"] = "expired"
  /\ "ACTION_DECISION_REVOKED" \in DecisionKinds /\ DecisionStateOf["ACTION_DECISION_REVOKED"] = "revoked"
BY DEF ReceiptEvent, DecisionEvent, Events, ReceiptKinds, DecisionKinds, ReceiptStateOf, DecisionStateOf

LEMMA SettleIssued ==
  ASSUME NEW rows, NEW id, NEW state, rows[id].state = "issued"
  PROVE  Settle(rows, id, state) = [rows EXCEPT ![id].state = state]
BY DEF Settle

\* The two forms in which transactions append: one event, or two.
LEMMA WriteOne ==
  ASSUME StoreReflects, NEW x \in Events, AppendEvents(<<x>>),
         Changes(log, receipts, decisions, x, receipts', decisions')
  PROVE  StoreReflects'
<1>1. log' = Append(log, x)
  BY DEF AppendEvents, StoreReflects, Reflects, Logs
<1>2. Reflects(Append(log, x), receipts', decisions')
  BY EventNext DEF StoreReflects, Changes
<1>3. Reflects(log', receipts', decisions')
  BY <1>1, <1>2
<1> QED BY <1>3 DEF StoreReflects

LEMMA WriteTwo ==
  ASSUME StoreReflects, NEW x \in Events, NEW y \in Events, AppendEvents(<<x, y>>), NEW R, NEW D,
         Changes(log, receipts, decisions, x, R, D),
         Changes(Append(log, x), R, D, y, receipts', decisions')
  PROVE  StoreReflects'
<1>1. log' = Append(Append(log, x), y)
  BY DEF AppendEvents, StoreReflects, Reflects, Logs
<1>2. Reflects(Append(log, x), R, D)
  BY EventNext DEF StoreReflects, Changes
<1>3. Reflects(Append(Append(log, x), y), receipts', decisions')
  BY <1>2, EventNext DEF Changes
<1>4. Reflects(log', receipts', decisions')
  BY <1>1, <1>3
<1> QED BY <1>4 DEF StoreReflects

LEMMA ApprovalsReflect == ASSUME TypeOK, StoreReflects, Approvals PROVE StoreReflects'
<1>1. ASSUME NEW r \in Receipts, NEW b \in ApprovalBindings, NEW ttl \in ApprovalTtls,
             NEW now \in ReadBeforeLock, IssueApproval(r, b, ttl, now)
      PROVE  StoreReflects'
  <2> DEFINE n == now + ttl
             x == ReceiptIssued(r, b, n)
  <2>1. n \in Nat
    BY TtlAssumption DEF ReadBeforeLock, TypeOK
  <2>2. receipts[r] = AbsentRow
    BY <1>1, RowTypes DEF IssueApproval, TypeOK
  <2>3. /\ receipts' = [receipts EXCEPT ![r] = IssuedRow(b, n)] /\ decisions' = decisions
        /\ AppendEvents(<<x>>)
    BY <1>1 DEF IssueApproval
  <2> HIDE DEF n
  <2>4. x \in Events
    BY <2>1, ReceiptEvents
  <2>5. Changes(log, receipts, decisions, x, receipts', decisions')
    BY <2>2, <2>3, ReceiptIssuedChanges
  <2> QED BY <2>3, <2>4, <2>5, WriteOne
<1>2. ASSUME NEW b \in ApprovalBindings, DenyApproval(b)
      PROVE  StoreReflects'
  <2> DEFINE x == ReceiptDenied(b)
  <2>1. x \in Events
    BY DEF ReceiptDenied, Events
  <2>2. receipts' = DeniedAll(receipts, b) /\ decisions' = decisions /\ AppendEvents(<<x>>)
    BY <1>2 DEF DenyApproval, DeniedAll, Denied
  <2>3. Changes(log, receipts, decisions, x, receipts', decisions')
    BY <2>2, ReceiptDeniedChanges
  <2> QED BY <2>1, <2>2, <2>3, WriteOne
<1>3. ASSUME NEW r \in Receipts, RevokeApproval(r)
      PROVE  StoreReflects'
  <2> DEFINE x == ReceiptEvent("APPROVAL_RECEIPT_REVOKED", r)
  <2>1. x \in Events
    BY StateNames
  <2>2. /\ receipts[r].state = "issued" /\ receipts' = [receipts EXCEPT ![r].state = "revoked"]
        /\ decisions' = decisions /\ AppendEvents(<<x>>)
    BY <1>3 DEF RevokeApproval
  <2>3. receipts' = Settle(receipts, r, "revoked") /\ receipts[r] # AbsentRow
    BY <2>2, SettleIssued DEF AbsentRow
  <2>4. Changes(log, receipts, decisions, x, Settle(receipts, r, "revoked"), decisions)
    BY <2>3, StateNames, ReceiptEventChanges
  <2>5. Changes(log, receipts, decisions, x, receipts', decisions')
    BY <2>2, <2>3, <2>4
  <2> QED BY <2>1, <2>2, <2>5, WriteOne
<1> QED BY <1>1, <1>2, <1>3 DEF Approvals

\* A permit may spend its receipt in a second event of the same transaction.
LEMMA IssueReflects ==
  ASSUME TypeOK, StoreReflects, NEW t \in Tokens, NEW b \in ActionBindings, NEW ttl \in ActionTtls,
         NEW now \in ReadBeforeLock, IssueAction(t, b, ttl, now)
  PROVE  StoreReflects'
<1>0. decisions[t] = AbsentRow /\ Unseen(log, t) /\ b.receipt \in Receipts \cup {None}
  <2>1. decisions[t] = AbsentRow
    BY RowTypes DEF IssueAction, FreshToken, TypeOK
  <2> QED BY <2>1 DEF IssueAction, FreshToken, Unseen, Has, ActionBindings
<1>1. CASE IssuePermit(t, b, ttl, now)
  <2> DEFINE n == now + ttl
             x == DecisionIssued(t, b, n)
  <2>1. n \in Nat
    BY TtlAssumption DEF ReadBeforeLock, TypeOK
  <2>2. decisions' = [decisions EXCEPT ![t] = IssuedRow(b, n)]
    BY <1>1 DEF IssuePermit
  <2>3. \/ /\ SpendsReceipt(b)
           /\ receipts' = [receipts EXCEPT ![b.receipt].state = "consumed"]
           /\ AppendEvents(<<x, ReceiptEvent("APPROVAL_RECEIPT_CONSUMED", b.receipt)>>)
        \/ AppendEvents(<<x>>) /\ receipts' = receipts
    BY <1>1 DEF IssuePermit
  <2> HIDE DEF n
  <2>4. x \in Events
    BY <2>1, DecisionEvents
  <2>5. Changes(log, receipts, decisions, x, receipts, decisions')
    BY <1>0, <2>2, DecisionIssuedChanges
  <2> HIDE DEF x
  <2>6. CASE AppendEvents(<<x>>) /\ receipts' = receipts
    BY <2>4, <2>5, <2>6, WriteOne
  <2>7. CASE /\ SpendsReceipt(b)
             /\ receipts' = [receipts EXCEPT ![b.receipt].state = "consumed"]
             /\ AppendEvents(<<x, ReceiptEvent("APPROVAL_RECEIPT_CONSUMED", b.receipt)>>)
    <3> DEFINE r == b.receipt
               y == ReceiptEvent("APPROVAL_RECEIPT_CONSUMED", r)
    <3>1. r \in Receipts /\ receipts[r].state = "issued"
      BY <1>0, <1>1, <2>7 DEF IssuePermit, ApprovalClear, ApprovalUsable, SpendsReceipt, AtIssue
    <3>2. receipts[r] # AbsentRow /\ Settle(receipts, r, "consumed") = [receipts EXCEPT ![r].state = "consumed"]
      BY <3>1, SettleIssued DEF AbsentRow
    <3>3. y \in Events
      BY <3>1, StateNames
    <3>4. Changes(Append(log, x), receipts, decisions', y, Settle(receipts, r, "consumed"), decisions')
      BY <3>2, StateNames, ReceiptEventChanges
    <3>5. Changes(Append(log, x), receipts, decisions', y, receipts', decisions')
      BY <2>7, <3>2, <3>4
    <3> QED BY <2>4, <2>5, <2>7, <3>3, <3>5, WriteTwo
  <2> QED BY <2>3, <2>6, <2>7
<1>2. CASE RejectIssue(t, b)
  <2> DEFINE x == IssueRejected(t, b)
  <2>1. x \in Events /\ AppendEvents(<<x>>) /\ receipts' = receipts /\ decisions' = decisions
    BY <1>2 DEF RejectIssue, IssueRejected, Events
  <2>2. Changes(log, receipts, decisions, x, receipts', decisions')
    BY <1>0, <2>1, IssueRejectedChanges
  <2> QED BY <2>1, <2>2, WriteOne
<1>3. CASE RejectIssueExpired(t, b)
  <2> DEFINE r == b.receipt
             x == ReceiptEvent("APPROVAL_RECEIPT_EXPIRED", r)
             y == IssueRejected(t, b)
  <2>1. r \in Receipts /\ receipts[r].state = "issued"
    BY <1>0, <1>3 DEF RejectIssueExpired, ApprovalExpired, ApprovalUsable, AtIssue
  <2>2. receipts[r] # AbsentRow /\ x \in Events /\ y \in Events
    BY <2>1, StateNames DEF AbsentRow, IssueRejected, Events
  <2>3. /\ AppendEvents(<<x, y>>) /\ receipts' = Settle(receipts, r, "expired") /\ decisions' = decisions
    BY <1>3 DEF RejectIssueExpired, ExpireReceipt, Settle
  <2>4. Changes(log, receipts, decisions, x, receipts', decisions)
    BY <2>2, <2>3, StateNames, ReceiptEventChanges
  <2>5. Changes(Append(log, x), receipts', decisions, y, receipts', decisions')
    BY <1>0, <2>3, IssueRejectedChanges
  <2> QED BY <2>2, <2>3, <2>4, <2>5, WriteTwo
<1> QED BY <1>1, <1>2, <1>3 DEF IssueAction

\* Rejections log an event that changes no row; the others settle one.
LEMMA ConsumeReflects ==
  ASSUME TypeOK, StoreReflects, NEW t \in Tokens, NEW presented \in ActionBindings,
         ConsumeAction(t, presented)
  PROVE  StoreReflects'
<1> DEFINE no == DecisionEvent("ACTION_DECISION_REJECTED", t)
<1>1. no \in Events
  BY StateNames
<1>2. ASSUME AppendEvents(<<no>>), UNCHANGED <<receipts, decisions>> PROVE StoreReflects'
  <2>1. Changes(log, receipts, decisions, no, receipts, decisions)
    BY RejectionChanges
  <2>2. Changes(log, receipts, decisions, no, receipts', decisions')
    BY <1>2, <2>1
  <2> HIDE DEF no
  <2> QED BY <1>1, <1>2, <2>2, WriteOne
<1>3. ASSUME NEW kind \in DecisionKinds, decisions[t].state = "issued",
             SetDecision(t, DecisionStateOf[kind]), UNCHANGED receipts,
             AppendEvents(<<DecisionEvent(kind, t)>>)
      PROVE  StoreReflects'
  <2> DEFINE x == DecisionEvent(kind, t)
             D == Settle(decisions, t, DecisionStateOf[kind])
  <2>1. decisions[t] # AbsentRow /\ decisions' = D
    <3>1. D = [decisions EXCEPT ![t].state = DecisionStateOf[kind]]
      BY <1>3, SettleIssued
    <3>2. decisions' = [decisions EXCEPT ![t].state = DecisionStateOf[kind]]
      BY <1>3 DEF SetDecision
    <3> QED BY <1>3, <3>1, <3>2 DEF AbsentRow
  <2>2. Changes(log, receipts, decisions, x, receipts, D)
    BY <2>1, DecisionEventChanges
  <2>3. x \in Events
    BY StateNames
  <2>4. Changes(log, receipts, decisions, x, receipts', decisions')
    BY <1>3, <2>1, <2>2
  <2> QED BY <1>3, <2>3, <2>4, WriteOne
<1>4. CASE RejectUnusable(t)
  BY <1>2, <1>4 DEF RejectUnusable
<1>5. CASE ExpirePermit(t)
  BY <1>3, <1>5, StateNames DEF ExpirePermit
<1>6. CASE RejectMismatch(t, presented)
  BY <1>2, <1>6 DEF RejectMismatch
<1>7. CASE ConsumeMatching(t, presented)
  <2>0. decisions[t].state = "issued" /\ decisions[t].binding \in ActionBindings
    <3>1. decisions[t].state = "issued" /\ decisions[t] \in Row(ActionBindings)
      BY <1>7 DEF ConsumeMatching, Presentable, TypeOK
    <3> QED BY <3>1, RowShape DEF AbsentRow
  <2>1. CASE RejectUnapproved(t)
    BY <1>2, <2>1 DEF RejectUnapproved
  <2>2. CASE RejectExpiredApproval(t)
    <3> DEFINE r == decisions[t].binding.receipt
               x == ReceiptEvent("APPROVAL_RECEIPT_EXPIRED", r)
               R == Settle(receipts, r, "expired")
    <3>1. r \in Receipts /\ receipts[r].state \in {"issued", "consumed"}
      BY <2>0, <2>2 DEF RejectExpiredApproval, ApprovalExpired, ApprovalUsable, AtConsumption, ActionBindings
    <3>2. receipts[r] # AbsentRow
      BY <3>1 DEF AbsentRow
    <3>3. receipts' = R /\ decisions' = decisions /\ AppendEvents(<<x, no>>)
      BY <2>2 DEF RejectExpiredApproval, ExpireReceipt, Settle
    <3>4. x \in Events
      BY <3>1, StateNames
    <3>5. Changes(log, receipts, decisions, x, R, decisions)
      BY <3>2, StateNames, ReceiptEventChanges
    <3>6. Changes(Append(log, x), R, decisions, no, R, decisions)
      BY RejectionChanges
    <3> HIDE DEF no, x, R
    <3>7. Changes(Append(log, x), R, decisions, no, receipts', decisions')
      BY <3>3, <3>6
    <3> QED BY <1>1, <3>3, <3>4, <3>5, <3>7, WriteTwo
  <2>3. CASE RevokeOnPremises(t)
    BY <1>3, <2>0, <2>3, StateNames DEF RevokeOnPremises
  <2>4. CASE ConsumePermit(t)
    BY <1>3, <2>0, <2>4, StateNames DEF ConsumePermit
  <2> QED BY <1>7, <2>1, <2>2, <2>3, <2>4 DEF ConsumeMatching
<1> QED BY <1>4, <1>5, <1>6, <1>7 DEF ConsumeAction

\* The events of one revocation, one after the other: the permits named so far
\* are revoked, in the tables and in the log.
LEMMA RevokeReflects ==
  ASSUME TypeOK, StoreReflects, NEW affected \in SUBSET Tokens, RevokeAll(affected),
         \A t \in affected : decisions[t].state = "issued"
  PROVE  StoreReflects'
<1> DEFINE m == Cardinality(affected)
           x(t) == DecisionEvent("ACTION_DECISION_REVOKED", t)
<1>1. PICK order \in Orderings(affected) : AppendEvents([i \in DOMAIN order |-> x(order[i])])
  BY DEF RevokeAll
<1>2. m \in Nat
  BY TokensAssumption, FS_Subset, FS_CardinalityType
<1>3. order \in [1..m -> affected] /\ \A t \in affected : \E i \in 1..m : order[i] = t
  BY DEF Orderings
<1>4. log \in Seq(Events) /\ decisions \in DecisionTables /\ \A t \in Tokens : x(t) \in Events
  BY StateNames DEF TypeOK, DecisionTables
<1> HIDE DEF m, x
<1> DEFINE first(k) == log \o [i \in 1..k |-> x(order[i])]
           D(k) == [t \in Tokens |-> IF \E i \in 1..k : order[i] = t
                                     THEN [decisions[t] EXCEPT !.state = "revoked"] ELSE decisions[t]]
           S == {k \in Nat : k =< m => Reflects(first(k), receipts, D(k))}
<1>5. 0 \in S
  <2>1. first(0) = log
    BY <1>4
  <2>2. D(0) = decisions
    BY <1>4 DEF DecisionTables
  <2> QED BY <2>1, <2>2 DEF StoreReflects
<1>6. ASSUME NEW k \in Nat, k \in S PROVE k + 1 \in S
  <2> SUFFICES ASSUME k + 1 =< m PROVE Reflects(first(k + 1), receipts, D(k + 1))
    OBVIOUS
  <2> DEFINE u == order[k + 1]
  <2>1. k =< m /\ k + 1 \in 1..m /\ u \in affected /\ u \in Tokens
    BY <1>2, <1>3
  <2>2. Reflects(first(k), receipts, D(k))
    BY <1>6, <2>1
  <2>3. first(k + 1) = Append(first(k), x(u))
    <3>1. \A i \in 1..k + 1 : x(order[i]) \in Events
      BY <1>2, <1>3, <1>4
    <3> DEFINE a == [i \in 1..k |-> x(order[i])]
               b == [i \in 1..k + 1 |-> x(order[i])]
    <3>2. a \in Seq(Events) /\ b \in Seq(Events) /\ Len(a) = k /\ Len(b) = k + 1 /\ b = Append(a, x(u))
      BY <3>1
    <3> HIDE DEF a, b
    <3>3. log \o Append(a, x(u)) = Append(log \o a, x(u))
      BY <1>4, <2>1, <3>2
    <3> QED BY <3>2, <3>3 DEF a, b
  <2>4. D(k)[u] # AbsentRow
    BY <2>1 DEF AbsentRow
  <2>5. D(k + 1) = Settle(D(k), u, "revoked")
    <3>1. D(k)[u].state = "issued" => D(k)[u] = decisions[u]
      BY <2>1
    <3>2. \A t \in Tokens : (\E i \in 1..k + 1 : order[i] = t) <=> (t = u \/ \E i \in 1..k : order[i] = t)
      OBVIOUS
    <3>3. CASE D(k)[u].state = "issued"
      <4>1. Settle(D(k), u, "revoked") = [D(k) EXCEPT ![u] = [decisions[u] EXCEPT !.state = "revoked"]]
        BY <3>1, <3>3 DEF Settle
      <4> QED BY <2>1, <3>2, <4>1
    <3>4. CASE D(k)[u].state # "issued"
      <4>1. \E i \in 1..k : order[i] = u
        BY <2>1, <3>4
      <4>2. Settle(D(k), u, "revoked") = D(k)
        BY <3>4 DEF Settle
      <4> QED BY <3>2, <4>1, <4>2
    <3> QED BY <3>3, <3>4
  <2> HIDE DEF D, first, u
  <2>6. Changes(first(k), receipts, D(k), x(u), receipts, Settle(D(k), u, "revoked"))
    BY <2>4, StateNames, DecisionEventChanges DEF x
  <2>7. Reflects(Append(first(k), x(u)), receipts, Settle(D(k), u, "revoked"))
    BY <1>4, <2>1, <2>2, <2>6, EventNext DEF Changes
  <2> QED BY <2>3, <2>5, <2>7
<1> HIDE DEF S
<1>7. m \in S
  <2>1. Nat \subseteq S
    BY <1>5, <1>6, SetInduction
  <2> QED BY <1>2, <2>1
<1>8. first(m) = log'
  BY <1>1, <1>3 DEF AppendEvents
<1>9. D(m) = decisions' /\ receipts' = receipts
  BY <1>3 DEF RevokeAll
<1> HIDE DEF first, D
<1>10. Reflects(first(m), receipts, D(m))
  BY <1>2, <1>7 DEF S
<1>11. Reflects(log', receipts', decisions')
  BY <1>8, <1>9, <1>10
<1> QED BY <1>11 DEF StoreReflects

-----------------------------------------------------------------------------
(* In every behaviour of the store.                                        *)

ReplayInv == TypeOK /\ StoreReflects

LEMMA ReplayInit == Init => ReplayInv
<1> SUFFICES ASSUME Init PROVE StoreReflects
  BY TypeInit DEF ReplayInv
<1>1. log = << >> /\ receipts = [r \in Receipts |-> AbsentRow] /\ decisions = [t \in Tokens |-> AbsentRow]
  BY DEF Init
<1>2. log \in Logs /\ receipts \in ReceiptTables /\ decisions \in DecisionTables /\ DOMAIN log = {}
  BY <1>1, RowTypes DEF Logs, ReceiptTables, DecisionTables
<1>3. Good(receipts, decisions) = EmptyTables
  BY <1>1 DEF Good, EmptyTables
<1>4. \A e : Keep(receipts, e) = receipts /\ Keep(decisions, e) = decisions
  BY <1>1 DEF Keep
<1>5. Rebuild(log) = Good(receipts, decisions)
  BY <1>1, <1>3, RebuildNothing
<1>6. Isolated(log, receipts, decisions)
  <2> SUFFICES ASSUME NEW e \in Episodes
               PROVE  Rebuild(Compact(log, e)) = Good(Keep(receipts, e), Keep(decisions, e))
    BY DEF Isolated
  <2>1. Compact(log, e) = log
    BY <1>1, CompactNothing
  <2> QED BY <1>4, <1>5, <2>1
<1>7. Owned(log, receipts, decisions) /\ Rooted(log, receipts, decisions)
  BY <1>1, <1>2 DEF Owned, Rooted
<1> QED BY <1>2, <1>5, <1>6, <1>7 DEF StoreReflects, Reflects

LEMMA ReplayNextKeeps == ReplayInv /\ [Next]_vars => ReplayInv'
<1> SUFFICES ASSUME ReplayInv, [Next]_vars PROVE StoreReflects'
  BY TypeNext DEF ReplayInv
<1> USE DEF ReplayInv
<1>1. ASSUME UNCHANGED store PROVE StoreReflects'
  BY <1>1 DEF store, StoreReflects
<1>2. CASE Approvals
  BY <1>2, ApprovalsReflect
<1>3. CASE Permits
  <2>1. ASSUME NEW t \in Tokens, NEW b \in ActionBindings, NEW ttl \in ActionTtls,
               NEW now \in ReadBeforeLock, IssueAction(t, b, ttl, now)
        PROVE  StoreReflects'
    BY <2>1, IssueReflects
  <2>2. ASSUME NEW t \in Tokens, NEW presented \in ActionBindings, ConsumeAction(t, presented)
        PROVE  StoreReflects'
    BY <2>2, ConsumeReflects
  <2>3. ASSUME NEW belief \in Beliefs, RevokeForSupport(belief)
        PROVE  StoreReflects'
    <3>1. IssuedUnder(belief) \in SUBSET Tokens /\ \A t \in IssuedUnder(belief) : decisions[t].state = "issued"
      BY DEF IssuedUnder
    <3> QED BY <2>3, <3>1, RevokeReflects DEF RevokeForSupport
  <2>4. ASSUME NEW e \in Episodes, RevokeForEpisode(e)
        PROVE  StoreReflects'
    <3>1. IssuedIn(e) \in SUBSET Tokens /\ \A t \in IssuedIn(e) : decisions[t].state = "issued"
      BY DEF IssuedIn
    <3> QED BY <2>4, <3>1, RevokeReflects DEF RevokeForEpisode
  <2> QED BY <1>3, <2>1, <2>2, <2>3, <2>4 DEF Permits
<1>4. CASE Environment
  BY <1>1, <1>4 DEF Environment, Tick, FinalizeEpisode, SetBelief, SetConflict, store
<1>5. CASE UNCHANGED vars
  BY <1>1, <1>5 DEF vars, store
<1> QED BY <1>2, <1>3, <1>4, <1>5 DEF Next

\* Every reachable state is typed and reflected in the log.
LEMMA ReplayInvariant == Spec => []ReplayInv
BY ReplayInit, ReplayNextKeeps, PTL DEF Spec

\* Folding the enforcement log gives back exactly the tables the transactions
\* wrote and never raises, for logs of any length: rebuild() recovers the store.
THEOREM RebuildIsExact == Spec => []RebuildReproducesProjection
<1>1. ReplayInv => RebuildReproducesProjection
  BY DEF ReplayInv, StoreReflects, Reflects, RebuildReproducesProjection, Good
<1> QED BY <1>1, ReplayInvariant, PTL

\* Purging one episode out of a log of any length removes exactly its receipts and
\* permits: what rebuilding gives afterwards is every other row as it was.
THEOREM PurgeIsolates == Spec => []PurgeIsolatesEpisode
<1>1. ReplayInv => PurgeIsolatesEpisode
  BY DEF ReplayInv, StoreReflects, Reflects, Isolated, PurgeIsolatesEpisode, Good
<1> QED BY <1>1, ReplayInvariant, PTL

\* No event left after a purge names the purged episode, one of its receipts or one
\* of its tokens, also where the event carries a bare digest.
THEOREM PurgeTraceless == Spec => []PurgeLeavesNoTrace
<1>1. ReplayInv => PurgeLeavesNoTrace
  <2> SUFFICES ASSUME ReplayInv, NEW e \in Episodes, NEW i \in DOMAIN Compact(log, e)
               PROVE  ~Names(Compact(log, e)[i], e)
    BY DEF PurgeLeavesNoTrace
  <2>1. log \in Seq(Events) /\ Owned(log, receipts, decisions)
    BY DEF ReplayInv, StoreReflects, Reflects, Logs
  <2>2. PICK j \in DOMAIN log : EpisodeOf(log, j) # e /\ Compact(log, e)[i] = log[j]
    BY <2>1, CompactLeft
  <2>3. Has(log[j], "binding") => EpisodeOf(log, j) = log[j].binding.episode
    BY EpisodeIs
  <2>4. ~Names(log[j], e)
    BY <2>1, <2>2, <2>3 DEF Names, Owned
  <2> QED BY <2>2, <2>4
<1> QED BY <1>1, ReplayInvariant, PTL

\* The transactions the runs explore are among those of the store, so the same
\* holds of them.
LEMMA ReplaySpecImpliesSpec == ReplaySpec => Spec
<1>1. [ReplayNext]_vars => [Next]_vars
  BY DEF ReplayNext, Next, Environment
<1> QED BY <1>1, PTL DEF ReplaySpec, Spec
=============================================================================
