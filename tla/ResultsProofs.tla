--------------------------- MODULE ResultsProofs ---------------------------
(***************************************************************************)
(* What TLAPS proves about Results, for every dump, every size of both     *)
(* heaps, every limit of the page and every number of restarts.            *)
(*                                                                         *)
(* Counting goes on inside an import: what CounterProofs proves of Counter *)
(* carries over.  From then on the invariant is that the counter in the    *)
(* map is the one that Count returned, but for the order of its prefixes   *)
(* (CounterIs), and that the row can be read as such a counter (RowIs).    *)
(* What the page shows then follows from how it cuts the sorted heaps.     *)
(***************************************************************************)
EXTENDS Results, CounterProofs

(* An import counts its dump as Counter does: publishing, saving and       *)
(* restarting never touch a counter that Count has returned.               *)
THEOREM ResultsCount == ServeSpec => Spec
<1>1. ServeInit => Init
  BY DEF ServeInit
<1>2. [ServeNext]_<<vars, serving>> => [Next]_vars
  BY DEF ServeNext, Next, Count, Publish, Save, SaveFail, Restart, Ended
<1> QED
  BY <1>1, <1>2, PTL DEF ServeSpec, Spec

(* The types and the bounds of both heaps of every import.                 *)
THEOREM TypeCorrect == ServeSpec => []TypeOK
BY ResultsCount, CounterTypeCorrect, PTL

(* What every import publishes and saves has the largest entries of its    *)
(* dump, for every dump and every bound of the heap.                       *)
THEOREM ImportsKeepLargest == ServeSpec => []LargestKept
BY ResultsCount, LargestAreKept, PTL

(* What every import publishes and saves are the tallies of its dump.      *)
THEOREM ImportsTallyAll ==
    ServeSpec => [](EntryTallies /\ PrefixTallies /\ LargestPrefixesKept)
BY ResultsCount, EntriesAreTallied, PrefixesAreTallied,
   LargestPrefixesAreKept, PTL

----------------------------------------------------------------------------
(* What is in the map and in the row, compared with what Count returned.   *)

\* A sequence of entries that is sorted by size.
BySize(s) == \A i, j \in DOMAIN s : i < j => input[s[i]].bytes >= input[s[j]].bytes

\* A list of the prefixes of the heap, in any order.
PrefixList(q) == q \in SetToSeqs(largestKeyPrefixes)

CounterIs(c) ==
    /\ c.entries = largestEntries
    /\ c.types = types
    /\ c.slots = slots
    /\ c.lengths = AsCounted.lengths
    /\ PrefixList(c.prefixes)

\* The names of the length levels in the row.
RowKeys == [k \in DOMAIN AsCounted.lengths |-> TypeKeyToString(k)]

RowIs(dto) ==
    /\ dto.LargestEntries \in SetToSeqs(largestEntries) /\ BySize(dto.LargestEntries)
    /\ dto.types = types
    /\ dto.slots = slots
    /\ dto.lengths = Rekeyed(AsCounted.lengths, RowKeys)
    /\ PrefixList(dto.LargestKeyPrefixes)

Served ==
    /\ job \in {"counting", "published", "ended"} /\ restarts \in 0 .. MaxRestarts
    /\ job = "counting" => counters = None /\ history = None
    /\ job = "published" => pc = "returned" /\ CounterIs(counters)
    /\ counters # None => pc = "returned" /\ CounterIs(counters)
    /\ history # None => pc = "returned" /\ RowIs(history)

----------------------------------------------------------------------------
(* ToDTO.                                                                  *)

LEMMA HeapsAreFinite ==
    ASSUME Inv
    PROVE  /\ IsFiniteSet(largestEntries) /\ Cardinality(largestEntries) \in Nat
           /\ Cardinality(largestEntries) <= TopN
           /\ IsFiniteSet(largestKeyPrefixes) /\ Cardinality(largestKeyPrefixes) \in Nat
           /\ largestKeyPrefixes \in SUBSET PrefixEntries
BY FS_CardinalityType DEF Inv, CInv, Heap, PrefixHeap, TypeOK, PrefixEntries

LEMMA PrefixListIs ==
    ASSUME Inv, NEW q, PrefixList(q)
    PROVE  /\ q \in Seq(PrefixEntries) /\ Len(q) = Cardinality(largestKeyPrefixes)
           /\ DOMAIN q = 1 .. Cardinality(largestKeyPrefixes)
           /\ \A i \in DOMAIN q : q[i] \in largestKeyPrefixes /\ q[i] \in PrefixEntries
           /\ \A i, j \in DOMAIN q : q[i] = q[j] => i = j
           /\ \A x \in largestKeyPrefixes : \E i \in DOMAIN q : q[i] = x
<1> DEFINE S == largestKeyPrefixes
           n == Cardinality(S)
<1>1. /\ q \in Seq(S) /\ Len(q) = n /\ DOMAIN q = 1 .. n /\ n \in Nat
      /\ \A i, j \in DOMAIN q : q[i] = q[j] => i = j
      /\ \A x \in S : \E i \in DOMAIN q : q[i] = x
  BY HeapsAreFinite, Arrangement DEF PrefixList
<1>2. S \subseteq PrefixEntries
  BY HeapsAreFinite
<1> HIDE DEF S, n
<1>3. \A i \in DOMAIN q : q[i] \in S
  BY <1>1
<1>4. q \in [1 .. n -> PrefixEntries]
  BY <1>1, <1>2, <1>3
<1>5. q \in Seq(PrefixEntries)
  BY <1>1, <1>4
<1> QED
  BY <1>1, <1>2, <1>3, <1>5 DEF S, n

\* A cut of a sorted arrangement of the heap.
LEMMA LargestEntriesAre ==
    ASSUME Inv, NEW num \in Nat, NEW s \in GetLargestEntries(largestEntries, num, 0)
    PROVE  \E all \in SetToSeqs(largestEntries) :
             /\ BySize(all)
             /\ s = SubSeq(all, 1, Len(s))
             /\ Len(s) = IF Cardinality(largestEntries) < num THEN Cardinality(largestEntries)
                         ELSE num
             /\ \A i \in 1 .. Len(s) : s[i] = all[i]
<1>1. {k \in largestEntries : 0 > 0 => input[k].bytes > 0} = largestEntries
  OBVIOUS
<1>2. PICK all \in SetToSeqs(largestEntries) :
             BySize(all) /\ s = SubSeq(all, 1, Min({num, Len(all)}))
  BY <1>1 DEF GetLargestEntries, BySize
<1>3. /\ all \in Seq(largestEntries) /\ Len(all) = Cardinality(largestEntries)
      /\ Cardinality(largestEntries) \in Nat
  BY HeapsAreFinite, Arrangement
<1> DEFINE n == IF Cardinality(largestEntries) < num THEN Cardinality(largestEntries) ELSE num
<1>4. Min({num, Len(all)}) = n
  BY <1>3, MinOfTwo
<1>5. n \in Nat /\ n <= Len(all)
  BY <1>3
<1> HIDE DEF n
<1>6. Len(SubSeq(all, 1, n)) = n /\ \A i \in 1 .. n : SubSeq(all, 1, n)[i] = all[i]
  BY <1>3, <1>5
<1> QED
  BY <1>2, <1>4, <1>6 DEF n

\* The list of prefixes, sorted.
LEMMA SortedPrefixes ==
    ASSUME Inv, NEW c, PrefixList(c.prefixes)
    PROVE  LET q == GetLargestKeyPrefixes(c) IN
           /\ PrefixList(q)
           /\ DOMAIN q = DOMAIN c.prefixes
           /\ DOMAIN q = 1 .. Cardinality(largestKeyPrefixes)
           /\ \A i, j \in DOMAIN q : i < j => ~Less(q[i], q[j])
<1> DEFINE h == largestKeyPrefixes
           p == c.prefixes
           D == 1 .. Cardinality(h)
<1>1. IsFiniteSet(h) /\ Cardinality(h) \in Nat /\ h \in SUBSET PrefixEntries
  BY HeapsAreFinite
<1>2. p \in SetToSeqs(h)
  BY DEF PrefixList
<1>3. DOMAIN p = D /\ \A i \in D : p[i] \in PrefixEntries
  BY PrefixListIs
<1>4. IsFiniteSet(D) /\ Cardinality(D) = Cardinality(h)
  <2>1. 1 \in Int /\ Cardinality(h) \in Int
    BY <1>1
  <2> QED
    BY <1>1, <2>1, FS_Interval
<1> HIDE DEF D, h, p
<1> DEFINE Sorts(o) == \A i, j \in DOMAIN o : i < j => ~Less(p[o[i]], p[o[j]])
<1>5. \E o \in SetToSeqs(D) : Sorts(o)
  <2> DEFINE R == {x \in D \X D : ~Less(p[x[1]], p[x[2]])}
  <2>1. \A x, y \in D : <<x, y>> \in R <=> ~Less(p[x], p[y])
    OBVIOUS
  <2> HIDE DEF R
  <2>2. \A x, y \in D : <<x, y>> \in R \/ <<y, x>> \in R
    <3>1. \A a, b \in PrefixEntries : ~Less(a, b) \/ ~Less(b, a)
      BY LessIsOrder
    <3> QED
      BY <1>3, <2>1, <3>1
  <2>3. \A x, y, z \in D : <<x, y>> \in R /\ <<y, z>> \in R => <<x, z>> \in R
    BY <1>3, <2>1, LessIsWeak
  <2>4. PICK o \in SetToSeqs(D) : \A i, j \in DOMAIN o : i < j => <<o[i], o[j]>> \in R
    BY <1>4, <2>2, <2>3, SortedExists
  <2>5. DOMAIN o = D /\ \A i \in D : o[i] \in D
    <3>1. o \in Seq(D) /\ DOMAIN o = D
      BY <1>4, Arrangement DEF D
    <3> QED
      BY <3>1
  <2> QED
    BY <2>1, <2>4, <2>5
<1> DEFINE o == CHOOSE x \in SetToSeqs(DOMAIN p) : Sorts(x)
           q == GetLargestKeyPrefixes(c)
<1>6. o \in SetToSeqs(D) /\ Sorts(o)
  BY <1>3, <1>5, Zenon
<1>7. q = [i \in DOMAIN o |-> p[o[i]]]
  BY Zenon DEF GetLargestKeyPrefixes, p
<1> HIDE DEF o, q
<1>8. o \in [D -> D] /\ \A i, j \in D : o[i] = o[j] => i = j
  <2>1. DOMAIN o = D
    BY <1>4, <1>6, Arrangement DEF D
  <2> QED
    BY <1>4, <1>6, <2>1, Arrangement DEF SetToSeqs
<1>9. DOMAIN q = D /\ \A i \in D : q[i] = p[o[i]]
  BY <1>7, <1>8
<1>10. \A i, j \in DOMAIN q : i < j => ~Less(q[i], q[j])
  BY <1>6, <1>8, <1>9
<1>11. PrefixList(q)
  <2>1. p \in [D -> h] /\ \A i, j \in D : p[i] = p[j] => i = j
    BY <1>1, <1>2, <1>3, Arrangement DEF SetToSeqs, D
  <2>2. q \in [D -> h] /\ \A i, j \in D : q[i] = q[j] => i = j
    BY <1>7, <1>8, <1>9, <2>1
  <2> QED
    BY <2>2 DEF PrefixList, SetToSeqs, D, h
<1> QED
  BY <1>3, <1>9, <1>10, <1>11 DEF q, D, h, p

LEMMA ToDTORow ==
    ASSUME Inv, NEW c, CounterIs(c), NEW dto \in ToDTO(c)
    PROVE  RowIs(dto)
<1>1. PICK s \in GetLargestEntries(largestEntries, TopN, 0) :
         dto = [LargestEntries     |-> s,
                LargestKeyPrefixes |-> GetLargestKeyPrefixes(c),
                types              |-> types,
                slots              |-> slots,
                lengths            |-> Rekeyed(AsCounted.lengths, RowKeys)]
  BY DEF ToDTO, CounterIs, RowKeys
<1>2. s \in SetToSeqs(largestEntries) /\ BySize(s)
  <2>1. TopN \in Nat
    BY CounterAssumptions
  <2>2. PICK all \in SetToSeqs(largestEntries) :
             BySize(all) /\ s = SubSeq(all, 1, Len(s)) /\ Len(s) = Cardinality(largestEntries)
    BY <2>1, HeapsAreFinite, LargestEntriesAre
  <2>3. all \in Seq(largestEntries) /\ Len(all) = Cardinality(largestEntries)
    BY HeapsAreFinite, Arrangement
  <2>4. s = all
    BY <2>2, <2>3
  <2> QED
    BY <2>2, <2>4
<1>3. PrefixList(GetLargestKeyPrefixes(c))
  BY SortedPrefixes DEF CounterIs
<1> QED
  BY <1>1, <1>2, <1>3 DEF RowIs

----------------------------------------------------------------------------
(* ToCounter.                                                              *)

\* A heap holds what it held and what it was offered.
LEMMA OfferedFrom ==
    ASSUME NEW h, NEW n, NEW g \in Offered(h, n)
    PROVE  g \subseteq h \cup {n}
<1>1. CASE Cardinality(h) < TopN
  BY <1>1 DEF Offered
<1>2. CASE ~(Cardinality(h) < TopN)
  <2>1. PICK k \in Smallest(h) :
          g = IF input[n].bytes > input[k].bytes THEN (h \ {k}) \cup {n} ELSE h
    BY <1>2 DEF Offered
  <2> QED
    BY <2>1
<1> QED
  BY <1>1, <1>2

\* Offering a heap what it held before fills it as before: there is room.
LEMMA OfferedAllFits ==
    ASSUME Inv, NEW s \in SetToSeqs(largestEntries)
    PROVE  OfferedAll(s) = {largestEntries}
<1> DEFINE n == Cardinality(largestEntries)
           V == SUBSET SUBSET Nat
           step == [p \in V \X (1 .. n) |-> UNION {Offered(h, s[p[2]]) : h \in p[1]}]
           F(g) == [T \in SUBSET DOMAIN s |->
                      IF T = {} THEN {{}}
                      ELSE UNION {Offered(h, s[Max(T)]) : h \in g[T \ {Max(T)}]}]
           fold == CHOOSE g : g = F(g)
<1>1. OfferedAll(s) = fold[DOMAIN s]
  BY Zenon DEF OfferedAll, FoldLeft, MapThenFoldSet
<1>2. /\ n \in Nat /\ n <= TopN /\ DOMAIN s = 1 .. n
      /\ \A i \in 1 .. n : s[i] \in largestEntries /\ s[i] \in Nat
      /\ \A i, j \in 1 .. n : s[i] = s[j] => i = j
      /\ Range(s) = largestEntries
  <2>1. /\ n \in Nat /\ n <= TopN /\ DOMAIN s = 1 .. n /\ Range(s) = largestEntries
        /\ \A i, j \in 1 .. n : s[i] = s[j] => i = j
    BY HeapsAreFinite, Arrangement
  <2>2. largestEntries \subseteq Nat
    BY DEF Inv, CInv, TypeOK, Counted
  <2>3. \A i \in 1 .. n : s[i] \in largestEntries
    BY <2>1 DEF Range
  <2> QED
    BY <2>1, <2>2, <2>3
<1> HIDE DEF n
<1>3. step \in [V \X (1 .. n) -> V]
  <2>1. ASSUME NEW p \in V \X (1 .. n) PROVE UNION {Offered(h, s[p[2]]) : h \in p[1]} \in V
    <3>1. s[p[2]] \in Nat /\ p[1] \in SUBSET SUBSET Nat
      BY <1>2
    <3>2. ASSUME NEW h \in SUBSET Nat, NEW g \in Offered(h, s[p[2]]) PROVE g \in SUBSET Nat
      <4>1. g \subseteq h \cup {s[p[2]]}
        BY <3>2, OfferedFrom, Zenon
      <4> QED
        BY <3>1, <4>1
    <3> QED
      BY <3>1, <3>2
  <2> QED
    BY <2>1
<1>4. PICK g \in [SUBSET (1 .. n) -> V] : Folds(g, step, {{}}, n)
  <2>1. {{}} \in V
    OBVIOUS
  <2> HIDE DEF V, step
  <2> QED
    BY <1>2, <1>3, <2>1, FoldExists
<1>5. ASSUME NEW g1 PROVE g1 = F(g1) => /\ g1 = [T \in SUBSET (1 .. n) |-> g1[T]]
                                       /\ \A T \in SUBSET (1 .. n) : g1[T] =
                                            IF T = {} THEN {{}}
                                            ELSE UNION {Offered(h, s[Max(T)]) : h \in g1[T \ {Max(T)}]}
  BY <1>2
<1>6. g = F(g)
  <2>1. ASSUME NEW T \in SUBSET (1 .. n), T # {}
        PROVE  g[T] = UNION {Offered(h, s[Max(T)]) : h \in g[T \ {Max(T)}]}
    <3>1. Max(T) \in 1 .. n
      <4>1. \A x \in T : x \in Nat /\ x <= n
        BY <1>2
      <4>2. \E x \in T : \A y \in T : x >= y
        BY <1>2, <2>1, <4>1, GreatestOf
      <4> QED
        BY <4>2, Zenon DEF Max
    <3>2. g[T \ {Max(T)}] \in V
      BY <1>4
    <3>3. g[T] = step[<<g[T \ {Max(T)}], Max(T)>>]
      BY <1>4, <2>1 DEF Folds
    <3> QED
      BY <3>1, <3>2, <3>3
  <2>2. g[{}] = {{}}
    BY <1>4 DEF Folds
  <2> QED
    BY <1>2, <1>4, <2>1, <2>2
<1>7. fold = F(fold)
  <2> HIDE DEF F
  <2> QED
    BY <1>6, Zenon
<1>13. \A T \in SUBSET (1 .. n) : T # {} =>
         fold[T] = UNION {Offered(h, s[Max(T)]) : h \in fold[T \ {Max(T)}]}
  BY <1>5, <1>7, Zenon
<1>14. fold[{}] = {{}}
  BY <1>5, <1>7
<1> HIDE DEF fold
<1> DEFINE P == {k \in Nat : k <= n => fold[1 .. k] = {FirstOf(s, k)}}
<1>8. 0 \in P
  <2>1. 1 .. 0 = {} /\ FirstOf(s, 0) = {}
    BY DEF FirstOf
  <2>2. fold[{}] = {{}}
    BY <1>14
  <2> QED
    BY <2>1, <2>2
<1>9. ASSUME NEW k \in P PROVE k + 1 \in P
  <2> SUFFICES ASSUME k + 1 <= n PROVE fold[1 .. k + 1] = {FirstOf(s, k + 1)}
    OBVIOUS
  <2>1. fold[1 .. k] = {FirstOf(s, k)} /\ k \in Nat /\ k < n
    <3>1. k \in Nat /\ (k <= n => fold[1 .. k] = {FirstOf(s, k)})
      OBVIOUS
    <3>2. k <= n /\ k < n
      BY <1>2, <3>1
    <3> QED
      BY <3>1, <3>2
  <2>2. Max(1 .. k + 1) = k + 1 /\ (1 .. k + 1) \ {k + 1} = 1 .. k /\ 1 .. k + 1 # {}
    <3>1. k + 1 \in 1 .. k + 1 /\ (1 .. k + 1) \ {k + 1} = 1 .. k
      BY <2>1
    <3>2. 1 .. k + 1 \in SUBSET (1 .. k + 1)
      OBVIOUS
    <3>3. Max(1 .. k + 1) = k + 1
      BY <2>1, <3>1, <3>2, MaxOfInterval
    <3> QED
      BY <3>1, <3>3
  <2>3. 1 .. k + 1 \in SUBSET (1 .. n)
    BY <1>2, <2>1
  <2>4. fold[1 .. k + 1] = UNION {Offered(h, s[k + 1]) : h \in fold[1 .. k]}
    <3>1. fold[1 .. k + 1] = UNION {Offered(h, s[Max(1 .. k + 1)]) :
                                      h \in fold[(1 .. k + 1) \ {Max(1 .. k + 1)}]}
      BY <1>13, <2>2, <2>3, Zenon
    <3> QED
      BY <2>2, <3>1, Zenon
  <2>5. fold[1 .. k + 1] = Offered(FirstOf(s, k), s[k + 1])
    BY <2>1, <2>4
  <2>6. Cardinality(FirstOf(s, k)) = k
    <3>1. \A i, j \in 1 .. k : s[i] = s[j] => i = j
      BY <1>2, <2>1
    <3>2. k \in Nat
      BY <2>1
    <3> QED
      BY <3>1, <3>2, HowMany
  <2>7. FirstOf(s, k + 1) = FirstOf(s, k) \cup {s[k + 1]}
    <3>1. 1 .. k + 1 = (1 .. k) \cup {k + 1}
      BY <2>1
    <3> QED
      BY <3>1 DEF FirstOf
  <2>8. k < TopN
    BY <1>2, <2>1, CounterAssumptions
  <2> QED
    BY <2>5, <2>6, <2>7, <2>8 DEF Offered
<1> HIDE DEF P
<1>10. P = Nat
  <2>1. P \in SUBSET Nat
    BY DEF P
  <2> QED
    BY <1>8, <1>9, <2>1, InductionOnNat
<1>11. fold[1 .. n] = {FirstOf(s, n)}
  BY <1>2, <1>10 DEF P
<1>12. FirstOf(s, n) = Range(s)
  BY <1>2 DEF Range, FirstOf
<1> QED
  BY <1>1, <1>2, <1>11, <1>12

\* Two parts of a text.
LEMMA PairText == \A t, l : <<t>> \o <<l>> = <<t, l>>
<1> TAKE t, l
<1> DEFINE s == <<t>> \o <<l>>
<1>1. /\ <<t>> \in Seq({t, l}) /\ <<l>> \in Seq({t, l})
      /\ Len(<<t>>) = 1 /\ Len(<<l>>) = 1
  OBVIOUS
<1>2. s \in Seq({t, l}) /\ Len(s) = 2 /\ s[1] = t /\ s[2] = l
  BY <1>1
<1> HIDE DEF s
<1>3. s \in [1 .. 2 -> {t, l}]
  BY <1>2
<1>4. <<t, l>> \in [1 .. 2 -> {t, l}] /\ <<t, l>>[1] = t /\ <<t, l>>[2] = l
  OBVIOUS
<1>5. \A i \in 1 .. 2 : s[i] = <<t, l>>[i]
  BY <1>2, <1>4
<1>6. s = <<t, l>>
  BY <1>3, <1>4, <1>5
<1> QED
  BY <1>6 DEF s

\* Map keys survive the way to the row and back.
LEMMA KeysComeBack ==
    Rekeyed(Rekeyed(AsCounted.lengths, RowKeys),
            [s \in DOMAIN Rekeyed(AsCounted.lengths, RowKeys) |-> ParseTypeKey(s)])
      = AsCounted.lengths
<1> DEFINE L == AsCounted.lengths
           D == DOMAIN L
           M == Rekeyed(L, RowKeys)
           back == [s \in DOMAIN M |-> ParseTypeKey(s)]
<1>1. \A k \in D : \E t, l : k = <<t, <<l>>>>
  BY DEF AsCounted, LevelText
<1>2. L = [k \in D |-> L[k]]
  BY DEF AsCounted
<1>3. \A t, l : TypeKeyToString(<<t, <<l>>>>) = <<t, l>>
  BY PairText DEF TypeKeyToString
<1>4. \A t, l : ParseTypeKey(<<t, l>>) = <<t, <<l>>>>
  BY DEF ParseTypeKey
<1>5. \A k \in D : ParseTypeKey(RowKeys[k]) = k /\ RowKeys[k] = TypeKeyToString(k)
  BY <1>1, <1>3, <1>4 DEF RowKeys
<1>6. DOMAIN RowKeys = D
  BY DEF RowKeys
<1> HIDE DEF L, D
<1>7. DOMAIN M = Range(RowKeys) /\ \A k \in D : RowKeys[k] \in DOMAIN M
  BY <1>6 DEF Rekeyed, Range
<1>8. \A k \in D : M[RowKeys[k]] = L[k]
  <2> SUFFICES ASSUME NEW k \in D PROVE M[RowKeys[k]] = L[k]
    OBVIOUS
  <2>1. M[RowKeys[k]] = L[CHOOSE x \in DOMAIN L : RowKeys[x] = RowKeys[k]]
    BY <1>7 DEF Rekeyed
  <2>2. DOMAIN L = D
    BY DEF D
  <2>3. \A x \in D : RowKeys[x] = RowKeys[k] => x = k
    BY <1>5
  <2>4. (CHOOSE x \in DOMAIN L : RowKeys[x] = RowKeys[k]) = k
    BY <2>2, <2>3, Zenon
  <2> QED
    BY <2>1, <2>4
<1> HIDE DEF M
<1>9. DOMAIN back = DOMAIN M /\ \A k \in D : back[RowKeys[k]] = k
  BY <1>5, <1>7
<1>10. Range(back) = D
  <2> HIDE DEF back
  <2>1. \A y \in DOMAIN M : \E k \in D : y = RowKeys[k]
    BY <1>6, <1>7 DEF Range
  <2>2. \A y \in DOMAIN M : back[y] \in D
    BY <1>9, <2>1
  <2>3. \A k \in D : \E y \in DOMAIN M : back[y] = k
    BY <1>7, <1>9
  <2> QED
    BY <1>9, <2>2, <2>3 DEF Range
<1> HIDE DEF back
<1>11. ASSUME NEW k \in D PROVE M[CHOOSE x \in DOMAIN M : back[x] = k] = L[k]
  <2> DEFINE x == CHOOSE y \in DOMAIN M : back[y] = k
  <2>1. x \in DOMAIN M /\ back[x] = k
    BY <1>7, <1>9, Zenon
  <2> HIDE DEF x
  <2>2. PICK m \in D : x = RowKeys[m]
    BY <1>6, <1>7, <2>1 DEF Range
  <2>3. m = k
    BY <1>9, <2>1, <2>2
  <2> QED
    BY <1>8, <2>2, <2>3 DEF x
<1>12. Rekeyed(M, back) = L
  BY <1>2, <1>10, <1>11, Zenon DEF Rekeyed
<1> QED
  BY <1>12 DEF back, M, L

LEMMA ToCounterIs ==
    ASSUME Inv, NEW dto, RowIs(dto), NEW c \in ToCounter(dto)
    PROVE  CounterIs(c)
<1>1. OfferedAll(dto.LargestEntries) = {largestEntries}
  BY OfferedAllFits DEF RowIs
<1>2. c = [entries  |-> largestEntries,
           prefixes |-> dto.LargestKeyPrefixes,
           types    |-> dto.types,
           slots    |-> dto.slots,
           lengths  |-> Rekeyed(dto.lengths, [s \in DOMAIN dto.lengths |-> ParseTypeKey(s)])]
  BY <1>1 DEF ToCounter
<1>3. c.lengths = AsCounted.lengths
  BY <1>2, KeysComeBack DEF RowIs
<1> QED
  BY <1>2, <1>3 DEF RowIs, CounterIs

----------------------------------------------------------------------------
(* The sums over all types.                                                *)

Totals ==
    /\ pc # "counting" => TotalCount = Len(input)
    /\ NumOf(types, Types) = TotalCount
    /\ BytesOf(types, Types) = BytesOf(input, Counted)

LEMMA TotalsInit == Init => Totals
<1> SUFFICES ASSUME Init PROVE Totals
  OBVIOUS
<1>1. \A t \in Types : types[t].num = 0 /\ types[t].bytes = 0
  BY DEF Init, Zero
<1>2. NumOf(types, Types) = 0 /\ BytesOf(types, Types) = 0
  BY <1>1, NothingAddsUp, ResultAssumptions
<1>3. Counted = {} /\ BytesOf(input, {}) = 0
  <2>1. Counted = {}
    BY DEF Init, Counted
  <2> QED
    BY <2>1, FS_EmptySet, BytesAddUp
<1> QED
  BY <1>2, <1>3 DEF Init, Totals

LEMMA TotalsNext ==
    ASSUME TypeOK, Totals, [Next]_vars
    PROVE  Totals'
<1>1. CASE CountEntry
  <2> DEFINE n == TotalCount
             e == input[n + 1]
  <2>1. /\ n \in Nat /\ TotalCount' = n + 1 /\ input' = input /\ e \in Entries
        /\ \A i \in 1 .. n + 1 : input[i].bytes \in Nat
    BY <1>1, NextEntry
  <2>2. e.type \in Types /\ e.bytes \in Nat
    BY <2>1 DEF Entries
  <2>3. types' = Add(types, {e.type}, e) /\ pc = "counting" /\ pc' = pc
    BY <1>1, <2>1 DEF CountEntry
  <2>4. types \in [Types -> [num : Nat, bytes : Nat]]
    BY DEF TypeOK, Tallies
  <2> HIDE DEF e
  <2>5. /\ \A t \in Types : types[t].num \in Nat /\ types[t].bytes \in Nat
        /\ \A t \in Types : t # e.type => types'[t] = types[t]
        /\ types'[e.type].num = types[e.type].num + 1
        /\ types'[e.type].bytes = types[e.type].bytes + e.bytes
    BY <2>2, <2>3, <2>4 DEF Add
  <2>6. /\ NumOf(types', Types) = NumOf(types, Types) + 1
        /\ BytesOf(types', Types) = BytesOf(types, Types) + e.bytes
    <3>1. IsFiniteSet(Types) /\ 1 \in Nat
      BY ResultAssumptions
    <3>2. PICK g : g = types'
      OBVIOUS
    <3> QED
      BY <2>2, <2>5, <3>1, <3>2, OneAddsMore
  <2>7. BytesOf(input, 1 .. n + 1) = BytesOf(input, 1 .. n) + e.bytes
    <3>1. IsFiniteSet(1 .. n + 1)
      <4>1. 1 \in Int /\ n + 1 \in Int
        BY <2>1
      <4> QED
        BY <4>1, FS_Interval
    <3>2. n + 1 \in 1 .. n + 1 /\ (1 .. n + 1) \ {n + 1} = 1 .. n
      BY <2>1
    <3>3. BytesOf(input, 1 .. n + 1) = BytesOf(input, (1 .. n + 1) \ {n + 1}) + input[n + 1].bytes
      BY <2>1, <3>1, <3>2, BytesAddUp
    <3> QED
      BY <3>2, <3>3 DEF e
  <2> QED
    BY <2>1, <2>3, <2>6, <2>7 DEF Totals, Counted
<1>2. CASE UNCHANGED <<input, TotalCount, types>> /\ (pc' # "counting" => TotalCount = Len(input))
  BY <1>2 DEF Totals, Counted
<1> QED
  BY <1>1, <1>2 DEF Next, CountEnd, MovePrefix, Return, Returned, vars, Totals

----------------------------------------------------------------------------
(* Serving.                                                                *)

LEMMA SameReference ==
    ASSUME UNCHANGED vars
    PROVE  \A x : (CounterIs(x)' <=> CounterIs(x)) /\ (RowIs(x)' <=> RowIs(x))
<1>1. /\ input' = input /\ largestEntries' = largestEntries /\ types' = types /\ lengths' = lengths
      /\ slots' = slots /\ largestKeyPrefixes' = largestKeyPrefixes
  BY DEF vars
<1>2. AsCounted' = AsCounted
  BY <1>1 DEF AsCounted, Measured
<1>3. RowKeys' = RowKeys
  BY <1>2 DEF RowKeys
<1>4. \A x : PrefixList(x)' <=> PrefixList(x)
  BY <1>1 DEF PrefixList
<1>5. \A x : BySize(x)' <=> BySize(x)
  BY <1>1 DEF BySize
<1> QED
  BY <1>1, <1>2, <1>3, <1>4, <1>5 DEF CounterIs, RowIs

LEMMA AsCountedIs == Inv => CounterIs(AsCounted)
<1> SUFFICES ASSUME Inv PROVE CounterIs(AsCounted)
  OBVIOUS
<1>1. SetToSeq(largestKeyPrefixes) \in SetToSeqs(largestKeyPrefixes)
  BY HeapsAreFinite, SetToSeqArranges
<1> QED
  BY <1>1 DEF CounterIs, AsCounted, PrefixList

LEMMA ServedNext ==
    ASSUME Inv, Served, [ServeNext]_<<vars, serving>>
    PROVE  Served'
<1>1. CASE Count
  BY <1>1 DEF Count, serving, Served
<1>2. CASE Publish
  <2>1. CounterIs(counters') /\ UNCHANGED vars /\ pc = "returned"
    BY <1>2, AsCountedIs DEF Publish
  <2> QED
    BY <1>2, <2>1, SameReference DEF Publish, Served, vars
<1>3. CASE Save
  <2>1. UNCHANGED vars /\ pc = "returned" /\ CounterIs(counters) /\ counters' = counters
    BY <1>3 DEF Save, Served
  <2>2. RowIs(history')
    BY <1>3, <2>1, ToDTORow DEF Save
  <2> QED
    BY <1>3, <2>1, <2>2, SameReference DEF Save, Served, vars
<1>4. CASE SaveFail
  BY <1>4, SameReference DEF SaveFail, Served, vars
<1>5. CASE Restart
  <2>1. UNCHANGED vars /\ history' = history /\ job' = "ended" /\ restarts' \in 0 .. MaxRestarts
    BY <1>5, ResultAssumptions DEF Restart, Served
  <2>2. counters' # None => CounterIs(counters') /\ pc = "returned"
    BY <1>5, ToCounterIs DEF Restart, Served
  <2> QED
    BY <2>1, <2>2, SameReference DEF Served, vars
<1>6. CASE UNCHANGED <<vars, serving>>
  BY <1>6, SameReference DEF Served, serving, vars
<1> QED
  BY <1>1, <1>2, <1>3, <1>4, <1>5, <1>6 DEF ServeNext, Ended

SInv == Inv /\ Totals /\ Served

LEMMA ServeInvariant == ServeSpec => []SInv
<1>1. ServeInit => Totals /\ Served
  BY TotalsInit, ResultAssumptions DEF ServeInit, Served
<1>2. Inv /\ Totals /\ Served /\ [Next]_vars /\ [ServeNext]_<<vars, serving>> => (Totals /\ Served)'
  BY TotalsNext, ServedNext DEF Inv, CInv
<1>3. ServeSpec => []Inv
  BY ResultsCount, Invariant, PTL
<1>4. ServeSpec => [][Next]_vars
  BY ResultsCount, PTL DEF Spec
<1>5. SInv <=> Inv /\ Totals /\ Served
  BY DEF SInv
<1> QED
  BY <1>1, <1>2, <1>3, <1>4, <1>5, PTL DEF ServeSpec

----------------------------------------------------------------------------
(* Theorems about what is served.                                          *)

LEMMA ServedTypes == SInv => ResultsTypeOK
<1> SUFFICES ASSUME SInv PROVE ResultsTypeOK
  OBVIOUS
<1>1. Inv /\ TypeOK /\ Served
  BY DEF SInv, Inv, CInv
<1>2. ASSUME counters # None
      PROVE  /\ counters.entries \subseteq Counted /\ Cardinality(counters.entries) <= TopN
             /\ DOMAIN counters.lengths \subseteq Types \X {LevelText(l) : l \in Levels}
             /\ Len(counters.prefixes) <= TopPrefixes
  <2>1. CounterIs(counters)
    BY <1>1, <1>2 DEF Served
  <2>2. DOMAIN AsCounted.lengths \subseteq Types \X {LevelText(l) : l \in Levels}
    <3>1. \A m \in Measured : <<m[1], LevelText(m[2])>> \in Types \X {LevelText(l) : l \in Levels}
      BY DEF Measured
    <3>2. DOMAIN AsCounted.lengths = {<<m[1], LevelText(m[2])>> : m \in Measured}
      BY DEF AsCounted
    <3> QED
      BY <3>1, <3>2
  <2>3. Len(counters.prefixes) = Cardinality(largestKeyPrefixes)
    BY <1>1, <2>1, PrefixListIs DEF CounterIs
  <2> QED
    BY <1>1, <2>1, <2>2, <2>3 DEF CounterIs, TypeOK
<1>3. history # None => BySize(history.LargestEntries)
  BY <1>1 DEF Served, RowIs
<1> QED
  BY <1>1, <1>2, <1>3 DEF ResultsTypeOK, Served, BySize

(* What the map and the row hold is what their readers expect, however     *)
(* often the process is restarted.                                         *)
THEOREM ServedTypeCorrect == ServeSpec => []ResultsTypeOK
BY ServeInvariant, ServedTypes, PTL

(* After any number of restarts the counter in the map is the one that     *)
(* Count returned, but for the order of the prefixes.                      *)
THEOREM MapHoldsWhatWasCounted == ServeSpec => [](counters # None => CounterIs(counters))
<1>1. SInv => (counters # None => CounterIs(counters))
  BY DEF SInv, Served
<1> QED
  BY <1>1, ServeInvariant, PTL

----------------------------------------------------------------------------
(* The largest keys of a page.                                             *)

\* s is cut from the arrangement a of the heap, largest first.
CutOf(s, a) ==
    LET n == Cardinality(largestEntries)
        l == Len(s)
    IN  /\ n \in Nat /\ l \in Nat /\ l <= n /\ DOMAIN s = 1 .. l
        /\ l = IF n < ShownN THEN n ELSE ShownN
        /\ \A i \in 1 .. l : s[i] = a[i]
        /\ \A i \in 1 .. n : a[i] \in largestEntries /\ input[a[i]].bytes \in Nat
        /\ Distinct(a, n)
        /\ \A x \in largestEntries : \E i \in 1 .. n : a[i] = x
        /\ \A i, j \in 1 .. n : i < j => input[a[i]].bytes >= input[a[j]].bytes

LEMMA CutExists ==
    ASSUME Inv, NEW s \in GetLargestEntries(largestEntries, ShownN, 0)
    PROVE  \E a : CutOf(s, a)
<1> DEFINE n == Cardinality(largestEntries)
<1>1. TypeOK /\ ShownN \in Nat
  BY ResultAssumptions DEF Inv, CInv
<1>2. PICK a \in SetToSeqs(largestEntries) :
        /\ BySize(a)
        /\ s = SubSeq(a, 1, Len(s))
        /\ Len(s) = IF n < ShownN THEN n ELSE ShownN
        /\ \A i \in 1 .. Len(s) : s[i] = a[i]
  BY <1>1, LargestEntriesAre
<1>3. /\ a \in Seq(largestEntries) /\ DOMAIN a = 1 .. n /\ n \in Nat /\ Len(a) = n
      /\ \A i, j \in DOMAIN a : a[i] = a[j] => i = j
      /\ \A x \in largestEntries : \E i \in DOMAIN a : a[i] = x
  BY HeapsAreFinite, Arrangement
<1> HIDE DEF n
<1>4. Len(s) \in Nat /\ Len(s) <= n
  BY <1>1, <1>2, <1>3
<1>5. DOMAIN s = 1 .. Len(s)
  <2>1. DOMAIN SubSeq(a, 1, Len(s)) = 1 .. Len(s)
    BY <1>3, <1>4
  <2> QED
    BY <1>2, <2>1
<1>6. \A i \in 1 .. n : a[i] \in largestEntries
  <2> DEFINE S == largestEntries
  <2>1. ASSUME NEW r \in Seq(S) PROVE \A i \in DOMAIN r : r[i] \in S
    <3> HIDE DEF S
    <3> QED
      OBVIOUS
  <2> QED
    BY <1>3, <2>1
<1>7. \A i \in 1 .. n : input[a[i]].bytes \in Nat
  <2>1. largestEntries \subseteq 1 .. Len(input)
    BY <1>1, CounterAssumptions DEF TypeOK, Counted
  <2> QED
    BY <1>1, <1>6, <2>1, EntryAt
<1>8. \A i, j \in 1 .. n : i < j => input[a[i]].bytes >= input[a[j]].bytes
  BY <1>2, <1>3 DEF BySize
<1>9. Distinct(a, n)
  BY <1>3 DEF Distinct
<1>10. CutOf(s, a)
  BY <1>2, <1>3, <1>4, <1>5, <1>6, <1>7, <1>8, <1>9 DEF CutOf, n
<1> QED
  BY <1>10

\* Of two arrangements, at no place has one a larger entry.
LEMMA SizesNotLarger ==
    ASSUME NEW s, NEW a, CutOf(s, a), NEW r, NEW b, CutOf(r, b),
           NEW i \in 1 .. Cardinality(largestEntries)
    PROVE  input[a[i]].bytes <= input[b[i]].bytes
<1> DEFINE n == Cardinality(largestEntries)
<1>1. /\ n \in Nat /\ i \in Nat /\ i - 1 \in Nat
      /\ \A x \in 1 .. n : a[x] \in largestEntries /\ input[a[x]].bytes \in Nat
      /\ \A x \in 1 .. n : input[b[x]].bytes \in Nat
      /\ \A x, y \in 1 .. n : x < y => input[a[x]].bytes >= input[a[y]].bytes
      /\ \A x, y \in 1 .. n : x < y => input[b[x]].bytes >= input[b[y]].bytes
      /\ \A x \in largestEntries : \E y \in 1 .. n : b[y] = x
      /\ \A x, y \in 1 .. n : a[x] = a[y] => x = y
  BY DEF CutOf, Distinct
<1> HIDE DEF n
<1> SUFFICES ASSUME input[a[i]].bytes > input[b[i]].bytes PROVE FALSE
  BY <1>1 DEF n
<1>2. i \in 1 .. n /\ \A x \in 1 .. i : x \in 1 .. n
  BY <1>1 DEF n
<1>3. ASSUME NEW x \in 1 .. i PROVE \E j \in 1 .. i - 1 : b[j] = a[x]
  <2>1. input[a[x]].bytes >= input[a[i]].bytes
    <3>1. CASE x = i
      BY <1>1, <1>2, <3>1
    <3>2. CASE x # i
      BY <1>1, <1>2, <3>2
    <3> QED
      BY <3>1, <3>2
  <2>2. PICK j \in 1 .. n : b[j] = a[x]
    BY <1>1, <1>2
  <2>3. input[b[j]].bytes > input[b[i]].bytes
    BY <1>1, <1>2, <2>1, <2>2
  <2>4. ~(i < j) /\ i # j
    BY <1>1, <1>2, <2>3
  <2> QED
    BY <1>1, <2>2, <2>4
<1>4. Distinct(a, i) /\ Among(a, i, b, i - 1)
  BY <1>1, <1>2, <1>3 DEF Distinct, Among
<1>5. i <= i - 1
  BY <1>1, <1>4, Pigeons
<1> QED
  BY <1>1, <1>5

\* Two cuts differ only in which of the entries of the least size they show.
LEMMA CutsAgree ==
    ASSUME Inv, NEW old \in GetLargestEntries(largestEntries, ShownN, 0),
           NEW new \in GetLargestEntries(largestEntries, ShownN, 0)
    PROVE  /\ Sizes(old) = Sizes(new)
           /\ \A k \in Range(old) \ Range(new) : input[k].bytes = input[old[Len(old)]].bytes
<1> DEFINE n == Cardinality(largestEntries)
           l == Len(old)
<1>1. PICK a : CutOf(old, a)
  BY CutExists
<1>2. PICK b : CutOf(new, b)
  BY CutExists
<1>3. /\ n \in Nat /\ l \in Nat /\ l <= n /\ Len(new) = l
      /\ DOMAIN old = 1 .. l /\ DOMAIN new = 1 .. l
      /\ \A i \in 1 .. l : old[i] = a[i] /\ new[i] = b[i]
      /\ \A i \in 1 .. n : a[i] \in largestEntries /\ input[a[i]].bytes \in Nat
      /\ \A i \in 1 .. n : input[b[i]].bytes \in Nat
      /\ \A x \in largestEntries : \E i \in 1 .. n : b[i] = x
      /\ \A i, j \in 1 .. n : i < j => input[a[i]].bytes >= input[a[j]].bytes
      /\ \A i, j \in 1 .. n : i < j => input[b[i]].bytes >= input[b[j]].bytes
  BY <1>1, <1>2 DEF CutOf
<1>4. \A i \in 1 .. n : input[a[i]].bytes <= input[b[i]].bytes /\ input[b[i]].bytes <= input[a[i]].bytes
  BY <1>1, <1>2, SizesNotLarger
<1> HIDE DEF n, l
<1>5. \A i \in 1 .. n : input[a[i]].bytes = input[b[i]].bytes
  BY <1>3, <1>4
<1>6. \A i \in 1 .. l : i \in 1 .. n
  BY <1>3
<1>7. \A i \in 1 .. l : input[old[i]].bytes = input[new[i]].bytes
  BY <1>3, <1>5, <1>6
<1>8. Sizes(old) = Sizes(new)
  BY <1>3, <1>7 DEF Sizes
<1>9. ASSUME NEW k \in Range(old) \ Range(new) PROVE input[k].bytes = input[old[l]].bytes
  <2>1. PICK i \in 1 .. l : old[i] = k
    BY <1>3 DEF Range
  <2>2. k = a[i] /\ k \in largestEntries /\ l \in 1 .. l
    BY <1>3, <1>6, <2>1
  <2>3. PICK j \in 1 .. n : b[j] = k
    BY <1>3, <2>2
  <2>4. j \notin 1 .. l
    BY <1>3, <2>3 DEF Range
  <2>5. l < j
    BY <1>3, <2>4
  <2>6. input[b[l]].bytes >= input[b[j]].bytes
    BY <1>3, <1>6, <2>2, <2>5
  <2>7. input[a[i]].bytes >= input[a[l]].bytes
    <3>1. CASE i = l
      BY <1>3, <1>6, <2>1, <3>1
    <3>2. CASE i # l
      BY <1>3, <1>6, <2>2, <3>2
    <3> QED
      BY <3>1, <3>2
  <2>8. /\ input[a[i]].bytes \in Nat /\ input[a[l]].bytes \in Nat
        /\ input[b[l]].bytes = input[a[l]].bytes /\ old[l] = a[l]
    BY <1>3, <1>5, <1>6, <2>1, <2>2
  <2> QED
    BY <2>2, <2>3, <2>6, <2>7, <2>8
<1> QED
  BY <1>8, <1>9 DEF l

\* A cut of the sorted heap holds the largest entries of the dump.
LEMMA CutIsLargest ==
    ASSUME SInv, pc = "returned", NEW s \in GetLargestEntries(largestEntries, ShownN, 0)
    PROVE  /\ Len(s) = Min({ShownN, Len(input)})
           /\ \A i \in DOMAIN s, d \in (1 .. Len(input)) \ Range(s) :
                  input[d].bytes <= input[s[i]].bytes
<1> DEFINE n == Cardinality(largestEntries)
<1>1. Inv /\ TypeOK /\ LargestKept /\ ShownN \in Nat /\ ShownN <= TopN /\ TopN \in Nat
  BY CounterAssumptions, ResultAssumptions DEF SInv, Inv, CInv
<1>2. TotalCount = Len(input) /\ Len(input) \in Nat /\ Counted = 1 .. Len(input)
  BY <1>1, CounterAssumptions DEF SInv, Totals, TypeOK, Counted
<1>3. /\ n = IF Len(input) < TopN THEN Len(input) ELSE TopN
      /\ \A k \in largestEntries, d \in Counted \ largestEntries : input[d].bytes <= input[k].bytes
  BY <1>1, <1>2 DEF LargestKept
<1> HIDE DEF n
<1>4. PICK a : CutOf(s, a)
  BY <1>1, CutExists
<1>5. /\ Len(s) \in Nat /\ Len(s) <= n /\ n \in Nat /\ DOMAIN s = 1 .. Len(s)
      /\ Len(s) = IF n < ShownN THEN n ELSE ShownN
      /\ \A i \in 1 .. Len(s) : s[i] = a[i]
      /\ \A i \in 1 .. n : a[i] \in largestEntries /\ input[a[i]].bytes \in Nat
      /\ \A x \in largestEntries : \E i \in 1 .. n : a[i] = x
      /\ \A i, j \in 1 .. n : i < j => input[a[i]].bytes >= input[a[j]].bytes
  BY <1>4 DEF CutOf, n
<1>6. Len(s) = Min({ShownN, Len(input)})
  BY <1>1, <1>2, <1>3, <1>5, MinOfTwo
<1>7. ASSUME NEW i \in DOMAIN s, NEW d \in (1 .. Len(input)) \ Range(s)
      PROVE  input[d].bytes <= input[s[i]].bytes
  <2>1. i \in 1 .. Len(s) /\ i \in 1 .. n /\ s[i] = a[i] /\ a[i] \in largestEntries
    BY <1>5
  <2>2. CASE d \notin largestEntries
    BY <1>2, <1>3, <2>1, <2>2
  <2>3. CASE d \in largestEntries
    <3>1. PICK j \in 1 .. n : a[j] = d
      BY <1>5, <2>3
    <3>2. j \notin 1 .. Len(s)
      BY <1>5, <1>7, <3>1 DEF Range
    <3>3. i < j
      BY <1>5, <2>1, <3>1, <3>2
    <3>4. /\ input[a[i]].bytes >= input[a[j]].bytes
          /\ input[a[i]].bytes \in Nat /\ input[a[j]].bytes \in Nat
      BY <1>5, <2>1, <3>1, <3>3
    <3> QED
      BY <2>1, <3>1, <3>4
  <2> QED
    BY <2>2, <2>3
<1> QED
  BY <1>6, <1>7

(* The "largest keys" of the page are the largest of the whole dump, in    *)
(* memory and after restarts.                                              *)
THEOREM ShownKeysAreLargest == ServeSpec => []ShownAreLargest
<1>1. SInv => ShownAreLargest
  <2> SUFFICES ASSUME SInv, counters # None, NEW s \in LargestKeys(counters)
               PROVE  /\ Len(s) = Min({ShownN, Len(input)})
                      /\ \A i \in DOMAIN s, d \in (1 .. Len(input)) \ Range(s) :
                             input[d].bytes <= input[s[i]].bytes
    BY DEF ShownAreLargest
  <2>1. pc = "returned" /\ LargestKeys(counters) = GetLargestEntries(largestEntries, ShownN, 0)
    BY DEF SInv, Served, CounterIs, LargestKeys
  <2> QED
    BY <2>1, CutIsLargest
<1> QED
  BY <1>1, ServeInvariant, PTL

(* The totals of the page are those of the dump: no entry is lost between  *)
(* the types, in memory or in the row.                                     *)
THEOREM PageTotalsAreExact == ServeSpec => []PageTotals
<1>1. SInv => PageTotals
  <2> SUFFICES ASSUME SInv, counters # None
               PROVE  /\ TotalNum(counters) = Len(input)
                      /\ TotalBytes(counters) = TallyOf(DOMAIN input).bytes
    BY DEF PageTotals
  <2>1. pc = "returned" /\ counters.types = types /\ Totals
    BY DEF SInv, Served, CounterIs
  <2>2. TotalNum(counters) = NumOf(counters.types, Types)
    BY Zenon DEF TotalNum, NumOf
  <2>3. TotalBytes(counters) = BytesOf(counters.types, Types)
    BY Zenon DEF TotalBytes, BytesOf
  <2>4. TotalCount = Len(input) /\ DOMAIN input = Counted
    <3>1. input \in Seq(Entries)
      BY CounterAssumptions DEF SInv, Inv, CInv, TypeOK
    <3> QED
      BY <2>1, <3>1 DEF Totals, Counted
  <2>5. TallyOf(DOMAIN input).bytes = BytesOf(input, Counted)
    BY <2>4, TallyIsIn DEF TallyIn
  <2> QED
    BY <2>1, <2>2, <2>3, <2>4, <2>5 DEF Totals
<1> QED
  BY <1>1, ServeInvariant, PTL

----------------------------------------------------------------------------
(* The rows of a page.                                                     *)

\* One prefix is larger than another, as far as the page shows.
Above(a, b) == a.bytes > b.bytes \/ (a.bytes = b.bytes /\ a.num > b.num)

LEMMA AboveIsOrder ==
    ASSUME NEW a \in PrefixEntries, NEW b \in PrefixEntries, NEW c \in PrefixEntries
    PROVE  /\ Above(a, b) => Less(b, a)
           /\ ~Less(b, a) => ~Above(a, b)
           /\ ~Above(a, b) /\ Above(a, c) => Above(b, c)
           /\ ~Above(a, b) /\ ~Above(b, a) <=> a.bytes = b.bytes /\ a.num = b.num
           /\ ~Above(a, b) => a.bytes <= b.bytes
<1>1. /\ a.bytes \in Nat /\ a.num \in Nat /\ a.key \in Nat
      /\ b.bytes \in Nat /\ b.num \in Nat /\ b.key \in Nat
      /\ c.bytes \in Nat /\ c.num \in Nat /\ c.key \in Nat
  BY CounterAssumptions DEF PrefixEntries
<1> QED
  BY <1>1 DEF Less, Above

\* The positions of the rows of one type among the first k sorted prefixes.
Placed(rows, q, t, k, pos) ==
    /\ rows \in Seq(PrefixEntries)
    /\ pos \in [1 .. Len(rows) -> 1 .. k]
    /\ \A i \in 1 .. Len(rows) : rows[i] = q[pos[i]] /\ q[pos[i]].type = t
    /\ \A i, j \in 1 .. Len(rows) : i < j => pos[i] < pos[j]
    /\ \A m \in 1 .. k : q[m].type = t /\ (\A i \in 1 .. Len(rows) : pos[i] # m) =>
         /\ q[m].bytes < BigPrefix /\ Len(rows) > PageRows
         /\ \A i \in 1 .. Len(rows) : pos[i] < m
    /\ \A i \in 1 .. Len(rows) : i > PageRows + 1 => q[pos[i]].bytes >= BigPrefix

\* The page leaves out the next prefix.
LEMMA PlacedSkips ==
    ASSUME NEW rows, NEW q, NEW t, NEW k \in Nat, NEW pos, Placed(rows, q, t, k, pos),
           q[k + 1].type = t => q[k + 1].bytes < BigPrefix /\ Len(rows) > PageRows
    PROVE  Placed(rows, q, t, k + 1, pos)
<1>1. Len(rows) \in Nat /\ \A i \in 1 .. Len(rows) : pos[i] \in 1 .. k
  BY DEF Placed
<1>2. pos \in [1 .. Len(rows) -> 1 .. k + 1]
  BY <1>1 DEF Placed
<1>3. \A m \in 1 .. k + 1 : m \in 1 .. k \/ m = k + 1
  OBVIOUS
<1>4. \A i \in 1 .. Len(rows) : pos[i] < k + 1
  BY <1>1
<1> QED
  BY <1>1, <1>2, <1>3, <1>4 DEF Placed

\* The page takes the next prefix.
LEMMA PlacedTakes ==
    ASSUME NEW rows, NEW q, NEW t, NEW k \in Nat, NEW pos, Placed(rows, q, t, k, pos),
           q[k + 1] \in PrefixEntries, q[k + 1].type = t,
           q[k + 1].bytes >= BigPrefix \/ Len(rows) <= PageRows,
           \A m \in 1 .. k : q[m] \in PrefixEntries /\ q[k + 1].bytes <= q[m].bytes
    PROVE  \E p : Placed(Append(rows, q[k + 1]), q, t, k + 1, p)
<1> DEFINE L == Len(rows)
           new == Append(rows, q[k + 1])
           p == [i \in 1 .. L + 1 |-> IF i = L + 1 THEN k + 1 ELSE pos[i]]
<1>1. /\ L \in Nat /\ rows \in Seq(PrefixEntries) /\ BigPrefix \in Nat /\ PageRows \in Nat
      /\ \A i \in 1 .. L : pos[i] \in 1 .. k
      /\ \A m \in 1 .. k + 1 : q[m].bytes \in Nat
  <2>1. \A m \in 1 .. k + 1 : m \in 1 .. k \/ m = k + 1
    OBVIOUS
  <2>2. \A m \in 1 .. k + 1 : q[m] \in PrefixEntries
    BY <2>1
  <2>3. \A m \in 1 .. k + 1 : q[m].bytes \in Nat
    BY <2>2 DEF PrefixEntries
  <2>4. L \in Nat /\ rows \in Seq(PrefixEntries) /\ \A i \in 1 .. L : pos[i] \in 1 .. k
    BY DEF Placed
  <2> QED
    BY <2>3, <2>4, ResultAssumptions
<1>2. q[k + 1] \in PrefixEntries
  OBVIOUS
<1>3. /\ new \in Seq(PrefixEntries) /\ Len(new) = L + 1
      /\ \A i \in 1 .. L : new[i] = rows[i]
      /\ new[L + 1] = q[k + 1]
  BY <1>1, <1>2
<1>4. /\ p[L + 1] = k + 1
      /\ \A i \in 1 .. L : p[i] = pos[i]
      /\ \A i \in 1 .. L + 1 : i \in 1 .. L \/ i = L + 1
  BY <1>1
<1>5. DOMAIN p = 1 .. L + 1 /\ p = [i \in 1 .. L + 1 |-> p[i]]
  OBVIOUS
<1> HIDE DEF new, p
<1>6. \A i \in 1 .. L + 1 : p[i] \in 1 .. k + 1
  BY <1>1, <1>4
<1>7. p \in [1 .. L + 1 -> 1 .. k + 1]
  BY <1>5, <1>6
<1>8. \A i \in 1 .. L + 1 : new[i] = q[p[i]] /\ q[p[i]].type = t
  BY <1>3, <1>4 DEF Placed
<1>9. \A i, j \in 1 .. L + 1 : i < j => p[i] < p[j]
  <2> SUFFICES ASSUME NEW i \in 1 .. L + 1, NEW j \in 1 .. L + 1, i < j PROVE p[i] < p[j]
    OBVIOUS
  <2>1. i \in 1 .. L
    BY <1>1
  <2>2. CASE j = L + 1
    BY <1>1, <1>4, <2>1, <2>2
  <2>3. CASE j \in 1 .. L
    BY <1>4, <2>1, <2>3 DEF Placed
  <2> QED
    BY <1>4, <2>2, <2>3
\* A prefix left out before was not big, and the page was full already.
<1>10. \A m \in 1 .. k : q[m].type = t => \E i \in 1 .. L : pos[i] = m
  <2> SUFFICES ASSUME NEW m \in 1 .. k, q[m].type = t, \A i \in 1 .. L : pos[i] # m
               PROVE  FALSE
    OBVIOUS
  <2>1. q[m].bytes < BigPrefix /\ L > PageRows
    BY DEF Placed
  <2>2. q[k + 1].bytes <= q[m].bytes
    OBVIOUS
  <2>3. m \in 1 .. k + 1 /\ k + 1 \in 1 .. k + 1
    OBVIOUS
  <2> QED
    BY <1>1, <2>1, <2>2, <2>3
<1>11. \A m \in 1 .. k + 1 : q[m].type = t => \E i \in 1 .. L + 1 : p[i] = m
  <2> SUFFICES ASSUME NEW m \in 1 .. k + 1, q[m].type = t
               PROVE  \E i \in 1 .. L + 1 : p[i] = m
    OBVIOUS
  <2>1. CASE m = k + 1
    BY <1>1, <1>4, <2>1
  <2>2. CASE m \in 1 .. k
    <3>1. PICK i \in 1 .. L : pos[i] = m
      BY <1>10, <2>2
    <3>2. i \in 1 .. L + 1 /\ p[i] = m
      BY <1>1, <1>4, <3>1
    <3> QED
      BY <3>2
  <2> QED
    BY <2>1, <2>2
<1>12. \A i \in 1 .. L + 1 : i > PageRows + 1 => q[p[i]].bytes >= BigPrefix
  <2> SUFFICES ASSUME NEW i \in 1 .. L + 1, i > PageRows + 1 PROVE q[p[i]].bytes >= BigPrefix
    OBVIOUS
  <2>1. CASE i = L + 1
    BY <1>1, <1>4, <2>1
  <2>2. CASE i \in 1 .. L
    BY <1>4, <2>2 DEF Placed
  <2> QED
    BY <1>4, <2>1, <2>2
<1>13. Placed(new, q, t, k + 1, p)
  BY <1>3, <1>7, <1>8, <1>9, <1>11, <1>12 DEF Placed
<1> QED
  BY <1>13 DEF new

\* The rows of a page are some of the sorted prefixes, in their order.
LEMMA RowsArePlaced ==
    ASSUME Inv, NEW c, PrefixList(c.prefixes), NEW t
    PROVE  \E pos : Placed(LargestKeyPrefixesOfType(c, t), GetLargestKeyPrefixes(c), t,
                           Cardinality(largestKeyPrefixes), pos)
<1> DEFINE q == GetLargestKeyPrefixes(c)
           n == Cardinality(largestKeyPrefixes)
           Skip(rows, e) == e.type # t \/ (e.bytes < BigPrefix /\ Len(rows) > PageRows)
           V == Seq(PrefixEntries)
           step == [p \in V \X (1 .. n) |->
                      IF Skip(p[1], q[p[2]]) THEN p[1] ELSE Append(p[1], q[p[2]])]
           F(g) == [T \in SUBSET DOMAIN q |->
                      IF T = {} THEN <<>>
                      ELSE IF Skip(g[T \ {Max(T)}], q[Max(T)]) THEN g[T \ {Max(T)}]
                           ELSE Append(g[T \ {Max(T)}], q[Max(T)])]
           fold == CHOOSE g : g = F(g)
<1>1. LargestKeyPrefixesOfType(c, t) = fold[DOMAIN q]
  BY Zenon DEF LargestKeyPrefixesOfType, FoldLeft, MapThenFoldSet
<1>2. /\ n \in Nat /\ DOMAIN q = 1 .. n /\ \A i \in 1 .. n : q[i] \in PrefixEntries
      /\ \A i, j \in 1 .. n : i < j => ~Less(q[i], q[j])
  <2>1. n \in Nat
    BY HeapsAreFinite
  <2>2. DOMAIN q = 1 .. n /\ PrefixList(q) /\ \A i, j \in DOMAIN q : i < j => ~Less(q[i], q[j])
    BY SortedPrefixes
  <2> HIDE DEF q
  <2>4. \A i \in DOMAIN q : q[i] \in PrefixEntries
    BY <2>2, PrefixListIs
  <2> QED
    BY <2>1, <2>2, <2>4
<1> HIDE DEF n, q
<1>3. step \in [V \X (1 .. n) -> V]
  <2>1. ASSUME NEW p \in V \X (1 .. n)
        PROVE  (IF Skip(p[1], q[p[2]]) THEN p[1] ELSE Append(p[1], q[p[2]])) \in V
    <3>1. p[1] \in V /\ q[p[2]] \in PrefixEntries
      BY <1>2
    <3> HIDE DEF Skip
    <3> QED
      BY <3>1
  <2> HIDE DEF V, Skip
  <2> QED
    BY <2>1
<1>4. PICK g \in [SUBSET (1 .. n) -> V] : Folds(g, step, <<>>, n)
  <2>1. <<>> \in V
    OBVIOUS
  <2> HIDE DEF V, step
  <2> QED
    BY <1>2, <1>3, <2>1, FoldExists
<1> HIDE DEF Skip
<1>5. g = F(g)
  <2>1. ASSUME NEW T \in SUBSET (1 .. n), T # {}
        PROVE  g[T] = IF Skip(g[T \ {Max(T)}], q[Max(T)]) THEN g[T \ {Max(T)}]
                      ELSE Append(g[T \ {Max(T)}], q[Max(T)])
    <3>1. Max(T) \in 1 .. n
      <4>1. \E x \in T : \A y \in T : x >= y
        BY <1>2, <2>1, GreatestOf
      <4> QED
        BY <4>1, Zenon DEF Max
    <3>2. g[T \ {Max(T)}] \in V
      BY <1>4
    <3>3. g[T] = step[<<g[T \ {Max(T)}], Max(T)>>]
      BY <1>4, <2>1 DEF Folds
    <3> HIDE DEF V
    <3> QED
      BY <3>1, <3>2, <3>3
  <2>2. g[{}] = <<>>
    BY <1>4 DEF Folds
  <2> QED
    BY <1>2, <1>4, <2>1, <2>2
<1>6. fold = F(fold)
  <2> HIDE DEF F
  <2> QED
    BY <1>5, Zenon
<1> HIDE DEF fold
<1>7. /\ fold[{}] = <<>>
      /\ \A T \in SUBSET (1 .. n) : T # {} =>
           fold[T] = IF Skip(fold[T \ {Max(T)}], q[Max(T)]) THEN fold[T \ {Max(T)}]
                     ELSE Append(fold[T \ {Max(T)}], q[Max(T)])
  BY <1>2, <1>6
<1> HIDE DEF F, V, step
<1> DEFINE P == {k \in Nat : k <= n => \E pos : Placed(fold[1 .. k], q, t, k, pos)}
<1>8. 0 \in P
  <2>1. 1 .. 0 = {} /\ Len(<<>>) = 0 /\ <<>> \in Seq(PrefixEntries) /\ <<>> \in [{} -> {}]
    OBVIOUS
  <2>2. Placed(<<>>, q, t, 0, <<>>)
    BY <2>1 DEF Placed
  <2> QED
    BY <1>7, <2>1, <2>2
<1>9. ASSUME NEW k \in P PROVE k + 1 \in P
  <2> SUFFICES ASSUME k + 1 <= n PROVE \E pos : Placed(fold[1 .. k + 1], q, t, k + 1, pos)
    OBVIOUS
  <2>1. k \in Nat /\ k < n /\ \E pos : Placed(fold[1 .. k], q, t, k, pos)
    <3>1. k \in Nat /\ (k <= n => \E pos : Placed(fold[1 .. k], q, t, k, pos))
      OBVIOUS
    <3>2. k <= n /\ k < n
      BY <1>2, <3>1
    <3> QED
      BY <3>1, <3>2
  <2>2. PICK pos : Placed(fold[1 .. k], q, t, k, pos)
    BY <2>1
  <2>3. Max(1 .. k + 1) = k + 1 /\ (1 .. k + 1) \ {k + 1} = 1 .. k /\ 1 .. k + 1 # {}
    BY <2>1, MaxOfInterval
  <2>4. 1 .. k + 1 \in SUBSET (1 .. n) /\ k + 1 \in 1 .. n
    BY <1>2, <2>1
  <2>5. fold[1 .. k + 1] = IF Skip(fold[1 .. k], q[k + 1]) THEN fold[1 .. k]
                           ELSE Append(fold[1 .. k], q[k + 1])
    <3>1. fold[1 .. k + 1] =
            IF Skip(fold[(1 .. k + 1) \ {Max(1 .. k + 1)}], q[Max(1 .. k + 1)])
            THEN fold[(1 .. k + 1) \ {Max(1 .. k + 1)}]
            ELSE Append(fold[(1 .. k + 1) \ {Max(1 .. k + 1)}], q[Max(1 .. k + 1)])
      BY <1>7, <2>3, <2>4, Zenon
    <3> QED
      BY <2>3, <3>1, Zenon
  <2>6. CASE Skip(fold[1 .. k], q[k + 1])
    <3>1. q[k + 1].type = t => q[k + 1].bytes < BigPrefix /\ Len(fold[1 .. k]) > PageRows
      BY <2>6 DEF Skip
    <3>2. Placed(fold[1 .. k], q, t, k + 1, pos)
      BY <2>1, <2>2, <3>1, PlacedSkips
    <3> QED
      BY <2>5, <2>6, <3>2, Zenon
  <2>7. CASE ~Skip(fold[1 .. k], q[k + 1])
    <3>1. /\ q[k + 1] \in PrefixEntries /\ q[k + 1].type = t
          /\ \A m \in 1 .. k : q[m] \in PrefixEntries /\ q[k + 1].bytes <= q[m].bytes
      <4>1. ASSUME NEW m \in 1 .. k PROVE q[m] \in PrefixEntries /\ q[k + 1].bytes <= q[m].bytes
        <5>1. m \in 1 .. n /\ m < k + 1
          BY <1>2, <2>1
        <5>2. ~Less(q[m], q[k + 1]) /\ q[m] \in PrefixEntries /\ q[k + 1] \in PrefixEntries
          BY <1>2, <2>4, <5>1
        <5> QED
          BY <5>2, AboveIsOrder
      <4> QED
        BY <1>2, <2>4, <2>7, <4>1 DEF Skip
    <3>2. q[k + 1].bytes >= BigPrefix \/ Len(fold[1 .. k]) <= PageRows
      <4>1. q[k + 1].bytes \in Nat /\ BigPrefix \in Nat /\ PageRows \in Nat
        BY <3>1, ResultAssumptions DEF PrefixEntries
      <4>2. Len(fold[1 .. k]) \in Nat
        BY <2>2 DEF Placed
      <4> QED
        BY <2>7, <3>1, <4>1, <4>2 DEF Skip
    <3>3. \E p : Placed(Append(fold[1 .. k], q[k + 1]), q, t, k + 1, p)
      BY <2>1, <2>2, <3>1, <3>2, PlacedTakes
    <3> QED
      BY <2>5, <2>7, <3>3, Zenon
  <2> QED
    BY <2>6, <2>7
<1> HIDE DEF P
<1>10. P = Nat
  <2>1. P \in SUBSET Nat
    BY DEF P
  <2> QED
    BY <1>8, <1>9, <2>1, InductionOnNat
<1>11. \E pos : Placed(fold[1 .. n], q, t, n, pos)
  <2>1. n \in P /\ n <= n
    BY <1>2, <1>10
  <2> QED
    BY <2>1, Zenon DEF P
<1> QED
  BY <1>1, <1>2, <1>11 DEF q, n

\* Nothing at place i of a list is above what is at place i of another list,
\* if everything above the latter is in that list, at an earlier place.
LEMMA NotAbove ==
    ASSUME NEW i \in Nat \ {0}, NEW a, NEW b,
           \A x \in 1 .. i : a[x] \in PrefixEntries, b[i] \in PrefixEntries,
           \A x, y \in 1 .. i : a[x] = a[y] => x = y,
           \A x \in 1 .. i : ~Above(a[i], a[x]),
           \A x \in 1 .. i : Above(a[x], b[i]) => \E j \in 1 .. i - 1 : b[j] = a[x]
    PROVE  ~Above(a[i], b[i])
<1> SUFFICES ASSUME Above(a[i], b[i]) PROVE FALSE
  OBVIOUS
<1>1. \A x \in 1 .. i : Above(a[x], b[i])
  BY AboveIsOrder
<1>2. \A x \in 1 .. i : \E j \in 1 .. i - 1 : b[j] = a[x]
  BY <1>1
<1>3. i \in Nat /\ i - 1 \in Nat /\ i - 1 < i
  OBVIOUS
<1> QED
  <2>1. Distinct(a, i) /\ Among(a, i, b, i - 1)
    BY <1>2, <1>3 DEF Distinct, Among
  <2>2. i <= i - 1
    BY <1>3, <2>1, Pigeons
  <2> QED
    BY <1>3, <2>2

\* The rows are those of the largest prefixes of the type that are in the heap.
Tops(rows, t) ==
    LET n == Len(rows) IN
    /\ rows \in Seq(PrefixEntries)
    /\ \A i \in 1 .. n : rows[i] \in largestKeyPrefixes /\ rows[i].type = t
    /\ \A i, j \in 1 .. n : rows[i] = rows[j] => i = j
    /\ \A i, j \in 1 .. n : i < j => ~Above(rows[j], rows[i])
    /\ \A d \in largestKeyPrefixes : d.type = t /\ (\A i \in 1 .. n : rows[i] # d) =>
         /\ d.bytes < BigPrefix /\ n > PageRows
         /\ \A i \in 1 .. n : ~Above(d, rows[i])
    /\ \A i \in 1 .. n : i > PageRows + 1 => rows[i].bytes >= BigPrefix

LEMMA RowsAreTops ==
    ASSUME Inv, NEW c, PrefixList(c.prefixes), NEW t
    PROVE  Tops(LargestKeyPrefixesOfType(c, t), t)
<1> DEFINE q == GetLargestKeyPrefixes(c)
           n == Cardinality(largestKeyPrefixes)
           rows == LargestKeyPrefixesOfType(c, t)
           L == Len(rows)
<1>1. PICK pos : Placed(rows, q, t, n, pos)
  BY RowsArePlaced
<1>2. /\ n \in Nat /\ DOMAIN q = 1 .. n /\ \A i \in DOMAIN q : q[i] \in PrefixEntries
      /\ \A i, j \in DOMAIN q : i < j => ~Less(q[i], q[j])
      /\ PrefixList(q)
  <2>1. n \in Nat
    BY HeapsAreFinite
  <2>2. DOMAIN q = 1 .. n /\ PrefixList(q) /\ \A i, j \in DOMAIN q : i < j => ~Less(q[i], q[j])
    BY SortedPrefixes
  <2> HIDE DEF q
  <2>4. \A i \in DOMAIN q : q[i] \in PrefixEntries
    BY <2>2, PrefixListIs
  <2> QED
    BY <2>1, <2>2, <2>4
<1> HIDE DEF q, rows
<1>4. /\ \A i \in 1 .. n : q[i] \in largestKeyPrefixes /\ q[i] \in PrefixEntries
      /\ \A i, j \in 1 .. n : q[i] = q[j] => i = j
      /\ \A x \in largestKeyPrefixes : \E i \in 1 .. n : q[i] = x
  BY <1>2, PrefixListIs
<1> HIDE DEF n
\* Later in the list is not above.
<1>6. \A i, j \in 1 .. n : i < j => ~Above(q[j], q[i])
  BY <1>2, AboveIsOrder
<1>7. /\ L \in Nat /\ rows \in Seq(PrefixEntries)
      /\ \A i \in 1 .. L : pos[i] \in 1 .. n /\ rows[i] = q[pos[i]] /\ q[pos[i]].type = t
      /\ \A i, j \in 1 .. L : i < j => pos[i] < pos[j]
      /\ \A i \in 1 .. L : i > PageRows + 1 => q[pos[i]].bytes >= BigPrefix
  BY <1>1 DEF Placed
<1>8. \A m \in 1 .. n : q[m].type = t /\ (\A i \in 1 .. L : pos[i] # m) =>
        q[m].bytes < BigPrefix /\ L > PageRows /\ \A i \in 1 .. L : pos[i] < m
  BY <1>1 DEF Placed
<1>9. \A i \in 1 .. L : rows[i] = q[pos[i]]
  BY <1>7
<1> HIDE DEF L
<1>10. \A i \in 1 .. L : rows[i] \in largestKeyPrefixes /\ rows[i].type = t
  BY <1>4, <1>7, <1>9
<1>11. \A i, j \in 1 .. L : rows[i] = rows[j] => i = j
  <2> SUFFICES ASSUME NEW i \in 1 .. L, NEW j \in 1 .. L, rows[i] = rows[j] PROVE i = j
    OBVIOUS
  <2>1. pos[i] = pos[j] /\ pos[i] \in 1 .. n
    BY <1>4, <1>7, <1>9
  <2>2. ~(i < j) /\ ~(j < i)
    BY <1>7, <2>1
  <2> QED
    BY <1>7, <2>2
<1>12. \A i, j \in 1 .. L : i < j => ~Above(rows[j], rows[i])
  BY <1>6, <1>7, <1>9
<1>13. ASSUME NEW d \in largestKeyPrefixes, d.type = t, \A i \in 1 .. L : rows[i] # d
       PROVE  d.bytes < BigPrefix /\ L > PageRows /\ \A i \in 1 .. L : ~Above(d, rows[i])
  <2>1. PICK m \in 1 .. n : q[m] = d
    BY <1>4
  <2>2. q[m].type = t /\ q[m].bytes = d.bytes /\ \A i \in 1 .. L : pos[i] # m
    BY <1>9, <1>13, <2>1
  <2>3. d.bytes < BigPrefix /\ L > PageRows /\ \A i \in 1 .. L : pos[i] < m
    BY <1>8, <2>2
  <2>4. \A i \in 1 .. L : ~Above(d, rows[i])
    BY <1>6, <1>7, <1>9, <2>1, <2>3
  <2> QED
    BY <2>3, <2>4
<1>14. \A i \in 1 .. L : i > PageRows + 1 => rows[i].bytes >= BigPrefix
  BY <1>7, <1>9
<1>15. Tops(rows, t)
  BY <1>7, <1>10, <1>11, <1>12, <1>13, <1>14 DEF Tops, L
<1> QED
  BY <1>15 DEF rows

\* Of two pages of one type, at no place has one a larger row.
LEMMA TopsNotAbove ==
    ASSUME Inv, NEW t, NEW r1, Tops(r1, t), NEW r2, Tops(r2, t),
           NEW i \in 1 .. Len(r1), i \in 1 .. Len(r2)
    PROVE  ~Above(r1[i], r2[i])
<1>1. /\ Len(r1) \in Nat /\ Len(r2) \in Nat /\ i \in Nat \ {0}
      /\ \A x \in 1 .. Len(r1) : r1[x] \in largestKeyPrefixes /\ r1[x].type = t
      /\ \A x \in 1 .. Len(r2) : r2[x] \in largestKeyPrefixes
  BY DEF Tops
<1>2. /\ \A x \in 1 .. Len(r1) : r1[x] \in PrefixEntries
      /\ \A x \in 1 .. Len(r2) : r2[x] \in PrefixEntries
  BY <1>1, HeapsAreFinite
<1>3. \A x \in 1 .. i : x \in 1 .. Len(r1) /\ x \in 1 .. Len(r2)
  BY <1>1
<1>4. \A x, y \in 1 .. i : r1[x] = r1[y] => x = y
  BY <1>3 DEF Tops
<1>5. \A x \in 1 .. i : ~Above(r1[i], r1[x])
  <2> SUFFICES ASSUME NEW x \in 1 .. i PROVE ~Above(r1[i], r1[x])
    OBVIOUS
  <2>1. CASE x = i
    BY <1>1, <1>2, <1>3, <2>1 DEF Above, PrefixEntries
  <2>2. CASE x # i
    BY <1>1, <1>3, <2>2 DEF Tops
  <2> QED
    BY <2>1, <2>2
<1>6. ASSUME NEW x \in 1 .. i, Above(r1[x], r2[i]) PROVE \E j \in 1 .. i - 1 : r2[j] = r1[x]
  <2>1. PICK j \in 1 .. Len(r2) : r2[j] = r1[x]
    BY <1>1, <1>3, <1>6 DEF Tops
  <2>2. j # i
    BY <1>2, <1>6, <2>1 DEF Above, PrefixEntries
  <2>3. ~(i < j)
    BY <1>6, <2>1 DEF Tops
  <2> QED
    BY <1>1, <2>1, <2>2, <2>3
<1>7. \A x \in 1 .. i : r1[x] \in PrefixEntries
  BY <1>2, <1>3
<1>8. r2[i] \in PrefixEntries
  BY <1>2
<1> QED
  BY <1>1, <1>4, <1>5, <1>6, <1>7, <1>8, NotAbove

\* Two pages of one type have as many rows.
LEMMA TopsNotLonger ==
    ASSUME Inv, NEW t, NEW r1, Tops(r1, t), NEW r2, Tops(r2, t)
    PROVE  Len(r1) <= Len(r2)
<1> DEFINE n == Len(r1)
           m == Len(r2)
<1>1. /\ n \in Nat /\ m \in Nat
      /\ \A x \in 1 .. n : r1[x] \in largestKeyPrefixes /\ r1[x].type = t
      /\ \A x, y \in 1 .. n : r1[x] = r1[y] => x = y
  BY DEF Tops
<1> SUFFICES ASSUME m < n PROVE FALSE
  BY <1>1
<1>2. PICK a \in 1 .. n : \A j \in 1 .. m : r2[j] # r1[a]
  <2> HIDE DEF n, m
  <2> SUFFICES ASSUME \A a \in 1 .. n : \E j \in 1 .. m : r2[j] = r1[a] PROVE FALSE
    OBVIOUS
  <2> QED
    <3>1. Distinct(r1, n) /\ Among(r1, n, r2, m)
      BY <1>1 DEF Distinct, Among
    <3>2. n <= m
      BY <1>1, <3>1, Pigeons
    <3> QED
      BY <1>1, <3>2
<1>3. r1[a].bytes < BigPrefix /\ m > PageRows
  BY <1>1, <1>2 DEF Tops
<1>4. PageRows \in Nat /\ BigPrefix \in Nat
  BY ResultAssumptions
<1>5. n \in 1 .. n /\ n > PageRows + 1
  BY <1>1, <1>3, <1>4
<1>6. r1[n].bytes >= BigPrefix
  BY <1>5 DEF Tops
<1>7. r1[n] \in PrefixEntries /\ r1[a] \in PrefixEntries
  BY <1>1, <1>5, HeapsAreFinite
<1>8. r1[n].bytes <= r1[a].bytes
  <2>1. CASE a = n
    BY <1>7, <2>1 DEF PrefixEntries
  <2>2. CASE a # n
    <3>1. ~Above(r1[n], r1[a])
      BY <1>1, <1>5, <2>2 DEF Tops
    <3> QED
      BY <1>7, <3>1, AboveIsOrder
  <2> QED
    BY <2>1, <2>2
<1>9. r1[n].bytes \in Nat /\ r1[a].bytes \in Nat
  BY <1>7 DEF PrefixEntries
<1> QED
  BY <1>3, <1>4, <1>6, <1>8, <1>9

\* What the rows of a page show, in terms of the prefixes of the heap.
LEMMA TopsAre ==
    ASSUME Inv, NEW t, NEW r, Tops(r, t)
    PROVE  /\ Len(r) \in Nat /\ DOMAIN r = 1 .. Len(r)
           /\ \A i \in 1 .. Len(r) : /\ r[i] \in largestKeyPrefixes /\ r[i] \in PrefixEntries
                                     /\ r[i].type = t
                                     /\ Measures(r)[i] = <<r[i].bytes, r[i].num>>
           /\ Measures(r) = [i \in 1 .. Len(r) |-> Measures(r)[i]]
<1>1. /\ Len(r) \in Nat /\ DOMAIN r = 1 .. Len(r)
      /\ \A i \in 1 .. Len(r) : r[i] \in largestKeyPrefixes /\ r[i].type = t
  BY DEF Tops
<1>2. \A i \in 1 .. Len(r) : r[i] \in PrefixEntries
  BY <1>1, HeapsAreFinite
<1>4. \A i \in 1 .. Len(r) : Measures(r)[i] = <<r[i].bytes, r[i].num>>
  BY <1>1 DEF Measures
<1>5. Measures(r) = [i \in 1 .. Len(r) |-> Measures(r)[i]]
  BY <1>1 DEF Measures
<1> QED
  BY <1>1, <1>2, <1>4, <1>5

\* A row that is larger than the last one is on every page of the type.
LEMMA SettledAgree ==
    ASSUME Inv, NEW t, NEW r1, Tops(r1, t), NEW r2, Tops(r2, t),
           Measures(r1) = Measures(r2), Len(r1) = Len(r2)
    PROVE  Settled(r1) \subseteq Settled(r2)
<1> DEFINE n == Len(r1)
<1>1. /\ n \in Nat /\ DOMAIN r1 = 1 .. n /\ DOMAIN r2 = 1 .. n
      /\ \A i \in 1 .. n : /\ r1[i] \in largestKeyPrefixes /\ r1[i] \in PrefixEntries
                           /\ r1[i].type = t
                           /\ Measures(r1)[i] = <<r1[i].bytes, r1[i].num>>
      /\ \A i \in 1 .. n : /\ r2[i] \in PrefixEntries
                           /\ Measures(r1)[i] = <<r2[i].bytes, r2[i].num>>
  BY TopsAre
<1> HIDE DEF n
<1> SUFFICES ASSUME NEW i \in 1 .. n, Measures(r1)[i] # Measures(r1)[n]
             PROVE  r1[i].key \in Settled(r2)
  BY <1>1 DEF Settled, n
<1>2. n \in 1 .. n /\ i < n
  <2>1. i # n
    OBVIOUS
  <2> QED
    BY <1>1, <2>1
<1>3. ~Above(r1[n], r1[i])
  BY <1>2 DEF Tops, n
<1>4. ~(r1[i].bytes = r1[n].bytes /\ r1[i].num = r1[n].num)
  BY <1>1, <1>2
<1>5. Above(r1[i], r1[n])
  BY <1>1, <1>2, <1>3, <1>4, AboveIsOrder
<1>6. r1[n].bytes = r2[n].bytes /\ r1[n].num = r2[n].num
  BY <1>1, <1>2
<1>7. Above(r1[i], r2[n])
  BY <1>5, <1>6 DEF Above
<1>8. PICK j \in 1 .. n : r2[j] = r1[i]
  BY <1>1, <1>2, <1>7 DEF Tops, n
<1>9. r2[j] = r1[i] /\ Measures(r1)[j] = Measures(r1)[i]
  BY <1>1, <1>8
<1> QED
  BY <1>1, <1>9 DEF Settled, n

\* The page shows the same of two counters with the same prefixes.
LEMMA RowsAgree ==
    ASSUME Inv, NEW t, NEW c, PrefixList(c.prefixes), NEW d, PrefixList(d.prefixes)
    PROVE  LET r1 == LargestKeyPrefixesOfType(c, t)
               r2 == LargestKeyPrefixesOfType(d, t)
           IN  Measures(r1) = Measures(r2) /\ Settled(r1) = Settled(r2)
<1> DEFINE r1 == LargestKeyPrefixesOfType(c, t)
           r2 == LargestKeyPrefixesOfType(d, t)
<1>1. Tops(r1, t)
  BY RowsAreTops
<1>2. Tops(r2, t)
  BY RowsAreTops
<1> HIDE DEF r1, r2
<1>3. Len(r1) \in Nat /\ Len(r2) \in Nat
  BY <1>1, <1>2 DEF Tops
<1>4. Len(r1) <= Len(r2) /\ Len(r2) <= Len(r1)
  BY <1>1, <1>2, TopsNotLonger
<1>5. Len(r1) = Len(r2)
  BY <1>3, <1>4
<1>6. \A i \in 1 .. Len(r1) : ~Above(r1[i], r2[i]) /\ ~Above(r2[i], r1[i])
  BY <1>1, <1>2, <1>5, TopsNotAbove
<1>7. /\ \A i \in 1 .. Len(r1) : r1[i] \in PrefixEntries /\ r2[i] \in PrefixEntries
      /\ \A i \in 1 .. Len(r1) : Measures(r1)[i] = <<r1[i].bytes, r1[i].num>>
      /\ \A i \in 1 .. Len(r1) : Measures(r2)[i] = <<r2[i].bytes, r2[i].num>>
      /\ Measures(r1) = [i \in 1 .. Len(r1) |-> Measures(r1)[i]]
      /\ Measures(r2) = [i \in 1 .. Len(r2) |-> Measures(r2)[i]]
  BY <1>1, <1>2, <1>5, TopsAre
<1>8. \A i \in 1 .. Len(r1) : Measures(r1)[i] = Measures(r2)[i]
  BY <1>6, <1>7, AboveIsOrder
<1>9. Measures(r1) = Measures(r2)
  BY <1>5, <1>7, <1>8
<1>10. Settled(r1) \subseteq Settled(r2) /\ Settled(r2) \subseteq Settled(r1)
  BY <1>1, <1>2, <1>5, <1>9, SettledAgree
<1> QED
  BY <1>9, <1>10 DEF r1, r2

(* A restart does not change what users see of an analysis, whatever       *)
(* order the heap had in the map and in the row.                           *)
THEOREM RestartsShowTheSame == ServeSpec => []RestartShowsSame
<1>1. SInv => RestartShowsSame
  <2> SUFFICES ASSUME SInv, counters # None PROVE RestartShowsSame
    BY DEF RestartShowsSame
  <2>1. Inv /\ CounterIs(counters) /\ CounterIs(AsCounted)
    BY AsCountedIs DEF SInv, Served
  <2>2. /\ LargestKeys(AsCounted) = GetLargestEntries(largestEntries, ShownN, 0)
        /\ LargestKeys(counters) = GetLargestEntries(largestEntries, ShownN, 0)
    BY <2>1 DEF CounterIs, LargestKeys
  <2>3. ASSUME NEW old \in LargestKeys(AsCounted), NEW new \in LargestKeys(counters)
        PROVE  /\ Sizes(old) = Sizes(new)
               /\ \A k \in Range(old) \ Range(new) :
                      input[k].bytes = input[old[Len(old)]].bytes
    BY <2>1, <2>2, CutsAgree
  <2>4. PrefixList(counters.prefixes) /\ PrefixList(AsCounted.prefixes)
    BY <2>1 DEF CounterIs
  <2>5. ASSUME NEW t \in Types
        PROVE  LET old == LargestKeyPrefixesOfType(AsCounted, t)
                   new == LargestKeyPrefixesOfType(counters, t)
               IN  Measures(old) = Measures(new) /\ Settled(old) = Settled(new)
    BY <2>1, <2>4, RowsAgree
  <2>6. counters.lengths = AsCounted.lengths
    BY <2>1 DEF CounterIs
  <2>7. LenLevelCount(AsCounted) = LenLevelCount(counters)
    BY <2>6, Zenon DEF LenLevelCount
  <2>8. types = counters.types /\ slots = counters.slots
    BY <2>1 DEF CounterIs
  <2> QED
    BY <2>3, <2>5, <2>7, <2>8 DEF RestartShowsSame
<1> QED
  BY <1>1, ServeInvariant, PTL

----------------------------------------------------------------------------
(* The largest prefixes of the dump.                                       *)

\* a lists all prefixes of the type t, largest first.
ListsAll(a, t) ==
    LET m == Len(a)
    IN  /\ m \in Nat /\ DOMAIN a = 1 .. m
        /\ \A i \in 1 .. m : /\ a[i] \in MovedEntries /\ a[i] \in PrefixEntries /\ a[i].type = t
        /\ Distinct(a, m)
        /\ \A d \in MovedEntries : d.type = t => \E i \in 1 .. m : a[i] = d
        /\ \A i, j \in 1 .. m : i < j => ~Above(a[j], a[i])

LEMMA MovedEntryType ==
    ASSUME TypeOK
    PROVE  MovedEntries \in SUBSET PrefixEntries
<1> SUFFICES ASSUME NEW k \in Types \X Names PROVE EntryOf(k) \in PrefixEntries
  BY DEF MovedEntries, Moved
<1>1. Reference(k) \in [num : Nat, bytes : Nat]
  BY ReferenceType
<1>2. k[1] \in Types /\ k[2] \in Names
  OBVIOUS
<1> QED
  BY <1>1, <1>2 DEF EntryOf, PrefixEntries

\* The reference of the page is the list of what was moved to the heap.
LEMMA AllListsAll ==
    ASSUME Inv, pc = "returned", NEW t \in Types
    PROVE  ListsAll(AllPrefixesOfType(t), t)
<1> DEFINE all == {e \in {ReferenceEntry(<<t, n>>) : n \in Names} : e.num > 0}
           a == AllPrefixesOfType(t)
           m == Cardinality(all)
<1>1. TypeOK /\ PrefixesTallied
  BY DEF Inv, CInv
<1>2. \A k \in Types \X Names : Reference(k).num > 0 => prefixes[k] = Zero
  BY <1>1 DEF PrefixesTallied, Present
<1>3. \A n \in Names : /\ ReferenceEntry(<<t, n>>) = EntryOf(<<t, n>>)
                       /\ EntryOf(<<t, n>>).num = Reference(<<t, n>>).num
                       /\ EntryOf(<<t, n>>).type = t
  <2> SUFFICES ASSUME NEW n \in Names
               PROVE  /\ ReferenceEntry(<<t, n>>) = EntryOf(<<t, n>>)
                      /\ EntryOf(<<t, n>>).num = Reference(<<t, n>>).num
                      /\ EntryOf(<<t, n>>).type = t
    OBVIOUS
  <2>1. <<t, n>> \in Types \X Names
    OBVIOUS
  <2>2. ReferenceEntry(<<t, n>>) = EntryOf(<<t, n>>)
    BY <1>1, <2>1, ReferenceIsTally
  <2>3. \A k : EntryOf(k).num = Reference(k).num /\ EntryOf(k).type = k[1]
    BY DEF EntryOf
  <2> QED
    BY <2>2, <2>3
<1>4. \A e \in all : e \in MovedEntries /\ e.type = t
  <2> SUFFICES ASSUME NEW n \in Names, ReferenceEntry(<<t, n>>).num > 0
               PROVE  /\ ReferenceEntry(<<t, n>>) \in MovedEntries
                      /\ ReferenceEntry(<<t, n>>).type = t
    OBVIOUS
  <2>1. <<t, n>> \in Types \X Names /\ Reference(<<t, n>>).num > 0
    BY <1>3
  <2>2. <<t, n>> \in Moved
    BY <1>2, <2>1 DEF Moved
  <2> QED
    BY <1>3, <2>2 DEF MovedEntries
<1>5. ASSUME NEW d \in MovedEntries, d.type = t PROVE d \in all
  <2>1. PICK k \in Types \X Names : d = EntryOf(k) /\ Reference(k).num > 0
    BY DEF MovedEntries, Moved
  <2>2. k = <<t, k[2]>> /\ k[2] \in Names
    BY <1>5, <2>1 DEF EntryOf
  <2> QED
    BY <1>3, <2>1, <2>2
<1> HIDE DEF all
<1>6. all \subseteq PrefixEntries /\ IsFiniteSet(all)
  <2>1. IsFiniteSet(MovedEntries)
    BY <1>1 DEF PrefixesTallied, KeepsLargest
  <2> QED
    BY <1>1, <1>4, <2>1, MovedEntryType, FS_Subset
<1>7. a \in SetToSeqs(all) /\ \A i, j \in DOMAIN a : i < j => ~Less(a[i], a[j])
  <2> DEFINE R == {p \in all \X all : ~Less(p[1], p[2])}
  <2>1. \A x, y \in all : <<x, y>> \in R <=> ~Less(x, y)
    OBVIOUS
  <2> HIDE DEF R
  <2>2. \A x, y \in all : <<x, y>> \in R \/ <<y, x>> \in R
    BY <1>6, <2>1, LessIsOrder
  <2>3. \A x, y, z \in all : <<x, y>> \in R /\ <<y, z>> \in R => <<x, z>> \in R
    <3> SUFFICES ASSUME NEW x \in all, NEW y \in all, NEW z \in all,
                        <<x, y>> \in R, <<y, z>> \in R
                 PROVE  <<x, z>> \in R
      OBVIOUS
    <3>1. ~Less(x, y) /\ ~Less(y, z)
      BY <2>1
    <3>2. ~Less(x, z)
      BY <1>6, <3>1, LessIsWeak
    <3> QED
      BY <2>1, <3>2
  <2>4. PICK s \in SetToSeqs(all) : \A i, j \in DOMAIN s : i < j => <<s[i], s[j]>> \in R
    BY <1>6, <2>2, <2>3, SortedExists
  <2>5. \A i \in DOMAIN s : s[i] \in all
    <3>1. s \in Seq(all)
      BY <1>6, Arrangement
    <3> QED
      BY <3>1
  <2>6. \A i, j \in DOMAIN s : i < j => ~Less(s[i], s[j])
    BY <2>1, <2>4, <2>5
  <2>7. a = CHOOSE r \in SetToSeqs(all) : \A i, j \in DOMAIN r : i < j => ~Less(r[i], r[j])
    BY Zenon DEF AllPrefixesOfType, all
  <2> QED
    BY <2>6, <2>7, Zenon
<1> HIDE DEF a
<1>8. /\ a \in Seq(all) /\ Len(a) = m /\ DOMAIN a = 1 .. m /\ m \in Nat
      /\ \A i, j \in DOMAIN a : a[i] = a[j] => i = j
      /\ \A x \in all : \E i \in DOMAIN a : a[i] = x
  BY <1>6, <1>7, Arrangement, FS_CardinalityType
<1> HIDE DEF m
<1>9. \A i \in 1 .. m : a[i] \in all /\ a[i] \in PrefixEntries
  BY <1>6, <1>8
<1>10. \A i, j \in 1 .. m : i < j => ~Above(a[j], a[i])
  <2> SUFFICES ASSUME NEW i \in 1 .. m, NEW j \in 1 .. m, i < j PROVE ~Above(a[j], a[i])
    OBVIOUS
  <2>1. ~Less(a[i], a[j])
    BY <1>7, <1>8
  <2> QED
    BY <1>9, <2>1, AboveIsOrder
<1>11. ListsAll(a, t)
  BY <1>4, <1>5, <1>8, <1>9, <1>10 DEF ListsAll, Distinct
<1> QED
  BY <1>11 DEF a

\* The rows of a page are as large as the largest prefixes of the type.
LEMMA TopsAreLargest ==
    ASSUME Inv, NEW t, NEW r, Tops(r, t), NEW a, ListsAll(a, t)
    PROVE  /\ Len(r) <= Len(a)
           /\ \A i \in 1 .. Len(r) : a[i].bytes = r[i].bytes /\ a[i].num = r[i].num
<1> DEFINE n == Len(r)
           m == Len(a)
<1>1. /\ n \in Nat
      /\ \A i \in 1 .. n : r[i] \in largestKeyPrefixes /\ r[i] \in PrefixEntries /\ r[i].type = t
      /\ \A i, j \in 1 .. n : r[i] = r[j] => i = j
      /\ \A i, j \in 1 .. n : i < j => ~Above(r[j], r[i])
      /\ \A d \in largestKeyPrefixes : d.type = t /\ (\A i \in 1 .. n : r[i] # d) =>
           \A i \in 1 .. n : ~Above(d, r[i])
  <2>1. Tops(r, t)
    OBVIOUS
  <2> QED
    BY <2>1, TopsAre DEF Tops
<1>2. /\ m \in Nat
      /\ \A i \in 1 .. m : a[i] \in MovedEntries /\ a[i] \in PrefixEntries /\ a[i].type = t
      /\ \A i, j \in 1 .. m : a[i] = a[j] => i = j
      /\ \A d \in MovedEntries : d.type = t => \E i \in 1 .. m : a[i] = d
      /\ \A i, j \in 1 .. m : i < j => ~Above(a[j], a[i])
  BY DEF ListsAll, Distinct
<1>3. largestKeyPrefixes \subseteq MovedEntries
  BY DEF Inv, PrefixesTallied, KeepsLargest
\* What is in the heap is not smaller than what is not.
<1>4. \A x \in largestKeyPrefixes, d \in MovedEntries :
        d \notin largestKeyPrefixes => ~Above(d, x)
  <2> SUFFICES ASSUME NEW x \in largestKeyPrefixes, NEW d \in MovedEntries,
                      d \notin largestKeyPrefixes
               PROVE  ~Above(d, x)
    OBVIOUS
  <2>1. ~Less(x, d)
    BY DEF Inv, PrefixesTallied, KeepsLargest
  <2>2. x \in PrefixEntries /\ d \in PrefixEntries
    BY <1>3, MovedEntryType DEF Inv, CInv
  <2> QED
    BY <2>1, <2>2, AboveIsOrder
<1> HIDE DEF n, m
<1>5. n <= m
  <2>1. Distinct(r, n) /\ Among(r, n, a, m)
    BY <1>1, <1>2, <1>3 DEF Distinct, Among
  <2> QED
    BY <1>1, <1>2, <2>1, Pigeons
<1>6. ASSUME NEW i \in 1 .. n PROVE a[i].bytes = r[i].bytes /\ a[i].num = r[i].num
  <2>1. /\ i \in Nat \ {0} /\ i \in 1 .. n /\ i \in 1 .. m
        /\ \A x \in 1 .. i : x \in 1 .. n /\ x \in 1 .. m
    BY <1>1, <1>2, <1>5
  <2>2. ~Above(r[i], r[i]) /\ ~Above(a[i], a[i]) /\ r[i] \in PrefixEntries /\ a[i] \in PrefixEntries
    BY <1>1, <1>2, <2>1 DEF Above, PrefixEntries
  <2>3. ~Above(r[i], a[i])
    <3>1. \A x \in 1 .. i : ~Above(r[i], r[x])
      <4> SUFFICES ASSUME NEW x \in 1 .. i PROVE ~Above(r[i], r[x])
        OBVIOUS
      <4>1. x = i \/ x < i
        BY <2>1
      <4> QED
        BY <1>1, <2>1, <2>2, <4>1
    <3>2. ASSUME NEW x \in 1 .. i, Above(r[x], a[i]) PROVE \E j \in 1 .. i - 1 : a[j] = r[x]
      <4>1. PICK j \in 1 .. m : a[j] = r[x]
        BY <1>1, <1>2, <1>3, <2>1
      <4>2. j # i /\ ~(i < j)
        BY <1>2, <2>1, <2>2, <3>2, <4>1
      <4> QED
        BY <1>2, <2>1, <4>1, <4>2
    <3>3. /\ \A x \in 1 .. i : r[x] \in PrefixEntries
          /\ \A x, y \in 1 .. i : r[x] = r[y] => x = y
      BY <1>1, <2>1
    <3> QED
      BY <2>1, <2>2, <3>1, <3>2, <3>3, NotAbove
  <2>4. ~Above(a[i], r[i])
    <3>1. \A x \in 1 .. i : ~Above(a[i], a[x])
      <4> SUFFICES ASSUME NEW x \in 1 .. i PROVE ~Above(a[i], a[x])
        OBVIOUS
      <4>1. x = i \/ x < i
        BY <2>1
      <4> QED
        BY <1>2, <2>1, <2>2, <4>1
    <3>2. ASSUME NEW x \in 1 .. i, Above(a[x], r[i]) PROVE \E j \in 1 .. i - 1 : r[j] = a[x]
      <4>1. a[x] \in largestKeyPrefixes /\ a[x].type = t
        BY <1>1, <1>2, <1>4, <2>1, <3>2
      <4>2. PICK j \in 1 .. n : r[j] = a[x]
        BY <1>1, <2>1, <3>2, <4>1
      <4>3. j # i /\ ~(i < j)
        BY <1>1, <2>1, <2>2, <3>2, <4>2
      <4> QED
        BY <1>1, <2>1, <4>2, <4>3
    <3>3. /\ \A x \in 1 .. i : a[x] \in PrefixEntries
          /\ \A x, y \in 1 .. i : a[x] = a[y] => x = y
      BY <1>2, <2>1
    <3> QED
      BY <2>1, <2>2, <3>1, <3>2, <3>3, NotAbove
  <2> QED
    BY <2>2, <2>3, <2>4, AboveIsOrder
<1> QED
  BY <1>5, <1>6 DEF n, m

\* Rows are missing only if the heap is full, or if the page is and the next
\* prefix is not big.
LEMMA RowsMissing ==
    ASSUME Inv, NEW t, NEW r, Tops(r, t), NEW a, ListsAll(a, t), Len(r) # Len(a),
           Cardinality(largestKeyPrefixes) # TopPrefixes
    PROVE  Len(r) > PageRows /\ a[Len(r) + 1].bytes < BigPrefix
<1> DEFINE n == Len(r)
           m == Len(a)
<1>1. /\ n \in Nat /\ m \in Nat
      /\ \A i \in 1 .. m : a[i] \in MovedEntries /\ a[i] \in PrefixEntries /\ a[i].type = t
      /\ \A i, j \in 1 .. m : a[i] = a[j] => i = j
      /\ \A i, j \in 1 .. m : i < j => ~Above(a[j], a[i])
  BY DEF ListsAll, Distinct, Tops
<1>2. \A d \in largestKeyPrefixes : d.type = t /\ (\A i \in 1 .. n : r[i] # d) =>
        d.bytes < BigPrefix /\ n > PageRows
  BY DEF Tops
<1>3. n < m
  <2>1. n <= m
    BY TopsAreLargest
  <2> QED
    BY <1>1, <2>1
<1>4. largestKeyPrefixes = MovedEntries
  <2>1. /\ IsFiniteSet(MovedEntries) /\ largestKeyPrefixes \subseteq MovedEntries
        /\ Cardinality(largestKeyPrefixes) = Cardinality(MovedEntries)
    BY DEF Inv, PrefixesTallied, KeepsLargest
  <2> QED
    BY <2>1, FS_Subset
<1> HIDE DEF n, m
<1>5. n + 1 \in Nat /\ n + 1 \in 1 .. m /\ \A x \in 1 .. n + 1 : x \in 1 .. m
  BY <1>1, <1>3
<1>6. PICK x \in 1 .. n + 1 : \A j \in 1 .. n : r[j] # a[x]
  <2> SUFFICES ASSUME \A x \in 1 .. n + 1 : \E j \in 1 .. n : r[j] = a[x] PROVE FALSE
    OBVIOUS
  <2>1. Distinct(a, n + 1) /\ Among(a, n + 1, r, n)
    BY <1>1, <1>5 DEF Distinct, Among
  <2>2. n + 1 <= n
    BY <1>1, <1>5, <2>1, Pigeons
  <2> QED
    BY <1>1, <2>2
<1>7. a[x].bytes < BigPrefix /\ n > PageRows
  BY <1>1, <1>2, <1>4, <1>5, <1>6
<1>8. a[n + 1].bytes <= a[x].bytes
  <2>1. CASE x = n + 1
    BY <1>1, <1>5, <2>1 DEF PrefixEntries
  <2>2. CASE x # n + 1
    <3>1. ~Above(a[n + 1], a[x])
      BY <1>1, <1>5, <2>2
    <3> QED
      BY <1>1, <1>5, <3>1, AboveIsOrder
  <2> QED
    BY <2>1, <2>2
<1>9. a[n + 1].bytes \in Nat /\ a[x].bytes \in Nat /\ BigPrefix \in Nat
  BY <1>1, <1>5, ResultAssumptions DEF PrefixEntries
<1> QED
  BY <1>7, <1>8, <1>9 DEF n

(* The prefix table of each type is a true top list of that type, for      *)
(* every dump and every bound of the heap and of the page.                 *)
THEOREM PagesShowTopPrefixes == ServeSpec => []PagePrefixesAreTop
<1>1. SInv => PagePrefixesAreTop
  <2> SUFFICES ASSUME SInv, counters # None, NEW t \in Types
               PROVE  LET rows == LargestKeyPrefixesOfType(counters, t)
                          all == AllPrefixesOfType(t)
                      IN  /\ IsPrefix(Measures(rows), Measures(all))
                          /\ \/ Len(rows) = Len(all)
                             \/ Len(counters.prefixes) = TopPrefixes
                             \/ Len(rows) > PageRows /\ all[Len(rows) + 1].bytes < BigPrefix
    BY DEF PagePrefixesAreTop
  <2> DEFINE rows == LargestKeyPrefixesOfType(counters, t)
             a == AllPrefixesOfType(t)
  <2>1. Inv /\ pc = "returned" /\ PrefixList(counters.prefixes)
    BY DEF SInv, Served, CounterIs
  <2>2. Tops(rows, t)
    BY <2>1, RowsAreTops
  <2>3. ListsAll(a, t)
    BY <2>1, AllListsAll
  <2>4. Len(counters.prefixes) = Cardinality(largestKeyPrefixes)
    BY <2>1, PrefixListIs
  <2> HIDE DEF rows, a
  <2> DEFINE n == Len(rows)
             m == Len(a)
             N2 == Nat \X Nat
  <2>5. /\ n \in Nat /\ m \in Nat /\ n <= m /\ DOMAIN a = 1 .. m
        /\ \A i \in 1 .. n : a[i].bytes = rows[i].bytes /\ a[i].num = rows[i].num
        /\ \A i \in 1 .. n : Measures(rows)[i] = <<rows[i].bytes, rows[i].num>>
        /\ Measures(rows) = [i \in 1 .. n |-> Measures(rows)[i]]
        /\ \A i \in 1 .. m : a[i] \in PrefixEntries
    <3>1. /\ n <= m /\ \A i \in 1 .. n : a[i].bytes = rows[i].bytes /\ a[i].num = rows[i].num
      BY <2>1, <2>2, <2>3, TopsAreLargest
    <3>2. /\ n \in Nat
          /\ \A i \in 1 .. n : Measures(rows)[i] = <<rows[i].bytes, rows[i].num>>
          /\ Measures(rows) = [i \in 1 .. n |-> Measures(rows)[i]]
      BY <2>1, <2>2, TopsAre
    <3>3. m \in Nat /\ DOMAIN a = 1 .. m /\ \A i \in 1 .. m : a[i] \in PrefixEntries
      BY <2>3 DEF ListsAll
    <3> QED
      BY <3>1, <3>2, <3>3
  <2>6. \A i \in 1 .. m : Measures(a)[i] = <<a[i].bytes, a[i].num>> /\ Measures(a)[i] \in N2
    BY <2>5 DEF Measures, PrefixEntries
  <2>7. Measures(a) = [i \in 1 .. m |-> Measures(a)[i]]
    BY <2>5 DEF Measures
  <2> HIDE DEF n, m, N2
  <2>8. \A i \in 1 .. n : i \in 1 .. m /\ Measures(rows)[i] = Measures(a)[i] /\ Measures(rows)[i] \in N2
    <3>1. \A i \in 1 .. n : i \in 1 .. m
      BY <2>5
    <3>2. \A i \in 1 .. n : Measures(rows)[i] = Measures(a)[i]
      BY <2>5, <2>6, <3>1
    <3> QED
      BY <2>6, <3>1, <3>2
  <2>9. /\ Measures(a) \in Seq(N2) /\ Len(Measures(a)) = m
        /\ Measures(rows) \in Seq(N2) /\ Len(Measures(rows)) = n
    <3>1. ASSUME NEW f, NEW k \in Nat, f = [i \in 1 .. k |-> f[i]], \A i \in 1 .. k : f[i] \in N2
          PROVE  f \in Seq(N2) /\ Len(f) = k
      <4>1. f \in [1 .. k -> N2]
        BY <3>1
      <4> QED
        BY <4>1
    <3>2. \A i \in 1 .. m : Measures(a)[i] \in N2
      BY <2>6
    <3>3. \A i \in 1 .. n : Measures(rows)[i] \in N2
      BY <2>8
    <3>4. Measures(a) \in Seq(N2) /\ Len(Measures(a)) = m
      BY <2>5, <2>7, <3>1, <3>2
    <3>5. Measures(rows) \in Seq(N2) /\ Len(Measures(rows)) = n
      BY <2>5, <3>1, <3>3
    <3> QED
      BY <3>4, <3>5
  <2>10. SubSeq(Measures(rows), 1, n) = SubSeq(Measures(a), 1, n)
    BY <2>5, <2>8, <2>9
  <2>11. IsPrefix(Measures(rows), Measures(a))
    BY <2>5, <2>9, <2>10 DEF IsPrefix
  <2>12. \/ n = m
         \/ Cardinality(largestKeyPrefixes) = TopPrefixes
         \/ n > PageRows /\ a[n + 1].bytes < BigPrefix
    BY <2>1, <2>2, <2>3, RowsMissing DEF n, m
  <2> QED
    BY <2>4, <2>11, <2>12 DEF rows, a, n, m
<1> QED
  BY <1>1, ServeInvariant, PTL
=============================================================================
