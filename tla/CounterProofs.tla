--------------------------- MODULE CounterProofs ---------------------------
(***************************************************************************)
(* What TLAPS proves about Counter, for every dump, every set of types,    *)
(* prefixes and slots, and every size of the heaps.                        *)
(*                                                                         *)
(* Both heaps are bounded; that they hold what they should rests on how    *)
(* many elements they have, hence on their being finite.  What the maps    *)
(* hold is the tally of a set of positions of the dump: one more entry     *)
(* adds to it (FoldFacts), and moving the prefixes alters none of it.      *)
(***************************************************************************)
EXTENDS Counter, FoldFacts

Heap == IsFiniteSet(largestEntries)

PrefixHeap == IsFiniteSet(largestKeyPrefixes)

CInv == TypeOK /\ LargestKept /\ Heap /\ PrefixHeap

----------------------------------------------------------------------------
(* The heap of entries.                                                    *)

\* A heap that has all the entries counted so far in it is full of them.
LEMMA AllCounted ==
    ASSUME CInv, Cardinality(largestEntries) < TopN
    PROVE  largestEntries = Counted /\ Cardinality(largestEntries) = TotalCount
<1>1. TotalCount \in Nat /\ largestEntries \in SUBSET (1 .. TotalCount)
  BY DEF CInv, TypeOK, Counted
<1>2. TotalCount < TopN /\ Cardinality(largestEntries) = TotalCount
  BY <1>1, CounterAssumptions DEF CInv, LargestKept
<1>3. IsFiniteSet(1 .. TotalCount) /\ Cardinality(1 .. TotalCount) = TotalCount
  BY <1>1, FS_Interval
<1>4. Cardinality(1 .. TotalCount) = Cardinality(largestEntries)
        => 1 .. TotalCount = largestEntries
  BY <1>1, <1>3, FS_Subset, Zenon
<1> QED
  BY <1>2, <1>3, <1>4 DEF Counted

\* The sizes of entries are numbers.
LEMMA EntryAt ==
    ASSUME TypeOK, NEW k \in 1 .. Len(input)
    PROVE  /\ input[k] \in Entries /\ input[k].bytes \in Nat
           /\ input[k].type \in Types /\ input[k].names \in SUBSET Names
<1>1. input \in Seq(Entries)
  BY CounterAssumptions DEF TypeOK
<1>2. input[k] \in Entries
  BY <1>1
<1> QED
  BY <1>2 DEF Entries

\* Offering the next entry keeps the largest entries.
LEMMA OfferedKeeps ==
    ASSUME CInv, input' = input, TotalCount < Len(input), TotalCount' = TotalCount + 1,
           largestEntries' \in Offered(largestEntries, TotalCount')
    PROVE  /\ largestEntries' \subseteq Counted' /\ IsFiniteSet(largestEntries')
           /\ Cardinality(largestEntries') <= TopN
           /\ LargestKept'
<1> DEFINE h == largestEntries
           n == TotalCount'
<1>1. /\ TotalCount \in Nat /\ TopN \in Nat \ {0}
      /\ h \subseteq Counted /\ IsFiniteSet(h) /\ Cardinality(h) \in Nat
      /\ Cardinality(h) <= TopN
      /\ n = TotalCount + 1 /\ n \notin h /\ n \in 1 .. Len(input)
  BY FS_CardinalityType, CounterAssumptions DEF CInv, TypeOK, Heap, Counted
<1>2. Counted' = Counted \cup {n}
  BY <1>1 DEF Counted
<1>3. \A k \in Counted' : input[k].bytes \in Nat
  BY <1>1, <1>2, EntryAt DEF CInv, TypeOK, Counted
<1>4. CASE Cardinality(h) < TopN
  <2>1. h = Counted /\ Cardinality(h) = TotalCount
    BY <1>4, AllCounted
  <2>2. largestEntries' = h \cup {n}
    BY <1>4 DEF Offered
  <2>3. IsFiniteSet(h \cup {n}) /\ Cardinality(h \cup {n}) = TotalCount + 1
    BY <1>1, <2>1, FS_AddElement
  <2> QED
    BY <1>1, <1>2, <1>4, <2>1, <2>2, <2>3 DEF LargestKept
<1>5. CASE Cardinality(h) = TopN
  <2>1. PICK k \in Smallest(h) :
          largestEntries' = IF input[n].bytes > input[k].bytes THEN (h \ {k}) \cup {n} ELSE h
    BY <1>1, <1>5 DEF Offered
  <2>2. k \in h /\ k \in Counted' /\ \A m \in h : input[k].bytes <= input[m].bytes
    BY <1>1, <1>2, <2>1 DEF Smallest
  <2>3. TotalCount >= TopN /\ \A m \in h, d \in Counted \ h : input[d].bytes <= input[m].bytes
    BY <1>1, <1>5 DEF CInv, LargestKept
  <2>4. CASE input[n].bytes > input[k].bytes
    <3>1. largestEntries' = (h \ {k}) \cup {n}
      BY <2>1, <2>4
    <3>2. IsFiniteSet(largestEntries') /\ Cardinality(largestEntries') = TopN
      <4>1. IsFiniteSet(h \ {k}) /\ Cardinality(h \ {k}) = TopN - 1
        BY <1>1, <1>5, <2>2, FS_RemoveElement
      <4>2. IsFiniteSet((h \ {k}) \cup {n}) /\ Cardinality((h \ {k}) \cup {n}) = TopN - 1 + 1
        BY <1>1, <4>1, FS_AddElement
      <4> QED
        BY <1>1, <3>1, <4>2
    <3>3. largestEntries' \subseteq Counted'
      BY <1>1, <1>2, <3>1
    <3>4. ASSUME NEW m \in largestEntries', NEW d \in Counted' \ largestEntries'
          PROVE  input[d].bytes <= input[m].bytes
      <4>1. input[k].bytes <= input[m].bytes
        BY <1>3, <2>2, <2>4, <3>1, <3>3
      <4>2. input[d].bytes <= input[k].bytes
        BY <1>2, <1>3, <2>2, <2>3, <3>1
      <4> QED
        BY <1>3, <2>2, <3>3, <4>1, <4>2
    <3> QED
      BY <1>1, <2>3, <3>2, <3>3, <3>4 DEF LargestKept
  <2>5. CASE ~(input[n].bytes > input[k].bytes)
    <3>1. largestEntries' = h
      BY <2>1, <2>5
    <3>2. ASSUME NEW m \in h, NEW d \in Counted' \ h
          PROVE  input[d].bytes <= input[m].bytes
      <4>1. CASE d \in Counted
        BY <2>3, <4>1
      <4>2. CASE d = n
        BY <1>1, <1>2, <1>3, <2>2, <2>5, <4>2
      <4> QED
        BY <1>2, <4>1, <4>2
    <3> QED
      BY <1>1, <1>2, <1>5, <2>3, <3>1, <3>2 DEF LargestKept
  <2> QED
    BY <2>4, <2>5
<1> QED
  BY <1>1, <1>4, <1>5

----------------------------------------------------------------------------
(* The tallies and the heap of prefixes.                                   *)

LEMMA AddTypes ==
    ASSUME NEW Keys, NEW tally \in Tallies(Keys), NEW K, NEW e, e.bytes \in Nat
    PROVE  Add(tally, K, e) \in Tallies(Keys)
<1>1. \A k \in Keys : [num |-> tally[k].num + 1, bytes |-> tally[k].bytes + e.bytes]
                        \in [num : Nat, bytes : Nat]
  BY DEF Tallies
<1>2. DOMAIN tally = Keys
  BY DEF Tallies
<1> QED
  BY <1>1, <1>2 DEF Add, Tallies

\* A push keeps the heap of prefixes within its bound.
LEMMA PushedFits ==
    ASSUME NEW h, IsFiniteSet(h), Cardinality(h) <= TopPrefixes, NEW e, NEW g \in Pushed(h, e)
    PROVE  IsFiniteSet(g) /\ Cardinality(g) <= TopPrefixes /\ g \subseteq h \cup {e}
<1>1. /\ Cardinality(h) \in Nat /\ IsFiniteSet(h \cup {e})
      /\ Cardinality(h \cup {e}) \in Nat /\ Cardinality(h \cup {e}) <= Cardinality(h) + 1
  <2>1. Cardinality(h) \in Nat
    BY FS_CardinalityType
  <2>2. /\ IsFiniteSet(h \cup {e})
        /\ Cardinality(h \cup {e}) = IF e \in h THEN Cardinality(h) ELSE Cardinality(h) + 1
    BY FS_AddElement, Zenon
  <2> QED
    BY <2>1, <2>2
<1>2. TopPrefixes \in Nat
  BY CounterAssumptions
<1>3. CASE Cardinality(h \cup {e}) <= TopPrefixes
  BY <1>1, <1>3 DEF Pushed
<1>4. CASE ~(Cardinality(h \cup {e}) <= TopPrefixes)
  <2>1. PICK x \in h \cup {e} : g = (h \cup {e}) \ {x}
    BY <1>4 DEF Pushed
  <2>2. IsFiniteSet(g) /\ Cardinality(g) = Cardinality(h \cup {e}) - 1
    BY <1>1, <2>1, FS_RemoveElement
  <2> QED
    BY <1>1, <1>2, <2>1, <2>2
<1> QED
  BY <1>3, <1>4

\* A prefix of the maps, as it is put into the heap.
LEMMA PrefixEntryType ==
    ASSUME TypeOK, NEW k \in Types \X Names
    PROVE  PrefixEntry(k) \in [type : Types, key : Names, num : Nat, bytes : Nat]
<1>1. prefixes[k] \in [num : Nat, bytes : Nat]
  BY DEF TypeOK, Tallies
<1>2. k[1] \in Types /\ k[2] \in Names
  OBVIOUS
<1> QED
  BY <1>1, <1>2 DEF PrefixEntry

----------------------------------------------------------------------------
LEMMA CInvInit == Init => CInv
<1> SUFFICES ASSUME Init PROVE CInv
  OBVIOUS
<1>1. Zero \in [num : Nat, bytes : Nat]
  BY DEF Zero
<1>2. input \in Seq(Entries) /\ Len(input) \in Nat
  BY CounterAssumptions DEF Init
<1>3. IsFiniteSet({}) /\ Cardinality({}) = 0
  BY FS_EmptySet
<1>4. /\ types \in Tallies(Types) /\ lengths \in Tallies(Types \X Levels)
      /\ prefixes \in Tallies(Types \X Names) /\ slots \in Tallies(Slots)
  BY <1>1 DEF Init, Tallies
<1>5. TypeOK
  BY <1>2, <1>3, <1>4, CounterAssumptions DEF Init, TypeOK
<1>6. LargestKept
  BY <1>3, CounterAssumptions DEF Init, LargestKept
<1> QED
  BY <1>3, <1>5, <1>6 DEF Init, CInv, Heap, PrefixHeap

\* Steps that count nothing.
LEMMA HeapUntouched ==
    ASSUME CInv, UNCHANGED <<input, TotalCount, largestEntries>>
    PROVE  LargestKept' /\ Heap'
BY DEF CInv, LargestKept, Heap, Counted

LEMMA CInvNext ==
    ASSUME CInv, [Next]_vars
    PROVE  CInv'
<1>0. TypeOK
  BY DEF CInv
<1>1. ASSUME CountEntry PROVE CInv'
  <2>1. LargestKept' /\ Heap' /\ largestEntries' \subseteq Counted'
          /\ Cardinality(largestEntries') <= TopN
    BY <1>1, OfferedKeeps DEF CountEntry, Heap
  <2>2. TotalCount' \in 0 .. Len(input) /\ TotalCount' \in 1 .. Len(input)
    <3>1. Len(input) \in Nat
      BY CounterAssumptions DEF CInv, TypeOK
    <3> QED
      BY <1>0, <1>1, <3>1 DEF CountEntry, TypeOK
  <2> DEFINE e == input[TotalCount']
  <2>3. e.bytes \in Nat
    BY <1>0, <2>2, EntryAt
  <2>4. /\ types' = Add(types, {e.type}, e)
        /\ lengths' = Add(lengths, {e.type} \X LevelOf(e), e)
        /\ prefixes' = Add(prefixes, {e.type} \X e.names, e)
        /\ slots' = Add(slots, SlotOf(e), e)
    BY <1>1 DEF CountEntry
  <2> HIDE DEF e
  <2>5. /\ types' \in Tallies(Types) /\ lengths' \in Tallies(Types \X Levels)
        /\ prefixes' \in Tallies(Types \X Names) /\ slots' \in Tallies(Slots)
    BY <1>0, <2>3, <2>4, AddTypes DEF TypeOK
  <2>6. TypeOK'
    BY <1>0, <1>1, <2>1, <2>2, <2>5 DEF CountEntry, TypeOK
  <2> QED
    BY <1>1, <2>1, <2>6 DEF CInv, CountEntry, PrefixHeap
<1>2. ASSUME NEW k \in Types \X Names, MovePrefix(k) PROVE CInv'
  <2>1. /\ IsFiniteSet(largestKeyPrefixes') /\ Cardinality(largestKeyPrefixes') <= TopPrefixes
        /\ largestKeyPrefixes' \subseteq largestKeyPrefixes \cup {PrefixEntry(k)}
    BY <1>0, <1>2, PushedFits DEF MovePrefix, CInv, TypeOK, PrefixHeap
  <2>2. largestKeyPrefixes' \subseteq [type : Types, key : Names, num : Nat, bytes : Nat]
    BY <1>0, <2>1, PrefixEntryType DEF TypeOK
  <2>3. prefixes' \in Tallies(Types \X Names)
    BY <1>0, <1>2 DEF MovePrefix, TypeOK, Tallies, Zero
  <2>4. TypeOK'
    BY <1>0, <1>2, <2>1, <2>2, <2>3 DEF MovePrefix, TypeOK, Counted
  <2> QED
    BY <1>2, <2>1, <2>4, HeapUntouched DEF CInv, MovePrefix, PrefixHeap
<1>3. ASSUME CountEnd \/ Return \/ UNCHANGED vars PROVE CInv'
  <2>1. TypeOK'
    BY <1>0, <1>3 DEF CountEnd, Return, vars, TypeOK, Counted
  <2> QED
    BY <1>3, <2>1, HeapUntouched DEF CInv, CountEnd, Return, vars, PrefixHeap
<1> QED
  BY <1>1, <1>2, <1>3 DEF Next, Returned

----------------------------------------------------------------------------
(* What the tallies are: the positions of the dump that count under a key  *)
(* are a set that does not depend on how far Count has come.               *)

TallyIn(dump, S) == [num |-> Cardinality(S), bytes |-> BytesOf(dump, S)]

LEMMA TallyIsIn == \A S : TallyOf(S) = TallyIn(input, S)
BY Zenon DEF TallyOf, TallyIn, BytesOf

LEMMA NothingTallied == \A dump : TallyIn(dump, {}) = Zero
BY FS_EmptySet, BytesAddUp DEF TallyIn, Zero

\* What the next entry of the dump does to the tally of the positions A.
LEMMA OneMoreTallied ==
    ASSUME NEW n \in Nat, NEW dump, \A i \in 1 .. n + 1 : dump[i].bytes \in Nat, NEW A
    PROVE  TallyIn(dump, A \cap (1 .. n + 1)) =
             LET old == TallyIn(dump, A \cap (1 .. n)) IN
             IF n + 1 \in A THEN [num |-> old.num + 1, bytes |-> old.bytes + dump[n + 1].bytes]
             ELSE old
<1> DEFINE S == A \cap (1 .. n)
           R == A \cap (1 .. n + 1)
<1>1. CASE n + 1 \notin A
  <2>1. R = S
    BY <1>1
  <2> QED
    BY <1>1, <2>1
<1>2. CASE n + 1 \in A
  <2>1. R = S \cup {n + 1} /\ n + 1 \notin S /\ S = R \ {n + 1} /\ n + 1 \in R
    BY <1>2
  <2>2. IsFiniteSet(R) /\ IsFiniteSet(S)
    <3>1. IsFiniteSet(1 .. n + 1)
      <4>1. 1 \in Int /\ n + 1 \in Int
        OBVIOUS
      <4> QED
        BY <4>1, FS_Interval
    <3>2. R \in SUBSET (1 .. n + 1) /\ S \in SUBSET (1 .. n + 1)
      OBVIOUS
    <3> QED
      BY <3>1, <3>2, FS_Subset
  <2>3. \A i \in R : dump[i].bytes \in Nat
    OBVIOUS
  <2> HIDE DEF R, S
  <2>4. Cardinality(R) = Cardinality(S) + 1
    BY <2>1, <2>2, FS_AddElement
  <2>5. BytesOf(dump, R) = BytesOf(dump, S) + dump[n + 1].bytes
    BY <2>1, <2>2, <2>3, BytesAddUp
  <2>6. TallyIn(dump, R) = [num |-> TallyIn(dump, S).num + 1,
                            bytes |-> TallyIn(dump, S).bytes + dump[n + 1].bytes]
    BY <2>4, <2>5 DEF TallyIn
  <2> QED
    BY <1>2, <2>6 DEF R, S
<1> QED
  BY <1>1, <1>2

OfType(t) == {i \in 1 .. Len(input) : input[i].type = t}

OfSlot(s) == {i \in 1 .. Len(input) : input[i].slot = s}

OfLevel(k) == {i \in 1 .. Len(input) : input[i].type = k[1] /\ k[2] \in LevelOf(input[i])}

OfPrefix(k) == {i \in 1 .. Len(input) : input[i].type = k[1] /\ k[2] \in input[i].names}

\* The level of the reference is the one that Count finds.
LEMMA LevelIsReference ==
    ASSUME NEW e, e.elems \in Nat, NEW l \in Levels
    PROVE  l \in LevelOf(e)
             <=> l = IF e.elems <= 100 THEN 0 ELSE Max({m \in Levels : m < e.elems})
<1> DEFINE M == {m \in Levels : m < e.elems}
<1>1. CASE e.elems <= 100
  BY <1>1 DEF Levels, LevelOf
<1>2. CASE e.elems > 100
  <2>1. \E x \in M : \A y \in M : x >= y
    BY <1>2 DEF Levels
  <2>2. Max(M) \in M /\ \A y \in M : Max(M) >= y
    BY <2>1, Zenon DEF Max
  <2>3. \A x \in M : (\A y \in M : x >= y) => x = Max(M)
    BY <2>2 DEF Levels
  <2>4. l \in LevelOf(e) <=> l \in M /\ \A y \in M : l >= y
    BY <1>2 DEF LevelOf, Levels
  <2>5. l \in LevelOf(e) <=> l = Max(M)
    BY <2>2, <2>3, <2>4
  <2> QED
    BY <1>2, <2>5
<1> QED
  BY <1>1, <1>2

Tallied ==
    /\ \A t \in Types : types[t] = TallyIn(input, OfType(t) \cap Counted)
    /\ \A s \in Slots : slots[s] = TallyIn(input, OfSlot(s) \cap Counted)
    /\ \A k \in Types \X Levels : lengths[k] = TallyIn(input, OfLevel(k) \cap Counted)

LEMMA TalliedInit == Init => Tallied
<1> SUFFICES ASSUME Init PROVE Tallied
  OBVIOUS
<1>1. \A S : S \cap Counted = {}
  BY DEF Init, Counted
<1> QED
  BY <1>1, NothingTallied DEF Init, Tallied

\* What CountEntry adds to, in terms of the positions of the dump.
LEMMA NextEntry ==
    ASSUME TypeOK, CountEntry
    PROVE  /\ TotalCount \in Nat /\ TotalCount' = TotalCount + 1 /\ input' = input
           /\ TotalCount + 1 \in 1 .. Len(input)
           /\ \A i \in 1 .. TotalCount + 1 : input[i].bytes \in Nat
           /\ input[TotalCount + 1] \in Entries
<1>1. Len(input) \in Nat
  BY CounterAssumptions DEF TypeOK
<1>2. /\ TotalCount \in Nat /\ TotalCount' = TotalCount + 1 /\ input' = input
      /\ TotalCount + 1 \in 1 .. Len(input)
  BY <1>1 DEF CountEntry, TypeOK
<1>3. \A i \in 1 .. TotalCount + 1 : i \in 1 .. Len(input)
  BY <1>1, <1>2
<1> QED
  BY <1>2, <1>3, EntryAt

LEMMA TalliedNext ==
    ASSUME TypeOK, Tallied, [Next]_vars
    PROVE  Tallied'
<1>1. CASE CountEntry
  <2> DEFINE n == TotalCount
             e == input[n + 1]
  <2>1. /\ n \in Nat /\ TotalCount' = n + 1 /\ input' = input
        /\ n + 1 \in 1 .. Len(input) /\ e \in Entries
        /\ \A i \in 1 .. n + 1 : input[i].bytes \in Nat
    BY <1>1, NextEntry
  <2>2. /\ types' = Add(types, {e.type}, e)
        /\ lengths' = Add(lengths, {e.type} \X LevelOf(e), e)
        /\ slots' = Add(slots, SlotOf(e), e)
    BY <1>1, <2>1 DEF CountEntry
  <2>3. /\ DOMAIN types = Types /\ DOMAIN slots = Slots /\ DOMAIN lengths = Types \X Levels
        /\ \A t \in Types : types[t] = TallyIn(input, OfType(t) \cap (1 .. n))
        /\ \A s \in Slots : slots[s] = TallyIn(input, OfSlot(s) \cap (1 .. n))
        /\ \A k \in Types \X Levels : lengths[k] = TallyIn(input, OfLevel(k) \cap (1 .. n))
    BY DEF TypeOK, Tallies, Tallied, Counted
  <2>4. /\ \A t \in Types : n + 1 \in OfType(t) <=> t \in {e.type}
        /\ \A s \in Slots : n + 1 \in OfSlot(s) <=> s \in SlotOf(e)
        /\ \A k \in Types \X Levels : n + 1 \in OfLevel(k) <=> k \in {e.type} \X LevelOf(e)
    BY <2>1, CounterAssumptions DEF OfType, OfSlot, SlotOf, OfLevel
  <2> HIDE DEF e
  <2>5. \A A : TallyIn(input, A \cap (1 .. n + 1)) =
               LET old == TallyIn(input, A \cap (1 .. n)) IN
               IF n + 1 \in A THEN [num |-> old.num + 1, bytes |-> old.bytes + e.bytes] ELSE old
    BY <2>1, OneMoreTallied DEF e
  <2>6. \A t \in Types : types'[t] = TallyIn(input, OfType(t) \cap (1 .. n + 1))
    BY <2>2, <2>3, <2>4, <2>5 DEF Add
  <2>7. \A s \in Slots : slots'[s] = TallyIn(input, OfSlot(s) \cap (1 .. n + 1))
    BY <2>2, <2>3, <2>4, <2>5 DEF Add
  <2>8. \A k \in Types \X Levels :
          lengths'[k] = TallyIn(input, OfLevel(k) \cap (1 .. n + 1))
    BY <2>2, <2>3, <2>4, <2>5 DEF Add
  <2> QED
    BY <2>1, <2>6, <2>7, <2>8 DEF Tallied, Counted, OfType, OfSlot, OfLevel
<1>2. CASE UNCHANGED <<input, TotalCount, types, lengths, slots>>
  BY <1>2 DEF Tallied, Counted, OfType, OfSlot, OfLevel
<1> QED
  BY <1>1, <1>2 DEF Next, CountEnd, MovePrefix, Return, Returned, vars

----------------------------------------------------------------------------
(* The heap of prefixes against the prefixes that have been moved to it.   *)

PrefixEntries == [type : Types, key : Names, num : Nat, bytes : Nat]

\* A heap that holds as many of the largest elements of all as it can.
KeepsLargest(h, all) ==
    /\ IsFiniteSet(all)
    /\ h \subseteq all
    /\ Cardinality(h) = IF Cardinality(all) < TopPrefixes THEN Cardinality(all) ELSE TopPrefixes
    /\ \A e \in h, d \in all \ h : ~Less(e, d)

\* Less is the order of what is not equally large.
LEMMA LessIsWeak ==
    ASSUME NEW a \in PrefixEntries, NEW b \in PrefixEntries, NEW c \in PrefixEntries,
           ~Less(a, b), ~Less(b, c)
    PROVE  ~Less(a, c)
<1>1. /\ a.bytes \in Nat /\ a.num \in Nat /\ a.key \in Nat
      /\ b.bytes \in Nat /\ b.num \in Nat /\ b.key \in Nat
      /\ c.bytes \in Nat /\ c.num \in Nat /\ c.key \in Nat
  BY CounterAssumptions DEF PrefixEntries
<1> QED
  BY <1>1 DEF Less

LEMMA LessIsOrder ==
    ASSUME NEW a \in PrefixEntries, NEW b \in PrefixEntries
    PROVE  ~Less(a, b) \/ ~Less(b, a)
<1>1. /\ a.bytes \in Nat /\ a.num \in Nat /\ a.key \in Nat
      /\ b.bytes \in Nat /\ b.num \in Nat /\ b.key \in Nat
  BY CounterAssumptions DEF PrefixEntries
<1> QED
  BY <1>1 DEF Less

LEMMA PushedKeepsLargest ==
    ASSUME NEW all \in SUBSET PrefixEntries, NEW h, KeepsLargest(h, all),
           NEW e \in PrefixEntries, e \notin all, NEW g \in Pushed(h, e)
    PROVE  KeepsLargest(g, all \cup {e})
<1> DEFINE A == all \cup {e}
           H == h \cup {e}
<1>1. /\ IsFiniteSet(all) /\ IsFiniteSet(h) /\ h \subseteq all
      /\ Cardinality(all) \in Nat /\ Cardinality(h) \in Nat /\ TopPrefixes \in Nat
      /\ Cardinality(h) <= TopPrefixes
      /\ Cardinality(h) = IF Cardinality(all) < TopPrefixes THEN Cardinality(all) ELSE TopPrefixes
  BY FS_Subset, FS_CardinalityType, CounterAssumptions DEF KeepsLargest
<1>2. /\ IsFiniteSet(A) /\ Cardinality(A) = Cardinality(all) + 1
      /\ IsFiniteSet(H) /\ Cardinality(H) = Cardinality(h) + 1
  BY <1>1, FS_AddElement
<1>3. CASE Cardinality(H) <= TopPrefixes
  <2>1. g = H
    BY <1>3 DEF Pushed
  <2>2. Cardinality(all) < TopPrefixes /\ Cardinality(all) = Cardinality(h)
    BY <1>1, <1>2, <1>3
  <2>3. h = all
    BY <1>1, <2>2, FS_Subset
  <2>4. g = A /\ Cardinality(A) <= TopPrefixes
    BY <1>1, <1>2, <2>1, <2>2, <2>3
  <2> QED
    BY <1>1, <1>2, <2>4 DEF KeepsLargest
<1>4. CASE ~(Cardinality(H) <= TopPrefixes)
  <2>1. PICK x \in H : g = H \ {x} /\ \A z \in H : ~Less(z, x)
    BY <1>4 DEF Pushed
  <2>2. Cardinality(h) = TopPrefixes /\ ~(Cardinality(A) < TopPrefixes)
    BY <1>1, <1>2, <1>4
  <2>3. Cardinality(g) = TopPrefixes
    <3>1. Cardinality(H \ {x}) = Cardinality(H) - 1
      BY <1>2, FS_RemoveElement
    <3> QED
      BY <1>1, <1>2, <2>1, <2>2, <3>1
  <2>4. g \subseteq A
    BY <1>1, <2>1
  <2>5. ASSUME NEW m \in g, NEW d \in A \ g PROVE ~Less(m, d)
    <3>1. m \in H /\ ~Less(m, x)
      BY <2>1
    <3>2. CASE d = x
      BY <3>1, <3>2
    <3>3. CASE d # x
      <4>1. d \in all \ h
        BY <2>1, <3>3
      <4>2. CASE m \in h
        BY <4>1, <4>2 DEF KeepsLargest
      <4>3. CASE m = e
        <5>1. x \in h
          BY <2>1, <4>3
        <5>2. ~Less(x, d)
          BY <4>1, <5>1 DEF KeepsLargest
        <5>3. m \in PrefixEntries /\ x \in PrefixEntries /\ d \in PrefixEntries
          BY <1>1, <4>1, <4>3, <5>1
        <5> QED
          BY <3>1, <5>2, <5>3, LessIsWeak
      <4> QED
        BY <3>1, <4>2, <4>3
    <3> QED
      BY <3>2, <3>3
  <2> QED
    BY <1>2, <2>2, <2>3, <2>4, <2>5 DEF KeepsLargest
<1> QED
  BY <1>3, <1>4

Reference(k) == TallyIn(input, OfPrefix(k) \cap Counted)

EntryOf(k) == [type |-> k[1], key |-> k[2], num |-> Reference(k).num, bytes |-> Reference(k).bytes]

Moved == {k \in Types \X Names : Reference(k).num > 0 /\ prefixes[k] = Zero}

MovedEntries == {EntryOf(k) : k \in Moved}

PrefixesTallied ==
    /\ \A k \in Types \X Names :
         prefixes[k] = Reference(k) \/ (pc # "counting" /\ prefixes[k] = Zero)
    /\ pc = "counting" => largestKeyPrefixes = {}
    /\ pc = "returned" => Present = {}
    /\ KeepsLargest(largestKeyPrefixes, MovedEntries)

\* A tally is a number of entries and a number of bytes.
LEMMA ReferenceType ==
    ASSUME TypeOK
    PROVE  \A k \in Types \X Names : Reference(k) \in [num : Nat, bytes : Nat]
<1> SUFFICES ASSUME NEW k \in Types \X Names PROVE Reference(k) \in [num : Nat, bytes : Nat]
  OBVIOUS
<1> DEFINE S == OfPrefix(k) \cap Counted
<1>1. Len(input) \in Nat /\ TotalCount \in 0 .. Len(input)
  BY CounterAssumptions DEF TypeOK
<1>2. S \in SUBSET (1 .. Len(input)) /\ IsFiniteSet(1 .. Len(input))
  <2>1. 1 \in Int /\ Len(input) \in Int
    BY <1>1
  <2> QED
    BY <2>1, FS_Interval DEF OfPrefix
<1>3. IsFiniteSet(S) /\ Cardinality(S) \in Nat
  BY <1>2, FS_Subset, FS_CardinalityType
<1>4. \A i \in S : input[i].bytes \in Nat
  BY <1>2, EntryAt
<1> HIDE DEF S
<1>5. BytesOf(input, S) \in Nat
  BY <1>3, <1>4, BytesAddUp
<1> QED
  BY <1>3, <1>5 DEF TallyIn, Reference, S

\* Different prefixes have different entries.
LEMMA EntryOfIsInjective ==
    \A k, m \in Types \X Names : EntryOf(k) = EntryOf(m) => k = m
<1> SUFFICES ASSUME NEW k \in Types \X Names, NEW m \in Types \X Names, EntryOf(k) = EntryOf(m)
             PROVE  k = m
  OBVIOUS
<1>1. k[1] = m[1] /\ k[2] = m[2]
  BY DEF EntryOf
<1> QED
  BY <1>1

\* While Count is counting, nothing has been moved.
LEMMA NothingMoved ==
    ASSUME PrefixesTallied, pc = "counting"
    PROVE  Moved = {} /\ MovedEntries = {}
<1>1. \A k \in Types \X Names : prefixes[k] = Zero => ~(Reference(k).num > 0)
  BY DEF PrefixesTallied, Zero
<1> QED
  BY <1>1 DEF Moved, MovedEntries

LEMMA NothingKept == KeepsLargest({}, {})
BY FS_EmptySet, CounterAssumptions DEF KeepsLargest

LEMMA PrefixesTalliedInit == Init => PrefixesTallied
<1> SUFFICES ASSUME Init PROVE PrefixesTallied
  OBVIOUS
<1>1. \A S : S \cap Counted = {}
  BY DEF Init, Counted
<1>2. \A k \in Types \X Names : prefixes[k] = Reference(k)
  BY <1>1, NothingTallied DEF Init, Reference
<1>3. MovedEntries = {}
  BY <1>2 DEF Init, Moved, MovedEntries, Zero
<1> QED
  BY <1>2, <1>3, NothingKept DEF Init, PrefixesTallied

LEMMA PrefixesTalliedNext ==
    ASSUME CInv, PrefixesTallied, [Next]_vars
    PROVE  PrefixesTallied'
<1>0. TypeOK /\ DOMAIN prefixes = Types \X Names
  BY DEF CInv, TypeOK, Tallies
<1>1. ASSUME CountEntry PROVE PrefixesTallied'
  <2> DEFINE n == TotalCount
             e == input[n + 1]
  <2>1. /\ n \in Nat /\ TotalCount' = n + 1 /\ input' = input
        /\ n + 1 \in 1 .. Len(input) /\ e \in Entries
        /\ \A i \in 1 .. n + 1 : input[i].bytes \in Nat
    BY <1>0, <1>1, NextEntry
  <2>2. /\ prefixes' = Add(prefixes, {e.type} \X e.names, e)
        /\ pc = "counting" /\ pc' = pc /\ largestKeyPrefixes' = largestKeyPrefixes
    BY <1>1, <2>1 DEF CountEntry
  <2>3. \A k \in Types \X Names : prefixes[k] = TallyIn(input, OfPrefix(k) \cap (1 .. n))
    BY <2>2 DEF PrefixesTallied, Reference, Counted
  <2>4. \A k \in Types \X Names : n + 1 \in OfPrefix(k) <=> k \in {e.type} \X e.names
    BY <2>1 DEF OfPrefix
  <2> HIDE DEF e
  <2>5. \A A : TallyIn(input, A \cap (1 .. n + 1)) =
               LET old == TallyIn(input, A \cap (1 .. n)) IN
               IF n + 1 \in A THEN [num |-> old.num + 1, bytes |-> old.bytes + e.bytes] ELSE old
    BY <2>1, OneMoreTallied DEF e
  <2>6. \A k \in Types \X Names : prefixes'[k] = TallyIn(input, OfPrefix(k) \cap (1 .. n + 1))
    BY <1>0, <2>2, <2>3, <2>4, <2>5 DEF Add
  <2>7. \A k \in Types \X Names : prefixes'[k] = Reference(k)'
    BY <2>1, <2>6 DEF Reference, OfPrefix, Counted
  <2>8. MovedEntries' = {}
    <3>1. \A k \in Types \X Names : prefixes'[k] = Zero => ~(Reference(k)'.num > 0)
      BY <2>7 DEF Zero
    <3> QED
      BY <3>1 DEF Moved, MovedEntries
  <2>9. largestKeyPrefixes = {}
    BY <2>2 DEF PrefixesTallied
  <2> QED
    BY <2>2, <2>7, <2>8, <2>9, NothingKept DEF PrefixesTallied
<1>2. ASSUME UNCHANGED <<input, TotalCount, prefixes, largestKeyPrefixes>>
      PROVE  /\ MovedEntries' = MovedEntries
             /\ \A k \in Types \X Names : Reference(k)' = Reference(k)
             /\ KeepsLargest(largestKeyPrefixes, MovedEntries)'
  <2>1. \A k \in Types \X Names : Reference(k)' = Reference(k)
    BY <1>2 DEF Reference, OfPrefix, Counted
  <2>2. MovedEntries' = MovedEntries
    <3>1. Moved' = Moved
      BY <1>2, <2>1 DEF Moved
    <3>2. \A k \in Moved : EntryOf(k)' = EntryOf(k)
      BY <2>1 DEF EntryOf, Moved
    <3> QED
      BY <3>1, <3>2 DEF MovedEntries
  <2> QED
    BY <1>2, <2>1, <2>2 DEF PrefixesTallied, KeepsLargest
<1>3. ASSUME CountEnd PROVE PrefixesTallied'
  BY <1>2, <1>3 DEF CountEnd, PrefixesTallied
<1>4. ASSUME Return PROVE PrefixesTallied'
  <2>1. Present' = {}
    BY <1>4 DEF Return, Present
  <2> QED
    BY <1>2, <1>4, <2>1 DEF Return, PrefixesTallied
<1>5. ASSUME UNCHANGED vars PROVE PrefixesTallied'
  <2>1. Present' = Present
    BY <1>5 DEF vars, Present
  <2> QED
    BY <1>2, <1>5, <2>1 DEF vars, PrefixesTallied
<1>6. ASSUME NEW k \in Types \X Names, MovePrefix(k) PROVE PrefixesTallied'
  <2>1. /\ pc = "prefixes" /\ pc' = pc /\ prefixes[k].num > 0
        /\ largestKeyPrefixes' \in Pushed(largestKeyPrefixes, PrefixEntry(k))
        /\ prefixes' = [prefixes EXCEPT ![k] = Zero]
        /\ UNCHANGED <<input, TotalCount>>
    BY <1>6 DEF MovePrefix, Present
  <2>2. prefixes[k] # Zero /\ prefixes[k] = Reference(k)
    BY <2>1 DEF PrefixesTallied, Zero
  <2>3. PrefixEntry(k) = EntryOf(k) /\ Reference(k).num > 0
    BY <2>1, <2>2 DEF PrefixEntry, EntryOf
  <2>4. \A m \in Types \X Names : Reference(m)' = Reference(m)
    BY <2>1 DEF Reference, OfPrefix, Counted
  <2>5. \A m \in Types \X Names : prefixes'[m] = IF m = k THEN Zero ELSE prefixes[m]
    BY <1>0, <2>1
  <2>6. Moved' = Moved \cup {k} /\ k \notin Moved
    BY <2>2, <2>3, <2>4, <2>5 DEF Moved
  <2>7. MovedEntries' = MovedEntries \cup {EntryOf(k)}
    <3>1. \A m \in Types \X Names : EntryOf(m)' = EntryOf(m)
      BY <2>4 DEF EntryOf
    <3>2. Moved' \subseteq Types \X Names
      BY DEF Moved
    <3> QED
      BY <2>6, <3>1, <3>2 DEF MovedEntries
  <2>8. EntryOf(k) \notin MovedEntries
    BY <2>6, EntryOfIsInjective DEF MovedEntries, Moved
  <2>9. EntryOf(k) \in PrefixEntries /\ MovedEntries \in SUBSET PrefixEntries
    <3>1. \A m \in Types \X Names : EntryOf(m) \in PrefixEntries
      <4> SUFFICES ASSUME NEW m \in Types \X Names PROVE EntryOf(m) \in PrefixEntries
        OBVIOUS
      <4>1. Reference(m) \in [num : Nat, bytes : Nat] /\ m[1] \in Types /\ m[2] \in Names
        BY <1>0, ReferenceType
      <4> QED
        BY <4>1 DEF EntryOf, PrefixEntries
    <3> QED
      BY <3>1 DEF MovedEntries, Moved
  <2>10. KeepsLargest(largestKeyPrefixes', MovedEntries')
    <3>1. KeepsLargest(largestKeyPrefixes, MovedEntries)
      BY DEF PrefixesTallied
    <3> QED
      BY <2>1, <2>3, <2>7, <2>8, <2>9, <3>1, PushedKeepsLargest
  <2>11. \A m \in Types \X Names : prefixes'[m] = Reference(m)' \/ prefixes'[m] = Zero
    BY <2>4, <2>5 DEF PrefixesTallied
  <2> QED
    BY <2>1, <2>10, <2>11 DEF PrefixesTallied, KeepsLargest
<1> QED
  BY <1>1, <1>3, <1>4, <1>5, <1>6 DEF Next, Returned

----------------------------------------------------------------------------
(* Theorems.                                                               *)

Inv == CInv /\ Tallied /\ PrefixesTallied

LEMMA Invariant == Spec => []Inv
<1>1. Init => Inv
  BY CInvInit, TalliedInit, PrefixesTalliedInit DEF Inv
<1>2. Inv /\ [Next]_vars => Inv'
  <2>1. Inv => CInv /\ TypeOK /\ Tallied /\ PrefixesTallied
    BY DEF Inv, CInv
  <2> QED
    BY <2>1, CInvNext, TalliedNext, PrefixesTalliedNext DEF Inv
<1> QED
  BY <1>1, <1>2, PTL DEF Spec

(* The types and the bounds of both heaps, for every dump.                 *)
THEOREM CounterTypeCorrect == Spec => []TypeOK
<1>1. Inv => TypeOK
  BY DEF Inv, CInv
<1> QED
  BY <1>1, Invariant, PTL

(* Count keeps the largest entries, for every dump and every bound of the  *)
(* heap, whichever of several equal minima is dropped.                     *)
THEOREM LargestAreKept == Spec => []LargestKept
<1>1. Inv => LargestKept
  BY DEF Inv, CInv
<1> QED
  BY <1>1, Invariant, PTL

(* Every entry of every dump is tallied once under its type and once under *)
(* the slot of its key, and an empty key under no slot.                    *)
LEMMA TypesAndSlotsAreTallied == Spec => []TypeAndSlotTallies
<1>1. Inv => TypeAndSlotTallies
  <2> SUFFICES ASSUME Inv PROVE TypeAndSlotTallies
    OBVIOUS
  <2>1. Tallied /\ Counted \subseteq 1 .. Len(input)
    BY CounterAssumptions DEF Inv, CInv, TypeOK, Counted
  <2>2. \A t \in Types : {i \in Counted : input[i].type = t} = OfType(t) \cap Counted
    BY <2>1 DEF OfType
  <2>3. \A s \in Slots : {i \in Counted : input[i].slot = s} = OfSlot(s) \cap Counted
    BY <2>1 DEF OfSlot
  <2> QED
    BY <2>1, <2>2, <2>3, TallyIsIn DEF Tallied, TypeAndSlotTallies
<1> QED
  BY <1>1, Invariant, PTL

(* The length levels of every dump are disjoint ranges, an entry on a      *)
(* boundary in the lower one.                                              *)
LEMMA LevelsAreTallied == Spec => []LevelTallies
<1>1. Inv => LevelTallies
  <2> SUFFICES ASSUME Inv, NEW t \in Types, NEW l \in Levels
               PROVE  lengths[<<t, l>>] = TallyOf({i \in Counted :
                          /\ input[i].type = t
                          /\ l = IF input[i].elems <= 100 THEN 0
                                 ELSE Max({m \in Levels : m < input[i].elems})})
    BY DEF LevelTallies
  <2>1. Tallied /\ TypeOK /\ Counted \subseteq 1 .. Len(input)
    BY CounterAssumptions DEF Inv, CInv, TypeOK, Counted
  <2>2. \A i \in Counted : input[i].elems \in Nat
    BY <2>1, EntryAt DEF Entries
  <2>3. \A i \in Counted : l \in LevelOf(input[i])
                             <=> l = IF input[i].elems <= 100 THEN 0
                                     ELSE Max({m \in Levels : m < input[i].elems})
    BY <2>2, LevelIsReference
  <2>4. {i \in Counted :
           /\ input[i].type = t
           /\ l = IF input[i].elems <= 100 THEN 0
                  ELSE Max({m \in Levels : m < input[i].elems})} = OfLevel(<<t, l>>) \cap Counted
    BY <2>1, <2>3 DEF OfLevel
  <2>5. lengths[<<t, l>>] = TallyIn(input, OfLevel(<<t, l>>) \cap Counted)
    BY <2>1 DEF Tallied
  <2> QED
    BY <2>4, <2>5, TallyIsIn
<1> QED
  BY <1>1, Invariant, PTL

(* Every entry of every dump is tallied once under its type, once under    *)
(* the slot of a key that is not empty, and once under the level of its    *)
(* length.                                                                 *)
THEOREM EntriesAreTallied == Spec => []EntryTallies
<1>1. TypeAndSlotTallies /\ LevelTallies <=> EntryTallies
  BY DEF EntryTallies
<1> QED
  BY <1>1, TypesAndSlotsAreTallied, LevelsAreTallied, PTL

\* The reference of the run, in terms of the positions of the dump.
LEMMA ReferenceIsTally ==
    ASSUME TypeOK
    PROVE  \A k \in Types \X Names : PrefixTally(k) = Reference(k) /\ ReferenceEntry(k) = EntryOf(k)
<1> SUFFICES ASSUME NEW k \in Types \X Names
             PROVE  PrefixTally(k) = Reference(k) /\ ReferenceEntry(k) = EntryOf(k)
  OBVIOUS
<1>1. Counted \subseteq 1 .. Len(input)
  BY CounterAssumptions DEF TypeOK, Counted
<1>2. {i \in Counted : input[i].type = k[1] /\ k[2] \in input[i].names} = OfPrefix(k) \cap Counted
  BY <1>1 DEF OfPrefix
<1>3. PrefixTally(k) = Reference(k)
  BY <1>2, TallyIsIn DEF PrefixTally, Reference
<1> QED
  BY <1>3 DEF ReferenceEntry, EntryOf

(* An entry is tallied once under each of its prefixes, and emptying the   *)
(* maps into the heap alters no tally, in whatever order they are ranged   *)
(* over.                                                                   *)
THEOREM PrefixesAreTallied == Spec => []PrefixTallies
<1>1. Inv => PrefixTallies
  <2> SUFFICES ASSUME Inv PROVE PrefixTallies
    OBVIOUS
  <2>1. TypeOK /\ PrefixesTallied
    BY DEF Inv, CInv
  <2>2. \A k \in Types \X Names : pc = "counting" => prefixes[k] = PrefixTally(k)
    BY <2>1, ReferenceIsTally DEF PrefixesTallied
  <2>3. ASSUME NEW e \in largestKeyPrefixes PROVE e = ReferenceEntry(<<e.type, e.key>>)
    <3>1. PICK k \in Moved : e = EntryOf(k)
      BY <2>1 DEF PrefixesTallied, KeepsLargest, MovedEntries
    <3>2. k \in Types \X Names /\ e.type = k[1] /\ e.key = k[2]
      BY <3>1 DEF Moved, EntryOf
    <3>3. <<e.type, e.key>> = k
      BY <3>2
    <3> QED
      BY <2>1, <3>1, <3>2, <3>3, ReferenceIsTally
  <2> QED
    BY <2>1, <2>2, <2>3 DEF PrefixTallies, PrefixesTallied
<1> QED
  BY <1>1, Invariant, PTL

\* The smaller of two numbers.
LEMMA MinOfTwo ==
    ASSUME NEW m \in Nat, NEW n \in Nat
    PROVE  Min({m, n}) = IF n < m THEN n ELSE m
<1> DEFINE S == {m, n}
           least == IF n < m THEN n ELSE m
<1>1. least \in S /\ \A y \in S : least <= y
  OBVIOUS
<1>2. \A x \in S : (\A y \in S : x <= y) => x = least
  OBVIOUS
<1> HIDE DEF S, least
<1>3. Min(S) = least
  BY <1>1, <1>2, Zenon DEF Min
<1> QED
  BY <1>3 DEF S, least

(* When Count returns, the heap holds the largest prefixes of the dump: as *)
(* many as fit, whatever order the maps were ranged over in.               *)
THEOREM LargestPrefixesAreKept == Spec => []LargestPrefixesKept
<1>1. Inv => LargestPrefixesKept
  <2> SUFFICES ASSUME Inv, pc = "returned" PROVE LargestPrefixesKept
    BY DEF LargestPrefixesKept
  <2> DEFINE all == {e \in {ReferenceEntry(k) : k \in Types \X Names} : e.num > 0}
  <2>1. TypeOK /\ PrefixesTallied
    BY DEF Inv, CInv
  <2>2. \A k \in Types \X Names : Reference(k).num > 0 => prefixes[k] = Zero
    BY <2>1 DEF PrefixesTallied, Present
  <2>3. all = MovedEntries
    <3>1. all = {e \in {EntryOf(k) : k \in Types \X Names} : e.num > 0}
      BY <2>1, ReferenceIsTally
    <3>2. \A k : EntryOf(k).num = Reference(k).num
      BY DEF EntryOf
    <3> QED
      BY <2>2, <3>1, <3>2 DEF MovedEntries, Moved
  <2>4. KeepsLargest(largestKeyPrefixes, all)
    BY <2>1, <2>3 DEF PrefixesTallied
  <2> HIDE DEF all
  <2>5. TopPrefixes \in Nat /\ Cardinality(all) \in Nat
    BY <2>4, FS_CardinalityType, CounterAssumptions DEF KeepsLargest
  <2>6. Cardinality(largestKeyPrefixes) = Min({TopPrefixes, Cardinality(all)})
    BY <2>4, <2>5, MinOfTwo DEF KeepsLargest
  <2>7. \A e \in largestKeyPrefixes, d \in all \ largestKeyPrefixes : ~Less(e, d)
    BY <2>4 DEF KeepsLargest
  <2> QED
    BY <2>6, <2>7 DEF LargestPrefixesKept, all
<1> QED
  BY <1>1, Invariant, PTL
=============================================================================
