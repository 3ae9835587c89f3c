------------------------------ MODULE Counter ------------------------------
(***************************************************************************)
(* Counter.Count (server/counter.go): one pass over the entries of a dump  *)
(* that keeps the largest entries in a bounded heap, tallies the dump by   *)
(* type, by length level, by key prefix and by cluster slot, and then      *)
(* moves the prefix tallies into a second bounded heap.                    *)
(*                                                                         *)
(* An entry carries what these steps look at: its type, its size, its      *)
(* number of elements, the names getPrefixes derives from its key and the  *)
(* slot of its key.  An empty key has neither.  Prefix names are numbered  *)
(* in string order.  A heap is the set of what it holds; which of several  *)
(* equal minima is on top, and the order in which Go ranges over a map,    *)
(* are arbitrary.                                                          *)
(***************************************************************************)
EXTENDS Naturals, Sequences, FiniteSets, FiniteSetsExt

CONSTANTS Inputs,       \* the dumps considered: sequences of entries
          Types,
          Names,        \* prefix names
          Slots,
          NoSlot,       \* an empty key is in no slot
          TopN,         \* 500 in count
          TopPrefixes   \* 1000 in Count

\* lengthLevel0 .. lengthLevel4
Levels == {100, 1000, 10000, 100000, 1000000}

Entries == [type : Types, bytes : Nat, elems : Nat, names : SUBSET Names,
            slot : Slots \cup {NoSlot}]

ASSUME CounterAssumptions ==
    /\ Inputs \subseteq Seq(Entries)
    /\ Names \subseteq Nat
    /\ NoSlot \notin Slots
    /\ TopN \in Nat \ {0}
    /\ TopPrefixes \in Nat \ {0}

VARIABLES
    input,              \* the dump
    TotalCount,         \* entries counted so far
    largestEntries,     \* heap of entries, as positions in input
    types,              \* typeNum, typeBytes
    lengths,            \* lengthLevelNum, lengthLevelBytes
    prefixes,           \* keyPrefixNum, keyPrefixBytes
    slots,              \* slotNum, slotBytes
    largestKeyPrefixes, \* heap of PrefixEntry
    pc                  \* "counting", "prefixes" (calcuLargestKeyPrefix) or "returned"

vars == <<input, TotalCount, largestEntries, types, lengths, prefixes, slots,
          largestKeyPrefixes, pc>>

\* The two maps of a dimension in one: how many entries and how many bytes.
Zero == [num |-> 0, bytes |-> 0]

Tallies(Keys) == [Keys -> [num : Nat, bytes : Nat]]

AddOverwriting(tally, K, e) ==
    [k \in DOMAIN tally |-> IF k \in K THEN [num |-> tally[k].num + 1, bytes |-> e.bytes]
                                       ELSE tally[k]]

\* e is added under each of the keys in K.
Add(tally, K, e) ==
    [k \in DOMAIN tally |-> IF k \in K
                            THEN [num |-> tally[k].num + 1, bytes |-> tally[k].bytes + e.bytes]
                            ELSE tally[k]]

Counted == 1 .. TotalCount

Init ==
    /\ input \in Inputs
    /\ TotalCount = 0
    /\ largestEntries = {}
    /\ types = [t \in Types |-> Zero]
    /\ lengths = [k \in Types \X Levels |-> Zero]
    /\ prefixes = [k \in Types \X Names |-> Zero]
    /\ slots = [s \in Slots |-> Zero]
    /\ largestKeyPrefixes = {}
    /\ pc = "counting"

----------------------------------------------------------------------------
(* Count: the five dimensions of one entry.                                *)

\* The positions that can be on top of the heap.
Smallest(h) == {k \in h : \A m \in h : input[k].bytes <= input[m].bytes}

\* What a heap of largest entries can hold after entry n is offered to it.
OfferedUnbounded(h, n) == {h \cup {n}}

OfferedAnyway(h, n) ==
    IF Cardinality(h) < TopN THEN {h \cup {n}} ELSE {(h \ {k}) \cup {n} : k \in Smallest(h)}

Offered(h, n) ==
    IF Cardinality(h) < TopN THEN {h \cup {n}}
    ELSE {IF input[n].bytes > input[k].bytes THEN (h \ {k}) \cup {n} ELSE h : k \in Smallest(h)}

\* The level an entry is counted under: the first that it exceeds, from above.
LevelOfAtLeast(e) == {l \in Levels : e.elems >= l /\ \A m \in Levels : m > l => e.elems < m}

LevelOf(e) == {l \in Levels : e.elems > l /\ \A m \in Levels : m > l => e.elems <= m}

SlotOf(e) == {e.slot} \ {NoSlot}

CountEntry ==
    /\ pc = "counting"
    /\ TotalCount < Len(input)
    /\ TotalCount' = TotalCount + 1
    /\ largestEntries' \in Offered(largestEntries, TotalCount')
    /\ LET e == input[TotalCount'] IN
         /\ types' = Add(types, {e.type}, e)
         /\ lengths' = Add(lengths, {e.type} \X LevelOf(e), e)
         /\ prefixes' = Add(prefixes, {e.type} \X e.names, e)
         /\ slots' = Add(slots, SlotOf(e), e)
    /\ UNCHANGED <<input, largestKeyPrefixes, pc>>

\* The channel is closed and empty.
CountEnd ==
    /\ pc = "counting"
    /\ TotalCount = Len(input)
    /\ pc' = "prefixes"
    /\ UNCHANGED <<input, TotalCount, largestEntries, types, lengths, prefixes, slots,
                   largestKeyPrefixes>>

----------------------------------------------------------------------------
(* calcuLargestKeyPrefix: one round per prefix, in any order.              *)

\* prefixHeap.Less: by bytes, then by number, then by descending key.
Less(a, b) ==
    \/ a.bytes < b.bytes
    \/ a.bytes = b.bytes /\ a.num < b.num
    \/ a.bytes = b.bytes /\ a.num = b.num /\ a.key > b.key

PrefixEntry(k) == [type |-> k[1], key |-> k[2], num |-> prefixes[k].num,
                   bytes |-> prefixes[k].bytes]

\* The prefixes that are in the maps.
Present == {k \in Types \X Names : prefixes[k].num > 0}

\* What a heap of at most TopPrefixes can hold after the push of e.
PushedKeepingFirst(h, e) == {IF Cardinality(h) < TopPrefixes THEN h \cup {e} ELSE h}

Pushed(h, e) ==
    IF Cardinality(h \cup {e}) <= TopPrefixes THEN {h \cup {e}}
    ELSE {(h \cup {e}) \ {x} : x \in {y \in h \cup {e} : \A z \in h \cup {e} : ~Less(z, y)}}

MovePrefix(k) ==
    /\ pc = "prefixes"
    /\ k \in Present
    /\ largestKeyPrefixes' \in Pushed(largestKeyPrefixes, PrefixEntry(k))
    /\ prefixes' = [prefixes EXCEPT ![k] = Zero]
    /\ UNCHANGED <<input, TotalCount, largestEntries, types, lengths, slots, pc>>

Return ==
    /\ pc = "prefixes"
    /\ Present = {}
    /\ pc' = "returned"
    /\ UNCHANGED <<input, TotalCount, largestEntries, types, lengths, prefixes, slots,
                   largestKeyPrefixes>>

\* Nothing is left to do.
Returned == pc = "returned" /\ UNCHANGED vars

Next == CountEntry \/ CountEnd \/ Return \/ Returned \/ \E k \in Types \X Names : MovePrefix(k)

Spec == Init /\ [][Next]_vars

----------------------------------------------------------------------------
(* Properties.                                                             *)

\* The reference: the tally of a set of positions of the dump.
TallyOf(S) == [num |-> Cardinality(S), bytes |-> MapThenSumSet(LAMBDA i : input[i].bytes, S)]

\* Every variable has its type, and the heaps respect their bounds.
TypeOK ==
    /\ input \in Inputs
    /\ TotalCount \in 0 .. Len(input)
    /\ largestEntries \subseteq Counted /\ Cardinality(largestEntries) <= TopN
    /\ types \in Tallies(Types)
    /\ lengths \in Tallies(Types \X Levels)
    /\ prefixes \in Tallies(Types \X Names)
    /\ slots \in Tallies(Slots)
    /\ largestKeyPrefixes \subseteq [type : Types, key : Names, num : Nat, bytes : Nat]
    /\ Cardinality(largestKeyPrefixes) <= TopPrefixes
    /\ pc \in {"counting", "prefixes", "returned"}

(* The heap holds the largest entries met so far: as many as fit, and none *)
(* that was turned away or pushed out is larger than one that was kept.    *)
LargestKept ==
    /\ Cardinality(largestEntries) = IF TotalCount < TopN THEN TotalCount ELSE TopN
    /\ \A k \in largestEntries, d \in Counted \ largestEntries : input[d].bytes <= input[k].bytes

\* Every entry is tallied once under its type and, if its key is not empty, once
\* under its slot; so the two dimensions add up to the same.
TypeAndSlotTallies ==
    /\ \A t \in Types : types[t] = TallyOf({i \in Counted : input[i].type = t})
    /\ \A s \in Slots : slots[s] = TallyOf({i \in Counted : input[i].slot = s})

\* Length levels are disjoint ranges: level l counts the entries with more
\* elements than l and no more than the next level.
LevelTallies ==
    \A t \in Types, l \in Levels :
        lengths[<<t, l>>] = TallyOf({i \in Counted :
            /\ input[i].type = t
            /\ l = IF input[i].elems <= 100 THEN 0
                   ELSE Max({m \in Levels : m < input[i].elems})})

(* At every entry counted, the tallies by type, slot and level are those   *)
(* of all entries so far: none is missed, counted twice, or counted under  *)
(* its type but not under the level its length is in.                      *)
EntryTallies == TypeAndSlotTallies /\ LevelTallies

\* The reference for one prefix k = <<type, name>>, as a PrefixEntry.
PrefixTally(k) == TallyOf({i \in Counted : input[i].type = k[1] /\ k[2] \in input[i].names})

ReferenceEntry(k) == [type |-> k[1], key |-> k[2], num |-> PrefixTally(k).num,
                      bytes |-> PrefixTally(k).bytes]

(* An entry is tallied once under each of its prefixes; moving the tallies *)
(* to the heap empties the maps and alters none of them.                   *)
PrefixTallies ==
    /\ \A k \in Types \X Names : pc = "counting" => prefixes[k] = PrefixTally(k)
    /\ \A e \in largestKeyPrefixes : e = ReferenceEntry(<<e.type, e.key>>)
    /\ pc = "returned" => Present = {}

(* In whatever order the map is ranged over, the result holds the largest  *)
(* prefixes of the dump: as many as fit, and none left out is larger than  *)
(* one that is in.                                                         *)
LargestPrefixesKept ==
    pc = "returned" =>
        LET all == {e \in {ReferenceEntry(k) : k \in Types \X Names} : e.num > 0}
        IN  /\ Cardinality(largestKeyPrefixes) = Min({TopPrefixes, Cardinality(all)})
            /\ \A e \in largestKeyPrefixes, d \in all \ largestKeyPrefixes : ~Less(e, d)
=============================================================================
