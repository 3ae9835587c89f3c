------------------------------ MODULE Results ------------------------------
(***************************************************************************)
(* What becomes of the counter of one import.  runJob puts it in the map   *)
(* counters and saves it: ToDTO flattens it, and encoding/json writes the  *)
(* row (server/persistence_structs.go, db.go).  After a restart the        *)
(* counter is rebuilt from the row (LoadHistory, ToCounter).  All that     *)
(* time /api/analysis builds its page from whatever counter is in the map  *)
(* (show.go).                                                              *)
(*                                                                         *)
(* The variables of Counter are the counter as Count returned it; after a  *)
(* restart they exist only as the reference for what is shown.  A counter  *)
(* in the map is a record of the fields that are read again.  The maps of  *)
(* key prefixes are not among them: Count has emptied them into the heap.  *)
(*                                                                         *)
(* A map key of ToDTO is the text Type|Key.  A text is the sequence of its *)
(* parts between '|'.  A prefix comes back from JSON as it was, because it *)
(* is valid UTF-8 (NamesAreText in Keys).                                  *)
(***************************************************************************)
EXTENDS Counter, SequencesExt

CONSTANTS ShownN,       \* 100 in Show and apiAnalysis
          PageRows,     \* 50 in apiAnalysis
          BigPrefix,    \* 1000*1000 in apiAnalysis
          MaxRestarts,  \* bound of the model
          None          \* no counter in the map, no row

ASSUME ResultAssumptions ==
    /\ IsFiniteSet(Types)
    /\ {ShownN, PageRows, BigPrefix, MaxRestarts} \subseteq Nat
    /\ ShownN <= TopN

VARIABLES
    counters,   \* the entry of the map for this analysis
    history,    \* its row: a CounterDTO
    job,        \* "counting", "published" or "ended"
    restarts    \* restarts so far

serving == <<counters, history, job, restarts>>

----------------------------------------------------------------------------
(* The counter in the map and its getters.                                 *)

\* The decimal text of a length level has no '|'.
LevelText(l) == <<l>>

Measured == {k \in Types \X Levels : lengths[k].num > 0}

AsCounted == [entries  |-> largestEntries,
              prefixes |-> SetToSeq(largestKeyPrefixes),
              types    |-> types,
              slots    |-> slots,
              lengths  |-> [k \in {<<m[1], LevelText(m[2])>> : m \in Measured} |->
                               lengths[<<k[1], k[2][1]>>]]]

\* GetLargestEntries: the order of equal sizes is arbitrary.
GetLargestEntriesUnsorted(h, num, sizeFilter) ==
    {SubSeq(s, 1, Min({num, Len(s)})) : s \in SetToSeqs(h)}

GetLargestEntries(h, num, sizeFilter) ==
    LET res == {k \in h : sizeFilter > 0 => input[k].bytes > sizeFilter}
        sorted == {s \in SetToSeqs(res) : \A i, j \in DOMAIN s :
                       i < j => input[s[i]].bytes >= input[s[j]].bytes}
    IN  {SubSeq(s, 1, Min({num, Len(s)})) : s \in sorted}

\* GetLargestKeyPrefixes: largest first.
GetLargestKeyPrefixesAsHeld(c) == c.prefixes

GetLargestKeyPrefixes(c) ==
    LET order == CHOOSE p \in SetToSeqs(DOMAIN c.prefixes) : \A i, j \in DOMAIN p :
                     i < j => ~Less(c.prefixes[p[i]], c.prefixes[p[j]])
    IN  [i \in DOMAIN order |-> c.prefixes[order[i]]]

----------------------------------------------------------------------------
(* ToDTO, JSON and ToCounter.                                              *)

TypeKeyToString(k) == <<k[1]>> \o k[2]

StringToTypeKey(s) == <<"", <<>>>>

\* Split by the first '|'.
ParseTypeKey(s) == IF Len(s) > 1 THEN <<Head(s), Tail(s)>> ELSE <<"", s>>

\* The map with its keys rewritten; of two values for one key, either.
Rekeyed(f, name) ==
    [y \in Range(name) |-> f[CHOOSE x \in DOMAIN f : name[x] = y]]

\* The rows that a counter can become.
ToDTO(c) ==
    {[LargestEntries     |-> s,
      LargestKeyPrefixes |-> GetLargestKeyPrefixes(c),
      types              |-> c.types,
      slots              |-> c.slots,
      lengths            |-> Rekeyed(c.lengths, [k \in DOMAIN c.lengths |-> TypeKeyToString(k)])]
        : s \in GetLargestEntries(c.entries, TopN, 0)}

\* The heaps that offering the entries of s in turn to an empty one can give.
OfferedAll(s) ==
    FoldLeft(LAMBDA heaps, n : UNION {Offered(h, n) : h \in heaps}, {{}}, s)

\* The counters that a row can be read as.
ToCounterWithoutPrefixes(dto) ==
    {[entries  |-> h,
      prefixes |-> <<>>,
      types    |-> dto.types,
      slots    |-> dto.slots,
      lengths  |-> Rekeyed(dto.lengths, [s \in DOMAIN dto.lengths |-> ParseTypeKey(s)])]
        : h \in OfferedAll(dto.LargestEntries)}

ToCounterWithoutTypes(dto) ==
    {[entries  |-> h,
      prefixes |-> dto.LargestKeyPrefixes,
      types    |-> [t \in Types |-> Zero],
      slots    |-> dto.slots,
      lengths  |-> Rekeyed(dto.lengths, [s \in DOMAIN dto.lengths |-> ParseTypeKey(s)])]
        : h \in OfferedAll(dto.LargestEntries)}

ToCounter(dto) ==
    {[entries  |-> h,
      prefixes |-> dto.LargestKeyPrefixes,
      types    |-> dto.types,
      slots    |-> dto.slots,
      lengths  |-> Rekeyed(dto.lengths, [s \in DOMAIN dto.lengths |-> ParseTypeKey(s)])]
        : h \in OfferedAll(dto.LargestEntries)}

----------------------------------------------------------------------------
(* The page: /api/analysis of the counter c.                               *)

LargestKeys(c) == GetLargestEntries(c.entries, ShownN, 0)

\* The rows of a type: every big prefix, others up to PageRows + 1 rows.
LargestKeyPrefixesOfType(c, t) ==
    FoldLeft(LAMBDA rows, e :
                 IF e.type # t \/ (e.bytes < BigPrefix /\ Len(rows) > PageRows)
                 THEN rows ELSE Append(rows, e),
             <<>>, GetLargestKeyPrefixes(c))

TotalNum(c) == MapThenSumSet(LAMBDA t : c.types[t].num, Types)

TotalBytes(c) == MapThenSumSet(LAMBDA t : c.types[t].bytes, Types)

\* LenLevelCount: the rows of all types, in no order.
LenLevelCount(c) ==
    {[type |-> k[1], key |-> k[2], num |-> c.lengths[k].num, bytes |-> c.lengths[k].bytes]
        : k \in DOMAIN c.lengths}
----------------------------------------------------------------------------
(* Steps.                                                                  *)

ServeInit ==
    /\ Init
    /\ counters = None
    /\ history = None
    /\ job = "counting"
    /\ restarts = 0

Count ==
    /\ job = "counting"
    /\ CountEntry \/ CountEnd \/ Return \/ \E k \in Types \X Names : MovePrefix(k)
    /\ UNCHANGED serving

\* counters.Set
Publish ==
    /\ job = "counting"
    /\ pc = "returned"
    /\ counters' = AsCounted
    /\ job' = "published"
    /\ UNCHANGED <<vars, history, restarts>>

\* SaveAnalysis; the insert can fail.
Save ==
    /\ job = "published"
    /\ history' \in ToDTO(counters)
    /\ job' = "ended"
    /\ UNCHANGED <<vars, counters, restarts>>

SaveFail ==
    /\ job = "published"
    /\ job' = "ended"
    /\ UNCHANGED <<vars, counters, history, restarts>>

\* The process is killed and started again: LoadHistory, which skips a row it cannot read.
Restart ==
    /\ restarts < MaxRestarts
    /\ restarts' = restarts + 1
    /\ job' = "ended"
    /\ \/ counters' = None
       \/ history # None /\ counters' \in ToCounter(history)
    /\ UNCHANGED <<vars, history>>

\* The server goes on without any more restarts.
Ended == job = "ended" /\ UNCHANGED <<vars, serving>>

ServeNext == Count \/ Publish \/ Save \/ SaveFail \/ Restart \/ Ended

ServeSpec == ServeInit /\ [][ServeNext]_<<vars, serving>>

----------------------------------------------------------------------------
(* Properties.                                                             *)

\* The map and the row hold what their readers expect; the row is sorted.
ResultsTypeOK ==
    /\ job \in {"counting", "published", "ended"}
    /\ restarts \in 0 .. MaxRestarts
    /\ counters # None =>
         /\ counters.entries \subseteq Counted /\ Cardinality(counters.entries) <= TopN
         /\ DOMAIN counters.lengths \subseteq Types \X {LevelText(l) : l \in Levels}
         /\ Len(counters.prefixes) <= TopPrefixes
    /\ history # None => \A i, j \in DOMAIN history.LargestEntries :
         i < j => input[history.LargestEntries[i]].bytes >= input[history.LargestEntries[j]].bytes

Sizes(s) == [i \in DOMAIN s |-> input[s[i]].bytes]

(* The "largest keys" table of the page is a true top list of the whole    *)
(* dump, although it is cut from the bounded heap, and still is when the   *)
(* heap was rebuilt from a row.                                            *)
ShownAreLargest ==
    counters # None => \A s \in LargestKeys(counters) :
        /\ Len(s) = Min({ShownN, Len(input)})
        /\ \A i \in DOMAIN s, d \in (1 .. Len(input)) \ Range(s) :
               input[d].bytes <= input[s[i]].bytes

\* All prefixes of the dump of one type, largest first, by the reference tallies.
AllPrefixesOfType(t) ==
    LET all == {e \in {ReferenceEntry(<<t, n>>) : n \in Names} : e.num > 0}
    IN  CHOOSE s \in SetToSeqs(all) : \A i, j \in DOMAIN s : i < j => ~Less(s[i], s[j])

Measures(s) == [i \in DOMAIN s |-> <<s[i].bytes, s[i].num>>]

(* The prefix table of each type is a true top list of that type, although *)
(* the heap is shared by all types and the page cuts it again: rows are in *)
(* order, none left out is larger, and rows are missing only when the heap *)
(* is full or the page has all the rows it allows; then none is big.       *)
PagePrefixesAreTop ==
    counters # None => \A t \in Types :
        LET rows == LargestKeyPrefixesOfType(counters, t)
            all == AllPrefixesOfType(t)
        IN  /\ IsPrefix(Measures(rows), Measures(all))
            /\ \/ Len(rows) = Len(all)
               \/ Len(counters.prefixes) = TopPrefixes
               \/ Len(rows) > PageRows /\ all[Len(rows) + 1].bytes < BigPrefix

(* The totals in the page's head are those of the dump: every entry counts *)
(* once, in memory and after a restart, where TotalCount itself is lost.   *)
PageTotals ==
    counters # None =>
        /\ TotalNum(counters) = Len(input)
        /\ TotalBytes(counters) = TallyOf(DOMAIN input).bytes

\* The names of the rows of s that are larger than its last row.
Settled(s) ==
    {s[i].key : i \in {j \in DOMAIN s : Measures(s)[j] # Measures(s)[Len(s)]}}

(* A restart does not change what users see of an analysis: the same       *)
(* sizes, levels and slots, the same prefix rows, and the same keys but    *)
(* for the choice between equally large ones at the end of the list.       *)
RestartShowsSame ==
    counters # None =>
        /\ \A old \in LargestKeys(AsCounted), new \in LargestKeys(counters) :
               /\ Sizes(old) = Sizes(new)
               /\ \A k \in Range(old) \ Range(new) : input[k].bytes = input[old[Len(old)]].bytes
        /\ \A t \in Types :
               LET old == LargestKeyPrefixesOfType(AsCounted, t)
                   new == LargestKeyPrefixesOfType(counters, t)
               IN  Measures(old) = Measures(new) /\ Settled(old) = Settled(new)
        /\ LenLevelCount(AsCounted) = LenLevelCount(counters)
        /\ types = counters.types
        /\ slots = counters.slots
=============================================================================
