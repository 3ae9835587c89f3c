# Verification of the Redis RDB analyzer

TLA+ models of `redis-rdb-analyzer`, the TLC runs that check them and the TLAPS
proofs about them. Paths such as `job.go` are relative to `src/server/` unless a
directory is given. `PROJECT.json` lists for every definition the source lines
it stands for, for every property a mutation of the code that breaks it, and
every hazard with the properties that cover it.

To repeat the work: `tlc -config X.cfg M` for a run (the table in section 4
names module and configuration) and `tlapm M.tla` for a proof module.

## 1. The system

A web server reads RDB files out of Kubernetes pods with `kubectl`, counts what
is in them and shows the result. Everything is one Go process with one SQLite
file and a directory `./tmp`; the clients are browser pages.

| Component | State | Operations | Talks to |
|---|---|---|---|
| Import jobs (`job.go`, handlers in `show.go`) | `GlobalJobManager.jobs`, one record per ID; `./tmp/rdr_<ID>.rdb` | `StartJob`, `runJob` (one goroutine per import), `GetStatus` | History (ID, save), result map (publish), pipeline, `kubectl exec` / `cp` |
| History (`db.go`) | SQLite table `history` | `GetNextID`, `SaveAnalysis`, `LoadHistory` | jobs, startup |
| Result map (`safemap.go`, `show.go`) | `counters`: ID -> `Counter` | `Set`, `Get`, `Items` | jobs write it, the result pages read it |
| Parsing pipeline (`job.go`, `decoder/hdt_decode.go`) | channel `decoder.Entries`, progress bar, `job.Progress` | decoder goroutine, progress poller, `Counter.Count` | the parser library, the file |
| Counter (`counter.go`) | five pairs of maps, two heaps | `Count`, `calcuLargestKeyPrefix`, `GetLargestEntries` | fed by the channel, read by the pages |
| Keys (`counter.go`, `utils.go`) | none | `getPrefixes`, `Slot`, `crc16` | counter |
| Discovery (`k8s_discovery.go`, `db.go`) | SQLite table `discovery_cache` | `DiscoverRedisResources`, `GetDiscoveryCache`, `SaveDiscoveryCache` | `kubectl get`, dashboard |
| Persistence (`persistence_structs.go`) | none | `ToDTO`, `ToCounter` | between counter and history |
| Dashboard (`views/layout.html`) | a page's selection, `importing`, interval timers | import, poll, select, load | HTTP API |
| Result pages (`show.go`) | none | `apiAnalysis`, the getters of `Counter` | result map |
| Configuration (`config.go`) | environment | `parseSize`, `FormatSize`, durations | jobs, discovery |

What is hard in it:

* Imports run concurrently and share, by ID, a status record, a temporary file,
  an entry of the result map and a row. The ID is chosen from the saved rows
  only, long before the import saves its own.
* A killed server loses records and results but neither rows nor temporary
  files; deferred clean-up does not run then.
* Three goroutines work on one dump. Nobody waits for the decoder goroutine or
  for the poller, the file is closed by a third party, and the channel is
  bounded.
* `kubectl` and SQLite calls may fail at every point, and several errors are not
  looked at (`DecodeWithHDT`, `SaveDiscoveryCache`, rows of `LoadHistory` and of
  `GetNextID`).
* The heaps are bounded, and one of them is filled in Go's map order.
* A result is flattened, written as JSON, read and rebuilt by another way than it
  was counted, and every page cuts the bounded lists again.
* The page fires polls and loads without waiting for the last ones, and their
  answers can be late, lost or about something no longer selected.
* A cached discovery is stamped when it is written, not when the cluster was
  read, and concurrent discoveries overwrite each other.

What makes each component correct:

* jobs and history: a saved analysis is one whole dump of its own pod, never
  changes, and can be opened whenever a client was told it is done; every
  import ends; memory and table agree after a restart;
* pipeline: every object is counted exactly once, all goroutines return, the
  file is open as long as it is read;
* counter: the heaps hold the largest entries and prefixes, and every tally is
  the tally of the whole dump;
* keys: prefixes are text and nest, slots depend on the hash tag only;
* discovery: bounded age, one record per namespace, nothing lost but what
  failed;
* persistence: a restored counter shows what the saved one showed;
* dashboard: what is shown belongs to what is selected, one import at a time.

## 2. Modules

| Module | Models | Kind |
|---|---|---|
| `ImportJobs` | jobs, history, result map, temporary files, restarts | state machine |
| `ResultLog` | what users are promised about results: an append-only log | abstract specification, implemented by `ImportJobs` |
| `ImportJobsProofs` | theorems about `ImportJobs` | proofs |
| `Pipeline` | the parsing phase of one import, goroutine by goroutine | state machine |
| `Analysis` | what that phase promises the rest of the server | abstract specification, implemented by `Pipeline` |
| `PipelineProofs` | theorems about `Pipeline` | proofs |
| `Counter` | `Count` with five dimensions and both heaps | state machine |
| `FoldFacts` | lemmas about the sums, folds, arrangements and sorted lists that `Counter`, `Results` and `Keys` are built from | lemmas |
| `CounterProofs` | theorems about `Counter` | proofs |
| `Results` | what becomes of a counter: published, saved, rebuilt after a restart, shown | state machine on top of `Counter` |
| `ResultsProofs` | theorems about `Results`, which counts as `Counter` does | proofs |
| `Dashboard` | one browser page against the server: import, poll, select, load | state machine |
| `DashboardProofs` | theorems about `Dashboard` | proofs |
| `Keys` | prefixes and slots, byte by byte, for any hash | functions, one variable |
| `CrcTable` | the hash of `utils.go` with its table, and the polynomial it should be | functions on top of `Keys` |
| `KeysProofs` | theorems about `Keys` | proofs |
| `Discovery` | discovery requests and their cache | state machine |
| `DiscoveryProofs` | theorems about `Discovery` | proofs |
| `MCImportJobs`, `MCResults`, `MCDiscovery` | small instances for TLC | |

How they fit together. `ImportJobs` takes the parsing phase as two steps (`Open`,
`Publish`); `Analysis` is the contract behind these steps, and `Pipeline` is
shown to implement it. `Pipeline` takes `Count` as "one more object counted";
`Counter` is that step in detail, and `Keys` computes the names and slots that
`Counter` takes as parts of an entry. `Results` goes on where `Counter` returns: a
`Publish` and a `Save` of `ImportJobs`, and a `Restart`, seen from the content of one
result. `Dashboard` is the client that `ImportJobs` assumes: `OneImport` says under
which conditions a page keeps the promise `OneAtATime`, and its server is that of
`ImportJobs` reduced to what answers say. `Discovery` shares only the database
file with the rest.

### ImportJobs

Each job is one call of `StartJob`; `pc[j]` is where its goroutine is, and each
location stands for the code between two points that another goroutine, a
client or a crash can tell apart: `named` (ID chosen, no record yet), `checking`,
`downloading`, `copying` (`kubectl cp` runs), `copied`, `parsing`, `published`
(in `counters`, not in the table), `saved` (in the table, end not shown),
`returning` (end shown, deferred calls not run), `exited`.

* A dump is the set of the downloads that put bytes in it. A result that is
  `{j}` is the download of `j` and nothing else, so overlapping copies to one
  path, a leftover of a crash and a late `os.Remove` show up in the data.
* `NextNumbers` is `GetNextID`: one more than the largest saved number, `_01`
  when the query fails, and too small a number when iterating the rows fails,
  which the code does not look at. `Faults` names the SQLite calls that may fail
  in an instance: `"id"`, `"save"`, `"load"`.
* `Save` is INSERT OR REPLACE; `Publish` replaces in memory.
* `Crash` empties what the process holds and, since the `kubectl` child dies
  with the container, ends every copy. `Restart` is `InitDB` and `LoadHistory`,
  which skips rows it cannot read when `"load" \in Faults`.
* `OneAtATime` is a promise of the clients, not of the server: a page disables
  its import button until it has polled an end (`layout.html:701`). `Dashboard`
  shows when a page keeps it. Several tabs, a reload, a lost answer, overlapping
  polls or a direct call of the API do not. The runs without it check
  what the server guarantees by itself, and the finding of `imports_overlap`
  shows what it does not.
* `NoMoreRequests` is the stutter of an instance whose job identities are used
  up, so that TLC's deadlock check is meaningful everywhere else.

### Pipeline

The dump has `N` objects and a trailer. `Read` is the parser's buffered read
through the progress bar, which may run ahead of the callbacks and may or may not
finish the bar when it is full (the bar library decides); `Send` is the callback,
which blocks at `Capacity`; `ParseFail` can happen at any point of the parse, also
at once. The poller samples and writes in two steps, as the code does.
`Analysis` sees of this only the result in `counters` (hidden until `Publish`),
whether reading failed, and the end that is shown.

### Counter

An entry of a dump is a record of what `Count` looks at. The two Go maps of a
dimension (number and bytes) are one function to tallies. A heap is the set of
what it holds: the largest entries as positions in the dump, so that equal
entries stay apart. Which of several equal minima is on top of the heap, and the
order in which Go ranges over a map, are nondeterministic choices. Prefix names
are numbers in string order, which is all `prefixHeap.Less` needs.

### Results

`Count` of `Results` is one step of `Counter`. What `runJob` then puts in the map is
`AsCounted`, a record of the fields that are read again; a row is a record of the
fields of `CounterDTO`. `ToDTO` and `ToCounter` are sets of possible outcomes: equal
sizes may be sorted either way, and offering the sorted entries to an empty heap
may drop either of two equal minima. A map key of the row is the sequence of the
parts of its text between `|`, so `ParseTypeKey` splits where the code does. A
prefix comes back from JSON as it was, because it is valid UTF-8 (`NamesAreText` of
`Keys`). `Restart` may skip the row, as
`LoadHistory` does with one it cannot read. The tables of `/api/analysis` are
operators of the counter in the map: `LargestKeys`, `LargestKeyPrefixesOfType` (the
page keeps big prefixes beyond its limit), the totals and the levels. After
`Publish` the variables of `Counter` do not change any more; they are the reference
for what is shown.

### Dashboard

`import[n]` follows one call of `startImport`: `posted` (the request is out),
`accepted` (the server has taken the job, the answer is on its way), `polling` (the
interval timer runs), `ended`. `poll[n]` counts the status requests of a timer by
what they carry: `sent`, or the answer `wait` (404 or not an end), `done`, `error`.
An answer reaches the page also after its timer was cleared, as in the code.
`load[i]` counts the calls of `loadInstance(i)` that are out. `gone`, `lost`, `late` and
`raced` are history variables: they name the situations in which a property has an
exception, and no action reads them.

* The imports are those of one pod; IDs differ in the number at their end, and
  `NextId` is `GetNextID` without failures, which `ImportJobs` has.
* The server's record of an import is found under its ID and lost in a restart;
  rows stay. `runJob` is four steps: `Fail` before there is a result, `Publish`
  (`counters.Set`), and then `Done`, or `SaveFail` if the row could not be written,
  after which the result is still in `counters`.
* What a page lists (`index`) and opens (`apiAnalysis`) is what is in `counters`, with
  or without a row. A restart leaves of it the rows, without those that
  `LoadHistory` skips; `gone` remembers what it took.
* `Reload` forgets everything the page had and opens the first instance, as
  `init` does; answers to the old page reach nobody.
* `Rest` is the stutter of a page on which nothing is left to happen.

### Keys

Keys are built byte by byte, and every key reached is a state, so each invariant
is a statement about all keys up to the bound. A key is any sequence of bytes.
`Mask` is `strings.Map` of `countByKeyPrefix`: it goes by the characters of UTF-8,
makes a star of a digit, and replaces each byte that is part of no character by the
three bytes of U+FFFD. `Names` cuts what that gives at separators as `getPrefixes`
does; `Slot` follows the brace search of the code. What these two promise does not depend on the hash, so `crc16`
is a constant of `Keys`; `CrcTable` defines it with the table of `utils.go` as it
stands, and the runs take that for the constant.

### Discovery

A request checks the cache (`Serve`, `Miss`), lists the StatefulSets, visits them
in any order, and saves. The pods of a set are abstracted to the set and the time
`kubectl` read them, which is what an answer's age and completeness are about.
`list[r].failed` and `.empty` remember why a set has no pods in the result. The code
does not: a set whose pods could not be read is skipped, and the list without it is
cached and returned as a success (`k8s_discovery.go:80-83`, `130-134`).
`OnlyFailedAreMissing` says that nothing else is missing. Identities in
`Requests` are reused, so they bound only how many requests are under way at
once. Time does not pass between an answer's last statement and its reply, and
no request takes longer than `MaxRun`: `kubectl` is called without a timeout, so
that bound is an assumption and a parameter of the property. The cache duration
does not change over a restart. Clock skew between SQLite and Go is not
modelled: both read the clock of one machine.

## 3. Properties

Each property has its statement in words above its definition. In short:

* `ImportJobs`: `DoneLoadable`, `PodIsolation`, `NoLeftovers`, `EveryImportEnds`
  hold whatever clients do; `HistoryAppendOnly`, `OwnDump`,
  `MemDiskAgree`, `StatusIsOwn`, `LostFileOnlyAfterFailure` and
  `ImplementsResultLog` need clients that import a pod once at a time.
  `DoneLoadable` also needs `LoadHistory` to read every row.
* `Pipeline`: `ExactlyOnce`, `CompleteUnlessFailed`, `OpenWhileParsing`,
  `NoStandstill`, `AllReturn`, `ImplementsAnalysis`.
* `Counter`: `LargestKept`, `EntryTallies`, `PrefixTallies`,
  `LargestPrefixesKept`.
* `Results`: `ShownAreLargest`, `PagePrefixesAreTop` and `PageTotals` compare what the
  page shows with the dump, before and after a restart; `RestartShowsSame` compares
  both; `ResultsTypeOK` has the order of a row's entries and the form of its keys.
* `Dashboard`: `OneImport` as long as polls of one timer do not overlap,
  `ListedCanBeOpened` unless a restart took what is listed, `PageMatchesSelection` as
  long as loads do not overlap, and `PageSettles` unless a restart took the record.
  Each exception is a behaviour of the code that TLC reaches.
* `Keys`: `NamesAreTheCuts`, `NamesAreText`, and `TagDecidesSlot` for keys with a tag
  that is not empty and keys without one. What the code does with an empty tag is a
  finding.
* `Discovery`: `AgeBounded`, `NamespacesOnce`, `OnlyFailedAreMissing`.

## 4. Runs

| Run | Module | Bounds | What it shows |
|---|---|---|---|
| `imports_polled` | `MCImportJobs` | 3 jobs, 2 pods, 3 numbers, 2 crashes, failing saves and loads, one import of a pod at a time; symmetric jobs and pods | results are whole and each job's own; the table is the log of `ResultLog` |
| `imports_any` | `MCImportJobs` | 2 jobs, 2 pods, 2 numbers, 2 crashes, failing ID queries and saves, any overlap; no symmetry, for liveness | what holds without any promise of the clients, and that imports end |
| `imports_overlap` | `MCImportJobs` | 2 jobs, 1 pod, no fault at all | **violation**: overlapping imports get one ID, the second replaces the first |
| `pipeline` | `Pipeline` | 4 objects, channel of 2 | nothing lost, nobody stuck, `Analysis` implemented |
| `pipeline_progress` | `Pipeline` | 3 objects, channel of 2 | **violation**: the poller overwrites "100%" with an older sample |
| `pipeline_complete` | `Pipeline` | 3 objects, channel of 2 | **violation**: a damaged dump ends as a complete analysis |
| `results` | `MCResults` | every dump of at most 4 of 5 kinds of entries, heaps of 2 entries and 3 prefixes, 1 entry shown, `PageRows` 1, `BigPrefix` 4, 2 restarts | top lists, tallies and pages are those of the whole dump, also after restarts |
| `dashboard` | `Dashboard` | 2 imports, 2 polls and 2 loads at once, 1 restart or reload, IDs up to 2, failing saves | one import at a time, what is listed can be opened, what is shown is what is selected, the page waits for nothing for ever |
| `keys` | `CrcTable` | every key of at most 5 bytes over a letter, a digit, two separators, braces, the two bytes of é and a byte that is never text | prefixes and hash tags meet their reference definitions, prefixes are text |
| `keys_tag` | `CrcTable` | keys of at most 3 bytes over a letter and braces | **violation**: a key with an empty tag is in slot 0, not in that of the whole key |
| `keys_crc` | `CrcTable` | keys of at most 3 bytes | **violation**: the table is not that of CRC16-XMODEM |
| `discovery` | `MCDiscovery` | 2 concurrent requests, 2 sets in 1 namespace, TTL 1, `MaxRun` 1, 4 clock values; symmetric requests | age, grouping and completeness of answers |

Why the bounds are enough to be interesting. Three jobs of one pod are the
least in which a failed import, a re-import and a third one meet on one ID while
a crash has left a file; two pods show isolation; two crashes allow a crash after
a restart. A channel of 2 with 4 objects is full and empty with objects still to
come, and sender and receiver can each be a whole queue apart. Heaps of 2 with
colliding sizes reach the bound with ties, and the element counts of `MCResults`
sit on, below and above level boundaries; the page's limits are small enough that
both reasons for a missing row occur, and a second restart reads a row that was
already read once. Two imports are the least in which a late answer of the first
meets the second; the instance starts with and without an older analysis, which was
read or skipped. With two IDs an import has a number of its own, or that of an earlier
import that failed before or after it published. With an older
analysis and a first import that is saved the numbers are used up, and the second import
is refused; two saved imports of one page are covered when there is no older one. Five bytes hold a separator run at the
start, inside and at the end, and a tag with text on both sides or two braces of
each kind; they hold a whole character, either half of one, and a replaced byte next
to a cut. In `discovery` the clock covers a discovery, the validity of its row
and its expiry; two requests give the overwriting of a newer row by an older
one. The properties proved in section 5 do not depend on the bounds.

Fairness. `ImportJobs!Fairness`: the Go scheduler runs a goroutine that can go on,
every `kubectl` and SQLite call returns (with or without an error), and a killed
server is started again (the chart deploys it as a StatefulSet). The code has no
timeout on `kubectl`, so a call that hangs for ever is excluded by assumption.
`Pipeline!Fairness`: the scheduler runs each of the three goroutines while it can
run. Clients owe nothing in either. `Dashboard!Fairness`: imports end (which
`EveryImportEnds` of `ImportJobs` justifies), timers fire, requests are answered or
fail. A poll may fail any number of times, but the network does not fail every one
of infinitely many: `SF` on serving a poll and on receiving an end. `Counter`,
`Results`, `Keys` and `Discovery` state no liveness.

## 5. Proofs

TLAPS checks, for all values of the constants that satisfy the named assumptions
of the modules (`JobAssumptions`, `PipelineAssumptions`, `DiscoveryAssumptions`,
`DashboardAssumptions`, `CounterAssumptions`, `ResultAssumptions`,
`KeysAssumptions`). These say of what type a constant is and, where it matters:
dumps are sequences of entries, `NoSlot` (the key is empty) is no slot, there are
finitely many types, heaps hold at least one element, and the page does not show
more keys than the heap holds. No theorem assumes fairness,
and none bounds the number of jobs, restarts, entries, keys or requests.

**ImportJobsProofs.** `TypeCorrect`, `PodsIsolated`, `NoFileLeftBehind` for every
client behaviour and every fault; `DoneCanBeOpened` when
`"load" \notin Faults`; `ResultsAreOwnDumps`, `MemoryAgreesWithDisk`,
`StatusIsOfRunningJob`, `HistoryIsAppendOnly`, `FilesLostOnlyAfterFailure`, `JobsImplementResultLog` when
`Polite` holds: `OneAtATime` and `"id" \notin Faults`. The argument has four layers.
(1) Types, with `Quiet`: while the server is down nobody is at work. (2)
`Provenance`: whatever a file, a parser, the map or the table holds for an ID was
downloaded by jobs with that ID; every copy goes to the path of its own ID, so
this needs no promise. (3) `Promise`: what is shown done is saved and published,
what is saved is in memory while the server is up. (4) `Exclusive`: under polite
clients a running job is alone with its ID, its row is empty until it saves, its
file holds its own download only, and its record is the one that is polled.
`OwnDump` is not inductive without the part about the file (a leftover of a crash
under the same ID is truncated, not appended to), and `HistoryAppendOnly` not
without the empty row, which in turn needs that `GetNextID` sees every saved row.

**PipelineProofs.** `TypeCorrect`, `EachEntryOnce`, `CountIsComplete`,
`FileOpenWhileParsing`, `ChannelNeverStandsStill` for every dump and capacity,
and `PipelineImplementsAnalysis` for the safety part of `Analysis`. The inductive
invariant is `Coupling`: the channel is closed exactly when the decoder goroutine
is past `close`; `runJob` is past `Count` only if the channel is closed and empty;
the channel holds exactly the objects between `counted` and `sent`; the decoder
is past the parse only with everything sent or a failure. That the file stays
open follows only through the channel: closing it waits for `Count`, which waits
for `close`, which comes after the last read.

**DiscoveryProofs.** `TypeCorrect`, `AnswersAreRecent`, `NamespacesAreOnce`,
`NoSetIsLost` for any number of requests, any cluster and any durations. The
invariant follows a list from the loop to the cache to an answer: while it is put
together it was read no earlier than its request started and accounts, with what
is left to do, for every listed set (`Discovering`); once cached it is at most
`MaxRun` older than its stamp (`Cached`); so an answer from it is at most
`TTL + MaxRun` old (`Answered`). The lemmas about `Merge` say that adding a pod
changes one record and keeps records apart.

**DashboardProofs.** `TypeCorrect`, `ImportsOneAtATime`, `ListedIsServed` and
`SelectionIsShown` for any number of imports, polls, loads, restarts and reloads. Types
need to know where IDs come from: `Known` ties the ID an answer carries to what its
own import has published, and `RecordsOwn` says a record stands under the ID of its
import. The same two carry `ListedCanBeOpened`: what an answer says is done was
published, and only a restart takes it out of the map. `OneImport` is not
inductive: `OneAtATime` adds that without overlapping polls a timer has at most one
poll out, and that an import whose page no longer follows it has none (`Alone`,
`OnePoll`), so no late answer can enable the button. `PInv` is `late` or that; a poll
that overlaps sets `late` for good. `PageMatchesSelection` is inductive on top of the
types (`Matches`), by the one load that is out being that of `currentInstance`.

**FoldFacts.** The models compute with the folds of the community modules
(`MapThenSumSet`, `FoldLeft`, `SetToSeqs`), which are defined by recursion over sets.
The library's induction theorems take the claim as an operator, which the provers
cannot instantiate; here induction is stated over a *set* of numbers or of subsets
(`InductionOnNat`, `InductionOnSubsets`), which they can. From it follow that the
function a recursive definition speaks of exists and is unique
(`AdditiveExists`, `SumsUpIsAdditive`, `FoldExists`), that sums grow by what is added
(`BytesAddUp`, `OneAddsMore`), that a finite set has a sorted arrangement
(`SortedExists`), and the pigeonhole principle (`Pigeons`).

**CounterProofs.** Every property of `Counter`, for every dump, every set of types,
prefixes and slots and every size of the heaps. The inductive invariant `Inv` has
three parts. `CInv`: types, both heaps are finite, and the heap of entries holds the
largest; a heap that is not full holds everything counted (`AllCounted`), and a full
one that drops one of its smallest entries keeps a top list (`OfferedKeeps`).
`Tallied`: every tally of types, slots and levels is that of the entries *counted so
far*; the properties speak of the end of `Count` and are not inductive without it.
`PrefixesTallied`: while the prefixes move to their heap, each is either still
tallied or has been offered with its whole tally, and the heap holds the largest of
those offered so far (`KeepsLargest`), in whatever order Go ranges over the maps.
`EntryTallies` needs that the five levels cut the numbers into intervals
(`LevelIsReference`).

**ResultsProofs.** Every property of `Results`. `ResultsCount` shows that `Results`
implements `Counter!Spec`, so what is proved of `Counter` holds of every import. From
there the invariant is `SInv`: `Inv`, `Totals` (the tallies of the types add up to
those of the dump, which is all that is left after a restart, where `TotalCount` is
lost), and `Served`: the counter in the map is the one `Count` returned, but for the
order of its prefixes (`CounterIs`), and the row can be read as such a counter
(`RowIs`). The step from the row back to a counter rests on two facts: the entries of
a row fit the empty heap, so none is dropped (`OfferedAllFits`), and splitting the
text of a level key gives the key back (`KeysComeBack`).
`MapHoldsWhatWasCounted` states that much for every reader of the map. The tables
are then compared by position: a page's keys are a cut of an arrangement of the heap
by size (`CutOf`), its prefixes the top rows of their type (`Tops`, obtained from a
step-by-step account of the loop, `Placed`). Two arrangements of one set agree in
sizes because the first `i` of one cannot all be among fewer of the other (`Pigeons`);
hence `RestartsShowTheSame`, although a restart may order ties in another way. That
the heap of a page is the top list of the dump comes from `LargestKept` and
`LargestPrefixesKept`.

**KeysProofs.** `NamesAreCuts`, `PrefixesAreText` and `TagsDecideSlots` for keys of every
length over any bytes and for any hash. `Mask` joins what `strings.Map` makes of each
byte; the lemmas about it go along the key. A byte that begins a character continues
none, so the masked key is text up to wherever a character of the key ends; a
separator is one byte of its own, so what a cut leaves is text. A cut is trimmed to the last byte that is no separator
(`TrimIs`), which is one byte before a separator; conversely the cut at that separator
is trimmed to it. The brace search finds the first opening brace and the first closing
one after it (`HashedIs`); a tag, as the comment of `Slot` describes it, is unique,
and a key without one is hashed whole.

Only model-checked: `EveryImportEnds`, `AllReturn`, `PageSettles` and the fairness part
of `ImplementsAnalysis`, which are liveness under fairness and out of the prover's
reach; and the properties of section 6, which the code does not have.

## 6. Findings

* `db.go:118`: overlapping imports of a pod share an ID; the later save replaces
  the earlier analysis (`imports_overlap`).
* `job.go:160`: `Progress` can end below 100 (`pipeline_progress`).
* `job.go:166`: the parser's error is dropped, a partial count is reported as
  complete (`pipeline_complete`).
* `utils.go:37`: entries 46 to 63 of the CRC table are wrong (`keys_crc`).
* `utils.go:19`: a key with the empty tag `{}` before any other is put in slot 0,
  whereas Redis Cluster hashes it whole (`keys_tag`).

## 7. Not modelled

* Status texts, wording, logging, layout, HTML templates, generated assets; the
  paging, grouping and charts of the page.
* Which pod a page imports: the choice of namespace and pod, which can go stale
  when another namespace is chosen (`layout.html:284`).
* The object adapter (`ConvertToEntry`): it copies fields of types of the parser
  library, which is not in the repository.
* `parseSize` and `FormatSize`: floating-point conversions. `FormatSize` indexes
  `"KMGT"` with an exponent that is 4 from 1 PiB on (`config.go:106`).
* Torn reads of one job record: a record changes in one step in `ImportJobs`,
  whereas `update` writes `State`, `Status` and `Error` one after the other
  without a lock the handler would share.
* Several server replicas (`replicaCount` of the chart): each would have its own
  job records and result map.
* The RDB parser, `kubectl`, SQLite and the progress bar themselves; they are
  modelled from how the code uses them.
* The legacy callbacks of `decoder/decoder.go` and `decoder/memprofiler.go`,
  `countByDb`, `typeKeyToString`, `stringToTypeKey` (`persistence_structs.go`), and the
  methods of `SafeMap` that nothing calls.
* StatefulSets whose selectors overlap, which list a pod twice.
* Where the page puts an error: the box of a failed load is inside the block that is
  drawn only when an analysis is loaded (`views/dashboard.html:362`), so `error` of
  `Dashboard` is set but not seen.

## 8. Plan

Done: jobs with history, files and restarts; the pipeline; counter and keys;
discovery; results with their persistence and pages; the dashboard; their runs,
and proofs of every safety property that the runs check. Left, in order of
importance:

1. Status records at the granularity of their fields, as a refinement of the
   one-step record of `ImportJobs`.
2. Several pods in `Dashboard`, with the choice of a namespace and a pod from the
   answers of `Discovery`.
3. Several pages against one `ImportJobs`, to measure what two tabs of one user can
   do to each other beyond `imports_overlap`.
4. Sizes, should fixed-point reference definitions of `parseSize` and `FormatSize` be
   worth their length.
