# A verification of go4

`go4.org` is a collection of Go packages. This directory holds TLA+ models of
those of its packages that have state, concurrency or an algorithm worth
checking, the TLC configurations that check them on small instances, and TLAPS
proofs for instances of any size. `PROJECT.json` lists the components, the runs,
what each definition translates (`map`), the hazards, and the theorems.

To check a run: `tlc -config <run>.cfg <module>`; to check proofs:
`tlapm <module>.tla`.

## 1. Inventory

### Packages with a model

| package | state | operations | how it is used | what is hard | what makes it correct |
|---|---|---|---|---|---|
| `syncutil/singleflight` | a map from key to call; each call has a WaitGroup and a result | `Group.Do` | called by `singlereader` and, in the collection's users, by caches | the mutex is released while `fn` runs; `wg.Done` precedes the delete from the map; `fn` may panic | one execution per key at a time; a duplicate returns what the call it waited for produced; a delete hits one's own call; `Do` returns |
| `readerutil/singlereader` | `openFiles`, per-file reference counts | `Open`, `Close` | opens through `singleflight` | the mutex is released between the lookup and `Do`; the duplicate gets a file its winner may have closed; `Open` retries | counts are exact; no handle has a closed descriptor; no descriptor leaks; `Open` returns |
| `lock` | the map `locked` of each process, the file and its locks | `Lock`, `Close`, `lockFcntl`, `lockPortable`, `portableLockStatus` | processes meet in the file system only | processes die at any step; files are removed by name; closing a descriptor drops the locks of the process; pids are used again; only some systems can tell that an owner is dead, and some take a live one for dead | one holder per process, and of all processes; a holder is not robbed; a stale lock is recovered where the system can tell; foreign files are kept |
| `syncutil` | `Sem`: free units; `Gate`: a channel; `Once`: a flag; `Group`: a WaitGroup and errors | `Acquire`/`Release`, `Start`/`Done`, `Do`, `Go`/`Wait`/`Err`/`Errs` | used together by worker pools | waiters want different amounts; unlocked fast path; deferred calls | Sem and Gate are semaphores; no lost wake-up; set-up happens once and first; errors are complete |
| `syncutil/syncdebug` | counters, the writer's stack, the reading goroutines | `Lock`, `Unlock`, `RLock`, `RUnlock` | wraps `sync.RWMutex` | counters change before and after the mutex does; a read lock may be released by another goroutine; `log.Fatalf` ends the program | the bookkeeping agrees with the mutex; a fatal error is deserved |
| `net/throttle` | a channel of write requests, a loop goroutine | `Write`, `writeLoop`, `Close` | wraps a `net.Conn` | `Close` closes the channel writers send on; writes are cut in chunks that fail one by one | `Write` reports what was written and returns; the loop ends |
| `cloud/cloudlaunch` | bucket object, instance, running binary, last ETag | `MaybeDeploy` (upload, look up, insert, poll), `restartLoop` | developers, Compute Engine and systemd interact through the bucket | two deployments at once; operations that fail late; crashes and restarts | a created instance is up; restarts are useful; deployments end; updates are noticed |
| `jsonconfig` | include stack, touched files; the object under construction with its own bookkeeping | `ReadFile`, `CheckTypes`, accessors, `Validate` | recursion over files; evaluation in place | one parser is used again and again; maps are visited in any order; values are changed under their holders | no file is expanded inside itself; success means the whole was read; results are what expressions mean; errors are those of the calls made |
| `sort` | the slice and indices | `Sort`, `Stable`, `Search` | Less and Swap are the caller's | index arithmetic; contradictory Less | in range; partition; sorted; stable; logarithmic stack; returns |
| `media/heif/bmff` | position, read-ahead buffer, the last box's body | `ReadBox`, bodies, the parsers of every box type | reads an `io.Reader`, which may be a seeker | seeking under a buffer; sizes of 0, 64 bits or nonsense; input that ends anywhere; sticky errors | positions and boxes are those of the input; nothing is invented |
| `media/heif` | cached metadata | `PrimaryItem`, `ItemByID`, `EXIF`, `GetItemData`, `StandaloneHEIF`, `EncodeImage` | parses through `bmff`, writes boxes itself | offsets that overflow; 1-based indices; an offset that depends on the box that holds it | metadata, items and data are what the file says or an error; what is written reads back |
| `ziputil` | none for the table of contents; a handle's counters, checksum and sticky error; the pool of flate readers | `ZipTOCSize`, `ParseTOC`; `OpenWithReader`, `Read`, `Close` | a client fetches suffixes of a remote file, through `readerutil`'s multi-ReaderAt | what was not fetched reads as zeros; zip64 fields and offsets that overflow; data before the archive; streams that are cut off or spoilt; `Close` while `Read` runs | the table of contents is the writer's or an error; `io.EOF` means the data is whole; a flate reader has one owner |
| `bytereplacer` | a trie or a table; the caller's array | `New`, `Replace` | | what is read shares its array with what is written | the result is that of replacing into a fresh slice |
| `writerutil`, `rollsum` | ring buffers with an offset; sums that wrap | `Write`, `Bytes`; `Roll`, `Digest`, `OnSplit`, `Bits` | | any cut of a stream into writes; wrap-around of ring and words | both ends of the stream and the omitted length; the sum depends on the window only |
| `readerutil` | positions, a buffer, counters | `NewFakeSeeker`, `NewBufferingReaderAt`, `NewMultiReaderAt`, `NewStatsReader`, `Size` | multi-ReaderAt under `ziputil` | readers return little or fail at any point; seeks may lie | bytes are those of the believed offset; short means error |
| `oauthutil`, `wkfs`, `wkfs/gcs` | a token cache in a file, chosen by its path | `TokenSource.Token`; `ReadFile`, `WriteFile`; `Open`, `Create` | token sources read and write their cache through `wkfs`, on the operating system's files or Cloud Storage | no lock: processes read, truncate and write at the same time, and die half-way; tokens expire between read and use | no expired token and none made of two |

### Packages without one

`gceutil`, `gcsutil` and `xdgdir` are a thin layer over a network service or the
environment; the service decides what they return. `strutil`, `types`,
`errorutil`, `fault`, `ctxutil`, `must`, `legal`, `osutil`, `reflectutil` and
`functest` are small pure functions or test helpers; `dumpheif` prints what
`media/heif` returns. `lock_windows.go` and `lock_plan9.go` replace the locking
step by one exclusive open; `zfuncversion.go` is generated from `sort.go`. Of
`wkfs` and `wkfs/gcs`, `Remove` and the exclusive creation of a file are left
out: nothing in the repository calls them. Of `cloudlaunch`, the choice of disks
and the text of the unit are. `PROJECT.json` gives the reason for each.

## 2. Modules

An action stands for a critical section, or for one call into something that
others can see; steps in between are local. The module headers say what is
external to the repository (mutexes, channels, the file system, Compute Engine,
`bufio`) and how it is modelled. Variables keep the source's names.

| module | models | composition |
|---|---|---|
| `SingleFlight` | `Group.Do`: `Lead`/`Join` are the first critical section, `FnReturn`/`FnPanic` the call of `fn`, `WgDone`, `Forget` the second section, `WaitReturn` the duplicate | |
| `SingleReader` | `Open` (`Reuse`, `Do`'s steps, `FileOpen`, `IncRef`, `Retry`) and `Close` | instantiates `SingleFlight` as `openerGroup` |
| `LockBase` | what the locks of all platforms share: `lockmu`, the map `locked`, names and inodes | |
| `FcntlLock` | `Lock` and `Close` with `lockFcntl`; inodes, one descriptor per goroutine, fcntl locks per process, `Exit` | extends `LockBase` |
| `PortableLock` | the same with `lockPortable`: create, write pid, status, probe, remove; processes die and start; with and without `signalZero` | extends `LockBase` |
| `Lock` | the package as built for a platform: `lockFn` is the one or the other, or `lockPortable` is called directly, as `lock_test.go` does | extends `FcntlLock`, instantiates `PortableLock` |
| `Semaphore` | abstract: units that waiters are granted | |
| `Sem`, `Gate` | the two of `syncutil` | each refines `Semaphore` |
| `Once`, `Group` | `Once.Do`; `Go`, `Wait`, `Err`, `Errs` | |
| `Pool` | a program that uses the four together, as they are meant to be used | `Sem`, `Gate`, `Once`, `Group` |
| `RWMutexTracker` | the tracker's four operations, step by step; clients that nest read locks or hand them to another goroutine | |
| `Throttle` | `Accept`, `Write`, `writeLoop`, `Close`, `byteTime` | |
| `CloudLaunch` | `MaybeDeploy`, `restartLoop`, the systemd unit | |
| `JsonInclude` | include recursion as a stack of frames over every include graph | |
| `JsonEval` | `evaluateExpressions`, `evalValue`, `expandEnv` as recursive operators on trees, with values of types the package does not handle | |
| `JsonObj` | the accessors and `Validate` | |
| `Jsonconfig` | the three side by side in one run | extends `JsonInclude`, `JsonObj`; instantiates `JsonEval` |
| `DoPivot` | `doPivot`, one comparison or swap per step, for any Less | |
| `SortOps` | `insertionSort`, `heapSort`, `siftDown`, `rotate`, `symMerge`'s search as functions | |
| `QuickSort` | `quickSort` as a stack of slices around `DoPivot` | extends `DoPivot` |
| `StableSort` | `stable` and `symMerge` as a stack of calls | uses `SortOps` |
| `Search` | `Search` with integers of a given width | |
| `Sort` | the four in one run | |
| `Bmff` | the layout of a box: its header as cells of the input, its size, the list of boxes | |
| `BmffReader` | `ReadBox`, `skipRest`, reads of bodies, over `bufio` and a seeker that works, fails or is absent | uses `Bmff` |
| `BmffParse` | the parsers of `bmff.go` and `quicktime.go` | uses `Bmff` |
| `Heif` | the File API, `StandaloneHEIF`, `EncodeImage` | extends `BmffParse` |
| `Readers` | the fake seeker, the buffering ReaderAt and the multi-ReaderAt, over a reader that returns little or fails, and the statistics reader | |
| `ZipToc` | `ZipTOCSize` and `ParseTOC` as operators on a file of records; a client that asks for footers until it has enough | |
| `ZipRead` | `OpenWithReader`, `checksumReader.Read` and `Close`, `flateReaderPool`; each handle has a goroutine that reads and one that closes | |
| `ByteReplacer` | `New` (a trie, as a function from places to nodes, or a table) and `Replace`, one turn of the loop per step, on the caller's array | |
| `Window` | `PrefixSuffixSaver` and `RollSum` | |
| `TokenCache` | `Token` over `wkfs.ReadFile` and `WriteFile`, over the operating system or Cloud Storage; processes die, writes are cut short, tokens expire | |
| `Utilities` | the packages that stand alone in one run, and the archives, streams and pairs they are given | extends `ZipToc`; instantiates `Readers`, `ZipRead`, `ByteReplacer`, `Window`, `RWMutexTracker`, `TokenCache` |

`MC...` modules hold the parts of an instance that a `.cfg` cannot express, and
`...Proofs` modules the theorems about the module of that name (section 4);
`ServiceProofs` is about `Throttle`, `CloudLaunch`, `JsonInclude` and `JsonObj`.
A definition commented as a slip is a plausible mistake: `PROJECT.json` names for
every property one that it catches.

Data is abstracted to what the code tells apart. A path, a key or a value is a
model value. A byte of a BMFF file is a cell that holds a number, small enough
that two of them still make every size, offset and count that matters; the
widths of fields are kept, the base is not 256. A zip file is the set of its
records by offset, with lengths and the limits of integers scaled; a deflated
byte stands for two. Text (messages, names, logs) is
left out. Bounds of the code that are too large for TLC (`Cap`,
`BufSize`, `MaxInt64`, `MaxItemDataSize`, sort's thresholds) are constants, and
the proofs leave them arbitrary.

## 3. Runs

| run | question | instance and why it is enough |
|---|---|---|
| `SingleFlight` | one execution per key, right results, `Do` returns | 3 goroutines (leader, duplicate, latecomer that leads the next call), 2 keys so that a call can be compared with another's, functions may panic; as many call structs as can be reachable |
| `SingleReader` | exact counts, no use after close, no leak, `Open` returns, unused files get closed | 3 goroutines on one path: the winner, a duplicate that must retry and one that opens the next file. Three files, so that two of one path overlap and a third is opened |
| `Lock` | who holds either lock, who can lose it, and the recovery of stale lock files | 3 goroutines in 2 processes (two share descriptors and map, the third competes), and a third pid that a stale file may name and another program may have; 3 inodes, which are never used up; pids that can be probed, and pids that cannot |
| `Pool` | the primitives together | 3 workers: two sleep with different wants while one releases; the Gate is smaller than the Sem so that units are held while blocked |
| `Throttle` | what `Write` reports, and that all end | 2 writers, a channel with one slot so that sends block, requests of 0, 1 and 2 chunks of the code's 1400 bytes, at 1 KB/s |
| `ThrottleRate` | whether writes keep to the rate (they do not: see section 5) | as `Throttle`, with requests of 3 chunks at 2 KB/s |
| `CloudLaunch` | deployments and restarts | 2 deployers that race, 3 uploads: one that runs, one missed, one noticed |
| `Jsonconfig` | includes, evaluation, accessors | every include graph of 3 documents and 2 calls on one parser; every value with lists of up to 2 and objects of up to 2 keys; 3 accessor calls on 2 keys |
| `Sort` | all algorithms | every array of up to 9 elements of 3 values, with thresholds lowered to the least for which doPivot is right, so that the ninther, the duplicates and heapSort are reached; integers so narrow that `i+j` overflows |
| `BmffReader` | boxes and positions | inputs of up to 3 boxes with 32-bit, 64-bit, zero and nonsensical sizes, cut off anywhere; every read pattern; every amount of read-ahead |
| `Heif` | metadata, items, data, writing | one file for each version and field width, with the image and the EXIF item stored in the file, in idat, elsewhere or nowhere, with invalid indices, overflowing offsets, dangling references, several extents, and each cut off early; written files are read again |
| `Utilities` | each of the packages that stand alone | readers: every sequence of calls with offsets up to 4 on up to 3 bytes; archives: all layouts of up to 2 entries with data before them, gaps, zip64 records, comments that look like an end record, and damage, every footer; handles: 2 that share flate readers and are closed twice, and one for every cut or spoilt stream; every 2 pairs of short words and every 3 of longer ones on 9 subjects; rings of up to 3 and a window of 4 bytes under streams of 7, with 8-bit words that wrap; the tracker with 4 goroutines that nest read locks and hand them over, so that log.Fatalf, deserved or not, and the read-write-read deadlock happen; 2 processes that share a token cache, 3 tokens of different lengths |

The properties of each run are in its `.cfg`; the comment before each
definition states it. In short:

* **SingleFlight**: `OneInFlight`, `DuplicateGetsResult`, `ForgetsOwnCall` (an
  action property), `DoReturns` (unless the function it waits for panicked).
* **SingleReader**: `RefCountExact`, `NoUseAfterClose`, `NothingStuck`
  (`OpenReturns`, `UnusedIsClosed`).
* **Lock**: of lockFcntl `LockNotLost`, `ExclusiveUntilUnlink` (exclusion over
  all processes lasts until a Close has unlinked the path), `NoOrphanLock`; of
  lockPortable `PortableExclusive` (exclusion, whoever dies, lasts until a file
  was removed as stale that was not, and that never happens where `signalZero` is
  nil), `ForeignFileKept` (an action property: a file that cannot be decoded is
  never removed; up to that moment only stale files and one's own are, and where
  `signalZero` is nil only one's own), `StaleIsRecovered` (where pids can be
  probed).
* **Pool**: `Accounted` (no unit or slot is lost or made up, no wake-up is lost,
  `Gate.Done` never panics), `SetupAndErrs` (`SetupBeforeWork`, `ErrsExact`),
  `ImplementSemaphores` (the refinements of `Semaphore`, with liveness),
  `WaitReturns`.
* **Throttle**: `WriterContract` (`ReportsWritten`, `ShortMeansError`),
  `NobodyStranded` (`WriteReturns`, `LoopEnds`).
* **CloudLaunch**: `DeploysSound` (`CreatedIsUp`), `RestartIsUseful` (an action
  property), `UpdateNoticed`.
* **Jsonconfig**: `IncludesExact` (`StackIsCalls`, `NoFileInItself`,
  `OkIsWhole`), `EvalExact` (`ReadIsMeaning`, `ErrorMeansUnfit`,
  `CheckKeepsOutsideLists`: nothing is said of objects inside lists),
  `ValidateExact` (`NilMeansClean`, `ReportsExactly`).
* **Sort**: `InRange`, `ResultsExact` (`Sorted`, `StackDepth`, `SortedStably`,
  `CallsAreMerges`, `SearchExact`), `Returns` (for any Less).
* **BmffReader**: `PosExact`, `BoxesExact` (against `Boxes`, a definition of the
  box list that knows nothing of buffers).
* **Heif**: `FileExact` (`WholeFileExact`, `NothingInvented`, `DataExact`) and
  `RoundTrip`, against the description each file was written from. Of EXIF,
  `DataExact` speaks only for items in the file itself.
* **Utilities**: `ReadersExact`; `TocExact` (no answer is wrong, whatever footer
  was fetched, and a valid file is parsed from the suffix `ZipTOCSize` asked for
  once the end records were in the footer); `EntriesSound` (`BodyExact`,
  `HandlesSound`); `ReplaceExact`; `RingsExact` (`SaverExact`, `RollExact`);
  `TrackerExact` (`HolderIsWriter`, `CountersSettle`, `FatalMeansRecursive`, of
  which what depends on `holdr` only as long as no read lock was handed over);
  `DeadlockReported` (a read-write-read deadlock is logged, unless the writer
  comes between the check and `mu.RLock`); `TokensSound` (an action property: no
  expired token from the cache, and on Cloud Storage none made of two; on the
  operating system's files none made of two unless uses of the file overlapped
  or a process died while it wrote).

Where a type invariant, or a part of an inductive invariant such as
`MapEntryInUse`, `ExclusiveInProcess` or `Partitioned`, is proved for every
instance, the run does not check it again. Elsewhere `TypeOK` is a conjunct of
the run's first invariant.

### Fairness

Liveness assumes weak fairness of the steps that a scheduled goroutine takes by
itself; Go's scheduler is preemptive and runs every runnable goroutine in the
end.

* `SingleFlight`: the function that runs ends (or panics), and the steps after
  it are taken. Nothing is assumed of calls that are not yet made.
* `SingleReader`: every goroutine inside `Open` or `Close` goes on; nobody has
  to call either.
* `Pool`: every worker goes on. `sync.Mutex` hands itself to a waiter that has
  starved for a millisecond, and the jobs are finitely many.
* `Lock`: the goroutines of a process with lock files that are inside a call go
  on, and lock again. Processes may die or not. Nothing is assumed of lockFcntl.
* `Throttle`: the loop and Close go on weakly. `SF` for a writer: a send on a
  full channel queues first-in first-out in the Go runtime, so that a writer
  whose send is enabled again and again gets its slot.
* `CloudLaunch`: deployers go on, Compute Engine ends the operations it has
  accepted, systemd starts the unit, and HEAD requests are made again and again.
* `Sort`: the running call goes on.

Deadlock is checked except where the system may stop: all of `SingleFlight`'s
goroutines may wait for a function that panicked, developers may stop deploying,
the bounded calls of `Jsonconfig` and `Sort` end, and in `Utilities` clients stop
when they have their answer, streams end, and goroutines that nest read locks may
deadlock behind a writer.

## 4. Proofs

Every theorem is about the modules the runs check, for every value of the
constants that satisfies their named assumptions.

* **`SingleFlightProofs`** (any sets of goroutines, keys, calls and values):
  `TypeCorrect`, `OneInFlightHolds`, `DuplicateGetsResultHolds`,
  `ForgetsOwnCallHolds`. The invariant adds that each call has at most one
  leader, that a leader's call is in the map under its key until it forgets it,
  and that waiters refer to calls that exist. `OneInFlight` is not inductive
  alone: it says nothing of a leader past `wg.Done`, whose delete could hit a
  newer call.
* **`SingleReaderProofs`**: `UsesSingleFlight` shows that the reader's steps
  are steps of its instance of `SingleFlight`, so that the results above carry
  over. The invariant counts owners: a file's `refCount` is the cardinality of
  the set of goroutines that own a reference to it (`RefCountExact`), owned
  files are open, and an unowned file has exactly one closer. From it
  `NoUseAfterClose`, `MapEntryInUse`, `NoDescriptorLeak`. Assumes finitely many
  goroutines.
* **`LockProofs`** (any numbers of processes, threads, pids and inodes). The
  package's steps are steps of `FcntlLock` or of `PortableLock`, or leave it
  alone (`UsesFcntl`, `UsesPortable`), so that each is proved about by itself.
  For lockFcntl, `Inv` adds which goroutine is inside `lockmu`, that the map
  `locked` has an entry exactly for a holder or a goroutine on its way, and that
  until an unlink every descriptor is of the file the path names (`AllLinked`).
  `LockNotLost` needs them: it fails if a second goroutine of the process can
  open the file at all. For lockPortable, processes die and start at will.
  `OneOwner` says that, until a file is removed as stale that is not, the file of
  the path belongs to at most one goroutine, from its creation with `O_EXCL` to
  its removal, and has that goroutine's pid once it is written. It needs that
  only goroutines of live processes are inside Lock or hold the name (`PAlive`):
  the owner's file is then not stale, and nobody can remove it but by mistake.
  It gives `PortableExclusiveHolds` and `HolderKeepsFileHolds`. `NoProbe` (there
  is no such mistake where `signalZero` is nil) and `NoGarbage` (a file that
  cannot be decoded was there from the start, and nobody is on the way to remove
  it) complete the action property `ForeignFileKeptHolds`.
* **`ServiceProofs`**:
  - *Throttle*: `WriterContractHolds`. A Write's result was made by the loop many
    steps before, so that the invariant follows its request: it is queued once,
    or worked on, while its Write waits (`OneRequest`), nothing is written for it
    before the loop takes it (`Untouched`), the loop's counts are those of the
    connection (`Working`), and an answer that is on its way is truthful
    (`Answers`).
  - *CloudLaunch*, any number of deployers and uploads. `DeploysSoundHolds` needs
    that at most one operation of Compute Engine runs and that one that is done
    has made the instance (`OperationsSound`), and that a deployer looks for an
    instance only after an upload (`Uploaded`). `RestartIsUsefulHolds`, an action
    property, needs that the ETag restartLoop has seen first is no older than
    the binary that runs (`SeesUpdates`), over any number of crashes, restarts
    and uploads in between.
  - *JsonInclude*, any set of files and any include graph, cyclic ones too.
    `FramesSound` says that the files on the stack are different and touched.
    What a successful call has read is a set closed under inclusion, found only
    at its end: `Progress` says that while the call goes on there is a set of
    files already read to the end (`ReadToEnd`), which has every include that is
    neither still to come nor being read. It grows as a file is popped, and no
    counting is needed. `IncludesExactHolds`.
  - *JsonObj*, any object and any sequence of accessor calls. `Bookkeeping` says
    that "_knownkeys" are the keys asked for; "nil means clean" is not inductive
    without it. `ValidateExactHolds`.
* **`PoolProofs`**: each primitive of `syncutil` by itself (`SemSound`,
  `GateSound`, `OnceSound`, `GroupSound`), Sem and Gate as implementations of
  `Semaphore` (safety), and then all of them in a pool of any number of workers.
  `Held` is the set of units in use; `Conservation` compares `free` with its
  cardinality, and `NoLostWakeup` is inductive because Release broadcasts.
  `GateInv` says that the channel has one element for each running goroutine,
  `OnceInv` that `ok` counts one success from when `f` returns to the store of
  `done`, `GroupInv` that `wg` is the number of goroutines whose `wg.Done` is due.
  `PrimitivesKeepInv` carries these over to the pool; `WorkerInv` ties a worker's
  place in its function to its places in the primitives and gives
  `AccountedHolds` and `SetupAndErrsHolds`. There may be infinitely many
  goroutines: the sets that are counted stay finite.
* **`SortProofs`**: for slices of any length. `Bounds` orders the indices of one
  doPivot in every loop, whatever Less answers; with an ordered Less, `Elements`
  says what each segment of the slice contains and gives `LoopInvariantHolds` and
  `PartitionedHolds`. The bounds do not depend on what `data` holds, so that they
  also hold in every doPivot of a Sort, after any heapSort or insertionSort
  (`SortInRangeHolds`, `SortPartsSmallerHolds`). `SortInv` adds quickSort's stack:
  the slices of its calls lie in `data` and do not overlap (`SlicesHold`), and
  from each call to the next the number of elements can be halved
  (`StackHalvesHolds`, the comment's "stack depth of at most lg(b-a)"). The
  assumption on the thresholds (`LimitsAssumption`) holds of the code's 12 and
  40. For Search, the probe lies in the range although the sum of the ends would
  overflow, for every width of int, and the result is the first index of a
  monotone predicate (`SearchExactHolds`).
* **`UtilitiesProofs`**, over the specification that exercises one part at a time:
  - *RWMutexTracker*, any number of goroutines. `Counters` says that each atomic
    counter is the number of goroutines in certain places of the code, `Mutex`
    that the mutex has its writer or its readers, `Holders` what `hmu` protects,
    `Depths` that a second read lock is not reached before `log.Fatalf` as long
    as no read lock was handed over (`handed`), and
    `Reported` that the writers a goroutine has not warned of came late.
    `TrackerExactHolds`, `DeadlockReportedHolds`. Assumes finitely many
    goroutines.
  - *TokenCache*, any number of processes and tokens. `CacheInv` says what each
    place in `Token` implies for a process's variables (`TokenStep`), what may be
    in the file or object (`OnDisk`: a token as it was marshalled, or cells that
    do not unmarshal, unless writes met), and that a process that met no write
    has the file to itself (`Alone`). `OverwriteWhole` is the reason why a shorter
    token over a longer one is no mixture: what sticks out does not unmarshal.
    `TokensSoundHolds` is an action property that follows from it.
  - *Window*, any N and any sizes of Writes. `SaverInv` says where in the stream
    each byte of `suffix` comes from, by its distance from `suffixOff` (`Age`);
    `SaverExact` alone does not determine `suffixOff`. `NumbersAfter` and
    `WhereFrom` are the arithmetic of one Write, in which bytes may go to the
    prefix, be passed over, find room in the suffix and overwrite it at once.
    `RollInv` says where the window has its bytes. `RingsExactHolds`.
  - *ZipRead*, any number of handles, flate readers and Closes, and any entries
    that `EntryAssumption` allows: the CRC is that of the data or absent without
    a descriptor, and is not itself the signature of a descriptor, which the
    code could not tell from one. The raw stream may be cut off or spoilt
    anywhere. `ZipInv` has three parts for a handle: which places of the two
    goroutines go together with which fields (`Handling`), what has been
    returned as long as there is no error (`Returned`), and, of a whole stream
    that nobody has closed, how many cells of the body were read, what is left
    in the raw reader and that what came out is what they stand for
    (`WholeStream`, `Progress`); and `Owners` for the pool. `HandlesSound` and
    `BodyExact` follow, neither being inductive: that io.EOF comes after all the
    data is decided when the LimitReader is set up, and again when the
    descriptor is read from what the body left. `FlattenConcat` shows what
    `FlattenSeq` makes of two reads in a row. `EntriesSoundHolds`.
* **`BmffReaderProofs`**: for every input, buffer size and seeker, the position
  is that of the bytes consumed (`PosIsExact`), and a box begins where its
  offset says (`OffsetIsExact`). `IInv` relates three positions: the underlying
  reader's, the buffer's and the one `ReadBox` believes in; when a header is due
  the last body has been used up (`AtHeader`). `BoxesExactHolds` adds that the
  boxes returned so far, followed by the list of those of the rest of the input,
  are the list of the whole input.

Two of these need an induction over data: that the recursive function behind
`Boxes`, and the one behind `FlattenSeq`, exist and unfold. The provers cannot
instantiate the library's induction theorems, whose parameter is an operator;
`WFMin`, that a set of numbers that is not empty has a least element, has none.
The proofs take the least number for which the claim fails, and show that it
does not (`ListExists`, `FlattensExists`, `FlattenConcat`).

### Only model-checked

* Liveness: `DoReturns`, `NothingStuck`, `StaleIsRecovered`, `WaitReturns`,
  `NobodyStranded`, `UpdateNoticed`, `Returns`, and the liveness part of
  `ImplementSemaphores`.
* `JsonEval` and `BmffParse` with `Heif` (`EvalExact`, `FileExact`, `RoundTrip`):
  the code is recursive over trees and the modules use RECURSIVE operators, which
  the prover does not take.
* `ZipToc` (`TocExact`), `ByteReplacer` (`ReplaceExact`) and `Readers`
  (`ReadersExact`) in `Utilities`. They compare the code with what the writer of an
  archive meant, with the replacement into a fresh slice, and with the
  concatenation of the parts; each is an induction of its own over records, a
  trie or parts, and has not been tried.
* In `ResultsExact` of `Sort`: that heapSort and insertionSort sort, and so that
  Sort does (`Sorted`), that `StableSort` is stable, and the power of two in
  `StackDepth`, all of which are inductions over the folds of `SortOps`.

## 5. Where code and documentation disagree

The run `ThrottleRate` ends with a violation. `Throttle!RateLimited` says that
the writes so far have taken as long as the rate asks for. `throttle.go:36`:
"byteTime returns the time required for n bytes." The quotient is truncated to
whole seconds before it is multiplied (line 41): chunks of 1400 bytes take no
time at rates above 1 KB/s, and the connection is not throttled at all.

The following properties also state what a comment says and what the code does
not keep. They are defined in the modules and in no `.cfg`; add one to the run's
`.cfg` to see TLC's trace. Those of instantiated modules need a name in the
run's module (`Eval!NoPanic`, `Portable!MutualExclusion`), and
`DownLimitsWrites` needs `UpKBps = 0` and a request of 9800 bytes.

* `SingleReader!HeldPathIsShared`. `opener.go:69`: "Open opens the given file
  path for reading, reusing existing file descriptors when possible." Two
  goroutines that both missed in the map (line 73) may run `openerGroup.Do` one
  after the other; the second opens the path again and overwrites the entry.
  The counts stay right, as the proofs show.
* `LockBase!MutualExclusion` of lockFcntl. `lock.go:31`: "The lock is an exclusive lock (a
  write lock)". Close unlinks the path before it closes the file (line 184). A
  process that opened the file before the unlink locks the old inode after the
  close, and another creates and locks the new one. `ExclusiveUntilUnlink` is
  what holds.
* `LockBase!MutualExclusion` of lockPortable, same text, where a pid can be probed.
  The stale file is removed by name (line 78) after it was read: two processes
  that both saw it are one too many, as the second removes the file the first
  has created. Any error of `Signal` means stale (line 131): the owner may also
  be alive and another user's. `PortableExclusive` is what holds. Where
  `signalZero` is nil exclusion is complete, and the price is that the file of a
  dead owner keeps the path locked for good, as lines 68-69 concede. These are
  the builds whose `Lock` calls lockPortable: `lock_sigzero.go` and `lock_unix.go`
  have one build constraint.
* `PortableLock!EmptyFileLockable`. `lock.go:29`: "If the file already exists,
  it must have zero size or an error is returned." The portable lock creates
  with `O_EXCL` (line 83) and fails on an empty file, too.
* `Utilities!FooterSuffices`. `ziputil.go:107`: "When the footer is found, the
  function reports ok=true and the total suffix size needed to read the zip's
  table of contents." What is not in the footer reads as zeros: when bytes lie
  between directory and end record, the look at the presumed directory start
  sees zeros and the wrong base is chosen; and a footer without the zip64
  locator is taken for one of a file that has none. `ParseTOC` of that suffix
  then reports an error, never a wrong table (`TocExact`).
* `Throttle!DownLimitsWrites`. `throttle.go:46`: "Down Rate // server Writes to
  Client". `writeLoop` sleeps by `Up` (line 97).
* `CloudLaunch!UpdateDeployed`. `cloudlaunch.go:98`: the policy restarts on
  updates. The first ETag seen is taken for that of the running binary (line
  225): an upload between the download and the first poll is never deployed.
* `JsonInclude!CycleMeansCycle`. `eval.go:98` promises an error for cycles;
  `touchedFiles` (line 105) is never unset, so that a file included twice side by
  side, or read twice with one parser, is called a cycle.
* `JsonInclude!IncludeNoPanic`. `ConfigFilePath` (line 87) asks for the last of an
  empty stack (line 294) when the first document has no path; `CheckTypes`
  leaves `touchedFiles` nil, and an include writes into it (line 109).
* `JsonObj!AccessNoPanic`. The accessors assert the types of "_knownkeys" and
  "_errors" (`jsonconfig.go:244`, `:250`, `:289`), which a file may contain
  although keys with an underscore are comments (line 269).
* `JsonEval!CheckLeavesObject`. `eval.go:203`: "populating it with the values that
  are found, unless testOnly is true". `CheckTypes`, which is testOnly, replaces
  expressions inside lists, as `evalValue` writes into them (line 192).
  `CheckKeepsOutsideLists` is what holds.
* `JsonEval!NoPanic`: `sl[0]` of an empty list (line 178). `JsonEval!ExpandsAll`:
  `jsonconfig.go:32` "expanding all expressions"; objects inside lists are not
  descended into (line 174). `JsonEval!CheckFindsAll`: `eval.go:197` "returns an
  error if it encounters a type or value that is not supported"; the type switch
  (line 226) does not see the elements of lists.
* `Heif!EXIFExact`. `heif.go:127`: "EXIF returns the raw EXIF data from the file."
  Lines 148-162 look neither at the construction method nor at the data
  reference, and let the base offset and the extent's wrap: for an item that is
  in idat, in another file or at an offset that overflows, EXIF returns whatever
  bytes the file has there. `Item.Data` refuses such items (`DataExact`).
* `RWMutexTracker!FatalMessageTrue` (`Tracker!` in `Utilities`). `syncdebug.go:170`:
  "Recursive call to RLock". `RUnlock` deletes the goroutine that calls it from
  `holdr` (line 185). After another goroutine has released a read lock, as
  `sync.RWMutex` allows, the one that took it is still listed, and its next RLock
  ends the program. `FatalMeansRecursive` is what holds.
* `Heif!MetaErrKept`. `heif.go:43`: "Populated lazily, by getMeta". `setMetaErr`
  (line 394) stores an error only if one is stored already, so that none ever is
  and every call reads the file again.

Differences that no property states, or that a property takes into account:

* `syncdebug.go:146`: "Catch read-write-read lock". The two counters are read one
  after the other (line 150) before `mu.RLock` (line 157). A writer that comes in
  between is missed, and the deadlock happens unreported; `DeadlockReported` says
  that this window is the only one.
* `heif.go:154` limits EXIF to `20 << 10` where the comment says 20MB; `bmff.go:94`
  says that Parse returns nil when called again, it returns the cached box;
  `heif.go:467` has "known" for "unknown"; the parser of infe peeks at the item
  type without discarding it, so that the name starts with the type.
* `ziputil`: a comment that contains a whole end record is taken for the end of
  the file, and the table of contents is that record's, an empty one for example
  (`TocExact` excludes such files). `readDirectoryHeader` promises
  `io.ErrUnexpectedEOF` (line 360) and returns `io.EOF` when the file ends
  exactly after the fixed part. `checksumReader.Close` drains the raw reader
  (line 898), which `setErr(io.EOF)` has closed already (line 854) if the entry
  was read to its end.
* `multiRA.ReadAt` drops the bytes of a part that returns them with `io.EOF`, as
  `io.ReaderAt` allows (`multireaderat.go:76`), and fails with `io.EOF` on an
  empty `bytes.Reader` among its parts. `bufReaderAt` is not safe for parallel
  calls of `ReadAt`, as `io.ReaderAt` asks.
* `bytereplacer.go:69` allocates "if the capacity of s is not sufficient"; room
  that earlier replacements have freed is not counted (line 249).
* `PrefixSuffixSaver` with `N = 0` returns nil without the message that bytes were
  omitted (`writerutil.go:83`). `RollSum.OnSplit` asks for bits "set the same way"
  (`rollsum.go:61`) and accepts ones only.
* `gcsFS.OpenFile` with `O_EXCL` asks whether the object exists and then creates
  it (`gcs.go:159`): two processes may both succeed. `gcsFS.Open` asks for a size
  and then reads as much: an object replaced in between is cut off, and then
  does not unmarshal. On the operating system's files, a token read while
  another process writes may have parts of both.

## 6. Plan

Done: the concurrent packages (`singleflight`, `singlereader`, `lock`,
`syncutil`, `syncdebug`, `throttle`), then `cloudlaunch`, `jsonconfig`, `sort`,
`media/heif`, then `ziputil`, `readerutil`, `writerutil`, `rollsum`,
`bytereplacer` and `oauthutil` with `wkfs`; the proofs above.

What is left to prove is listed under "Only model-checked" in section 4: first
`ReadersExact`, whose parts are a sequence like the cells of `ZipRead`, then the
sortedness of `SortOps` by the same least-counterexample argument, then
`TocExact` and `ReplaceExact`. What is left to model is listed under "Packages
without one" in section 1.
