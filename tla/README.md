# Formal models of coltt

coltt is a vector database in Go. One binary (`cmd/root/main.go`) serves one of three engines over
gRPC: `core` (HNSW graphs, persistent documents), `edge` (flat, in memory, flushed to disk) and
`experimental` (several vectors a document). `core` keeps its documents in `diskv`, a log-structured
key-value store over a write-ahead log.

This directory holds TLA+ models of that code, configurations that check them with TLC on small
instances, and proofs, checked by TLAPS, that hold for every instance. Every definition is translated
from the source; `PROJECT.json` names the lines for each.

## 1. Inventory

| component | state | operations | what is hard |
|---|---|---|---|
| **diskv** store (`diskv/db.go`, `batch.go`, `record.go`) | log on disk, index in memory, `db.mu`, batches from a pool | Open, Close, Sync, NewBatch, Put, Get, Delete, Exist, Commit, Rollback | atomicity of a batch over crashes; isolation by a lock held for the life of a batch; fsync options; failing writes; a torn tail |
| **diskv merge** (`diskv/merge.go`) | merge directory, HINT, MERGEFIN, `mergeRunning` | Merge(false), Merge(true), loadMergeFiles, loadIndexFromHintFile | a background rewrite against concurrent writes; a swap of files that can be interrupted; a second merge |
| **diskv watch** (`diskv/watch.go`) | ring of events, channel, a sending goroutine | putEvent, getEvent, sendEvent, Watch, Close | overflow, order, liveness of delivery, a send on a closed channel |
| **WAL** (`pkg/wal`) | segment files, block counters, pending writes | Write, WriteAll, Read, Reader.Next, Open, OpenNewActiveSegment, Sync | byte arithmetic at block ends; counters recomputed after a restart; rotation |
| **snowflake** (`pkg/snowflake`) | clock, step | Generate | an id drawn twice; a clock set back |
| **HNSW** (`core/vectorindex`) | vertices in sharded maps, levels, edges, entrypoint | Insert, Remove, Search, Commit, Load | fine-grained locks and compare-and-swaps; one-way edges after pruning; removal of the entrypoint; snapshots |
| **core collections** (`core/*.go`) | CommitLog (diskv), graphs, indexes, loaded and existing flags, snapshot files | Create, Drop, Load, Release, Insert, Update, Delete, three searches, exit | check-then-act on names; several stores changed without a transaction; snapshots older than the log |
| **bitmap indexes** (`pkg/index`, `pkg/inverted`) | shards of postings | Add, Remove, searches, save, load | a shard deleted while another goroutine adds to it; a lock that a panic keeps |
| **edge** (`edge/*.go`) | vertices in sharded maps, postings, flags; a bucket with three objects a collection | collection calls, ChangedVertex, RemoveVertex, searches, flush, load | check-then-act on names; a save in three objects, each from another moment; values that cannot be saved, or be keys of a map; vectors of another dimension |
| **experimental** (`experimental/*.go`) | as edge, several vectors a vertex | as edge | as edge; a read lock that an error path keeps |
| servers (`cmd`, `root_layer`) | none | start, stop, forward calls | the order of the steps of a stop |

Interactions. A gRPC handler of `core` checks its two flag maps, changes the bitmap index, the graph and
the CommitLog in that order, and answers over a channel; there is no lock around the whole. `diskv` calls
the WAL under `db.mu`, hands events to the watch ring under the same lock, and drops the lock during a
merge. A graph is written to a file by `ReleaseCollection` and at exit, and read by `LoadCollection`. `edge` and
`experimental` have no log: what they keep is what `CreateCollection`, `Flush`, `ReleaseCollection` and `Close` put into MinIO.

What makes each component correct: *diskv* - a batch is visible as a whole or not at all, in every
reader and after every crash, and durable when it said so; *merge* - reads do not change; *watch* - no
reordering, the newest event is delivered; *WAL* - writer, file and reader agree on every position; *HNSW* -
levels and degrees fit, what is stored can be found, a snapshot answers as the graph did;
*collections* - documents, postings and vertices agree, and the calls on names are linearisable;
*bitmap indexes* - no posting is lost; *edge* and *experimental* - what was acknowledged is found, what was flushed
is in the bucket, and no call waits for ever.

## 2. Modules

| module | models | instantiated by |
|---|---|---|
| `Diskv` | store, log and index, locks, crashes, reopening | `MCDiskv` |
| `DiskvInv` | the inductive invariant of `Diskv`, and the mapping to `KVStore` | |
| `KVStore` | what the store promises: a map and its versions | `DiskvInv`, as a refinement |
| `DiskvProofs` | proofs: lemmas on logs, the invariants, the refinement | |
| `DiskvMerge` | merge, swap, load from hint | `MCDiskvMerge` |
| `DiskvMergeProofs` | proofs about it | |
| `DiskvWatch` | the watch ring and its sender | |
| `WalSegment` | the byte layout of the log | |
| `WalSegmentProofs` | proofs about it | |
| `Hnsw` | the graph index | `MCHnsw` |
| `HnswProofs` | proofs about it | |
| `Collections` | the collections of `core` over log, graph, index, files and flags | `MCCollections` |
| `CollectionsProofs` | proofs about it | |
| `VectorStores` | `edge` and `experimental` over an object store | `MCVectorStores` |
| `VectorStoresProofs`, `VectorStoresPromises` | proofs about it: its flags and types; what it acknowledged and saved; what a search answers | |
| `ResultQueue` | the bounded queue in which a search of theirs collects its answer | `VectorStores` |
| `QueueProofs` | proofs about it and about `DiskvWatch` | |

**Diskv.** The log is a sequence of records, a batch is its records and a mark that ends it, under an id
of snowflake (a millisecond and a step). `NewBatch` takes `db.mu`; `CommitWrite` is `WAL.WriteAll`, one
write(2) for the batch and its mark; `CommitIndex` is the fsync, the index update and the deferred unlock;
between the two the process may die. `Open` and `LoadRecord` are the scan, one record a step: records wait
under their id until their mark is read. Faults are enabled one by one by the constant `Faults`:
the process dies, dies inside a write, the machine dies and loses a tail that was not fsynced, a chunk is
torn, a write or an fsync fails and the process goes on. `torn` says where Open will meet bytes that it cannot read: the part of a
chunk that a crash or a failed write left, or a chunk that is not where it should be because the counters lag behind the file (`Misplaced`);
there `LoadFails` ends every opening. A batch is used as `db.go` uses it, ended once. Segments matter only as the
limit of a batch's size; expiry is left out.
`hist` records, for every length of the log, the map it stands for, so that properties can speak of what was
committed; the actions never read it.

**DiskvMerge.** A write is one record here: that batches are atomic is what `Diskv` shows. Segments are
sequences, the data directory and the merge directory are separate, and every step of `doMerge`,
`closeFiles`, `loadMergeFiles` (one segment file a step) and `loadIndex` can be the last one before a
crash. Two goroutines call Merge.

**DiskvWatch.** The ring with its two indices modulo the capacity, the goroutine that takes an event and then
waits for the channel, the reader, and Close.

**WalSegment.** Bytes are counted, not stored. A chunk says which part of which record it carries;
`Cut` is one turn of the loop that cuts a record; `ReadInternal` follows chunks as the reader does, and fails on a place where no chunk starts.

**Hnsw.** A vector is a point of a line and the points are a Golomb ruler, so that closest vertices are
unique. `searchLevel` meets everything that can be reached, as it does while a store is smaller than ef
(20 and 200 by default), and both search algorithms then select the closest. Steps are those at which
goroutines really interleave: storing, the compare-and-swap, reading the entrypoint, one level of links,
the comparison and the raise of the entrypoint; marking, handing on the entrypoint, one level of unlinking.
The locks of single vertices within a level are below this grain, so an edge lost between the read
and the set of `pruneNeighbors` is not seen. An update reuses the id of the vertex it removes; here
every vertex has its own.

**Collections.** `work` says for every goroutine what it is doing and how far it is; between two steps every other goroutine may
move. A step is one call to the log, the graph, the index, a file or a flag. The log is three variables (configurations, the list of names,
documents), each written by one `Put` or `Delete`, which is what `Diskv` promises; the graph is a set of documents, the
index a set of postings. `Matching` says for which names the pattern `name_` of `diskClear` finds keys (it is
a regular expression without an anchor, so that `b_` matches `ab_1`). `frozen` is `db.mu` held by a
reader that waits for itself. `born` tells a graph from the one a load put in its place, because `Update` and
`Delete` keep a pointer. A panic ends a call where it is. The index has two columns. `index.Remove` drops a column that it found empty after it gave
the column's lock back (`DropColumn`): what others posted there in between goes with it, and a call that had already looked the column up posts
into one that nobody reads any more; `columns` has what each call is still to drop or has missed, `lost` the names whose index lost a
posting so. `Hnsw.Commit` reads the graph without its locks: `walk` has the vertices that were there all the while it ran and those that were there
at all, the file has the former and any of the latter (`Snapshot`), or cannot be read, and `mixed` has the names whose graph changed meanwhile. The
file of an empty graph is a header only, and does not load. Four more history variables carry the promises:
`promise[n].calls` are the calls that started on a loaded collection that no admin call was changing, `acked`
what they acknowledged, `saving` and `kept` what a release was and is answerable for; a call that touches a document withdraws
what was promised of it. `exposed` holds names for which calls overlapped that the code does not order, `spoiled` the keys
that two calls changed at once or whose last step failed.

**VectorStores.** The two servers have the same handlers over the same three objects, so they are one module, and
`mode` says which of them runs, as `-mode` does. A space is what a collection has in memory; a new one is appended to `spaces`
and `space[n]` names the current one, so that a call that began with an old space goes on working on it. Inside
edge's space the vertices lie in `MapShards` maps, each under a lock of its own, and the column of the
inverted index is a shard that is made on demand and dropped when empty; `shards` keeps the dropped
ones, which a call may still hold. `Odd` are metadata values that
`writeValue` refuses (null, for instance), and `Lists` those among them that cannot be the key of a map. `leaked` are the locks that nobody gives back: of
a map, kept by a failed save of `experimental`, or in `edge` by a search whose vector has another dimension (`SearchKeepsLock`, the fault `"dimension"`); of a
shard, kept by an `Add` that panics on a list or an object (`ChangePanics`). A save that waits for such a shard has the index locked for readers, so that who would drop
a column waits behind it, and who looks one up behind that (`SaverWaits`, `CanDrop`, `CanFind`). A change of edge always inserts: `indexDesignAnalyze` never copies `PrimaryKey`, so
the search for an old vertex (`none_vectorstore.go:66-79`) finds none. `torn` marks a collection for which a column was
dropped while it was in use. A search reads a filter's ids and then map after map, or, with `highCpu` and always in `experimental`, a
goroutine for each map does, in any order; `sought` is what was acknowledged when it began. A distance is a number of the vertex (its id), and
`ResultQueue` keeps the greatest `TopK` of them, as the heap with the smallest on top does. In a space that a load is
still filling there is no lock to take: the goroutine of a call recovers from that (`SearchFails`), the goroutine of a map does not, and
the process dies (`SearchPanics`).

*Assumption of both.* In the passing runs calls on collections (create, drop, load, release, flush) wait for each other
(`OneAdmin`), while calls on documents overlap them and each other freely: nothing in the code orders two calls on the same name,
and with `OneAdmin = FALSE` `Served` fails in both modules (the loser of two creations clears what the other made; `saveCollection`
loses a name). `GracefulStop` waits for handlers for ten seconds at most (`cmd/root/main.go`); they are taken to end by then.

## 3. Runs

| run | instance | shows |
|---|---|---|
| `diskv_core` | 2 keys, 2 values, 2 clients, 4 records, 3 openings, all crashes | `TypeOK`, `IInv`; reads answer the last commit, synced commits survive; the store implements `KVStore` |
| `diskv_failures` | 2 keys, 1 value, 2 clients, segments of 2, 4 records, 2 openings, all faults | what a reader sees is frozen while it reads, and what was acknowledged within Open's reach stays there, whatever fails |
| `merge_core` | 3 keys, 2 values, 2 merges, segments of 2, 4 writes, 4 segments, 3 openings | nothing is lost, MERGEFIN tells the truth, merged data fits, merged once |
| `merge_ends` | 2 keys, 1 value, 2 merges, 2 writes, 3 segments, 2 openings, all faults | a merge that begins ends, and gives `mergeRunning` back |
| `watch_ring` | capacity 4, channel 2, 8 events | the newest events are queued, in order, the newest is delivered |
| `wal_layout` | blocks of 7, headers of 2, segments of 30, 4 records of 10 sizes, 3 files (`OpenNewActiveSegment` also rotates an empty one) | writer, file and reader agree; chunks do not overlap; segments are bounded |
| `hnsw_graph` | 2 goroutines, 4 vertices on 2 levels, m = 2, one overlap, 2 removals | levels fit, degrees are bounded, small indexes are exact (while changes do not overlap, or while they only insert), snapshots keep answers |
| `collections` | core: 1 name, 2 "_id"s, 2 tags, 2 goroutines, 2 ids, 4 calls on collections and 2 on documents, or 2 and 3, 2 starts, all faults | handlers never miss what the flags promise; log, graph, index and files agree when quiet; acknowledged documents are found; released ones are in both files |
| `stores_core` | edge and experimental: 1 name, 3 tags (a string, a null, a list), 2 goroutines, 2 maps, 3 calls on collections, 3 on vertices, searches for 1 vertex among them, of the right dimension and another, 2 starts, all faults (4 calls in all with a list, or with a lock that edge has lost) | the same for flags and spaces; acknowledged vertices are found, and in edge by filter; searches of experimental answer the greatest scores among them, those of edge miss none while they answer less than they may; flushed ones survive; a call waits for ever only for a lock that a failed save of experimental or one of two panics of edge kept, or behind a call that does |

Three more runs show that the code does not do what its comments or documents say. Each checks one
property and TLC finds it violated:

- `edge_order` - a search of `edge` answers the vertices that are farthest away: its queue (`edge/priority_queue.go:41`) is the one for
  likenesses and holds distances, against `experimental/multi_priority_queue.go:27-30`, which says that low scores need the other heap.
- `core_drop` - `DropCollection` of a collection with a document waits for itself, under the lock of the log.
- `merge_swap` - a crash while merged segments are moved makes the next Open delete those moved already.

Other schedules that violate a property can be seen by changing a constant of a configuration:

- `diskv_core`: `OptSync = TRUE` (`SyncedCommitsSurvive`: `batch.go:312` leaves the fsync to the log, whose `WriteAll` does none, so that a crash of the
  machine takes a batch that was acknowledged, against "Sync being true means write followed by fsync", `options.go:43`); `"io"` (`SyncedCommitsSurvive`: a write that fails half
  way leaves part of a chunk in the file, which is open for appending, and `segment.go:308` only sets the counters back, so that batches committed with Sync behind it
  are out of the reach of the next Open; `ReadsLatestCommit`: the positions that Commit indexes after it are wrong).
- `merge_core`: `"remerge"` (a crash in a second merge lets the next Open replace the good HINT by an unfinished one, `merge.go:303`) or
  `"overlap"` (`NothingLost`), `"close"` (`FinishedMeansMerged`).
- `watch_ring`: `Capacity = 1` or `2` (nothing is delivered).
- `hnsw_graph`: overlaps allowed in `DegreeBounded` or `ExactWhenSmall` (a removal beside an insertion can leave a vertex that nothing reaches); with six vertices and `MMax0 = 4` removals by one goroutine reach a nil
  entrypoint beside live vertices (`hnsw.go:216`), and `Commit` then fails.
- `collections`, `stores_core`: `OneAdmin = FALSE` (`Served`), as said above: in `edge` the loser of two creations deletes what the winner created (`edge.go:178-184`).

Read off the models without a run of their own: when the process dies inside write(2), no later Open of `diskv` succeeds (`LoadFails`, `db.go:516-521`), against "if it
is just the process that crashes ... no writes will be lost" (`options.go:40`). In `core` a name that was dropped cannot be created again in the same process,
because `DropIndex` is never called and `CreateIndex` refuses; a collection whose process died before its first
release, or that was empty at it, cannot be loaded, because there is no `.raw` file, or no entrypoint in it; a missing `.bin` file is taken for an empty index; a release that runs beside an
`Insert` can save a posting without its vertex. In `experimental` a creation that is refused because the name exists
destroys the collection, and `DeleteCollection` of one that is not loaded leaves its flag. In `edge` a null in the metadata makes
every save fail after the release has dropped the flag, and `Close` then puts empty objects in the place of good ones: `FlushedSurvive` excepts
this, and says that nothing else loses what was saved. A list or an object in the metadata of a vertex of `edge` closes its column for good, and a search of another dimension,
with the native kernel, a map or the process. `offset` skips none of the vertices that a search of `edge` asks for (`edge.go:648-672`). A search that
overlaps a release and a load ends the process, as said in section 2. A segment file can outgrow `Options.SegmentSize`, "the maximum size of each segment
file in bytes" (`diskv/options.go:33`): `maxDataWriteSize` counts a header for every 32 KB of a record, but a chunk carries seven bytes less than that (`wal.go:504`).
`SegmentsBounded` says by how much: a record a little shorter than a block, by seven bytes.

**Bounds and why they are enough.** Keys: two, because every property relates one key to another or to
itself; three in `merge_core`, so that merged records fill more than a segment. Clients: two, the lock has only holders and others. Four records are two batches of one
write, or one of three with its mark, so a crash falls before, in and after a batch that follows another, and three openings let a
crash follow a recovery. Merges: two goroutines, and a third opening so that a merge follows a merge. Ring: capacity
4 wraps twice within 8 events. WAL: the sizes reach from one byte to more than a block, with every remainder
that a header can leave, and to a record that takes a segment of its own; four records roll a segment over. HNSW: four vertices with m = 2 are the least with
pruning on level 0 (`MMax0 = 2`; the default, twice m, needs six).
Collections and stores: three calls on collections make a create, a release and a load, or a create, a restart and a load
with a flush, and a fourth a second release. Two on documents make an overlap, and three one beside what is already there, such as
an insert into the column that a removal of the only other document leaves empty, or two calls that wait behind a lock that a third one lost; two ids are one that may be harmed by calls on another, and two
maps let a save stop after the first, and a search drop in one what it needs not in the other, with answers of one vertex (a filter asks for no value that cannot be saved). A second name is taken only where names meet (`core_drop`): no other step of a name reads what belongs to another.
TLC explores each instance completely; `collections` and `stores_core` state part of their bounds as a constraint (`Bounded`), and what lies beyond it is left to the proofs.

`CHECK_DEADLOCK FALSE` everywhere: every counter is capped (`MaxLog`, `MaxOpens`, `MaxEvents`, ...), so that
every behaviour of the model ends; a torn log and a panic end the program itself.

**Fairness.** Only `watch_ring`, `merge_ends` and `core_drop` state any. The sender is a loop without an exit
that polls every 100 ms, so its steps are weakly fair, and the delivery property is about a user who goes on reading. A merge runs in
a goroutine, so its steps are weakly fair; where it takes `db.mu`, which clients take and give back for ever,
strong fairness is what Go's mutex gives: a waiter that starves gets the lock handed over. No client is
fair: it may stop at any point. A handler of `core` is a goroutine that goes on by itself once it began. `CallsGoOn` is an invariant and assumes no fairness: of any calls none of which
can go on, one waits for a lock that is lost (`WaitsForLost` names the three ways) or for a call that is not among them. So no calls wait for each other in a circle, and since each call has
finitely many steps, all but those that wait for a lost lock, or behind one that does, can end.

## 4. Proofs

Eight modules prove, for any sets of keys, values, names, points, clients and goroutines, any sizes of blocks and segments, any bounds, and the faults named:

| module | theorem | property | assuming |
|---|---|---|---|
| `DiskvProofs` | `TypeCorrect` | `TypeOK` | nothing |
| | `WriterAlone` | `OneWriter`, which no run checks | nothing |
| | `Invariance` | `IInv` | no write and no fsync returns an error |
| | `ReadsCommitted` | `ReadsLatestCommit` | the same |
| | `ReadersFrozen` | `FrozenView` | nothing |
| | `Durable` | `SyncedCommitsSurvive` | no write and no fsync returns an error; `Options.Sync` off |
| | `HarmNotSpread` | `AckedOutOfHarm` | `Options.Sync` off |
| | `ImplementsKVStore` | `RefinesKVStore` | no write and no fsync returns an error |
| `DiskvMergeProofs` | `MergeTypes` | `TypeOK` | the process dies only as in `OnlyProcess` |
| | `MergesLoseNothing` | `NothingLost` | the same |
| | `FinishedIsMerged` | `FinishedMeansMerged` | the same |
| | `MergesFit` | `MergeFits` | the same |
| | `MergesOnce` | `MergedOnce` | the same |
| `QueueProofs` | `WatchTypes` | `TypeOK` | nothing |
| | `RingHoldsNewest` | `NewestQueued` | the capacity is not 1 |
| | `UserSeesOrder` | `InOrder` | nothing |
| | `AddKeepsTop` | what one push to a search's queue keeps | nothing |
| | `MergeKeepsTop` | what merging the queues of two maps keeps | nothing |
| `WalSegmentProofs` | `WalTypes` | `TypeOK` | a block is longer than two headers, no record is empty |
| | `CountersAgree` | `CountersMatchFile` | the same |
| | `ChunksDoNotOverlap` | `ChunksApart` | the same |
| | `WritersAreRead` | `ReadersMeetWriters` | the same |
| | `SegmentsStayBounded` | `SegmentsBounded` | the same |
| `HnswProofs` | `HnswTypes` | `TypeOK` | `m` is not above `mMax`, `mMax0`; no two pairs of points are equally far apart |
| | `LinksFitLevels` | `EdgesFit` | the same |
| | `DegreesBounded` | `DegreeBounded` | the same |
| | `SmallIsExact` | `ExactWhenSmall` | the same |
| | `SnapshotsKeepAnswers` | `ReloadKeepsAnswers` | the same |
| `CollectionsProofs` | `CollectionsTypes` | `TypeOK` | nothing |
| | `LoadedIsServed` | `Served` | calls on collections do not overlap |
| | `AckedAreFound` | `AckedFound`, with what it excepts (below) | the same; a missing or torn file is no set |
| | `ReleasedAreKept` | `ReleasedSurvive`, with what it excepts | the same |
| | `AllAgree` | `Agree`, with what it excepts | the same |
| `VectorStoresProofs` | `StoresAreServed` | `Served` | calls on collections do not overlap; `NoBucket` is no bucket |
| | `StoresTypes` | `TypeOK` | `NoBucket` is no bucket; a field has finitely many values, and at least one |
| `VectorStoresPromises` | `AcknowledgedAreFound` | `AckedFound` | the same; a missing or unreadable object is no set |
| | `FlushedAreSaved` | `FlushedSurvive` | the same |
| | `AnswersAreTop` | `AnswerIsTop` (experimental) | the same; a field has finitely many values, and at least one |
| | `AnswersAreWhole` | `AnswerIsWhole` (edge) | the same |

The assumptions are needed: `"io"`, `OptSync = TRUE`, `Capacity = 1` and `OneAdmin = FALSE` give counterexamples
without them (section 3). `OnlyProcess` lets the process die at every step of writes, of openings and of a merge of a store that was not merged before, and leaves out the four faults
`"swap"` (dying while files are moved), `"remerge"` (dying in a merge of a store merged before), `"close"` (a Close during a merge)
and `"overlap"` (two merges at once); each of them alone has a counterexample of `NothingLost`.

*The store.* `ReadsLatestCommit` is not inductive: it says nothing of a batch that is written and not indexed, of
a scan in progress, nor of what is in the log without a mark. `IInv` adds four parts. `LockInv`: who is in a batch
holds the lock in its mode. `LogInv`: the log consists of whole batches but for those a crash
cut short, whose ids no later batch draws, because opening takes longer than a millisecond. `HistInv` ties the history to
the log: the value of a key is that of its last write that has a mark. `IndexInv` and `ScanInv` say the same of the index
of an open database, of one with a batch in mid-commit, and of a scan that has read a prefix. Each action
preserves each part (`LockStep`, `DataStep` with one lemma an action); the lemmas about logs they share (what appending
a batch, cutting a tail or reading one more record does to "the last ended write of a key") are the
first part of the module. `TypeStep` gives the types. `OneWriter` and `FrozenStep` follow from `LockInv` alone, which needs
no condition. `Durable` has two invariants of its own: `SyncInv`, that what was acknowledged was synced, and what was synced is in the log, and `TornInv`, that only the tail of the
log can be cut short and an open database has read all of it, which a failed write makes false. `HarmNotSpread` keeps of this only that no step takes from the log what was
synced, nor puts damage ahead of it.

*The refinement.* The abstract state is read off `hist` and `synced`: the versions of the map, and how many of them a crash may
not take (`Past`). A `CommitWrite` appends a version, a crash cuts some off, everything else
stutters. A crash maps to a step of `KVStore` only because what is durable is a prefix of the log (`SyncInv`), and a reader's view maps to the newest version
only because of `IndexInv`. `NilAssumption` keeps "no value" apart from the values.

*The merge.* `NothingLost` speaks of an open database; `MergeInv` says for every moment where the last value of each key is. The index
points past MERGEFIN to the last record of a key in the log there, or else where HINT says (`Indexed`, `Durable`: so does what the next Open
will read). A complete merge directory answers for every key that the log past its own MERGEFIN lacks (`Complete`), an incomplete one is never used
(`Incomplete`), and while `loadMergeFiles` moves segments, those already moved and those still to come are the merged log (`Merged`).
A merge that is still scanning has copied, of what it read, the records that were current, and a key whose record it copied is not
pointed to at a position it still has to read (`Copied`): that gives `MergedOnce`. A copy is never ahead of what it was read from, segment by segment, which gives
`MergeFits`, without which a moved segment would reach the one that is being written.

*The ring.* `NewestQueued` and `InOrder` follow from an invariant that computes where every event lies: the slots from the
front to the back, modulo the capacity, hold the consecutive events up to the newest (`RingInv`), and what the sender has in hand and
what lies in the channel comes before these, in order (`FlightInv`). With one slot the ring is full and empty at once.

*The byte layout.* `ReadersMeetWriters` says nothing of the bytes between records, so a step could not use it. `LayoutInv` says how the whole log lies:
in each file every chunk is in its block and ahead of the next, the active file ends where the counters are, the records' segments never go
back, the first of a segment is at its start, and every record is `Carried` by its file - by a run of chunks that begin at its position, each but the first at the start of the next
block, none of them its last but the last - with an end place that is the next record's position, or lies beyond the end of an older file, or is `PlaceAfter` the
counters in the active one. That last part is where writer and reader meet: the writer pads by its counters, the reader skips by the chunk that it read, and both come to the same
place. `RunLaid` carries the arithmetic: the chunks of a record of `size` bytes cover exactly `size` bytes and their headers, as many as the
loop takes turns (`ChunksFromIs`, by induction on the turns of `Cut`), and `Place` computes from the total what the loop did step by step.
`BatchKeeps` carries it over the records of a batch, `RotateKeeps` to a new file, `ReopenKeeps` over a restart; `ReadIs` shows that what is `Carried` is
what `ReadInternal` returns, because no other chunk lies where the reader looks. For `SegmentsBounded`, `RunHeaders` counts the chunks of a record by those it would take from
the start of a block. As it stood the property was false of a record with a segment of its own, of which `Write` compares one header only: the
proof failed there, TLC then found size 27 in segments of 30, and the property now says what holds.

*The graph.* What a search meets is a recursive function: descend through the levels, then collect what can be reached. The proofs never compute it; they use that it is closed. The walk
on a level ends because each hop comes closer to the query (induction on the distance), the descent on the level, and what is
collected on level 0 contains the start, contains the neighbors of what it contains (`Nodes` is finite, so enough turns suffice), and is in every set with
these two properties. That recursive definitions of this form have solutions is proved from well-founded induction on the numbers.
`FitInv`: links join vertices that both have the level, and so do a vertex in a worker's hands and the one it goes on from; a step can search from there only because of
that. `DegInv` adds that a vertex has no links below the level its insertion is at and, when changes do not overlap, that nobody else is linking: then a neighbor gains one link and is pruned to the
nearest `MaxDegree`, which are that many because distances differ (`PosInv`). `SmallInv` says, while there are at most `m + 1` vertices, that links are mutual and
every settled vertex is linked with every other on level 0, so that pruning never takes effect and the first hop meets all; half way through an
insertion or a removal it says the same of all others (`Settled`), and what the change has still in hand. `ReloadKeepsAnswers` needs no invariant of the search: a snapshot leaves
out links from and to removed vertices only, and no walk from a live one takes such a link.

*The collections.* `Served` speaks of the moment between two calls, and says nothing of a handler half way through `Load`, `Drop`
or `Release`. `ServedInv` says that at most one call works on collections, what this call has done so far (`Progress`, by the step it is at),
that every other name is sound (`Sound`: the flags imply graph, index and configuration), and that a stopped server has nothing loaded.
Calls on documents change none of this. That is why `OneAdmin` suffices: no bound on them is needed.

`AckedFound` and `ReleasedSurvive` hang together: what is found is what a release saves, and what a load finds is what was saved (`PromiseInv`).
The steps of a change find documents by id, and what spoils a promise is a second change of the same "_id"; so the first part, `OneKey`, says
that all documents, postings and calls of an id have one "_id", and the second, `RivalsSpoil`, that two changes of one "_id" at a time are on
record: a change without such a record is alone with its document. The third, `Promises`, says where a promised document is (`Kept`),
that no call is at it, and how far each save or load (`Saved`) and each change (`Made`) has come.

`Agree` speaks of collections at rest. `AgreeInv` says of each id what graph, log and index have of it: the same if no change is at it (`Agreed`),
and else exactly what the change has left there, by the step it is at (`Midway`). A collection that a call on collections is at
has no changes, so that what it saves or loads is the whole (`Brought`), and one that is not loaded has the same in its files
(`Stored`), or nothing in its log if it is not in the list.

What the three except is what the code does not keep. A posting that went with a column (`lost`) is missing from the index until the collection is loaded from another file, so
from then on the properties speak of the graph and the log of that name only (`Agree` of neither). A graph that changed while `Commit` walked it (`mixed`) may have been
written without a vertex, or with an edge to none: `ReleasedSurvive` promises nothing of that file, and `AckedFound` nothing of a graph that may have been loaded from it.
`WalkOf` and `Saved` say for all other releases that what the walk will write holds what the release is answerable for.

*The stores.* The argument is the same, with more to say of a half-done call: the bucket comes first and goes last in `CreateCollection`, the
space is full before the flags are set, and a failed creation has removed both flags when it returns. `Shape` says as much of the types as a step
needs. A change or a search may turn a space's column or vertices, but what is ready or indexed stays so (`Grows`), and a panic in a
goroutine of a search ends the process, which forgets all (`ForgetServed`).

`TypeOK` needs more than `TypeInv`, which has the types that steps use: what a search has found is pushed in an order the model does
not choose, by a fold. It pushes the vertices of a finite set, so the fold has a value by well-founded induction on the subsets (`PickLess`), and what
`AddKeepsTop` says of one push then holds of a whole map: the result is the top of what was pushed (`AddAllTop`). `Sized` makes that inductive: a search that scans
holds vertices, at most `TopK`, and before it reads a map none.

`AckedFound` and `FlushedSurvive` need to know where a step writes. `TypeInv` has the types a step uses, `Apart` gives every name a space
and a column of its own, also in the hands of calls that still hold old ones, and `KnownInv` says that in edge an id is given out once, so that
what a removal aims at is what it names. `OneInv` is `OneAdmin` with what a stop waits for. `Withheld` says that no call takes what is
promised, but by withdrawing the promise first: a call on a name is alone with the vertices it can harm. With these a call leaves every other
name as it was, but for more vertices and fewer promises (`Beside`), and what remains is one name at a time (`NameInv`): what was acknowledged is in
memory (`AckedInv`) and enters it as the call that adds it proceeds (`CallsInv`); what is kept is in the objects (`KeptInv`); a
save that has read some maps, or written one object of two, has in hand or behind it all that it will answer for (`SaveInv`), although
vertices change under it; a load brings back what is kept (`LoadInv`); and what is created or deleted has no promises (`EmptyInv`).

`AnswerIsTop` and `AnswerIsWhole` speak of one moment, the answer, and both follow from `Topped`: the answer is the top, by the scores that the queue has, of what is asked for, in both servers; in `edge`, where
these are distances, that is not what a client wants, and what remains of it is that nothing is missing while there is room. It needs all of the search before it (`AnswerInv`). Of every vertex that the search is after and
that is still promised (`Due`), `SeekInv` says that the search has counted it - has it among what it found, or `TopK` that are as good - or has it
before it: in the space, in a map yet to be read, and, where it filters, in the index and then in the shard it holds. That this outlasts the steps of others needs
three facts the promises alone do not give. `Twins`: calls that hold one space or one shard are on one name, also when that name has meanwhile been
released and loaded into another space. `StandInv`: what is kept is in the space of a name, loaded or not, so a search that entered while its
collection was being released goes on to find it (`Sure`). `NotSought`: no search is after what a change in progress will store, because its id was withdrawn
when the change began; so nothing becomes due that the search may have passed (`DueLess`). The two ways of counting need no further case: a
queue that drops a vertex does so for `TopK` as good, whether it is that of the search or that of one map (`CountedTop`).

*The queue.* `IsTop` says which answers are right, whichever of equal scores they hold. `AddKeepsTop` makes it an invariant of pushing items in any
order, which is why the model may push a map's vertices in one; `MergeKeepsTop` makes what the goroutines dropped irrelevant. That a whole map
is pushed is a fold: `AddAllTop` carries the first to it.

*Only model-checked:* liveness, which is out of the prover's reach; `CallsGoOn`, which speaks of ENABLED; and `ExactWhileGrowing` of `Hnsw`: when insertions overlap, what is reached depends on the order in which two
vertices link to each other, and no invariant was found that says so for any number of them.

## 5. Not modelled

- `HybridSearch` of `core`, which changes nothing and ignores its filter; how `experimental` weighs several distances into one score.
- The stores f16, bf16 and f8 of `edge`: copies of `none_vectorstore.go` with another encoding of the vector.
- `Diskv`: a batch that is committed or rolled back twice, which no code of the repository does. A second Commit after one that failed would write log and index without
  the lock, because `committed` is set at `batch.go:339` only.
- `DiskvMerge`: MERGEFIN is created and written in one step (`merge.go:166-170`); a crash between the two leaves an empty file, over which the next Open fails once
  (`merge.go:323`). The merge database copies the options (`merge.go:189-194`), and with them the cron that merges by itself (`db.go:127-143`).
- `Collections`: an `Insert` that is refused takes an id too, and runs the undoing of a document that is nowhere (`core.go:465`). A panic inside `Hnsw.Insert` (modelled in `Hnsw`) or in a graph that was loaded
  with edges to nothing, beyond that of `Commit`. A `Remove` that drops a column of the index that a load has put in the place of the one it emptied; two columns go one after the other. `SerializeBinary` of
  the index is one step beside its calls.
- `VectorStores`: an integer field. `edge_analyzer.go:67` stores it as `int64`, the key of a removal stays a `float64` (124-130), so that such a removal finds nothing; here a
  field finds what was stored. `SaveMeta` of a space that a concurrent deletion took panics, and `edge.go:179` panics again on the nil reply, so nothing is undone (only with `OneAdmin = FALSE`). `FillEmpty` and
  `LoadedMetadata` of `edge` (`edge.go:366-368`) are one step. A mismatch of dimensions is modelled for `edge`, as the native kernel has it; in `experimental` it ends the process (`multi_vector_vertex.go:113-117`), which is a crash.
- Composite filters and `compareValues` of `pkg/inverted`.
- The heap under the queues, metadata, quantisation, analyzers, distance kernels, bitsets, compression: sequential or numeric code.
- `pkg/concurrentmap`, `pkg/diskhash`, `pkg/queue`, `pkg/shortid`, `data_access_layer`: not linked into the binary.
- MinIO itself is external; the models take each of its calls to happen at once or to fail, and an object to be replaced as a whole.
- Generated code, benchmarks, examples.

## 6. What is left

- Composition: `Collections` over `Diskv`'s promises, so that a crash of the machine takes the log back to a version of `KVStore`.
- Proofs: `ExactWhileGrowing` of `Hnsw`.
