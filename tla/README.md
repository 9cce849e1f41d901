# OdinVector: TLA+ models, checks and proofs

OdinVector (a PipeANN derivative) is a disk-resident graph index for vector
search that is updated in place: inserts rewrite records of the index file while
searches run, deletes are lazy, and a merge rewrites the file without the deleted
points. This directory models the parts of it whose correctness depends on the
order in which threads, the background writer and the disk do things, the
algorithms on lists, graphs and hash tables these parts rely on, and proves the
invariants of five of them for every size. Paths below are relative to `src/`.

## 1. The system

| Part | Code | State it keeps | Operations | Hard because |
|---|---|---|---|---|
| Location map | `include/ssd_index.h` 488-653 | `page_layout`, `empty_pages`, `cur_loc` | `alloc_loc`, `set_loc2id`, `erase_loc2id`, `erase_and_set_loc` | slots are reserved, filled and freed by different inserts at different times; a wrong `empty_pages` entry is a `crash()` |
| Insert path | `src/update/direct_insert.cpp`, `src/search/beam_search.cpp` | `id2loc_`, `cur_id`, `tags`, four lock tables, `bg_tasks` | `insert_in_place`, `do_beam_search`, `bg_io_thread` | two maps updated in separate steps; three classes of locks; page locks released by another thread |
| Lock tables | `include/v2/lock_table.h` | sparse table of reader/writer locks | `rdlock`, `wrlock`, `unlock` | entries appear and disappear with their locks; `unlock` does not know its caller |
| Page cache and file I/O | `include/v2/page_cache.h`, `src/utils/linux_aligned_file_reader.cpp`, `include/aligned_file_reader.h` | cached pages with reference counts, the file | `get`, `put`, `deref`, `read_alloc`, `wbc_write`, `read`, `write` | look-up, disk read and put are three steps without a lock over them |
| Query buffers | `include/ssd_index.h` 129-172 | a pool of `QueryBuffer` | `pop_query_buf`, `push_query_buf` | an insert needs two of them, one is returned by the background thread |
| Searches | `src/search/*.cpp`, `include/neighbor.h` | a candidate list per call, reads in flight | `beam_search`, filtered `beam_search`, `page_search`, `pipe_search`, `coro_search` | asynchronous reads finish in any order; positions in a list that grows; locks held across waits |
| Dynamic index | `src/update/dynamic_index.cpp` | two deletion sets, `active_delete_set`, `_merge_lock`, `delete_lock` | `insert`, `search`, `lazy_delete`, `save_del_set`, `final_merge*` | a search keeps a pointer to a deletion set that a merge retires |
| Merge | `src/update/delete_merge.cpp`, `src/ssd_index.cpp` | the new file, `id_map`, `deleted_nhoods`, the reset maps | `merge_deletes`, `merge_deletes_stream_pq_tags`, `merge_graph_only`, `rebuild_graph_in_place`, `reload`, `flush_page_cache` | searches go on during the merge; ids are renumbered; lists name deleted points; the file goes through a sliding window filled by several threads |
| Pruning | `src/utils/prune_neighbors.cpp`, `src/index.cpp` | none | `occlude_list`, `prune_neighbors`, `delta_prune_neighbors_pq` | must keep a list short without cutting a point off |
| In-memory index | `src/index.cpp` | graph under per-node locks, tag maps, deletion set, free slots | `build`, `insert_point`, `lazy_delete`, `search_with_tags`, `consolidate`, `resize`, `save`, `load` | locks are dropped and taken again inside one call; locations are renamed by growth and compaction |
| Hash tables | `include/libcuckoo/cuckoohash_map.hh`, `include/tsl/robin_hash.h` | buckets, lock arrays, counters | `find`, `insert`, `insert_or_assign`, `erase`, `clear` | everything above keeps its state in them; displacement paths found without locks, lazy migration after a doubling |
| Attribute filter | `tests/InvertedIndex.{hpp,cpp}`, `tests/hot_update_service.cpp` | postings on disk and in memory, tombstones, a WAL | `insert`, `remove`, `query`, `merge`, `recover_from_wal` | crash between WAL, merge and truncation |
| Hot update service | `tests/hot_update_service.cpp`, console | `next_tag_` | TCP commands over the dynamic index | tags restart after a merge |
| Offline tools | `src/utils/{aux_utils,partition_and_pq,math_utils,distance}.cpp` | none | index building, PQ training | numeric |

How they interact. A client thread calls `insert_in_place`; its search phase reads pages
through `read_alloc` (page cache, then file) under read locks of `idx_lock_table`;
it prunes the expanded records to a neighbour list, reserves slots for the
neighbours and for the new record with `alloc_loc`, write-locks the pages of these
slots and the vectors involved, re-reads the neighbours' pages, writes the new
pages to the page cache (`wbc_write`), moves the ids in `id2loc_` and `page_layout`
under `idx_lock_table`, and hands the pages and their locks to `bg_io_thread`, which
writes them to the file. A search does the first part only. `DynamicSSDIndex` excludes
inserts from merges by `_merge_lock`, and searches from the moment in which a merge
replaces maps and file by `merge_lock`. Deletion only adds a tag to a set; the merge
drops the points and repairs the lists that named them. The in-memory index is the same
graph in memory, with its own locks; it gives a disk search its entry points. All maps
and sets are the two vendored hash tables.

What makes each part correct:

* insert path: the two maps agree whenever nobody is in the middle of moving an id,
  a slot has one owner, an empty page is queued exactly once, a looked-up location
  stays valid while its reader needs it, every record can be read where the map
  says, and every insert comes to an end;
* dynamic index: no record is lost or comes back through a merge, no search mixes the
  maps of one generation with the file of another, and no deleted tag is returned;
* searches: a list keeps the nearest ids met, a search ends with every id of its list
  read, computes a record from its own page, and gives back what it took;
* merge and pruning: every survivor is in the new file once, with live neighbours
  only, linked to those of the deleted ones between them, and its nearest neighbour stays;
* in-memory index: tags and locations are inverse, every slot is accounted for, no edge
  leads to nothing, a result belongs to the vector that was measured;
* hash tables: every call has the effect and the result of one atomic map operation;
* attribute filter: an operation is all or nothing across crashes, and queries are
  answered by what is durable.

## 2. Modules

| Module | Models | Builds on |
|---|---|---|
| `LocMap` | `alloc_loc`, `erase_and_set_loc` and what they use, as operators on a layout | |
| `InsertPath` | concurrent inserts, their locks, the two maps, the background queue | `LocMap` |
| `InsertIO` | page contents: file, page cache, buffers of the inserts | `InsertPath` |
| `DynamicIndex` | `DynamicSSDIndex`: deletion sets, searches, the three merges, `reload` | |
| `RankedLists` | `std::sort` and filtering of lists, as operators | |
| `PruneNeighbors` | the pruning rules, as operators over a distance function | `RankedLists` |
| `GraphMerge` | the graph through inserts, deletes, merges and rebuilds; the write window | `PruneNeighbors` |
| `CandidateList` | the candidate list and the rounds of every search, as functions of a record | `RankedLists` |
| `Search` | the five searches with locks, buffers, asynchronous reads, next to inserts | `CandidateList` |
| `MemIndex` | the in-memory index under its locks | `PruneNeighbors` |
| `ConcurrentMap` | what a hash table promises | |
| `CuckooMap` | `libcuckoo::cuckoohash_map` | (`ConcurrentMap` by refinement) |
| `RobinHash` | `tsl::robin_hash` | (`ConcurrentMap` by refinement) |
| `AttributeFilter` | what the attribute index promises | |
| `InvertedIndex` | postings, tombstones, write-ahead log, merge, crash and recovery | (`AttributeFilter` by refinement) |
| `InsertPathProofs` | theorems about `InsertPath` and `InsertIO` | `ListProofs` |
| `DynamicIndexProofs`, `InvertedIndexProofs` | theorems about these modules | |
| `ListProofs` | lemmas about `RankedLists`, recursive functions, folds, sums, bounded heaps and division | |
| `SearchInvariants` | the inductive invariants of `Search`, which `SearchProofs` proves | `Search`, `ListProofs` |
| `PruneProofs` | theorems about `PruneNeighbors` | `ListProofs` |
| `SearchProofs` | theorems about `Search` | `SearchInvariants` |
| `MemIndexProofs`, `GraphMergeProofs` | theorems about the maps and lists of `MemIndex` and of `GraphMerge` | `PruneProofs` |
| `MC...` | instances for TLC | |

`LocMap`. A location is the pair sector/slot that `loc_sector_no` and
`loc % nnodes_per_sector` make of the code's integer. `cur_loc` is sector aligned
after every operation, so it is kept as the sector it points to. `alloc_loc` is
stated as what its three loops produce (the first `n` free slots in the order
queued pages, hint pages with at least `Threshold` holes, fresh sectors) rather
than as loops; `erase_and_set_loc` and the pushes of `erase_loc2id` likewise.

`InsertPath`. An insert is named by its target id. `pc` follows
`insert_in_place` from one blocking point or shared access to the next:

| label | action leaving it | code |
|---|---|---|
| `idle` | `Begin` | `direct_insert.cpp` 51-79 |
| `search` | `SearchLock`, `SearchUnlock`, `AllocLoc` | `beam_search.cpp` 113-165; `direct_insert.cpp` 94-122 |
| `lockp`, `lockv` | `LockPage`, `LockVec` | 136-137 |
| `read`, `write` | `ReadPages`, `WritePages` | 139-336 |
| `locki`, `update`, `layout` | `LockIdx`, `UpdateId2Loc`, `EraseAndSetLoc` | 338-354 |
| `unlockv` | `UnlockVec`, one unlock at a time | 356 |
| `commit`, `deref` | `Commit`, `Return` | 375-400 |
| (background) | `BgWrite`, `BgFinish` | 411-424 |

Distances do not appear: which records a search expands, which neighbours pruning
keeps (one at least, `R` at most) and in which order are nondeterministic. A beam of
one record per round stands for the beam width. The build is the default one
(`BG_IO_THREAD`, `NDEBUG`); in it `lock_page_idx` does nothing
unless the index was loaded for page search.

`InsertIO` adds the file, the cache and the buffers to the same steps; `read_alloc`
is three steps (look-up, disk read, put). A record is the id whose vector it carries
and the targets linked into it since the load. Links dropped by pruning are not
modelled: they depend on distances only. A batch of reads or writes of one request
list is one step.

`DynamicIndex`. One level up: `insert_in_place` is one step (a merge excludes it by
`_merge_lock`), a page holds one record, and a record is named by its tag. What is kept
is what a merge can disturb: `tags`, `id2loc_`, `page_layout`, `num_points`, `cur_id`,
`cur_loc`, the open file and the one being written, the page cache and the background
task, both deletion sets, and `merge_lock` with its reader count (`freed` counts the reloads that unlocked
it unheld). The three merges share
their steps: `MergeBegin` (`save_del_set`), `MergeWait`, then `MergeScan` and `MergeWrite`
(the populate and the rewrite pass of `merge_deletes` and
`merge_deletes_stream_pq_tags`) or `MergeCopy` (`merge_graph_only`), `MergeInstall`
(`merge_deletes` only) and `Reload`. New ids come in any order, since threads draw them
from an atomic counter. `Reload` unlocks `merge_lock` as glibc does it: a lock that is not
write-held loses a reader, and its count may fall below zero. A search is five steps: pointer to the active set, lock,
look-up and read of an id, tags, filter.

`PruneNeighbors`. `occlude_list` with its rising `alpha`, the filling up to `range`, the
medoid's exemption, and the eviction rules of `delta_prune_neighbors_pq`. A ratio of
distances is compared by multiplying out, with the cases of zero that floats have. PQ
distances are taken as exact. `Alphas` is one sequence for the rising `alpha` of `occlude_list`
(`prune_neighbors.cpp:67`, `:92`) and the falling one of `delta_prune_neighbors_pq` (`:134`, `:158`); in
the code the two coincide only when `alpha` is a power of 1.2. No property depends on the values.

`GraphMerge`. `Insert` and `LazyDelete` are whole operations; a merge is `MergeBegin`,
`Populate`/`PopulateNext` (numbering by several threads, chunk by chunk),
`Process`/`ProcessNext` (repair, prune, put into the window, write back its full half),
`Flush`, `EntryPoint` and `Install`. The threads of the second pass write slots of their
own, so they run one after another. The streaming merge is followed up to its file:
what `reload` makes of it is in `DynamicIndex`. It writes the old id of the
medoid into the header (`delete_merge.cpp:477`, while :518 says `// mapped medoid`), so
`EntryKept` speaks of `merge_deletes` alone. `DELTA_PRUNING` is a choice made in `Init`:
`CMakeLists.txt` has it commented out, and the code is there for both. A populate chunk is
128 sectors and divides the 65536 of the second pass, which `MergeAssumption` keeps.

`CandidateList` and `Search`. `beam_search.cpp`, `page_search.cpp`, `pipe_search.cpp` and
`coro_search.cpp` repeat the same loops as lambdas; `CandidateList` has them once, as
functions of the record of a list (`InsertIntoPool`, `PickBeam`, `Explore`, `EndRound`,
`Offer` for the filtered heap). `Search` gives them threads: a call pops its
buffer (an insert two), locks the ids of its beam in order (`LockFront`), reads and
explores (`ReadAndExplore`, `RestOfPage` for the page search); the pipelined search sends
reads one at a time (`PipeSelect`, `PipeSubmit`, `PipeSent`), harvests them from the front of
its queue (`PipePoll`, `Harvest`) and computes (`PipeCalc`); the coroutines interleave
batches (`StepCoro`). `Complete` is the kernel, which finishes any read. An insert
publishes under write locks (`Publish`), and the background thread returns its second
buffer (`BgReturn`). `coro_search` takes no locks; it is modelled on an index that nobody
updates, where alone it is meaningful.

`MemIndex`. One frozen point behind the last location. A call is a sequence of steps at its
locks: `Insert`, `Unlink`, `Reserve`, `Grow`, `Again`, `Place`, `Fill`, `WalkStep`, `Assign`,
`BackLink`, `Shrink`, `Linked`; `Delete`, `MarkDeleted`, `Forget`; `Search`, `WalkStep`,
`Collect`, `Translate`, `Return`. `Consolidate`, `DeleteAll` and `SaveAndLoad` take no lock
against the others, and run alone as in `tests/overall_perf_mem.cpp` (inserts, deletions and
searches together, `consolidate` by itself). No two calls work on one tag at a time.
`Slack` is `SLACK_FACTOR * range`. A list is kept nearest first, which nothing here tells
from the code's order. `Building` covers the builds whose points fill the index: with free locations the loop of
`link` (`index.cpp:859-867`) links location `_nd` in place of the frozen point at `_max_points`. `lost` records that a
save left the frozen point behind (section 3). The calls go on after that, with what the load made of the graph, until one of them
follows an edge behind the last location: `WalkStep` then ends the program, as `index.cpp:628-631` does,
and `Consolidate`, where the code would read outside of the graph, ends the model.

`CuckooMap`. A thread's call goes through `snap`, `op` (both bucket locks, with the
migration of what they cover), and when both buckets are full `search`, `fill`, `shift`,
`place`: path search under one lock at a time, validated moves from the free end, and a second
look for the key. `all` and `double` are `lock_all` with the lock array doubled before
the hash power, `ClearAll` is `clear`. `RobinHash` is one thread's table: probing, displacement,
backward shift, rehash on load or long probes. `ConcurrentMap` is the promise, and a call in
it one step between call and return.

`InvertedIndex`. The universal bitmaps are the postings of the universal tag. `insert`
and `remove` are two steps (append to the log, apply), `merge` three (write the file,
close it, truncate the log), recovery one step per record, and the process may die
between any two. A removed vector may be inserted again, at any time. `dropped` is what memory still has of vectors that
the last merge left out of the file; `gone`, `since` and `had` record what was asked for. `AttributeFilter` is the
promise: a map from vectors to attributes, changed by one whole operation at a time; a vector inserted again has all
attributes given since its removal, some older ones may come back with them, and a restart (`FilterRestart`) may lose
those and nothing else. The refinement maps the map to `Answered`: what a recovery would rebuild from file and log
(`Durable`) and what memory still has of vectors inserted again. So an operation takes effect when its
record is in the log.

## 3. Runs

Bounds of the insert runs are given as slots per sector / loaded points / inserts / records a search
expands / `R` / client threads; those of the dynamic index as loaded points / tags / merges.

| Run | Bounds | Checks | Result |
|---|---|---|---|
| `insert_map` | 3/3/2/3/2/2 | `IInv` (the inductive invariant of the proofs), `Id2LocConsistent`, `EmptyPagesExact`, `ReservationsExact`, `LookupsStable`, and under `FairSpec` `InsertsComplete` | hold (252k states) |
| `insert_io` | 2/2/3/2/2/3, in two loads | `IOInv` (types and exact reference counts), `SerialRecordsReadable` | hold (613k states) |
| `dyn_merges` | 2/3/2, all kinds of merges, one searching thread | `DynInv` (inductive), `MergeExcludes`, `DeletesRespected`, `RecordsKept`, `ReadsMatch` | hold (3.15M states) |
| `filter_recovery` | two vectors, three tags (one universal), three operations (re-insertions among them), any number of merges, crashes and recoveries | `RecoveryInv` (inductive), `RecoveryExact`, `QueriesExact`, `ImplementsFilter` | hold (391k states) |
| `hash_tables` | two threads, five keys, two slots a bucket, two locks; four calls | `CuckooInv`, `SizeExact`, `LockIndexInRange`, `RobinInv`, `ImplementsMap`, `RobinImplementsMap` | hold (631k states) |
| `search` | five ids on three pages, two queries, five mixes of calls, two calls | `ListsInv`, `SearchesComplete`, `FilterBest`, `OwnPage`, `ResourcesExact`, and under fairness `CallsReturn` | hold (97k states) |
| `graph_merge` | four points and one to come, `R` 2, two per sector, one sector per chunk, two deletions, two merges or rebuilds | `GraphInv`, `OutputExact`, `EntryKept`, `NearestStays`, and under fairness `MergeEnds` | hold (178k states) |
| `mem_index` | a full index of three, one of three with two deleted, or three points to build from; two threads, two insertions, three calls | `MemInv`, `TagsExact`, `NeverCrashes`, `ResultsMatch`, `EntryFrozen`, and under fairness `CallsReturn` | hold (61k states) |
| `io_stale` | 2/1/2/2/2/3 | `DiskConsistent` | violated |
| `dyn_deletes` | 2/3/1, final merges | `DeletesReflected` | violated |
| `search_pipe` | as `search`, a pipelined search next to an insert | `NoLockCycle` | violated |
| `search_twice` | as `search`, a filtered search for two results | `FilterDistinct` | violated |

Why these bounds reach the interesting cases. In `insert_map` two inserts share neighbours
and empty a page, queue it and reuse it, and with three slots a page is left half used, so
that `Threshold` and the mid-page end of `alloc_loc` matter. `insert_io` has two client
loads in one run: with one thread an insert may expand and link two records and the
background thread lags behind it; with three threads, each expanding one record, their
references on cached pages overlap. `dyn_merges` needs two merges for a deletion set to
become active again, and a third tag for an insert between them; the two are of any kinds in any order, so that
a `merge_deletes` may follow a reload that unlocked `merge_lock` unheld and run beside the search. Three operations on the
inverted index are an insert, a removal and another insert, of the removed vector too, with merges and crashes anywhere
in between, so a vector may get back attributes of which the file knows nothing. The cuckoo table starts with a full bucket: the first insertion doubles it and
its locks, later ones displace along paths of two, the last doubles it lazily while locks
still wait for migration. Three keys of the robin table are homed in the last
bucket, so their run wraps around. In `search`, PQ and exact
distances disagree, lists overflow, the ring of three pipelined reads comes round, and four
buffers are exactly the need of two inserts. In `graph_merge` a sector holds two records and
the window four, so that five survivors go through both halves and the flush; a
deleted point may have only deleted neighbours. In `mem_index`
the full index makes the first insertion grow it, by one slot, while the other thread is anywhere in
its own call: a second insertion may take that slot between the growth and the second attempt, and then
the run does reach the crash of `insert_point`. In the other index two of three points are deleted, so that one consolidation leaves
the frozen point without a neighbour and a save loses it; two calls fit in after that, and within them no
walk meets an edge behind the last location.

All passing runs but `mem_index` check for deadlock; in them a behaviour may only end
where every call has returned (`Finished`, `Restful`). In `mem_index` the index may be left
alone at any time and the calls are bounded; that none hangs is `CallsReturn`.

Fairness. `InsertPath!FairSpec` assumes weak fairness of each insert thread and of the
background thread: the operating system schedules them, and their loops
(`wrlock` retries, `wait_for_push_notify` with a 10 microsecond timeout) do not
depend on a notification arriving. `SearchSpec` adds that the kernel completes every read.
Weak fairness is not enough for a lock in
general; it is here because locks are taken in ascending order and the number of
competitors is finite. `GraphMerge` and `MemIndex` assume weak fairness of the steps that
finish a merge or a call under way, never that a call is made.

What the violations show:

* `io_stale`. A search misses the cache, reads the page from disk and puts it
  into the cache; an insert that wrote the page to the cache in between is
  overwritten with the older contents, which the next rewrite takes to disk.
* `dyn_deletes`. `save_del_set` makes the empty set the active one before the merge
  has removed anything. Until `reload`, new searches return what was deleted before.
* `search_pipe`. A pipelined search holds the read locks of its reads in flight, in the
  order of its candidates, while it waits for one more; an insert takes its write locks in
  ascending order. Each can wait for the other. `search` therefore runs pipelined
  searches next to searches only.
* `search_twice`. Candidates read in advance are counted again when the walk expands them,
  so an id takes two of the `k` places.

What the passing runs assume, because the code does not provide it, with the way to see
each deviation:

* One client thread in `SerialRecordsReadable`: with more, `io_stale` applies.
* Two inserts in `insert_map`. With three, `unlock_vec`, called after the target was
  appended to `new_nhood`, unlocks the target twice (`direct_insert.cpp:356`); the second unlock
  may release the lock of another insert. `SectorsStable` in
  `InsertPath` states what the comment at :134 promises; it is violated with 2/1/3/1/1/3.
  The maps do not depend on it (section 4).
* `UnreadPagesAreOwn` in `InsertPath`: `alloc_loc` stops in the middle of a page popped from
  `empty_pages`; the rest are holes for others, yet the page, not being in
  `page_need_to_read`, is overwritten from a buffer that was never filled. It is violated with
  4/3/3/3/3/2 and the bound `OneBigInsert`.
* `OnlyFinal` in `DynamicIndex`: `reload` is written for `merge_deletes`. A streaming merge
  renumbers the records and sets neither maps nor `num_points`. After it or a graph-only merge, `cur_id`
  restarts below ids in use (`delete_merge.cpp:809`), and the tags deleted before the merge are searchable again.
  `MapsMatchFile` is violated with `Kinds = {"stream"}`. What `DynInv` says of maps and file, `RecordsKept`, `ReadsMatch` and
  `DeletesRespected` speak of the behaviours up to such a reload; `LockInv` and `MergeExcludes` do not end there.
* `scannedEarly = {}`: `merge_deletes` waits for an empty queue, not for the popped task (`delete_merge.cpp:37`);
  a merge that reads the file before that task is written can lose its record.
  `RecordsKept` and `ReadsMatch` are stated for behaviours in which this did not happen.
  `ScannedAfterWrites` (a theorem) says that the other two merges, which also wait for
  `bg_tasks_inflight`, never do it.
* `BeamSearch`: only `beam_search` takes `merge_lock`; with `BeamSearch = FALSE` (pipe or
  page search) `ReadsMatch` does not hold.

What the code does in cases where one might expect more; the runs and the theorems include them, and the
properties say how far the promise goes:

* `merge_lock` after the other merges. Only `merge_deletes` locks it, and every `reload` unlocks it
  (`delete_merge.cpp:817`). Each reload that finds it unheld takes one off its reader count, so the next `merge_deletes`
  may begin to replace maps and file with one search inside (`MergeExcludes`: one per such reload). With
  fewer searches inside than such reloads the count is below zero, and a merge waits for it until enough searches have come.
* A removed vector inserted again. `merge` writes a file without the vector, truncates the log, and keeps the
  postings in memory (`tests/InvertedIndex.cpp:378`). An insertion lifts the tombstone (`:223`), so the attributes from
  before the removal answer queries again, until a restart, which does not know them, or until the next merge makes them
  durable. `RecoveryExact` allows this difference and no other.
* A lost frozen point. `compact_frozen_point` (`index.cpp:1457-1481`) does not move a frozen point that
  has lost all its neighbours. The load then takes for the entry what lies behind the last node: a vector that is
  not the frozen point's, without a list, while edges of older nodes may lead to where the frozen point was.
  `EntryFrozen` says that this happens at such a save and only there; that it cannot be undone is part of it. What `MemInv` says of the lists,
  `ResultsMatch` and `NeverCrashes` end there; tags and slots stay exact.
* The one retry of `insert_point` (`index.cpp:1735-1743`, with a TODO in the code). An insertion that has grown the index, or found it grown, drops
  `_update_lock` before it tries again, and others may have taken every slot by then: the program ends.
  No bound on the threads excludes this, for a thread may insert many times while another sleeps. `NeverCrashes` says that it takes
  exactly that: as many locations taken since as were free when the lock was released.

## 4. Proofs

Every theorem is proved for all values of the constants that the named assumptions
allow, with no bound on operations, threads, points or merges.

`InsertPathProofs` (`NnodesAssumption`, `NumAssumption`, `SentinelAssumption`):

* `IInvInvariant`: `Spec => []IInv`; from it
* `TypeCorrect`, `MapsAgree`, `EmptyQueueExact`, `ReservationsDisjoint`;
* `LookupStability`: `Spec => LookupsStable`.

None of the invariants is inductive alone. That `page_layout` agrees with `id2loc_`
after `EraseAndSetLoc` needs to know where the neighbours were and that nobody moved
them since (`HalfMoved`), which needs the write locks of `idx_lock_table` to be
exclusive and complete (`IdxLocked`), and that neighbour lists have no repetition and
one slot per entry (`WorkShape`). That an emptied page is pushed exactly once needs
that no other slot of the page is reserved (`ReservationsExact`), and that the slots
`alloc_loc` takes from the queue are free needs `EmptyPagesExact`. The vector locks
play no part in it, so the double unlock does not invalidate the proof: what it
endangers is page contents (`SectorsStable`), not the maps.

`IInv` is the conjunction of the invariants of `InsertPath`. There is one lemma per action (`<Action>Keeps`), a frame
lemma for the actions that leave maps and reservations alone (`FrameKeepsIInv`),
and lemmas about the operators of `LocMap`: `AllocExact` (what `alloc_loc` returns is
free, in order and without repetition), `EraseAndSet`, `PushedExact`, `LoadedExact`
(the layout of a freshly loaded index; it rests on `DivMod` and `DivModUnique`).

The same module proves of `InsertIO`, with any number of threads:

* `CacheCountsExact`: `IOSpec => []IOInv`.

`RefCountsExact` says that `ref_cnt` is the sum, over the inserts, of what each has still to drop
(`Holds`). To be inductive it needs `BufferPhases`: a page that `read_alloc` missed is in `page_ref` at
least as often as it will be put, pages to write exist only after `wbc_write`, a search has its page exactly
while it holds the mapping. A step moves the count of a page and one summand alike (`CountsMove`, over
`SumChanged` of `ListProofs`); a holder's share is at most the count (`HeldIsCounted`), so a `deref` never
drops more than there is.

With one client thread and the background writer (`MCInsertIO`'s `load = "serial"`; `GarbageAssumption`: what
nobody wrote is no record):

* `RecordsStayReadable`: `LoadSpec => []SerialRecordsReadable`, what a search reads at `id2loc_` is the record of that
  id, linked to every insert that took it as a neighbour;
* `FileStaysConsistent`: `LoadSpec => [](load = "serial" => DiskConsistent)`, once everything has returned and
  the writer is idle, the file alone says the same.

With several threads the second is false (run `io_stale`). The inductive invariant is `SerialInv`. `WritesLocked`: a page
that is on its way to the file is under the page lock of the one insert that writes it, so no other insert
reads or rewrites it. `ContentsCurrent`: such a page is in the cache as it will be in the file, every other cached page
is as in the file, and what was read is what a read would see now; this fails with several threads, where the buffer of
a search outlives a write. `PagesReady` and `NewRecords` follow one insert from its reads to the pages it hands to
`wbc_write`: a page not read back (freshly allocated) holds no record, and each rewritten one is found at the
slot that `id2loc_` will name (`Overwritten`, `Written`). For the file, `WritesQueued` adds that pages to write always
belong to a task that the background thread has or will have.

`DynamicIndexProofs` (`DynAssumption`, `NoneAssumption`; `DeletesAreRespected` and
`ReadsAgree` also `BeamSearch`):

* `Invariant`: `DynSpec => []DynInv`; from it
* `MergeExclusion`, `DeletesAreRespected`, `NothingLost`, `ReadsAgree`;
* `FreshIdsQuietReads`: an insert never takes an id that has a mapping, and the streaming and the
  graph-only merge never read the file while a write is pending.

`DynInv` is `DynTypeOK` with one conjunct per thing that a merge has to carry from one
step to the next. `MapInv`: while only final merges were reloaded the maps are the identity on
the ids below `Known` (which is `cur_id`, but `num_points` between `MergeInstall` and `Reload`),
and their tags are the inserted ones without those that merges removed; the deletions not yet
merged are in one of the two sets. `FileInv`: what is read at a known location is its record,
and the cache holds exactly the pages of pending tasks. `QuietInv`: which tasks can be pending
in which stage of a merge. `Placed` and `Renamed`: the survivors' new places are distinct, and the
new tags are theirs; that the new ids are then all used is `PlacesUsed`, by counting
(an injection of a finite set into one of its size is onto). `SearchInv`: a search's deletion
set is the active one or, after a switch, the other, and still names the tags
deleted before it began, as long as the maps have them. `LockInv` ties these
together: the reader count is the number of searches inside less the reloads that unlocked `merge_lock` unheld (`freed`), which are
none exactly while `OnlyFinal`; then a search that reads keeps `MergeInstall` out, and its ids stay mapped. There is
one lemma per action and one frame lemma per conjunct.

`InvertedIndexProofs` (`FilterAssumption`: any vectors, tags and label file, re-insertions included):

* `RecoveryInvariant`: `InvSpec => []RecoveryInv`; from it `FilterTypeCorrect`,
* `RecoveryCorrect`: `InvSpec => []RecoveryExact`, and `QueriesCorrect`: `InvSpec => []QueriesExact`;
* `FilterImplemented`: `InvSpec => ImplementsFilter`, the refinement of `AttributeFilter`.

`RecoveryExact` is not inductive: after a merge memory holds postings and tombstones that no record
explains any more. `Operating` says what they may be: the postings are those of file and log and of `dropped`, and
a tombstone without a record is for a vector of which neither has anything. `Replayed` says
what memory is in the middle of a recovery and `Merged` what the new file holds before
the log is truncated. `GoneExact` relates log and memory to the vectors that were removed: a tombstone, in the log or in memory,
is for one of them, and what was removed has nothing durable, but for the record that waits to be applied (`Pending`).
`GivenKept` says that what was given since the last removal is stored, and that neither the file, the log nor memory
has what was never given. The effect of a log is defined in closed form (`DeadIn`,
`LoggedIn`), and `OneMoreRecord` gives the step of the replay loop. In the refinement,
`MergeClose` and `TruncateWal` are stutters because they do not change what is answered, and a crash is `FilterRestart`: it
takes from each vector what memory alone had.

`MemIndexProofs` (`MemAssumption`: the points to load or to build of are distinct tags that fit):

* `MapsInvariant`: `Spec => []MapsInv`; from it
* `TagsStayExact`, and `SlotsStayCounted`: the assertion of `consolidate_deletes` in every state;
* `EntryStaysFrozen`: `Spec => []EntryFrozen`. The inductive form, `FrozenApart`, adds that the frozen
  point's vector is at no other location, so that once it is lost no growth, compaction or load brings it back.

`TagsExact` is not inductive: an insertion has a tag in hand between its steps, and a tag that
`lazy_delete` put into `_delete_set` keeps its location until the maps are cleared. `CallKnows` says
what a call may rely on meanwhile: that its tag is unmapped until it is placed, that its location is
its own until then, and that nobody deletes it while it is linked. `CallsApart` says why: one call
works on a tag, and the tag is not alive meanwhile. When `compact_data` runs no call holds a
location (`Quiet`), so `nd` less the deleted ones is the number of tagged locations, and counting
those below a location is a bijection onto the new ones (`ClosedUp`). The lists of the graph play no
part in it: these theorems hold whatever pruning chooses. The theorems about the lists follow
those of `PruneProofs`, on which they rest.

`PruneProofs` (`PruneAssumption`; any pool, any distances, any `alpha`):

* `PqPruned` and `MergePruned`: the list has no duplicates and at most `range` ids, all from the pool;
  the nearest of the pool is in it, in the merge also when the medoid is dropped; and with `alpha > 1`
  a candidate is missing only when the list is full;
* `DeltaPruned`: of `range + 1` candidates by distance `delta_prune_neighbors_pq` evicts one, and an entry as near as any
  but the new one stays. The first place is evicted only when the new one stands there: the triangle rule
  evicts the farther of an entry and the new one (`FastEvicts`), the other rule one with an entry before it (`SlowEvicts`).

The operators are recursive functions and `CHOOSE`s over ranks; the lemmas about them are in `ListProofs`. That a pass only adds positions, that the
first is always taken and that there is room for each (`ConsideredKeeps`, `PassChooses`, `PassesChoose`) is induction
over the pool; as the library's induction rules are out of reach, it is done by the least
counterexample: a set of naturals that is not empty has a least member (`LeastNatural`, from the
library's theorem that strict inclusion is well-founded on finite sets). `RecursionExists` shows in the same way that the recursive
functions are what their equations say. `Ranked` and `Listed` do it for sorting: in a total
order of a finite set the ranks are exactly `0 .. n - 1`, so "the element of rank k" exists.

`MemIndexProofs` on the lists (`DataAssumption`: distances are natural numbers, saved graphs well formed):

* `MemInvariant`: `Spec => []MemInv`; from it
* `ResultsStayMatched`: `Spec => []ResultsMatch`;
* `NoCallCrashes`: `Spec => []NeverCrashes`, with `L >= 2`.

`MemInv` is `MapsInv /\ (lost \/ ListsInv)`. `GraphClosed` is not inductive: an edge comes from what a walk
expanded or a back link remembers, some steps ago. `CallHolds` says that what a call remembers
stays true: that measured locations are nodes (`Nodes`: those in use whose vector has been written) and
still have the vector that was measured, also while other calls insert and delete, and that a
walk that has finished expanded the entry. Growth moves the frozen point, but only when no call is under
`_update_lock`, and a result in `translate` names ids below `_max_points` only; that is why
`Collect` drops the frozen location. `compact_data` renames nodes when no call remembers any.

`NeverCrashes` needs two more invariants. `SlotsKnown`: a call that released `_update_lock` to try again saw at least one slot
free (`Promised`), and while it waits locations are only taken and slots only added, so when its attempt finds none
all those that were free have been taken. (`compact_data`, which gives locations back, runs alone. An index of one location
never grows, half of it being none.) `EntryLinked` is about `build`: its threads link every node, the frozen one last, from a graph without
edges. As long as the entry has no neighbour, a walk sees only the entry and its node will get
the entry as its one neighbour (`BringsEntry`); no such call has returned, so each node that was
taken still has a thread, and the entry cannot be taken before a thread is free again, with
as many nodes as threads (`EntryTakenLast`, a pigeonhole). After that, the walk that links the entry
finds a neighbour to prune (`FindsOther`), if its list keeps two. With `L = 1` it would expand the entry alone,
and `prune_neighbors` would end the program: `L >= 2` is what the code needs. That `compact_data` finds no
edge to a removed node (`NeverDangling`) is `GraphClosed` and counting.

`GraphMergeProofs` (`PruneAssumption`; `MergeAssumption`: the sizes are not 0 and a chunk of the second pass is a
multiple of one of the first; `IndexAssumption`: distances are natural numbers and a behaviour
starts from a well-formed index):

* `IndexWellFormed`: `Spec => []GraphInv`;
* `MergeOutput`: `Spec => []OutputExact`;
* `EntryPointKept`: `Spec => []EntryKept`;
* `NearestIsKept`: `Spec => NearestStays`.

`GraphInv` is about the index between merges, and a merge replaces it by a file of its own making; so the
inductive invariant `MergeInv` says what that file and its window hold at each step. `IndexInv` is `GraphInv`
in the form that steps use: `loc2id` and its inverse (`LocsInv`), ids without gaps (`IdsInv`), and the record at
each live location (`FileInv`). `ChunkInv`: the threads of a loop have blocks of their own inside the
chunk, and those of earlier chunks are behind it, so that `Passed` is what the pass has left behind. `NumbersInv`: the survivors
passed have the numbers below `new_npoints`, one each, whatever the order in which threads drew them; and, which the
window needs, those of an earlier chunk have the smaller ones. `NhoodsInv`: each deleted point passed has left
its sample. `TagsInv` and `WindowInv`: a processed record is in the file or in its slot of the window, as repaired and
pruned. That a slot is not overwritten before it is written back is arithmetic over those numbers. A chunk of the second pass
starts with less than half a window unwritten (`HalvesInv`), and it adds at most half a window; its new ids lie next to each other
because chunks of the second pass end where chunks of the first do (`MergeSectors % PopulateSectors = 0`), so all unwritten ids
are within `WindowSize` of `wb_id` and no two of them share a slot. When `write_back` writes a half, every record of it has been
processed. `HeaderInv` carries the entry point from `EntryPoint` to `Install`. `OutputExact` follows:
when the loop has ended, `Passed` is everything, `wb_id` is `used`, and the list of each record is what `PqPruned`
says of its candidates, which are `Bridged`. For `NearestStays`, each action is shown to keep an entry
as near (`StaysNear`): a list that is appended to, one that is pruned (`PqPruned`, `MergePruned`, `DeltaPruned`) and one that is moved.

`SearchProofs` (`ListAssumption`, `SearchAssumption`: finitely many points and threads, integer distances, entry
points without repetition, new ids outside the index; any graph, pages, queries, deleted tags and mix of calls), with the
invariants of `SearchInvariants`:

* `SearchInvariant`: `SearchSpec => []SearchIInv`; from it
* `ResourcesAccounted`: `SearchSpec => []ResourcesExact`;
* `ListsStayBest`: `SearchSpec => []ListsInv`;
* `SearchesReachFixedPoint`: `SearchSpec => []SearchesComplete`;
* `FilterReturnsBest`: `CandidateTags => (SearchSpec => []FilterBest)`;
* `PagesStayOwn`: `RingSuffices => (SearchSpec => []OwnPage)`.

`SearchIInv` says of each thread, by where it is, what its lists are (`ListsAt`), which locks it may still want and
hold (`WantsAt`: no key twice, none it holds, or `Locked` would count one holder twice), and what its pipe has in
flight (`PipeAt`); and that locks, buffers and calls are accounted for. Neither property is inductive. That
`pipe_search` ends with nothing in flight is the delicate part: it stops when every entry *in the list* has been
computed, while a read may belong to an entry that has been pushed out. `PipeAt` gives the reason: for each read in
flight there is an entry in the list that is not read yet and whose own read, if sent, is no earlier in the queue. An
entry leaves the list only for one just met, which is unread (`Grown`), and the queue is harvested from the front, so
the claim survives both. It needs that a pipelined search leaves `l_search` alone (`~dyn`).
For the lists, `Good` holds from the moment the first list is sorted. `PlaceFound` is the bisection of
`InsertIntoPool` (it ends at a place with nothing farther before it and nothing nearer behind), `OfferKeeps` one
neighbour, with the drop of the last entry of a full list, and `ExploreKeeps`, `PickBeamKeeps`, `SortKeeps` the steps of a
round; the recursive functions are unfolded by least counterexample as in `PruneProofs`. `StepKeeps` reduces
every action to its own thread, and `Accounts` the buffers to the change of one summand (`SumChanged`).

The fixed point needs a second invariant on top of `SearchIInv`. An id is `Done` when its record is expanded and its
neighbours met. Between rounds (`Rest`) all entries before `k` and all entries without a flag are done; while a beam is
read (`Picked`) an entry without a flag is done or in the beam, and so is the entry at `k`. `k` moves back to the first
entry that a round inserts (`nk`), so nothing before it is new: `Ahead` says that expanding leaves the entries up to
`nk` alone and keeps what is done. In a page search an entry may be passed over because its page is in `pages`; then it
is done or lies on a page of `snap`, the beam of the round before, and the next round expands the rest of those pages
(`PassesAhead`) before it moves `k`. A pipe search marks what it expanded (`Visited`), and a query of `coro_search` is
at rest or has its beam out. `FixOf` says which of these holds where, and `FixInv` says it of every list.

`FilterBest` has a third one, `FilterInv`, which follows the two priority queues of a filtered search. `IntoHeapKeeps` is
about one `push` and the `pop` of a queue that got too large: it stays sorted, and an id it held or was offered is in it,
or it is full of ids no farther (`Ranks`); `PushesMerge` and `OffersFilter` carry that along the neighbours of a round. While the
search walks the graph, the queue of candidates is `Gathered`: the nearest candidates met, by PQ distance and once each.
While records are read, the queue of results is `Scored`: the nearest of all candidates computed, but for those of the reads
in hand (`Due`). Between the two lies `Refine`, which hands over the candidates gathered; a candidate it leaves out has more
than `refine_capacity` met candidates no farther than itself (`LeftOut`, a count), which is `Weighed`, and stays so while more
ids are computed. `CandidateTags`, that the id of a candidate tag has a candidate tag itself, is needed since
`beam_search.cpp:408` takes the filter's tags for ids: where tags and ids differ a prefilled id may be no candidate. In the
run tags are ids.

`OwnPage` has a fourth, `OwnInv`. `pipe_search` computes a record from the buffer its read was sent into, and that buffer
is taken again `MAX_N_SECTOR_READS` reads later, whether the record has been computed or not. `RingAt` counts: the `Age` of a
buffer is how many were taken after it. The reads in flight have the ages `0`, `1`, ... from the back of the queue (`Aged`), and
there are at most `width` of them (`Room`). An entry that was read and not yet expanded is no older than the width plus the number of
entries before it that were expanded (`Landed`): at the harvest it is younger than the width (`PollRing`), and after each later
`calc_best_node`, which expands one entry in front of all those that wait (`CalcRing`), one more read may be sent, by the one that
`PipePoll` allows (`SubmitRing`). What is expanded before an entry stays before it while it is in the list (`Behind`), and a list
has `l_search` places, so no page that is needed is older than `l_search + width`, and `RingSuffices` says that the ring is that
large, for the first width and for the beam. With the 512 buffers of `query_buf.h:6` and a beam of 32 it is for any `l_search` up
to 480; the code checks the beam alone (`pipe_search.cpp:53`). The run `search`, with three buffers for a list of three and a width of two, lies outside of
`RingSuffices`: there `OwnPage` holds because the index has no more than five ids. A trial of TLC with five buffers,
not kept as a run, found `OwnInv` to hold before it was proved.

TLC checked `SearchIInv`, `FixInv` and `FilterInv` on the instance of `search` before they were proved; that run keeps to the
properties that follow from them.

Only model-checked: liveness (`InsertsComplete`, `MergeEnds`, `CallsReturn`) and absence of deadlock,
which the proof system does not reach; and the hash tables (bitwise operators, recursion over
probe sequences).

## 5. Not modelled

Left out of the modelled parts:

* `InsertPath`, `InsertIO`: the variants `IN_PLACE_RECORD_UPDATE`, `NO_MAPPING`, `READ_ONLY_TESTS`;
  single requests of an io_uring batch.
* `DynamicIndex`: `checkpoint` and the journal (placeholders without effect), the
  partition layout files. `GraphMerge`: PQ codes beyond the point they
  encode, header fields other than the medoid.
* `Search`: what a record holds does not change (that is `InsertIO`); statistics and timing policies
  of the pipe beyond its width.
* `CuckooMap`: `locked_table`, `reserve` and `rehash` (`cuckoo_expand_simple`), exceptions of
  constructors. `RobinHash`: range erasure, the 16-bit width of stored distances.
* `MemIndex`: more than one frozen point, concurrent calls on one tag, the static index.
* `InvertedIndex`: a power failure (`flush` hands a record to the operating system only).

Parts without a model. The hot update service and its console are a TCP front end;
the journal has no reader. Building, PQ training, partitioning and distances
(`aux_utils`, `partition_and_pq`, `math_utils`, `distance`) are numeric batch code without shared
state. The Python binding keeps no state of its own. The benchmark drivers were read for how
the index is used. liburing is third-party.

Hazards seen in the code that no property above covers:

* `tests/hot_update_service.cpp:565`: after a merge `next_tag_` restarts from `num_points`, below
  tags still in the index.
* `src/utils/linux_aligned_file_reader.cpp:41`: a failed completion resubmits the whole batch
  with completions of the first one outstanding.
* `src/search/beam_search.cpp:241`: `dyn_search_l` reads the `robin_set` of deleted tags without
  `delete_lock` while `lazy_delete` may rehash it.
* `src/search/beam_search.cpp:408`, `:437`: candidate tags are used as ids, and the location of an id is looked up
  again after its lock was released.
* `src/search/page_search.cpp:168`: without an in-memory index the page search starts at id 0.
* `src/utils/linux_aligned_file_reader.cpp:506`: `send_read_no_alloc` of several requests hands the kernel pointers into
  a vector of its own, through which a later `poll` writes.
* `src/update/direct_insert.cpp:71`: `data.resize` while other threads read PQ codes; `:387`: an insert
  whose `page_ref` is empty does not return its buffer.
* `src/update/delete_merge.cpp:226`: `merge_lock` may starve the merge, or the searches, as the
  implementation of `shared_timed_mutex` prefers; likewise `_update_lock` in `index.cpp`.
* `src/index.cpp:1811`: two concurrent deletions of one tag; `:1759`: a tag is published before its
  vector is copied; `:1704`: a shared lock is taken while one is held, which blocks when a writer waits; `:1519`: the
  test for the start node in `compact_data` is the wrong way round; `:582` and `:1292`: list entries that were never
  filled name id 0.
* `tests/InvertedIndex.cpp:261`: see above, a power failure.

Next steps: completions of single requests under `InsertIO`; tags and rows of the service over
`DynamicIndex`.
