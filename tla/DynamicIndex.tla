---------------------------- MODULE DynamicIndex ----------------------------
(***************************************************************************)
(* DynamicSSDIndex: inserts, lazy deletes and searches around the three    *)
(* kinds of merge, with the two deletion sets, _merge_lock, the merge_lock *)
(* of the SSDIndex and the file that a merge replaces.                     *)
(*                                                                         *)
(* insert_in_place is one step here (InsertPath has its interleavings; a   *)
(* merge excludes it by _merge_lock), puts one record on one page and does *)
(* not relocate its neighbours.  A record is named by the tag it was       *)
(* inserted with, and no tag is inserted twice.  The graph is left out: a  *)
(* search may expand any id that has a mapping.                            *)
(***************************************************************************)
EXTENDS Integers, Sequences, FiniteSets

CONSTANTS
    NumPoints,   \* points of the index when it was loaded; their tags are their ids
    NumTags,     \* bound: tags used in a behaviour, the loaded ones included
    MaxMerges,   \* bound: merges started in a behaviour
    Kinds,       \* the merges that are called: final, stream, graph
    Searchers,   \* threads that call search
    BeamSearch,  \* search_mode = BEAM_SEARCH (else PIPE_SEARCH or PAGE_SEARCH)
    None

ASSUME DynAssumption ==
    /\ NumPoints \in Nat \ {0} /\ NumTags \in Nat /\ NumPoints <= NumTags
    /\ MaxMerges \in Nat
    /\ Kinds \subseteq {"final", "stream", "graph"}
    /\ BeamSearch \in BOOLEAN
    /\ None \notin Nat
    /\ IsFiniteSet(Searchers)

Tags == 0 .. NumTags - 1

Ids == Tags

Task == [loc : Ids, tag : Tags]

Running == [task : Task, written : BOOLEAN]

ASSUME NoneAssumption == None \notin Running

VARIABLES
    numPoints, curId, curLoc,   \* num_points, cur_id, cur_loc
    idTag,                      \* tags
    idLoc,                      \* id2loc_
    layout,                     \* page_layout
    file,                       \* the open index file: location -> record
    outFile,                    \* the file a merge writes
    cache,                      \* v2::cache: the records not yet written back
    bgTasks, bgTask,            \* bg_tasks, and the task in the background thread
    deletionSets, activeSet,    \* deletion_sets, active_delete_set
    merge,                      \* the merge: where it is, its kind, id_map's image
    nMerges,                    \* merges started
    writer, readers,            \* merge_lock: held exclusively; its reader count
    search,                     \* the calls of search
    usedTags, deleted,          \* tags inserted so far; tags lazily deleted so far
    kindsDone,                  \* the kinds of the merges completed so far
    scannedEarly,               \* the kinds that have read the file while a write was in flight
    freed                       \* the reloads that have unlocked merge_lock unheld

idxVars    == <<numPoints, curId, curLoc, idTag, idLoc, layout>>
ioVars     == <<file, outFile, cache, bgTasks, bgTask>>
delVars    == <<deletionSets, activeSet>>
mergeVars  == <<merge, nMerges>>
lockVars   == <<writer, readers>>
ghostVars  == <<usedTags, deleted, kindsDone, scannedEarly, freed>>
dynVars    == <<idxVars, ioVars, delVars, mergeVars, lockVars, search, ghostVars>>

NoMerge == [pc |-> "idle", kind |-> "final", newTags |-> << >>, posOf |-> << >>]

SearchCall(stage, set, past, inMerge) ==
    [pc |-> stage, delSet |-> set, expanded |-> {}, found |-> {}, misread |-> FALSE,
     past |-> past, inMerge |-> inMerge, switches |-> 0]

NoSearch == SearchCall("idle", 0, {}, FALSE)

Identity(n) == [ k \in Ids |-> IF k < n THEN k ELSE None ]

DynInit ==
    /\ numPoints = NumPoints /\ curId = NumPoints /\ curLoc = NumPoints
    /\ idTag = Identity(NumPoints)
    /\ idLoc = Identity(NumPoints)
    /\ layout = Identity(NumPoints)
    /\ file = Identity(NumPoints)
    /\ outFile = Identity(0)
    /\ cache = Identity(0)
    /\ bgTasks = << >> /\ bgTask = None
    /\ deletionSets = [ k \in {0, 1} |-> {} ]
    /\ activeSet = 0
    /\ merge = NoMerge /\ nMerges = 0
    /\ writer = FALSE /\ readers = 0
    /\ search = [ s \in Searchers |-> NoSearch ]
    /\ usedTags = 0 .. NumPoints - 1
    /\ deleted = {}
    /\ kindsDone = {} /\ scannedEarly = {} /\ freed = 0

(* id2tag: an id without a tag stands for itself. *)
id2tag(id) == IF idTag[id] = None THEN id ELSE idTag[id]

(* What a read of a page returns: the page cache first. *)
Seen(l) == IF cache[l] # None THEN cache[l] ELSE file[l]

-----------------------------------------------------------------------------
(* insert, under _merge_lock: the id and the page are taken from cur_id and *)
(* cur_loc, the maps are set, the page is in the cache and queued.          *)
Insert(t) ==
    /\ merge.pc = "idle"
    /\ t \notin usedTags
    /\ curId \in Ids
    /\ usedTags' = usedTags \cup {t}
    /\ curId' = curId + 1
    /\ curLoc' = curLoc + 1
    /\ idTag' = [idTag EXCEPT ![curId] = t]
    /\ idLoc' = [idLoc EXCEPT ![curId] = curLoc]
    /\ layout' = [layout EXCEPT ![curLoc] = curId]
    /\ cache' = [cache EXCEPT ![curLoc] = t]
    /\ bgTasks' = Append(bgTasks, [loc |-> curLoc, tag |-> t])
    /\ UNCHANGED <<numPoints, file, outFile, bgTask, delVars, mergeVars, lockVars, search,
                   deleted, kindsDone, scannedEarly, freed>>

(* bg_io_thread: pop, write to whatever file is open, deref. *)
BgPop ==
    /\ bgTask = None /\ bgTasks # << >>
    /\ bgTask' = [task |-> Head(bgTasks), written |-> FALSE]
    /\ bgTasks' = Tail(bgTasks)
    /\ UNCHANGED <<idxVars, file, outFile, cache, delVars, mergeVars, lockVars, search, ghostVars>>

BgWrite ==
    /\ bgTask # None /\ ~bgTask.written
    /\ file' = [file EXCEPT ![bgTask.task.loc] = bgTask.task.tag]
    /\ bgTask' = [bgTask EXCEPT !.written = TRUE]
    /\ UNCHANGED <<idxVars, outFile, cache, bgTasks, delVars, mergeVars, lockVars, search, ghostVars>>

BgFinish ==
    /\ bgTask # None /\ bgTask.written
    /\ cache' = [cache EXCEPT ![bgTask.task.loc] = None]
    /\ bgTask' = None
    /\ UNCHANGED <<idxVars, file, outFile, bgTasks, delVars, mergeVars, lockVars, search, ghostVars>>

(* lazy_delete, under delete_lock.  Bound: one tag is never deleted. *)
LazyDelete(t) ==
    /\ t \in usedTags \ (deleted \cup {0})
    /\ deletionSets' = [deletionSets EXCEPT ![activeSet] = @ \cup {t}]
    /\ deleted' = deleted \cup {t}
    /\ UNCHANGED <<idxVars, ioVars, activeSet, mergeVars, lockVars, search, usedTags, kindsDone,
                   scannedEarly, freed>>

-----------------------------------------------------------------------------
(* search: the pointer to the active deletion set is taken first. *)
SearchBegin(s) ==
    /\ search[s].pc \in {"idle", "done"}
    /\ search' = [search EXCEPT ![s] =
                    SearchCall("begun", activeSet, deleted, merge.pc # "idle")]
    /\ UNCHANGED <<idxVars, ioVars, delVars, mergeVars, lockVars, ghostVars>>

(* Mutant of SearchLock: the search does not wait for the merge. *)
SearchLockFree(s) ==
    /\ search[s].pc = "begun"
    /\ readers' = readers + 1
    /\ search' = [search EXCEPT ![s].pc = "reading"]
    /\ UNCHANGED <<idxVars, ioVars, delVars, mergeVars, writer, ghostVars>>

(* beam_search takes merge_lock shared; the other searches take no lock. *)
SearchLock(s) ==
    /\ search[s].pc = "begun"
    /\ IF BeamSearch THEN ~writer /\ readers' = readers + 1 ELSE UNCHANGED readers
    /\ search' = [search EXCEPT ![s].pc = "reading"]
    /\ UNCHANGED <<idxVars, ioVars, delVars, mergeVars, writer, ghostVars>>

(* An id is looked up and its page read. *)
SearchExpand(s, id) ==
    /\ search[s].pc = "reading"
    /\ id \notin search[s].expanded
    /\ idLoc[id] # None
    /\ search' = [search EXCEPT ![s].expanded = @ \cup {id},
                                ![s].misread = IF Seen(idLoc[id]) = id2tag(id) THEN @ ELSE TRUE]
    /\ UNCHANGED <<idxVars, ioVars, delVars, mergeVars, lockVars, ghostVars>>

(* res_tags, and the lock is released. *)
SearchTags(s) ==
    /\ search[s].pc = "reading"
    /\ search' = [search EXCEPT ![s].pc = "found",
                                ![s].found = { id2tag(id) : id \in search[s].expanded },
                                ![s].expanded = {}]
    /\ readers' = IF BeamSearch THEN readers - 1 ELSE readers
    /\ UNCHANGED <<idxVars, ioVars, delVars, mergeVars, writer, ghostVars>>

(* Under delete_lock, the tags in the deletion set that was active are      *)
(* dropped; the rest is returned.                                           *)
SearchFilter(s) ==
    /\ search[s].pc = "found"
    /\ search' = [search EXCEPT ![s].pc = "done",
                                ![s].found = @ \ deletionSets[search[s].delSet]]
    /\ UNCHANGED <<idxVars, ioVars, delVars, mergeVars, lockVars, ghostVars>>

-----------------------------------------------------------------------------
(* Mutant of MergeBegin: the old set is cleared, not the next one. *)
MergeBeginClearing(kind) ==
    /\ merge.pc = "idle"
    /\ nMerges < MaxMerges
    /\ nMerges' = nMerges + 1
    /\ merge' = [NoMerge EXCEPT !.pc = "wait", !.kind = kind]
    /\ deletionSets' = [deletionSets EXCEPT ![activeSet] = {}]
    /\ activeSet' = 1 - activeSet
    /\ search' = [ s \in Searchers |->
                     [search[s] EXCEPT !.switches = IF @ < 2 THEN @ + 1 ELSE @] ]
    /\ UNCHANGED <<idxVars, ioVars, lockVars, ghostVars>>

(* final_merge, final_merge_stream_pq_tags, final_merge_graph: _merge_lock, *)
(* then save_del_set under delete_lock.                                     *)
MergeBegin(kind) ==
    /\ merge.pc = "idle"
    /\ nMerges < MaxMerges
    /\ nMerges' = nMerges + 1
    /\ merge' = [NoMerge EXCEPT !.pc = "wait", !.kind = kind]
    /\ deletionSets' = [deletionSets EXCEPT ![1 - activeSet] = {}]
    /\ activeSet' = 1 - activeSet
    /\ search' = [ s \in Searchers |->
                     [search[s] EXCEPT !.switches = IF @ < 2 THEN @ + 1 ELSE @] ]
    /\ UNCHANGED <<idxVars, ioVars, lockVars, ghostVars>>

(* merge_deletes waits until bg_tasks is empty; the others until no task is *)
(* in flight either, and flush the page cache.                              *)
MergeWait ==
    /\ merge.pc = "wait"
    /\ bgTasks = << >>
    /\ merge.kind # "final" => bgTask = None
    /\ merge' = [merge EXCEPT !.pc = IF merge.kind = "graph" THEN "copy" ELSE "scan"]
    /\ IF merge.kind = "final"
       THEN UNCHANGED <<file, cache>>
       ELSE /\ file' = [ l \in Ids |-> Seen(l) ]
            /\ cache' = Identity(0)
    /\ UNCHANGED <<idxVars, outFile, bgTasks, bgTask, delVars, nMerges, lockVars, search, ghostVars>>

(* The locations whose record survives, and how many. *)
LiveLocs ==
    { l \in 0 .. curLoc - 1 :
        layout[l] # None /\ id2tag(layout[l]) \notin deletionSets[1 - activeSet] }

(* The populate pass: new ids are drawn by concurrent threads, so they come *)
(* in any order.  (Every id has one location as long as none is reused.)    *)
MergeScan ==
    /\ merge.pc = "scan"
    /\ LET n == Cardinality(LiveLocs)
       IN  \E pos \in [LiveLocs -> 0 .. n - 1] :
             /\ \A l, m \in LiveLocs : pos[l] = pos[m] => l = m
             /\ merge' = [merge EXCEPT !.pc = "write", !.posOf = pos]
    /\ UNCHANGED <<idxVars, ioVars, delVars, nMerges, lockVars, search, ghostVars>>

(* Mutant of MergeWrite: the record is written back to its old place. *)
MergeWriteInPlace ==
    /\ merge.pc = "write"
    /\ LET pos == merge.posOf
           n == Cardinality(DOMAIN pos)
           old(k) == CHOOSE l \in DOMAIN pos : pos[l] = k
       IN  /\ outFile' = [ k \in Ids |-> IF k \in DOMAIN pos THEN file[k] ELSE None ]
           /\ merge' = [merge EXCEPT
                !.pc = IF merge.kind = "final" THEN "install" ELSE "reload",
                !.newTags = [ k \in 0 .. n - 1 |-> id2tag(layout[old(k)]) ]]
    /\ scannedEarly' = IF bgTask = None THEN scannedEarly ELSE scannedEarly \cup {merge.kind}
    /\ UNCHANGED <<idxVars, file, cache, bgTasks, bgTask, delVars, nMerges, lockVars, search,
                   usedTags, deleted, kindsDone, freed>>

(* The rewrite pass: the survivors are read from the file, past the cache,  *)
(* and written to their new places.                                         *)
MergeWrite ==
    /\ merge.pc = "write"
    /\ LET pos == merge.posOf
           n == Cardinality(DOMAIN pos)
           old(k) == CHOOSE l \in DOMAIN pos : pos[l] = k
       IN  /\ outFile' = [ k \in Ids |-> IF k < n THEN file[old(k)] ELSE None ]
           /\ merge' = [merge EXCEPT
                !.pc = IF merge.kind = "final" THEN "install" ELSE "reload",
                !.newTags = [ k \in 0 .. n - 1 |-> id2tag(layout[old(k)]) ]]
    /\ scannedEarly' = IF bgTask = None THEN scannedEarly ELSE scannedEarly \cup {merge.kind}
    /\ UNCHANGED <<idxVars, file, cache, bgTasks, bgTask, delVars, nMerges, lockVars, search,
                   usedTags, deleted, kindsDone, freed>>

(* merge_graph_only: every page goes to its own place in the new file. *)
MergeCopy ==
    /\ merge.pc = "copy"
    /\ outFile' = [ l \in Ids |-> IF l < curLoc THEN file[l] ELSE None ]
    /\ merge' = [merge EXCEPT !.pc = "reload"]
    /\ scannedEarly' = IF bgTask = None THEN scannedEarly ELSE scannedEarly \cup {merge.kind}
    /\ UNCHANGED <<idxVars, file, cache, bgTasks, bgTask, delVars, nMerges, lockVars, search,
                   usedTags, deleted, kindsDone, freed>>

(* Mutant of MergeInstall: num_points is left alone. *)
MergeInstallKeepingCount ==
    /\ merge.pc = "install"
    /\ ~writer /\ readers = 0
    /\ writer' = TRUE
    /\ LET n == Cardinality(DOMAIN merge.newTags)
       IN  /\ idTag' = [ k \in Ids |-> IF k < n THEN merge.newTags[k] ELSE None ]
           /\ idLoc' = Identity(n)
           /\ layout' = Identity(n)
    /\ merge' = [merge EXCEPT !.pc = "reload"]
    /\ UNCHANGED <<numPoints, curId, curLoc, ioVars, delVars, nMerges, readers, search, ghostVars>>

(* Mutant of MergeInstall: the searches inside are not waited for. *)
MergeInstallNoWait ==
    /\ merge.pc = "install"
    /\ ~writer
    /\ writer' = TRUE
    /\ LET n == Cardinality(DOMAIN merge.newTags)
       IN  /\ numPoints' = n
           /\ idTag' = [ k \in Ids |-> IF k < n THEN merge.newTags[k] ELSE None ]
           /\ idLoc' = Identity(n)
           /\ layout' = Identity(n)
    /\ merge' = [merge EXCEPT !.pc = "reload"]
    /\ UNCHANGED <<curId, curLoc, ioVars, delVars, nMerges, readers, search, ghostVars>>

(* merge_deletes only: merge_lock is taken exclusively and the maps are     *)
(* replaced.                                                                *)
MergeInstall ==
    /\ merge.pc = "install"
    /\ ~writer /\ readers = 0
    /\ writer' = TRUE
    /\ LET n == Cardinality(DOMAIN merge.newTags)
       IN  /\ numPoints' = n
           /\ idTag' = [ k \in Ids |-> IF k < n THEN merge.newTags[k] ELSE None ]
           /\ idLoc' = Identity(n)
           /\ layout' = Identity(n)
    /\ merge' = [merge EXCEPT !.pc = "reload"]
    /\ UNCHANGED <<curId, curLoc, ioVars, delVars, nMerges, readers, search, ghostVars>>

(* reload: the new file is opened, the counters restart from num_points and *)
(* merge_lock is unlocked, whether or not it is held: unlocking it when it  *)
(* is not takes one from the reader count.                                  *)
Reload ==
    /\ merge.pc = "reload"
    /\ file' = outFile
    /\ outFile' = Identity(0)
    /\ curId' = numPoints
    /\ curLoc' = numPoints
    /\ IF writer THEN writer' = FALSE /\ UNCHANGED <<readers, freed>>
                 ELSE readers' = readers - 1 /\ freed' = freed + 1 /\ UNCHANGED writer
    /\ merge' = NoMerge
    /\ kindsDone' = kindsDone \cup {merge.kind}
    /\ UNCHANGED <<numPoints, idTag, idLoc, layout, cache, bgTasks, bgTask, delVars, nMerges,
                   search, usedTags, deleted, scannedEarly>>

Search(s) ==
    \/ SearchBegin(s)
    \/ SearchLock(s)
    \/ \E id \in Ids : SearchExpand(s, id)
    \/ SearchTags(s)
    \/ SearchFilter(s)

Merge ==
    \/ \E kind \in Kinds : MergeBegin(kind)
    \/ MergeWait
    \/ MergeScan
    \/ MergeWrite
    \/ MergeCopy
    \/ MergeInstall
    \/ Reload

DynNext ==
    \/ \E t \in Tags : Insert(t) \/ LazyDelete(t)
    \/ BgPop \/ BgWrite \/ BgFinish
    \/ \E s \in Searchers : Search(s)
    \/ Merge

DynSpec == DynInit /\ [][DynNext]_dynVars

-----------------------------------------------------------------------------
(* reload is written for merge_deletes: it expects num_points, the maps and *)
(* merge_lock as that merge leaves them.  What is true of the maps and the  *)
(* file is stated until another merge has been reloaded, and what is true   *)
(* of the file as long as every write was in it when a merge read it.       *)
OnlyFinal == kindsDone \subseteq {"final"}

Clean == OnlyFinal /\ scannedEarly = {}

Reading == { s \in Searchers : search[s].pc = "reading" }

(* The new maps are there, the new file is not open yet. *)
Installed == merge.pc = "reload" /\ merge.kind = "final"

(* The ids in the maps are those below this one, and their tags. *)
Known == IF Installed THEN numPoints ELSE curId

Held == { idTag[id] : id \in 0 .. Known - 1 }

(* Tasks that the background thread has not finished. *)
Pending ==
    { bgTasks[i] : i \in DOMAIN bgTasks } \cup (IF bgTask = None THEN {} ELSE {bgTask.task})

MergeType ==
    [pc : {"idle", "wait", "scan", "copy", "write", "install", "reload"},
     kind : {"final", "stream", "graph"},
     newTags : UNION { [S -> Tags] : S \in SUBSET Ids },
     posOf : UNION { [S -> Ids] : S \in SUBSET Ids }]

SearchType ==
    [pc : {"idle", "begun", "reading", "found", "done"}, delSet : {0, 1},
     expanded : SUBSET Ids, found : SUBSET Tags, misread : BOOLEAN,
     past : SUBSET Tags, inMerge : BOOLEAN, switches : 0 .. 2]

(* Type invariant. *)
DynTypeOK ==
    LET Recs == Tags \cup {None}
        Maps == [Ids -> Ids \cup {None}]
    IN  /\ numPoints \in 0 .. NumTags /\ curId \in 0 .. NumTags /\ curLoc = curId
        /\ idTag \in [Ids -> Recs] /\ idLoc \in Maps /\ layout \in Maps
        /\ file \in [Ids -> Recs] /\ outFile \in [Ids -> Recs] /\ cache \in [Ids -> Recs]
        /\ bgTasks \in Seq(Task) /\ bgTask \in Running \cup {None}
        /\ deletionSets \in [{0, 1} -> SUBSET Tags] /\ activeSet \in {0, 1}
        /\ merge \in MergeType /\ search \in [Searchers -> SearchType]
        /\ writer \in BOOLEAN /\ readers \in Int /\ freed \in Nat
        /\ usedTags \subseteq Tags /\ deleted \subseteq usedTags

(* merge_lock: its count is the searches inside, less one for each reload   *)
(* that unlocked it unheld, as every merge but merge_deletes has it; held   *)
(* exclusively from the installation of the maps to reload.                 *)
LockInv ==
    /\ readers = (IF BeamSearch THEN Cardinality(Reading) ELSE 0) - freed
    /\ (writer <=> Installed) /\ (writer => readers <= 0)
    /\ freed = 0 <=> OnlyFinal

(* The maps are the identity on the known ids, whose tags are the inserted  *)
(* ones without the deleted ones that a merge has removed.                  *)
MapInv ==
    OnlyFinal =>
        /\ idLoc = Identity(Known) /\ layout = Identity(Known)
        /\ \A id \in Ids : idTag[id] # None <=> id < Known
        /\ \A a, b \in 0 .. Known - 1 : idTag[a] = idTag[b] => a = b
        /\ Held \subseteq usedTags /\ usedTags \ deleted \subseteq Held
        /\ \A k \in {0, 1} : deletionSets[k] \subseteq deleted
        /\ Held \cap deleted \subseteq
              IF merge.pc = "idle" \/ Installed THEN deletionSets[activeSet]
              ELSE deletionSets[0] \cup deletionSets[1]

(* What is read at the location of a known id is its record; the cache      *)
(* holds exactly the pages of pending tasks, each on a page of its own.     *)
FileInv ==
    Clean =>
        /\ ~Installed => \A l \in 0 .. curLoc - 1 : Seen(l) = idTag[l]
        /\ \A l \in Ids : cache[l] # None => \E task \in Pending : task.loc = l
        /\ \A task \in Pending : task.loc < curLoc /\ cache[task.loc] = task.tag
        /\ \A i, j \in DOMAIN bgTasks : bgTasks[i].loc = bgTasks[j].loc => i = j
        /\ bgTask # None =>
              /\ \A i \in DOMAIN bgTasks : bgTasks[i].loc # bgTask.task.loc
              /\ bgTask.written => file[bgTask.task.loc] = bgTask.task.tag

(* When which of the background's tasks are over. *)
QuietInv ==
    /\ merge.pc \notin {"idle", "wait"} =>
          bgTasks = << >> /\ (merge.kind # "final" => bgTask = None)
    /\ merge.pc \in {"install", "reload"} /\ scannedEarly = {} => bgTask = None
    /\ scannedEarly \subseteq {"final"}

(* What the steps of a merge hand on: the new places of the survivors, then *)
(* their tags, and the file that holds them there.                          *)
Placed ==
    /\ merge.posOf \in [LiveLocs -> 0 .. Cardinality(LiveLocs) - 1]
    /\ \A l, m \in LiveLocs : merge.posOf[l] = merge.posOf[m] => l = m

Renamed ==
    LET New == 0 .. Cardinality(LiveLocs) - 1 IN
    /\ merge.newTags \in [New -> Tags]
    /\ OnlyFinal =>
          /\ \A a, b \in New : merge.newTags[a] = merge.newTags[b] => a = b
          /\ \A k \in New : \E l \in LiveLocs : merge.newTags[k] = idTag[l]
          /\ \A l \in LiveLocs : \E k \in New : merge.newTags[k] = idTag[l]
    /\ Clean => \A k \in New : outFile[k] = merge.newTags[k]

MergeInv ==
    /\ merge.pc = "copy" => merge.kind = "graph"
    /\ merge.pc \in {"scan", "write"} => merge.kind # "graph"
    /\ merge.pc = "write" => Placed
    /\ merge.pc = "install" => merge.kind = "final" /\ Renamed
    /\ Installed /\ Clean => \A k \in 0 .. numPoints - 1 : outFile[k] = idTag[k]

(* A search holds only ids that are mapped and, of the tags that had been   *)
(* deleted when it began, only such as its deletion set still names.        *)
Faithful(s) ==
    LET c == search[s] IN
    /\ c.past \subseteq deleted
    /\ c.pc # "idle" /\ c.switches < 2 =>
          c.delSet = IF c.switches = 0 THEN activeSet ELSE 1 - activeSet
    /\ c.pc # "reading" => c.expanded = {}
    /\ OnlyFinal /\ BeamSearch =>
          /\ \A id \in c.expanded : idLoc[id] # None
          /\ ~c.inMerge /\ c.switches < 2 =>
                /\ c.pc \in {"begun", "reading"} =>
                      Held \cap c.past \subseteq deletionSets[c.delSet]
                /\ c.pc = "found" => c.found \cap c.past \subseteq deletionSets[c.delSet]
                /\ c.pc = "done" => c.found \cap c.past = {}
    /\ Clean /\ BeamSearch => ~c.misread

SearchInv == \A s \in Searchers : Faithful(s)

(* The inductive invariant. *)
DynInv ==
    DynTypeOK /\ LockInv /\ MapInv /\ FileInv /\ QuietInv /\ MergeInv /\ SearchInv

(* "merge_lock.lock(); // unlock in reload()": the maps are replaced and    *)
(* the file is reopened with no search inside, until a merge that has not   *)
(* locked is reloaded.  Each such reload lets one search in beside the next *)
(* merge_deletes, and no more than one.                                     *)
MergeExcludes == BeamSearch /\ writer => Cardinality(Reading) <= freed

(* A search that starts outside a merge does not return a tag whose         *)
(* lazy_delete had returned before, although the set it points to may be    *)
(* retired while it runs (not twice: the second merge clears it).           *)
DeletesRespected ==
    OnlyFinal => \A s \in Searchers :
        search[s].pc = "done" /\ ~search[s].inMerge /\ search[s].switches < 2 =>
            search[s].found \cap search[s].past = {}

(* A merge loses no record and resurrects none: provided every write was in *)
(* the file when it was read, outside a merge each id that the maps know is *)
(* found at its place, and these are the tags inserted, without those the   *)
(* last merge removed.                                                      *)
RecordsKept ==
    merge.pc = "idle" /\ OnlyFinal /\ scannedEarly = {} =>
        /\ \A id \in Ids : idLoc[id] # None =>
              layout[idLoc[id]] = id /\ Seen(idLoc[id]) = id2tag(id)
        /\ LET held == { id2tag(id) : id \in { k \in Ids : idLoc[k] # None } }
           IN  /\ usedTags \ deleted \subseteq held
               /\ held \cap deleted \subseteq deletionSets[activeSet]

(* A search that holds merge_lock never reads a record of another file.     *)
ReadsMatch ==
    OnlyFinal /\ scannedEarly = {} => \A s \in Searchers : ~search[s].misread

(* "whether inserted or deleted, the effect shows in new searches at once"  *)
(* (docs): a search does not return a tag deleted before it started.        *)
DeletesReflected ==
    \A s \in Searchers :
        search[s].pc = "done" => search[s].found \cap search[s].past = {}

(* "make sure all asynchronous I/O is complete": the streaming and the      *)
(* graph-only merge do not read the file while the background thread works  *)
(* on a task (merge_deletes, which waits for the queue only, may).          *)
ScannedAfterWrites == scannedEarly \subseteq {"final"}

(* "we do not reuse IDs": cur_id has no mapping when an insert takes it.    *)
IdsNotReused == merge.pc = "idle" /\ OnlyFinal /\ curId \in Ids => idLoc[curId] = None

(* "the index in memory must agree with the one on disk", outside a merge.  *)
MapsMatchFile ==
    merge.pc = "idle" /\ bgTasks = << >> /\ bgTask = None =>
        \A id \in Ids : idLoc[id] # None => file[idLoc[id]] = id2tag(id)
=============================================================================
