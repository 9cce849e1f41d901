----------------------------- MODULE InsertPath -----------------------------
(***************************************************************************)
(* Concurrent SSDIndex::insert_in_place calls and the background I/O       *)
(* thread: the id -> location map, the location map of LocMap, and the     *)
(* page, vector and index lock tables.                                     *)
(*                                                                         *)
(* An insert is named by its target id, which it draws from cur_id when it *)
(* starts.  What the pages hold is added by InsertIO; what the distances   *)
(* decide (which records a search expands, which of them pruning keeps, in *)
(* which order) is a nondeterministic choice here.  One searched record    *)
(* per round stands for the beam.                                          *)
(***************************************************************************)
EXTENDS LocMap

CONSTANTS
    NumPoints,   \* points of the index when it was loaded
    NumInserts,  \* bound: inserts started in a behaviour
    Threads,     \* client threads calling insert_in_place
    MaxVisits,   \* bound: records a search expands
    R,           \* index parameter: the neighbours pruning keeps at most
    None         \* no location, no lock holder

ASSUME NumAssumption ==
    /\ NumPoints \in Nat \ {0}
    /\ NumInserts \in Nat
    /\ Threads \in Nat \ {0}
    /\ MaxVisits \in Nat \ {0}
    /\ R \in Nat \ {0}

Ids == 0 .. NumPoints + NumInserts - 1

Inserts == NumPoints .. NumPoints + NumInserts - 1

ASSUME SentinelAssumption ==
    /\ kInvalidID \notin Ids
    /\ kAllocatedID \notin Ids
    /\ kInvalidID # kAllocatedID
    /\ None \notin Ids
    /\ None \notin Nat \X Slots

VARIABLES
    curId,       \* cur_id
    id2loc,      \* id2loc_; None for an id without an entry
    layout,      \* page_layout
    emptyPages,  \* empty_pages
    curPage,     \* cur_loc
    pc,          \* where each insert is
    visited,     \* ids its search has expanded (coord_map)
    hints,       \* pages its search has read, first occurrences (page_ref)
    nhood,       \* new_nhood without the target
    locs,        \* locs: new places of the neighbours, then of the target
    nbrLoc,      \* where it found the neighbours (page_buf_map, then orig_locs)
    needRead,    \* pages_need_to_read
    pageHeld,    \* page_lock_table: pages write-locked for the insert
    vecGot,      \* vec_lock_table: ids whose lock the insert has acquired
    vecLock,     \* vec_lock_table: the holder of each lock, or None
    unlocked,    \* how many unlock calls of unlock_vec it has made
    idxRd,       \* idx_lock_table: ids its search holds read-locked
    idxWr,       \* idx_lock_table: ids it holds write-locked
    bgTasks,     \* bg_tasks
    bgTask       \* the task the background thread works on, or None

mapVars  == <<curId, id2loc, layout, emptyPages, curPage>>
workVars == <<visited, hints, nhood, locs, nbrLoc, needRead>>
lockVars == <<pageHeld, vecGot, vecLock, unlocked, idxRd, idxWr>>
bgVars   == <<bgTasks, bgTask>>
vars     == <<mapVars, pc, workVars, lockVars, bgVars>>

Goto(i, label) == pc' = [pc EXCEPT ![i] = label]

(* Mutant of ToLock: the target is not locked. *)
NeighboursOnly(i) == Elems(nhood[i])

(* What the i-th insert passes to lock_vec and lock_idx.                    *)
ToLock(i) == Elems(nhood[i]) \cup {i}

(* lock_vec, lock_idx and lockReqs acquire in ascending order.              *)
IsNextLock(x, wanted, held) ==
    /\ x \in wanted \ held
    /\ \A y \in wanted \ held : x <= y

(* load_page_layout without a partition file: id = loc, the tail of the     *)
(* last sector is holes.  Sector p holds the ids from (p-1)*nnodes on.      *)
InitPages == (NumPoints + nnodes_per_sector - 1) \div nnodes_per_sector

load_page_layout ==
    [ p \in 1 .. InitPages |->
        [ s \in Slots |->
            LET id == (p - 1) * nnodes_per_sector + s
            IN  IF id < NumPoints THEN id ELSE kInvalidID ] ]

InitLoc(id) == <<1 + (id \div nnodes_per_sector), id % nnodes_per_sector>>

Init ==
    /\ curId = NumPoints
    /\ id2loc = [ id \in Ids |-> IF id < NumPoints THEN InitLoc(id) ELSE None ]
    /\ layout = load_page_layout
    /\ emptyPages = << >>
    /\ curPage = InitPages + 1
    /\ pc = [ i \in Inserts |-> "idle" ]
    /\ visited = [ i \in Inserts |-> {} ]
    /\ hints = [ i \in Inserts |-> << >> ]
    /\ nhood = [ i \in Inserts |-> << >> ]
    /\ locs = [ i \in Inserts |-> << >> ]
    /\ nbrLoc = [ i \in Inserts |-> << >> ]
    /\ needRead = [ i \in Inserts |-> {} ]
    /\ pageHeld = [ i \in Inserts |-> {} ]
    /\ vecGot = [ i \in Inserts |-> {} ]
    /\ vecLock = [ id \in Ids |-> None ]
    /\ unlocked = [ i \in Inserts |-> 0 ]
    /\ idxRd = [ i \in Inserts |-> {} ]
    /\ idxWr = [ i \in Inserts |-> {} ]
    /\ bgTasks = << >>
    /\ bgTask = None

-----------------------------------------------------------------------------
(* An id is linked once some record names it: the loaded points, and the    *)
(* targets whose neighbours have been relocated.                            *)
LinkedIds ==
    (0 .. NumPoints - 1)
      \cup { i \in Inserts : pc[i] \in {"layout", "unlockv", "commit", "deref", "done"} }

(* insert_in_place draws the target id. *)
Begin(i) ==
    /\ pc[i] = "idle"
    /\ curId = i
    /\ Cardinality({ j \in Inserts : pc[j] \notin {"idle", "done"} }) < Threads
    /\ curId' = curId + 1
    /\ Goto(i, "search")
    /\ UNCHANGED <<id2loc, layout, emptyPages, curPage, workVars, lockVars, bgVars>>

(* Mutant of SearchLock: expanded records are expanded again. *)
SearchLockRevisiting(i, id) ==
    /\ pc[i] = "search"
    /\ idxRd[i] = {}
    /\ id \in LinkedIds
    /\ Cardinality(visited[i]) < MaxVisits
    /\ \A j \in Inserts : id \notin idxWr[j]
    /\ idxRd' = [idxRd EXCEPT ![i] = {id}]
    /\ visited' = [visited EXCEPT ![i] = @ \cup {id}]
    /\ hints' = [hints EXCEPT ![i] =
                   IF id2loc[id][1] \in Elems(@) THEN @ ELSE Append(@, id2loc[id][1])]
    /\ UNCHANGED <<mapVars, pc, nhood, locs, nbrLoc, needRead,
                   pageHeld, vecGot, vecLock, unlocked, idxWr, bgVars>>

(* A round of do_beam_search: read-lock the id's mapping, look it up and    *)
(* start the read of its page.                                              *)
SearchLock(i, id) ==
    /\ pc[i] = "search"
    /\ idxRd[i] = {}
    /\ id \in LinkedIds \ visited[i]
    /\ Cardinality(visited[i]) < MaxVisits
    /\ \A j \in Inserts : id \notin idxWr[j]
    /\ idxRd' = [idxRd EXCEPT ![i] = {id}]
    /\ visited' = [visited EXCEPT ![i] = @ \cup {id}]
    /\ hints' = [hints EXCEPT ![i] =
                   IF id2loc[id][1] \in Elems(@) THEN @ ELSE Append(@, id2loc[id][1])]
    /\ UNCHANGED <<mapVars, pc, nhood, locs, nbrLoc, needRead,
                   pageHeld, vecGot, vecLock, unlocked, idxWr, bgVars>>

(* The page is read: unlock_idx. *)
SearchUnlock(i) ==
    /\ pc[i] = "search"
    /\ idxRd[i] # {}
    /\ idxRd' = [idxRd EXCEPT ![i] = {}]
    /\ UNCHANGED <<mapVars, pc, workVars, pageHeld, vecGot, vecLock, unlocked, idxWr, bgVars>>

(* The neighbour lists of length m pruning can return: it keeps at least    *)
(* the nearest expanded record and at most R of them.                       *)
NhoodSizes(ids) == { m \in 1 .. R : m <= Cardinality(ids) }

Nhoods(ids, m) == { n \in [1 .. m -> ids] : \A j, k \in 1 .. m : n[j] = n[k] => j = k }

(* prune_neighbors, then alloc_loc under alloc_lock for the neighbours and  *)
(* the target.                                                              *)
AllocLoc(i) ==
    /\ pc[i] = "search"
    /\ idxRd[i] = {}
    /\ \E m \in NhoodSizes(visited[i]) :
         \E l \in alloc_loc(layout, emptyPages, curPage, hints[i], m + 1),
            n \in Nhoods(visited[i], m),
            last \in curPage - 1 .. curPage + m, popped \in 0 .. Len(emptyPages) :
           /\ \A p \in PagesOf(l) : p <= last
           /\ last >= curPage => last \in PagesOf(l)
           /\ \A k \in 1 .. Len(emptyPages) :
                (emptyPages[k] \in PagesOf(l)) <=> (k <= popped)
           /\ nhood' = [nhood EXCEPT ![i] = n]
           /\ locs' = [locs EXCEPT ![i] = l]
           /\ needRead' = [needRead EXCEPT ![i] =
                             page_need_to_read(layout, emptyPages, hints[i], l)]
           /\ layout' = Reserve(layout, l, last)
           /\ curPage' = last + 1
           /\ emptyPages' = SubSeq(emptyPages, popped + 1, Len(emptyPages))
    /\ visited' = [visited EXCEPT ![i] = {}]
    /\ Goto(i, "lockp")
    /\ UNCHANGED <<curId, id2loc, hints, nbrLoc, lockVars, bgVars>>

-----------------------------------------------------------------------------
(* lockReqs: the pages to write, one by one. *)
LockPage(i, p) ==
    /\ pc[i] = "lockp"
    /\ IsNextLock(p, PagesOf(locs[i]), pageHeld[i])
    /\ \A j \in Inserts : p \notin pageHeld[j]
    /\ pageHeld' = [pageHeld EXCEPT ![i] = @ \cup {p}]
    /\ IF PagesOf(locs[i]) = pageHeld[i] \cup {p} THEN Goto(i, "lockv") ELSE UNCHANGED pc
    /\ UNCHANGED <<mapVars, workVars, vecGot, vecLock, unlocked, idxRd, idxWr, bgVars>>

(* lock_vec: the neighbours and the target, one by one. *)
LockVec(i, id) ==
    /\ pc[i] = "lockv"
    /\ IsNextLock(id, ToLock(i), vecGot[i])
    /\ vecLock[id] = None
    /\ vecLock' = [vecLock EXCEPT ![id] = i]
    /\ vecGot' = [vecGot EXCEPT ![i] = @ \cup {id}]
    /\ IF ToLock(i) = vecGot[i] \cup {id} THEN Goto(i, "read") ELSE UNCHANGED pc
    /\ UNCHANGED <<mapVars, workVars, pageHeld, unlocked, idxRd, idxWr, bgVars>>

(* node_sector_no of every neighbour fills page_buf_map; read_alloc. *)
ReadPages(i) ==
    /\ pc[i] = "read"
    /\ nbrLoc' = [nbrLoc EXCEPT ![i] = [ k \in DOMAIN nhood[i] |-> id2loc[nhood[i][k]] ]]
    /\ Goto(i, "write")
    /\ UNCHANGED <<mapVars, visited, hints, nhood, locs, needRead, lockVars, bgVars>>

(* The target's and the neighbours' records are written to the page cache   *)
(* (wbc_write); the target gets its location.                               *)
WritePages(i) ==
    /\ pc[i] = "write"
    /\ id2loc' = [id2loc EXCEPT ![i] = locs[i][Len(nhood[i]) + 1]]
    /\ Goto(i, "locki")
    /\ UNCHANGED <<curId, layout, emptyPages, curPage, workVars, lockVars, bgVars>>

(* Mutant of LockIdx: the writer does not wait for the readers. *)
LockIdxPastReaders(i, id) ==
    /\ pc[i] = "locki"
    /\ IsNextLock(id, ToLock(i), idxWr[i])
    /\ \A j \in Inserts : id \notin idxWr[j]
    /\ idxWr' = [idxWr EXCEPT ![i] = @ \cup {id}]
    /\ IF ToLock(i) = idxWr[i] \cup {id} THEN Goto(i, "update") ELSE UNCHANGED pc
    /\ UNCHANGED <<mapVars, workVars, pageHeld, vecGot, vecLock, unlocked, idxRd, bgVars>>

(* lock_idx: the mappings of the neighbours and the target, one by one.     *)
(* lock_page_idx does nothing unless the index is loaded for page search.   *)
LockIdx(i, id) ==
    /\ pc[i] = "locki"
    /\ IsNextLock(id, ToLock(i), idxWr[i])
    /\ \A j \in Inserts : id \notin idxWr[j] \cup idxRd[j]
    /\ idxWr' = [idxWr EXCEPT ![i] = @ \cup {id}]
    /\ IF ToLock(i) = idxWr[i] \cup {id} THEN Goto(i, "update") ELSE UNCHANGED pc
    /\ UNCHANGED <<mapVars, workVars, pageHeld, vecGot, vecLock, unlocked, idxRd, bgVars>>

(* Mutant of UpdateId2Loc: the target's slot is taken to come first. *)
UpdateId2LocShifted(i) ==
    /\ pc[i] = "update"
    /\ nbrLoc' = [nbrLoc EXCEPT ![i] = [ k \in DOMAIN nhood[i] |-> id2loc[nhood[i][k]] ]]
    /\ id2loc' = [ id \in Ids |->
                     IF id \in Elems(nhood[i])
                     THEN locs[i][1 + CHOOSE k \in DOMAIN nhood[i] : nhood[i][k] = id]
                     ELSE id2loc[id] ]
    /\ Goto(i, "layout")
    /\ UNCHANGED <<curId, layout, emptyPages, curPage, visited, hints, nhood, locs, needRead,
                   lockVars, bgVars>>

(* orig_locs, and the neighbours' new locations. *)
UpdateId2Loc(i) ==
    /\ pc[i] = "update"
    /\ nbrLoc' = [nbrLoc EXCEPT ![i] = [ k \in DOMAIN nhood[i] |-> id2loc[nhood[i][k]] ]]
    /\ id2loc' = [ id \in Ids |->
                     IF id \in Elems(nhood[i])
                     THEN locs[i][CHOOSE k \in DOMAIN nhood[i] : nhood[i][k] = id]
                     ELSE id2loc[id] ]
    /\ Goto(i, "layout")
    /\ UNCHANGED <<curId, layout, emptyPages, curPage, visited, hints, nhood, locs, needRead,
                   lockVars, bgVars>>

(* erase_and_set_loc under alloc_lock, then unlock_idx. *)
EraseAndSetLoc(i) ==
    /\ pc[i] = "layout"
    /\ LET ids == Append(nhood[i], i)
       IN  /\ layout' = erase_and_set_loc(layout, nbrLoc[i], locs[i], ids, Len(nbrLoc[i]))
           /\ \E q \in PushedPages(layout, nbrLoc[i], locs[i], ids) :
                emptyPages' = emptyPages \o q
    /\ idxWr' = [idxWr EXCEPT ![i] = {}]
    /\ Goto(i, "unlockv")
    /\ UNCHANGED <<curId, id2loc, curPage, workVars, pageHeld, vecGot, vecLock, unlocked,
                   idxRd, bgVars>>

(* unlock_vec, called when new_nhood already ends with the target: the      *)
(* target, the neighbours, and the target again.  Unlocking a key that      *)
(* nobody holds does nothing; one that another insert holds is released.    *)
UnlockOrder(i) == <<i>> \o nhood[i] \o <<i>>

UnlockVec(i) ==
    /\ pc[i] = "unlockv"
    /\ LET m == unlocked[i] + 1
       IN  /\ vecLock' = [vecLock EXCEPT ![UnlockOrder(i)[m]] = None]
           /\ unlocked' = [unlocked EXCEPT ![i] = m]
           /\ IF m = Len(UnlockOrder(i))
              THEN Goto(i, "commit") /\ vecGot' = [vecGot EXCEPT ![i] = {}]
              ELSE UNCHANGED <<pc, vecGot>>
    /\ UNCHANGED <<mapVars, workVars, pageHeld, idxRd, idxWr, bgVars>>

(* The writes and the page locks are handed to the background thread. *)
Commit(i) ==
    /\ pc[i] = "commit"
    /\ bgTasks' = Append(bgTasks, i)
    /\ Goto(i, "deref")
    /\ UNCHANGED <<mapVars, workVars, lockVars, bgTask>>

(* The page references of the search and of the reads are dropped, and the  *)
(* call returns target_id.                                                  *)
Return(i) ==
    /\ pc[i] = "deref"
    /\ hints' = [hints EXCEPT ![i] = << >>]
    /\ Goto(i, "done")
    /\ UNCHANGED <<mapVars, visited, nhood, locs, nbrLoc, needRead, lockVars, bgVars>>

-----------------------------------------------------------------------------
(* bg_io_thread takes the oldest task and writes its pages to disk. *)
BgWrite ==
    /\ bgTask = None
    /\ bgTasks # << >>
    /\ bgTask' = Head(bgTasks)
    /\ bgTasks' = Tail(bgTasks)
    /\ UNCHANGED <<mapVars, pc, workVars, lockVars>>

(* The writes are done: unlockReqs, deref, return of the query buffer. *)
BgFinish ==
    /\ bgTask # None
    /\ pageHeld' = [pageHeld EXCEPT ![bgTask] = {}]
    /\ bgTask' = None
    /\ UNCHANGED <<mapVars, pc, workVars, vecGot, vecLock, unlocked, idxRd, idxWr, bgTasks>>

(* Every insert of the behaviour has returned and is on disk. *)
Quiescent ==
    /\ \A i \in Inserts : pc[i] = "done"
    /\ bgTasks = << >> /\ bgTask = None

Finished == Quiescent /\ UNCHANGED vars

Insert(i) ==
    \/ Begin(i)
    \/ \E id \in Ids : SearchLock(i, id)
    \/ SearchUnlock(i)
    \/ AllocLoc(i)
    \/ \E p \in DOMAIN layout : LockPage(i, p)
    \/ \E id \in Ids : LockVec(i, id)
    \/ ReadPages(i)
    \/ WritePages(i)
    \/ \E id \in Ids : LockIdx(i, id)
    \/ UpdateId2Loc(i)
    \/ EraseAndSetLoc(i)
    \/ UnlockVec(i)
    \/ Commit(i)
    \/ Return(i)

Next == (\E i \in Inserts : Insert(i)) \/ BgWrite \/ BgFinish \/ Finished

Spec == Init /\ [][Next]_vars

(* The threads that call insert_in_place and the background thread are      *)
(* scheduled by the operating system: none of them is stopped for ever      *)
(* while it can move.                                                       *)
FairSpec ==
    /\ Spec
    /\ \A i \in Inserts : WF_vars(Insert(i))
    /\ WF_vars(BgWrite \/ BgFinish)

-----------------------------------------------------------------------------
Locs == (Nat \ {0}) \X Slots

Labels == {"idle", "search", "lockp", "lockv", "read", "write", "locki", "update",
           "layout", "unlockv", "commit", "deref", "done"}

(* Reserving: the insert owns slots that page_layout marks kAllocatedID.    *)
Reserving(i) ==
    pc[i] \in {"lockp", "lockv", "read", "write", "locki", "update", "layout"}

(* Placed ids have a record: the loaded points and the inserted targets     *)
(* whose slot erase_and_set_loc has filled.                                 *)
PlacedIds ==
    (0 .. NumPoints - 1) \cup { i \in Inserts : pc[i] \in {"unlockv", "commit", "deref", "done"} }

(* Insert j has changed the neighbour's id2loc entry, not yet page_layout.  *)
Moving(j, id) == pc[j] = "layout" /\ id \in Elems(nhood[j])

TypeOK ==
    /\ curId \in NumPoints .. NumPoints + NumInserts
    /\ id2loc \in [Ids -> Locs \cup {None}]
    /\ curPage \in Nat \ {0}
    /\ layout \in [1 .. curPage - 1 -> [Slots -> Ids \cup {kInvalidID, kAllocatedID}]]
    /\ emptyPages \in Seq(1 .. curPage - 1)
    /\ pc \in [Inserts -> Labels]
    /\ visited \in [Inserts -> SUBSET Ids]
    /\ hints \in [Inserts -> Seq(Nat)]
    /\ nhood \in [Inserts -> Seq(Ids)]
    /\ locs \in [Inserts -> Seq(Locs)]
    /\ nbrLoc \in [Inserts -> Seq(Locs)]
    /\ needRead \in [Inserts -> SUBSET Nat]
    /\ pageHeld \in [Inserts -> SUBSET Nat]
    /\ vecGot \in [Inserts -> SUBSET Ids]
    /\ vecLock \in [Ids -> Inserts \cup {None}]
    /\ unlocked \in [Inserts -> Nat]
    /\ idxRd \in [Inserts -> SUBSET Ids]
    /\ idxWr \in [Inserts -> SUBSET Ids]
    /\ bgTasks \in Seq(Inserts)
    /\ bgTask \in Inserts \cup {None}

(* verify_id2loc, first loop, at any moment of any interleaving: a placed   *)
(* id that no insert is moving is found where id2loc_ says.                 *)
Id2LocConsistent ==
    \A id \in PlacedIds :
        (\A j \in Inserts : ~Moving(j, id)) =>
            /\ id2loc[id] # None
            /\ id2loc[id][1] \in DOMAIN layout
            /\ loc2id(layout, id2loc[id]) = id

(* verify_id2loc, second loop: page_layout names every id at most once, and *)
(* only where id2loc_ says, or where the insert moving it took it from.     *)
Loc2IdConsistent ==
    \A l \in (DOMAIN layout) \X Slots :
        LET id == loc2id(layout, l)
        IN  id \in Ids =>
              /\ id \in PlacedIds
              /\ \/ id2loc[id] = l
                 \/ \E j \in Inserts : Moving(j, id) /\ l \in Elems(nbrLoc[j])

(* A page in empty_pages holds nothing and is queued once, or the next      *)
(* alloc_loc calls crash(); and an emptied page is always queued, or its    *)
(* sector is lost for reuse.                                                *)
EmptyPagesExact ==
    /\ \A k \in 1 .. Len(emptyPages) : IsEmptyPage(layout, emptyPages[k])
    /\ \A j, k \in 1 .. Len(emptyPages) : emptyPages[j] = emptyPages[k] => j = k
    /\ \A p \in DOMAIN layout : IsEmptyPage(layout, p) => p \in Elems(emptyPages)

(* alloc_loc never hands one slot to two inserts, and a slot marked         *)
(* kAllocatedID always has an insert that will fill it: none leaks.         *)
ReservationsExact ==
    /\ \A i \in Inserts : Reserving(i) =>
         \A k \in DOMAIN locs[i] :
            /\ locs[i][k][1] \in DOMAIN layout
            /\ loc2id(layout, locs[i][k]) = kAllocatedID
    /\ \A i, j \in Inserts : Reserving(i) /\ Reserving(j) =>
         \A k \in DOMAIN locs[i], m \in DOMAIN locs[j] :
            locs[i][k] = locs[j][m] => i = j /\ k = m
    /\ \A l \in (DOMAIN layout) \X Slots :
         loc2id(layout, l) = kAllocatedID =>
            \E i \in Inserts : Reserving(i) /\ l \in Elems(locs[i])

(* A search that has read-locked an id reads the page the id is on: its     *)
(* location does not change until the search unlocks it.                    *)
LookupsStable ==
    [][ \A i \in Inserts : \A id \in idxRd[i] \cap idxRd'[i] :
            id2loc'[id] = id2loc[id] ]_vars

(* Every insert that starts returns and its pages are written and unlocked, *)
(* although the page locks are held until the background thread is done.    *)
InsertsComplete ==
    \A i \in Inserts :
        pc[i] = "search" ~> (pc[i] = "done" /\ pageHeld[i] = {})

(* "lock the target and the neighbor ids (ensure that sector_no does not    *)
(* change)": the neighbours are still where page_buf_map was filled from    *)
(* when their records are rewritten; otherwise insert_in_place exits.       *)
SectorsStable ==
    \A i \in Inserts : pc[i] = "write" =>
        \A k \in DOMAIN nhood[i] : id2loc[nhood[i][k]] = nbrLoc[i][k]

(* An insert overwrites, without reading it first, a page that alloc_loc    *)
(* did not put into page_need_to_read: no other record may be on it.        *)
UnreadPagesAreOwn ==
    \A i \in Inserts : pc[i] = "write" =>
        \A p \in PagesOf(locs[i]) \ needRead[i] :
            \A s \in Slots : layout[p][s] \notin PlacedIds

-----------------------------------------------------------------------------
(* The strengthening that makes the invariants above inductive.             *)

(* What an insert carries from one step to the next: its search and its     *)
(* neighbour list name placed ids only, without repetition, and it has one  *)
(* slot for each neighbour and one for the target.                          *)
WorkShape ==
    \A i \in Inserts :
        /\ visited[i] \cup idxRd[i] \subseteq PlacedIds
        /\ Reserving(i) =>
             /\ Len(locs[i]) = Len(nhood[i]) + 1
             /\ Elems(nhood[i]) \subseteq PlacedIds
             /\ \A j, k \in DOMAIN nhood[i] : nhood[i][j] = nhood[i][k] => j = k
        /\ pc[i] = "layout" => Len(nbrLoc[i]) = Len(nhood[i])

(* idx_lock_table: writers exclude readers and one another, and an insert   *)
(* that changes mappings has locked all of them.                            *)
IdxLocked ==
    /\ \A i \in Inserts :
         /\ idxWr[i] # {} => pc[i] \in {"locki", "update", "layout"}
         /\ pc[i] \in {"update", "layout"} => idxWr[i] = ToLock(i)
    /\ \A i, j \in Inserts : i # j => idxWr[i] \cap idxWr[j] = {}
    /\ \A i, j \in Inserts : idxRd[i] \cap idxWr[j] = {}

(* Where id2loc_ points between its update and that of page_layout: at the  *)
(* reserved slots, while the neighbours' old slots still name them.         *)
HalfMoved ==
    \A i \in Inserts :
        /\ pc[i] \in {"locki", "update", "layout"} =>
             id2loc[i] = locs[i][Len(nhood[i]) + 1]
        /\ pc[i] = "layout" =>
             \A k \in DOMAIN nhood[i] :
                /\ id2loc[nhood[i][k]] = locs[i][k]
                /\ nbrLoc[i][k][1] \in DOMAIN layout
                /\ loc2id(layout, nbrLoc[i][k]) = nhood[i][k]

(* Loc2IdConsistent, with the mover named. *)
Loc2IdExact ==
    \A l \in (DOMAIN layout) \X Slots :
        LET id == loc2id(layout, l)
        IN  id \in Ids =>
              /\ id \in PlacedIds
              /\ \/ id2loc[id] = l /\ \A j \in Inserts : ~Moving(j, id)
                 \/ \E j \in Inserts : \E k \in DOMAIN nhood[j] :
                       pc[j] = "layout" /\ nhood[j][k] = id /\ nbrLoc[j][k] = l

IInv ==
    /\ TypeOK
    /\ WorkShape
    /\ IdxLocked
    /\ HalfMoved
    /\ Id2LocConsistent
    /\ Loc2IdExact
    /\ EmptyPagesExact
    /\ ReservationsExact
=============================================================================
