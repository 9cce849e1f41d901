----------------------------- MODULE GraphMerge -----------------------------
(***************************************************************************)
(* The graph of the disk index through inserts, lazy deletes, the in-place *)
(* rebuild and the merge that drops the deleted points: merge_deletes and  *)
(* merge_deletes_stream_pq_tags (delete_merge.cpp).  A merge renumbers the *)
(* survivors, repairs every neighbour list that named a deleted point, and *)
(* writes the new file through a sliding window of two halves.             *)
(*                                                                         *)
(* A record is its point and its neighbours; PQ distances are the          *)
(* distances of the points.  An insert is one step here (InsertPath has    *)
(* its interleavings; the callers' _merge_lock excludes it from a merge),  *)
(* searches everything that the medoid leads to, and takes its locations   *)
(* from cur_loc.                                                           *)
(***************************************************************************)
EXTENDS PruneNeighbors, Functions

CONSTANTS
    Points,          \* bound: 0 .. n, the tags that may be inserted, in this order
    Starts,          \* the indexes a behaviour starts from: [nbrs, medoid]
    NSampled,        \* n_sampled_nbrs
    NodesPerSector,  \* nnodes_per_sector
    PopulateSectors, \* SECTORS_PER_POPULATE
    MergeSectors,    \* SECTORS_PER_MERGE
    Workers,         \* threads of a parallel loop
    MaxDeletes,      \* bound: lazy deletes in a behaviour
    MaxMerges,       \* bound: merges in a behaviour
    None

ASSUME MergeAssumption ==
    /\ {NSampled, NodesPerSector, PopulateSectors, MergeSectors, Workers} \subseteq Nat \ {0}
    /\ MergeSectors % PopulateSectors = 0
    /\ None \notin Nat

(* The points, their distances, and the indexes as they are built: each     *)
(* list names other points, none twice, and at most range of them.          *)
ASSUME IndexAssumption ==
    /\ Points \subseteq Nat /\ \A p \in Points : 0 .. p \subseteq Points
    /\ Dist \in [Points \X Points -> Nat]
    /\ \A s \in Starts :
          /\ \E n \in Points : DOMAIN s.nbrs = 0 .. n
          /\ s.medoid \in DOMAIN s.nbrs
          /\ \A i \in DOMAIN s.nbrs :
                /\ s.nbrs[i] \in Seq(DOMAIN s.nbrs \ {i})
                /\ Len(s.nbrs[i]) <= R /\ IsInjective(s.nbrs[i])

VARIABLES
    layout,    \* loc2id, for the locations below cur_loc; None where it is invalid
    file,      \* the index file: the record at each location
    tags,      \* id2tag, for the ids below cur_id
    data,      \* the PQ code of each id: the point it encodes
    medoid,    \* medoids[0]
    nextTag,   \* the tag of the next insert
    deleted,   \* the active deletion set
    dropped,   \* tags that a merge has removed
    delta,     \* the build defines DELTA_PRUNING
    nMerges,
    m          \* the merge or the rebuild that runs

indexVars == <<layout, file, tags, data, medoid>>
mergeVars == <<indexVars, nextTag, deleted, dropped, delta, nMerges, m>>

Idle == [pc |-> "idle", dels |-> {}]

DivUp(a, b) == (a + b - 1) \div b

(* map[k] = v *)
With(map, k, v) == [ x \in DOMAIN map \cup {k} |-> IF x = k THEN v ELSE map[x] ]

Locs == DOMAIN layout

LiveLocs == { l \in Locs : layout[l] # None }

LocOf(id) == CHOOSE l \in LiveLocs : layout[l] = id

Rec(id) == file[LocOf(id)]

Init ==
    \E s \in Starts :
        LET n == Cardinality(DOMAIN s.nbrs) IN
        /\ layout = [ l \in 0 .. n - 1 |-> l ]
        /\ file = [ l \in 0 .. n - 1 |-> [point |-> l, nbrs |-> s.nbrs[l]] ]
        /\ tags = [ l \in 0 .. n - 1 |-> l ]
        /\ data = [ l \in 0 .. n - 1 |-> l ]
        /\ medoid = s.medoid
        /\ nextTag = n
        /\ deleted = {} /\ dropped = {}
        /\ delta \in BOOLEAN
        /\ nMerges = 0
        /\ m = Idle

-----------------------------------------------------------------------------
(* insert_in_place: the search reaches whatever the medoid leads to, the    *)
(* deleted points included, and keeps the others as candidates.             *)
Reached ==
    LET grow[k \in 0 .. Cardinality(LiveLocs)] ==
            IF k = 0 THEN {medoid}
            ELSE grow[k - 1] \cup UNION { Range(Rec(n).nbrs) : n \in grow[k - 1] }
    IN  grow[Cardinality(LiveLocs)]

(* The neighbour's list with the new id in it, pruned back to range. *)
WithNeighbor(p, id, points) ==
    LET nhood == Append(Rec(p).nbrs, id)
        pool  == SortedPool(p, Range(nhood), points)
    IN  IF Len(nhood) <= R THEN nhood
        ELSE IF delta THEN delta_prune_neighbors_pq(p, pool, id, points)
        ELSE prune_neighbors_pq(p, pool, points)

(* Mutant of Relocated: the old locations of the neighbours stay valid. *)
RelocatedTwice(id, nhood) ==
    [ l \in 0 .. Cardinality(Locs) + Len(nhood) |->
        IF l < Cardinality(Locs) THEN layout[l]
        ELSE IF l = Cardinality(Locs) + Len(nhood) THEN id ELSE nhood[l - Cardinality(Locs) + 1] ]

(* alloc_loc at cur_loc, then the new locations in and the old ones out. *)
Relocated(id, nhood) ==
    [ l \in 0 .. Cardinality(Locs) + Len(nhood) |->
        IF l = Cardinality(Locs) + Len(nhood) THEN id
        ELSE IF l >= Cardinality(Locs) THEN nhood[l - Cardinality(Locs) + 1]
        ELSE IF layout[l] \in Range(nhood) THEN None ELSE layout[l] ]

(* The new record and its relocated neighbours go to fresh locations. *)
Insert ==
    /\ m.pc = "idle"
    /\ nextTag \in Points
    /\ \E id \in {Cardinality(DOMAIN tags)}, points \in {With(data, Cardinality(DOMAIN tags), nextTag)} :
       \E nhood \in { prune_neighbors(id,
                          SortedPool(id, { n \in Reached : tags[n] \notin deleted }, points),
                          medoid, points) } :
          /\ layout' = Relocated(id, nhood)
          /\ file' = [ l \in DOMAIN layout' |->
                IF l \in Locs THEN file[l]
                ELSE IF layout'[l] = id THEN [point |-> nextTag, nbrs |-> nhood]
                ELSE [point |-> Rec(layout'[l]).point, nbrs |-> WithNeighbor(layout'[l], id, points)] ]
          /\ tags' = With(tags, id, nextTag)
          /\ data' = points
    /\ nextTag' = nextTag + 1
    /\ UNCHANGED <<medoid, deleted, dropped, delta, nMerges, m>>

(* lazy_delete, also while a merge runs.  Bound: one point is never deleted. *)
LazyDelete(t) ==
    /\ t \in 1 .. nextTag - 1 /\ t \notin deleted \cup dropped
    /\ m.pc # "stopped" /\ t \notin m.dels
    /\ Cardinality(deleted \cup dropped) < MaxDeletes
    /\ deleted' = deleted \cup {t}
    /\ UNCHANGED <<indexVars, nextTag, dropped, delta, nMerges, m>>

-----------------------------------------------------------------------------
(* A parallel loop over locations: each thread has a block of its own. *)
Blocks(lo, hi) ==
    LET share == DivUp(hi - lo, Workers)
        End(w) == IF lo + w * share < hi THEN lo + w * share ELSE hi
    IN  [ w \in 1 .. Workers |-> [from |-> End(w - 1), to |-> End(w)] ]

ChunkEnd(sector, step) ==
    LET hi == (sector + step) * NodesPerSector
    IN  IF hi < Cardinality(Locs) THEN hi ELSE Cardinality(Locs)

StartChunk(merge, step, sector) ==
    [merge EXCEPT !.sector = sector,
                  !.todo = Blocks(sector * NodesPerSector, ChunkEnd(sector, step))]

ChunkDone == \A w \in 1 .. Workers : m.todo[w].from = m.todo[w].to

LastChunk(step) == (m.sector + step) * NodesPerSector >= Cardinality(Locs)

(* save_del_set swaps the deletion sets; the merge works on the full one. *)
MergeBegin(kind) ==
    /\ m.pc = "idle" /\ nMerges < MaxMerges
    /\ nMerges' = nMerges + 1
    /\ deleted' = {}
    /\ m' = StartChunk([pc |-> "populate", kind |-> kind, dels |-> deleted, sector |-> 0,
                        todo |-> << >>, idMap |-> << >>, nhoods |-> << >>, npoints |-> 0,
                        wbuf |-> << >>, wbId |-> 0, used |-> 0, out |-> << >>,
                        newTags |-> << >>, newData |-> << >>, header |-> None], PopulateSectors, 0)
    /\ UNCHANGED <<indexVars, nextTag, dropped, delta>>

Dead(id) == tags[id] \in m.dels

Advance(w) == [m.todo EXCEPT ![w].from = @ + 1]

Survivors(list) == Kept(list, { n \in DOMAIN tags : ~Dead(n) })

(* What a deleted point leaves to those linked to it. *)
Sampled(id) ==
    LET alive == Survivors(Rec(id).nbrs)
    IN  SubSeq(alive, 1, IF Len(alive) < NSampled THEN Len(alive) ELSE NSampled)

(* Step 1: number the survivors, keep the surviving neighbours of the rest. *)
Populate(w) ==
    /\ m.pc = "populate" /\ m.todo[w].from < m.todo[w].to
    /\ LET id == layout[m.todo[w].from] IN
       m' = IF id = None THEN [m EXCEPT !.todo = Advance(w)]
            ELSE IF ~Dead(id)
            THEN [m EXCEPT !.todo = Advance(w), !.npoints = @ + 1, !.idMap = With(@, id, m.npoints)]
            ELSE [m EXCEPT !.todo = Advance(w), !.nhoods = With(@, id, Sampled(id))]
    /\ UNCHANGED <<indexVars, nextTag, deleted, dropped, delta, nMerges>>

PopulateNext ==
    /\ m.pc = "populate" /\ ChunkDone
    /\ m' = IF LastChunk(PopulateSectors)
            THEN StartChunk([m EXCEPT !.pc = "process"], MergeSectors, 0)
            ELSE StartChunk(m, PopulateSectors, m.sector + PopulateSectors)
    /\ UNCHANGED <<indexVars, nextTag, deleted, dropped, delta, nMerges>>

-----------------------------------------------------------------------------
(* Step 2: the surviving neighbours, and those of the deleted ones. *)
Repaired(id) ==
    (UNION { IF Dead(n) THEN Range(m.nhoods[n]) ELSE {n} : n \in Range(Rec(id).nbrs) }) \ {id}

(* The list is pruned only when it is longer than range. *)
Pruned(id, ids) ==
    LET pool == SortedPool(id, ids, data) IN
    IF Cardinality(ids) <= R THEN pool
    ELSE prune_neighbors_pq(id, SubSeq(pool, 1, IF Len(pool) < MaxC THEN Len(pool) ELSE MaxC), data)

(* find throws where nothing stands: a deleted neighbour without a list in  *)
(* deleted_nhoods, or a neighbour without a new id.                         *)
NhoodsFound(id) == \A n \in Range(Rec(id).nbrs) : Dead(n) => n \in DOMAIN m.nhoods

HalfWindow == MergeSectors * NodesPerSector

WindowSize == 2 * HalfWindow

(* One record, into the slot of its new id in the window.  The threads of   *)
(* this loop write slots of their own and read nothing that another writes, *)
(* so they run here one after the other.                                    *)
Process ==
    /\ m.pc = "process" /\ ~ChunkDone
    /\ \E w \in 1 .. Workers :
        /\ m.todo[w].from < m.todo[w].to
        /\ \A k \in 1 .. w - 1 : m.todo[k].from = m.todo[k].to
        /\ LET id == layout[m.todo[w].from] IN
           IF id = None \/ (id # None /\ Dead(id)) THEN m' = [m EXCEPT !.todo = Advance(w)]
           ELSE IF ~NhoodsFound(id) THEN m' = [m EXCEPT !.pc = "stopped"]
           ELSE \E nhood \in { Pruned(id, Repaired(id)) } :
                IF ~(Range(nhood) \subseteq DOMAIN m.idMap) THEN m' = [m EXCEPT !.pc = "stopped"]
                ELSE LET new == m.idMap[id]
                         rec == [point |-> Rec(id).point,
                                 nbrs |-> [ i \in DOMAIN nhood |-> m.idMap[nhood[i]] ]]
                     IN  m' = [m EXCEPT !.todo = Advance(w), !.used = @ + 1,
                                        !.wbuf = With(@, new % WindowSize, rec),
                                        !.newTags = With(@, new, tags[id]),
                                        !.newData = With(@, new, data[id])]
    /\ UNCHANGED <<indexVars, nextTag, deleted, dropped, delta, nMerges>>

(* write_back: the half of the window where wb_id stands, or what is left;  *)
(* whole sectors are written, so slots past the end go out with the last.   *)
WriteBack ==
    LET n == IF m.used - m.wbId < HalfWindow THEN m.used - m.wbId ELSE HalfWindow
        base == ((m.wbId % WindowSize) \div HalfWindow) * HalfWindow
        slots == { i \in 0 .. DivUp(n, NodesPerSector) * NodesPerSector - 1 :
                      base + i \in DOMAIN m.wbuf }
        written == { m.wbId + i : i \in slots }
    IN  [m EXCEPT !.wbId = @ + n,
                  !.out = [ l \in written \cup DOMAIN @ |->
                                IF l \in written THEN m.wbuf[base + l - m.wbId] ELSE @[l] ]]

ProcessNext ==
    /\ m.pc = "process" /\ ChunkDone
    /\ LET flushed == IF m.used - m.wbId >= HalfWindow THEN WriteBack ELSE m IN
       m' = IF LastChunk(MergeSectors) THEN [flushed EXCEPT !.pc = "flush"]
            ELSE StartChunk(flushed, MergeSectors, m.sector + MergeSectors)
    /\ UNCHANGED <<indexVars, nextTag, deleted, dropped, delta, nMerges>>

Flush ==
    /\ m.pc = "flush" /\ m.wbId < m.used
    /\ m' = WriteBack
    /\ UNCHANGED <<indexVars, nextTag, deleted, dropped, delta, nMerges>>

(* Mutant of NewEntry: the old id goes into the header. *)
EntryUnmapped(entry) == entry

(* What the header names: merge_deletes maps the id, the stream variant     *)
(* writes it as it is.                                                      *)
NewEntry(entry) == IF m.kind = "final" THEN m.idMap[entry] ELSE entry

(* A deleted medoid gives way to its first surviving neighbour; reading the *)
(* first of none is undefined, and ends the program.                        *)
EntryPoint ==
    /\ m.pc = "flush" /\ m.wbId = m.used
    /\ LET alone == Dead(medoid) /\ m.nhoods[medoid] = << >>
           entry == IF Dead(medoid) THEN m.nhoods[medoid][1] ELSE medoid
       IN  m' = IF alone THEN [m EXCEPT !.pc = "stopped"]
                ELSE [m EXCEPT !.pc = "install", !.header = NewEntry(entry)]
    /\ UNCHANGED <<indexVars, nextTag, deleted, dropped, delta, nMerges>>

(* merge_deletes under merge_lock, then reload: ids, locations and tags are *)
(* those of the new file, with cur_loc at a whole sector.                   *)
Install ==
    /\ m.pc = "install" /\ m.kind = "final"
    /\ \E ids \in {0 .. m.npoints - 1} :
          /\ layout' = [ l \in 0 .. DivUp(m.npoints, NodesPerSector) * NodesPerSector - 1 |->
                            IF l \in ids THEN l ELSE None ]
          /\ file' = [ l \in 0 .. DivUp(m.npoints, NodesPerSector) * NodesPerSector - 1 |->
                            IF l \in DOMAIN m.out THEN m.out[l] ELSE None ]
          /\ tags' = [ i \in ids |-> m.newTags[i] ]
          /\ data' = [ i \in ids |-> m.newData[i] ]
    /\ medoid' = m.header
    /\ dropped' = dropped \cup m.dels
    /\ m' = Idle
    /\ UNCHANGED <<nextTag, deleted, delta, nMerges>>

-----------------------------------------------------------------------------
(* rebuild_graph_in_place: chunk by chunk, no lock taken (nothing else runs *)
(* beside it here).                                                         *)
RebuildBegin ==
    /\ m.pc = "idle" /\ nMerges < MaxMerges
    /\ nMerges' = nMerges + 1
    /\ m' = [pc |-> "rebuild", sector |-> 0, dels |-> {}]
    /\ UNCHANGED <<indexVars, nextTag, deleted, dropped, delta>>

(* Mutant of RebuildNext: the loop does not advance. *)
RebuildSame == m.sector

RebuildNext == m.sector + MergeSectors

RebuildChunk ==
    /\ m.pc = "rebuild"
    /\ file' = [ l \in Locs |->
                    IF layout[l] # None /\ l \in m.sector * NodesPerSector .. ChunkEnd(m.sector, MergeSectors) - 1
                    THEN [file[l] EXCEPT !.nbrs = Pruned(layout[l], Range(@) \ {layout[l]})]
                    ELSE file[l] ]
    /\ m' = IF LastChunk(MergeSectors) THEN Idle ELSE [m EXCEPT !.sector = RebuildNext]
    /\ UNCHANGED <<layout, tags, data, medoid, nextTag, deleted, dropped, delta, nMerges>>

Restful ==
    /\ \/ m.pc = "stopped"
       \/ m.pc = "install" /\ m.kind = "stream"
       \/ /\ m.pc = "idle" /\ nMerges = MaxMerges
          /\ nextTag \notin Points
    /\ UNCHANGED mergeVars

MergeStep ==
    \/ \E w \in 1 .. Workers : Populate(w)
    \/ PopulateNext \/ Process \/ ProcessNext \/ Flush \/ EntryPoint \/ Install \/ RebuildChunk

Next ==
    \/ Insert
    \/ \E t \in Points : LazyDelete(t)
    \/ MergeBegin("final") \/ MergeBegin("stream")
    \/ RebuildBegin
    \/ MergeStep
    \/ Restful

Spec == Init /\ [][Next]_mergeVars /\ WF_mergeVars(MergeStep)

-----------------------------------------------------------------------------
(* The shape of the index and of the merge. *)
MergeTypeOK ==
    /\ layout \in [Locs -> Points \cup {None}]
    /\ DOMAIN file = Locs
    /\ \A l \in LiveLocs : file[l].point \in Points /\ file[l].nbrs \in Seq(Points)
    /\ tags \in [DOMAIN data -> Points] /\ data \in [DOMAIN tags -> Points]
    /\ medoid \in DOMAIN tags
    /\ deleted \subseteq Points /\ dropped \subseteq Points
    /\ m.pc \in {"idle", "populate", "process", "flush", "install", "rebuild", "stopped"}
    /\ m.pc \in {"populate", "process", "flush"} =>
          /\ m.wbId <= m.used /\ m.used <= m.npoints
          /\ m.used - m.wbId <= WindowSize

Between == m.pc \in {"idle", "rebuild"}

(* Renumbering, moving and rewriting records never mixes two points up: an  *)
(* id's record, its tag and its PQ code are of one point, and the index has *)
(* every point that was inserted and not dropped, once.                     *)
RecordsExact ==
    Between =>
        /\ { layout[l] : l \in LiveLocs } = DOMAIN tags
        /\ Cardinality(LiveLocs) = Cardinality(DOMAIN tags)
        /\ \A id \in DOMAIN tags : Rec(id).point = tags[id] /\ data[id] = tags[id]
        /\ Range(tags) = (0 .. nextTag - 1) \ dropped
        /\ IsInjective(tags)

(* No list names an id that is not in the index, its own id, or an id       *)
(* twice, or is longer than range, whatever the inserts, merges and         *)
(* rebuilds did.                                                            *)
ListsLive ==
    Between => \A id \in DOMAIN tags :
        LET l == Rec(id).nbrs IN
        /\ Range(l) \subseteq DOMAIN tags \ {id}
        /\ Len(l) <= R /\ IsInjective(l)

(* Between merges and rebuilds the index is well formed.                    *)
GraphInv == MergeTypeOK /\ RecordsExact /\ ListsLive

(* The survivors p may be linked to: its own surviving neighbours, and      *)
(* those of its deleted ones, n_sampled_nbrs of each.                       *)
Bridged(id) ==
    { n \in DOMAIN tags \ {id} :
        /\ ~Dead(n)
        /\ \E k \in Range(Rec(id).nbrs) : k = n \/ (Dead(k) /\ n \in Range(Sampled(k))) }

(* The file a merge leaves: every survivor once, its point, tag and PQ code *)
(* under one new id, no slot of the window lost or flushed before it was    *)
(* filled; its list is all it may be linked to when that fits, and else     *)
(* holds the nearest and, filled up, as many as range and maxc let in.      *)
OutputExact ==
    m.pc = "install" =>
        LET new == m.idMap
            survivors == { id \in DOMAIN tags : ~Dead(id) }
        IN  /\ DOMAIN new = survivors /\ IsInjective(new)
            /\ Range(new) = 0 .. m.npoints - 1 /\ Range(new) \subseteq DOMAIN m.out
            /\ \A id \in survivors :
                LET rec == m.out[new[id]]
                    all == { new[n] : n \in Bridged(id) }
                    gap(k) == Dist[tags[id], m.newTags[k]]
                IN  /\ rec.point = tags[id]
                    /\ m.newTags[new[id]] = tags[id] /\ m.newData[new[id]] = tags[id]
                    /\ Range(rec.nbrs) \subseteq all
                    /\ Cardinality(all) <= R => Range(rec.nbrs) = all
                    /\ Cardinality(all) > R =>
                          /\ Filling => Len(rec.nbrs) = IF MaxC < R THEN MaxC ELSE R
                          /\ \E k \in Range(rec.nbrs) : \A j \in all : gap(k) <= gap(j)

(* merge_deletes starts searches at the medoid, or where it is deleted at a *)
(* surviving neighbour of it.                                               *)
EntryPoints ==
    IF Dead(medoid) THEN { n \in Range(Rec(medoid).nbrs) : ~Dead(n) } ELSE {medoid}

(* A merge ends the program only when these are all deleted: no neighbour   *)
(* is ever missing from id_map or deleted_nhoods.                           *)
EntryKept ==
    /\ m.pc = "install" /\ m.kind = "final" => m.header \in { m.idMap[n] : n \in EntryPoints }
    /\ m.pc = "stopped" => EntryPoints = {}

(* Inserts and rebuilds never take a point's nearest neighbour from its     *)
(* list unless a nearer one is there.                                       *)
Nearest(points, id, list) ==
    CHOOSE d \in { Dist[points[id], points[n]] : n \in Range(list) } :
        \A n \in Range(list) : d <= Dist[points[id], points[n]]

NearestStays ==
    [][ (Between /\ Between') =>
            \A id \in DOMAIN tags : Rec(id).nbrs # << >> =>
                /\ Rec(id)'.nbrs # << >>
                /\ Nearest(data', id, Rec(id)'.nbrs) <= Nearest(data, id, Rec(id).nbrs) ]_mergeVars

(* A merge ends: it installs the new file, has written it, or has stopped.  *)
MergeEnds ==
    (m.pc # "idle") ~>
        (m.pc \in {"idle", "stopped"} \/ (m.pc = "install" /\ m.kind = "stream"))

=============================================================================
