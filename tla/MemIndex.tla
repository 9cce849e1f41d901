------------------------------ MODULE MemIndex ------------------------------
(***************************************************************************)
(* The in-memory Vamana index (pipeann::Index, index.cpp), dynamic, with   *)
(* one frozen point behind the last location: build (link), insert_point,  *)
(* lazy_delete, search, consolidate with compact_data, resize, save and    *)
(* load.  Inserts, deletes and searches of several threads interleave at   *)
(* their locks: one step reads or writes one list under its node lock, or  *)
(* the tag maps under _tag_lock.  consolidate takes no lock: like the      *)
(* drivers, the model calls it, save and load alone.                       *)
(*                                                                         *)
(* A tag is always inserted with the same point, which has its name, and   *)
(* no two calls work on one tag at a time: of two concurrent deletions of  *)
(* a tag, the later would read _tag_to_location[tag] after the erase, and  *)
(* delete location 0.  The ids of a list are kept nearest first; the code  *)
(* keeps them by round of alpha, which nothing here tells apart.           *)
(*                                                                         *)
(* A save does not move a frozen point that has no neighbour, and the load *)
(* takes for it what lies behind the last node: from then on lost is TRUE, *)
(* and the calls go on from an entry that has no edge to the old nodes.    *)
(***************************************************************************)
EXTENDS PruneNeighbors, Functions

CONSTANTS
    Threads,
    Tags,        \* the tags that may be inserted
    Frozen,      \* the frozen point
    Starts,      \* indexes to load: [max, points, graph, deleted], the frozen list last
    ToLink,      \* or the points to build an index of
    Queries,     \* query points
    Batches,     \* sets of tags that lazy_delete is called with
    L,           \* the search list size
    K,           \* the results asked for
    Slack,       \* SLACK_FACTOR * range, rounded down
    LoadSizes,   \* max_points of the index that loads a saved one
    MaxInserts,  \* bound: calls of insert_point
    MaxCalls,    \* bound: calls on a loaded index
    CallsBuilt,  \* bound: calls on a built one
    None

Points == Tags \cup {Frozen}

(* A saved graph: the lists of its points and then of the frozen one, whose *)
(* location is behind the last that can be used.                            *)
WellFormed(start) ==
    LET nodes == 0 .. Len(start.points) - 1 \cup {start.max}
        node(i) == IF i > Len(start.points) THEN start.max ELSE i - 1
    IN  /\ Len(start.graph) = Len(start.points) + 1
        /\ \A i \in 1 .. Len(start.graph) :
              /\ start.graph[i] \in Seq(nodes \ {node(i)}) /\ IsInjective(start.graph[i])
              /\ Len(start.graph[i]) <= Slack

ASSUME MemAssumption ==
    /\ L \in Nat \ {0} /\ K \in 1 .. L /\ Slack \in Nat /\ Slack >= R
    /\ None \notin Tags /\ Frozen \notin Tags \cup {None} /\ LoadSizes \subseteq Nat
    /\ \A start \in Starts : start.max \in Nat /\ Len(start.points) <= start.max
    /\ \A start \in Starts : start.deleted \subseteq 0 .. Len(start.points) - 1
    /\ \A points \in { start.points : start \in Starts } \cup {ToLink} :
          points \in Seq(Tags) /\ IsInjective(points)
    /\ MaxInserts \in Nat /\ MaxCalls \in Nat /\ CallsBuilt \in 0 .. MaxCalls
    \* else the last node may be linked before the entry has a neighbour
    /\ Len(ToLink) >= Cardinality(Threads)

ASSUME DataAssumption ==
    /\ IsFiniteSet(Threads)
    /\ \A a, b \in Points \cup Queries \cup {None} : Dist[a, b] \in Nat
    /\ \A start \in Starts : WellFormed(start)

VARIABLES
    max, nd,            \* _max_points, _nd; the frozen point is at location max
    tagLoc, locTag,     \* _tag_to_location, _location_to_tag
    deleteSet,          \* _delete_set
    emptySlots,         \* _empty_slots
    point,              \* _data
    graph,              \* _final_graph
    saturate,           \* _saturate_graph
    phase, next,        \* "link": build is running, next is its loop's next node
    th,                 \* what each thread is doing
    lost,               \* history: a save left the frozen point behind
    inserts, calls,     \* calls of insert_point, and calls, so far
    alive               \* tags whose insertion returned and that nobody deleted

mapVars  == <<tagLoc, locTag, deleteSet>>
slotVars == <<max, nd, emptySlots>>
nodeVars == <<point, graph>>
restVars == <<saturate, lost, phase, inserts, calls, alive>>
memVars  == <<mapVars, slotVars, nodeVars, restVars, next, th>>

Free == [pc |-> "idle", tag |-> None]

Ep == max

Loaded(start) ==
    /\ max = start.max /\ nd = Len(start.points)
    /\ deleteSet = start.deleted
    /\ locTag = [ l \in 0 .. nd - 1 \ deleteSet |-> start.points[l + 1] ]
    /\ point = [ l \in 0 .. max |-> IF l < nd THEN start.points[l + 1]
                                    ELSE IF l = max THEN Frozen ELSE None ]
    /\ graph = [ l \in 0 .. max |-> IF l < nd THEN start.graph[l + 1]
                                    ELSE IF l = max THEN Last(start.graph) ELSE << >> ]
    /\ emptySlots = nd .. max - 1
    /\ saturate = FALSE /\ phase = "loaded" /\ next = 0

(* build: the points fill the index and are linked; the frozen one is a     *)
(* copy.  (With free locations the loop of link would take location _nd for *)
(* the frozen point; only builds that fill the index are modelled.)         *)
Building ==
    /\ max = Len(ToLink) /\ nd = max /\ deleteSet = {}
    /\ locTag = [ l \in 0 .. nd - 1 |-> ToLink[l + 1] ]
    /\ point = [ l \in 0 .. max |-> IF l < nd THEN ToLink[l + 1] ELSE Frozen ]
    /\ graph = [ l \in 0 .. max |-> << >> ]
    /\ emptySlots = {}
    /\ saturate \in BOOLEAN /\ phase = "link" /\ next = 0

Init ==
    /\ Building \/ \E start \in Starts : Loaded(start)
    /\ tagLoc = [ tag \in Range(locTag) |-> CHOOSE l \in DOMAIN locTag : locTag[l] = tag ]
    /\ lost = FALSE
    /\ alive = Range(locTag)
    /\ th = [ t \in Threads |-> Free ]
    /\ inserts = 0 /\ calls = IF phase = "link" THEN MaxCalls - CallsBuilt ELSE 0

Go(t, pc) == th' = [th EXCEPT ![t].pc = pc]

(* A call of thread t, while no other call works on the tag. *)
Called(t, tag) ==
    /\ phase # "link" /\ th[t].pc = "idle" /\ calls < MaxCalls
    /\ tag = None \/ \A u \in Threads : th[u].tag # tag
    /\ calls' = calls + 1

(* A call that runs alone: the others would race with it. *)
Alone ==
    /\ phase # "link" /\ calls < MaxCalls /\ \A t \in Threads : th[t].pc = "idle"
    /\ calls' = calls + 1

(* The calls that do not hold _update_lock. *)
Unlocked == {"idle", "grow", "again", "translate", "found", "crashed"}

-----------------------------------------------------------------------------
(* iterate_to_fixed_point for thread t: the list is the L nearest of the    *)
(* points measured so far; expand the nearest that is not expanded yet.     *)
(* at holds what was measured at each location.                             *)
With(f, k, v) == [ x \in DOMAIN f \cup {k} |-> IF x = k THEN v ELSE f[x] ]

Nearest(pool) == SubSeq(pool, 1, IF Len(pool) < L THEN Len(pool) ELSE L)

Best(t) ==
    Only({ Nearest(pool) :
             pool \in {SortedPool(-1, DOMAIN th[t].at, With(th[t].at, -1, th[t].query))} })

Walk(tag, loc, q, then) ==
    [pc |-> "walk", tag |-> tag, loc |-> loc, then |-> then,
     query |-> q, at |-> [ n \in {Ep} |-> point[n] ], expanded |-> {}]

(* The neighbours of n are measured, those that were not before. *)
Measured(at, n) ==
    [ k \in DOMAIN at \cup Range(graph[n]) |-> IF k \in DOMAIN at THEN at[k] ELSE point[k] ]

(* An edge behind the last location ends the program. *)
WalkStep(t) ==
    /\ th[t].pc = "walk"
    /\ \E rest \in {Kept(Best(t), DOMAIN th[t].at \ th[t].expanded)} :
          IF rest = << >> THEN Go(t, th[t].then)
          ELSE IF Range(graph[rest[1]]) \subseteq DOMAIN graph
          THEN th' = [th EXCEPT ![t].expanded = @ \cup {rest[1]},
                                ![t].at = Measured(@, rest[1])]
          ELSE Go(t, "crashed")
    /\ UNCHANGED <<slotVars, mapVars, nodeVars, next, restVars>>

-----------------------------------------------------------------------------
(* Index::prune_neighbors: the location itself is left out, and the list is *)
(* filled up only when the graph is to be saturated.                        *)
PrunedPool(loc, pool) ==
    LET others == Kept(pool, Range(pool) \ {loc})
        list   == Kept(others, OccludeList(loc, pool, point))
    IN  IF saturate /\ Above(Alpha[1], Alpha[2], <<1, 1>>) THEN Saturate(list, others) ELSE list

Prune(loc, ids) == Only({ PrunedPool(loc, pool) : pool \in {SortedPool(loc, ids, point)} })

(* The expanded nodes without the location itself are pruned to its list;   *)
(* prune_neighbors ends the program when there is none.                     *)
Assign(t) ==
    /\ th[t].pc = "assign"
    /\ LET pool == th[t].expanded \ {th[t].loc} IN
       IF pool = {} THEN Go(t, "crashed") /\ UNCHANGED graph
       ELSE \E list \in {Prune(th[t].loc, pool)} :
            /\ graph' = [graph EXCEPT ![th[t].loc] = list]
            /\ th' = [th EXCEPT ![t] = [pc |-> "link", tag |-> @.tag, loc |-> @.loc, todo |-> list]]
    /\ UNCHANGED <<slotVars, mapVars, point, next, restVars>>

(* inter_insert, one neighbour: the back link is added, or the list is      *)
(* copied under the lock and pruned after it is released.                   *)
BackLink(t) ==
    /\ th[t].pc = "link" /\ th[t].todo # << >>
    /\ LET des  == Head(th[t].todo)
           loc  == th[t].loc
           done == [th EXCEPT ![t].todo = Tail(@)]
       IN  IF loc \in Range(graph[des]) THEN th' = done /\ UNCHANGED graph
           ELSE IF Len(graph[des]) < Slack
           THEN th' = done /\ graph' = [graph EXCEPT ![des] = Append(@, loc)]
           ELSE /\ th' = [th EXCEPT ![t] =
                            [pc |-> "shrink", tag |-> @.tag, loc |-> loc, todo |-> @.todo,
                             copy |-> Range(graph[des]) \cup {loc}]]
                /\ UNCHANGED graph
    /\ UNCHANGED <<slotVars, mapVars, point, next, restVars>>

Shrink(t) ==
    /\ th[t].pc = "shrink"
    /\ LET des == Head(th[t].todo) IN
       graph' = [graph EXCEPT ![des] = Prune(des, th[t].copy \ {des})]
    /\ th' = [th EXCEPT ![t] = [pc |-> "link", tag |-> @.tag, loc |-> @.loc, todo |-> Tail(@.todo)]]
    /\ UNCHANGED <<slotVars, mapVars, point, next, restVars>>

Linked(t) ==
    /\ th[t].pc = "link" /\ th[t].todo = << >>
    /\ th' = [th EXCEPT ![t] = Free]
    /\ alive' = alive \cup ({th[t].tag} \ {None})
    /\ UNCHANGED <<slotVars, mapVars, nodeVars, next, saturate, lost, phase, inserts, calls>>

-----------------------------------------------------------------------------
(* link: the threads take the nodes in order; then the lists longer than    *)
(* range are pruned.                                                        *)
LinkNode(t) ==
    /\ phase = "link" /\ next <= max /\ th[t].pc = "idle"
    /\ next' = next + 1
    /\ th' = [th EXCEPT ![t] = Walk(None, next, point[next], "assign")]
    /\ UNCHANGED <<slotVars, mapVars, nodeVars, restVars>>

Cleanup ==
    /\ phase = "link" /\ next > max /\ \A t \in Threads : th[t].pc = "idle"
    /\ graph' = [ l \in DOMAIN graph |->
                    IF Len(graph[l]) > R THEN Prune(l, Range(graph[l]) \ {l}) ELSE graph[l] ]
    /\ phase' = "built" /\ next' = 0
    /\ UNCHANGED <<slotVars, mapVars, point, th, saturate, lost, inserts, calls, alive>>

-----------------------------------------------------------------------------
(* insert_point(tag): a tag that is there already is deleted first.         *)
Insert(t, tag) ==
    /\ Called(t, tag) /\ inserts < MaxInserts /\ inserts' = inserts + 1
    /\ th' = [th EXCEPT ![t] = [pc |-> IF tag \in DOMAIN tagLoc THEN "unlink" ELSE "reserve",
                                tag |-> tag]]
    /\ alive' = alive \ {tag}
    /\ UNCHANGED <<slotVars, mapVars, nodeVars, next, saturate, lost, phase>>

(* Mutant of EraseTag: the location keeps its tag. *)
EraseHalf(tag) ==
    /\ tagLoc' = [ g \in DOMAIN tagLoc \ {tag} |-> tagLoc[g] ]
    /\ UNCHANGED locTag

EraseTag(tag) ==
    /\ locTag' = [ l \in DOMAIN locTag \ {tagLoc[tag]} |-> locTag[l] ]
    /\ tagLoc' = [ g \in DOMAIN tagLoc \ {tag} |-> tagLoc[g] ]

Unlink(t) ==
    /\ th[t].pc = "unlink"
    /\ deleteSet' = deleteSet \cup {tagLoc[th[t].tag]}
    /\ EraseTag(th[t].tag)
    /\ Go(t, "reserve")
    /\ UNCHANGED <<slotVars, nodeVars, next, restVars>>

(* reserve_location; the data is compacted whenever an insertion may run.   *)
Take(t) ==
    /\ nd' = nd + 1 /\ emptySlots' = emptySlots \ {nd}
    /\ th' = [th EXCEPT ![t] = [pc |-> "place", tag |-> @.tag, loc |-> nd]]

Reserve(t) ==
    /\ th[t].pc = "reserve"
    /\ IF nd >= max THEN Go(t, "grow") /\ UNCHANGED <<nd, emptySlots>> ELSE Take(t)
    /\ UNCHANGED <<max, mapVars, nodeVars, next, restVars>>

(* An edge to the location `from` is made one to `to`. *)
Renamed(list, from, to) == [ i \in DOMAIN list |-> IF list[i] = from THEN to ELSE list[i] ]

(* Mutant of Resize: the vector of the frozen point is left behind. *)
ResizeBare(new) ==
    /\ max' = new
    /\ point' = [ l \in 0 .. new |-> IF l <= max THEN point[l] ELSE None ]
    /\ graph' = [ l \in 0 .. new |-> IF l = new THEN graph[max]
                                     ELSE IF l < max THEN Renamed(graph[l], max, new)
                                     ELSE << >> ]
    /\ emptySlots' = emptySlots \cup nd .. new - 1

(* resize: the frozen point moves behind the new last location. *)
Resize(new) ==
    /\ max' = new
    /\ point' = [ l \in 0 .. new |-> IF l = new THEN point[max]
                                     ELSE IF l < max THEN point[l] ELSE None ]
    /\ graph' = [ l \in 0 .. new |-> IF l = new THEN graph[max]
                                     ELSE IF l < max THEN Renamed(graph[l], max, new)
                                     ELSE << >> ]
    /\ emptySlots' = emptySlots \cup nd .. new - 1

(* What the call leaves when it releases the lock: the slots that are free. *)
Released(t) ==
    th' = [th EXCEPT ![t] = [pc |-> "again", tag |-> @.tag, since |-> nd, room |-> max' - nd]]

(* Mutant of Grow: a call that waits to grow the index keeps _update_lock. *)
GrowKeeping(t) ==
    /\ th[t].pc = "grow" /\ \A u \in Threads \ {t} : th[u].pc \in Unlocked \ {"grow"}
    /\ IF nd >= max THEN Resize((max * 3) \div 2) ELSE UNCHANGED <<max, point, graph, emptySlots>>
    /\ Released(t)
    /\ UNCHANGED <<nd, mapVars, next, restVars>>

(* The full index grows by half, under _update_lock taken exclusively.      *)
Grow(t) ==
    /\ th[t].pc = "grow" /\ \A u \in Threads \ {t} : th[u].pc \in Unlocked
    /\ IF nd >= max THEN Resize((max * 3) \div 2) ELSE UNCHANGED <<max, point, graph, emptySlots>>
    /\ Released(t)
    /\ UNCHANGED <<nd, mapVars, next, restVars>>

(* The second attempt is the last: the slots may have gone to other calls.  *)
Again(t) ==
    /\ th[t].pc = "again"
    /\ IF nd >= max THEN Go(t, "crashed") /\ UNCHANGED <<nd, emptySlots>> ELSE Take(t)
    /\ UNCHANGED <<max, mapVars, nodeVars, next, restVars>>

Place(t) ==
    /\ th[t].pc = "place"
    /\ tagLoc' = With(tagLoc, th[t].tag, th[t].loc)
    /\ locTag' = With(locTag, th[t].loc, th[t].tag)
    /\ Go(t, "fill")
    /\ UNCHANGED <<slotVars, deleteSet, nodeVars, next, restVars>>

Fill(t) ==
    /\ th[t].pc = "fill"
    /\ point' = [point EXCEPT ![th[t].loc] = th[t].tag]
    /\ th' = [th EXCEPT ![t] = Walk(@.tag, @.loc, @.tag, "assign")]
    /\ UNCHANGED <<slotVars, mapVars, graph, next, restVars>>

-----------------------------------------------------------------------------
(* lazy_delete(tag): the check, the delete set, the maps, a lock for each.  *)
Delete(t, tag) ==
    /\ Called(t, tag)
    /\ tag \in DOMAIN tagLoc
    /\ th' = [th EXCEPT ![t] = [pc |-> "delete", tag |-> tag]]
    /\ alive' = alive \ {tag}
    /\ UNCHANGED <<slotVars, mapVars, nodeVars, next, saturate, lost, phase, inserts>>

MarkDeleted(t) ==
    /\ th[t].pc = "delete"
    /\ deleteSet' = deleteSet \cup {tagLoc[th[t].tag]}
    /\ Go(t, "forget")
    /\ UNCHANGED <<slotVars, tagLoc, locTag, nodeVars, next, restVars>>

Forget(t) ==
    /\ th[t].pc = "forget"
    /\ EraseTag(th[t].tag)
    /\ th' = [th EXCEPT ![t] = Free]
    /\ UNCHANGED <<slotVars, deleteSet, nodeVars, next, restVars>>

(* lazy_delete of a set takes neither lock. *)
DeleteAll(tags) ==
    /\ Alone
    /\ LET gone == { tagLoc[tag] : tag \in tags \cap DOMAIN tagLoc } IN
       /\ deleteSet' = deleteSet \cup gone
       /\ locTag' = [ l \in DOMAIN locTag \ gone |-> locTag[l] ]
       /\ tagLoc' = [ tag \in DOMAIN tagLoc \ tags |-> tagLoc[tag] ]
    /\ alive' = alive \ tags
    /\ UNCHANGED <<slotVars, nodeVars, saturate, lost, phase, inserts, next, th>>

-----------------------------------------------------------------------------
(* search_with_tags: the walk; under the same lock, the L ids that are not  *)
(* the frozen point's; and their translation under _tag_lock, after         *)
(* _update_lock was released.  The list of the walk has L + 1 entries:      *)
(* those that it did not fill name location 0.                              *)
Search(t, q) ==
    /\ Called(t, None)
    /\ th' = [th EXCEPT ![t] = Walk(None, None, q, "collect")]
    /\ UNCHANGED <<slotVars, mapVars, nodeVars, next, saturate, lost, phase, inserts, alive>>

(* Mutant of Collect: the location of the frozen point is kept. *)
CollectAll(t) ==
    /\ th[t].pc = "collect"
    /\ LET best   == Best(t)
           filled == [ i \in DOMAIN best |-> <<best[i], th[t].at[best[i]]>> ]
       IN  th' = [th EXCEPT ![t] = [pc |-> "translate", tag |-> None, ids |-> filled]]
    /\ UNCHANGED <<slotVars, mapVars, nodeVars, next, restVars>>

(* An id goes with the point that was measured at it. *)
Collect(t) ==
    /\ th[t].pc = "collect"
    /\ LET best   == Best(t)
           filled == [ i \in DOMAIN best |-> <<best[i], th[t].at[best[i]]>> ]
           padded == filled \o [ i \in 1 .. L + 1 - Len(best) |-> <<0, None>> ]
           ids    == Kept(padded, { e \in Range(padded) : e[1] < max })
       IN  th' = [th EXCEPT ![t] = [pc |-> "translate", tag |-> None, ids |-> Nearest(ids)]]
    /\ UNCHANGED <<slotVars, mapVars, nodeVars, next, restVars>>

(* The first K that have a tag. *)
Translate(t) ==
    /\ th[t].pc = "translate"
    /\ LET tagged  == Kept(th[t].ids, { e \in Range(th[t].ids) : e[1] \in DOMAIN locTag })
           results == { <<locTag[tagged[i][1]], tagged[i][2]>> : i \in 1 .. K \cap DOMAIN tagged }
       IN  th' = [th EXCEPT ![t] = [pc |-> "found", tag |-> None, results |-> results]]
    /\ UNCHANGED <<slotVars, mapVars, nodeVars, next, restVars>>

Return(t) ==
    /\ th[t].pc = "found"
    /\ th' = [th EXCEPT ![t] = Free]
    /\ UNCHANGED <<slotVars, mapVars, nodeVars, next, restVars>>

-----------------------------------------------------------------------------
(* Mutant of Bridged: the node may become its own neighbour. *)
BridgedToSelf(l) ==
    LET bad  == Range(graph[l]) \cap deleteSet
        cand == (Range(graph[l]) \cup UNION { Range(graph[d]) : d \in bad }) \ deleteSet
        pool == SortedPool(l, cand, point)
    IN  IF bad = {} THEN graph[l]
        ELSE Kept(pool, OccludeList(l, pool, point))

(* Mutant of Bridged: a deleted node may be replaced by a deleted one. *)
BridgedOnce(l) ==
    LET bad  == Range(graph[l]) \cap deleteSet
        cand == (Range(graph[l]) \ deleteSet) \cup UNION { Range(graph[d]) : d \in bad }
        pool == SortedPool(l, cand, point)
    IN  IF bad = {} THEN graph[l]
        ELSE Kept(pool, OccludeList(l, pool, point) \ {l})

(* consolidate_deletes: an edge to a deleted node is replaced by the edges  *)
(* of that node, and the list pruned; it may end empty.                     *)
Bridged(l) ==
    LET bad  == Range(graph[l]) \cap deleteSet
        cand == (Range(graph[l]) \cup UNION { Range(graph[d]) : d \in bad }) \ deleteSet
        pool == SortedPool(l, cand, point)
    IN  IF bad = {} THEN graph[l]
        ELSE Kept(pool, OccludeList(l, pool, point) \ {l})

(* compact_data: the tagged locations close up, in order. *)
NewLocation(l) ==
    IF l \in DOMAIN locTag THEN Cardinality({ m \in DOMAIN locTag : m < l }) ELSE max

(* It ends the program at an edge to a location that has no tag.            *)
Dangling(lists) ==
    \E l \in DOMAIN locTag \cup {max} : \E i \in DOMAIN lists[l] :
        NewLocation(lists[l][i]) > lists[l][i]

(* What an edge behind the last location makes it read is undefined: the    *)
(* model ends there.                                                        *)
Beyond == \E l \in DOMAIN locTag \cup deleteSet \cup {max} : ~(Range(graph[l]) \subseteq DOMAIN graph)

Consolidate(t) ==
    /\ Alone /\ deleteSet # {}
    /\ \E lists \in { [ l \in DOMAIN graph |->
                          IF Beyond \/ l \in deleteSet \cup emptySlots THEN graph[l] ELSE Bridged(l) ] } :
       IF Beyond \/ Dangling(lists)
       THEN Go(t, "crashed") /\ UNCHANGED <<slotVars, mapVars, nodeVars>>
       ELSE LET Old(n) == CHOOSE l \in DOMAIN locTag : NewLocation(l) = n
                kept   == Cardinality(DOMAIN locTag)
            IN  /\ graph' = [ n \in DOMAIN graph |->
                      IF n >= kept /\ n # max THEN << >>
                      ELSE LET old == lists[IF n = max THEN max ELSE Old(n)]
                           IN  [ i \in DOMAIN old |-> NewLocation(old[i]) ] ]
                /\ point' = [ n \in DOMAIN point |-> IF n < kept THEN point[Old(n)] ELSE point[n] ]
                /\ tagLoc' = [ tag \in DOMAIN tagLoc |-> NewLocation(tagLoc[tag]) ]
                /\ locTag' = [ n \in 0 .. kept - 1 |-> locTag[Old(n)] ]
                /\ nd' = nd - Cardinality(deleteSet)
                /\ emptySlots' = nd' .. max - 1
                /\ deleteSet' = {}
                /\ UNCHANGED <<max, th>>
    /\ UNCHANGED <<saturate, lost, phase, inserts, alive, next>>

-----------------------------------------------------------------------------
(* compact_frozen_point: for a save, the frozen point comes behind the last *)
(* one; without a neighbour it stays, and what is left there is saved.      *)
FrozenMoves == nd < max /\ graph[max] # << >>

SavedGraph ==
    [ l \in 0 .. nd |->
        IF l = nd THEN graph[IF FrozenMoves THEN max ELSE nd]
        ELSE IF FrozenMoves THEN Renamed(graph[l], max, nd) ELSE graph[l] ]

SavedData == [ l \in 0 .. nd |-> point[IF l = nd /\ FrozenMoves THEN max ELSE l] ]

(* A location that has no tag is saved with tag 0. *)
SavedTags == [ l \in 0 .. nd - 1 |-> IF l \in DOMAIN locTag THEN locTag[l] ELSE 0 ]

(* load_data: an index that is too small grows. *)
LoadedMax(size) == IF nd + 1 > size + 1 THEN nd + 1 ELSE size

LoadedGraph(new) == [ l \in 0 .. new |-> IF l <= nd THEN SavedGraph[l] ELSE << >> ]

LoadedData(new) == [ l \in 0 .. new |-> IF l <= nd THEN SavedData[l] ELSE None ]

(* load_tags: the deleted locations, loaded first, get no tag. *)
LoadedTags == [ l \in 0 .. nd - 1 \ deleteSet |-> SavedTags[l] ]

(* reposition_frozen_point_to_end, and its edges with it. *)
MovedToEnd(lists, data, new) ==
    /\ graph' = [ l \in 0 .. new |->
           IF l = new THEN lists[nd] ELSE IF l < nd THEN Renamed(lists[l], nd, new) ELSE << >> ]
    /\ point' = [ l \in 0 .. new |->
           IF l = new THEN data[nd] ELSE IF l < nd THEN data[l] ELSE None ]

(* save, then load by an index of `size` locations.                         *)
SaveAndLoad(size) ==
    /\ Alone
    /\ lost' = (lost \/ (nd < max /\ ~FrozenMoves))
    /\ max' = LoadedMax(size)
    /\ MovedToEnd(LoadedGraph(max'), LoadedData(max'), max')
    /\ emptySlots' = nd .. max' - 1
    /\ locTag' = LoadedTags
    /\ tagLoc' = [ tag \in Range(LoadedTags) |->
                     CHOOSE l \in DOMAIN LoadedTags :
                         LoadedTags[l] = tag /\ \A m \in DOMAIN LoadedTags : LoadedTags[m] = tag => m <= l ]
    /\ saturate' = FALSE
    /\ UNCHANGED <<nd, deleteSet, phase, inserts, next, th, alive>>

-----------------------------------------------------------------------------
Finish(t) ==
    \/ WalkStep(t) \/ Assign(t) \/ BackLink(t) \/ Shrink(t) \/ Linked(t)
    \/ Unlink(t) \/ Reserve(t) \/ Grow(t) \/ Again(t) \/ Place(t) \/ Fill(t)
    \/ MarkDeleted(t) \/ Forget(t)
    \/ Collect(t) \/ Translate(t) \/ Return(t)

Begin(t) ==
    \/ \E tag \in Tags : Insert(t, tag) \/ Delete(t, tag)
    \/ \E q \in Queries : Search(t, q)

Next ==
    \/ \E t \in Threads : LinkNode(t) \/ Begin(t) \/ Finish(t) \/ Consolidate(t)
    \/ Cleanup
    \/ \E tags \in Batches : DeleteAll(tags)
    \/ \E size \in LoadSizes : SaveAndLoad(size)

Spec == Init /\ [][Next]_memVars

(* A call that can take a step is not stopped for ever. *)
FairSpec == Spec /\ WF_memVars(Cleanup \/ \E t \in Threads : LinkNode(t) \/ Finish(t))

(* The records of the calls: their fields, where the steps need them.       *)
CallTypeOK(t) ==
    /\ {"pc", "tag"} \subseteq DOMAIN th[t] /\ th[t].tag \in Tags \cup {None}
    /\ th[t].pc \in {"place", "fill", "walk", "assign", "link", "shrink"} => "loc" \in DOMAIN th[t]
    /\ th[t].pc = "walk" => "then" \in DOMAIN th[t] /\ th[t].then \in {"assign", "collect"}

MapTypeOK ==
    /\ max \in Nat /\ nd \in 0 .. max /\ DOMAIN point = 0 .. max
    /\ locTag \in [DOMAIN locTag -> Tags] /\ DOMAIN locTag \subseteq 0 .. nd - 1
    /\ tagLoc \in [DOMAIN tagLoc -> 0 .. nd - 1] /\ DOMAIN tagLoc \subseteq Tags
    /\ deleteSet \subseteq 0 .. nd - 1 /\ alive \subseteq Tags
    /\ DOMAIN th = Threads /\ \A t \in Threads : CallTypeOK(t)

(* The two maps are inverse to each other, and a tag that was inserted and  *)
(* not deleted leads to a live location that holds its vector: across       *)
(* growth, re-insertion, compaction and a load of what was saved.           *)
TagsExact ==
    /\ \A tag \in DOMAIN tagLoc : tagLoc[tag] \in DOMAIN locTag /\ locTag[tagLoc[tag]] = tag
    /\ \A l \in DOMAIN locTag : locTag[l] \in DOMAIN tagLoc /\ tagLoc[locTag[l]] = l
    /\ \A tag \in alive :
          /\ tag \in DOMAIN tagLoc
          /\ point[tagLoc[tag]] = tag
          /\ tagLoc[tag] \notin deleteSet \cup emptySlots

(* The assertion of consolidate_deletes, _empty_slots.size() + _nd ==       *)
(* _max_points, and what it stands for: each location is free, deleted,     *)
(* tagged, or held by one insertion that has not tagged it yet.             *)
SlotsCounted ==
    /\ emptySlots = nd .. max - 1
    /\ \A l \in 0 .. nd - 1 :
          \/ l \in DOMAIN locTag \cup deleteSet
          \/ \E t \in Threads : th[t].pc = "place" /\ th[t].loc = l
    /\ \A t, u \in Threads :
          th[t].pc = "place" /\ th[u].pc = "place" /\ t # u => th[t].loc # th[u].loc

(* What a call may rely on of its tag and location while others run.        *)
Linking(t) == th[t].pc \in {"assign", "link", "shrink"} \/ (th[t].pc = "walk" /\ th[t].then = "assign")

CallKnows(t) ==
    LET tag == th[t].tag
        loc == th[t].loc
        Tagged == tag \in DOMAIN tagLoc /\ tagLoc[tag] = loc /\ loc \notin deleteSet
    IN  /\ th[t].pc \in {"idle", "collect", "translate", "found"} => tag = None
        /\ th[t].pc = "walk" /\ th[t].then = "collect" => tag = None
        /\ th[t].pc \in {"unlink", "delete", "forget"} => tag \in DOMAIN tagLoc
        /\ th[t].pc = "forget" => tagLoc[tag] \in deleteSet
        /\ th[t].pc \in {"reserve", "grow", "again", "place"} => tag \in Tags \ DOMAIN tagLoc
        /\ th[t].pc = "place" => loc \in 0 .. nd - 1 \ (DOMAIN locTag \cup deleteSet)
        /\ th[t].pc = "fill" => Tagged
        /\ Linking(t) /\ tag # None => Tagged /\ point[loc] = tag

(* A tag is worked on by one call, and then it is not alive.  A tagged      *)
(* location is deleted only until the call that deletes it erases its tag.  *)
CallsApart ==
    /\ \A t \in Threads : th[t].tag \notin alive
    /\ \A t, u \in Threads : th[t].tag = th[u].tag /\ th[t].tag # None => t = u
    /\ \A tag \in DOMAIN tagLoc : tagLoc[tag] \in deleteSet =>
          \E t \in Threads : th[t].pc = "forget" /\ th[t].tag = tag

(* The inductive invariant of the maps and the slots. *)
MapsInv ==
    MapTypeOK /\ TagsExact /\ SlotsCounted /\ CallsApart /\ \A t \in Threads : CallKnows(t)

(* A location is a node of the graph from the time its vector is written.   *)
Pending == { th[t].loc : t \in { u \in Threads : th[u].pc \in {"place", "fill"} } }

Nodes == (0 .. nd - 1 \cup {max}) \ Pending

(* No edge leads to a location that is free or not written yet, to the node *)
(* itself or twice to one node: with searches, insertions and growth        *)
(* interleaving at their locks, and after compact_data renumbers the nodes. *)
GraphClosed ==
    /\ DOMAIN graph = 0 .. max
    /\ \A l \in 0 .. max :
          /\ graph[l] \in Seq(Nodes \ {l}) /\ IsInjective(graph[l])
          /\ l \notin Nodes => graph[l] = << >>

(* A node holds a vector, and one that is tagged its tag's. *)
VectorsInPlace ==
    /\ \A l \in 0 .. max : point[l] \in Points \cup {None}
    /\ \A l \in Nodes : point[l] \in Points
    /\ \A l \in DOMAIN locTag \cap Nodes : point[l] = locTag[l]

(* Back links fill a list to SLACK_FACTOR * range and no further; when      *)
(* build returns every list is down to range.                               *)
DegreeBounded ==
    /\ \A l \in 0 .. max : Len(graph[l]) <= Slack
    /\ phase = "built" /\ inserts = 0 => \A l \in 0 .. max : Len(graph[l]) <= R

(* What a call remembers of the graph stays true while others run.          *)
WalkHolds(t) ==
    /\ {"query", "at", "expanded", "loc", "then"} \subseteq DOMAIN th[t]
    /\ th[t].query \in Points \cup Queries
    /\ DOMAIN th[t].at \subseteq Nodes /\ Ep \in DOMAIN th[t].at
    /\ th[t].at = [ n \in DOMAIN th[t].at |-> point[n] ]
    /\ th[t].expanded \subseteq DOMAIN th[t].at
    /\ IF th[t].expanded = {} THEN DOMAIN th[t].at = {Ep} /\ th[t].pc = "walk"
                              ELSE Ep \in th[t].expanded

CallHolds(t) ==
    /\ th[t].pc \in {"walk", "assign", "collect"} => WalkHolds(t)
    /\ Linking(t) => th[t].loc \in Nodes
    /\ th[t].pc \in {"link", "shrink"} =>
          "todo" \in DOMAIN th[t] /\ th[t].todo \in Seq(Nodes \ {th[t].loc})
    /\ th[t].pc = "shrink" =>
          /\ th[t].todo # << >> /\ "copy" \in DOMAIN th[t]
          /\ th[t].copy \subseteq Nodes /\ th[t].loc \in th[t].copy
    /\ th[t].pc = "translate" =>
          /\ "ids" \in DOMAIN th[t] /\ th[t].ids \in Seq(Range(th[t].ids))
          /\ \A e \in Range(th[t].ids) :
                e[2] # None => e[1] \in Nodes /\ e[1] < nd /\ e[2] = point[e[1]]
    /\ th[t].pc = "found" => \A r \in th[t].results : r[2] \in {r[1], None}

(* Build runs alone, and until an insertion nothing links nodes after it.   *)
PhaseKnown ==
    /\ phase = "link" =>
          /\ nd = max /\ next \in Nat
          /\ \A t \in Threads : th[t].pc \in {"idle", "crashed"} \/ Linking(t)
    /\ phase = "built" /\ inserts = 0 =>
          \A t \in Threads :
              ~Linking(t) /\ th[t].pc \notin {"unlink", "reserve", "grow", "again", "place", "fill"}
    /\ inserts \in Nat

(* The inductive invariant of the lists. *)
ListsInv ==
    /\ GraphClosed /\ VectorsInPlace /\ DegreeBounded /\ PhaseKnown
    /\ \A t \in Threads : CallHolds(t)

(* The maps, the slots, the lists and what every call knows of them are     *)
(* well formed at every step of every thread; the lists until a save leaves *)
(* the frozen point behind, with edges to where it was.                     *)
MemInv == MapsInv /\ (lost \/ ListsInv)

(* An insertion that found the index full: since it released the lock, with *)
(* at least one slot free, other calls have taken all that were free then.  *)
(* (Half of one location is none: that index never grows.)                  *)
Overtaken(t) ==
    /\ "room" \in DOMAIN th[t] /\ nd - th[t].since >= th[t].room
    /\ th[t].room > 0 \/ max < 2

(* The crash() calls of prune_neighbors (no candidate), compact_data (an    *)
(* edge to a removed node) and the walk (an edge behind the last location)  *)
(* are reached only after the frozen point was left behind, and that of     *)
(* insert_point (no slot at the second attempt) only when other insertions  *)
(* took every slot meanwhile.                                               *)
NeverCrashes == \A t \in Threads : th[t].pc = "crashed" => lost \/ Overtaken(t)

(* A tag that search_with_tags returns belongs to the vector the walk       *)
(* measured: the translation comes after _update_lock was released, and     *)
(* growth, deletions and insertions may have run in between.  (Once the     *)
(* frozen point was left behind, edges may lead to free locations.)         *)
ResultsMatch ==
    \A t \in Threads : th[t].pc = "found" =>
        lost \/ \A r \in th[t].results : r[2] \in {r[1], None}

(* The comment of compact_frozen_point: "set new _ep to be frozen point".   *)
(* The node that walks start from holds the frozen point's vector through   *)
(* growth, compaction, saves and loads of other sizes, until a save of an   *)
(* index that has room and whose frozen point has no neighbour; after that  *)
(* the vector is nowhere, and no later call brings it back.                 *)
EntryFrozen == (point[Ep] = Frozen) <=> ~lost

(* Every call returns: an insertion that waits for _update_lock to grow the *)
(* index gets it, and build comes to its end.  (The calls being bounded, at *)
(* some time all have returned, but for one that ended the program.)        *)
CallsReturn == []<>(phase # "link" /\ \A t \in Threads : th[t].pc \in {"idle", "crashed"})

=============================================================================
