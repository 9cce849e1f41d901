---------------------------- MODULE CandidateList ----------------------------
(***************************************************************************)
(* The candidate list (retset) that every search of the disk index keeps:  *)
(* the best l_search ids it has met, nearest first by PQ distance, with    *)
(* the ids already read unflagged.  beam_search.cpp, page_search.cpp,      *)
(* pipe_search.cpp and coro_search.cpp hold the same loops as lambdas;     *)
(* here they are functions of one record c.  A query is two distance       *)
(* functions, pq (estimated) and exact; what a record of the file holds is *)
(* Graph and Page, fixed while searches run (InsertIO changes records).    *)
(***************************************************************************)
EXTENDS RankedLists

CONSTANTS
    Nodes,      \* ids of the points of the index
    Queries,    \* queries, each two distance functions on Nodes
    Graph,      \* Graph[n]: the neighbours in n's record, in order
    Page,       \* id2page
    Tag,        \* id2tag
    Deleted,    \* exclude_nodes: the deleted tags
    Candidates, \* candidate_set: the tags a filtered search may return
    LSearch,    \* l_search as the caller gave it (original_l_search)
    KSearch,    \* k_search
    Beam,       \* beam_width
    RefineCapacity \* refine_capacity

ASSUME ListAssumption ==
    /\ Nodes \subseteq Nat /\ IsFiniteSet(Nodes)
    /\ Queries \subseteq [pq : [Nodes -> Int], exact : [Nodes -> Int]]
    /\ Graph \in [Nodes -> Seq(Nodes)]
    /\ {LSearch, KSearch, Beam, RefineCapacity} \subseteq Nat \ {0}
    /\ Candidates \subseteq Nodes

(* FoldLeft, with the accumulator bound to a value before op sees it: TLC   *)
(* evaluates an operator's argument anew at each use.                       *)
Through(op(_, _), base, seq) ==
    LET F[i \in 0 .. Len(seq)] ==
            IF i = 0 THEN base
            ELSE CHOOSE y \in {op(x, seq[i]) : x \in {F[i - 1]}} : TRUE
    IN  F[Len(seq)]

(* Neighbor(id, distance, true); done is Neighbor::visited of the pipe.     *)
Entry(n) == [id |-> n, flag |-> TRUE, done |-> FALSE]

Ids(pool) == {pool[i].id : i \in DOMAIN pool}

(* Mutant of InsertIntoPool: the bisection keeps the wrong half. *)
InsertLeftOf(d, pool, n) ==
    IF d[pool[1].id] > d[n] THEN 0
    ELSE IF d[Last(pool).id] < d[n] THEN Len(pool) ELSE 1

(* InsertIntoPool: the position, from 0, at which n goes.  The ids of the   *)
(* list are distinct from n (see Offer), so its search for an equal id,     *)
(* which walks left over equal distances, never finds one.                  *)
InsertIntoPool(d, pool, n) ==
    LET at(i) == d[pool[i + 1].id]
        Bisect[lr \in (0 .. Len(pool) - 1) \X (0 .. Len(pool) - 1)] ==
            LET left == lr[1]
                right == lr[2]
                mid == (left + right) \div 2
            IN  IF right > 1 /\ left < right - 1
                THEN Bisect[IF at(mid) > d[n] THEN <<left, mid>> ELSE <<mid, right>>]
                ELSE right
    IN  IF at(0) > d[n] THEN 0
        ELSE IF at(Len(pool) - 1) < d[n] THEN Len(pool)
        ELSE Bisect[<<0, Len(pool) - 1>>]

(* push_to_heap, on the ids of the heap, nearest first: a full heap changes *)
(* only for an id nearer than its top.                                      *)
PushHeap(d, heap, n, cap) ==
    LET pushed == InsertAt(heap, 1 + Cardinality({i \in DOMAIN heap : d[heap[i]] <= d[n]}), n)
    IN  SubSeq(pushed, 1, IF Len(pushed) > cap THEN cap ELSE Len(pushed))

(* An id is met: it enters visited and, in a filtered search, the heap of   *)
(* candidates by PQ distance if its tag is one.                             *)
Meet(c, n) ==
    [c EXCEPT !.seen = @ \union {n},
              !.cands = IF c.kind = "filter" /\ Tag[n] \in Candidates
                        THEN PushHeap(c.query.pq, @, n, RefineCapacity) ELSE @]

(* One neighbour id of an expanded record.  cur_list_size never shrinks: a  *)
(* list longer than an l_search that was lowered keeps its length.          *)
Offer(c, n) ==
    LET d == c.query.pq
        size == Len(c.pool)
        r == InsertIntoPool(d, c.pool, n)
    IN  IF n \in c.seen THEN c
        ELSE IF size = c.L /\ d[n] >= d[Last(c.pool).id] THEN Meet(c, n)
        ELSE [Meet(c, n) EXCEPT
                !.pool = SubSeq(InsertAt(@, r + 1, Entry(n)), 1,
                                IF size < c.L THEN size + 1 ELSE size),
                !.nk = IF r < @ THEN r ELSE @]

(* dyn_search_l: l_search becomes the length of the shortest prefix of the  *)
(* list with LSearch entries that may be returned, or one more than the     *)
(* list when it has fewer.                                                  *)
MayReturn(c, n) == Tag[n] \notin Deleted /\ (c.kind = "filter" => Tag[n] \in Candidates)

ResizeL(c) ==
    LET usable(i) == Cardinality({j \in 1 .. i : MayReturn(c, c.pool[j].id)})
        enough == {i \in DOMAIN c.pool : usable(i) = LSearch}
        length == IF enough = {} THEN Len(c.pool) + 1
                  ELSE CHOOSE i \in enough : \A j \in enough : i <= j
    IN  IF c.dyn THEN [c EXCEPT !.L = IF length > LSearch THEN length ELSE LSearch] ELSE c

(* A record is expanded: its exact distance is kept and every neighbour is  *)
(* offered.  A filtered search keeps the distance of candidates only, in a  *)
(* heap of the KSearch nearest.  page is the page the record was taken from.*)
Expand(c, n, page) ==
    LET keep == IF c.kind # "filter" THEN [c EXCEPT !.full = Append(@, <<n, page>>)]
                ELSE [c EXCEPT !.computed = @ \union {n},
                               !.heap = IF Tag[n] \in Candidates
                                        THEN PushHeap(c.query.exact, @, n, KSearch) ELSE @]
    IN  Only({ResizeL(x) : x \in {Through(Offer, keep, Graph[n])}})

ExpandAll(c, ids) == Through(LAMBDA x, n : Expand(x, n, Page[n]), c, ids)

(* operator< of Neighbor: by distance, then by id.                          *)
Nearer(d, n, m) == d[n] < d[m] \/ (d[n] = d[m] /\ n < m)

(* The start of a search: the first ids the in-memory index gives, or the   *)
(* entry point, sorted (compute_and_add_to_retset, std::sort).              *)
SortPool(c) ==
    LET at == DOMAIN c.pool
        sorted == InOrder(at, {ij \in at \X at :
                                 Nearer(c.query.pq, c.pool[ij[1]].id, c.pool[ij[2]].id)})
    IN  [c EXCEPT !.pool = <<>> \o [i \in at |-> @[sorted[i]]]]

NewList(kind, dyn, query, entries) ==
    LET first == SubSeq(entries, 1, IF Len(entries) < LSearch THEN Len(entries) ELSE LSearch)
        empty == [kind |-> kind, dyn |-> dyn, query |-> query, L |-> LSearch,
                  pool |-> [i \in DOMAIN first |-> Entry(first[i])],
                  seen |-> {}, full |-> <<>>, k |-> 0, nk |-> 0, front |-> <<>>,
                  pages |-> {}, snap |-> <<>>,
                  heap |-> <<>>, cands |-> <<>>, computed |-> {}, batch |-> <<>>]
    IN  Through(Meet, empty, first)

(* The next beam: the first flagged entries from k on; a page search passes *)
(* over those whose page it has read.                                       *)
PickBeam(c) ==
    LET pick(x, i) ==
            LET n == c.pool[i].id IN
            IF /\ i > c.k /\ Len(x.front) < Beam
               /\ c.pool[i].flag
               /\ c.kind = "page" => Page[n] \notin x.pages
            THEN [x EXCEPT !.front = Append(@, n), !.pool[i].flag = FALSE,
                           !.pages = @ \union {Page[n]}]
            ELSE x
    IN  Through(pick, [c EXCEPT !.front = <<>>, !.nk = Len(c.pool)],
                 [i \in DOMAIN c.pool |-> i])

(* Mutant of EndRound: k stays when nothing changed. *)
EndRoundStays(c) == [c EXCEPT !.k = IF c.nk <= @ THEN c.nk ELSE @]

(* k goes back to the best position the round changed, or one further.      *)
EndRound(c) == [c EXCEPT !.k = IF c.nk <= @ THEN c.nk ELSE @ + 1]

(* The other records of a page that was read for n, by exact distance.      *)
RestOfPage(c, n) ==
    LET others == {m \in Nodes \ {n} : Page[m] = Page[n]}
    IN  InOrder(others, {ml \in others \X others : Nearer(c.query.exact, ml[1], ml[2])})

(* Mutant of Explore: the pages of the previous round are dropped. *)
ExploreFront(c) == EndRound([ExpandAll(c, c.front) EXCEPT !.snap = c.front])

(* What a round does with the records it read.  A page search works on the  *)
(* rest of the pages of the round before while its reads are under way.     *)
Explore(c) ==
    LET withPage(x, n) == ExpandAll(x, RestOfPage(x, n))
        passed == IF c.kind = "page" THEN Through(withPage, c, c.snap) ELSE c
        snap == IF c.kind = "page" THEN c.front ELSE c.snap
    IN  Only({EndRound([x EXCEPT !.snap = snap]) : x \in {ExpandAll(y, c.front) : y \in {passed}}})

SearchEnds(c) == c.k >= Len(c.pool)

(***************************************************************************)
(* What a finished list owes its caller.                                   *)
(***************************************************************************)
Expanded(c) == {c.full[i][1] : i \in DOMAIN c.full} \union c.computed

(* The fixed point the search iterates to: every entry of the list has been *)
(* expanded, and the neighbours of every expanded record have been met.     *)
FixedPoint(c) ==
    /\ Ids(c.pool) \subseteq Expanded(c)
    /\ \A n \in Ids(c.pool) : ToSet(Graph[n]) \subseteq c.seen

(* The list is sorted, holds no id twice and is the best of what was met.   *)
Best(c) ==
    LET d == c.query.pq
        ids == [i \in DOMAIN c.pool |-> c.pool[i].id]
    IN  /\ IsInjective(ids)
        /\ \A i \in 1 .. Len(ids) - 1 : d[ids[i]] <= d[ids[i + 1]]
        /\ ~c.dyn => \A n \in c.seen \ Ids(c.pool) :
                        Len(ids) = LSearch /\ d[n] >= d[Last(ids)]
=============================================================================
