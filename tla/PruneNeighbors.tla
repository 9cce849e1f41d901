--------------------------- MODULE PruneNeighbors ---------------------------
(***************************************************************************)
(* The pruning of a neighbour list to at most `range` ids: occlude_list    *)
(* (the alpha-RNG rule) and the callers that fill the list up again, in    *)
(* SSDIndex (prune_neighbors.cpp) and in Index (index.cpp).  Distances are *)
(* integers; a ratio of two of them is compared by multiplying out, which  *)
(* keeps the cases the floats have: x/0 is above every alpha for x > 0,    *)
(* and 0/0 (NaN) above none.  The two loops of the code keep, for every    *)
(* pool entry, the largest ratio to a point chosen before it: that is the  *)
(* quantifier of Occluded.                                                 *)
(***************************************************************************)
EXTENDS RankedLists

CONSTANTS
    Dist,        \* Dist[a, b]: the distance between two points
    R,           \* range
    MaxC,        \* maxc
    Alphas       \* the values cur_alpha takes, as <<num, den>>, rising; the last is alpha

ASSUME PruneAssumption ==
    /\ R \in Nat \ {0} /\ MaxC \in Nat \ {0}
    /\ Alphas \in Seq(Nat \X (Nat \ {0})) /\ Alphas # << >> /\ Alphas[1] = <<1, 1>>

Alpha == Alphas[Len(Alphas)]

Above(x, y, a) == x * a[2] > a[1] * y

(* The distance between the points that two ids stand for. *)
Gap(pointOf, a, b) == Dist[pointOf[a], pointOf[b]]

(* Mutant of Nearer: farthest first. *)
Farther(p, a, b, pointOf) ==
    \/ Gap(pointOf, p, a) > Gap(pointOf, p, b)
    \/ Gap(pointOf, p, a) = Gap(pointOf, p, b) /\ a < b

(* The order of Neighbor and of TriangleNeighbor: by distance to p, then id. *)
Nearer(p, a, b, pointOf) ==
    \/ Gap(pointOf, p, a) < Gap(pointOf, p, b)
    \/ Gap(pointOf, p, a) = Gap(pointOf, p, b) /\ a < b

ByDistance(p, ids, pointOf) ==
    << >> \o [ i \in 1 .. Cardinality(ids) |->
        CHOOSE n \in ids : Cardinality({ m \in ids : Nearer(p, m, n, pointOf) }) = i - 1 ]

SortedPool(p, ids, pointOf) ==
    Only({ ByDistance(p, given, of) : given \in {ids}, of \in {pointOf} })

(* occlude_factor[t] > a: a point chosen before pool[t] is much nearer to it *)
(* than p is.                                                                *)
Occluded(p, pool, chosen, t, a, pointOf) ==
    \E s \in chosen : s < t /\ Above(Gap(pointOf, p, pool[t]), Gap(pointOf, pool[s], pool[t]), a)

(* An entry is chosen while there is room for it. *)
Considered(p, pool, before, t, a, pointOf) ==
    IF /\ Cardinality(before) < R /\ t \notin before
       /\ ~Occluded(p, pool, before, t, a, pointOf)
    THEN before \cup {t} ELSE before

(* One pass of the outer loop, over the pool in order. *)
Pass(p, pool, chosen, a, pointOf) ==
    LET limit == IF Len(pool) < MaxC THEN Len(pool) ELSE MaxC
        scan[t \in 0 .. limit] ==
            IF t = 0 THEN chosen
            ELSE Only({ Considered(p, pool, before, t, a, pointOf) : before \in {scan[t - 1]} })
    IN  scan[limit]

(* The positions that are chosen when all passes are done. *)
Passes(p, pool, pointOf) ==
    LET pass[i \in 0 .. Len(Alphas)] ==
            IF i = 0 THEN {} ELSE Pass(p, pool, pass[i - 1], Alphas[i], pointOf)
    IN  pass[Len(Alphas)]

OccludeList(p, pool, pointOf) ==
    Only({ { given[t] : t \in Passes(p, given, of) } : given \in {pool}, of \in {pointOf} })

(* The rest of the pool, nearest first, until the list holds range ids. *)
Saturate(list, pool) ==
    LET more == Kept(pool, Range(pool) \ Range(list))
        room == R - Len(list)
    IN  list \o SubSeq(more, 1, IF Len(more) < room THEN Len(more) ELSE room)

(* saturate_graph: the filling is on when alpha is above one. *)
Filling == Above(Alpha[1], Alpha[2], <<1, 1>>)

(* prune_neighbors_pq: pool is the sorted candidates of p. *)
prune_neighbors_pq(p, pool, pointOf) ==
    LET chosen == OccludeList(p, pool, pointOf)
        list   == Kept(pool, chosen)
    IN  IF Filling THEN Saturate(list, pool) ELSE list

(* prune_neighbors: beyond three quarters of the chosen ids the medoid is   *)
(* dropped; the filling may bring it back.                                  *)
prune_neighbors(p, pool, medoid, pointOf) ==
    LET chosen == OccludeList(p, pool, pointOf)
        result == Kept(pool, chosen)
        limit  == (Len(result) * 3) \div 4
        list   == Kept(result, { result[i] : i \in { j \in DOMAIN result :
                                                  j <= limit + 1 \/ result[j] # medoid } })
    IN  IF Filling THEN Saturate(list, pool) ELSE list

-----------------------------------------------------------------------------
(* delta_prune_neighbors_pq: pool holds range + 1 ids with the new one, tgt; *)
(* the position to evict is the first that the triangle rule finds from the  *)
(* far end, with alpha falling; else the first entry that an earlier one     *)
(* occludes; else the farthest.                                              *)
FastEvict(p, pool, tgt, pointOf) ==
    LET d(i) == Gap(pointOf, p, pool[i])
        t    == CHOOSE i \in DOMAIN pool : pool[i] = tgt
        far(i) == IF d(i) > d(t) THEN d(i) ELSE d(t)
        Hits(a) == { i \in DOMAIN pool \ {t} :
                        Above(far(i), Gap(pointOf, tgt, pool[i]), a) }
        found == { k \in DOMAIN Alphas : Hits(Alphas[k]) # {} }
        first == CHOOSE k \in found : \A j \in found : j <= k
        i     == CHOOSE h \in Hits(Alphas[first]) : \A j \in Hits(Alphas[first]) : j <= h
    IN  IF found = {} THEN 0 ELSE IF d(i) > d(t) THEN i ELSE t

SlowEvict(p, pool, tgt, pointOf) ==
    LET d(i) == Gap(pointOf, p, pool[i])
        Hits == { st \in (DOMAIN pool) \X (DOMAIN pool) :
                    /\ st[1] < st[2] /\ pool[st[1]] # tgt
                    /\ Above(d(st[2]), Gap(pointOf, pool[st[1]], pool[st[2]]), Alpha) }
    IN  IF Hits = {} THEN Len(pool)
        ELSE (CHOOSE st \in Hits : \A o \in Hits :
                 st[1] < o[1] \/ (st[1] = o[1] /\ st[2] <= o[2]))[2]

delta_prune_neighbors_pq(p, pool, tgt, pointOf) ==
    LET fast == FastEvict(p, pool, tgt, pointOf)
    IN  RemoveAt(pool, IF fast # 0 THEN fast ELSE SlowEvict(p, pool, tgt, pointOf))

=============================================================================
