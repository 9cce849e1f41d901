---------------------------- MODULE PruneProofs ----------------------------
(***************************************************************************)
(* Facts about the operators of PruneNeighbors, for every pool: a sorted   *)
(* pool holds each candidate once, nearest first; pruning chooses at most  *)
(* range of them, the nearest among them; filling up keeps to the pool;    *)
(* delta pruning evicts one and keeps an entry as near as the nearest.     *)
(***************************************************************************)
EXTENDS PruneNeighbors, ListProofs

(* Candidates whose distances to p are known, sorted: each of them once,    *)
(* nearest first (std::sort with operator< of Neighbor).                    *)
LEMMA SortedPoolLists ==
    ASSUME NEW p, NEW ids, IsFiniteSet(ids), ids \subseteq Int, NEW pointOf,
           \A n \in ids : Gap(pointOf, p, n) \in Int,
           NEW pool, pool = SortedPool(p, ids, pointOf)
    PROVE  /\ Cardinality(ids) \in Nat /\ pool \in Seq(ids) /\ Len(pool) = Cardinality(ids)
           /\ IsInjective(pool) /\ Range(pool) = ids
           /\ \A i, j \in DOMAIN pool : i < j => Nearer(p, pool[i], pool[j], pointOf)
<1> DEFINE B == { ab \in ids \X ids : Nearer(p, ab[1], ab[2], pointOf) }
           n == Cardinality(ids)
           elem(i) == CHOOSE a \in ids : Cardinality({ m \in ids : Nearer(p, m, a, pointOf) }) = i - 1
           list == [ i \in 1 .. n |-> elem(i) ]
<1>1. pool = << >> \o list
  <2>1. pool = Only({ByDistance(p, ids, pointOf)})  BY DEF SortedPool
  <2> QED BY <2>1, OnlyOne DEF ByDistance
<1> DEFINE rank == RankIn(ids, B)
<1>2. \A a \in ids : rank[a] = Cardinality({ m \in ids : Nearer(p, m, a, pointOf) })
  <2>1. \A a \in ids : { m \in ids : Nearer(p, m, a, pointOf) } = Preceding(ids, B, a)
    BY DEF Preceding
  <2> QED BY <2>1 DEF RankIn
<1>3. Lists(list, ids, B)
  <2>1. list = [ i \in 1 .. n |-> list[i] ]
    <3> HIDE DEF elem
    <3> QED OBVIOUS
  <2>2. ASSUME NEW i \in 1 .. n, NEW a \in ids, rank[a] = i - 1
        PROVE  list[i] \in ids /\ rank[list[i]] = i - 1
    <3>1. list[i] = CHOOSE b \in ids : Cardinality({ m \in ids : Nearer(p, m, b, pointOf) }) = i - 1
      OBVIOUS
    <3> HIDE DEF rank, list
    <3>2. Cardinality({ m \in ids : Nearer(p, m, a, pointOf) }) = i - 1  BY <1>2, <2>2
    <3>3. /\ list[i] \in ids
          /\ Cardinality({ m \in ids : Nearer(p, m, list[i], pointOf) }) = i - 1
      BY <3>1, <3>2
    <3> QED BY <1>2, <3>3
  <2> HIDE DEF list
  <2> QED BY <2>1, <2>2 DEF Lists
<1>4. \A a, b \in ids : <<a, b>> \in B <=> Nearer(p, a, b, pointOf)  OBVIOUS
<1> HIDE DEF B, list, rank
<1>5. StrictOrder(ids, B)
  <2> DEFINE d(a) == Gap(pointOf, p, a)
  <2>1. \A a \in ids : d(a) \in Int /\ a \in Int  OBVIOUS
  <2>2. \A a, b \in ids : <<a, b>> \in B <=> d(a) < d(b) \/ (d(a) = d(b) /\ a < b)
    BY <1>4 DEF Nearer
  <2> HIDE DEF d
  <2> QED BY <2>1, <2>2 DEF StrictOrder
<1>6. /\ n \in Nat /\ list \in [1 .. n -> ids]
      /\ \A a \in ids : \E i \in 1 .. n : list[i] = a
      /\ \A i, j \in 1 .. n : i < j => <<list[i], list[j]>> \in B
      /\ \A i, j \in 1 .. n : list[i] = list[j] => i = j
  BY <1>3, <1>5, Listed
<1>7. pool = list /\ pool \in Seq(ids) /\ Len(pool) = n /\ DOMAIN pool = 1 .. n
  BY <1>1, <1>6, AsSequence
<1>8. \A i, j \in DOMAIN pool : i < j => Nearer(p, pool[i], pool[j], pointOf)
  BY <1>4, <1>6, <1>7
<1>9. IsInjective(pool)  BY <1>6, <1>7 DEF IsInjective
<1>10. Range(pool) = ids
  <2>1. \A i \in DOMAIN pool : pool[i] \in ids  BY <1>6, <1>7
  <2>2. \A a \in ids : \E i \in DOMAIN pool : pool[i] = a  BY <1>6, <1>7
  <2> HIDE DEF n, elem
  <2>3. Range(pool) \subseteq ids  BY <2>1 DEF Range
  <2>4. ids \subseteq Range(pool)  BY <2>2 DEF Range
  <2> QED BY <2>3, <2>4
<1> QED BY <1>6, <1>7, <1>8, <1>9, <1>10

(* The parts of it that proofs cite. *)
LEMMA SortedPoolParts ==
    ASSUME NEW p, NEW ids, IsFiniteSet(ids), ids \subseteq Int, NEW pointOf,
           \A n \in ids : Gap(pointOf, p, n) \in Int,
           NEW pool, pool = SortedPool(p, ids, pointOf)
    PROVE  /\ Cardinality(ids) \in Nat /\ pool \in Seq(ids) /\ Len(pool) = Cardinality(ids)
           /\ IsInjective(pool) /\ Range(pool) = ids
<1>1. pool \in Seq(ids) /\ Len(pool) = Cardinality(ids) /\ Cardinality(ids) \in Nat
  BY SortedPoolLists
<1>2. pool \in Seq(ids) /\ IsInjective(pool) /\ Range(pool) = ids  BY SortedPoolLists
<1> QED BY <1>1, <1>2

(* A choice of at most range positions. *)
Choice(pool) == { c \in SUBSET (1 .. Len(pool)) : IsFiniteSet(c) /\ Cardinality(c) <= R }

(* One pool entry considered: nothing is dropped and at most range are      *)
(* chosen (the size test of occlude_list).                                  *)
LEMMA ConsideredKeeps ==
    ASSUME NEW p, NEW pool, Len(pool) \in Nat, NEW before \in Choice(pool),
           NEW t \in 1 .. Len(pool), NEW a, NEW pointOf,
           NEW c, c = Considered(p, pool, before, t, a, pointOf)
    PROVE  c \in Choice(pool) /\ before \subseteq c /\ (before = {} => c = {t})
<1> USE PruneAssumption
<1>1. IsFiniteSet(before) /\ Cardinality(before) \in Nat /\ Cardinality(before) <= R
  BY FS_CardinalityType DEF Choice
<1>2. before \subseteq 1 .. Len(pool)  BY DEF Choice
<1>3. CASE c = before \cup {t} /\ Cardinality(before) < R
  <2>1. IsFiniteSet(c) /\ Cardinality(c) <= Cardinality(before) + 1
    <3>1. /\ IsFiniteSet(before \cup {t})
          /\ Cardinality(before \cup {t}) =
                IF t \in before THEN Cardinality(before) ELSE Cardinality(before) + 1
      BY <1>1, FS_AddElement
    <3> QED BY <3>1, <1>3, <1>1
  <2>2. Cardinality(c) \in Nat  BY <2>1, FS_CardinalityType
  <2>3. Cardinality(c) <= R  BY <1>1, <1>3, <2>1, <2>2
  <2> QED BY <1>2, <1>3, <2>1, <2>3 DEF Choice
<1>4. CASE c = before /\ before # {}
  BY <1>4
<1>5. CASE before = {}
  <2>1. Cardinality(before) = 0  BY <1>5, FS_EmptySet
  <2>2. ~Occluded(p, pool, before, t, a, pointOf)  BY <1>5 DEF Occluded
  <2>3. c = before \cup {t} /\ Cardinality(before) < R  BY <1>5, <2>1, <2>2 DEF Considered
  <2> QED BY <1>3, <2>3
<1> QED BY <1>3, <1>4, <1>5 DEF Considered

(* One pass over a sorted pool keeps what was chosen, chooses at most range *)
(* entries, and from nothing chooses the nearest first.                     *)
LEMMA PassChooses ==
    ASSUME NEW p, NEW pool, Len(pool) \in Nat, NEW chosen \in Choice(pool), NEW a, NEW pointOf,
           NEW c, c = Pass(p, pool, chosen, a, pointOf)
    PROVE  /\ c \in Choice(pool) /\ chosen \subseteq c
           /\ chosen = {} /\ Len(pool) # 0 => 1 \in c
<1> DEFINE n == IF Len(pool) < MaxC THEN Len(pool) ELSE MaxC
           next(t, before) == Considered(p, pool, before, t, a, pointOf)
           body(f) == [ t \in 0 .. n |-> IF t = 0 THEN chosen
                          ELSE Only({ next(t, before) : before \in {f[t - 1]} }) ]
           scan == CHOOSE f : f = body(f)
<1>1. c = scan[n]  BY DEF Pass
<1>2. n \in Nat /\ n <= Len(pool) /\ (Len(pool) # 0 => n >= 1)  BY PruneAssumption
<1> HIDE DEF n
<1>3. \A t, before : Only({ next(t, b) : b \in {before} }) = next(t, before)
  <2>1. \A t, before : { next(t, b) : b \in {before} } = {next(t, before)}
    <3> HIDE DEF next
    <3> QED OBVIOUS
  <2> HIDE DEF next
  <2> QED BY <2>1, OnlyOne
<1>4. \A before \in Choice(pool), t \in 1 .. n :
          next(t, before) \in Choice(pool) /\ before \subseteq next(t, before)
          /\ (before = {} => next(t, before) = {t})
  <2> SUFFICES ASSUME NEW before \in Choice(pool), NEW t \in 1 .. n
               PROVE  next(t, before) \in Choice(pool) /\ before \subseteq next(t, before)
                      /\ (before = {} => next(t, before) = {t})
    OBVIOUS
  <2>1. t \in 1 .. Len(pool)  BY <1>2
  <2> QED BY <2>1, ConsideredKeeps
<1> HIDE DEF next
<1>5. scan = body(scan)
  <2> DEFINE step == [ tb \in (1 .. n) \X Choice(pool) |-> next(tb[1], tb[2]) ]
  <2>1. step \in [(1 .. n) \X Choice(pool) -> Choice(pool)]  BY <1>4
  <2>2. PICK f \in [0 .. n -> Choice(pool)] : Recursion(f, n, chosen, step)
    <3> HIDE DEF step
    <3> QED BY <1>2, <2>1, RecursionExists
  <2>3. f[0] = chosen /\ \A t \in 1 .. n : f[t] = next(t, f[t - 1])
    <3>1. \A t \in 1 .. n, b \in Choice(pool) : step[<<t, b>>] = next(t, b)  OBVIOUS
    <3> HIDE DEF step
    <3>2. f[0] = chosen /\ \A t \in 1 .. n : f[t] = step[<<t, f[t - 1]>>]  BY <2>2 DEF Recursion
    <3>3. \A t \in 1 .. n : t - 1 \in 0 .. n  BY <1>2
    <3> QED BY <3>1, <3>2, <3>3
  <2>4. f = body(f)  BY <2>3, <1>2, <1>3
  <2> HIDE DEF body
  <2> QED BY <2>4
<1>6. scan[0] = chosen /\ \A t \in 1 .. n : scan[t] = next(t, scan[t - 1])
  <2> HIDE DEF scan
  <2>1. \A t \in 0 .. n : scan[t] = IF t = 0 THEN chosen
            ELSE Only({ next(t, before) : before \in {scan[t - 1]} })
    BY <1>5
  <2>2. \A t \in 0 .. n : scan[t] = IF t = 0 THEN chosen ELSE next(t, scan[t - 1])
    BY <2>1, <1>3
  <2>3. \A t \in 1 .. n : t \in 0 .. n /\ t # 0  BY <1>2
  <2> QED BY <2>2, <2>3, <1>2
<1> HIDE DEF scan, body
<1> DEFINE Good(t) == /\ scan[t] \in Choice(pool) /\ chosen \subseteq scan[t]
                      /\ chosen = {} /\ t >= 1 => 1 \in scan[t]
           T == { t \in 0 .. n : ~Good(t) }
<1>7. Good(0)  BY <1>6
<1>8. ASSUME NEW t \in 1 .. n, Good(t - 1) PROVE Good(t)
  <2>1. /\ scan[t] \in Choice(pool) /\ scan[t - 1] \subseteq scan[t]
        /\ scan[t - 1] = {} => scan[t] = {t}
    BY <1>4, <1>6, <1>8
  <2>2. ASSUME chosen = {} PROVE 1 \in scan[t]
    <3>1. CASE t = 1  BY <3>1, <1>6, <2>1, <2>2
    <3>2. CASE t # 1  BY <3>2, <1>8, <2>1, <2>2
    <3> QED BY <3>1, <3>2
  <2> QED BY <1>8, <2>1, <2>2
<1> HIDE DEF Good
<1>9. ASSUME T # {} PROVE FALSE
  <2>1. T \in SUBSET Nat  OBVIOUS
  <2>2. PICK k \in T : \A j \in T : k <= j
    <3> HIDE DEF T
    <3> QED BY <1>9, <2>1, LeastNatural
  <2>3. k # 0  BY <1>7
  <2>4. k - 1 \in 0 .. n /\ k - 1 \notin T /\ k \in 1 .. n  BY <1>2, <2>2, <2>3
  <2> QED BY <1>8, <2>2, <2>4
<1>10. Good(n)  BY <1>2, <1>9
<1> QED BY <1>1, <1>2, <1>10 DEF Good

(* All passes, with alpha rising: at most range entries are chosen, the      *)
(* nearest among them.                                                       *)
LEMMA PassesChoose ==
    ASSUME NEW p, NEW pool, Len(pool) \in Nat, NEW pointOf,
           NEW c, c = Passes(p, pool, pointOf)
    PROVE  c \in Choice(pool) /\ (Len(pool) # 0 => 1 \in c)
<1> DEFINE n == Len(Alphas)
           next(t, before) == Pass(p, pool, before, Alphas[t], pointOf)
           body(f) == [ t \in 0 .. n |-> IF t = 0 THEN {} ELSE next(t, f[t - 1]) ]
           pass == CHOOSE f : f = body(f)
<1>1. c = pass[n]  BY DEF Passes
<1>2. n \in Nat /\ n >= 1
  <2>1. Alphas \in Seq(Nat \X (Nat \ {0})) /\ Alphas # << >>  BY PruneAssumption
  <2> QED BY <2>1, LenProperties, EmptySeq
<1> HIDE DEF n
<1>3. \A before \in Choice(pool), t \in 1 .. n :
          next(t, before) \in Choice(pool) /\ before \subseteq next(t, before)
          /\ (before = {} /\ Len(pool) # 0 => 1 \in next(t, before))
  <2> SUFFICES ASSUME NEW before \in Choice(pool), NEW t \in 1 .. n
               PROVE  next(t, before) \in Choice(pool) /\ before \subseteq next(t, before)
                      /\ (before = {} /\ Len(pool) # 0 => 1 \in next(t, before))
    OBVIOUS
  <2>1. next(t, before) \in Choice(pool)  BY PassChooses
  <2>2. before \subseteq next(t, before)  BY PassChooses
  <2>3. before = {} /\ Len(pool) # 0 => 1 \in next(t, before)  BY PassChooses
  <2> QED BY <2>1, <2>2, <2>3
<1>4. {} \in Choice(pool)  BY FS_EmptySet, PruneAssumption DEF Choice
<1> HIDE DEF next
<1>5. pass = body(pass)
  <2> DEFINE step == [ tb \in (1 .. n) \X Choice(pool) |-> next(tb[1], tb[2]) ]
  <2>1. step \in [(1 .. n) \X Choice(pool) -> Choice(pool)]  BY <1>3
  <2>2. PICK f \in [0 .. n -> Choice(pool)] : Recursion(f, n, {}, step)
    <3> HIDE DEF step
    <3> QED BY <1>2, <1>4, <2>1, RecursionExists
  <2>3. f[0] = {} /\ \A t \in 1 .. n : f[t] = next(t, f[t - 1])
    <3>1. \A t \in 1 .. n, b \in Choice(pool) : step[<<t, b>>] = next(t, b)  OBVIOUS
    <3> HIDE DEF step
    <3>2. f[0] = {} /\ \A t \in 1 .. n : f[t] = step[<<t, f[t - 1]>>]  BY <2>2 DEF Recursion
    <3>3. \A t \in 1 .. n : t - 1 \in 0 .. n  BY <1>2
    <3> QED BY <3>1, <3>2, <3>3
  <2>4. f = body(f)  BY <2>3, <1>2
  <2> HIDE DEF body
  <2> QED BY <2>4
<1>6. pass[0] = {} /\ \A t \in 1 .. n : pass[t] = next(t, pass[t - 1])
  <2> HIDE DEF pass
  <2>1. \A t \in 0 .. n : pass[t] = IF t = 0 THEN {} ELSE next(t, pass[t - 1])  BY <1>5
  <2>2. \A t \in 1 .. n : t \in 0 .. n /\ t # 0  BY <1>2
  <2> QED BY <2>1, <2>2, <1>2
<1> HIDE DEF pass, body
<1> DEFINE Good(t) == /\ pass[t] \in Choice(pool) /\ (t = 0 => pass[t] = {})
                      /\ Len(pool) # 0 /\ t >= 1 => 1 \in pass[t]
           T == { t \in 0 .. n : ~Good(t) }
<1>7. Good(0)  BY <1>4, <1>6
<1>8. ASSUME NEW t \in 1 .. n, Good(t - 1) PROVE Good(t)
  <2>1. /\ pass[t] \in Choice(pool) /\ pass[t - 1] \subseteq pass[t]
        /\ pass[t - 1] = {} /\ Len(pool) # 0 => 1 \in pass[t]
    BY <1>3, <1>6, <1>8
  <2>2. t - 1 = 0 \/ t - 1 >= 1  OBVIOUS
  <2> QED BY <1>8, <2>1, <2>2
<1> HIDE DEF Good
<1>9. ASSUME T # {} PROVE FALSE
  <2>1. T \in SUBSET Nat  OBVIOUS
  <2>2. PICK k \in T : \A j \in T : k <= j
    <3> HIDE DEF T
    <3> QED BY <1>9, <2>1, LeastNatural
  <2>3. k # 0  BY <1>7
  <2>4. k - 1 \in 0 .. n /\ k - 1 \notin T /\ k \in 1 .. n  BY <1>2, <2>2, <2>3
  <2> QED BY <1>8, <2>2, <2>4
<1>10. Good(n)  BY <1>2, <1>9
<1> QED BY <1>1, <1>2, <1>10 DEF Good

(* occlude_list: some of the pool, at most range, the nearest among them.    *)
LEMMA OccludeListChooses ==
    ASSUME NEW p, NEW X, NEW pool \in Seq(X), NEW pointOf,
           NEW chosen, chosen = OccludeList(p, pool, pointOf)
    PROVE  /\ chosen \subseteq Range(pool) /\ chosen \subseteq X
           /\ IsFiniteSet(chosen) /\ Cardinality(chosen) <= R
           /\ pool # << >> => pool[1] \in chosen
<1> DEFINE c == Passes(p, pool, pointOf)
<1>1. chosen = { pool[t] : t \in c }
  <2> DEFINE T == { { given[t] : t \in Passes(p, given, of) } : given \in {pool}, of \in {pointOf} }
  <2>1. chosen = Only(T)  BY DEF OccludeList
  <2>2. \A x : x \in T <=> x = { pool[t] : t \in c }  OBVIOUS
  <2> HIDE DEF T
  <2>3. T = { { pool[t] : t \in c } }  BY <2>2
  <2> QED BY <2>1, <2>3, OnlyOne
<1>2. Len(pool) \in Nat /\ DOMAIN pool = 1 .. Len(pool) /\ \A i \in DOMAIN pool : pool[i] \in X
      /\ (pool # << >> => Len(pool) # 0)
  BY LenProperties, ElementOfSeq, EmptySeq
<1>3. c \in Choice(pool) /\ (Len(pool) # 0 => 1 \in c)  BY <1>2, PassesChoose
<1> HIDE DEF c
<1>4. c \subseteq DOMAIN pool /\ IsFiniteSet(c) /\ Cardinality(c) <= R /\ Cardinality(c) \in Nat
  BY <1>2, <1>3, FS_CardinalityType DEF Choice
<1>5. chosen \subseteq Range(pool) /\ chosen \subseteq X  BY <1>1, <1>2, <1>4 DEF Range
<1>6. IsFiniteSet(chosen) /\ Cardinality(chosen) <= Cardinality(c)
  <2> DEFINE f == [ t \in c |-> pool[t] ]
  <2>1. f \in Surjection(c, chosen)  BY <1>1 DEF Surjection
  <2> HIDE DEF f
  <2> QED BY <1>4, <2>1, FS_Surjection
<1>7. pool # << >> => pool[1] \in chosen  BY <1>1, <1>2, <1>3
<1>8. Cardinality(chosen) \in Nat  BY <1>6, FS_CardinalityType
<1>9. Cardinality(chosen) <= R  BY <1>4, <1>6, <1>8, PruneAssumption
<1> QED BY <1>5, <1>6, <1>7, <1>9

(* Filling up: distinct entries of the pool, and at most range if the list   *)
(* was not longer; nothing of the list is lost, and of the pool only what    *)
(* there is no room for.                                                     *)
LEMMA SaturateFills ==
    ASSUME NEW X, NEW pool \in Seq(X), NEW list \in Seq(X), Range(list) \subseteq Range(pool),
           IsInjective(list), IsInjective(pool), Len(list) <= R,
           NEW full, full = Saturate(list, pool)
    PROVE  /\ full \in Seq(X) /\ IsInjective(full) /\ Len(full) <= R
           /\ Range(full) \subseteq Range(pool) /\ Range(list) \subseteq Range(full)
           /\ list # << >> => full # << >>
           /\ Len(full) = R \/ Range(full) = Range(pool)
<1> DEFINE rest == Range(pool) \ Range(list)
           more == Kept(pool, rest)
           k == IF Len(more) < R - Len(list) THEN Len(more) ELSE R - Len(list)
           tail == SubSeq(more, 1, k)
<1>1. full = list \o tail  BY DEF Saturate
<1>2. /\ more \in Seq(X \cap rest) /\ Range(more) = Range(pool) \cap rest
      /\ IsInjective(more)
  <2> HIDE DEF rest
  <2> QED BY KeptLists
<1>3. more \in Seq(X) /\ Len(more) \in Nat /\ Len(list) \in Nat /\ R \in Nat
      /\ DOMAIN more = 1 .. Len(more) /\ DOMAIN list = 1 .. Len(list)
  <2>1. more \in Seq(X)
    <3> HIDE DEF more
    <3> QED BY <1>2, SeqMonotonic
  <2> HIDE DEF more
  <2> QED BY <2>1, LenProperties, PruneAssumption
<1> HIDE DEF more
<1>4. k \in 0 .. Len(more) /\ k <= R - Len(list)  BY <1>3
<1> HIDE DEF k
<1>5. /\ tail \in Seq(X) /\ Len(tail) = k /\ DOMAIN tail = 1 .. k
      /\ \A i \in 1 .. k : tail[i] = more[i] /\ i \in DOMAIN more
  <2>1. 1 \in Nat \ {0} /\ k \in Int /\ k <= Len(more)  BY <1>3, <1>4
  <2>2. tail \in Seq(X) /\ Len(tail) = k /\ \A i \in 1 .. k : tail[i] = more[i]
    BY <1>3, <1>4, SubSeqProperties
  <2> QED BY <2>1, <2>2, <1>3, <1>4, LenProperties
<1> HIDE DEF tail
<1>6. /\ full \in Seq(X) /\ Len(full) = Len(list) + k /\ DOMAIN full = 1 .. Len(list) + k
      /\ \A i \in 1 .. Len(list) : full[i] = list[i]
      /\ \A i \in Len(list) + 1 .. Len(list) + k : full[i] = more[i - Len(list)]
                                                  /\ i - Len(list) \in DOMAIN more
  <2>1. /\ full \in Seq(X) /\ Len(full) = Len(list) + k
        /\ \A i \in 1 .. Len(list) + k : full[i] = IF i <= Len(list) THEN list[i] ELSE tail[i - Len(list)]
    BY <1>1, <1>5, ConcatProperties
  <2>2. DOMAIN full = 1 .. Len(list) + k  BY <2>1, LenProperties
  <2>3. \A i \in Len(list) + 1 .. Len(list) + k : i - Len(list) \in 1 .. k /\ i \in 1 .. Len(list) + k
                                                  /\ ~(i <= Len(list))
    BY <1>3, <1>4
  <2>4. \A i \in 1 .. Len(list) : i \in 1 .. Len(list) + k /\ i <= Len(list)  BY <1>3, <1>4
  <2> QED BY <2>1, <2>2, <2>3, <2>4, <1>5
<1>7. Len(full) <= R  BY <1>3, <1>4, <1>6
<1>8. \A i \in DOMAIN more : more[i] \in Range(pool) /\ more[i] \notin Range(list)
  BY <1>2 DEF Range
<1>9. \A i \in DOMAIN full : i \in DOMAIN list \/ i \in Len(list) + 1 .. Len(list) + k
  BY <1>3, <1>4, <1>6
<1>10. Range(full) \subseteq Range(pool)
  <2> SUFFICES ASSUME NEW i \in DOMAIN full PROVE full[i] \in Range(pool)
    BY DEF Range
  <2>1. i \in DOMAIN list => full[i] \in Range(list)  BY <1>3, <1>6 DEF Range
  <2>2. i \in Len(list) + 1 .. Len(list) + k => full[i] \in Range(pool)  BY <1>6, <1>8
  <2> QED BY <1>9, <2>1, <2>2
<1>11. Range(list) \subseteq Range(full)
  <2>1. \A i \in DOMAIN list : i \in DOMAIN full /\ full[i] = list[i]  BY <1>3, <1>4, <1>6
  <2> QED BY <2>1 DEF Range
<1>12. IsInjective(full)
  <2> SUFFICES ASSUME NEW i \in DOMAIN full, NEW j \in DOMAIN full, full[i] = full[j] PROVE i = j
    BY DEF IsInjective
  <2>1. CASE i \in DOMAIN list /\ j \in DOMAIN list
    BY <2>1, <1>3, <1>6 DEF IsInjective
  <2>2. CASE i \in DOMAIN list /\ j \in Len(list) + 1 .. Len(list) + k
    <3>1. full[i] \in Range(list)  BY <2>2, <1>3, <1>6 DEF Range
    <3>2. full[j] \notin Range(list)  BY <2>2, <1>6, <1>8
    <3> QED BY <3>1, <3>2
  <2>3. CASE j \in DOMAIN list /\ i \in Len(list) + 1 .. Len(list) + k
    <3>1. full[j] \in Range(list)  BY <2>3, <1>3, <1>6 DEF Range
    <3>2. full[i] \notin Range(list)  BY <2>3, <1>6, <1>8
    <3> QED BY <3>1, <3>2
  <2>4. CASE i \in Len(list) + 1 .. Len(list) + k /\ j \in Len(list) + 1 .. Len(list) + k
    <3>1. more[i - Len(list)] = more[j - Len(list)] /\ i - Len(list) \in DOMAIN more
          /\ j - Len(list) \in DOMAIN more
      BY <2>4, <1>6
    <3>2. i - Len(list) = j - Len(list)  BY <3>1, <1>2 DEF IsInjective
    <3> QED BY <3>2, <2>4, <1>3, <1>4
  <2> QED BY <1>9, <2>1, <2>2, <2>3, <2>4
<1>13. Len(full) = R \/ Range(full) = Range(pool)
  <2>1. CASE k = R - Len(list)  BY <1>3, <1>6, <2>1
  <2>2. CASE k = Len(more)
    <3> SUFFICES ASSUME NEW x \in Range(pool) PROVE x \in Range(full)
      BY <1>10
    <3>1. CASE x \in Range(list)  BY <1>11, <3>1
    <3>2. CASE x \notin Range(list)
      <4>1. PICK i \in DOMAIN more : more[i] = x  BY <1>2, <3>2 DEF Range
      <4>2. Len(list) + i \in Len(list) + 1 .. Len(list) + k /\ (Len(list) + i) - Len(list) = i
        BY <1>3, <2>2, <4>1
      <4>3. full[Len(list) + i] = x /\ Len(list) + i \in DOMAIN full  BY <1>3, <1>6, <4>1, <4>2
      <4> QED BY <4>3 DEF Range
    <3> QED BY <3>1, <3>2
  <2> QED BY <2>1, <2>2 DEF k
<1>14. list # << >> => full # << >>
  <2>1. list # << >> => Len(list) # 0  BY EmptySeq
  <2>2. full = << >> => Len(full) = 0  BY EmptySeq
  <2> QED BY <2>1, <2>2, <1>3, <1>4, <1>6
<1> QED BY <1>6, <1>7, <1>10, <1>11, <1>12, <1>13, <1>14

(* prune_neighbors_pq, whatever the distances: distinct candidates, at most *)
(* range; the nearest is one of them; and with alpha above 1 a candidate is *)
(* missing only from a list that is full.                                   *)
THEOREM PqPruned ==
    ASSUME NEW p, NEW X, NEW pool \in Seq(X), IsInjective(pool), NEW pointOf,
           NEW pruned, pruned = prune_neighbors_pq(p, pool, pointOf)
    PROVE  /\ pruned \in Seq(X) /\ IsInjective(pruned) /\ Len(pruned) <= R
           /\ Range(pruned) \subseteq Range(pool) /\ (pool # << >> => pool[1] \in Range(pruned))
           /\ Filling => Len(pruned) = R \/ Range(pruned) = Range(pool)
<1> DEFINE chosen == OccludeList(p, pool, pointOf)
           list   == Kept(pool, chosen)
<1>1. pruned = IF Filling THEN Saturate(list, pool) ELSE list  BY DEF prune_neighbors_pq, Filling
<1>2. /\ IsFiniteSet(chosen) /\ Cardinality(chosen) <= R
      /\ pool # << >> => pool[1] \in chosen
  BY OccludeListChooses
<1> HIDE DEF chosen
<1>3. /\ list \in Seq(X \cap chosen) /\ Range(list) = Range(pool) \cap chosen /\ IsInjective(list)
      /\ pool # << >> => pool[1] \in Range(list)
  <2>1. list \in Seq(X \cap chosen) /\ IsInjective(list)  BY KeptLists
  <2>2. list \in Seq(X \cap chosen) /\ Range(list) = Range(pool) \cap chosen  BY KeptLists
  <2>3. pool # << >> => pool[1] \in Range(pool)
    <3>1. DOMAIN pool = 1 .. Len(pool) /\ Len(pool) \in Nat /\ (pool # << >> => Len(pool) # 0)
      BY LenProperties, EmptySeq
    <3> QED BY <3>1 DEF Range
  <2> QED BY <1>2, <2>1, <2>2, <2>3
<1>4. Len(list) <= Cardinality(chosen)  BY <1>2, KeptLen
<1> HIDE DEF list
<1>5. list \in Seq(X) /\ Len(list) \in Nat /\ Cardinality(chosen) \in Nat
  <2>1. list \in Seq(X)  BY <1>3, SeqMonotonic
  <2> QED BY <1>2, <2>1, LenProperties, FS_CardinalityType
<1>6. Len(list) <= R  BY <1>2, <1>4, <1>5, PruneAssumption
<1>7. CASE ~Filling  BY <1>1, <1>3, <1>5, <1>6, <1>7
<1>8. CASE Filling
  <2>1. pruned = Saturate(list, pool)  BY <1>1, <1>8
  <2> QED BY <1>3, <1>5, <1>6, <2>1, SaturateFills
<1> QED BY <1>7, <1>8

(* prune_neighbors of the merge: the medoid may be dropped from the far end *)
(* of the list, and come back; the rest is as in prune_neighbors_pq.        *)
THEOREM MergePruned ==
    ASSUME NEW p, NEW X, NEW pool \in Seq(X), IsInjective(pool), NEW medoid, NEW pointOf,
           NEW pruned, pruned = prune_neighbors(p, pool, medoid, pointOf)
    PROVE  /\ pruned \in Seq(X) /\ IsInjective(pruned) /\ Len(pruned) <= R
           /\ Range(pruned) \subseteq Range(pool) /\ (pool # << >> => pool[1] \in Range(pruned))
           /\ Filling => Len(pruned) = R \/ Range(pruned) = Range(pool)
<1> DEFINE chosen == OccludeList(p, pool, pointOf)
           result == Kept(pool, chosen)
           limit  == (Len(result) * 3) \div 4
           at     == { j \in DOMAIN result : j <= limit + 1 \/ result[j] # medoid }
           rest   == { result[i] : i \in at }
           list   == Kept(result, rest)
<1>1. pruned = IF Filling THEN Saturate(list, pool) ELSE list  BY DEF prune_neighbors, Filling
<1>2. /\ IsFiniteSet(chosen) /\ Cardinality(chosen) <= R
      /\ pool # << >> => pool[1] \in chosen
  BY OccludeListChooses
<1> HIDE DEF chosen
<1>3. /\ result \in Seq(X \cap chosen) /\ Range(result) \subseteq Range(pool) /\ IsInjective(result)
      /\ pool # << >> => result # << >> /\ result[1] = pool[1]
  <2>1. result \in Seq(X \cap chosen) /\ IsInjective(result)  BY KeptLists
  <2>2. result \in Seq(X \cap chosen) /\ Range(result) = Range(pool) \cap chosen  BY KeptLists
  <2>3. /\ result \in Seq(X \cap chosen)
        /\ pool # << >> /\ pool[1] \in chosen => result # << >> /\ result[1] = pool[1]
    BY KeptLists
  <2> QED BY <1>2, <2>1, <2>2, <2>3
<1>4. Len(result) <= Cardinality(chosen)  BY <1>2, KeptLen
<1> HIDE DEF result
<1>5. pool # << >> => 1 \in DOMAIN result /\ result[1] \in Range(result) /\ result[1] \in rest
  <2>1. DOMAIN result = 1 .. Len(result) /\ Len(result) \in Nat /\ (result # << >> => Len(result) # 0)
    BY <1>3, LenProperties, EmptySeq
  <2>2. result # << >> => 1 \in DOMAIN result /\ limit \in Nat  BY <2>1
  <2>3. result # << >> => 1 \in at  BY <2>2
  <2> QED BY <1>3, <2>2, <2>3 DEF Range
<1> HIDE DEF rest
<1>6. /\ list \in Seq((X \cap chosen) \cap rest) /\ Range(list) = Range(result) \cap rest
      /\ IsInjective(list) /\ Len(list) <= Len(result)
  <2>1. list \in Seq((X \cap chosen) \cap rest) /\ Len(list) <= Len(result)  BY <1>3, KeptLists
  <2>2. list \in Seq((X \cap chosen) \cap rest) /\ IsInjective(list)  BY <1>3, KeptLists
  <2>3. result \in Seq(X \cap chosen)  BY <1>3
  <2>4. Range(list) = Range(result) \cap rest  BY <2>3, KeptEntries, Zenon
  <2> HIDE DEF list
  <2> QED BY <2>1, <2>2, <2>4
<1> HIDE DEF list
<1>7. list \in Seq(X) /\ result \in Seq(X)
  <2>1. list \in Seq(X)  BY <1>6, SeqMonotonic
  <2>2. result \in Seq(X)  BY <1>3, SeqMonotonic
  <2> QED BY <2>1, <2>2
<1>8. Len(list) \in Nat /\ Len(result) \in Nat /\ Cardinality(chosen) \in Nat
  BY <1>2, <1>7, LenProperties, FS_CardinalityType
<1>9. Len(list) <= R /\ Range(list) \subseteq Range(pool) /\ (pool # << >> => pool[1] \in Range(list))
  BY <1>2, <1>3, <1>4, <1>5, <1>6, <1>8, PruneAssumption
<1>10. CASE ~Filling  BY <1>1, <1>6, <1>7, <1>9, <1>10
<1>11. CASE Filling
  <2>1. pruned = Saturate(list, pool)  BY <1>1, <1>11
  <2> QED BY <1>6, <1>7, <1>9, <2>1, SaturateFills
<1> QED BY <1>10, <1>11

(* The nearest candidate comes first. *)
LEMMA NearestFirst ==
    ASSUME NEW p, NEW ids, IsFiniteSet(ids), ids \subseteq Int, NEW pointOf,
           \A n \in ids : Gap(pointOf, p, n) \in Int, ids # {},
           NEW pool, pool = SortedPool(p, ids, pointOf)
    PROVE  /\ pool # << >> /\ pool[1] \in ids
           /\ \A n \in ids : Gap(pointOf, p, pool[1]) <= Gap(pointOf, p, n)
<1>1. /\ Cardinality(ids) \in Nat /\ pool \in Seq(ids) /\ Len(pool) = Cardinality(ids)
      /\ IsInjective(pool) /\ Range(pool) = ids
      /\ \A i, j \in DOMAIN pool : i < j => Nearer(p, pool[i], pool[j], pointOf)
  BY SortedPoolLists
<1>2. DOMAIN pool = 1 .. Len(pool) /\ Len(pool) \in Nat  BY <1>1, LenProperties
<1>3. \A n \in ids : \E i \in DOMAIN pool : pool[i] = n  BY <1>1 DEF Range
<1>4. 1 \in DOMAIN pool
  <2>1. PICK n : n \in ids  OBVIOUS
  <2>2. PICK i \in DOMAIN pool : pool[i] = n  BY <1>3, <2>1
  <2>3. i \in 1 .. Len(pool)  BY <1>2, <2>2
  <2> QED BY <1>2, <2>3
<1>5. pool[1] \in ids /\ pool # << >>  BY <1>1, <1>2, <1>4, ElementOfSeq, EmptySeq
<1>6. ASSUME NEW n \in ids PROVE Gap(pointOf, p, pool[1]) <= Gap(pointOf, p, n)
  <2>1. PICK i \in DOMAIN pool : pool[i] = n  BY <1>3
  <2>2. Gap(pointOf, p, pool[1]) \in Int /\ Gap(pointOf, p, n) \in Int  BY <1>5
  <2>3. CASE i = 1  BY <2>1, <2>2, <2>3
  <2>4. CASE i # 1
    <3>1. 1 < i  BY <1>2, <2>1, <2>4
    <3>2. Nearer(p, pool[1], pool[i], pointOf)  BY <1>1, <1>4, <2>1, <3>1
    <3> QED BY <2>1, <2>2, <3>2 DEF Nearer
  <2> QED BY <2>3, <2>4
<1> QED BY <1>5, <1>6

(* prune_neighbors on the candidates of p. *)
LEMMA NhoodPruned ==
    ASSUME NEW p, NEW ids, IsFiniteSet(ids), ids \subseteq Int, NEW pointOf,
           \A n \in ids : Gap(pointOf, p, n) \in Int, NEW entry,
           NEW list, list = prune_neighbors(p, SortedPool(p, ids, pointOf), entry, pointOf)
    PROVE  list \in Seq(ids) /\ IsInjective(list) /\ Len(list) <= R
<1> DEFINE pool == SortedPool(p, ids, pointOf)
<1>1. pool = SortedPool(p, ids, pointOf) /\ list = prune_neighbors(p, pool, entry, pointOf)
  OBVIOUS
<1> HIDE DEF pool
<1>2. /\ Cardinality(ids) \in Nat /\ pool \in Seq(ids) /\ Len(pool) = Cardinality(ids)
      /\ IsInjective(pool) /\ Range(pool) = ids
  BY <1>1, SortedPoolParts
<1>3. /\ list \in Seq(ids) /\ IsInjective(list) /\ Len(list) <= R
      /\ Range(list) \subseteq Range(pool) /\ (pool # << >> => pool[1] \in Range(list))
      /\ Filling => Len(list) = R \/ Range(list) = Range(pool)
  BY <1>1, <1>2, MergePruned
<1> QED BY <1>3

-----------------------------------------------------------------------------
(* delta_prune_neighbors_pq. *)

(* A sorted pool of the candidates of p: nearest first. *)
Sorted(p, pool, pointOf) ==
    /\ \A i \in DOMAIN pool : Gap(pointOf, p, pool[i]) \in Int
    /\ \A i, j \in DOMAIN pool : i < j => Gap(pointOf, p, pool[i]) <= Gap(pointOf, p, pool[j])

(* The fast search evicts an entry farther than the new one, or the new one. *)
LEMMA FastEvicts ==
    ASSUME NEW p, NEW X, NEW pool \in Seq(X), NEW pointOf, Sorted(p, pool, pointOf),
           NEW tgt \in Range(pool), NEW e, e = FastEvict(p, pool, tgt, pointOf), e # 0
    PROVE  e \in 1 .. Len(pool) /\ (e = 1 => pool[1] = tgt)
<1> DEFINE d(i) == Gap(pointOf, p, pool[i])
           t    == CHOOSE i \in DOMAIN pool : pool[i] = tgt
           far(i) == IF d(i) > d(t) THEN d(i) ELSE d(t)
           Hits(a) == { i \in DOMAIN pool \ {t} :
                           Above(far(i), Gap(pointOf, tgt, pool[i]), a) }
           found == { k \in DOMAIN Alphas : Hits(Alphas[k]) # {} }
           first == CHOOSE k \in found : \A j \in found : j <= k
           last  == CHOOSE h \in Hits(Alphas[first]) : \A j \in Hits(Alphas[first]) : j <= h
<1>1. e = IF found = {} THEN 0 ELSE IF d(last) > d(t) THEN last ELSE t
  BY DEF FastEvict
<1>2. found # {} /\ e = IF d(last) > d(t) THEN last ELSE t
  <2> HIDE DEF found, last, t, d
  <2> QED BY <1>1
<1>3. DOMAIN pool = 1 .. Len(pool) /\ Len(pool) \in Nat  BY LenProperties
<1>4. t \in DOMAIN pool /\ pool[t] = tgt
  <2>1. \E i \in DOMAIN pool : pool[i] = tgt  BY DEF Range
  <2> QED BY <2>1
<1> HIDE DEF t
<1>5. \A a : Hits(a) \subseteq DOMAIN pool  OBVIOUS
<1> HIDE DEF Hits
<1>6. first \in found
  <2>1. Alphas \in Seq(Nat \X (Nat \ {0}))  BY PruneAssumption
  <2>2. DOMAIN Alphas = 1 .. Len(Alphas) /\ Len(Alphas) \in Nat  BY <2>1, LenProperties
  <2>3. found \in SUBSET (1 .. Len(Alphas))  BY <2>2
  <2> HIDE DEF found
  <2>4. \E k \in found : \A j \in found : j <= k  BY <1>2, <2>2, <2>3, GreatestPosition
  <2> QED BY <2>4
<1>7. last \in DOMAIN pool
  <2> DEFINE hits == Hits(Alphas[first])
  <2>1. hits # {}  BY <1>6
  <2>2. hits \in SUBSET (1 .. Len(pool))  BY <1>3, <1>5
  <2> HIDE DEF hits, first
  <2>3. \E h \in hits : \A j \in hits : j <= h  BY <1>3, <2>1, <2>2, GreatestPosition
  <2> DEFINE z == CHOOSE h \in hits : \A j \in hits : j <= h
  <2>4. z \in hits  BY <2>3
  <2>5. last = z  BY Zenon DEF hits
  <2> QED BY <1>3, <2>2, <2>4, <2>5
<1> HIDE DEF last
<1>8. d(last) \in Int /\ d(t) \in Int  BY <1>4, <1>7 DEF Sorted
<1>9. e \in 1 .. Len(pool)  BY <1>2, <1>3, <1>4, <1>7
<1>10. ASSUME e = 1 PROVE pool[1] = tgt
  <2>1. CASE e = t  BY <1>4, <1>10, <2>1
  <2>2. CASE e # t
    <3>1. e = last /\ d(last) > d(t)
      <4> HIDE DEF d
      <4> QED BY <1>2, <2>2
    <3>2. 1 < t  BY <1>3, <1>4, <1>10, <2>2
    <3>3. d(1) <= d(t)  BY <1>3, <1>4, <1>7, <1>10, <3>1, <3>2 DEF Sorted
    <3>4. last = 1  BY <1>10, <3>1
    <3>5. d(1) > d(t) /\ d(1) \in Int  BY <1>8, <3>1, <3>4
    <3> HIDE DEF d
    <3> QED BY <1>8, <3>3, <3>5
  <2> QED BY <2>1, <2>2
<1> QED BY <1>9, <1>10

(* The slow search never evicts the first of two or more. *)
LEMMA SlowEvicts ==
    ASSUME NEW p, NEW X, NEW pool \in Seq(X), NEW pointOf, Len(pool) >= 2,
           NEW tgt, NEW e, e = SlowEvict(p, pool, tgt, pointOf)
    PROVE  e \in 2 .. Len(pool)
<1> DEFINE d(i) == Gap(pointOf, p, pool[i])
           Hits == { st \in (DOMAIN pool) \X (DOMAIN pool) :
                       /\ st[1] < st[2] /\ pool[st[1]] # tgt
                       /\ Above(d(st[2]), Gap(pointOf, pool[st[1]], pool[st[2]]), Alpha) }
           least == CHOOSE st \in Hits : \A o \in Hits :
                        st[1] < o[1] \/ (st[1] = o[1] /\ st[2] <= o[2])
<1>1. e = IF Hits = {} THEN Len(pool) ELSE least[2]  BY DEF SlowEvict
<1>2. DOMAIN pool = 1 .. Len(pool) /\ Len(pool) \in Nat  BY LenProperties
<1>3. \A st \in Hits : /\ st \in (DOMAIN pool) \X (DOMAIN pool) /\ st[1] < st[2]
                       /\ st = <<st[1], st[2]>>
  OBVIOUS
<1> HIDE DEF Hits
<1>4. CASE Hits = {}  BY <1>1, <1>2, <1>4
<1>5. CASE Hits # {}
  <2> DEFINE firsts == { st[1] : st \in Hits }
  <2>1. firsts \in SUBSET Nat /\ firsts # {}  BY <1>2, <1>3, <1>5
  <2> HIDE DEF firsts
  <2>2. PICK s \in firsts : \A o \in firsts : s <= o  BY <2>1, LeastNatural
  <2> DEFINE seconds == { st[2] : st \in { x \in Hits : x[1] = s } }
  <2> USE DEF firsts
  <2>3. seconds \in SUBSET Nat /\ seconds # {}  BY <1>2, <1>3, <2>2
  <2> HIDE DEF seconds
  <2>4. PICK r \in seconds : \A o \in seconds : r <= o  BY <2>3, LeastNatural
  <2> USE DEF seconds
  <2>5. PICK x \in Hits : x[1] = s /\ x[2] = r  BY <2>4
  <2>6. ASSUME NEW o \in Hits PROVE x[1] < o[1] \/ (x[1] = o[1] /\ x[2] <= o[2])
    <3>1. o[1] \in firsts /\ s <= o[1]  BY <2>2
    <3>2. o[1] \in Nat /\ s \in Nat  BY <2>1, <2>2
    <3>3. CASE s < o[1]  BY <2>5, <3>3
    <3>4. CASE ~(s < o[1])
      <4>1. o[1] = s  BY <3>1, <3>2, <3>4
      <4>2. o[2] \in seconds  BY <4>1
      <4>3. r <= o[2]  BY <2>4, <4>2
      <4> QED BY <2>5, <4>1, <4>3
    <3> QED BY <3>3, <3>4
  <2>7. least \in Hits  BY <2>6
  <2> HIDE DEF least
  <2>8. least \in (DOMAIN pool) \X (DOMAIN pool) /\ least[1] < least[2]  BY <1>3, <2>7
  <2>9. least[1] \in 1 .. Len(pool) /\ least[2] \in 1 .. Len(pool)  BY <1>2, <2>8
  <2> QED BY <1>1, <1>2, <1>5, <2>8, <2>9
<1> QED BY <1>4, <1>5

(* One of range + 1 entries is evicted; an entry as near as any but the new *)
(* one stays.                                                               *)
THEOREM DeltaPruned ==
    ASSUME NEW p, NEW X, NEW pool \in Seq(X), IsInjective(pool), Len(pool) = R + 1,
           NEW pointOf, Sorted(p, pool, pointOf), NEW tgt \in Range(pool),
           NEW list, list = delta_prune_neighbors_pq(p, pool, tgt, pointOf)
    PROVE  /\ list \in Seq(X) /\ IsInjective(list) /\ Len(list) = R
           /\ \E k \in Range(list) : \A n \in Range(pool) \ {tgt} :
                  Gap(pointOf, p, k) <= Gap(pointOf, p, n)
<1> DEFINE fast == FastEvict(p, pool, tgt, pointOf)
           e == IF fast # 0 THEN fast ELSE SlowEvict(p, pool, tgt, pointOf)
<1>1. list = RemoveAt(pool, e)  BY DEF delta_prune_neighbors_pq
<1>2. DOMAIN pool = 1 .. Len(pool) /\ Len(pool) \in Nat /\ R \in Nat \ {0}
  BY LenProperties, PruneAssumption
<1>3. e \in 1 .. Len(pool) /\ (e = 1 => pool[1] = tgt)
  <2> HIDE DEF fast
  <2>1. CASE fast # 0
    <3>1. fast = FastEvict(p, pool, tgt, pointOf)  BY DEF fast
    <3>2. fast \in 1 .. Len(pool) /\ (fast = 1 => pool[1] = tgt)  BY <2>1, <3>1, FastEvicts
    <3> QED BY <2>1, <3>2
  <2>2. CASE fast = 0
    <3> DEFINE slow == SlowEvict(p, pool, tgt, pointOf)
    <3>1. slow = SlowEvict(p, pool, tgt, pointOf)  OBVIOUS
    <3> HIDE DEF slow
    <3>2. Len(pool) >= 2  BY <1>2
    <3>3. slow \in 2 .. Len(pool)  BY <3>1, <3>2, SlowEvicts
    <3>4. e = slow  BY <2>2, <3>1
    <3> HIDE DEF e
    <3> QED BY <1>2, <3>3, <3>4
  <2> QED BY <2>1, <2>2
<1> HIDE DEF e
<1>4. /\ list \in Seq(X) /\ IsInjective(list) /\ Len(list) = Len(pool) - 1
      /\ Range(list) \subseteq Range(pool) \ {pool[e]}
      /\ \A i \in 1 .. Len(pool) : i # e => pool[i] \in Range(list)
  BY <1>1, <1>3, RemovedAt
<1>5. Len(list) = R  BY <1>2, <1>4
<1> DEFINE d(i) == Gap(pointOf, p, pool[i])
<1>6. \E k \in Range(list) : \A n \in Range(pool) \ {tgt} : Gap(pointOf, p, k) <= Gap(pointOf, p, n)
  <2> DEFINE h == IF e = 1 THEN 2 ELSE 1
  <2>1. h \in 1 .. Len(pool) /\ h # e  BY <1>2, <1>3
  <2>2. pool[h] \in Range(list)  BY <1>4, <2>1
  <2>3. ASSUME NEW n \in Range(pool) \ {tgt} PROVE Gap(pointOf, p, pool[h]) <= Gap(pointOf, p, n)
    <3>1. PICK i \in 1 .. Len(pool) : pool[i] = n  BY <1>2 DEF Range
    <3>2. h = i \/ h < i  BY <1>2, <1>3, <2>3, <3>1
    <3>3. d(h) \in Int /\ d(i) \in Int  BY <1>2, <2>1 DEF Sorted
    <3>4. CASE h = i
      <4>1. d(h) <= d(i)  BY <3>3, <3>4
      <4> QED BY <3>1, <4>1
    <3>5. CASE h < i
      <4>1. d(h) <= d(i)  BY <1>2, <2>1, <3>5 DEF Sorted
      <4> QED BY <3>1, <4>1
    <3> QED BY <3>2, <3>4, <3>5
  <2> QED BY <2>2, <2>3
<1> QED BY <1>4, <1>5, <1>6

(* list has an entry as near to p as any of S. *)
AsNear(list, S, p, pointOf) ==
    \E k \in Range(list) : \A n \in S : Gap(pointOf, p, k) <= Gap(pointOf, p, n)

(* Pruning range + 1 candidates of p, the last to come being id: a good     *)
(* list, with an entry as near as any but id.                               *)
LEMMA OneTooMany ==
    ASSUME NEW p, NEW ids, IsFiniteSet(ids), ids \subseteq Int, Cardinality(ids) = R + 1,
           NEW pointOf, \A n \in ids : Gap(pointOf, p, n) \in Int, NEW id \in ids,
           NEW pool, pool = SortedPool(p, ids, pointOf), NEW list,
           list = delta_prune_neighbors_pq(p, pool, id, pointOf) \/ list = prune_neighbors_pq(p, pool, pointOf)
    PROVE  /\ list \in Seq(ids) /\ IsInjective(list) /\ Len(list) <= R
           /\ AsNear(list, ids \ {id}, p, pointOf)
<1>1. /\ Cardinality(ids) \in Nat /\ pool \in Seq(ids) /\ Len(pool) = Cardinality(ids)
      /\ IsInjective(pool) /\ Range(pool) = ids
      /\ \A i, j \in DOMAIN pool : i < j => Nearer(p, pool[i], pool[j], pointOf)
  BY SortedPoolLists
<1>2. Len(pool) = R + 1 /\ id \in Range(pool) /\ R \in Nat  BY <1>1, PruneAssumption
<1>3. CASE list = delta_prune_neighbors_pq(p, pool, id, pointOf)
  <2>1. Sorted(p, pool, pointOf)
    <3>1. \A i \in DOMAIN pool : pool[i] \in ids  BY <1>1, ElementOfSeq, LenProperties
    <3>2. ASSUME NEW i \in DOMAIN pool, NEW j \in DOMAIN pool, i < j
          PROVE  Gap(pointOf, p, pool[i]) <= Gap(pointOf, p, pool[j])
      <4>1. Nearer(p, pool[i], pool[j], pointOf)  BY <1>1, <3>2
      <4>2. Gap(pointOf, p, pool[i]) \in Int /\ Gap(pointOf, p, pool[j]) \in Int  BY <3>1
      <4> QED BY <4>1, <4>2 DEF Nearer
    <3> QED BY <3>1, <3>2 DEF Sorted
  <2>2. /\ list \in Seq(ids) /\ IsInjective(list) /\ Len(list) = R
        /\ \E k \in Range(list) : \A n \in Range(pool) \ {id} :
               Gap(pointOf, p, k) <= Gap(pointOf, p, n)
    BY <1>1, <1>2, <1>3, <2>1, DeltaPruned
  <2>3. Len(list) <= R  BY <1>2, <2>2
  <2>4. AsNear(list, ids \ {id}, p, pointOf)  BY <1>1, <2>2 DEF AsNear
  <2> QED BY <2>2, <2>3, <2>4
<1>4. CASE list = prune_neighbors_pq(p, pool, pointOf)
  <2>1. /\ list \in Seq(ids) /\ IsInjective(list) /\ Len(list) <= R
        /\ Range(list) \subseteq Range(pool) /\ (pool # << >> => pool[1] \in Range(list))
        /\ Filling => Len(list) = R \/ Range(list) = Range(pool)
    BY <1>1, <1>4, PqPruned
  <2>2. ids # {}  OBVIOUS
  <2>3. /\ pool # << >> /\ pool[1] \in ids
        /\ \A n \in ids : Gap(pointOf, p, pool[1]) <= Gap(pointOf, p, n)
    BY <2>2, NearestFirst
  <2>4. AsNear(list, ids \ {id}, p, pointOf)  BY <2>1, <2>3 DEF AsNear
  <2> QED BY <2>1, <2>4
<1> QED BY <1>3, <1>4
=============================================================================
