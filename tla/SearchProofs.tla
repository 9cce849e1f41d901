---------------------------- MODULE SearchProofs ----------------------------
(***************************************************************************)
(* Proofs about Search, for every index, query, mix of calls and number of *)
(* threads: the locks and buffers that searches and inserts share are      *)
(* accounted for at every step, no read outlives its pipe search, and the  *)
(* candidate lists stay sorted, without repetition, the best of what was   *)
(* met, every search ends at its fixed point, a filtered search returns    *)
(* the best of the candidates it met, and a pipe search computes every     *)
(* record from its own page.                                               *)
(***************************************************************************)
EXTENDS SearchInvariants

(* A list's fields and a query's distances. *)
LEMMA Fields ==
    ASSUME NEW c \in ListSet
    PROVE  /\ c.pool \in Seq(EntrySet) /\ Len(c.pool) \in Nat /\ DOMAIN c.pool = 1 .. Len(c.pool)
           /\ \A i \in DOMAIN c.pool : c.pool[i] \in EntrySet /\ c.pool[i].id \in Nodes
           /\ c.query \in Queries /\ c.query.pq \in [Nodes -> Int] /\ c.query.exact \in [Nodes -> Int]
           /\ Ids(c.pool) \subseteq Nodes
<1>1. c.pool \in Seq(EntrySet) /\ c.query \in Queries  BY DEF ListSet
<1>2. /\ Len(c.pool) \in Nat /\ DOMAIN c.pool = 1 .. Len(c.pool)
      /\ \A i \in DOMAIN c.pool : c.pool[i] \in EntrySet
  BY <1>1, LenProperties, ElementOfSeq
<1>3. \A i \in DOMAIN c.pool : c.pool[i].id \in Nodes  BY <1>2 DEF EntrySet
<1>4. c.query.pq \in [Nodes -> Int] /\ c.query.exact \in [Nodes -> Int]
  BY <1>1, ListAssumption
<1> QED BY <1>1, <1>2, <1>3, <1>4 DEF Ids

(* The function that InsertIntoPool's bisection defines. *)
Bisection(pool, d, n) ==
    CHOOSE f : f = [ lr \in (0 .. Len(pool) - 1) \X (0 .. Len(pool) - 1) |->
        IF lr[2] > 1 /\ lr[1] < lr[2] - 1
        THEN f[IF d[pool[(lr[1] + lr[2]) \div 2 + 1].id] > d[n]
               THEN <<lr[1], (lr[1] + lr[2]) \div 2>> ELSE <<(lr[1] + lr[2]) \div 2, lr[2]>>]
        ELSE lr[2] ]

(* The bisection of InsertIntoPool ends, at a place in the list where the   *)
(* distances pass that of n.                                                *)
LEMMA BisectionEnds ==
    ASSUME NEW pool \in Seq(EntrySet), pool # << >>, NEW d \in [Nodes -> Int], NEW n \in Nodes,
           NEW B, B = Bisection(pool, d, n),
           d[pool[1].id] <= d[n], d[pool[Len(pool)].id] >= d[n],
           NEW r, r = B[<<0, Len(pool) - 1>>]
    PROVE  /\ r \in 0 .. Len(pool) - 1
           /\ r # 0 => d[pool[r].id] <= d[n]
           /\ d[pool[r + 1].id] >= d[n]
<1> DEFINE N == Len(pool) - 1
           S == (0 .. N) \X (0 .. N)
           at(i) == d[pool[i + 1].id]
           mid(x) == (x[1] + x[2]) \div 2
           more(x) == x[2] > 1 /\ x[1] < x[2] - 1
           down(x) == IF at(mid(x)) > d[n] THEN <<x[1], mid(x)>> ELSE <<mid(x), x[2]>>
           size(x) == IF x[1] < x[2] THEN x[2] - x[1] ELSE 0
           body(f) == [ x \in S |-> IF more(x) THEN f[down(x)] ELSE x[2] ]
<1>1. N \in Nat /\ Len(pool) \in Nat /\ N + 1 = Len(pool)
      /\ \A i \in 0 .. N : at(i) \in Int
  <2>1. Len(pool) \in Nat /\ DOMAIN pool = 1 .. Len(pool) /\ \A i \in 1 .. Len(pool) : pool[i] \in EntrySet
    BY LenProperties, ElementOfSeq
  <2>2. Len(pool) # 0  BY EmptySeq
  <2>3. \A i \in 1 .. Len(pool) : pool[i].id \in Nodes  BY <2>1 DEF EntrySet
  <2>4. \A i \in 0 .. N : i + 1 \in 1 .. Len(pool)  BY <2>1
  <2> QED BY <2>1, <2>2, <2>3, <2>4
<1>2. B = CHOOSE f : f = body(f)  BY DEF Bisection
<1>3. r = B[<<0, N>>] /\ <<0, N>> \in S  BY <1>1
<1>4. at(0) <= d[n] /\ at(N) >= d[n]  BY <1>1
<1> HIDE DEF N
<1>5. ASSUME NEW x \in S, more(x)
      PROVE  /\ mid(x) \in 0 .. N /\ x[1] < mid(x) /\ mid(x) < x[2]
             /\ down(x) \in S /\ size(down(x)) < size(x)
  <2>1. x[1] \in 0 .. N /\ x[2] \in 0 .. N /\ x = <<x[1], x[2]>>  OBVIOUS
  <2>2. mid(x) \in 0 .. N /\ x[1] < mid(x) /\ mid(x) < x[2]  BY <1>1, <1>5, <2>1
  <2> DEFINE h == mid(x)
  <2>3. down(x) = <<x[1], h>> \/ down(x) = <<h, x[2]>>  OBVIOUS
  <2>4. <<x[1], h>> \in S /\ size(<<x[1], h>>) < size(x)
    <3>1. h \in 0 .. N /\ x[1] < h /\ h < x[2]  BY <2>2
    <3> HIDE DEF h
    <3> QED BY <2>1, <3>1, <1>1
  <2>5. <<h, x[2]>> \in S /\ size(<<h, x[2]>>) < size(x)
    <3>1. h \in 0 .. N /\ x[1] < h /\ h < x[2]  BY <2>2
    <3> HIDE DEF h
    <3> QED BY <2>1, <3>1, <1>1
  <2> HIDE DEF h, size, mid, down
  <2> QED BY <2>2, <2>3, <2>4, <2>5
<1>6. B = body(B)
  <2> DEFINE m == [ x \in S |-> size(x) ]
             stop == { x \in S : ~more(x) }
             val == [ x \in S |-> x[2] ]
             next == [ x \in S |-> IF more(x) THEN down(x) ELSE x ]
  <2>1. m \in [S -> 0 .. N]
    <3>1. ASSUME NEW x \in S PROVE size(x) \in 0 .. N
      <4>1. x[1] \in 0 .. N /\ x[2] \in 0 .. N  OBVIOUS
      <4> QED BY <4>1, <1>1
    <3> HIDE DEF size
    <3> QED BY <3>1
  <2>2. stop \in SUBSET S /\ val \in [S -> 0 .. N]  OBVIOUS
  <2>3. next \in [S -> S]
    <3> HIDE DEF more, down
    <3> QED BY <1>5
  <2>4. \A x \in S : x \notin stop => m[next[x]] < m[x]
    <3> SUFFICES ASSUME NEW x \in S, more(x) PROVE m[down(x)] < m[x]
      BY DEF more
    <3> HIDE DEF down, size
    <3> QED BY <1>5
  <2>5. \E f \in [S -> 0 .. N] : \A x \in S : f[x] = IF x \in stop THEN val[x] ELSE f[next[x]]
    <3> DEFINE V == 0 .. N
               step == [ xv \in S \X V |-> xv[2] ]
    <3>1. N \in Nat /\ val \in [S -> V]  BY <1>1, <2>2
    <3>2. stop \in SUBSET S  BY <2>2
    <3>5. step \in [S \X V -> V] /\ \A x \in S, v \in V : step[<<x, v>>] = v
      <4> HIDE DEF S, V
      <4> QED OBVIOUS
    <3> HIDE DEF m, stop, val, next, step, S, V
    <3>3. Descent(N, S, V, m, stop, val, next, step)
      BY <3>1, <3>2, <3>5, <2>1, <2>3, <2>4 DEF Descent
    <3>4. PICK f \in [S -> V] :
              \A x \in S : f[x] = IF x \in stop THEN val[x] ELSE step[<<x, f[next[x]]>>]
      BY <3>3, DescentExists
    <3>6. \A x \in S : next[x] \in S /\ f[next[x]] \in V  BY <2>3
    <3>7. \A x \in S : f[x] = IF x \in stop THEN val[x] ELSE f[next[x]]  BY <3>4, <3>5, <3>6
    <3> QED BY <3>7 DEF V
  <2>6. PICK f \in [S -> 0 .. N] : \A x \in S : f[x] = IF x \in stop THEN val[x] ELSE f[next[x]]
    BY <2>5
  <2>7. \A x \in S : f[x] = IF more(x) THEN f[down(x)] ELSE x[2]
    <3> HIDE DEF more, down
    <3> QED BY <2>6
  <2>8. f = body(f)
    <3> HIDE DEF more, down, S
    <3> QED BY <2>7
  <2> HIDE DEF body
  <2> QED BY <1>2, <2>8
<1>7. \A x \in S : B[x] = IF more(x) THEN B[down(x)] ELSE x[2]
  <2> HIDE DEF more, down, S
  <2> QED BY <1>6
<1> HIDE DEF body
<1> DEFINE Between(x) == /\ x[1] < x[2] \/ x[2] = 0
                         /\ at(x[1]) <= d[n] /\ at(x[2]) >= d[n]
           Found(x) == /\ B[x] \in 0 .. N /\ (B[x] # 0 => at(B[x] - 1) <= d[n]) /\ at(B[x]) >= d[n]
           T == { k \in 0 .. N : \E x \in S : size(x) = k /\ Between(x) /\ ~Found(x) }
<1>8. ASSUME NEW x \in S, Between(x), more(x) => Found(down(x)) PROVE Found(x)
  <2>1. x[1] \in 0 .. N /\ x[2] \in 0 .. N  OBVIOUS
  <2>2. CASE more(x)
    <3>1. B[x] = B[down(x)] /\ Found(down(x))  BY <1>7, <1>8, <2>2
    <3> HIDE DEF down
    <3> QED BY <3>1
  <2>3. CASE ~more(x)
    <3>1. B[x] = x[2]  BY <1>7, <2>3
    <3>2. x[2] # 0 => x[1] = x[2] - 1
      <4>1. x[1] < x[2] \/ x[2] = 0  BY <1>8
      <4>2. ~(x[2] > 1 /\ x[1] < x[2] - 1)  BY <2>3
      <4> HIDE DEF Between, Found, more, down
      <4> QED BY <2>1, <4>1, <4>2, <1>1
    <3>3. x[2] # 0 => at(x[2] - 1) <= d[n]  BY <3>2, <1>8
    <3> QED BY <3>1, <3>3, <2>1, <1>8
  <2> QED BY <2>2, <2>3
<1>9. ASSUME NEW x \in S, Between(x), more(x) PROVE Between(down(x))
  <2>1. mid(x) \in 0 .. N /\ x[1] < mid(x) /\ mid(x) < x[2]  BY <1>5, <1>9
  <2> DEFINE h == mid(x)
  <2>2. h \in 0 .. N /\ x[1] < h /\ h < x[2]  BY <2>1
  <2>3. down(x) = IF at(h) > d[n] THEN <<x[1], h>> ELSE <<h, x[2]>>  OBVIOUS
  <2>4. at(h) \in Int /\ d[n] \in Int  BY <1>1, <2>2
  <2> HIDE DEF h, down, mid
  <2>5. CASE at(h) > d[n]
    <3>1. down(x) = <<x[1], h>>  BY <2>3, <2>5
    <3>2. Between(<<x[1], h>>)  BY <1>9, <2>2, <2>4, <2>5
    <3> HIDE DEF Between
    <3> QED BY <3>1, <3>2
  <2>6. CASE ~(at(h) > d[n])
    <3>1. down(x) = <<h, x[2]>>  BY <2>3, <2>6
    <3>2. Between(<<h, x[2]>>)  BY <1>9, <2>2, <2>4, <2>6
    <3> HIDE DEF Between
    <3> QED BY <3>1, <3>2
  <2> QED BY <2>5, <2>6
<1>10. \A x \in S : size(x) \in 0 .. N
  <2> SUFFICES ASSUME NEW x \in S PROVE size(x) \in 0 .. N
    OBVIOUS
  <2>1. x[1] \in 0 .. N /\ x[2] \in 0 .. N  OBVIOUS
  <2> QED BY <2>1, <1>1
<1> HIDE DEF Between, Found, size, S, more, down
<1>11. ASSUME T # {} PROVE FALSE
  <2>1. T \in SUBSET Nat  OBVIOUS
  <2>2. PICK k \in T : \A j \in T : k <= j
    <3> HIDE DEF T
    <3> QED BY <1>11, <2>1, LeastNatural
  <2>3. PICK x \in S : size(x) = k /\ Between(x) /\ ~Found(x)  BY <2>2
  <2>4. more(x) /\ ~Found(down(x))  BY <1>8, <2>3
  <2>5. down(x) \in S /\ size(down(x)) < k  BY <1>5, <2>3, <2>4
  <2>6. Between(down(x))  BY <1>9, <2>3, <2>4
  <2>7. size(down(x)) \in 0 .. N  BY <1>10, <2>5
  <2>8. size(down(x)) \in T  BY <2>4, <2>5, <2>6, <2>7
  <2>9. k <= size(down(x)) /\ k \in Nat  BY <2>2, <2>8
  <2> QED BY <2>5, <2>7, <2>9
<1>12. Found(<<0, N>>)
  <2>1. Between(<<0, N>>)  BY <1>1, <1>4 DEF Between
  <2>2. size(<<0, N>>) \in 0 .. N  BY <1>3, <1>10
  <2>3. size(<<0, N>>) \notin T  BY <1>11
  <2> QED BY <1>3, <2>1, <2>2, <2>3
<1>13. r \in 0 .. N /\ (r # 0 => at(r - 1) <= d[n]) /\ at(r) >= d[n]  BY <1>3, <1>12 DEF Found
<1>14. r # 0 => (r - 1) + 1 = r  BY <1>13, <1>1
<1> QED BY <1>13, <1>14 DEF N

(* InsertIntoPool gives a place in the list or, behind a nearer last entry, *)
(* its end; in a sorted list the entries before it are no farther than n,   *)
(* and those behind it no nearer.                                           *)
LEMMA PlaceFound ==
    ASSUME NEW pool \in Seq(EntrySet), pool # << >>, NEW d \in [Nodes -> Int], NEW n \in Nodes,
           NEW r, r = InsertIntoPool(d, pool, n)
    PROVE  /\ r \in 0 .. Len(pool)
           /\ d[Last(pool).id] >= d[n] => r < Len(pool)
           /\ NearestFirst(d, pool) =>
                /\ \A i \in 1 .. r : d[pool[i].id] <= d[n]
                /\ \A i \in r + 1 .. Len(pool) : d[pool[i].id] >= d[n]
<1> DEFINE N == Len(pool)
           B == Bisection(pool, d, n)
<1>1. N \in Nat /\ N # 0 /\ DOMAIN pool = 1 .. N /\ \A i \in 1 .. N : d[pool[i].id] \in Int
  <2>1. N \in Nat /\ DOMAIN pool = 1 .. N /\ \A i \in 1 .. N : pool[i] \in EntrySet
    BY LenProperties, ElementOfSeq
  <2>2. \A i \in 1 .. N : pool[i].id \in Nodes  BY <2>1 DEF EntrySet
  <2>3. N # 0  BY EmptySeq
  <2> HIDE DEF N
  <2> QED BY <2>1, <2>2, <2>3
<1>2. d[n] \in Int /\ Last(pool) = pool[N]  BY DEF Last
<1>3. r = IF d[pool[0 + 1].id] > d[n] THEN 0
          ELSE IF d[pool[N - 1 + 1].id] < d[n] THEN N ELSE B[<<0, N - 1>>]
  BY Zenon DEF InsertIntoPool, Bisection
<1>4. 0 + 1 = 1 /\ N - 1 + 1 = N  BY <1>1
<1>5. r = IF d[pool[1].id] > d[n] THEN 0 ELSE IF d[pool[N].id] < d[n] THEN N ELSE B[<<0, N - 1>>]
  BY <1>3, <1>4
<1>6. ASSUME ~(d[pool[1].id] > d[n]), ~(d[pool[N].id] < d[n])
      PROVE  r \in 0 .. N - 1 /\ (r # 0 => d[pool[r].id] <= d[n]) /\ d[pool[r + 1].id] >= d[n]
  <2>1. d[pool[1].id] <= d[n] /\ d[pool[N].id] >= d[n]
    <3>1. 1 \in 1 .. N /\ N \in 1 .. N  BY <1>1
    <3> QED BY <3>1, <1>1, <1>2, <1>6
  <2>2. r = B[<<0, Len(pool) - 1>>]  BY <1>5, <1>6
  <2>3. r \in 0 .. Len(pool) - 1 /\ (r # 0 => d[pool[r].id] <= d[n]) /\ d[pool[r + 1].id] >= d[n]
    BY <2>1, <2>2, BisectionEnds
  <2> QED BY <2>3
<1> HIDE DEF B, N
<1>7. r \in 0 .. N  BY <1>1, <1>5, <1>6
<1>8. d[Last(pool).id] >= d[n] => r < N  BY <1>1, <1>2, <1>5, <1>6
<1>9. ASSUME NearestFirst(d, pool), NEW i \in 1 .. r PROVE d[pool[i].id] <= d[n]
  <2>1. i \in 1 .. N /\ r \in 1 .. N  BY <1>1, <1>7
  <2>2. i = r \/ d[pool[i].id] <= d[pool[r].id]  BY <1>1, <1>9, <2>1 DEF NearestFirst
  <2>3. d[pool[r].id] <= d[n]
    <3>1. CASE d[pool[N].id] < d[n] /\ ~(d[pool[1].id] > d[n])
      <4>1. r = N  BY <1>5, <3>1
      <4> QED BY <4>1, <3>1, <1>1, <1>2, <2>1
    <3>2. CASE d[pool[1].id] > d[n]  BY <1>5, <3>2, <2>1
    <3>3. CASE ~(d[pool[1].id] > d[n]) /\ ~(d[pool[N].id] < d[n])  BY <1>6, <3>3, <2>1
    <3> QED BY <3>1, <3>2, <3>3
  <2> QED BY <2>1, <2>2, <2>3, <1>1, <1>2
<1>10. ASSUME NearestFirst(d, pool), NEW i \in r + 1 .. N PROVE d[pool[i].id] >= d[n]
  <2>1. i \in 1 .. N /\ r + 1 \in 1 .. N /\ r \in 0 .. N  BY <1>1, <1>7
  <2>2. i = r + 1 \/ d[pool[i].id] >= d[pool[r + 1].id]  BY <1>1, <1>10, <2>1 DEF NearestFirst
  <2>3. d[pool[r + 1].id] >= d[n]
    <3>1. CASE d[pool[N].id] < d[n] /\ ~(d[pool[1].id] > d[n])  BY <1>1, <1>5, <3>1, <2>1
    <3>2. CASE d[pool[1].id] > d[n]
      <4>1. r = 0  BY <1>5, <3>2
      <4> QED BY <4>1, <3>2, <1>1, <1>2, <2>1
    <3>3. CASE ~(d[pool[1].id] > d[n]) /\ ~(d[pool[N].id] < d[n])  BY <1>6, <3>3
    <3> QED BY <3>1, <3>2, <3>3
  <2> QED BY <2>1, <2>2, <2>3, <1>1, <1>2
<1> QED BY <1>7, <1>8, <1>9, <1>10 DEF N

(* push_to_heap: n and entries of the heap, at most cap of them.            *)
LEMMA HeapPushed ==
    ASSUME NEW d, NEW heap \in Seq(Nodes), NEW n \in Nodes, NEW cap \in Nat,
           NEW pushed, pushed = PushHeap(d, heap, n, cap)
    PROVE  pushed \in Seq(Nodes) /\ Len(pushed) <= cap
<1>1. pushed = IntoHeap(d, heap, n, cap)  BY DEF PushHeap, IntoHeap
<1> QED BY <1>1, IntoHeapTyped

(* An id is met: it enters seen, and the heap of candidates. *)
LEMMA MeetAdds ==
    ASSUME NEW c \in ListSet, NEW n \in Nodes, NEW x, x = Meet(c, n)
    PROVE  x \in ListSet /\ x.seen = c.seen \cup {n} /\ Unmet(c, x)
<1> DEFINE cands == IF c.kind = "filter" /\ Tag[n] \in Candidates
                    THEN PushHeap(c.query.pq, c.cands, n, RefineCapacity) ELSE c.cands
<1>1. cands \in Seq(Nodes)
  <2>1. c.cands \in Seq(Nodes) /\ RefineCapacity \in Nat  BY ListAssumption DEF ListSet
  <2>2. PushHeap(c.query.pq, c.cands, n, RefineCapacity) \in Seq(Nodes)  BY <2>1, HeapPushed
  <2> QED BY <2>1, <2>2
<1>2. x = [c EXCEPT !.seen = c.seen \cup {n}, !.cands = cands]  BY DEF Meet
<1> HIDE DEF cands
<1>3. x \in ListSet
  <2>1. [c EXCEPT !.seen = c.seen \cup {n}, !.cands = cands] \in ListSet  BY <1>1 DEF ListSet
  <2> QED BY <1>2, <2>1
<1> QED BY <1>2, <1>3 DEF ListSet, Unmet

(* The three things that can become of an offered id.                       *)
LEMMA OfferCases ==
    ASSUME NEW c \in ListSet, NEW n \in Nodes, NEW x, x = Offer(c, n)
    PROVE  \/ n \in c.seen /\ x = c
           \/ /\ n \notin c.seen /\ x = Meet(c, n)
              /\ Len(c.pool) = c.L /\ c.query.pq[n] >= c.query.pq[Last(c.pool).id]
           \/ /\ n \notin c.seen
              /\ ~(Len(c.pool) = c.L /\ c.query.pq[n] >= c.query.pq[Last(c.pool).id])
              /\ \E r \in {InsertIntoPool(c.query.pq, c.pool, n)} :
                    Taken(c, n, r, Meet(c, n), x)
  BY Zenon DEF Offer, Taken, Splice

(* A list with n inserted behind its first r entries, cut to m: still each  *)
(* id once, and sorted if it was.                                           *)
LEMMA Spliced ==
    ASSUME NEW pool \in Seq(EntrySet), pool # << >>, OneEach(pool), NEW d \in [Nodes -> Int],
           NEW n \in Nodes, n \notin Ids(pool), NEW r \in 0 .. Len(pool),
           NEW m \in Len(pool) .. Len(pool) + 1,
           NEW new, new = Splice(pool, r, Entry(n), m)
    PROVE  /\ new \in Seq(EntrySet) /\ Len(new) = m /\ DOMAIN new = 1 .. m
           /\ \A i \in 1 .. m : new[i] = IF i <= r THEN pool[i]
                                         ELSE IF i = r + 1 THEN Entry(n) ELSE pool[i - 1]
           /\ OneEach(new)
           /\ NearestFirst(d, pool) /\ Place(d, pool, n, r) => NearestFirst(d, new)
<1> DEFINE N == Len(pool)
<1>1. N \in Nat /\ DOMAIN pool = 1 .. N /\ \A i \in 1 .. N : pool[i] \in EntrySet /\ pool[i].id \in Nodes
  <2>1. N \in Nat /\ DOMAIN pool = 1 .. N /\ \A i \in 1 .. N : pool[i] \in EntrySet
    BY LenProperties, ElementOfSeq
  <2> QED BY <2>1 DEF EntrySet
<1>2. Entry(n) \in EntrySet /\ Entry(n).id = n  BY DEF Entry, EntrySet
<1>3. /\ new \in Seq(EntrySet) /\ Len(new) = m /\ DOMAIN new = 1 .. m
      /\ \A i \in 1 .. m : new[i] = IF i <= r THEN pool[i]
                                    ELSE IF i = r + 1 THEN Entry(n) ELSE pool[i - 1]
  <2>1. m \in 0 .. Len(pool) + 1  BY <1>1
  <2> DEFINE e == Entry(n)
  <2>2. e \in EntrySet /\ new = Splice(pool, r, e, m)  BY <1>2
  <2> HIDE DEF e, N
  <2>3. /\ new \in Seq(EntrySet) /\ Len(new) = m /\ DOMAIN new = 1 .. m
        /\ \A i \in 1 .. m : new[i] = IF i <= r THEN pool[i]
                                      ELSE IF i = r + 1 THEN e ELSE pool[i - 1]
    BY <2>1, <2>2, InsertedAndCut
  <2> QED BY <2>3 DEF e
<1>4. \A i \in 1 .. N : pool[i].id # n  BY <1>1 DEF Ids
<1> HIDE DEF N
<1>5. OneEach(new)
  <2> SUFFICES ASSUME NEW i \in 1 .. m, NEW j \in 1 .. m, new[i].id = new[j].id PROVE i = j
    BY <1>3 DEF OneEach
  <2>1. m \in Nat /\ m <= N + 1 /\ r \in Nat /\ N \in Nat  BY <1>1 DEF N
  <2>2. \A k \in 1 .. m : k <= r => k \in 1 .. N /\ new[k] = pool[k]  BY <1>3, <2>1 DEF N
  <2>3. \A k \in 1 .. m : k > r + 1 => k - 1 \in 1 .. N /\ new[k] = pool[k - 1]  BY <1>3, <2>1
  <2>4. \A k \in 1 .. m : k = r + 1 => new[k].id = n  BY <1>2, <1>3, <2>1
  <2>5. \A k, l \in 1 .. N : pool[k].id = pool[l].id => k = l  BY <1>1 DEF OneEach
  <2>6. CASE i = r + 1
    <3>1. new[j].id = n  BY <2>4, <2>6
    <3>2. ~(j <= r) /\ ~(j > r + 1)  BY <3>1, <2>2, <2>3, <1>4
    <3> QED BY <2>1, <2>6, <3>2
  <2>7. CASE j = r + 1
    <3>1. new[i].id = n  BY <2>4, <2>7
    <3>2. ~(i <= r) /\ ~(i > r + 1)  BY <3>1, <2>2, <2>3, <1>4
    <3> QED BY <2>1, <2>7, <3>2
  <2>8. CASE i <= r /\ j <= r  BY <2>2, <2>5, <2>8
  <2>9. CASE i <= r /\ j > r + 1
    <3>1. i \in 1 .. N /\ j - 1 \in 1 .. N /\ pool[i].id = pool[j - 1].id  BY <2>2, <2>3, <2>9
    <3>2. i = j - 1  BY <2>5, <3>1
    <3> QED BY <2>1, <2>9, <3>2
  <2>10. CASE i > r + 1 /\ j <= r
    <3>1. j \in 1 .. N /\ i - 1 \in 1 .. N /\ pool[j].id = pool[i - 1].id  BY <2>2, <2>3, <2>10
    <3>2. j = i - 1  BY <2>5, <3>1
    <3> QED BY <2>1, <2>10, <3>2
  <2>11. CASE i > r + 1 /\ j > r + 1
    <3>1. j - 1 \in 1 .. N /\ i - 1 \in 1 .. N /\ pool[i - 1].id = pool[j - 1].id
      BY <2>3, <2>11
    <3>2. i - 1 = j - 1  BY <2>5, <3>1
    <3> QED BY <2>1, <3>2
  <2> QED BY <2>1, <2>6, <2>7, <2>8, <2>9, <2>10, <2>11
<1>6. ASSUME NearestFirst(d, pool), \A i \in 1 .. r : d[pool[i].id] <= d[n],
             \A i \in r + 1 .. N : d[pool[i].id] >= d[n]
      PROVE  NearestFirst(d, new)
  <2> SUFFICES ASSUME NEW i \in 1 .. m, NEW j \in 1 .. m, i < j PROVE d[new[i].id] <= d[new[j].id]
    BY <1>3 DEF NearestFirst
  <2>1. m \in Nat /\ m <= N + 1 /\ r \in Nat /\ N \in Nat /\ r <= N  BY <1>1 DEF N
  <2>2. \A k \in 1 .. m : k <= r => k \in 1 .. r /\ k \in 1 .. N /\ new[k] = pool[k]
    BY <1>3, <2>1
  <2>3. \A k \in 1 .. m : k > r + 1 => k - 1 \in r + 1 .. N /\ k - 1 \in 1 .. N /\ new[k] = pool[k - 1]
    BY <1>3, <2>1
  <2>4. \A k \in 1 .. m : k = r + 1 => new[k].id = n  BY <1>2, <1>3, <2>1
  <2>5. \A k, l \in 1 .. N : k < l => d[pool[k].id] <= d[pool[l].id]  BY <1>1, <1>6 DEF NearestFirst
  <2>6. d[n] \in Int /\ \A k \in 1 .. N : d[pool[k].id] \in Int  BY <1>1
  <2>7. CASE j <= r
    <3>1. i <= r  BY <2>1, <2>7
    <3> QED BY <2>2, <2>5, <2>7, <3>1
  <2>8. CASE j = r + 1
    <3>1. i <= r  BY <2>1, <2>8
    <3> QED BY <2>2, <2>4, <2>8, <3>1, <1>6
  <2>9. CASE j > r + 1 /\ i <= r
    <3>1. new[i] = pool[i] /\ i \in 1 .. N /\ new[j] = pool[j - 1] /\ j - 1 \in 1 .. N
      BY <2>2, <2>3, <2>9
    <3>2. i < j - 1  BY <2>1, <2>9
    <3> QED BY <2>5, <3>1, <3>2
  <2>10. CASE j > r + 1 /\ i = r + 1
    <3>1. new[i].id = n /\ new[j] = pool[j - 1] /\ j - 1 \in r + 1 .. N /\ j - 1 \in 1 .. N
      BY <2>3, <2>4, <2>10
    <3>2. d[pool[j - 1].id] >= d[n]  BY <1>6, <3>1
    <3> QED BY <2>6, <3>1, <3>2
  <2>11. CASE j > r + 1 /\ i > r + 1
    <3>1. /\ new[i] = pool[i - 1] /\ i - 1 \in 1 .. N
          /\ new[j] = pool[j - 1] /\ j - 1 \in 1 .. N
      BY <2>3, <2>11
    <3>2. i - 1 < j - 1  BY <2>1
    <3> QED BY <2>5, <3>1, <3>2
  <2> QED BY <2>1, <2>7, <2>8, <2>9, <2>10, <2>11
<1> QED BY <1>3, <1>5, <1>6 DEF N, Place

(* Each list grows from itself, and from what it grew from. *)
LEMMA FromItself == ASSUME NEW c, ListOK(c), Nearest(c) PROVE c \in From(c)
  BY DEF From, Grown, ListOK

LEMMA FromFrom ==
    ASSUME NEW c, NEW x \in From(c), NEW y \in From(x)
    PROVE  y \in From(c)
<1>1. Grown(c, x) /\ Grown(x, y) /\ y \in ListSet /\ ListOK(y) /\ Nearest(y)  BY DEF From
<1>2. c.seen \subseteq x.seen /\ x.seen \subseteq y.seen  BY <1>1 DEF Grown
<1>3. ASSUME NEW i \in DOMAIN y.pool
      PROVE  \/ \E j \in DOMAIN c.pool : y.pool[i] = c.pool[j]
             \/ y.pool[i] = Entry(y.pool[i].id) /\ y.pool[i].id \notin c.seen
  <2>1. CASE \E j \in DOMAIN x.pool : y.pool[i] = x.pool[j]
    <3>1. PICK j \in DOMAIN x.pool : y.pool[i] = x.pool[j]  BY <2>1
    <3>2. \/ \E k \in DOMAIN c.pool : x.pool[j] = c.pool[k]
          \/ x.pool[j] = Entry(x.pool[j].id) /\ x.pool[j].id \notin c.seen
      BY <1>1 DEF Grown
    <3> QED BY <3>1, <3>2
  <2>2. CASE y.pool[i] = Entry(y.pool[i].id) /\ y.pool[i].id \notin x.seen  BY <1>2, <2>2
  <2> QED BY <1>1, <2>1, <2>2 DEF Grown
<1>4. c.dyn \/ y.pool = c.pool \/ \E i \in DOMAIN y.pool : y.pool[i].id \notin c.seen
  BY <1>1, <1>2 DEF Grown
<1> QED BY <1>1, <1>2, <1>3, <1>4 DEF From, Grown

(* An id offered to a list that is not dropped: the list with it.           *)
LEMMA OfferTaken ==
    ASSUME NEW c, ListOK(c), Nearest(c), NEW n \in Nodes, n \notin c.seen,
           ~(Len(c.pool) = c.L /\ c.query.pq[n] >= c.query.pq[Last(c.pool).id]),
           NEW r, r = InsertIntoPool(c.query.pq, c.pool, n),
           NEW y, y = Meet(c, n),
           NEW x, Taken(c, n, r, y, x)
    PROVE  x \in From(c)
<1> DEFINE d == c.query.pq
           N == Len(c.pool)
           m == IF N < c.L THEN N + 1 ELSE N
           new == x.pool
<1>1. /\ c \in ListSet /\ c.pool # << >> /\ OneEach(c.pool) /\ Ids(c.pool) \subseteq c.seen
      /\ c.L >= LSearch /\ (~c.dyn => c.L = LSearch /\ Len(c.pool) <= LSearch)
      /\ Len(c.heap) <= KSearch /\ c.k <= Len(c.pool) /\ c.nk <= Len(c.pool)
      /\ c.L \in Nat /\ c.k \in Nat /\ c.nk \in Nat
  BY DEF ListOK, ListSet
<1>2. /\ c.pool \in Seq(EntrySet) /\ N \in Nat /\ DOMAIN c.pool = 1 .. N
      /\ d \in [Nodes -> Int]
      /\ \A i \in 1 .. N : c.pool[i] \in EntrySet /\ c.pool[i].id \in Nodes /\ d[c.pool[i].id] \in Int
  BY <1>1, Fields
<1>3. y \in ListSet /\ y.seen = c.seen \cup {n} /\ Unmet(c, y)  BY <1>1, MeetAdds
<1>4. NearestFirst(d, c.pool)  BY DEF Nearest
<1>5. /\ r \in 0 .. N
      /\ d[Last(c.pool).id] >= d[n] => r < N
      /\ \A i \in 1 .. r : d[c.pool[i].id] <= d[n]
      /\ \A i \in r + 1 .. N : d[c.pool[i].id] >= d[n]
  BY <1>1, <1>2, <1>4, PlaceFound
<1>6. m \in N .. N + 1  BY <1>1, <1>2
<1>7. n \notin Ids(c.pool)  BY <1>1
<1>8. new = Splice(c.pool, r, Entry(n), m)
      /\ x = [y EXCEPT !.pool = new, !.nk = IF r < c.nk THEN r ELSE c.nk]
  <2>1. y.pool = c.pool /\ y.nk = c.nk  BY <1>3 DEF Unmet
  <2>2. DOMAIN y = DOMAIN [kind |-> 0, dyn |-> 0, query |-> 0, L |-> 0, pool |-> 0, seen |-> 0,
                           full |-> 0, k |-> 0, nk |-> 0, front |-> 0, pages |-> 0, snap |-> 0,
                           heap |-> 0, cands |-> 0, computed |-> 0, batch |-> 0]
    BY <1>3 DEF ListSet
  <2>3. "pool" \in DOMAIN y /\ "nk" \in DOMAIN y  BY <2>2
  <2>4. x = [y EXCEPT !.pool = Splice(c.pool, r, Entry(n), m), !.nk = IF r < c.nk THEN r ELSE c.nk]
    BY <2>1 DEF Taken
  <2> QED BY <2>3, <2>4
<1> HIDE DEF m, N
<1>9. /\ new \in Seq(EntrySet) /\ Len(new) = m /\ DOMAIN new = 1 .. m
      /\ \A i \in 1 .. m : new[i] = IF i <= r THEN c.pool[i]
                                    ELSE IF i = r + 1 THEN Entry(n) ELSE c.pool[i - 1]
      /\ OneEach(new) /\ NearestFirst(d, new)
  <2> DEFINE pool == c.pool
  <2>1. /\ pool \in Seq(EntrySet) /\ pool # << >> /\ OneEach(pool) /\ d \in [Nodes -> Int]
        /\ n \notin Ids(pool) /\ r \in 0 .. Len(pool) /\ m \in Len(pool) .. Len(pool) + 1
        /\ new = Splice(pool, r, Entry(n), m)
    BY <1>1, <1>2, <1>5, <1>6, <1>7, <1>8 DEF N
  <2>2. NearestFirst(d, pool) /\ Place(d, pool, n, r)  BY <1>4, <1>5 DEF N, Place
  <2> HIDE DEF d, new, pool
  <2>3. /\ new \in Seq(EntrySet) /\ Len(new) = m /\ DOMAIN new = 1 .. m
        /\ \A i \in 1 .. m : new[i] = IF i <= r THEN pool[i]
                                      ELSE IF i = r + 1 THEN Entry(n) ELSE pool[i - 1]
        /\ OneEach(new)
    BY <2>1, Spliced
  <2>4. NearestFirst(d, new)  BY <2>1, <2>2, Spliced
  <2> QED BY <2>3, <2>4 DEF pool
<1> HIDE DEF new
<1>10. x \in ListSet
  <2>1. r \in Nat  BY <1>2, <1>5
  <2>2. [y EXCEPT !.pool = new, !.nk = IF r < c.nk THEN r ELSE c.nk] \in ListSet
    BY <1>1, <1>3, <1>9, <2>1 DEF ListSet
  <2> QED BY <1>8, <2>2
<1>11. /\ x.kind = c.kind /\ x.dyn = c.dyn /\ x.query = c.query /\ x.L = c.L
       /\ x.seen = c.seen \cup {n} /\ x.k = c.k /\ x.heap = c.heap
       /\ x.nk = IF r < c.nk THEN r ELSE c.nk
  BY <1>3, <1>8 DEF ListSet, Unmet
<1>12. x.pool = new  BY DEF new
<1>13. Entry(n).id = n  BY DEF Entry
<1>14. m \in Nat /\ N \in Nat /\ N <= m /\ m <= N + 1 /\ r \in Nat /\ r <= N /\ N # 0
  <2>1. N # 0  BY <1>1, EmptySeq DEF N
  <2> QED BY <2>1, <1>2, <1>5, <1>6
<1>15. Ids(new) \subseteq x.seen
  <2> SUFFICES ASSUME NEW i \in 1 .. m PROVE new[i].id \in x.seen  BY <1>9 DEF Ids
  <2>1. \A j \in 1 .. N : c.pool[j].id \in c.seen  BY <1>1, <1>2 DEF Ids
  <2>2. CASE i <= r  BY <1>9, <1>11, <1>14, <2>1, <2>2
  <2>3. CASE i = r + 1  BY <1>9, <1>11, <1>13, <1>14, <2>3
  <2>4. CASE i > r + 1
    <3>1. i - 1 \in 1 .. N /\ new[i] = c.pool[i - 1]  BY <1>9, <1>14, <2>4
    <3> QED BY <3>1, <2>1, <1>11
  <2> QED BY <1>14, <2>2, <2>3, <2>4
<1>16. ~c.dyn => m <= LSearch
  <2>1. LSearch \in Nat  BY ListAssumption
  <2> QED BY <2>1, <1>1, <1>2 DEF m, N
<1>17. ListOK(x)
  <2>1. new # << >>
    <3>1. Len(new) # 0  BY <1>9, <1>14
    <3> QED BY <3>1, <1>9, EmptySeq
  <2>2. x.k <= Len(new) /\ x.nk <= Len(new)
    <3>1. c.k <= N /\ c.nk <= N  BY <1>1 DEF N
    <3> QED BY <1>1, <1>9, <1>11, <1>14, <3>1
  <2> QED BY <1>1, <1>9, <1>10, <1>11, <1>12, <1>15, <1>16, <2>1, <2>2 DEF ListOK
<1>18. r + 1 <= m \/ c.dyn
  <2>1. CASE N < c.L  BY <1>14, <2>1 DEF m
  <2>2. CASE ~(N < c.L) /\ ~c.dyn
    <3>1. N = c.L  BY <1>1, <1>14, <2>2 DEF N
    <3>2. ~(d[n] >= d[Last(c.pool).id])  BY <3>1 DEF N
    <3>3. Last(c.pool) = c.pool[N]  BY DEF Last, N
    <3>4. d[Last(c.pool).id] \in Int /\ d[n] \in Int  BY <1>2, <1>14, <3>3
    <3>5. r < N  BY <1>5, <3>2, <3>4
    <3> QED BY <3>5, <1>14
  <2> QED BY <2>1, <2>2
<1>19. Grown(c, x)
  <2>1. ASSUME NEW i \in 1 .. m
        PROVE  \/ \E j \in DOMAIN c.pool : new[i] = c.pool[j]
               \/ new[i] = Entry(new[i].id) /\ new[i].id \notin c.seen
    <3>1. CASE i <= r  BY <1>2, <1>9, <1>14, <3>1
    <3>2. CASE i = r + 1  BY <1>9, <1>13, <1>14, <3>2
    <3>3. CASE i > r + 1
      <4>1. i - 1 \in 1 .. N /\ new[i] = c.pool[i - 1]  BY <1>9, <1>14, <3>3
      <4> QED BY <4>1, <1>2
    <3> QED BY <1>14, <3>1, <3>2, <3>3
  <2>2. c.dyn \/ \E i \in 1 .. m : new[i].id \notin c.seen
    <3>1. r + 1 \in 1 .. m => new[r + 1].id = n  BY <1>9, <1>13, <1>14
    <3> QED BY <1>14, <1>18, <3>1
  <2> QED BY <1>9, <1>11, <1>12, <2>1, <2>2 DEF Grown
<1>20. ASSUME ~c.dyn, NEW q \in x.seen \ Ids(new)
       PROVE  Len(new) = LSearch /\ d[q] >= d[Last(new).id]
  <2>1. n \in Ids(new)
    <3>1. r + 1 \in 1 .. m  BY <1>14, <1>18, <1>20
    <3>2. new[r + 1].id = n  BY <1>9, <1>13, <1>14, <3>1
    <3> QED BY <3>1, <3>2, <1>9 DEF Ids
  <2>2. q \in c.seen  BY <1>11, <2>1
  <2>3. q \in Nodes /\ d[q] \in Int
    <3>1. q \in Nodes  BY <1>10 DEF ListSet
    <3> QED BY <3>1, <1>2
  <2>4. N = LSearch /\ m = N /\ (q \notin Ids(c.pool) => d[q] >= d[Last(c.pool).id])
        /\ (q \in Ids(c.pool) => \E j \in 1 .. N : q = c.pool[j].id)
    <3>1. q \in Ids(c.pool) => \E j \in 1 .. N : q = c.pool[j].id  BY <1>2 DEF Ids
    <3>2. q \notin Ids(c.pool) => N = LSearch /\ d[q] >= d[Last(c.pool).id]
      BY <1>20, <2>2 DEF Nearest, N
    <3>3. ASSUME N < c.L, q \in Ids(c.pool) PROVE FALSE
      <4>1. m = N + 1  BY <3>3 DEF m
      <4>2. PICK j \in 1 .. N : q = c.pool[j].id  BY <3>1, <3>3
      <4>3. CASE j <= r
        <5>1. j \in 1 .. m /\ new[j] = c.pool[j]  BY <1>9, <1>14, <4>1, <4>3
        <5> QED BY <1>9, <1>20, <4>2, <5>1 DEF Ids
      <4>4. CASE j > r
        <5>1. j + 1 \in 1 .. m /\ j + 1 > r + 1 /\ (j + 1) - 1 = j  BY <1>14, <4>1, <4>4
        <5>2. new[j + 1] = c.pool[j]  BY <1>9, <1>14, <5>1
        <5> QED BY <1>9, <1>20, <4>2, <5>1, <5>2 DEF Ids
      <4> QED BY <1>14, <4>3, <4>4
    <3>4. c.L = LSearch /\ N <= LSearch /\ LSearch \in Nat  BY <1>1, <1>20, ListAssumption DEF N
    <3>5. N = LSearch  BY <1>14, <3>2, <3>3, <3>4
    <3> QED BY <1>14, <3>1, <3>2, <3>4, <3>5 DEF m
  <2>5. Last(new) = new[m] /\ Last(c.pool) = c.pool[N]  BY <1>9 DEF Last, N
  <2>6. d[Last(new).id] <= d[Last(c.pool).id] /\ d[Last(new).id] \in Int /\ d[Last(c.pool).id] \in Int
    <3>1. r < N  BY <1>14, <1>18, <1>20, <2>4
    <3>2. N \in 1 .. N /\ d[c.pool[N].id] \in Int /\ d[n] \in Int  BY <1>2, <1>14
    <3>3. d[n] <= d[c.pool[N].id]
      <4>1. N \in r + 1 .. N  BY <1>14, <3>1
      <4> QED BY <1>5, <3>2, <4>1
    <3>4. CASE r = N - 1
      <4>1. new[m].id = n  BY <1>9, <1>13, <1>14, <2>4, <3>4
      <4> QED BY <4>1, <3>2, <3>3, <2>5
    <3>5. CASE r # N - 1
      <4>1. N - 1 \in 1 .. N /\ N - 1 < N /\ m > r + 1 /\ m \in 1 .. m  BY <1>14, <2>4, <3>1, <3>5
      <4>2. new[m] = c.pool[N - 1]  BY <1>9, <1>14, <2>4, <4>1
      <4>3. d[c.pool[N - 1].id] <= d[c.pool[N].id]  BY <1>2, <1>4, <4>1, <3>2 DEF NearestFirst
      <4> QED BY <4>1, <4>2, <4>3, <1>2, <3>2, <2>5
    <3> QED BY <3>4, <3>5
  <2>7. d[q] >= d[Last(c.pool).id]
    <3>1. CASE q \in Ids(c.pool)
      <4>1. PICK j \in 1 .. N : q = c.pool[j].id  BY <2>4, <3>1
      <4>2. j = N
        <5>1. ASSUME j # N, j <= r PROVE FALSE
          <6>1. j \in 1 .. m /\ new[j] = c.pool[j]  BY <1>9, <1>14, <2>4, <5>1
          <6> QED BY <1>9, <1>20, <4>1, <6>1 DEF Ids
        <5>2. ASSUME j # N, j > r PROVE FALSE
          <6>1. j + 1 \in 1 .. m /\ j + 1 > r + 1 /\ (j + 1) - 1 = j  BY <1>14, <2>4, <5>2
          <6>2. new[j + 1] = c.pool[j]  BY <1>9, <1>14, <6>1
          <6> QED BY <1>9, <1>20, <4>1, <6>1, <6>2 DEF Ids
        <5> QED BY <1>14, <5>1, <5>2
      <4> QED BY <4>1, <4>2, <2>3, <2>5
    <3>2. CASE q \notin Ids(c.pool)  BY <2>4, <3>2
    <3> QED BY <3>1, <3>2
  <2> QED BY <1>9, <2>3, <2>4, <2>6, <2>7
<1>21. Nearest(x)
  BY <1>9, <1>11, <1>12, <1>20 DEF Nearest
<1> QED BY <1>10, <1>17, <1>19, <1>21 DEF From

(* Offering an id keeps the list the list of its call.                      *)
LEMMA OfferKeeps ==
    ASSUME NEW c, ListOK(c), Nearest(c), NEW n \in Nodes, NEW x, x = Offer(c, n)
    PROVE  x \in From(c)
<1>1. c \in ListSet  BY DEF ListOK
<1>2. \/ n \in c.seen /\ x = c
      \/ /\ n \notin c.seen /\ x = Meet(c, n)
         /\ Len(c.pool) = c.L /\ c.query.pq[n] >= c.query.pq[Last(c.pool).id]
      \/ /\ n \notin c.seen
         /\ ~(Len(c.pool) = c.L /\ c.query.pq[n] >= c.query.pq[Last(c.pool).id])
         /\ \E r \in {InsertIntoPool(c.query.pq, c.pool, n)} : Taken(c, n, r, Meet(c, n), x)
  BY <1>1, OfferCases
<1>3. CASE n \in c.seen /\ x = c  BY <1>3, FromItself
<1>4. CASE n \notin c.seen /\ x = Meet(c, n)
           /\ Len(c.pool) = c.L /\ c.query.pq[n] >= c.query.pq[Last(c.pool).id]
  <2>1. x \in ListSet /\ x.seen = c.seen \cup {n} /\ Unmet(c, x)  BY <1>1, <1>4, MeetAdds
  <2>2. ListOK(x)  BY <2>1 DEF ListOK, Unmet
  <2>3. Nearest(x)
    <3>1. ASSUME ~c.dyn, NEW q \in x.seen \ Ids(x.pool)
          PROVE  Len(c.pool) = LSearch /\ c.query.pq[q] >= c.query.pq[Last(c.pool).id]
      <4>1. q \in c.seen \ Ids(c.pool) \/ q = n  BY <2>1, <3>1 DEF Unmet
      <4>2. c.L = LSearch  BY <3>1 DEF ListOK
      <4> QED BY <3>1, <4>1, <4>2, <1>4 DEF Nearest
    <3> QED BY <2>1, <3>1 DEF Nearest, Unmet
  <2>4. Grown(c, x)  BY <2>1 DEF Grown, Unmet
  <2> QED BY <2>1, <2>2, <2>3, <2>4 DEF From
<1>5. CASE /\ n \notin c.seen
           /\ ~(Len(c.pool) = c.L /\ c.query.pq[n] >= c.query.pq[Last(c.pool).id])
           /\ \E r \in {InsertIntoPool(c.query.pq, c.pool, n)} : Taken(c, n, r, Meet(c, n), x)
  <2> DEFINE r == InsertIntoPool(c.query.pq, c.pool, n)
             y == Meet(c, n)
  <2>1. Taken(c, n, r, y, x)  BY <1>5
  <2>2. r = InsertIntoPool(c.query.pq, c.pool, n) /\ y = Meet(c, n)  OBVIOUS
  <2> HIDE DEF r, y
  <2> QED BY <1>5, <2>1, <2>2, OfferTaken
<1> QED BY <1>2, <1>3, <1>4, <1>5

-----------------------------------------------------------------------------
(* Following a list through the functions of CandidateList.                *)
LEMMA FromGood == ASSUME NEW c, NEW x \in From(c) PROVE Good(x) /\ Grown(c, x) /\ x \in ListSet
  BY DEF From, Good

(* Each is the one before it with one more neighbour offered. *)
LEMMA OffersInTurn ==
    ASSUME NEW c, Good(c), NEW seq \in Seq(Nodes), NEW F, F = Offers(c, seq)
    PROVE  /\ F[0] = c /\ \A i \in 0 .. Len(seq) : F[i] \in From(c)
           /\ \A i \in 1 .. Len(seq) : F[i] = Offer(F[i - 1], seq[i])
<1> DEFINE n == Len(seq)
           S == From(c)
           body(f) == [ i \in 0 .. n |->
                          IF i = 0 THEN c
                          ELSE CHOOSE y \in {Offer(z, seq[i]) : z \in {f[i - 1]}} : TRUE ]
           step == [ ix \in (1 .. n) \X S |-> Offer(ix[2], seq[ix[1]]) ]
<1>1. n \in Nat /\ \A i \in 1 .. n : seq[i] \in Nodes  BY LenProperties, ElementOfSeq
<1>2. c \in S  BY FromItself DEF Good
<1>3. ASSUME NEW i \in 1 .. n, NEW z \in S PROVE Offer(z, seq[i]) \in S
  <2> DEFINE y == Offer(z, seq[i])
  <2>1. ListOK(z) /\ Nearest(z) /\ seq[i] \in Nodes  BY <1>1 DEF From
  <2>2. y = Offer(z, seq[i])  OBVIOUS
  <2> HIDE DEF y
  <2>3. y \in From(z)  BY <2>1, <2>2, OfferKeeps
  <2>4. y \in From(c)  BY <2>3, FromFrom
  <2> QED BY <2>2, <2>4
<1>4. step \in [(1 .. n) \X S -> S]
  <2> HIDE DEF S, n
  <2> QED BY <1>3
<1> DEFINE B == [ f \in [0 .. n -> S] \cup {F} |-> body(f) ]
<1>5. ASSUME NEW f, NEW i \in 1 .. n
      PROVE  (CHOOSE y \in {Offer(z, seq[i]) : z \in {f[i - 1]}} : TRUE) = Offer(f[i - 1], seq[i])
  <2>1. {Offer(z, seq[i]) : z \in {f[i - 1]}} = {Offer(f[i - 1], seq[i])}  OBVIOUS
  <2>2. Only({Offer(f[i - 1], seq[i])}) = Offer(f[i - 1], seq[i])  BY OnlyOne
  <2> QED BY <2>1, <2>2 DEF Only
<1>6. (\E f \in [0 .. n -> S] : f = B[f]) => F = B[F]
  <2>1. F = CHOOSE f : f = body(f)  BY DEF Offers
  <2> HIDE DEF body, S
  <2> QED BY <2>1
<1>10. \A f, i : f \in S /\ i \in 1 .. n => step[<<i, f>>] = Offer(f, seq[i])
  <2> HIDE DEF S, n
  <2> QED OBVIOUS
<1>7. ASSUME NEW f \in [0 .. n -> S] \cup {F}
      PROVE  /\ B[f] = [ i \in 0 .. n |-> B[f][i] ] /\ B[f][0] = c
             /\ \A i \in 1 .. n : f[i - 1] \in S => B[f][i] = step[<<i, f[i - 1]>>]
  <2>1. 0 \in 0 .. n /\ \A i \in 1 .. n : i \in 0 .. n /\ i # 0  BY <1>1
  <2>2. B[f] = body(f)
    <3> HIDE DEF body, S
    <3> QED OBVIOUS
  <2> HIDE DEF B, S, n, step
  <2> QED BY <1>5, <1>10, <2>1, <2>2
<1> HIDE DEF B, S, n, step
<1>8. Folding(n, S, c, step, F, B)  BY <1>6, <1>7 DEF Folding
<1>9. (\A i \in 0 .. n : F[i] \in S) /\ Recursion(F, n, c, step)
  BY <1>1, <1>2, <1>4, <1>8, FoldKept
<1>11. \A i \in 1 .. n : F[i] = Offer(F[i - 1], seq[i])
  <2>1. \A i \in 1 .. n : i - 1 \in 0 .. n  BY <1>1
  <2> QED BY <1>9, <1>10, <2>1 DEF Recursion
<1> QED BY <1>9, <1>11 DEF S, n, Recursion

(* The last of them is a good list. *)
LEMMA OffersKeep ==
    ASSUME NEW c, Good(c), NEW seq \in Seq(Nodes), NEW x, x = Offers(c, seq)[Len(seq)]
    PROVE  x \in From(c)
<1> DEFINE F == Offers(c, seq)
<1>1. Len(seq) \in 0 .. Len(seq)  BY LenProperties
<1> HIDE DEF F
<1>2. \A i \in 0 .. Len(seq) : F[i] \in From(c)  BY OffersInTurn DEF F
<1> QED BY <1>1, <1>2 DEF F

(* Moving l_search keeps the list. *)
LEMMA ResizeKeeps ==
    ASSUME NEW c, Good(c), NEW x, x = ResizeL(c)
    PROVE  x \in From(c)
<1> DEFINE usable(i) == Cardinality({j \in 1 .. i : MayReturn(c, c.pool[j].id)})
           enough == {i \in DOMAIN c.pool : usable(i) = LSearch}
           least == CHOOSE i \in enough : \A j \in enough : i <= j
           length == IF enough = {} THEN Len(c.pool) + 1 ELSE least
           l == IF length > LSearch THEN length ELSE LSearch
<1>1. c \in ListSet /\ ListOK(c) /\ Nearest(c)  BY DEF Good, ListOK
<1>2. Len(c.pool) \in Nat /\ DOMAIN c.pool = 1 .. Len(c.pool)  BY <1>1, Fields
<1>3. LSearch \in Nat  BY ListAssumption
<1>4. enough # {} => least \in Nat
  <2> SUFFICES ASSUME enough # {} PROVE least \in Nat
    OBVIOUS
  <2>1. enough \in SUBSET Nat  BY <1>2
  <2> HIDE DEF enough
  <2>2. \E i \in enough : \A j \in enough : i <= j  BY <2>1, LeastNatural
  <2> QED BY <2>1, <2>2
<1>5. x = IF c.dyn THEN [c EXCEPT !.L = l] ELSE c  BY Zenon DEF ResizeL
<1> HIDE DEF enough, least
<1>6. l \in Nat /\ l >= LSearch  BY <1>2, <1>3, <1>4
<1> HIDE DEF l, length
<1>7. CASE ~c.dyn  BY <1>1, <1>5, <1>7, FromItself
<1>8. CASE c.dyn
  <2>1. [c EXCEPT !.L = l] \in ListSet  BY <1>1, <1>6 DEF ListSet
  <2>2. x \in ListSet /\ x = [c EXCEPT !.L = l]  BY <1>5, <1>8, <2>1
  <2>3. /\ x.kind = c.kind /\ x.dyn /\ x.query = c.query /\ x.L = l /\ x.pool = c.pool
        /\ x.seen = c.seen /\ x.k = c.k /\ x.nk = c.nk /\ x.heap = c.heap
    BY <1>1, <1>8, <2>2 DEF ListSet
  <2>4. ListOK(x)  BY <1>1, <1>6, <1>8, <2>2, <2>3 DEF ListOK
  <2>5. Nearest(x)  BY <1>1, <2>3 DEF Nearest
  <2>6. Grown(c, x)  BY <1>8, <2>3 DEF Grown
  <2> QED BY <2>2, <2>4, <2>5, <2>6 DEF From
<1> QED BY <1>7, <1>8

LEMMA RecordedKeeps ==
    ASSUME NEW c, Good(c), NEW n \in Nodes, NEW page \in Nat, NEW x, x = Recorded(c, n, page)
    PROVE  x \in From(c)
<1> DEFINE heap == IF Tag[n] \in Candidates THEN PushHeap(c.query.exact, c.heap, n, KSearch)
                   ELSE c.heap
           full == Append(c.full, <<n, page>>)
<1>1. c \in ListSet /\ ListOK(c) /\ Nearest(c)  BY DEF Good, ListOK
<1>2. heap \in Seq(Nodes) /\ Len(heap) <= KSearch
  <2>1. KSearch \in Nat /\ c.heap \in Seq(Nodes) /\ Len(c.heap) <= KSearch
    BY <1>1, ListAssumption DEF ListSet, ListOK
  <2> DEFINE pushed == PushHeap(c.query.exact, c.heap, n, KSearch)
             d == c.query.exact
             h == c.heap
  <2>2. pushed = PushHeap(d, h, n, KSearch) /\ h \in Seq(Nodes)  BY <2>1
  <2> HIDE DEF pushed, d, h
  <2>3. pushed \in Seq(Nodes) /\ Len(pushed) <= KSearch  BY <2>1, <2>2, HeapPushed
  <2> QED BY <2>1, <2>3 DEF pushed
<1>3. full \in Seq(Nodes \X Nat)
  <2>1. c.full \in Seq(Nodes \X Nat) /\ <<n, page>> \in Nodes \X Nat  BY <1>1 DEF ListSet
  <2> QED BY <2>1, AppendProperties
<1>4. x = IF c.kind # "filter" THEN [c EXCEPT !.full = full]
          ELSE [c EXCEPT !.computed = c.computed \cup {n}, !.heap = heap]
  BY DEF Recorded
<1> HIDE DEF heap, full
<1>5. x \in ListSet
  <2>1. [c EXCEPT !.full = full] \in ListSet  BY <1>1, <1>3 DEF ListSet
  <2>2. [c EXCEPT !.computed = c.computed \cup {n}, !.heap = heap] \in ListSet
    BY <1>1, <1>2 DEF ListSet
  <2> QED BY <1>4, <2>1, <2>2
<1>6. /\ x.kind = c.kind /\ x.dyn = c.dyn /\ x.query = c.query /\ x.L = c.L /\ x.pool = c.pool
      /\ x.seen = c.seen /\ x.k = c.k /\ x.nk = c.nk /\ (x.heap = c.heap \/ x.heap = heap)
  BY <1>1, <1>4 DEF ListSet
<1>7. ListOK(x)  BY <1>1, <1>2, <1>5, <1>6 DEF ListOK
<1>8. Nearest(x) /\ Grown(c, x)  BY <1>1, <1>6 DEF Nearest, Grown
<1> QED BY <1>5, <1>7, <1>8 DEF From

(* Expanding a record keeps the list. *)
LEMMA ExpandKeeps ==
    ASSUME NEW c, Good(c), NEW n \in Nodes, NEW page \in Nat, NEW x, x = Expand(c, n, page)
    PROVE  x \in From(c)
<1> DEFINE keep == Recorded(c, n, page)
           all == Offers(keep, Graph[n])[Len(Graph[n])]
           y == ResizeL(all)
<1>1. Expand(c, n, page) = Only({ResizeL(z) : z \in {all}})
  BY Zenon DEF Expand, Recorded, Offers, Through
<1>2. {ResizeL(z) : z \in {all}} = {y}
  <2> HIDE DEF all
  <2> QED OBVIOUS
<1> HIDE DEF y
<1>3. x = y  BY <1>1, <1>2, OnlyOne
<1>4. keep \in From(c)
  <2>1. keep = Recorded(c, n, page)  OBVIOUS
  <2> HIDE DEF keep
  <2> QED BY <2>1, RecordedKeeps
<1>5. Graph[n] \in Seq(Nodes)  BY ListAssumption
<1> HIDE DEF keep
<1>6. all \in From(keep)
  <2> DEFINE seq == Graph[n]
  <2>1. all = Offers(keep, seq)[Len(seq)] /\ seq \in Seq(Nodes) /\ Good(keep)
    BY <1>4, <1>5, FromGood
  <2> HIDE DEF all, seq
  <2> QED BY <2>1, OffersKeep
<1>7. y \in From(all)
  <2>1. y = ResizeL(all)  BY DEF y
  <2> HIDE DEF all
  <2> QED BY <1>6, <2>1, FromGood, ResizeKeeps
<1> HIDE DEF all
<1> QED BY <1>3, <1>4, <1>6, <1>7, FromFrom

LEMMA ExpansionsInTurn ==
    ASSUME NEW c, Good(c), NEW ids \in Seq(Nodes), NEW F, F = Expansions(c, ids)
    PROVE  /\ F[0] = c /\ \A i \in 0 .. Len(ids) : F[i] \in From(c)
           /\ \A i \in 1 .. Len(ids) : F[i] = Expand(F[i - 1], ids[i], Page[ids[i]])
<1> DEFINE n == Len(ids)
           S == From(c)
           op(z, i) == Expand(z, ids[i], Page[ids[i]])
           body(f) == [ i \in 0 .. n |->
                          IF i = 0 THEN c ELSE CHOOSE y \in {op(z, i) : z \in {f[i - 1]}} : TRUE ]
           step == [ iz \in (1 .. n) \X S |-> op(iz[2], iz[1]) ]
           B == [ f \in [0 .. n -> S] \cup {F} |-> body(f) ]
<1>1. n \in Nat /\ \A i \in 1 .. n : ids[i] \in Nodes  BY LenProperties, ElementOfSeq
<1>2. c \in S  BY FromItself DEF Good
<1>3. ASSUME NEW i \in 1 .. n, NEW z \in S PROVE op(z, i) \in S
  <2> DEFINE y == op(z, i)
             m == ids[i]
             page == Page[m]
  <2>1. y = Expand(z, m, page)  OBVIOUS
  <2>2. m \in Nodes /\ page \in Nat  BY <1>1, SearchAssumption
  <2> HIDE DEF y, m, page, op
  <2>3. Good(z)  BY FromGood
  <2>4. y \in From(z)  BY <2>1, <2>2, <2>3, ExpandKeeps
  <2>5. y \in From(c)  BY <2>4, FromFrom
  <2> QED BY <2>5 DEF y
<1>4. step \in [(1 .. n) \X S -> S]
  <2> HIDE DEF S, n, op
  <2> QED BY <1>3
<1>5. ASSUME NEW f, NEW i \in 1 .. n
      PROVE  (CHOOSE y \in {op(z, i) : z \in {f[i - 1]}} : TRUE) = op(f[i - 1], i)
  <2> HIDE DEF op
  <2>1. {op(z, i) : z \in {f[i - 1]}} = {op(f[i - 1], i)}  OBVIOUS
  <2>2. Only({op(f[i - 1], i)}) = op(f[i - 1], i)  BY OnlyOne
  <2> QED BY <2>1, <2>2 DEF Only
<1>6. (\E f \in [0 .. n -> S] : f = B[f]) => F = B[F]
  <2>1. F = CHOOSE f : f = body(f)  BY DEF Expansions
  <2> HIDE DEF body, S
  <2> QED BY <2>1
<1>11. \A f, i : f \in S /\ i \in 1 .. n => step[<<i, f>>] = op(f, i)
  <2> HIDE DEF S, n, op
  <2> QED OBVIOUS
<1>7. ASSUME NEW f \in [0 .. n -> S] \cup {F}
      PROVE  /\ B[f] = [ i \in 0 .. n |-> B[f][i] ] /\ B[f][0] = c
             /\ \A i \in 1 .. n : f[i - 1] \in S => B[f][i] = step[<<i, f[i - 1]>>]
  <2>1. 0 \in 0 .. n /\ \A i \in 1 .. n : i \in 0 .. n /\ i # 0  BY <1>1
  <2>2. B[f] = body(f)
    <3> HIDE DEF body, S
    <3> QED OBVIOUS
  <2> HIDE DEF B, S, n, step, op
  <2> QED BY <1>5, <1>11, <2>1, <2>2
<1> HIDE DEF B, S, n, step
<1>8. Folding(n, S, c, step, F, B)  BY <1>6, <1>7 DEF Folding
<1>9. (\A i \in 0 .. n : F[i] \in S) /\ Recursion(F, n, c, step)
  BY <1>1, <1>2, <1>4, <1>8, FoldKept
<1>12. \A i \in 1 .. n : F[i] = op(F[i - 1], i)
  <2>1. \A i \in 1 .. n : i - 1 \in 0 .. n  BY <1>1
  <2> HIDE DEF op
  <2> QED BY <1>9, <1>11, <2>1 DEF Recursion
<1> QED BY <1>9, <1>12 DEF S, n, Recursion

(* ExpandAll is the last of them. *)
LEMMA AllExpanded ==
    ASSUME NEW c, NEW ids PROVE ExpandAll(c, ids) = Expansions(c, ids)[Len(ids)]
  BY Zenon DEF ExpandAll, Through, Expansions

LEMMA ExpandAllKeeps ==
    ASSUME NEW c, Good(c), NEW ids \in Seq(Nodes), NEW x, x = ExpandAll(c, ids)
    PROVE  x \in From(c)
<1> DEFINE F == Expansions(c, ids)
<1>1. Len(ids) \in 0 .. Len(ids)  BY LenProperties
<1>2. x = F[Len(ids)]  BY AllExpanded
<1> HIDE DEF F
<1>3. \A i \in 0 .. Len(ids) : F[i] \in From(c)  BY ExpansionsInTurn DEF F
<1> QED BY <1>1, <1>2, <1>3

(* The order of distances, then ids. *)
LEMMA NearerStrict ==
    ASSUME NEW d \in [Nodes -> Int], NEW S \in SUBSET Nodes
    PROVE  StrictOrder(S, {ml \in S \X S : Nearer(d, ml[1], ml[2])})
<1> DEFINE W == {ml \in S \X S : Nearer(d, ml[1], ml[2])}
<1>1. \A a, b \in S : <<a, b>> \in W <=> d[a] < d[b] \/ (d[a] = d[b] /\ a < b)  BY DEF Nearer
<1>2. \A a \in S : d[a] \in Int /\ a \in Int  BY ListAssumption
<1> HIDE DEF W
<1>3. \A a \in S : <<a, a>> \notin W  BY <1>1, <1>2
<1>4. \A a, b \in S : a # b => <<a, b>> \in W \/ <<b, a>> \in W  BY <1>1, <1>2
<1>5. \A a, b, e \in S : <<a, b>> \in W /\ <<b, e>> \in W => <<a, e>> \in W  BY <1>1, <1>2
<1> QED BY <1>3, <1>4, <1>5 DEF StrictOrder, W

(* The other records of a page are ids. *)
LEMMA RestListed ==
    ASSUME NEW c \in ListSet, NEW n \in Nodes
    PROVE  RestOfPage(c, n) \in Seq(Nodes)
<1> DEFINE S == {m \in Nodes \ {n} : Page[m] = Page[n]}
           W == {ml \in S \X S : Nearer(c.query.exact, ml[1], ml[2])}
           rest == RestOfPage(c, n)
<1>1. rest = InOrder(S, W)  BY DEF RestOfPage
<1>2. S \in SUBSET Nodes /\ IsFiniteSet(S)  BY ListAssumption, FS_Subset
<1>3. c.query.exact \in [Nodes -> Int]  BY Fields
<1>4. StrictOrder(S, W)
  <2> HIDE DEF S
  <2> QED BY <1>2, <1>3, NearerStrict
<1> HIDE DEF S, W, rest
<1>5. rest \in Seq(S) /\ rest \in [1 .. Cardinality(S) -> S] /\ Cardinality(S) \in Nat
  BY <1>1, <1>2, <1>4, InOrderLists
<1>6. rest \in [1 .. Cardinality(S) -> Nodes]  BY <1>2, <1>5
<1> QED BY <1>5, <1>6, AsSequence DEF rest

(* Each is the one before it with the rest of one more page expanded. *)
LEMMA PassesInTurn ==
    ASSUME NEW c, Good(c), NEW ids \in Seq(Nodes), NEW F, F = Passes(c, ids)
    PROVE  /\ F[0] = c /\ \A i \in 0 .. Len(ids) : F[i] \in From(c)
           /\ \A i \in 1 .. Len(ids) : F[i] = ExpandAll(F[i - 1], RestOfPage(F[i - 1], ids[i]))
<1> DEFINE n == Len(ids)
           S == From(c)
           op(z, i) == ExpandAll(z, RestOfPage(z, ids[i]))
           body(f) == [ i \in 0 .. n |->
                          IF i = 0 THEN c ELSE CHOOSE y \in {op(z, i) : z \in {f[i - 1]}} : TRUE ]
           step == [ iz \in (1 .. n) \X S |-> op(iz[2], iz[1]) ]
           B == [ f \in [0 .. n -> S] \cup {F} |-> body(f) ]
<1>1. n \in Nat /\ \A i \in 1 .. n : ids[i] \in Nodes  BY LenProperties, ElementOfSeq
<1>2. c \in S  BY FromItself DEF Good
<1>3. ASSUME NEW i \in 1 .. n, NEW z \in S PROVE op(z, i) \in S
  <2> DEFINE y == op(z, i)
             rest == RestOfPage(z, ids[i])
  <2>1. y = ExpandAll(z, rest)  OBVIOUS
  <2>2. Good(z) /\ z \in ListSet  BY FromGood
  <2>3. rest \in Seq(Nodes)  BY <1>1, <2>2, RestListed
  <2> HIDE DEF y, rest, op
  <2>4. y \in From(z)  BY <2>1, <2>2, <2>3, ExpandAllKeeps
  <2>5. y \in From(c)  BY <2>4, FromFrom
  <2> QED BY <2>5 DEF y
<1>4. step \in [(1 .. n) \X S -> S]
  <2> HIDE DEF S, n, op
  <2> QED BY <1>3
<1>5. ASSUME NEW f, NEW i \in 1 .. n
      PROVE  (CHOOSE y \in {op(z, i) : z \in {f[i - 1]}} : TRUE) = op(f[i - 1], i)
  <2> HIDE DEF op
  <2>1. {op(z, i) : z \in {f[i - 1]}} = {op(f[i - 1], i)}  OBVIOUS
  <2>2. Only({op(f[i - 1], i)}) = op(f[i - 1], i)  BY OnlyOne
  <2> QED BY <2>1, <2>2 DEF Only
<1>6. (\E f \in [0 .. n -> S] : f = B[f]) => F = B[F]
  <2>1. F = CHOOSE f : f = body(f)  BY DEF Passes
  <2> HIDE DEF body, S
  <2> QED BY <2>1
<1>11. \A f, i : f \in S /\ i \in 1 .. n => step[<<i, f>>] = op(f, i)
  <2> HIDE DEF S, n, op
  <2> QED OBVIOUS
<1>7. ASSUME NEW f \in [0 .. n -> S] \cup {F}
      PROVE  /\ B[f] = [ i \in 0 .. n |-> B[f][i] ] /\ B[f][0] = c
             /\ \A i \in 1 .. n : f[i - 1] \in S => B[f][i] = step[<<i, f[i - 1]>>]
  <2>1. 0 \in 0 .. n /\ \A i \in 1 .. n : i \in 0 .. n /\ i # 0  BY <1>1
  <2>2. B[f] = body(f)
    <3> HIDE DEF body, S
    <3> QED OBVIOUS
  <2> HIDE DEF B, S, n, step, op
  <2> QED BY <1>5, <1>11, <2>1, <2>2
<1> HIDE DEF B, S, n, step
<1>8. Folding(n, S, c, step, F, B)  BY <1>6, <1>7 DEF Folding
<1>9. (\A i \in 0 .. n : F[i] \in S) /\ Recursion(F, n, c, step)
  BY <1>1, <1>2, <1>4, <1>8, FoldKept
<1>12. \A i \in 1 .. n : F[i] = op(F[i - 1], i)
  <2>1. \A i \in 1 .. n : i - 1 \in 0 .. n  BY <1>1
  <2> HIDE DEF op
  <2> QED BY <1>9, <1>11, <2>1 DEF Recursion
<1> QED BY <1>9, <1>12 DEF S, n, Recursion

LEMMA PassesKeep ==
    ASSUME NEW c, Good(c), NEW ids \in Seq(Nodes), NEW x, x = Passes(c, ids)[Len(ids)]
    PROVE  x \in From(c)
<1> DEFINE F == Passes(c, ids)
<1>1. Len(ids) \in 0 .. Len(ids)  BY LenProperties
<1> HIDE DEF F
<1>2. \A i \in 0 .. Len(ids) : F[i] \in From(c)  BY PassesInTurn DEF F
<1> QED BY <1>1, <1>2 DEF F

(* What a round does keeps the list. *)
LEMMA ExploreKeeps ==
    ASSUME NEW c, Good(c), NEW x, x = Explore(c)
    PROVE  x \in From(c)
<1> DEFINE all == Passes(c, c.snap)[Len(c.snap)]
           passed == IF c.kind = "page" THEN all ELSE c
           snap == IF c.kind = "page" THEN c.front ELSE c.snap
           e == ExpandAll(passed, c.front)
           y == EndRound([e EXCEPT !.snap = snap])
<1>1. Explore(c) = Only({EndRound([z EXCEPT !.snap = snap]) :
                            z \in {ExpandAll(w, c.front) : w \in {passed}}})
  BY Zenon DEF Explore, Through, Passes
<1>2. x = y
  <2> HIDE DEF passed, snap
  <2>1. {ExpandAll(w, c.front) : w \in {passed}} = {e}  OBVIOUS
  <2> HIDE DEF e
  <2>2. {EndRound([z EXCEPT !.snap = snap]) : z \in {e}} = {y}  OBVIOUS
  <2> HIDE DEF y
  <2> QED BY <1>1, <2>1, <2>2, OnlyOne
<1>3. c \in ListSet /\ c.snap \in Seq(Nodes) /\ c.front \in Seq(Nodes) /\ ListOK(c) /\ Nearest(c)
  BY DEF Good, ListOK, ListSet
<1>4. snap \in Seq(Nodes)  BY <1>3
<1>5. passed \in From(c)
  <2>1. all \in From(c)  BY <1>3, PassesKeep
  <2>2. c \in From(c)  BY <1>3, FromItself
  <2> HIDE DEF all
  <2> QED BY <2>1, <2>2
<1> HIDE DEF passed, snap
<1>6. e \in From(passed)
  <2>1. e = ExpandAll(passed, c.front) /\ Good(passed)  BY <1>5, FromGood
  <2> HIDE DEF e
  <2> QED BY <1>3, <2>1, ExpandAllKeeps
<1> HIDE DEF e
<1>7. e \in From(c) /\ e \in ListSet /\ ListOK(e) /\ Nearest(e) /\ Grown(c, e)
  <2>1. e \in From(c)  BY <1>5, <1>6, FromFrom
  <2> QED BY <2>1 DEF From
<1>8. y \in From(e)
  <2> DEFINE k == IF e.nk <= e.k THEN e.nk ELSE e.k + 1
  <2>1. e.k \in Nat /\ e.nk \in Nat /\ Len(e.pool) \in Nat
        /\ e.k <= Len(e.pool) /\ e.nk <= Len(e.pool)
    BY <1>7, Fields DEF ListSet, ListOK
  <2>2. k \in Nat /\ k <= Len(e.pool)  BY <2>1
  <2>3. y = [e EXCEPT !.snap = snap, !.k = k]
    BY <1>7 DEF EndRound, ListSet
  <2> HIDE DEF k, y
  <2>4. y \in ListSet
    <3>1. [e EXCEPT !.snap = snap, !.k = k] \in ListSet  BY <1>4, <1>7, <2>2 DEF ListSet
    <3> QED BY <2>3, <3>1
  <2>5. /\ y.kind = e.kind /\ y.dyn = e.dyn /\ y.query = e.query /\ y.L = e.L /\ y.pool = e.pool
        /\ y.seen = e.seen /\ y.k = k /\ y.nk = e.nk /\ y.heap = e.heap
    BY <1>7, <2>3 DEF ListSet
  <2>6. ListOK(y)  BY <1>7, <2>2, <2>4, <2>5 DEF ListOK
  <2>7. Nearest(y) /\ Grown(e, y)  BY <1>7, <2>5 DEF Nearest, Grown
  <2> QED BY <2>4, <2>6, <2>7 DEF From
<1> HIDE DEF y
<1> QED BY <1>2, <1>7, <1>8, FromFrom

LEMMA RepickedGood ==
    ASSUME NEW c, ListOK(c), NEW x, Repicked(c, x)
    PROVE  ListOK(x) /\ (Nearest(c) => Nearest(x)) /\ Ids(x.pool) = Ids(c.pool)
<1>1. c \in ListSet /\ x \in ListSet  BY DEF ListOK, Repicked
<1>2. /\ DOMAIN x.pool = DOMAIN c.pool /\ DOMAIN c.pool = 1 .. Len(c.pool) /\ Len(c.pool) \in Nat
      /\ x.pool \in Seq(EntrySet) /\ c.pool \in Seq(EntrySet)
  BY <1>1, Fields DEF Repicked
<1>3. Ids(x.pool) = Ids(c.pool)  BY <1>2 DEF Ids, Repicked
<1>4. Len(c.pool) # 0 /\ x.pool # << >>
  <2>1. Len(c.pool) # 0  BY <1>2, EmptySeq DEF ListOK
  <2> QED BY <2>1, <1>2, EmptySeq DEF Repicked
<1>5. ListOK(x)  BY <1>1, <1>2, <1>3, <1>4 DEF ListOK, Repicked, OneEach
<1>6. Nearest(c) => Nearest(x)
  <2>1. Last(x.pool) = x.pool[Len(c.pool)] /\ Last(c.pool) = c.pool[Len(c.pool)]
    BY DEF Last, Repicked
  <2>2. Last(x.pool).id = Last(c.pool).id
    <3>1. Len(c.pool) \in DOMAIN c.pool  BY <1>2, <1>4
    <3> QED BY <2>1, <3>1 DEF Repicked
  <2> QED BY <1>2, <1>3, <2>2 DEF Nearest, NearestFirst, Repicked
<1> QED BY <1>3, <1>5, <1>6

LEMMA PickKeeps ==
    ASSUME NEW c, ListOK(c), NEW i \in DOMAIN c.pool, NEW x, Repicked(c, x),
           NEW y, y = Pick(x, c, i)
    PROVE  Repicked(c, y)
<1> DEFINE n == c.pool[i].id
           e == [x.pool[i] EXCEPT !.flag = FALSE]
           pool == [x.pool EXCEPT ![i] = e]
           front == Append(x.front, n)
           pages == x.pages \cup {Page[n]}
           z == [x EXCEPT !.front = front, !.pool = pool, !.pages = pages]
<1>1. c \in ListSet /\ x \in ListSet  BY DEF ListOK, Repicked
<1>2. /\ DOMAIN x.pool = DOMAIN c.pool /\ DOMAIN c.pool = 1 .. Len(c.pool) /\ Len(c.pool) \in Nat
      /\ x.pool \in Seq(EntrySet) /\ n \in Nodes /\ x.pool[i] \in EntrySet
      /\ Len(x.pool) = Len(c.pool)
  BY <1>1, Fields DEF Repicked
<1>3. e \in EntrySet /\ e.id = x.pool[i].id  BY <1>2 DEF EntrySet
<1> HIDE DEF e, n
<1>4. /\ pool \in Seq(EntrySet) /\ Len(pool) = Len(c.pool)
      /\ \A j \in DOMAIN c.pool : pool[j].id = c.pool[j].id
  <2>1. pool \in Seq(EntrySet) /\ Len(pool) = Len(x.pool)  BY <1>2, <1>3
  <2>2. \A j \in DOMAIN c.pool : pool[j] = IF j = i THEN e ELSE x.pool[j]  BY <1>2
  <2> HIDE DEF pool
  <2> QED BY <1>2, <1>3, <2>1, <2>2 DEF Repicked
<1>5. front \in Seq(Nodes)
  <2>1. x.front \in Seq(Nodes)  BY <1>1 DEF ListSet
  <2> QED BY <1>2, <2>1, AppendProperties
<1>6. pages \in SUBSET Nat
  <2>1. Page[n] \in Nat  BY <1>2, SearchAssumption
  <2>2. x.pages \in SUBSET Nat  BY <1>1 DEF ListSet
  <2> QED BY <2>1, <2>2
<1>7. y = z \/ y = x
  <2>1. y = [x EXCEPT !.front = Append(x.front, n), !.pool = [x.pool EXCEPT ![i] = [x.pool[i] EXCEPT !.flag = FALSE]],
                      !.pages = x.pages \cup {Page[n]}]
        \/ y = x
    BY DEF Pick, n
  <2> QED BY <2>1 DEF e
<1> HIDE DEF pool, front, pages, z
<1>8. z = [x EXCEPT !.front = front, !.pool = pool, !.pages = pages]  BY DEF z
<1>9. z \in ListSet
  <2>1. [x EXCEPT !.front = front, !.pool = pool, !.pages = pages] \in ListSet
    BY <1>1, <1>4, <1>5, <1>6 DEF ListSet
  <2> QED BY <1>8, <2>1
<1>10. /\ z.kind = x.kind /\ z.dyn = x.dyn /\ z.query = x.query /\ z.L = x.L /\ z.seen = x.seen
       /\ z.pool = pool /\ z.heap = x.heap /\ z.k = x.k /\ z.nk = x.nk
  BY <1>1, <1>8 DEF ListSet
<1>11. Repicked(c, z)  BY <1>4, <1>9, <1>10 DEF Repicked
<1> QED BY <1>7, <1>11

(* Each is the one before it with one more entry looked at. *)
LEMMA PicksInTurn ==
    ASSUME NEW c, ListOK(c), NEW base, base = Unpicked(c), NEW seq, seq = Positions(c),
           NEW F, F = Picks(c, base, seq)
    PROVE  /\ F[0] = base /\ F[Len(c.pool)] = PickBeam(c)
           /\ \A i \in 0 .. Len(c.pool) : Repicked(c, F[i])
           /\ \A i \in 1 .. Len(c.pool) : F[i] = Pick(F[i - 1], c, i)
<1> DEFINE n == Len(c.pool)
           S == { z \in ListSet : Repicked(c, z) }
           op(z, i) == Pick(z, c, seq[i])
           body(f) == [ i \in 0 .. n |->
                          IF i = 0 THEN base ELSE CHOOSE y \in {op(z, i) : z \in {f[i - 1]}} : TRUE ]
           step == [ iz \in (1 .. n) \X S |-> op(iz[2], iz[1]) ]
           B == [ f \in [0 .. n -> S] \cup {F} |-> body(f) ]
<1>1. /\ c \in ListSet /\ n \in Nat /\ DOMAIN c.pool = 1 .. n
      /\ \A i \in 1 .. n : seq[i] \in DOMAIN c.pool /\ seq[i] = i
  <2>1. c \in ListSet  BY DEF ListOK
  <2>2. n \in Nat /\ DOMAIN c.pool = 1 .. n  BY <2>1, Fields
  <2> QED BY <2>1, <2>2 DEF Positions
<1>2. base \in S
  <2>1. [c EXCEPT !.front = << >>, !.nk = n] \in ListSet
    <3>1. << >> \in Seq(Nodes)  OBVIOUS
    <3> QED BY <1>1, <3>1 DEF ListSet
  <2>2. base \in ListSet  BY <2>1 DEF Unpicked
  <2>3. /\ base.kind = c.kind /\ base.dyn = c.dyn /\ base.query = c.query /\ base.L = c.L
        /\ base.seen = c.seen /\ base.pool = c.pool /\ base.heap = c.heap /\ base.k = c.k
        /\ base.nk = n
    BY <1>1 DEF ListSet, Unpicked
  <2>4. Repicked(c, base)  BY <1>1, <2>2, <2>3 DEF Repicked, ListOK
  <2> QED BY <2>2, <2>4
<1>3. ASSUME NEW i \in 1 .. n, NEW z \in S PROVE op(z, i) \in S
  <2> DEFINE y == op(z, i)
             k == seq[i]
  <2>1. y = Pick(z, c, k) /\ k \in DOMAIN c.pool /\ Repicked(c, z)  BY <1>1
  <2> HIDE DEF y, k, op
  <2>2. Repicked(c, y)  BY <2>1, PickKeeps
  <2>3. y \in S  BY <2>2 DEF Repicked
  <2> QED BY <2>3 DEF y
<1>4. step \in [(1 .. n) \X S -> S]
  <2> HIDE DEF S, n, op
  <2> QED BY <1>3
<1>5. ASSUME NEW f, NEW i \in 1 .. n
      PROVE  (CHOOSE y \in {op(z, i) : z \in {f[i - 1]}} : TRUE) = op(f[i - 1], i)
  <2> HIDE DEF op
  <2>1. {op(z, i) : z \in {f[i - 1]}} = {op(f[i - 1], i)}  OBVIOUS
  <2>2. Only({op(f[i - 1], i)}) = op(f[i - 1], i)  BY OnlyOne
  <2> QED BY <2>1, <2>2 DEF Only
<1>0. Len(seq) = n
  <2>1. seq \in [1 .. n -> 1 .. n]  BY <1>1 DEF Positions
  <2> QED BY <1>1, <2>1, AsSequence
<1>6. (\E f \in [0 .. n -> S] : f = B[f]) => F = B[F]
  <2>1. F = CHOOSE f : f = body(f)
    <3> HIDE DEF n
    <3> QED BY <1>0 DEF Picks
  <2> HIDE DEF body, S
  <2> QED BY <2>1
<1>11. \A f, i : f \in S /\ i \in 1 .. n => step[<<i, f>>] = op(f, i)
  <2> HIDE DEF S, n, op
  <2> QED OBVIOUS
<1>7. ASSUME NEW f \in [0 .. n -> S] \cup {F}
      PROVE  /\ B[f] = [ i \in 0 .. n |-> B[f][i] ] /\ B[f][0] = base
             /\ \A i \in 1 .. n : f[i - 1] \in S => B[f][i] = step[<<i, f[i - 1]>>]
  <2>1. 0 \in 0 .. n /\ \A i \in 1 .. n : i \in 0 .. n /\ i # 0  BY <1>1
  <2>2. B[f] = body(f)
    <3> HIDE DEF body, S
    <3> QED OBVIOUS
  <2> HIDE DEF B, S, n, step, op
  <2> QED BY <1>5, <1>11, <2>1, <2>2
<1>10. PickBeam(c) = F[n]
  <2>1. PickBeam(c) = Picks(c, Unpicked(c), Positions(c))[Len(Positions(c))]
    BY Zenon DEF PickBeam, Through, Picks, Pick, Positions, Unpicked
  <2> QED BY <1>0, <2>1
<1> HIDE DEF B, S, n, step
<1>8. Folding(n, S, base, step, F, B)  BY <1>6, <1>7 DEF Folding
<1>9. (\A i \in 0 .. n : F[i] \in S) /\ Recursion(F, n, base, step)
  BY <1>1, <1>2, <1>4, <1>8, FoldKept
<1>12. \A i \in 1 .. n : F[i] = Pick(F[i - 1], c, i)
  <2>1. \A i \in 1 .. n : i - 1 \in 0 .. n  BY <1>1
  <2>2. \A i \in 1 .. n : F[i] = op(F[i - 1], i)
    <3> HIDE DEF op
    <3> QED BY <1>9, <1>11, <2>1 DEF Recursion
  <2> QED BY <1>1, <2>2
<1> QED BY <1>9, <1>10, <1>12 DEF S, n, Recursion

LEMMA PickBeamKeeps ==
    ASSUME NEW c, ListOK(c), NEW x, x = PickBeam(c)
    PROVE  Repicked(c, x)
<1> DEFINE F == Picks(c, Unpicked(c), Positions(c))
<1>1. c \in ListSet  BY DEF ListOK
<1>2. Len(c.pool) \in Nat  BY <1>1, Fields
<1> HIDE DEF F
<1>3. F[Len(c.pool)] = x /\ \A i \in 0 .. Len(c.pool) : Repicked(c, F[i])  BY PicksInTurn DEF F
<1> QED BY <1>2, <1>3

-----------------------------------------------------------------------------
(* Sorting the first entries keeps them, and puts the list in order.        *)
LEMMA SortKeeps ==
    ASSUME NEW c, ListOK(c), c.seen = Ids(c.pool), NEW x, x = SortPool(c)
    PROVE  /\ Good(x) /\ x.seen = Ids(x.pool)
           /\ x.kind = c.kind /\ x.dyn = c.dyn /\ x.query = c.query /\ x.front = c.front
           /\ x.k = c.k /\ x.pages = c.pages /\ x.snap = c.snap
           /\ x.full = c.full /\ x.computed = c.computed
           /\ Len(x.pool) = Len(c.pool)
           /\ \A i \in DOMAIN x.pool : \E j \in DOMAIN c.pool : x.pool[i] = c.pool[j]
           /\ \A j \in DOMAIN c.pool : \E i \in DOMAIN x.pool : x.pool[i] = c.pool[j]
<1> DEFINE at == DOMAIN c.pool
           d == c.query.pq
           W == {ij \in at \X at : Nearer(d, c.pool[ij[1]].id, c.pool[ij[2]].id)}
           sorted == InOrder(at, W)
           N == Len(c.pool)
           h == [i \in at |-> c.pool[sorted[i]]]
           pool == << >> \o h
<1>1. /\ c \in ListSet /\ N \in Nat /\ at = 1 .. N /\ d \in [Nodes -> Int] /\ c.pool \in Seq(EntrySet)
      /\ \A i \in at : c.pool[i] \in EntrySet /\ c.pool[i].id \in Nodes
  <2>1. c \in ListSet  BY DEF ListOK
  <2> QED BY <2>1, Fields
<1>2. x = [c EXCEPT !.pool = pool]
  <2>1. x = [c EXCEPT !.pool = << >> \o [i \in DOMAIN c.pool |-> c.pool[sorted[i]]]]
    BY DEF SortPool
  <2> QED BY <2>1
<1>3. \A i, j \in at : <<i, j>> \in W <=> Nearer(d, c.pool[i].id, c.pool[j].id)  OBVIOUS
<1> HIDE DEF d, W
<1>4. \A i, j \in at : <<i, j>> \in W <=>
          \/ d[c.pool[i].id] < d[c.pool[j].id]
          \/ d[c.pool[i].id] = d[c.pool[j].id] /\ c.pool[i].id < c.pool[j].id
  BY <1>3 DEF Nearer
<1>5. \A i \in at : d[c.pool[i].id] \in Int /\ c.pool[i].id \in Int
  <2>1. \A m \in Nodes : m \in Int  BY ListAssumption
  <2> HIDE DEF at
  <2> QED BY <1>1, <2>1
<1>6. StrictOrder(at, W)
  <2>1. \A i, j \in at : c.pool[i].id = c.pool[j].id => i = j  BY DEF ListOK, OneEach
  <2> HIDE DEF at
  <2>2. \A a \in at : <<a, a>> \notin W  BY <1>4, <1>5
  <2>3. \A a, b \in at : a # b => <<a, b>> \in W \/ <<b, a>> \in W  BY <1>4, <1>5, <2>1
  <2>4. \A a, b, e \in at : <<a, b>> \in W /\ <<b, e>> \in W => <<a, e>> \in W  BY <1>4, <1>5
  <2> QED BY <2>2, <2>3, <2>4 DEF StrictOrder
<1>7. IsFiniteSet(at) /\ Cardinality(at) = N
  <2>1. IsFiniteSet(1 .. N) /\ Cardinality(1 .. N) = IF 1 > N THEN 0 ELSE N - 1 + 1
    <3>1. 1 \in Int /\ N \in Int  BY <1>1
    <3> QED BY <3>1, FS_Interval
  <2> QED BY <1>1, <2>1
<1>8. /\ sorted \in [1 .. N -> at]
      /\ \A a \in at : \E i \in 1 .. N : sorted[i] = a
      /\ \A i, j \in 1 .. N : i < j => <<sorted[i], sorted[j]>> \in W
      /\ \A i, j \in 1 .. N : sorted[i] = sorted[j] => i = j
  <2> DEFINE s == sorted
             S == at
  <2>1. IsFiniteSet(S) /\ StrictOrder(S, W) /\ s = InOrder(S, W)  BY <1>6, <1>7
  <2> HIDE DEF s, S
  <2>2. /\ s \in [1 .. Cardinality(S) -> S]
        /\ \A a \in S : \E i \in 1 .. Cardinality(S) : s[i] = a
        /\ \A i, j \in 1 .. Cardinality(S) : i < j => <<s[i], s[j]>> \in W
        /\ \A i, j \in 1 .. Cardinality(S) : s[i] = s[j] => i = j
    BY <2>1, InOrderLists
  <2>3. Cardinality(S) = N  BY <1>7 DEF S
  <2> HIDE DEF N, W, at, sorted
  <2> QED BY <2>2, <2>3 DEF S, s
<1> HIDE DEF sorted
<1>9. h \in [1 .. N -> EntrySet] /\ \A i \in 1 .. N : h[i] = c.pool[sorted[i]]  BY <1>1, <1>8
<1> HIDE DEF h
<1>10. pool \in Seq(EntrySet) /\ Len(pool) = N /\ pool = h  BY <1>1, <1>9, AsSequence
<1> HIDE DEF pool
<1>11. x \in ListSet
  <2>1. [c EXCEPT !.pool = pool] \in ListSet  BY <1>1, <1>10 DEF ListSet
  <2> QED BY <1>2, <2>1
<1>12. /\ x.kind = c.kind /\ x.dyn = c.dyn /\ x.query = c.query /\ x.L = c.L /\ x.seen = c.seen
       /\ x.pool = pool /\ x.heap = c.heap /\ x.k = c.k /\ x.nk = c.nk /\ x.front = c.front
       /\ x.pages = c.pages /\ x.snap = c.snap /\ x.full = c.full /\ x.computed = c.computed
  BY <1>1, <1>2 DEF ListSet
<1>13. DOMAIN pool = 1 .. N /\ \A i \in 1 .. N : sorted[i] \in at /\ pool[i] = c.pool[sorted[i]]
  BY <1>8, <1>9, <1>10
<1> HIDE DEF N, W, at
<1>14. \A i \in 1 .. N : \E j \in at : pool[i] = c.pool[j]  BY <1>13
<1>15. \A j \in at : \E i \in 1 .. N : pool[i] = c.pool[j]  BY <1>8, <1>13
<1>16. Ids(pool) = Ids(c.pool)
  <2>1. \A i \in 1 .. N : pool[i].id \in Ids(c.pool)  BY <1>14 DEF Ids, at
  <2>2. \A j \in at : c.pool[j].id \in Ids(pool)  BY <1>13, <1>15 DEF Ids
  <2> QED BY <1>13, <2>1, <2>2 DEF Ids, at
<1>17. OneEach(pool)
  <2>1. \A i, j \in at : c.pool[i].id = c.pool[j].id => i = j  BY DEF ListOK, OneEach, at
  <2> QED BY <1>8, <1>13, <2>1 DEF OneEach
<1>18. NearestFirst(d, pool)
  <2> SUFFICES ASSUME NEW i \in 1 .. N, NEW j \in 1 .. N, i < j
               PROVE  d[pool[i].id] <= d[pool[j].id]
    BY <1>13 DEF NearestFirst
  <2>1. <<sorted[i], sorted[j]>> \in W  BY <1>8
  <2>2. d[c.pool[sorted[i]].id] <= d[c.pool[sorted[j]].id]  BY <1>4, <1>5, <1>13, <2>1
  <2> QED BY <1>13, <2>2
<1>19. pool # << >>
  <2>1. N # 0  BY <1>1, EmptySeq DEF N, ListOK
  <2> QED BY <2>1, <1>10, EmptySeq
<1>20. ListOK(x)  BY <1>10, <1>11, <1>12, <1>16, <1>17, <1>19 DEF ListOK, N
<1>21. Nearest(x)  BY <1>12, <1>16, <1>18 DEF Nearest, d
<1>22. Good(x) /\ x.seen = Ids(x.pool) /\ Len(x.pool) = Len(c.pool)
  BY <1>10, <1>12, <1>16, <1>20, <1>21 DEF Good, N
<1>23. /\ \A i \in DOMAIN x.pool : \E j \in DOMAIN c.pool : x.pool[i] = c.pool[j]
       /\ \A j \in DOMAIN c.pool : \E i \in DOMAIN x.pool : x.pool[i] = c.pool[j]
  <2>1. DOMAIN x.pool = 1 .. N  BY <1>12, <1>13
  <2>2. \A i \in 1 .. N : \E j \in DOMAIN c.pool : x.pool[i] = c.pool[j]
    BY <1>12, <1>14 DEF at
  <2>3. \A j \in DOMAIN c.pool : \E i \in 1 .. N : x.pool[i] = c.pool[j]
    BY <1>12, <1>15 DEF at
  <2> QED BY <2>1, <2>2, <2>3
<1> QED BY <1>12, <1>22, <1>23

(* Each is the one before it with one more id met. *)
LEMMA MeetsInTurn ==
    ASSUME NEW c \in ListSet, c.seen = {}, NEW seq \in Seq(Nodes), NEW F, F = Meets(c, seq)
    PROVE  /\ F[0] = c /\ \A i \in 0 .. Len(seq) : F[i] \in ListSet /\ Unmet(c, F[i])
           /\ \A i \in 1 .. Len(seq) : F[i] = Meet(F[i - 1], seq[i])
           /\ \A i \in 0 .. Len(seq) : F[i].seen = {seq[j] : j \in 1 .. i}
<1> DEFINE n == Len(seq)
           S == { z \in ListSet : Unmet(c, z) }
           op(z, i) == Meet(z, seq[i])
           body(f) == [ i \in 0 .. n |->
                          IF i = 0 THEN c ELSE CHOOSE y \in {op(z, i) : z \in {f[i - 1]}} : TRUE ]
           step == [ iz \in (1 .. n) \X S |-> op(iz[2], iz[1]) ]
           B == [ f \in [0 .. n -> S] \cup {F} |-> body(f) ]
<1>1. n \in Nat /\ DOMAIN seq = 1 .. n /\ \A i \in 1 .. n : seq[i] \in Nodes
  BY LenProperties, ElementOfSeq
<1>2. c \in S  BY DEF Unmet
<1>3. ASSUME NEW i \in 1 .. n, NEW z \in S PROVE op(z, i) \in S /\ op(z, i).seen = z.seen \cup {seq[i]}
  <2> DEFINE y == op(z, i)
             m == seq[i]
  <2>1. y = Meet(z, m) /\ m \in Nodes /\ z \in ListSet  BY <1>1
  <2>2. Unmet(c, z)  OBVIOUS
  <2> HIDE DEF y, m, op
  <2>3. y \in ListSet /\ y.seen = z.seen \cup {m} /\ Unmet(z, y)  BY <2>1, MeetAdds
  <2>4. Unmet(c, y)  BY <2>2, <2>3 DEF Unmet
  <2> QED BY <2>3, <2>4 DEF y, m
<1>4. step \in [(1 .. n) \X S -> S]
  <2> HIDE DEF S, n, op
  <2> QED BY <1>3
<1>5. ASSUME NEW f, NEW i \in 1 .. n
      PROVE  (CHOOSE y \in {op(z, i) : z \in {f[i - 1]}} : TRUE) = op(f[i - 1], i)
  <2> HIDE DEF op
  <2>1. {op(z, i) : z \in {f[i - 1]}} = {op(f[i - 1], i)}  OBVIOUS
  <2>2. Only({op(f[i - 1], i)}) = op(f[i - 1], i)  BY OnlyOne
  <2> QED BY <2>1, <2>2 DEF Only
<1>6. (\E f \in [0 .. n -> S] : f = B[f]) => F = B[F]
  <2>1. F = CHOOSE f : f = body(f)  BY DEF Meets
  <2> HIDE DEF body, S
  <2> QED BY <2>1
<1>11. \A f, i : f \in S /\ i \in 1 .. n => step[<<i, f>>] = op(f, i)
  <2> HIDE DEF S, n, op
  <2> QED OBVIOUS
<1>7. ASSUME NEW f \in [0 .. n -> S] \cup {F}
      PROVE  /\ B[f] = [ i \in 0 .. n |-> B[f][i] ] /\ B[f][0] = c
             /\ \A i \in 1 .. n : f[i - 1] \in S => B[f][i] = step[<<i, f[i - 1]>>]
  <2>1. 0 \in 0 .. n /\ \A i \in 1 .. n : i \in 0 .. n /\ i # 0  BY <1>1
  <2>2. B[f] = body(f)
    <3> HIDE DEF body, S
    <3> QED OBVIOUS
  <2> HIDE DEF B, S, n, step, op
  <2> QED BY <1>5, <1>11, <2>1, <2>2
<1> HIDE DEF B, step, n, S
<1>8. Folding(n, S, c, step, F, B)  BY <1>6, <1>7 DEF Folding
<1>9. (\A i \in 0 .. n : F[i] \in S) /\ Recursion(F, n, c, step)
  BY <1>1, <1>2, <1>4, <1>8, FoldKept
<1>12. \A i \in 1 .. n : F[i - 1] \in S /\ F[i] = op(F[i - 1], i)
  <2>1. \A i \in 1 .. n : i - 1 \in 0 .. n  BY <1>1
  <2> HIDE DEF op
  <2> QED BY <1>9, <1>11, <2>1 DEF Recursion
<1>13. \A i \in 1 .. n : F[i].seen = F[i - 1].seen \cup {seq[i]}
  <2> HIDE DEF op
  <2> QED BY <1>3, <1>12
<1> DEFINE Upto == { is \in (0 .. n) \X SUBSET Nodes : is[2] = {seq[j] : j \in 1 .. is[1]} }
           g == [ i \in 0 .. n |-> <<i, F[i].seen>> ]
<1>14. \A i \in 0 .. n : g[i] \in Upto
  <2>1. \A i \in 0 .. n : F[i].seen \in SUBSET Nodes  BY <1>9 DEF S, ListSet
  <2>2. g[0] \in Upto
    <3>1. 0 \in 0 .. n /\ F[0].seen = {}  BY <1>1, <1>9 DEF Recursion
    <3>2. {seq[j] : j \in 1 .. 0} = {}  OBVIOUS
    <3> QED BY <2>1, <3>1, <3>2
  <2>3. ASSUME NEW i \in 1 .. n, g[i - 1] \in Upto PROVE g[i] \in Upto
    <3>1. i - 1 \in 0 .. n /\ i \in 0 .. n  BY <1>1
    <3>2. F[i - 1].seen = {seq[j] : j \in 1 .. i - 1}  BY <2>3, <3>1
    <3>3. \A j : j \in 1 .. i <=> j = i \/ j \in 1 .. i - 1  BY <1>1
    <3>4. F[i].seen = {seq[j] : j \in 1 .. i}  BY <1>13, <3>2, <3>3
    <3> QED BY <2>1, <3>1, <3>4
  <2> HIDE DEF g, Upto
  <2> QED BY <1>1, <2>2, <2>3, KeptToTheEnd
<1>15. \A i \in 0 .. n : F[i].seen = {seq[j] : j \in 1 .. i}  BY <1>14
<1>16. (\A i \in 0 .. n : F[i] \in ListSet /\ Unmet(c, F[i])) /\ F[0] = c
  BY <1>9 DEF S, Recursion
<1>17. \A i \in 1 .. n : F[i] = Meet(F[i - 1], seq[i])  BY <1>12
<1> QED BY <1>15, <1>16, <1>17 DEF n

LEMMA MeetsAll ==
    ASSUME NEW c \in ListSet, c.seen = {}, NEW seq \in Seq(Nodes), NEW x, x = Meets(c, seq)[Len(seq)]
    PROVE  x \in ListSet /\ Unmet(c, x) /\ x.seen = {seq[i] : i \in DOMAIN seq}
<1> DEFINE F == Meets(c, seq)
<1>1. Len(seq) \in 0 .. Len(seq) /\ DOMAIN seq = 1 .. Len(seq)  BY LenProperties
<1> HIDE DEF F
<1>2. \A i \in 0 .. Len(seq) : F[i] \in ListSet /\ Unmet(c, F[i])  BY MeetsInTurn DEF F
<1>3. \A i \in 0 .. Len(seq) : F[i].seen = {seq[j] : j \in 1 .. i}  BY MeetsInTurn DEF F
<1> QED BY <1>1, <1>2, <1>3 DEF F

LEMMA NewListOK ==
    ASSUME NEW kind \in Kinds, NEW dyn \in BOOLEAN, NEW query \in Queries,
           NEW entries \in Entries \cup {<<Medoid>>},
           NEW x, x = NewList(kind, dyn, query, entries)
    PROVE  /\ ListOK(x) /\ x.seen = Ids(x.pool)
           /\ x.kind = kind /\ x.dyn = dyn /\ x.query = query
           /\ x.front = << >> /\ x.heap = << >> /\ x.computed = {}
           /\ x.k = 0 /\ x.pages = {} /\ x.snap = << >> /\ x.full = << >>
           /\ \A i \in DOMAIN x.pool : x.pool[i] = Entry(x.pool[i].id)
<1> DEFINE m == IF Len(entries) < LSearch THEN Len(entries) ELSE LSearch
           first == SubSeq(entries, 1, m)
           pool == [i \in DOMAIN first |-> Entry(first[i])]
           empty == Start(kind, dyn, query, pool)
<1>1. x = Meets(empty, first)[Len(first)]
  BY Zenon DEF NewList, Through, Meets, Start
<1>2. entries \in Seq(Nodes) /\ entries # << >> /\ IsInjective(entries)
  <2>1. CASE entries \in Entries  BY <2>1, SearchAssumption
  <2>2. CASE entries = <<Medoid>>
    <3>1. Medoid \in Nodes  BY SearchAssumption
    <3>2. <<Medoid>> \in Seq(Nodes) /\ <<Medoid>> # << >> /\ DOMAIN <<Medoid>> = {1}  BY <3>1
    <3>3. IsInjective(<<Medoid>>)  BY <3>2 DEF IsInjective
    <3> QED BY <2>2, <3>2, <3>3
  <2> QED BY <2>1, <2>2
<1>3. Len(entries) \in Nat /\ Len(entries) # 0 /\ DOMAIN entries = 1 .. Len(entries)
      /\ LSearch \in Nat \ {0}
  BY <1>2, EmptySeq, LenProperties, ListAssumption
<1>4. m \in 0 .. Len(entries) /\ m # 0 /\ m <= LSearch /\ m \in Nat  BY <1>3
<1> HIDE DEF m
<1>5. /\ first \in Seq(Nodes) /\ Len(first) = m /\ DOMAIN first = 1 .. m
      /\ \A i \in 1 .. m : first[i] = entries[i]
  BY <1>2, <1>4, FirstOnes
<1> HIDE DEF first
<1>6. /\ pool \in Seq(EntrySet) /\ Len(pool) = m /\ DOMAIN pool = 1 .. m
      /\ \A i \in 1 .. m : pool[i] = Entry(first[i]) /\ pool[i].id = first[i]
  <2>1. \A i \in 1 .. m : first[i] \in Nodes  BY <1>5, ElementOfSeq
  <2>2. \A i \in 1 .. m : Entry(first[i]) \in EntrySet /\ Entry(first[i]).id = first[i]
    BY <2>1 DEF Entry, EntrySet
  <2>3. pool \in [1 .. m -> EntrySet]  BY <1>5, <2>2
  <2>4. \A i \in 1 .. m : pool[i] = Entry(first[i])  BY <1>5
  <2> HIDE DEF pool
  <2> QED BY <1>4, <2>2, <2>3, <2>4, AsSequence
<1> HIDE DEF pool
<1>7. empty \in ListSet /\ empty.seen = {}
  <2>1. /\ << >> \in Seq(Nodes) /\ << >> \in Seq(Nodes \X Nat) /\ {} \in SUBSET Nodes
        /\ {} \in SUBSET Nat /\ LSearch \in Nat /\ 0 \in Nat
    BY <1>3
  <2> QED BY <1>6, <2>1 DEF Start, ListSet
<1>8. /\ empty.kind = kind /\ empty.dyn = dyn /\ empty.query = query /\ empty.L = LSearch
      /\ empty.pool = pool /\ empty.k = 0 /\ empty.nk = 0 /\ empty.heap = << >>
      /\ empty.front = << >> /\ empty.computed = {} /\ empty.pages = {} /\ empty.snap = << >>
      /\ empty.full = << >>
  BY DEF Start
<1> HIDE DEF empty
<1>9. x \in ListSet /\ Unmet(empty, x) /\ x.seen = {first[i] : i \in DOMAIN first}
  BY <1>1, <1>5, <1>7, MeetsAll
<1>10. /\ x.kind = kind /\ x.dyn = dyn /\ x.query = query /\ x.L = LSearch /\ x.pool = pool
       /\ x.k = 0 /\ x.nk = 0 /\ x.front = << >> /\ x.heap = << >> /\ x.computed = {}
       /\ x.pages = {} /\ x.snap = << >> /\ x.full = << >>
  BY <1>8, <1>9 DEF Unmet
<1>11. x.seen = Ids(pool)  BY <1>5, <1>6, <1>9 DEF Ids
<1>12. OneEach(pool)
  <2>1. \A i, j \in 1 .. m : entries[i] = entries[j] => i = j  BY <1>2, <1>3, <1>4 DEF IsInjective
  <2> QED BY <1>5, <1>6, <2>1 DEF OneEach
<1>13. pool # << >> /\ Len(x.heap) = 0
  <2>1. Len(pool) # 0  BY <1>4, <1>6
  <2>2. Len(<< >>) = 0  OBVIOUS
  <2> QED BY <2>1, <2>2, <1>6, <1>10, EmptySeq
<1>14. ListOK(x)
  <2>1. KSearch \in Nat  BY ListAssumption
  <2> QED BY <2>1, <1>3, <1>4, <1>6, <1>9, <1>10, <1>11, <1>12, <1>13 DEF ListOK
<1> QED BY <1>6, <1>10, <1>11, <1>14

LEMMA PushesInTurn ==
    ASSUME NEW d, NEW heap \in Seq(Nodes), Len(heap) <= KSearch, NEW seq \in Seq(Nodes),
           NEW F, F = Pushes(d, heap, seq)
    PROVE  /\ F[0] = heap /\ \A i \in 0 .. Len(seq) : F[i] \in Seq(Nodes) /\ Len(F[i]) <= KSearch
           /\ InTurn(F, d, seq)
<1> DEFINE n == Len(seq)
           S == { h \in Seq(Nodes) : Len(h) <= KSearch }
           op(z, i) == PushHeap(d, z, seq[i], KSearch)
           body(f) == [ i \in 0 .. n |->
                          IF i = 0 THEN heap ELSE CHOOSE y \in {op(z, i) : z \in {f[i - 1]}} : TRUE ]
           step == [ iz \in (1 .. n) \X S |-> op(iz[2], iz[1]) ]
           B == [ f \in [0 .. n -> S] \cup {F} |-> body(f) ]
<1>1. n \in Nat /\ (\A i \in 1 .. n : seq[i] \in Nodes) /\ KSearch \in Nat
  BY LenProperties, ElementOfSeq, ListAssumption
<1>2. heap \in S  OBVIOUS
<1>3. ASSUME NEW i \in 1 .. n, NEW z \in S PROVE op(z, i) \in S
  <2> DEFINE y == op(z, i)
             m == seq[i]
  <2>1. y = PushHeap(d, z, m, KSearch) /\ m \in Nodes /\ z \in Seq(Nodes)  BY <1>1
  <2> HIDE DEF y, m, op
  <2>2. y \in Seq(Nodes) /\ Len(y) <= KSearch  BY <1>1, <2>1, HeapPushed
  <2> QED BY <2>2 DEF y
<1>4. step \in [(1 .. n) \X S -> S]
  <2> HIDE DEF S, n, op
  <2> QED BY <1>3
<1>5. ASSUME NEW f, NEW i \in 1 .. n
      PROVE  (CHOOSE y \in {op(z, i) : z \in {f[i - 1]}} : TRUE) = op(f[i - 1], i)
  <2> HIDE DEF op
  <2>1. {op(z, i) : z \in {f[i - 1]}} = {op(f[i - 1], i)}  OBVIOUS
  <2>2. Only({op(f[i - 1], i)}) = op(f[i - 1], i)  BY OnlyOne
  <2> QED BY <2>1, <2>2 DEF Only
<1>6. (\E f \in [0 .. n -> S] : f = B[f]) => F = B[F]
  <2>1. F = CHOOSE f : f = body(f)  BY DEF Pushes
  <2> HIDE DEF body, S
  <2> QED BY <2>1
<1>11. \A f, i : f \in S /\ i \in 1 .. n => step[<<i, f>>] = op(f, i)
  <2> HIDE DEF S, n, op
  <2> QED OBVIOUS
<1>7. ASSUME NEW f \in [0 .. n -> S] \cup {F}
      PROVE  /\ B[f] = [ i \in 0 .. n |-> B[f][i] ] /\ B[f][0] = heap
             /\ \A i \in 1 .. n : f[i - 1] \in S => B[f][i] = step[<<i, f[i - 1]>>]
  <2>1. 0 \in 0 .. n /\ \A i \in 1 .. n : i \in 0 .. n /\ i # 0  BY <1>1
  <2>2. B[f] = body(f)
    <3> HIDE DEF body, S
    <3> QED OBVIOUS
  <2> HIDE DEF B, S, n, step, op
  <2> QED BY <1>5, <1>11, <2>1, <2>2
<1> HIDE DEF B, step, n, S
<1>8. Folding(n, S, heap, step, F, B)  BY <1>6, <1>7 DEF Folding
<1>9. (\A i \in 0 .. n : F[i] \in S) /\ Recursion(F, n, heap, step)
  BY <1>1, <1>2, <1>4, <1>8, FoldKept
<1>12. \A i \in 1 .. n : F[i] = PushHeap(d, F[i - 1], seq[i], KSearch)
  <2>1. \A i \in 1 .. n : i - 1 \in 0 .. n  BY <1>1
  <2> QED BY <1>9, <1>11, <2>1 DEF Recursion
<1> QED BY <1>9, <1>12 DEF S, n, Recursion, InTurn

LEMMA PushesKeep ==
    ASSUME NEW d, NEW heap \in Seq(Nodes), Len(heap) <= KSearch, NEW seq \in Seq(Nodes),
           NEW x, x = Pushes(d, heap, seq)[Len(seq)]
    PROVE  x \in Seq(Nodes) /\ Len(x) <= KSearch
<1> DEFINE F == Pushes(d, heap, seq)
<1>1. Len(seq) \in 0 .. Len(seq)  BY LenProperties
<1> HIDE DEF F
<1>2. \A i \in 0 .. Len(seq) : F[i] \in Seq(Nodes) /\ Len(F[i]) <= KSearch  BY PushesInTurn DEF F
<1> QED BY <1>1, <1>2 DEF F

-----------------------------------------------------------------------------
(* What is left to refine is a list of ids. *)
LEMMA ToRefineListed == ASSUME NEW c \in ListSet PROVE ToRefine(c) \in Seq(Nodes)
<1> DEFINE back == Reverse(c.cands)
           S == Nodes \ c.computed
           left == Kept(back, S)
<1>1. c.cands \in Seq(Nodes)  BY DEF ListSet
<1>2. back \in Seq(Nodes)
  <2> DEFINE n == Len(c.cands)
  <2>1. n \in Nat /\ \A i \in 1 .. n : c.cands[i] \in Nodes  BY <1>1, LenProperties, ElementOfSeq
  <2>2. back = [i \in 1 .. n |-> c.cands[(n - i) + 1]]  BY DEF Reverse
  <2>3. \A i \in 1 .. n : (n - i) + 1 \in 1 .. n  BY <2>1
  <2> HIDE DEF n, back
  <2>4. back \in [1 .. n -> Nodes]  BY <2>1, <2>2, <2>3
  <2> QED BY <2>1, <2>4, AsSequence
<1> HIDE DEF back, left, S
<1>3. left = Kept(back, S)  BY DEF left
<1>4. left \in Seq(Nodes \cap S)  BY <1>2, <1>3, KeptLists
<1>5. Nodes \cap S \subseteq Nodes  OBVIOUS
<1>6. left \in Seq(Nodes)  BY <1>4, <1>5, SeqMonotonic
<1> QED BY <1>6 DEF ToRefine, left, back, S

(* A set of numbers in ascending order: each once. *)
LEMMA AscendingLists ==
    ASSUME NEW S \in SUBSET Nat, IsFiniteSet(S), NEW given, given = Ascending(S)
    PROVE  given \in Seq(S) /\ IsInjective(given) /\ \A n \in S : \E i \in DOMAIN given : given[i] = n
<1> DEFINE W == {nm \in S \X S : nm[1] < nm[2]}
<1>1. \A a, b \in S : <<a, b>> \in W <=> a < b  OBVIOUS
<1>2. given = InOrder(S, W)  BY DEF Ascending
<1> HIDE DEF W
<1>3. StrictOrder(S, W)
  <2>1. \A a \in S : a \in Int  OBVIOUS
  <2> QED BY <1>1, <2>1 DEF StrictOrder
<1>4. /\ given \in Seq(S) /\ DOMAIN given = 1 .. Cardinality(S)
      /\ \A a \in S : \E i \in 1 .. Cardinality(S) : given[i] = a
      /\ \A i, j \in 1 .. Cardinality(S) : given[i] = given[j] => i = j
  BY <1>2, <1>3, InOrderLists
<1> QED BY <1>4 DEF IsInjective

(* The keys of a round: each once. *)
LEMMA LockOrderLists ==
    ASSUME NEW ids \in SUBSET Nat, IsFiniteSet(ids), NEW pages \in SUBSET Nat, IsFiniteSet(pages),
           NEW keys, keys = LockOrder(ids, pages)
    PROVE  keys \in Seq(Keys) /\ IsInjective(keys)
<1> DEFINE a == Ascending(ids)
           b == Ascending(pages)
           x == [i \in DOMAIN a |-> IdKey(a[i])]
           y == IF UsePages THEN [i \in DOMAIN b |-> PageKey(b[i])] ELSE << >>
<1>1. keys = x \o y  BY DEF LockOrder
<1>2. a \in Seq(ids) /\ IsInjective(a) /\ b \in Seq(pages) /\ IsInjective(b)  BY AscendingLists
<1> HIDE DEF a, b
<1>3. /\ Len(a) \in Nat /\ DOMAIN a = 1 .. Len(a) /\ \A i \in DOMAIN a : a[i] \in Nat
      /\ Len(b) \in Nat /\ DOMAIN b = 1 .. Len(b) /\ \A i \in DOMAIN b : b[i] \in Nat
  BY <1>2, LenProperties, ElementOfSeq
<1>4. x \in Seq(Keys) /\ Len(x) = Len(a) /\ \A i \in 1 .. Len(a) : x[i] = <<0, a[i]>>
  <2>1. x \in [1 .. Len(a) -> Keys]  BY <1>3 DEF IdKey, Keys
  <2>2. \A i \in 1 .. Len(a) : x[i] = <<0, a[i]>>  BY <1>3 DEF IdKey
  <2> HIDE DEF x
  <2> QED BY <1>3, <2>1, <2>2, AsSequence
<1>5. y \in Seq(Keys) /\ Len(y) \in Nat /\ Len(y) <= Len(b) /\ \A i \in 1 .. Len(y) : y[i] = <<1, b[i]>>
  <2>1. CASE UsePages
    <3> DEFINE z == [i \in DOMAIN b |-> PageKey(b[i])]
    <3>1. z \in [1 .. Len(b) -> Keys]  BY <1>3 DEF PageKey, Keys
    <3>2. \A i \in 1 .. Len(b) : z[i] = <<1, b[i]>>  BY <1>3 DEF PageKey
    <3>3. y = z  BY <2>1
    <3> HIDE DEF z, y
    <3>4. z \in Seq(Keys) /\ Len(z) = Len(b)  BY <1>3, <3>1, AsSequence
    <3> QED BY <1>3, <3>2, <3>3, <3>4
  <2>2. CASE ~UsePages
    <3>1. y = << >> /\ << >> \in Seq(Keys) /\ Len(<< >>) = 0  BY <2>2
    <3> HIDE DEF y
    <3> QED BY <1>3, <3>1
  <2> QED BY <2>1, <2>2
<1> HIDE DEF x, y
<1>6. /\ keys \in Seq(Keys) /\ Len(keys) = Len(x) + Len(y)
      /\ \A i \in 1 .. Len(x) + Len(y) : keys[i] = IF i <= Len(x) THEN x[i] ELSE y[i - Len(x)]
  BY <1>1, <1>4, <1>5, ConcatProperties
<1>7. DOMAIN keys = 1 .. Len(x) + Len(y)  BY <1>6, LenProperties
<1>8. ASSUME NEW i \in DOMAIN keys, NEW j \in DOMAIN keys, keys[i] = keys[j] PROVE i = j
  <2> DEFINE n == Len(a)
  <2>1. n \in Nat /\ Len(x) = n  BY <1>3, <1>4
  <2>2. ASSUME NEW k \in DOMAIN keys
        PROVE  \/ k \in 1 .. n /\ keys[k] = <<0, a[k]>>
               \/ k > n /\ k - n \in 1 .. Len(y) /\ keys[k] = <<1, b[k - n]>>
    <3>1. k \in 1 .. n + Len(y) /\ keys[k] = IF k <= n THEN x[k] ELSE y[k - n]
      BY <1>6, <1>7, <2>1
    <3>2. CASE k <= n
      <4>1. k \in 1 .. n  BY <3>1, <3>2, <2>1, <1>5
      <4> QED BY <3>1, <3>2, <4>1, <1>4
    <3>3. CASE k > n
      <4>1. k - n \in 1 .. Len(y)  BY <3>1, <3>3, <2>1, <1>5
      <4> QED BY <3>1, <3>3, <4>1, <1>5, <2>1
    <3> QED BY <3>1, <3>2, <3>3, <2>1, <1>5
  <2>3. i \in Int /\ j \in Int  BY <1>7, <1>5, <2>1
  <2>4. \A k, l \in 1 .. n : a[k] = a[l] => k = l  BY <1>2, <1>3 DEF IsInjective
  <2>5. \A k, l \in 1 .. Len(y) : b[k] = b[l] => k = l
    <3>1. \A k \in 1 .. Len(y) : k \in DOMAIN b  BY <1>3, <1>5
    <3> QED BY <1>2, <3>1 DEF IsInjective
  <2> HIDE DEF n
  <2>6. CASE i \in 1 .. n /\ keys[i] = <<0, a[i]>>
    <3>1. \/ j \in 1 .. n /\ keys[j] = <<0, a[j]>>
          \/ keys[j] = <<1, b[j - n]>>
      BY <2>2
    <3>2. keys[j] # <<1, b[j - n]>>  BY <1>8, <2>6
    <3>3. j \in 1 .. n /\ <<0, a[i]>> = <<0, a[j]>>  BY <1>8, <2>6, <3>1, <3>2
    <3>4. a[i] = a[j]  BY <3>3
    <3> QED BY <2>4, <2>6, <3>3, <3>4
  <2>7. CASE i - n \in 1 .. Len(y) /\ keys[i] = <<1, b[i - n]>>
    <3>1. \/ keys[j] = <<0, a[j]>>
          \/ j - n \in 1 .. Len(y) /\ keys[j] = <<1, b[j - n]>>
      BY <2>2
    <3>2. keys[j] # <<0, a[j]>>  BY <1>8, <2>7
    <3>3. j - n \in 1 .. Len(y) /\ <<1, b[i - n]>> = <<1, b[j - n]>>
      BY <1>8, <2>7, <3>1, <3>2
    <3>4. b[i - n] = b[j - n]  BY <3>3
    <3>5. i - n = j - n  BY <2>5, <2>7, <3>3, <3>4
    <3> QED BY <2>1, <2>3, <3>5
  <2> QED BY <2>2, <2>6, <2>7
<1> QED BY <1>6, <1>8 DEF IsInjective

-----------------------------------------------------------------------------
(* A step of thread t, and what it leaves of the invariant.                 *)
LEMMA MovedTypes ==
    ASSUME TypesOK, NEW t \in Threads, NEW label \in Labels, NEW lists \in Seq(ListSet),
           NEW wants \in Seq(Keys), NEW holds \in SUBSET Keys, NEW fly, NEW p,
           Moved(t, label, lists, wants, holds, fly, p),
           free' \in Nat, bg' \in Nat, calls' \in 0 .. MaxCalls,
           locks' \in [DOMAIN locks' -> LockSet]
    PROVE  /\ TypesOK'
           /\ pc'[t] = label /\ list'[t] = lists /\ want'[t] = wants /\ held'[t] = holds
           /\ flying'[t] = fly /\ pipe'[t] = p
           /\ \A u \in Threads \ {t} :
                 /\ pc'[u] = pc[u] /\ list'[u] = list[u] /\ want'[u] = want[u]
                 /\ held'[u] = held[u] /\ flying'[u] = flying[u] /\ pipe'[u] = pipe[u]
<1>1. DOMAIN flying = Threads /\ DOMAIN pipe = Threads  
  <2>1. flying = [u \in Threads |-> flying[u]]  BY DEF TypesOK
  <2>2. pipe = [u \in Threads |-> pipe[u]]  BY DEF TypesOK
  <2>3. DOMAIN [u \in Threads |-> flying[u]] = Threads  OBVIOUS
  <2>4. DOMAIN [u \in Threads |-> pipe[u]] = Threads  OBVIOUS
  <2> QED BY <2>1, <2>2, <2>3, <2>4
<1>2. pc \in [Threads -> Labels] /\ list \in [Threads -> Seq(ListSet)]
      /\ want \in [Threads -> Seq(Keys)] /\ held \in [Threads -> SUBSET Keys]
  BY DEF TypesOK
<1>3. /\ pc' \in [Threads -> Labels] /\ pc'[t] = label /\ \A u \in Threads \ {t} : pc'[u] = pc[u]
  BY <1>2 DEF Moved
<1>4. /\ list' \in [Threads -> Seq(ListSet)] /\ list'[t] = lists
      /\ \A u \in Threads \ {t} : list'[u] = list[u]
  BY <1>2 DEF Moved
<1>5. /\ want' \in [Threads -> Seq(Keys)] /\ want'[t] = wants
      /\ \A u \in Threads \ {t} : want'[u] = want[u]
  BY <1>2 DEF Moved
<1>6. /\ held' \in [Threads -> SUBSET Keys] /\ held'[t] = holds
      /\ \A u \in Threads \ {t} : held'[u] = held[u]
  BY <1>2 DEF Moved
<1>7. /\ flying' = [u \in Threads |-> flying'[u]] /\ flying'[t] = fly
      /\ \A u \in Threads \ {t} : flying'[u] = flying[u]
  BY <1>1 DEF Moved
<1>8. /\ pipe' = [u \in Threads |-> pipe'[u]] /\ pipe'[t] = p
      /\ \A u \in Threads \ {t} : pipe'[u] = pipe[u]
  BY <1>1 DEF Moved
<1>9. mix' \in [Threads -> SUBSET Kinds]  BY DEF TypesOK, Moved
<1>10. TypesOK'  BY <1>3, <1>4, <1>5, <1>6, <1>7, <1>8, <1>9 DEF TypesOK
<1> QED BY <1>3, <1>4, <1>5, <1>6, <1>7, <1>8, <1>10

(* Such a step keeps the invariant. *)
LEMMA StepKeeps ==
    ASSUME SearchIInv, NEW t \in Threads, NEW label \in Labels, NEW lists \in Seq(ListSet),
           NEW wants \in Seq(Keys), NEW holds \in SUBSET Keys, NEW fly, NEW p,
           Moved(t, label, lists, wants, holds, fly, p),
           LocksInOrder', Accounts(t, label, lists),
           InOrderAt(label, lists, wants, holds, fly, p)
    PROVE  SearchIInv'
<1>1. TypesOK /\ BuffersExact /\ CallsCounted /\ \A u \in Threads : InOrderOf(u)
  BY DEF SearchIInv
<1>2. /\ TypesOK'
      /\ pc'[t] = label /\ list'[t] = lists /\ want'[t] = wants /\ held'[t] = holds
      /\ flying'[t] = fly /\ pipe'[t] = p
      /\ \A u \in Threads \ {t} :
            /\ pc'[u] = pc[u] /\ list'[u] = list[u] /\ want'[u] = want[u]
            /\ held'[u] = held[u] /\ flying'[u] = flying[u] /\ pipe'[u] = pipe[u]
  BY <1>1, MovedTypes DEF Accounts, LocksInOrder
<1>3. \A u \in Threads \ {t} : InOrderOf(u)'  BY <1>1, <1>2 DEF InOrderOf
<1>31. InOrderOf(t)'  BY <1>2 DEF InOrderOf
<1>4. \A u \in Threads : InOrderOf(u)'  BY <1>3, <1>31
<1>5. BuffersExact'
  <2>1. /\ Buffers \in [Threads -> Int] /\ Buffers' \in [Threads -> Int]
        /\ \A u \in Threads \ {t} : Buffers'[u] = Buffers[u]
    BY <1>2 DEF Buffers
  <2> DEFINE f == Buffers
             g == Buffers'
             v == g[t]
  <2>2. g = [f EXCEPT ![t] = v]
    <3> HIDE DEF f, g
    <3>1. f \in [Threads -> Int] /\ g \in [Threads -> Int] /\ \A u \in Threads \ {t} : g[u] = f[u]
      BY <2>1 DEF f, g
    <3> QED BY <3>1
  <2>3. f \in [Threads -> Int] /\ v \in Int  BY <2>1
  <2>4. IsFiniteSet(Threads)  BY SearchAssumption
  <2>5. f[t] \in Int  BY <2>1
  <2>6. free' + bg' + v = free + bg + f[t]  BY <1>2 DEF Accounts, Cost, Buffers
  <2>7. free \in Int /\ bg \in Int /\ free' \in Int /\ bg' \in Int  BY <1>1 DEF TypesOK, Accounts
  <2>8. free + bg + SumFunction(f) = NBuffers  BY <1>1 DEF BuffersExact
  <2>9. free' + bg' + SumFunction(g) = NBuffers
    <3> DEFINE free1 == free'
               bg1 == bg'
    <3>1. free1 + bg1 + v = free + bg + f[t] /\ free1 \in Int /\ bg1 \in Int  BY <2>6, <2>7
    <3> HIDE DEF f, g, v, free1, bg1
    <3>2. SumFunction(f) \in Int /\ SumFunction(g) = SumFunction(f) - f[t] + v
      <4>1. Changed(Threads, f, t, v, g)  BY <2>2, <2>3 DEF Changed
      <4>2. SumMoves(f, t, v, g)  BY <2>4, <4>1, SumChanged
      <4> QED BY <4>2 DEF SumMoves
    <3> DEFINE sum0 == SumFunction(f)
               sum1 == SumFunction(g)
               had == f[t]
    <3>3. /\ sum0 \in Int /\ had \in Int /\ v \in Int /\ sum1 = sum0 - had + v
          /\ free1 + bg1 + v = free + bg + had /\ free + bg + sum0 = NBuffers
          /\ free \in Int /\ bg \in Int
      BY <2>3, <2>5, <2>7, <2>8, <3>1, <3>2
    <3> HIDE DEF sum0, sum1, had
    <3>4. free1 + bg1 + sum1 = NBuffers  BY <3>1, <3>3
    <3> QED BY <3>4 DEF free1, bg1, sum1
  <2> QED BY <2>9 DEF BuffersExact
<1>6. CallsCounted'
  <2> DEFINE A == Active
             A1 == Active'
  <2>1. IsFiniteSet(Threads) /\ A \subseteq Threads /\ A1 \subseteq Threads
    BY SearchAssumption DEF Active
  <2>2. IsFiniteSet(A) /\ IsFiniteSet(A1)  BY <2>1, FS_Subset
  <2>3. A \ {t} = A1 \ {t} /\ (t \in A <=> pc[t] # "idle") /\ (t \in A1 <=> pc'[t] # "idle")
    BY <1>2 DEF Active
  <2> HIDE DEF A, A1
  <2>4. ASSUME NEW S, IsFiniteSet(S)
        PROVE  Cardinality(S) \in Int /\ Cardinality(S \ {t}) \in Int
               /\ Cardinality(S) = Cardinality(S \ {t}) + IF t \in S THEN 1 ELSE 0
    <3>1. Cardinality(S) \in Nat  BY <2>4, FS_CardinalityType
    <3>2. CASE t \in S
      <4>1. Cardinality(S \ {t}) = Cardinality(S) - 1  BY <2>4, <3>2, FS_RemoveElement
      <4> QED BY <3>1, <3>2, <4>1
    <3>3. CASE t \notin S
      <4> DEFINE r == S \ {t}
      <4>1. r = S  BY <3>3
      <4> HIDE DEF r
      <4>2. Cardinality(r) \in Int /\ Cardinality(S) = Cardinality(r) + IF t \in S THEN 1 ELSE 0
        BY <3>1, <3>3, <4>1
      <4> QED BY <3>1, <4>2 DEF r
    <3> QED BY <3>2, <3>3
  <2> DEFINE n == Cardinality(A)
             n1 == Cardinality(A1)
             k == Cardinality(A \ {t})
  <2>5. n \in Int /\ k \in Int /\ n = k + IF t \in A THEN 1 ELSE 0  BY <2>2, <2>4
  <2>6. n1 = k + IF t \in A1 THEN 1 ELSE 0
    <3>1. Cardinality(A1) = Cardinality(A1 \ {t}) + IF t \in A1 THEN 1 ELSE 0  BY <2>2, <2>4
    <3> QED BY <2>3, <3>1
  <2> HIDE DEF n, n1, k
  <2>7. bg + n <= calls  BY <1>1 DEF CallsCounted, n, A
  <2> DEFINE b1 == bg'
             c1 == calls'
             i1 == IF pc'[t] = "idle" THEN 0 ELSE 1
             i0 == IF pc[t] = "idle" THEN 0 ELSE 1
  <2>8. b1 + i1 + calls <= bg + i0 + c1  BY <1>2 DEF Accounts, Busy
  <2>9. bg \in Int /\ calls \in Int /\ b1 \in Int /\ c1 \in Int  BY <1>1 DEF TypesOK, Accounts
  <2>10. n = k + i0 /\ n1 = k + i1 /\ i0 \in Int /\ i1 \in Int  BY <2>3, <2>5, <2>6
  <2> HIDE DEF b1, c1, i1, i0
  <2>11. b1 + n1 <= c1  BY <2>5, <2>7, <2>8, <2>9, <2>10
  <2> QED BY <2>11 DEF CallsCounted, b1, c1, n1, A1
<1> QED BY <1>2, <1>4, <1>5, <1>6 DEF SearchIInv, LocksInOrder

-----------------------------------------------------------------------------
(* The lock tables.  Giving keys back, taking the next one, and steps that  *)
(* leave the tables alone.                                                  *)
LEMMA HoldersFinite ==
    ASSUME NEW key
    PROVE  IsFiniteSet(Holders(key)) /\ Cardinality(Holders(key)) \in Nat
<1>1. IsFiniteSet(Threads) /\ Holders(key) \subseteq Threads  BY SearchAssumption DEF Holders
<1>2. IsFiniteSet(Holders(key))  BY <1>1, FS_Subset
<1> QED BY <1>2, FS_CardinalityType

LEMMA UnlockKeeps ==
    ASSUME TypesOK, LocksInOrder, NEW t \in Threads, NEW keys, keys \subseteq held[t],
           locks' = Unlocked(keys), held' = [held EXCEPT ![t] = held[t] \ keys]
    PROVE  LocksInOrder'
<1>1. held \in [Threads -> SUBSET Keys] /\ locks \in [DOMAIN locks -> LockSet]
  BY DEF TypesOK
<1>2. /\ DOMAIN locks' = {key \in DOMAIN locks : key \in keys => locks[key].count > 1}
      /\ \A key \in DOMAIN locks' :
            locks'[key] = IF key \in keys THEN [locks[key] EXCEPT !.count = @ - 1] ELSE locks[key]
      /\ locks' = [key \in DOMAIN locks' |-> locks'[key]]
  BY DEF Unlocked
<1>3. \A u \in Threads : held'[u] = IF u = t THEN held[u] \ keys ELSE held[u]
  BY <1>1
<1>4. locks' \in [DOMAIN locks' -> LockSet]
  <2> SUFFICES ASSUME NEW key \in DOMAIN locks'
               PROVE  locks'[key] \in LockSet
    BY <1>2
  <2>1. key \in DOMAIN locks /\ locks[key] \in LockSet  BY <1>1, <1>2
  <2>2. CASE key \in keys
    <3>1. locks[key].count > 1 /\ locks'[key] = [locks[key] EXCEPT !.count = @ - 1]
      BY <1>2, <2>2
    <3>2. locks[key].count - 1 \in Nat \ {0}  BY <2>1, <3>1 DEF LockSet
    <3> QED BY <2>1, <3>1, <3>2 DEF LockSet
  <2>3. CASE key \notin keys  BY <1>2, <2>1, <2>3
  <2> QED BY <2>2, <2>3
<1>5. ASSUME NEW key \in DOMAIN locks' \cup UNION {held'[u] : u \in Threads}
      PROVE  /\ key \in DOMAIN locks'
             /\ locks'[key].count = Cardinality(Holders(key)')
             /\ locks'[key].write => Cardinality(Holders(key)') = 1
  <2> DEFINE H == Holders(key)
             H1 == Holders(key)'
  <2>1. key \in DOMAIN locks \cup UNION {held[u] : u \in Threads}  BY <1>2, <1>3
  <2>2. /\ key \in DOMAIN locks /\ locks[key].count = Cardinality(H)
        /\ locks[key].write => Cardinality(H) = 1
    BY <2>1 DEF LocksInOrder, LocksExact
  <2>3. IsFiniteSet(H) /\ Cardinality(H) \in Nat  BY HoldersFinite
  <2>4. CASE key \in keys
    <3>1. t \in H /\ H1 = H \ {t}  BY <1>3, <2>4 DEF Holders
    <3> HIDE DEF H, H1
    <3>2. Cardinality(H1) = Cardinality(H) - 1  BY <2>3, <3>1, FS_RemoveElement
    <3>3. locks[key].count > 1
      <4>1. CASE key \in DOMAIN locks'  BY <1>2, <2>4, <4>1
      <4>2. CASE key \in UNION {held'[u] : u \in Threads}
        <5>1. H1 # {}  BY <4>2 DEF H1, Holders
        <5>2. IsFiniteSet(H1)  BY <2>3, <3>1, FS_Subset
        <5>3. Cardinality(H1) # 0 /\ Cardinality(H1) \in Nat  BY <5>1, <5>2, FS_EmptySet, FS_CardinalityType
        <5> QED BY <2>2, <2>3, <3>2, <5>3
      <4> QED BY <4>1, <4>2
    <3>4. key \in DOMAIN locks' /\ locks'[key] = [locks[key] EXCEPT !.count = @ - 1]
      BY <1>2, <2>2, <2>4, <3>3
    <3>5. locks'[key].count = locks[key].count - 1 /\ locks'[key].write = locks[key].write
      <4>1. locks[key] \in LockSet  BY <1>1, <2>2
      <4> QED BY <3>4, <4>1 DEF LockSet
    <3> DEFINE k == Cardinality(H)
               k1 == Cardinality(H1)
    <3>6. k \in Nat /\ k1 = k - 1 /\ k > 1 /\ locks'[key].count = k - 1
      BY <2>2, <2>3, <3>2, <3>3, <3>5
    <3>7. ~locks'[key].write  BY <2>2, <3>5, <3>6
    <3> QED BY <3>4, <3>6, <3>7 DEF H1
  <2>5. CASE key \notin keys
    <3>1. H1 = H  BY <1>3, <2>5 DEF Holders
    <3>2. key \in DOMAIN locks' /\ locks'[key] = locks[key]  BY <1>2, <2>2, <2>5
    <3> QED BY <2>2, <3>1, <3>2
  <2> QED BY <2>4, <2>5
<1> QED BY <1>4, <1>5 DEF LocksInOrder, LocksExact

LEMMA LockKeeps ==
    ASSUME TypesOK, LocksInOrder, NEW t \in Threads, NEW key \in Keys, key \notin held[t],
           CanLock(t, key), locks' = Locked(t, key), held' = [held EXCEPT ![t] = held[t] \cup {key}]
    PROVE  LocksInOrder'
<1>1. held \in [Threads -> SUBSET Keys] /\ locks \in [DOMAIN locks -> LockSet]
  BY DEF TypesOK
<1>2. \A u \in Threads : held'[u] = IF u = t THEN held[u] \cup {key} ELSE held[u]  BY <1>1
<1> DEFINE H(k) == Holders(k)
           H1(k) == Holders(k)'
<1>3. \A k : k # key => H1(k) = H(k)  BY <1>2 DEF Holders
<1>4. H1(key) = H(key) \cup {t} /\ t \notin H(key)  BY <1>2 DEF Holders
<1>5. Cardinality(H1(key)) = Cardinality(H(key)) + 1
  <2>1. IsFiniteSet(H(key))  BY HoldersFinite
  <2> HIDE DEF H, H1
  <2> QED BY <2>1, <1>4, FS_AddElement
<1>6. \A k \in DOMAIN locks \cup UNION {held[u] : u \in Threads} :
          /\ k \in DOMAIN locks /\ locks[k].count = Cardinality(H(k))
          /\ locks[k].write => Cardinality(H(k)) = 1
  BY DEF LocksInOrder, LocksExact
<1>7. /\ DOMAIN locks' = DOMAIN locks \cup {key}
      /\ \A k \in DOMAIN locks : k # key => locks'[k] = locks[k]
      /\ locks'[key] \in LockSet
      /\ locks'[key].count = Cardinality(H(key)) + 1
      /\ locks'[key].write => Cardinality(H(key)) = 0
      /\ locks' = [k \in DOMAIN locks' |-> locks'[k]]
  <2> DEFINE entry == IF key \in DOMAIN locks THEN locks[key]
                      ELSE [count |-> 0, write |-> Writes(t)]
  <2>1. locks' = [k \in DOMAIN locks \cup {key} |->
                     IF k = key THEN [entry EXCEPT !.count = @ + 1] ELSE locks[k]]
    BY DEF Locked
  <2>2. entry \in [count : Nat, write : BOOLEAN]  BY <1>1 DEF Writes, LockSet
  <2>3. entry.count = Cardinality(H(key)) /\ (entry.write => Cardinality(H(key)) = 0)
    <3>1. CASE key \in DOMAIN locks
      <4>1. ~locks[key].write  BY <3>1 DEF CanLock
      <4> HIDE DEF H
      <4> QED BY <1>6, <3>1, <4>1
    <3>2. CASE key \notin DOMAIN locks
      <4>1. H(key) = {}  BY <1>6, <3>2 DEF Holders
      <4> HIDE DEF H
      <4> QED BY <3>2, <4>1, FS_EmptySet
    <3> QED BY <3>1, <3>2
  <2> HIDE DEF entry, H
  <2>4. [entry EXCEPT !.count = @ + 1] \in LockSet  BY <2>2 DEF LockSet
  <2>5. /\ [entry EXCEPT !.count = @ + 1].count = entry.count + 1
        /\ [entry EXCEPT !.count = @ + 1].write = entry.write
    BY <2>2
  <2>6. locks'[key] = [entry EXCEPT !.count = @ + 1]  BY <2>1
  <2>7. DOMAIN locks' = DOMAIN locks \cup {key} /\ locks' = [k \in DOMAIN locks' |-> locks'[k]]
    BY <2>1
  <2>8. \A k \in DOMAIN locks : k # key => locks'[k] = locks[k]  BY <2>1
  <2> QED BY <2>3, <2>4, <2>5, <2>6, <2>7, <2>8
<1>8. locks' \in [DOMAIN locks' -> LockSet]  BY <1>1, <1>7
<1>9. ASSUME NEW k \in DOMAIN locks' \cup UNION {held'[u] : u \in Threads}
      PROVE  /\ k \in DOMAIN locks' /\ locks'[k].count = Cardinality(H1(k))
             /\ locks'[k].write => Cardinality(H1(k)) = 1
  <2>1. CASE k = key
    <3>1. key \in DOMAIN locks'  BY <1>7
    <3> DEFINE n == Cardinality(H(key))
               n1 == Cardinality(H1(key))
    <3>2. n \in Nat /\ n1 = n + 1  BY <1>5, HoldersFinite
    <3>3. locks'[key].count = n + 1 /\ (locks'[key].write => n = 0)  BY <1>7
    <3> HIDE DEF n, n1
    <3>4. locks'[key].count = n1 /\ (locks'[key].write => n1 = 1)  BY <3>2, <3>3
    <3> QED BY <2>1, <3>1, <3>4 DEF n1
  <2>2. CASE k # key
    <3>1. k \in DOMAIN locks \cup UNION {held[u] : u \in Threads}  BY <1>2, <1>7, <2>2
    <3>2. H1(k) = H(k)  BY <1>3, <2>2
    <3> HIDE DEF H, H1
    <3> QED BY <1>6, <1>7, <2>2, <3>1, <3>2
  <2> QED BY <2>1, <2>2
<1> QED BY <1>8, <1>9 DEF LocksInOrder, LocksExact

LEMMA LocksStay ==
    ASSUME LocksInOrder, UNCHANGED <<held, locks>>
    PROVE  LocksInOrder'
  BY DEF LocksInOrder, LocksExact, Holders

-----------------------------------------------------------------------------
(* The steps of rounds: beam, filtered and page search, and insert.         *)
LEMMA HereOK ==
    ASSUME SearchIInv, NEW t \in Threads
    PROVE  /\ Here(t)
           /\ Same(pc, t) /\ Same(list, t) /\ Same(want, t) /\ Same(held, t)
           /\ Same(flying, t) /\ Same(pipe, t)
<1>1. TypesOK /\ LocksExact /\ InOrderOf(t)  BY DEF SearchIInv
<1>2. LocksInOrder  BY <1>1 DEF LocksInOrder, TypesOK
<1>3. Here(t)  BY <1>1, <1>2 DEF Here, InOrderOf, InOrderAt, TypesOK
<1>4. Same(pc, t) /\ Same(list, t) /\ Same(want, t) /\ Same(held, t)
  BY <1>1 DEF TypesOK, Same
<1>5. Same(flying, t)
  <2>1. flying = [u \in Threads |-> flying[u]]  BY <1>1 DEF TypesOK
  <2> QED BY <2>1 DEF Same
<1>6. Same(pipe, t)
  <2>1. pipe = [u \in Threads |-> pipe[u]]  BY <1>1 DEF TypesOK
  <2> QED BY <2>1 DEF Same
<1> QED BY <1>3, <1>4, <1>5, <1>6

LEMMA SingleList ==
    ASSUME NEW c \in ListSet
    PROVE  <<c>> \in Seq(ListSet) /\ Len(<<c>>) = 1 /\ <<c>>[1] = c /\ DOMAIN <<c>> = {1}
  OBVIOUS

(* Taking a lock. *)
LEMMA AcquireKeeps ==
    ASSUME SearchIInv, NEW t \in Threads, Acquire(t)
    PROVE  SearchIInv'
<1> DEFINE key == Head(want[t])
           wants == Tail(want[t])
           holds == held[t] \cup {key}
<1>1. /\ Here(t) /\ Same(pc, t) /\ Same(list, t) /\ Same(flying, t) /\ Same(pipe, t)
  BY HereOK
<1>2. want[t] \in Seq(Keys) /\ want[t] # << >>  BY <1>1 DEF Here, Acquire
<1>3. /\ key = want[t][1] /\ key \in Keys /\ wants \in Seq(Keys)
      /\ Len(want[t]) \in Nat /\ Len(want[t]) > 0 /\ Len(wants) = Len(want[t]) - 1
      /\ \A i \in 1 .. Len(wants) : wants[i] = want[t][i + 1]
      /\ DOMAIN want[t] = 1 .. Len(want[t]) /\ DOMAIN wants = 1 .. Len(wants)
  BY <1>2, HeadTailProperties, EmptySeq, LenProperties, ElementOfSeq
<1>4. WantsAt(pc[t], want[t], held[t])  BY <1>1 DEF Here
<1>5. key \notin held[t]  BY <1>3, <1>4 DEF WantsAt
<1>6. /\ want' = [want EXCEPT ![t] = wants] /\ held' = [held EXCEPT ![t] = holds]
      /\ locks' = Locked(t, key) /\ CanLock(t, key)
  BY DEF Acquire
<1>7. LocksInOrder'
  <2>1. TypesOK /\ LocksInOrder  BY <1>1 DEF Here
  <2>2. held' = [held EXCEPT ![t] = held[t] \cup {key}]  BY <1>6
  <2> HIDE DEF key
  <2> QED BY <1>3, <1>5, <1>6, <2>1, <2>2, LockKeeps
<1> HIDE DEF key, wants, holds
<1>8. /\ holds \in SUBSET Keys /\ holds = held[t] \cup {key}
  BY <1>1, <1>3 DEF holds, Here
<1>9. WantsAt(pc[t], wants, holds)
  <2>1. \A i \in 1 .. Len(wants) : i + 1 \in 1 .. Len(want[t]) /\ i + 1 # 1  BY <1>3
  <2>2. ASSUME NEW i \in 1 .. Len(wants) PROVE wants[i] # key /\ wants[i] \notin held[t]
    <3> DEFINE k == i + 1
    <3>1. k \in DOMAIN want[t] /\ 1 \in DOMAIN want[t] /\ k # 1 /\ wants[i] = want[t][k]
      BY <1>3, <2>1
    <3> HIDE DEF k
    <3> QED BY <1>3, <1>4, <3>1 DEF WantsAt, IsInjective
  <2>3. IsInjective(wants)
    <3> SUFFICES ASSUME NEW i \in 1 .. Len(wants), NEW j \in 1 .. Len(wants), wants[i] = wants[j]
                 PROVE  i = j
      BY <1>3 DEF IsInjective
    <3> DEFINE k == i + 1
               l == j + 1
    <3>1. k \in DOMAIN want[t] /\ l \in DOMAIN want[t] /\ want[t][k] = want[t][l]  BY <1>3, <2>1
    <3>2. k = l
      <4> HIDE DEF k, l
      <4> QED BY <1>4, <3>1 DEF WantsAt, IsInjective
    <3> QED BY <1>3, <3>2
  <2>4. pc[t] \in Locking  BY <1>2, <1>4 DEF WantsAt
  <2> QED BY <1>3, <1>8, <2>2, <2>3, <2>4 DEF WantsAt
<1>10. FlyingAt(pc[t], list[t], wants, holds, flying[t], pipe[t])
  <2> DEFINE c == list[t][1]
             fly == flying[t]
  <2>1. FlyingAt(pc[t], list[t], want[t], held[t], fly, pipe[t])  BY <1>1 DEF Here
  <2>2. CASE pc[t] \in PipeLabels
    <3>1. PipeAt(c, fly, pipe[t], pc[t], want[t], held[t])  BY <2>1, <2>2 DEF FlyingAt
    <3>2. pc[t] \in Submitting  BY <1>2, <1>4, <2>2 DEF WantsAt, Locking, PipeLabels, Submitting
    <3> HIDE DEF c, fly
    <3>3. /\ want[t] = <<IdKey(c.front[1])>>
          /\ held[t] = {IdKey(n) : n \in FlyIds(fly)}
      BY <1>2, <3>1, <3>2 DEF PipeAt
    <3>4. key = IdKey(c.front[1]) /\ wants = << >>
      <4>1. want[t][1] = IdKey(c.front[1]) /\ Len(want[t]) = 1  BY <3>3
      <4>2. Len(wants) = 0  BY <1>3, <4>1
      <4> QED BY <1>3, <4>1, <4>2, EmptySeq
    <3>5. PipeAt(c, fly, pipe[t], pc[t], wants, holds)
      BY <1>8, <3>1, <3>2, <3>3, <3>4 DEF PipeAt
    <3> QED BY <2>2, <3>5 DEF FlyingAt, c, fly
  <2>3. CASE pc[t] \notin PipeLabels  BY <2>1, <2>3 DEF FlyingAt
  <2> QED BY <2>2, <2>3
<1>11. Moved(t, pc[t], list[t], wants, holds, flying[t], pipe[t])
  BY <1>1, <1>6 DEF Acquire, Moved, Same
<1>12. Accounts(t, pc[t], list[t])
  BY <1>1 DEF Here, Accounts, Acquire, Busy, Cost
<1>13. InOrderAt(pc[t], list[t], wants, holds, flying[t], pipe[t])
  BY <1>1, <1>9, <1>10 DEF Here, InOrderAt
<1> DEFINE label == pc[t]
           lists == list[t]
           fly == flying[t]
           p == pipe[t]
<1>14. label \in Labels /\ lists \in Seq(ListSet) /\ Moved(t, label, lists, wants, holds, fly, p)
       /\ Accounts(t, label, lists) /\ InOrderAt(label, lists, wants, holds, fly, p)
  BY <1>1, <1>11, <1>12, <1>13 DEF Here
<1> HIDE DEF label, lists, fly, p
<1> QED BY <1>3, <1>7, <1>8, <1>14, StepKeeps

-----------------------------------------------------------------------------
LEMMA RoundLists ==
    ASSUME NEW label \in RoundLabels, NEW d, Good(d), d.kind \in RoundKinds,
           label = "pop" => d.kind = "insert"
    PROVE  <<d>> \in Seq(ListSet) /\ <<d>>[1] = d /\ ListsAt(label, <<d>>)
<1>1. d \in ListSet  BY DEF Good, ListOK
<1>2. label \notin PipeLabels \cup {"idle", "coro"}  BY DEF RoundLabels, PipeLabels
<1>3. label \notin {"first_send", "first_submit"}  BY DEF RoundLabels
<1> DEFINE s == <<d>>
<1>4. s \in Seq(ListSet) /\ Len(s) = 1 /\ s[1] = d /\ DOMAIN s = {1}  BY <1>1, SingleList
<1> HIDE DEF s
<1>5. ListsAt(label, s)  BY <1>2, <1>3, <1>4 DEF ListsAt, RoundKinds
<1> QED BY <1>4, <1>5 DEF s

(* A thread in a round has one list of a kind that goes in rounds, and no   *)
(* reads that outlive a step.                                               *)
LEMMA InRound ==
    ASSUME SearchIInv, NEW t \in Threads, pc[t] \in RoundLabels
    PROVE  /\ Good(list[t][1]) /\ list[t][1] \in ListSet /\ list[t][1].kind \in RoundKinds
           /\ list[t] = <<list[t][1]>> /\ flying[t] = << >> /\ IsInjective(want[t])
           /\ pc[t] \notin Locking => want[t] = << >> /\ held[t] = {}
<1>1. /\ ListsAt(pc[t], list[t]) /\ WantsAt(pc[t], want[t], held[t]) /\ list[t] \in Seq(ListSet)
      /\ FlyingAt(pc[t], list[t], want[t], held[t], flying[t], pipe[t])
  BY HereOK DEF Here
<1>2. pc[t] \notin PipeLabels \cup {"idle", "coro", "first_send", "first_submit"}
  BY DEF RoundLabels, PipeLabels
<1>3. Len(list[t]) = 1 /\ (\A i \in DOMAIN list[t] : Good(list[t][i])) /\ list[t][1].kind \in RoundKinds
  BY <1>1, <1>2 DEF ListsAt, RoundKinds
<1>4. DOMAIN list[t] = 1 .. 1  BY <1>1, <1>3, LenProperties
<1>5. Good(list[t][1])  BY <1>3, <1>4
<1>6. list[t] = <<list[t][1]>>
  <2> DEFINE s == list[t]
             o == <<s[1]>>
  <2>1. s \in Seq(ListSet) /\ Len(s) = 1 /\ s[1] \in ListSet  BY <1>1, <1>3, <1>5 DEF Good, ListOK
  <2>2. o \in Seq(ListSet) /\ Len(o) = 1 /\ o[1] = s[1]  BY <2>1, SingleList
  <2> HIDE DEF s, o
  <2>3. s = o  BY <2>1, <2>2, SeqEqual
  <2> QED BY <2>3 DEF s, o
<1>7. flying[t] = << >>  BY <1>1, <1>2 DEF FlyingAt
<1>8. IsInjective(want[t]) /\ (pc[t] \notin Locking => want[t] = << >> /\ held[t] = {})
  BY <1>1, <1>2 DEF WantsAt
<1> QED BY <1>3, <1>5, <1>6, <1>7, <1>8 DEF Good, ListOK

(* A step within the rounds. *)
LEMMA RoundMoves ==
    ASSUME SearchIInv, NEW t \in Threads, pc[t] \in RoundLabels \ {"pop", "link"},
           NEW label \in RoundLabels \ {"pop", "link"},
           NEW d, Good(d), d.kind = list[t][1].kind,
           NEW wants \in Seq(Keys), NEW holds \in SUBSET Keys, WantsAt(label, wants, holds),
           Moved(t, label, <<d>>, wants, holds, flying[t], pipe[t]),
           LocksInOrder', UNCHANGED <<free, bg, calls>>
    PROVE  SearchIInv'
<1> DEFINE lists == <<d>>
           fly == flying[t]
           p == pipe[t]
<1>1. Here(t)  BY HereOK
<1>2. fly = << >> /\ d.kind \in RoundKinds  BY InRound
<1>3. lists \in Seq(ListSet) /\ lists[1] = d /\ ListsAt(label, lists)  BY <1>2, RoundLists
<1>4. label \in Labels /\ label \notin PipeLabels /\ label # "idle" /\ pc[t] # "idle"
  BY DEF RoundLabels, PipeLabels, Labels
<1> HIDE DEF lists
<1>5. Accounts(t, label, lists)
  BY <1>1, <1>3, <1>4 DEF Here, Accounts, Busy, Cost
<1>6. FlyingAt(label, lists, wants, holds, fly, p)
  <2> HIDE DEF fly, p
  <2> QED BY <1>2, <1>4 DEF FlyingAt
<1>7. InOrderAt(label, lists, wants, holds, fly, p)
  <2> HIDE DEF fly, p
  <2> QED BY <1>3, <1>6 DEF InOrderAt
<1>8. Moved(t, label, lists, wants, holds, fly, p)  BY DEF lists
<1> HIDE DEF fly, p
<1> QED BY <1>3, <1>4, <1>5, <1>7, <1>8, StepKeeps

(* The pages of finitely many ids. *)
LEMMA PagesFinite ==
    ASSUME NEW ids, IsFiniteSet(ids), ids \subseteq DOMAIN Page
    PROVE  {Page[n] : n \in ids} \in SUBSET Nat /\ IsFiniteSet({Page[n] : n \in ids})
<1> DEFINE T == {Page[n] : n \in ids}
           f == [n \in ids |-> Page[n]]
<1>1. f \in Surjection(ids, T)  BY DEF Surjection
<1>2. IsFiniteSet(T)
  <2> HIDE DEF T, f
  <2> QED BY <1>1, FS_Surjection
<1>3. T \in SUBSET Nat  BY SearchAssumption
<1> QED BY <1>2, <1>3

(* LockFront: the ids of the beam, and for page_search their pages.         *)
LEMMA FrontLocks ==
    ASSUME NEW t \in Threads, want \in [Threads -> Seq(Keys)], NEW c \in ListSet, LockFront(t, c)
    PROVE  /\ want'[t] \in Seq(Keys) /\ IsInjective(want'[t])
           /\ want' = [want EXCEPT ![t] = want'[t]]
<1> DEFINE ids == ToSet(c.front)
           pages == IF c.kind = "page" THEN {Page[n] : n \in ToSet(c.front)} ELSE {}
           keys == LockOrder(ids, pages)
<1>1. c.front \in Seq(Nodes)  BY DEF ListSet
<1>2. ids \subseteq Nodes /\ Nodes \subseteq Nat /\ IsFiniteSet(Nodes)
  <2>1. \A i \in DOMAIN c.front : c.front[i] \in Nodes  BY <1>1
  <2> QED BY <2>1, ListAssumption DEF ToSet
<1>3. IsFiniteSet(ids) /\ ids \in SUBSET Nat  BY <1>2, FS_Subset
<1>4. IsFiniteSet(pages) /\ pages \in SUBSET Nat
  <2>1. ids \subseteq DOMAIN Page  BY <1>2, SearchAssumption
  <2>2. {Page[n] : n \in ids} \in SUBSET Nat /\ IsFiniteSet({Page[n] : n \in ids})
    <3> HIDE DEF ids
    <3> QED BY <1>3, <2>1, PagesFinite
  <2> QED BY <2>2, FS_EmptySet
<1>5. want' = [want EXCEPT ![t] = keys]  BY DEF LockFront
<1>6. keys = LockOrder(ids, pages)  OBVIOUS
<1> HIDE DEF keys, ids, pages
<1>7. keys \in Seq(Keys) /\ IsInjective(keys)  BY <1>3, <1>4, <1>6, LockOrderLists
<1> QED BY <1>5, <1>7

LEMMA SelectKeeps ==
    ASSUME SearchIInv, NEW t \in Threads, Select(t)
    PROVE  SearchIInv'
<1> DEFINE b == list[t][1]
           c == PickBeam(b)
<1>1. pc[t] = "search" /\ pc[t] \in RoundLabels \ {"pop", "link"} /\ pc[t] \notin Locking
  BY DEF Select, RoundLabels, Locking, Submitting
<1>2. /\ Here(t) /\ Same(pc, t) /\ Same(want, t) /\ Same(held, t) /\ Same(flying, t) /\ Same(pipe, t)
      /\ Good(b) /\ want[t] = << >> /\ held[t] = {}
  BY <1>1, HereOK, InRound
<1>3. Good(c) /\ c \in ListSet /\ c.kind = b.kind
  <2>1. ListOK(b) /\ Nearest(b) /\ c = PickBeam(b)  BY <1>2 DEF Good
  <2> HIDE DEF b, c
  <2>2. Repicked(b, c)  BY <2>1, PickBeamKeeps
  <2> QED BY <2>1, <2>2, RepickedGood DEF Good, Repicked
<1>4. LocksInOrder'  BY <1>2, LocksStay DEF Here, Select
<1>5. CASE c.front = << >>
  <2> DEFINE d == Explore(c)
  <2>1. /\ pc' = pc /\ want' = want /\ SetList(t, d)
    BY <1>5 DEF Select
  <2>2. d = Explore(c)  OBVIOUS
  <2> HIDE DEF c, d
  <2>3. d \in From(c)  BY <1>3, <2>2, ExploreKeeps
  <2>4. Good(d) /\ d.kind = b.kind  BY <1>3, <2>3, FromGood DEF Grown
  <2> HIDE DEF b
  <2>5. Moved(t, "search", <<d>>, << >>, {}, flying[t], pipe[t])
    BY <1>1, <1>2, <2>1 DEF Moved, Select, SetList, Same
  <2>6. WantsAt("search", << >>, {}) /\ "search" \in RoundLabels \ {"pop", "link"}
    BY DEF WantsAt, IsInjective, RoundLabels
  <2>7. << >> \in Seq(Keys) /\ {} \in SUBSET Keys /\ UNCHANGED <<free, bg, calls>>  BY DEF Select
  <2> QED BY <1>1, <1>4, <2>4, <2>5, <2>6, <2>7, RoundMoves DEF b
<1>6. CASE c.front # << >>
  <2> DEFINE keys == want'[t]
  <2>1. SetList(t, c) /\ LockFront(t, c) /\ Goto(t, "explore")
    BY <1>6 DEF Select
  <2> HIDE DEF c, b
  <2>2. want \in [Threads -> Seq(Keys)]  BY <1>2 DEF Here, TypesOK
  <2>3. keys \in Seq(Keys) /\ IsInjective(keys) /\ want' = [want EXCEPT ![t] = keys]
    BY <1>3, <2>1, <2>2, FrontLocks
  <2> HIDE DEF keys
  <2>4. Moved(t, "explore", <<c>>, keys, {}, flying[t], pipe[t])
    BY <1>2, <2>1, <2>3 DEF Moved, Select, SetList, Goto, Same
  <2>5. WantsAt("explore", keys, {}) /\ "explore" \in RoundLabels \ {"pop", "link"}
    BY <2>3 DEF WantsAt, RoundLabels, Locking
  <2>6. {} \in SUBSET Keys /\ UNCHANGED <<free, bg, calls>>  BY DEF Select
  <2> QED BY <1>1, <1>3, <1>4, <2>3, <2>4, <2>5, <2>6, RoundMoves DEF b
<1> QED BY <1>5, <1>6

(* The locks of a round go. *)
LEMMA AllUnlocked ==
    ASSUME SearchIInv, NEW t \in Threads, UnlockHeld(t)
    PROVE  LocksInOrder'
<1> DEFINE keys == held[t]
<1>1. TypesOK /\ LocksInOrder  BY HereOK DEF Here
<1>2. locks' = Unlocked(keys) /\ held' = [held EXCEPT ![t] = held[t] \ keys] /\ keys \subseteq held[t]
  BY DEF UnlockHeld
<1> HIDE DEF keys
<1> QED BY <1>1, <1>2, UnlockKeeps

LEMMA ReadAndExploreKeeps ==
    ASSUME SearchIInv, NEW t \in Threads, ReadAndExplore(t)
    PROVE  SearchIInv'
<1> DEFINE b == list[t][1]
           d == Explore(b)
<1>1. pc[t] \in RoundLabels \ {"pop", "link"} /\ want[t] = << >>
  BY DEF ReadAndExplore, RoundLabels
<1>2. Same(want, t) /\ Same(flying, t) /\ Same(pipe, t) /\ Good(b)  BY <1>1, HereOK, InRound
<1>3. /\ SetList(t, d) /\ Goto(t, "search") /\ UnlockHeld(t)
      /\ UNCHANGED <<mix, free, bg, calls, want, flying, pipe>>
  BY DEF ReadAndExplore
<1>4. LocksInOrder'  BY <1>3, AllUnlocked
<1>5. d = Explore(b)  OBVIOUS
<1> HIDE DEF d, b
<1>6. d \in From(b)  BY <1>2, <1>5, ExploreKeeps
<1>7. Good(d) /\ d.kind = b.kind  BY <1>6, FromGood DEF Grown
<1>8. Moved(t, "search", <<d>>, << >>, {}, flying[t], pipe[t])
  BY <1>1, <1>2, <1>3 DEF Moved, SetList, Goto, UnlockHeld, Same
<1>9. WantsAt("search", << >>, {}) /\ "search" \in RoundLabels \ {"pop", "link"}
  BY DEF WantsAt, IsInjective, RoundLabels
<1>10. << >> \in Seq(Keys) /\ {} \in SUBSET Keys /\ UNCHANGED <<free, bg, calls>>  BY <1>3
<1> QED BY <1>1, <1>4, <1>7, <1>8, <1>9, <1>10, RoundMoves DEF b

LEMMA NextBatchKeeps ==
    ASSUME SearchIInv, NEW t \in Threads, NextBatch(t)
    PROVE  SearchIInv'
<1> DEFINE b == list[t][1]
           n == IF Len(b.batch) < Beam THEN Len(b.batch) ELSE Beam
           front == SubSeq(b.batch, 1, n)
           rest == SubSeq(b.batch, n + 1, Len(b.batch))
           d == [b EXCEPT !.front = front, !.batch = rest]
           keys == want'[t]
           label == IF pc[t] = "prefill" THEN "prefill_read" ELSE "refine_read"
<1>1. pc[t] \in {"prefill", "refine"} /\ pc[t] \in RoundLabels \ {"pop", "link"} /\ pc[t] \notin Locking
  BY DEF NextBatch, RoundLabels, Locking, Submitting
<1>2. /\ Here(t) /\ Same(held, t) /\ Same(flying, t) /\ Same(pipe, t)
      /\ Good(b) /\ b \in ListSet /\ held[t] = {}
  BY <1>1, HereOK, InRound
<1>3. SetList(t, d) /\ LockFront(t, d) /\ Goto(t, label)  BY Zenon DEF NextBatch
<1>4. front \in Seq(Nodes) /\ rest \in Seq(Nodes)
  <2> DEFINE s == b.batch
  <2>1. s \in Seq(Nodes) /\ Len(s) \in Nat /\ Beam \in Nat  BY <1>2, ListAssumption, LenProperties DEF ListSet
  <2>2. n \in 0 .. Len(s)  BY <2>1
  <2>3. front = SubSeq(s, 1, n) /\ rest = SubSeq(s, n + 1, Len(s))  OBVIOUS
  <2> HIDE DEF s, n, front, rest
  <2>4. front \in Seq(Nodes)  BY <2>1, <2>2, <2>3, FirstOnes
  <2>5. rest \in Seq(Nodes)  BY <2>1, <2>2, <2>3, RestOnes
  <2> QED BY <2>4, <2>5
<1>5. d = [b EXCEPT !.front = front, !.batch = rest]  OBVIOUS
<1> HIDE DEF b, front, rest, d
<1>6. [b EXCEPT !.front = front, !.batch = rest] \in ListSet  BY <1>2, <1>4 DEF ListSet
<1>7. d \in ListSet  BY <1>5, <1>6
<1>8. /\ d.kind = b.kind /\ d.dyn = b.dyn /\ d.query = b.query /\ d.L = b.L /\ d.seen = b.seen
      /\ d.pool = b.pool /\ d.heap = b.heap /\ d.k = b.k /\ d.nk = b.nk
  BY <1>2, <1>5 DEF ListSet
<1>9. ListOK(b) /\ Nearest(b)  BY <1>2 DEF Good
<1>10. Repicked(b, d)  BY <1>7, <1>8, <1>9 DEF Repicked, ListOK
<1>11. Good(d)  BY <1>9, <1>10, RepickedGood DEF Good
<1>12. want \in [Threads -> Seq(Keys)]  BY <1>2 DEF Here, TypesOK
<1>13. keys \in Seq(Keys) /\ IsInjective(keys) /\ want' = [want EXCEPT ![t] = keys]
  BY <1>3, <1>7, <1>12, FrontLocks
<1>14. LocksInOrder'  BY <1>2, LocksStay DEF Here, NextBatch
<1> HIDE DEF keys, label
<1>15. label \in RoundLabels \ {"pop", "link"} /\ label \in Locking  BY DEF label, RoundLabels, Locking
<1>16. Moved(t, label, <<d>>, keys, {}, flying[t], pipe[t])
  BY <1>2, <1>3, <1>13 DEF Moved, NextBatch, SetList, Goto, Same
<1>17. WantsAt(label, keys, {})  BY <1>13, <1>15 DEF WantsAt
<1>18. {} \in SUBSET Keys /\ UNCHANGED <<free, bg, calls>>  BY DEF NextBatch
<1> QED BY <1>1, <1>8, <1>11, <1>13, <1>14, <1>15, <1>16, <1>17, <1>18, RoundMoves DEF b

LEMMA ReadBatchKeeps ==
    ASSUME SearchIInv, NEW t \in Threads, ReadBatch(t)
    PROVE  SearchIInv'
<1> DEFINE b == list[t][1]
           dist == b.query.exact
           heap == Pushes(dist, b.heap, b.front)[Len(b.front)]
           d == [b EXCEPT !.heap = heap]
           label == IF pc[t] = "prefill_read" THEN "prefill" ELSE "refine"
<1>1. pc[t] \in RoundLabels \ {"pop", "link"} /\ want[t] = << >>
  BY DEF ReadBatch, RoundLabels
<1>2. Same(want, t) /\ Same(flying, t) /\ Same(pipe, t) /\ Good(b) /\ b \in ListSet
  BY <1>1, HereOK, InRound
<1>3. SetList(t, d) /\ Goto(t, label) /\ UnlockHeld(t)
  BY Zenon DEF ReadBatch, Through, Pushes
<1>4. LocksInOrder'  BY <1>3, AllUnlocked
<1>5. heap \in Seq(Nodes) /\ Len(heap) <= KSearch
  <2> DEFINE h == b.heap
             s == b.front
  <2>1. h \in Seq(Nodes) /\ Len(h) <= KSearch /\ s \in Seq(Nodes)  BY <1>2 DEF ListSet, Good, ListOK
  <2>2. heap = Pushes(dist, h, s)[Len(s)]  OBVIOUS
  <2> HIDE DEF h, s, heap, dist
  <2> QED BY <2>1, <2>2, PushesKeep
<1>6. d = [b EXCEPT !.heap = heap]  OBVIOUS
<1> HIDE DEF b, heap, d
<1>7. [b EXCEPT !.heap = heap] \in ListSet  BY <1>2, <1>5 DEF ListSet
<1>8. d \in ListSet  BY <1>6, <1>7
<1>9. /\ d.kind = b.kind /\ d.dyn = b.dyn /\ d.query = b.query /\ d.L = b.L /\ d.seen = b.seen
      /\ d.pool = b.pool /\ d.heap = heap /\ d.k = b.k /\ d.nk = b.nk
  BY <1>2, <1>6 DEF ListSet
<1>10. ListOK(b) /\ Nearest(b)  BY <1>2 DEF Good
<1>11. Repicked(b, d)  BY <1>5, <1>8, <1>9, <1>10 DEF Repicked, ListOK
<1>12. Good(d)  BY <1>10, <1>11, RepickedGood DEF Good
<1> HIDE DEF label
<1>13. label \in RoundLabels \ {"pop", "link"}  BY DEF label, RoundLabels
<1>14. Moved(t, label, <<d>>, << >>, {}, flying[t], pipe[t])
  BY <1>1, <1>2, <1>3 DEF Moved, ReadBatch, SetList, Goto, UnlockHeld, Same
<1>15. WantsAt(label, << >>, {})  BY DEF WantsAt, IsInjective
<1>17. UNCHANGED <<mix, free, bg, calls, want, flying, pipe>>  BY Zenon DEF ReadBatch
<1>16. << >> \in Seq(Keys) /\ {} \in SUBSET Keys /\ UNCHANGED <<free, bg, calls>>  BY <1>17
<1> QED BY <1>1, <1>4, <1>9, <1>12, <1>13, <1>14, <1>15, <1>16, RoundMoves DEF b

LEMMA PrefilledKeeps ==
    ASSUME SearchIInv, NEW t \in Threads, Prefilled(t)
    PROVE  SearchIInv'
<1> DEFINE d == list[t][1]
<1>1. pc[t] \in RoundLabels \ {"pop", "link"} /\ pc[t] \notin Locking
  BY DEF Prefilled, RoundLabels, Locking, Submitting
<1>2. /\ Here(t) /\ Same(list, t) /\ Same(want, t) /\ Same(held, t) /\ Same(flying, t) /\ Same(pipe, t)
      /\ Good(d) /\ want[t] = << >> /\ held[t] = {} /\ list[t] = <<d>>
  BY <1>1, HereOK, InRound
<1> HIDE DEF d
<1>3. LocksInOrder'  BY <1>2, LocksStay DEF Here, Prefilled
<1>4. Moved(t, "search", <<d>>, << >>, {}, flying[t], pipe[t])
  BY <1>2 DEF Moved, Prefilled, Goto, Same
<1>5. WantsAt("search", << >>, {}) /\ "search" \in RoundLabels \ {"pop", "link"}
  BY DEF WantsAt, IsInjective, RoundLabels
<1>6. << >> \in Seq(Keys) /\ {} \in SUBSET Keys /\ UNCHANGED <<free, bg, calls>>  BY DEF Prefilled
<1> QED BY <1>1, <1>2, <1>3, <1>4, <1>5, <1>6, RoundMoves DEF d

LEMMA RefineKeeps ==
    ASSUME SearchIInv, NEW t \in Threads, Refine(t)
    PROVE  SearchIInv'
<1> DEFINE b == list[t][1]
           left == ToRefine(b)
           done == b.computed \cup ToSet(left)
           d == [b EXCEPT !.batch = left, !.cands = << >>, !.computed = done]
<1>1. pc[t] \in RoundLabels \ {"pop", "link"} /\ pc[t] \notin Locking
  BY DEF Refine, RoundLabels, Locking, Submitting
<1>2. /\ Here(t) /\ Same(want, t) /\ Same(held, t) /\ Same(flying, t) /\ Same(pipe, t)
      /\ Good(b) /\ b \in ListSet /\ want[t] = << >> /\ held[t] = {}
  BY <1>1, HereOK, InRound
<1>3. SetList(t, d) /\ Goto(t, "refine")  BY Zenon DEF Refine
<1>4. left \in Seq(Nodes) /\ done \in SUBSET Nodes
  <2>1. left \in Seq(Nodes)
    <3> HIDE DEF b
    <3> QED BY <1>2, ToRefineListed
  <2>2. b.computed \in SUBSET Nodes  BY <1>2 DEF ListSet
  <2> HIDE DEF left, b
  <2>3. \A i \in DOMAIN left : left[i] \in Nodes  BY <2>1
  <2> QED BY <2>1, <2>2, <2>3 DEF ToSet
<1>5. d = [b EXCEPT !.batch = left, !.cands = << >>, !.computed = done]  OBVIOUS
<1> HIDE DEF b, left, done, d
<1>6. [b EXCEPT !.batch = left, !.cands = << >>, !.computed = done] \in ListSet
  <2>1. << >> \in Seq(Nodes)  OBVIOUS
  <2> QED BY <1>2, <1>4, <2>1 DEF ListSet
<1>7. d \in ListSet  BY <1>5, <1>6
<1>8. /\ d.kind = b.kind /\ d.dyn = b.dyn /\ d.query = b.query /\ d.L = b.L /\ d.seen = b.seen
      /\ d.pool = b.pool /\ d.heap = b.heap /\ d.k = b.k /\ d.nk = b.nk
  BY <1>2, <1>5 DEF ListSet
<1>9. ListOK(b) /\ Nearest(b)  BY <1>2 DEF Good
<1>10. Repicked(b, d)  BY <1>7, <1>8, <1>9 DEF Repicked, ListOK
<1>11. Good(d)  BY <1>9, <1>10, RepickedGood DEF Good
<1>12. LocksInOrder'  BY <1>2, LocksStay DEF Here, Refine
<1>13. Moved(t, "refine", <<d>>, << >>, {}, flying[t], pipe[t])
  BY <1>2, <1>3 DEF Moved, Refine, SetList, Goto, Same
<1>14. WantsAt("refine", << >>, {}) /\ "refine" \in RoundLabels \ {"pop", "link"}
  BY DEF WantsAt, IsInjective, RoundLabels
<1>15. << >> \in Seq(Keys) /\ {} \in SUBSET Keys /\ UNCHANGED <<free, bg, calls>>  BY DEF Refine
<1> QED BY <1>1, <1>8, <1>11, <1>12, <1>13, <1>14, <1>15, RoundMoves DEF b

LEMMA PopAgainKeeps ==
    ASSUME SearchIInv, NEW t \in Threads, PopAgain(t)
    PROVE  SearchIInv'
<1> DEFINE d == list[t][1]
           lists == <<d>>
           fly == flying[t]
           p == pipe[t]
<1>1. pc[t] = "pop" /\ pc[t] \in RoundLabels /\ pc[t] \notin Locking
  BY DEF PopAgain, RoundLabels, Locking, Submitting
<1>2. /\ Here(t) /\ Same(list, t) /\ Same(want, t) /\ Same(held, t) /\ Same(flying, t) /\ Same(pipe, t)
      /\ Good(d) /\ d.kind \in RoundKinds /\ want[t] = << >> /\ held[t] = {}
      /\ list[t] = <<d>> /\ fly = << >>
  BY <1>1, HereOK, InRound
<1>3. d.kind = "insert"  BY <1>1, <1>2 DEF Here, ListsAt
<1> HIDE DEF d
<1>4. "search" \in RoundLabels /\ "search" \in Labels /\ "search" \notin PipeLabels
  BY DEF RoundLabels, Labels, PipeLabels
<1>5. lists \in Seq(ListSet) /\ lists[1] = d /\ ListsAt("search", lists)  BY <1>2, <1>4, RoundLists
<1>6. Moved(t, "search", lists, << >>, {}, fly, p)
  BY <1>2 DEF Moved, PopAgain, Goto, Same
<1> HIDE DEF lists, p
<1>7. Accounts(t, "search", lists)
  <2>1. list[t][1] = d  BY DEF d
  <2> QED BY <1>1, <1>2, <1>3, <1>5, <2>1 DEF Here, Accounts, Busy, Cost, PopAgain, PopBuffer
<1>8. LocksInOrder'  BY <1>2, LocksStay DEF Here, PopAgain
<1>9. InOrderAt("search", lists, << >>, {}, fly, p)
  BY <1>2, <1>4, <1>5 DEF InOrderAt, WantsAt, FlyingAt, IsInjective
<1>10. << >> \in Seq(Keys) /\ {} \in SUBSET Keys  OBVIOUS
<1> HIDE DEF fly
<1> QED BY <1>4, <1>5, <1>6, <1>7, <1>8, <1>9, <1>10, StepKeeps

(* A call returns. *)
LEMMA CallEnds ==
    ASSUME SearchIInv, NEW t \in Threads, NEW p,
           Moved(t, "idle", << >>, << >>, {}, << >>, p), LocksInOrder', Accounts(t, "idle", << >>)
    PROVE  SearchIInv'
<1> DEFINE no == << >>
<1>1. "idle" \in Labels /\ "idle" \notin PipeLabels /\ "idle" \notin RoundLabels
  BY DEF Labels, PipeLabels, RoundLabels
<1>2. no \in Seq(ListSet) /\ no \in Seq(Keys) /\ {} \in SUBSET Keys /\ no = << >> /\ DOMAIN no = {}
  OBVIOUS
<1>3. Moved(t, "idle", no, no, {}, no, p) /\ Accounts(t, "idle", no)  OBVIOUS
<1> HIDE DEF no
<1>4. InOrderAt("idle", no, no, {}, no, p)
  BY <1>1, <1>2 DEF InOrderAt, ListsAt, WantsAt, FlyingAt, IsInjective
<1> QED BY <1>1, <1>2, <1>3, <1>4, StepKeeps

LEMMA EndRoundsKeeps ==
    ASSUME SearchIInv, NEW t \in Threads, EndRounds(t)
    PROVE  SearchIInv'
<1> DEFINE d == list[t][1]
           fly == flying[t]
           p == pipe[t]
<1>1. pc[t] \in {"search", "refine"} /\ pc[t] \in RoundLabels /\ pc[t] \notin Locking
  BY DEF EndRounds, RoundsEnded, RoundLabels, Locking, Submitting
<1>2. /\ Here(t) /\ Same(list, t) /\ Same(want, t) /\ Same(held, t) /\ Same(flying, t) /\ Same(pipe, t)
      /\ Good(d) /\ d \in ListSet /\ d.kind \in RoundKinds /\ want[t] = << >> /\ held[t] = {}
      /\ list[t] = <<d>> /\ fly = << >>
  BY <1>1, HereOK, InRound
<1>3. LocksInOrder'  BY <1>2, LocksStay DEF Here, EndRounds
<1>4. free' = free + 1 /\ UNCHANGED <<mix, bg, calls, held, locks, flying, pipe>>  BY DEF EndRounds
<1>5. CASE d.kind # "insert"
  <2>1. Goto(t, "idle") /\ list' = [list EXCEPT ![t] = << >>] /\ UNCHANGED want
    BY <1>5 DEF EndRounds
  <2> HIDE DEF p
  <2>2. Moved(t, "idle", << >>, << >>, {}, << >>, p)
    BY <1>2, <1>4, <2>1 DEF Moved, Goto, Same, p
  <2>3. Accounts(t, "idle", << >>)
    BY <1>1, <1>2, <1>4, <1>5 DEF Here, Accounts, Busy, Cost
  <2> QED BY <1>3, <2>2, <2>3, CallEnds
<1>6. CASE d.kind = "insert"
  <2>1. PICK nhood \in SUBSET Expanded(d) :
           LET ids == nhood \cup {NewId[t]} IN
           /\ want' = [want EXCEPT ![t] = LockOrder(ids, {Page[n] : n \in ids})]
           /\ Goto(t, "link") /\ UNCHANGED list
    BY <1>6 DEF EndRounds
  <2> DEFINE ids == nhood \cup {NewId[t]}
             pages == {Page[n] : n \in ids}
             keys == LockOrder(ids, pages)
             lists == <<d>>
  <2>2. want' = [want EXCEPT ![t] = keys] /\ Goto(t, "link") /\ UNCHANGED list  BY <2>1
  <2>3. Expanded(d) \subseteq Nodes
    <3>1. d.full \in Seq(Nodes \X Nat) /\ d.computed \in SUBSET Nodes  BY <1>2 DEF ListSet
    <3>2. \A i \in DOMAIN d.full : d.full[i] \in Nodes \X Nat  BY <3>1
    <3>3. \A i \in DOMAIN d.full : d.full[i][1] \in Nodes  BY <3>2
    <3> QED BY <3>1, <3>3 DEF Expanded
  <2>4. ids \subseteq DOMAIN Page /\ ids \in SUBSET Nat /\ IsFiniteSet(ids)
    <3>1. nhood \subseteq Nodes /\ Nodes \subseteq Nat /\ IsFiniteSet(Nodes)
      BY <2>3, ListAssumption
    <3>2. NewId[t] \in Nat /\ DOMAIN Page = Nodes \cup {NewId[u] : u \in Threads}
      BY SearchAssumption
    <3>3. IsFiniteSet(nhood)  BY <3>1, FS_Subset
    <3>4. IsFiniteSet(ids)  BY <3>3, FS_AddElement
    <3> QED BY <3>1, <3>2, <3>4
  <2>5. pages \in SUBSET Nat /\ IsFiniteSet(pages)
    <3> HIDE DEF ids
    <3> QED BY <2>4, PagesFinite
  <2>6. keys = LockOrder(ids, pages)  OBVIOUS
  <2> HIDE DEF ids, pages, keys
  <2>7. keys \in Seq(Keys) /\ IsInjective(keys)  BY <2>4, <2>5, <2>6, LockOrderLists
  <2> HIDE DEF d, p
  <2>8. "link" \in RoundLabels /\ "link" \in Labels /\ "link" \notin PipeLabels /\ "link" \in Locking
    BY DEF RoundLabels, Labels, PipeLabels, Locking
  <2>9. lists \in Seq(ListSet) /\ lists[1] = d /\ ListsAt("link", lists)  BY <1>2, <2>8, RoundLists
  <2>10. Moved(t, "link", lists, keys, {}, fly, p)
    BY <1>2, <1>4, <2>2 DEF Moved, Goto, Same, p
  <2> HIDE DEF lists
  <2>11. Accounts(t, "link", lists)
    <3>1. list[t][1] = d  BY DEF d
    <3> QED BY <1>1, <1>2, <1>4, <1>6, <2>9, <3>1 DEF Here, Accounts, Busy, Cost
  <2>12. InOrderAt("link", lists, keys, {}, fly, p)
    BY <1>2, <2>7, <2>8, <2>9 DEF InOrderAt, WantsAt, FlyingAt
  <2>13. {} \in SUBSET Keys  OBVIOUS
  <2> HIDE DEF fly
  <2> QED BY <1>3, <2>7, <2>8, <2>9, <2>10, <2>11, <2>12, <2>13, StepKeeps
<1> QED BY <1>5, <1>6

LEMMA PublishKeeps ==
    ASSUME SearchIInv, NEW t \in Threads, Publish(t)
    PROVE  SearchIInv'
<1> DEFINE p == pipe[t]
<1>1. pc[t] = "link" /\ pc[t] \in RoundLabels /\ want[t] = << >>  BY DEF Publish, RoundLabels
<1>2. Here(t) /\ Same(want, t) /\ Same(flying, t) /\ Same(pipe, t) /\ flying[t] = << >>
  BY <1>1, HereOK, InRound
<1>3. LocksInOrder'  BY AllUnlocked DEF Publish
<1> HIDE DEF p
<1>4. Moved(t, "idle", << >>, << >>, {}, << >>, p)
  BY <1>1, <1>2 DEF Moved, Publish, Goto, UnlockHeld, Same, p
<1>5. Accounts(t, "idle", << >>)
  BY <1>1, <1>2 DEF Here, Accounts, Busy, Cost, Publish
<1> QED BY <1>3, <1>4, <1>5, CallEnds

(* The list a search begins with. *)
LEMMA FirstList ==
    ASSUME NEW kind \in Kinds, NEW dyn \in BOOLEAN, NEW query \in Queries,
           NEW entries \in Entries \cup {<<Medoid>>},
           NEW c, c = SortPool(NewList(kind, dyn, query, entries))
    PROVE  Good(c) /\ c \in ListSet /\ c.kind = kind
<1> DEFINE new == NewList(kind, dyn, query, entries)
<1>1. new = NewList(kind, dyn, query, entries) /\ c = SortPool(new)  OBVIOUS
<1> HIDE DEF new
<1>2. ListOK(new) /\ new.seen = Ids(new.pool) /\ new.kind = kind  BY <1>1, NewListOK
<1>3. Good(c) /\ c.kind = new.kind  BY <1>1, <1>2, SortKeeps
<1> QED BY <1>2, <1>3 DEF Good, ListOK

LEMMA BeginRoundsKeeps ==
    ASSUME SearchIInv, NEW t \in Threads, BeginRounds(t)
    PROVE  SearchIInv'
<1> DEFINE fly == flying[t]
           p == pipe[t]
<1>1. /\ pc[t] = "idle" /\ calls < MaxCalls /\ PopBuffer /\ calls' = calls + 1
      /\ UNCHANGED <<mix, bg, want, held, locks, flying, pipe>>
  BY DEF BeginRounds
<1>2. /\ Here(t) /\ Same(want, t) /\ Same(held, t) /\ Same(flying, t) /\ Same(pipe, t)
  BY HereOK
<1>3. want[t] = << >> /\ held[t] = {} /\ fly = << >>
  BY <1>1, <1>2 DEF Here, WantsAt, FlyingAt, Locking, Submitting, PipeLabels
<1>4. LocksInOrder'  BY <1>1, <1>2, LocksStay DEF Here
<1>5. PICK kind \in mix[t] \ {"pipe", "coro"}, query \in Queries,
           entries \in Entries \cup {<<Medoid>>}, dyn \in BOOLEAN :
          \E c \in {SortPool(NewList(kind, dyn, query, entries))} :
          /\ kind = "insert" => entries = <<Medoid>>
          /\ kind \in {"page", "insert"} => ~dyn
          /\ kind # "filter" => SetList(t, c)
          /\ kind = "filter" =>
               \E S \in SUBSET Candidates :
                  /\ Cardinality(S) = IF Cardinality(Candidates) < KSearch
                                      THEN Cardinality(Candidates) ELSE KSearch
                  /\ SetList(t, [c EXCEPT !.batch = Ascending(S), !.computed = S])
          /\ Goto(t, CASE kind = "insert" -> "pop" [] kind = "filter" -> "prefill"
                       [] OTHER -> "search")
  BY DEF BeginRounds
<1> DEFINE c == SortPool(NewList(kind, dyn, query, entries))
           label == CASE kind = "insert" -> "pop" [] kind = "filter" -> "prefill"
                       [] OTHER -> "search"
<1>6. /\ kind # "filter" => SetList(t, c)
      /\ kind = "filter" =>
               \E S \in SUBSET Candidates :
                  SetList(t, [c EXCEPT !.batch = Ascending(S), !.computed = S])
      /\ Goto(t, label)
  BY <1>5
<1>7. kind \in RoundKinds /\ kind \in Kinds
  <2>1. mix[t] \subseteq Kinds  BY <1>2 DEF Here, TypesOK
  <2> QED BY <2>1 DEF Kinds, RoundKinds
<1>8. c = SortPool(NewList(kind, dyn, query, entries))  OBVIOUS
<1>9. /\ label \in RoundLabels /\ label \in Labels /\ label \notin PipeLabels /\ label # "idle"
      /\ label \notin Locking /\ (label = "pop" <=> kind = "insert")
      /\ label # "link"
  BY DEF RoundLabels, Labels, PipeLabels, Locking, Submitting
<1> HIDE DEF c, label
<1>10. Good(c) /\ c \in ListSet /\ c.kind = kind  BY <1>7, <1>8, FirstList
<1>11. \E d : SetList(t, d) /\ Good(d) /\ d.kind = kind
  <2>1. CASE kind # "filter"  BY <1>6, <1>10, <2>1
  <2>2. CASE kind = "filter"
    <3>1. PICK S \in SUBSET Candidates : SetList(t, [c EXCEPT !.batch = Ascending(S), !.computed = S])
      BY <1>6, <2>2
    <3> DEFINE batch == Ascending(S)
               d == [c EXCEPT !.batch = batch, !.computed = S]
    <3>2. SetList(t, d) /\ batch = Ascending(S)  BY <3>1
    <3>3. S \subseteq Nodes /\ S \in SUBSET Nat /\ IsFiniteSet(S)
      <4>1. S \subseteq Nodes /\ Nodes \subseteq Nat /\ IsFiniteSet(Nodes)  BY ListAssumption
      <4> QED BY <4>1, FS_Subset
    <3> HIDE DEF batch
    <3>4. batch \in Seq(S)  BY <3>2, <3>3, AscendingLists
    <3>5. batch \in Seq(Nodes)  BY <3>3, <3>4, SeqMonotonic
    <3>6. [c EXCEPT !.batch = batch, !.computed = S] \in ListSet
      BY <1>10, <3>3, <3>5 DEF ListSet
    <3>7. d = [c EXCEPT !.batch = batch, !.computed = S]  OBVIOUS
    <3> HIDE DEF d
    <3>8. d \in ListSet  BY <3>6, <3>7
    <3>9. /\ d.kind = c.kind /\ d.dyn = c.dyn /\ d.query = c.query /\ d.L = c.L /\ d.seen = c.seen
          /\ d.pool = c.pool /\ d.heap = c.heap /\ d.k = c.k /\ d.nk = c.nk
      BY <1>10, <3>7 DEF ListSet
    <3>10. ListOK(c) /\ Nearest(c)  BY <1>10 DEF Good
    <3>11. Repicked(c, d)  BY <3>8, <3>9, <3>10 DEF Repicked, ListOK
    <3>12. Good(d)  BY <3>10, <3>11, RepickedGood DEF Good
    <3> QED BY <1>10, <3>2, <3>9, <3>12
  <2> QED BY <2>1, <2>2
<1>12. PICK d : SetList(t, d) /\ Good(d) /\ d.kind = kind  BY <1>11
<1> DEFINE lists == <<d>>
<1>13. lists \in Seq(ListSet) /\ lists[1] = d /\ ListsAt(label, lists)
  BY <1>7, <1>9, <1>12, RoundLists
<1>14. Moved(t, label, lists, << >>, {}, fly, p)
  BY <1>1, <1>2, <1>3, <1>6, <1>12 DEF Moved, Goto, SetList, Same
<1> HIDE DEF lists, p
<1>15. Accounts(t, label, lists)
  <2>1. Cost(label, lists) = 1 /\ Cost(pc[t], list[t]) = 0 /\ Busy(t) = 0
    BY <1>1, <1>9, <1>12, <1>13 DEF Cost, Busy
  <2>2. MaxCalls \in Nat  BY SearchAssumption
  <2> QED BY <1>1, <1>2, <1>9, <2>1, <2>2 DEF Here, Accounts, PopBuffer
<1>16. InOrderAt(label, lists, << >>, {}, fly, p)
  BY <1>3, <1>9, <1>13 DEF InOrderAt, WantsAt, FlyingAt, IsInjective
<1>17. << >> \in Seq(Keys) /\ {} \in SUBSET Keys  OBVIOUS
<1> HIDE DEF fly
<1> QED BY <1>4, <1>9, <1>13, <1>14, <1>15, <1>16, <1>17, StepKeeps

-----------------------------------------------------------------------------
(* pipe_search.  The kernel marks a read as finished and fills its buffer.  *)
LEMMA InPipe ==
    ASSUME SearchIInv, NEW t \in Threads, pc[t] \in PipeLabels
    PROVE  /\ PipeAt(list[t][1], flying[t], pipe[t], pc[t], want[t], held[t])
           /\ list[t][1] \in ListSet /\ ListOK(list[t][1])
           /\ list[t][1].kind = "pipe" /\ ~list[t][1].dyn
           /\ pc[t] \in {"first_send", "first_submit"} => list[t][1].seen = Ids(list[t][1].pool)
           /\ pc[t] \notin {"first_send", "first_submit"} => Good(list[t][1])
           /\ list[t] = <<list[t][1]>>
           /\ pc[t] \notin Submitting => want[t] = << >>
<1> DEFINE s == list[t]
<1>1. /\ ListsAt(pc[t], s) /\ WantsAt(pc[t], want[t], held[t]) /\ s \in Seq(ListSet)
      /\ FlyingAt(pc[t], s, want[t], held[t], flying[t], pipe[t])
  BY HereOK DEF Here
<1>2. pc[t] \notin {"idle", "coro"} /\ (pc[t] \notin Submitting => pc[t] \notin Locking)
  BY DEF PipeLabels, Locking
<1>3. Len(s) = 1 /\ s[1].kind = "pipe" /\ ~s[1].dyn  BY <1>1, <1>2 DEF ListsAt
<1>4. DOMAIN s = 1 .. 1 /\ s[1] \in ListSet  BY <1>1, <1>3, LenProperties, ElementOfSeq
<1>5. ListOK(s[1]) /\ (pc[t] \notin {"first_send", "first_submit"} => Good(s[1]))
      /\ (pc[t] \in {"first_send", "first_submit"} => s[1].seen = Ids(s[1].pool))
  BY <1>1, <1>4 DEF ListsAt, Good
<1>6. s = <<s[1]>>
  <2> DEFINE o == <<s[1]>>
  <2>1. o \in Seq(ListSet) /\ Len(o) = 1 /\ o[1] = s[1]  BY <1>4, SingleList
  <2> HIDE DEF s, o
  <2>2. s = o  BY <1>1, <1>3, <2>1, SeqEqual
  <2> QED BY <2>2 DEF s, o
<1> QED BY <1>1, <1>2, <1>3, <1>4, <1>5, <1>6 DEF FlyingAt, WantsAt

LEMMA PipeLists ==
    ASSUME NEW label \in PipeLabels, NEW d, ListOK(d), d.kind = "pipe", ~d.dyn,
           label \in {"first_send", "first_submit"} => d.seen = Ids(d.pool),
           label \notin {"first_send", "first_submit"} => Good(d)
    PROVE  <<d>> \in Seq(ListSet) /\ <<d>>[1] = d /\ ListsAt(label, <<d>>)
<1>1. d \in ListSet  BY DEF ListOK
<1>2. label \notin RoundLabels \cup {"idle", "coro"}  BY DEF RoundLabels, PipeLabels
<1> DEFINE s == <<d>>
<1>4. s \in Seq(ListSet) /\ Len(s) = 1 /\ s[1] = d /\ DOMAIN s = {1}  BY <1>1, SingleList
<1> HIDE DEF s
<1>5. label # "pop"  BY <1>2 DEF RoundLabels
<1>6. ListsAt(label, s)  BY <1>2, <1>4, <1>5 DEF ListsAt
<1> QED BY <1>4, <1>6 DEF s

(* A step within a pipe search.                                             *)
LEMMA PipeMoves ==
    ASSUME SearchIInv, NEW t \in Threads, pc[t] \in PipeLabels, NEW label \in PipeLabels,
           NEW d, ListOK(d), d.kind = "pipe", ~d.dyn,
           label \in {"first_send", "first_submit"} => d.seen = Ids(d.pool),
           label \notin {"first_send", "first_submit"} => Good(d),
           NEW wants \in Seq(Keys), NEW holds \in SUBSET Keys, WantsAt(label, wants, holds),
           NEW fly, NEW p, PipeAt(d, fly, p, label, wants, holds),
           Moved(t, label, <<d>>, wants, holds, fly, p),
           LocksInOrder', UNCHANGED <<free, bg, calls>>
    PROVE  SearchIInv'
<1> DEFINE lists == <<d>>
<1>1. Here(t) /\ list[t][1].kind = "pipe"  BY HereOK, InPipe
<1>2. lists \in Seq(ListSet) /\ lists[1] = d /\ ListsAt(label, lists)  BY PipeLists
<1>3. label \in Labels /\ label # "idle" /\ pc[t] # "idle"  BY DEF Labels, PipeLabels
<1>4. Moved(t, label, lists, wants, holds, fly, p)  OBVIOUS
<1> HIDE DEF lists
<1>5. Accounts(t, label, lists)
  BY <1>1, <1>2, <1>3 DEF Here, Accounts, Busy, Cost
<1>6. InOrderAt(label, lists, wants, holds, fly, p)  BY <1>2 DEF InOrderAt, FlyingAt
<1> QED BY <1>2, <1>3, <1>4, <1>5, <1>6, StepKeeps

LEMMA SameReads ==
    ASSUME NEW c, NEW fly, NEW p, NEW label, NEW wants, NEW holds,
           PipeAt(c, fly, p, label, wants, holds),
           NEW fly2 \in Seq(Reads), Len(fly2) = Len(fly),
           \A i \in DOMAIN fly : fly2[i].id = fly[i].id,
           NEW p2 \in RingSet(DOMAIN p.slotOf), p2.slotOf = p.slotOf
    PROVE  PipeAt(c, fly2, p2, label, wants, holds)
<1>1. fly \in Seq(Reads)  BY DEF PipeAt
<1>2. DOMAIN fly2 = DOMAIN fly  BY <1>1, LenProperties
<1>3. FlyIds(fly2) = FlyIds(fly)  BY <1>2 DEF FlyIds
<1>4. SentIds(c, fly2, label) = SentIds(c, fly, label)  BY <1>3 DEF SentIds
<1> QED BY <1>2, <1>3, <1>4 DEF PipeAt

LEMMA CompleteKeeps ==
    ASSUME SearchIInv, NEW t \in Threads, Complete(t)
    PROVE  SearchIInv'
<1> DEFINE s == flying[t]
           label == pc[t]
           lists == list[t]
           wants == want[t]
           holds == held[t]
<1>1. PICK i \in DOMAIN s :
         /\ flying' = [flying EXCEPT ![t][i].fin = TRUE]
         /\ pipe' = IF pc[t] = "coro" THEN pipe
                    ELSE [pipe EXCEPT ![t].onPage[flying[t][i].slot] = Page[flying[t][i].id]]
         /\ UNCHANGED <<mix, free, bg, calls, pc, list, want, held, locks>>
  BY DEF Complete
<1> DEFINE fly == [s EXCEPT ![i].fin = TRUE]
           p == IF pc[t] = "coro" THEN pipe[t]
                ELSE [pipe[t] EXCEPT !.onPage[s[i].slot] = Page[s[i].id]]
<1>2. /\ Here(t) /\ Same(pc, t) /\ Same(list, t) /\ Same(want, t) /\ Same(held, t) /\ Same(pipe, t)
  BY HereOK
<1>3. Moved(t, label, lists, wants, holds, fly, p)
  <2>1. flying' = [flying EXCEPT ![t] = fly]  BY <1>1
  <2>2. pipe' = [pipe EXCEPT ![t] = p]  BY <1>1, <1>2 DEF Same
  <2> HIDE DEF fly, p
  <2> QED BY <1>1, <1>2, <2>1, <2>2 DEF Moved, Same
<1>4. LocksInOrder'  BY <1>1, <1>2, LocksStay DEF Here
<1>5. Accounts(t, label, lists)
  <2> HIDE DEF fly, p
  <2> QED BY <1>1, <1>2 DEF Here, Accounts, Busy, Cost
<1>6. FlyingAt(label, lists, wants, holds, s, pipe[t])  BY <1>2 DEF Here
<1>7. label \in PipeLabels \cup {"coro"}
  <2>1. s # << >>  BY <1>1
  <2> HIDE DEF s, label, lists, wants, holds
  <2> QED BY <1>6, <2>1 DEF FlyingAt
<1>8. FlyingAt(label, lists, wants, holds, fly, p)
  <2>1. CASE label = "coro"
    <3>1. label \notin PipeLabels  BY <2>1 DEF PipeLabels
    <3> HIDE DEF fly, p, label
    <3> QED BY <2>1, <3>1 DEF FlyingAt
  <2>2. CASE label \in PipeLabels
    <3> DEFINE c == lists[1]
               q == pipe[t]
    <3>1. PipeAt(c, s, q, label, wants, holds)  BY <1>6, <2>2 DEF FlyingAt
    <3>2. s \in Seq(Reads) /\ q \in RingSet(DOMAIN q.slotOf)
      <4> HIDE DEF c, s, q, label, wants, holds
      <4> QED BY <3>1 DEF PipeAt
    <3>3. c \in ListSet  BY <2>2, InPipe
    <3>4. label # "coro"  BY <2>2 DEF PipeLabels
    <3>5. p = [q EXCEPT !.onPage[s[i].slot] = Page[s[i].id]]  BY <3>4
    <3>6. s[i] \in Reads /\ DOMAIN s = 1 .. Len(s) /\ Len(s) \in Nat
      <4> HIDE DEF s
      <4> QED BY <1>1, <3>2, ElementOfSeq, LenProperties
    <3>7. fly \in Seq(Reads) /\ Len(fly) = Len(s) /\ \A j \in DOMAIN s : fly[j].id = s[j].id
      <4>1. \A j \in DOMAIN s : s[j] \in Reads
        <5> HIDE DEF s
        <5> QED BY <3>2, ElementOfSeq, LenProperties
      <4>2. [s[i] EXCEPT !.fin = TRUE] \in Reads /\ [s[i] EXCEPT !.fin = TRUE].id = s[i].id
        <5> HIDE DEF s
        <5> QED BY <3>6 DEF Reads
      <4>3. fly = [s EXCEPT ![i] = [s[i] EXCEPT !.fin = TRUE]]  OBVIOUS
      <4> DEFINE e == [s[i] EXCEPT !.fin = TRUE]
      <4> HIDE DEF s, fly, e
      <4>4. fly = [s EXCEPT ![i] = e]  BY <4>3 DEF e
      <4>5. e \in Reads /\ e.id = s[i].id  BY <4>2 DEF e
      <4>6. fly \in Seq(Reads) /\ Len(fly) = Len(s)  BY <1>1, <3>2, <4>4, <4>5, ExceptSeq
      <4>7. \A j \in DOMAIN s : fly[j] = IF j = i THEN e ELSE s[j]  BY <4>4
      <4> QED BY <4>5, <4>6, <4>7
    <3>8. p \in RingSet(DOMAIN q.slotOf) /\ p.slotOf = q.slotOf
      <4> DEFINE slot == s[i].slot
                 page == Page[s[i].id]
                 got == DOMAIN q.slotOf
      <4>1. slot \in 0 .. MaxReads - 1  BY <3>6 DEF Reads
      <4>2. page \in Nat
        <5>1. s[i].id \in Nodes  BY <3>6 DEF Reads
        <5> HIDE DEF s
        <5> QED BY <5>1, SearchAssumption
      <4>3. p = [q EXCEPT !.onPage = [q.onPage EXCEPT ![slot] = page]]  BY <3>5
      <4>4. q \in RingSet(got)  BY <3>2
      <4> HIDE DEF slot, page, q, p, got
      <4>5. q.onPage \in [0 .. MaxReads - 1 -> Nat]  BY <4>4 DEF RingSet
      <4>6. [q.onPage EXCEPT ![slot] = page] \in [0 .. MaxReads - 1 -> Nat]  BY <4>1, <4>2, <4>5
      <4> DEFINE pages == [q.onPage EXCEPT ![slot] = page]
      <4> HIDE DEF pages
      <4>7. p = [q EXCEPT !.onPage = pages] /\ pages \in [0 .. MaxReads - 1 -> Nat]
        BY <4>3, <4>6 DEF pages
      <4>8. p \in RingSet(got) /\ p.slotOf = q.slotOf  BY <4>4, <4>7 DEF RingSet
      <4> QED BY <4>8 DEF got
    <3> HIDE DEF c, s, q, label, wants, holds, fly, p
    <3>9. PipeAt(c, fly, p, label, wants, holds)
      BY <3>1, <3>7, <3>8, SameReads
    <3> QED BY <2>2, <3>9 DEF FlyingAt, c, PipeLabels
  <2> QED BY <1>7, <2>1, <2>2
<1>9. InOrderAt(label, lists, wants, holds, fly, p)
  <2> HIDE DEF fly, p
  <2> QED BY <1>2, <1>8 DEF Here, InOrderAt
<1>10. label \in Labels /\ lists \in Seq(ListSet) /\ wants \in Seq(Keys) /\ holds \in SUBSET Keys
  BY <1>2 DEF Here
<1> HIDE DEF label, lists, wants, holds, fly, p
<1> QED BY <1>3, <1>4, <1>5, <1>9, <1>10, StepKeeps

LEMMA BeginPipeKeeps ==
    ASSUME SearchIInv, NEW t \in Threads, BeginPipe(t)
    PROVE  SearchIInv'
<1> DEFINE label == "first_send"
           none == << >>
           pages == [slot \in 0 .. MaxReads - 1 |-> 0]
           p == [onPage |-> pages, slotOf |-> none,
                 next |-> 0, width |-> StartWidth, quota |-> StartWidth]
<1>1. /\ pc[t] = "idle" /\ calls < MaxCalls /\ PopBuffer /\ calls' = calls + 1
      /\ UNCHANGED <<mix, bg, want, held, locks, flying>>
      /\ Goto(t, label) /\ pipe' = [pipe EXCEPT ![t] = p]
  BY DEF BeginPipe
<1>2. Here(t) /\ Same(want, t) /\ Same(held, t) /\ Same(flying, t)  BY HereOK
<1>3. want[t] = none /\ held[t] = {} /\ flying[t] = none
  BY <1>1, <1>2 DEF Here, WantsAt, FlyingAt, Locking, Submitting, PipeLabels
<1>4. LocksInOrder'  BY <1>1, <1>2, LocksStay DEF Here
<1>5. PICK query \in Queries, entries \in Entries \cup {<<Medoid>>} :
          SetList(t, NewList("pipe", FALSE, query, entries))
  BY DEF BeginPipe
<1> DEFINE c == NewList("pipe", FALSE, query, entries)
           lists == <<c>>
<1>6. c = NewList("pipe", FALSE, query, entries) /\ SetList(t, c)  BY <1>5
<1> HIDE DEF c
<1>7. /\ ListOK(c) /\ c.seen = Ids(c.pool) /\ c.kind = "pipe" /\ ~c.dyn
      /\ \A i \in DOMAIN c.pool : c.pool[i] = Entry(c.pool[i].id)
  <2> DEFINE kind == "pipe"
             dyn == FALSE
  <2>1. kind \in Kinds /\ dyn \in BOOLEAN /\ c = NewList(kind, dyn, query, entries)
    BY <1>6 DEF Kinds
  <2> HIDE DEF kind, dyn
  <2>2. /\ ListOK(c) /\ c.seen = Ids(c.pool) /\ c.kind = kind /\ c.dyn = dyn
        /\ \A i \in DOMAIN c.pool : c.pool[i] = Entry(c.pool[i].id)
    BY <2>1, NewListOK
  <2> QED BY <2>2 DEF kind, dyn
<1>8. label \in PipeLabels /\ label \in Labels /\ label \in {"first_send", "first_submit"}
      /\ label # "idle" /\ label \notin Locking /\ label \notin Submitting
  BY DEF PipeLabels, Labels, Locking, Submitting
<1>9. lists \in Seq(ListSet) /\ lists[1] = c /\ ListsAt(label, lists)
  <2> HIDE DEF label
  <2> QED BY <1>7, <1>8, PipeLists
<1>10. /\ none \in Seq(ListSet) /\ none \in Seq(Keys) /\ none \in Seq(Reads) /\ {} \in SUBSET Keys
       /\ DOMAIN none = {} /\ none \in [{} -> 0 .. MaxReads - 1]
  OBVIOUS
<1>11. p \in RingSet({}) /\ p.slotOf = none
  <2>1. 0 \in 0 .. MaxReads - 1 /\ StartWidth \in Nat /\ StartWidth \in Int /\ 0 \in Nat
    BY SearchAssumption
  <2>2. pages \in [0 .. MaxReads - 1 -> Nat]  BY <2>1
  <2> HIDE DEF none, pages
  <2> QED BY <1>10, <2>1, <2>2 DEF RingSet
<1>12. Moved(t, label, lists, none, {}, none, p)
  <2> HIDE DEF p, label, none
  <2> QED BY <1>1, <1>2, <1>3, <1>6 DEF Moved, Goto, SetList, Same
<1> HIDE DEF lists, p, label, none
<1>13. Accounts(t, label, lists)
  <2>1. Cost(label, lists) = 1 /\ Cost(pc[t], list[t]) = 0 /\ Busy(t) = 0
    BY <1>1, <1>7, <1>8, <1>9 DEF Cost, Busy
  <2>2. MaxCalls \in Nat  BY SearchAssumption
  <2> QED BY <1>1, <1>2, <1>8, <2>1, <2>2 DEF Here, Accounts, PopBuffer
<1>14. PipeAt(c, none, p, label, none, {})
  <2>1. FlyIds(none) = {} /\ SentIds(c, none, label) = {}  BY <1>8, <1>10 DEF FlyIds, SentIds
  <2>2. \A j \in DOMAIN c.pool : c.pool[j].flag = TRUE /\ c.pool[j].done = FALSE
    <3> SUFFICES ASSUME NEW j \in DOMAIN c.pool
                 PROVE  c.pool[j].flag = TRUE /\ c.pool[j].done = FALSE
      OBVIOUS
    <3>1. c.pool[j] = Entry(c.pool[j].id)  BY <1>7
    <3> DEFINE n == c.pool[j].id
    <3> HIDE DEF n
    <3>2. c.pool[j] = Entry(n)  BY <3>1 DEF n
    <3> QED BY <3>2 DEF Entry
  <2>3. c.seen = c.seen /\ {} \subseteq c.seen  OBVIOUS
  <2> QED BY <1>8, <1>10, <1>11, <2>1, <2>2, <2>3 DEF PipeAt
<1>15. InOrderAt(label, lists, none, {}, none, p)
  BY <1>8, <1>9, <1>10, <1>14 DEF InOrderAt, WantsAt, FlyingAt, IsInjective, none
<1> QED BY <1>4, <1>8, <1>9, <1>10, <1>12, <1>13, <1>15, StepKeeps

LEMMA PipeSelectKeeps ==
    ASSUME SearchIInv, NEW t \in Threads, PipeSelect(t)
    PROVE  SearchIInv'
<1> DEFINE c == list[t][1]
           fly == flying[t]
           p == pipe[t]
           i == First(Unread(t))
           id == c.pool[i].id
           front == <<id>>
           pool == [j \in DOMAIN c.pool |->
                      IF j <= i THEN [c.pool[j] EXCEPT !.flag = FALSE] ELSE c.pool[j]]
           d == [c EXCEPT !.front = front, !.pool = pool]
           wants == <<IdKey(id)>>
           holds == held[t]
           label == IF pc[t] = "send" THEN "submit" ELSE "first_submit"
           got == DOMAIN p.slotOf
<1>1. /\ pc[t] \in {"first_send", "send"} /\ pc[t] \in PipeLabels /\ pc[t] \notin Submitting
      /\ Unread(t) # {}
      /\ UNCHANGED <<mix, free, bg, calls, held, locks, flying, pipe>> /\ Goto(t, label)
  BY DEF PipeSelect, PipeLabels, Submitting
<1>2. SetList(t, d) /\ want' = [want EXCEPT ![t] = wants]  BY Zenon DEF PipeSelect
<1>3. /\ Here(t) /\ Same(held, t) /\ Same(flying, t) /\ Same(pipe, t)
      /\ PipeAt(c, fly, p, pc[t], want[t], holds) /\ want[t] = << >>
      /\ c \in ListSet /\ ListOK(c) /\ c.kind = "pipe" /\ ~c.dyn
      /\ (pc[t] \in {"first_send", "first_submit"} => c.seen = Ids(c.pool))
      /\ (pc[t] \notin {"first_send", "first_submit"} => Good(c))
  BY <1>1, HereOK, InPipe
<1>4. LocksInOrder'  BY <1>1, <1>3, LocksStay DEF Here
<1>5. /\ c.pool \in Seq(EntrySet) /\ Len(c.pool) \in Nat /\ DOMAIN c.pool = 1 .. Len(c.pool)
      /\ \A j \in DOMAIN c.pool : c.pool[j] \in EntrySet /\ c.pool[j].id \in Nodes
  BY <1>3, Fields
<1>6. /\ i \in DOMAIN c.pool /\ c.pool[i].flag /\ id \notin got
      /\ \A j \in DOMAIN c.pool : c.pool[j].flag /\ c.pool[j].id \notin got => i <= j
  <2> DEFINE U == Unread(t)
  <2>1. U = {j \in DOMAIN c.pool : c.pool[j].flag /\ c.pool[j].id \notin got}  BY DEF Unread
  <2>2. U \in SUBSET Nat /\ U # {}
    <3>1. U \subseteq DOMAIN c.pool  BY <2>1
    <3> QED BY <1>1, <1>5, <3>1
  <2>3. i = First(U)  OBVIOUS
  <2> HIDE DEF U, c, i, got
  <2>4. \E j \in U : \A k \in U : j <= k  BY <2>2, LeastNatural
  <2>5. i \in U /\ \A k \in U : i <= k  BY <2>3, <2>4 DEF First
  <2> QED BY <2>1, <2>5 DEF id
<1> HIDE DEF i
<1>7. /\ DOMAIN pool = DOMAIN c.pool
      /\ \A j \in DOMAIN c.pool :
            /\ pool[j].id = c.pool[j].id /\ pool[j].done = c.pool[j].done /\ pool[j] \in EntrySet
            /\ pool[j].flag = IF j <= i THEN FALSE ELSE c.pool[j].flag
  <2> SUFFICES ASSUME NEW j \in DOMAIN c.pool
               PROVE  /\ pool[j].id = c.pool[j].id /\ pool[j].done = c.pool[j].done
                      /\ pool[j] \in EntrySet
                      /\ pool[j].flag = IF j <= i THEN FALSE ELSE c.pool[j].flag
    OBVIOUS
  <2>1. pool[j] = IF j <= i THEN [c.pool[j] EXCEPT !.flag = FALSE] ELSE c.pool[j]  OBVIOUS
  <2>2. c.pool[j] \in EntrySet  BY <1>5
  <2> HIDE DEF pool, c
  <2> QED BY <2>1, <2>2 DEF EntrySet
<1>8. pool \in Seq(EntrySet) /\ Len(pool) = Len(c.pool)
  <2>1. \A j \in DOMAIN c.pool : pool[j] \in EntrySet  BY <1>7
  <2>2. pool \in [1 .. Len(c.pool) -> EntrySet]
    <3>1. pool = [j \in 1 .. Len(c.pool) |-> pool[j]]  BY <1>5
    <3> HIDE DEF pool, c
    <3> QED BY <1>5, <2>1, <3>1
  <2> HIDE DEF pool, c
  <2> QED BY <1>5, <2>2, AsSequence
<1>9. id \in Nodes /\ front \in Seq(Nodes) /\ front[1] = id
  <2>1. id \in Nodes  BY <1>5, <1>6
  <2> HIDE DEF id
  <2> QED BY <2>1
<1>10. IdKey(id) \in Keys /\ wants \in Seq(Keys) /\ Len(wants) = 1 /\ wants[1] = IdKey(id)
  <2>1. id \in Nat  BY <1>9, ListAssumption
  <2> HIDE DEF id
  <2>2. IdKey(id) \in Keys  BY <2>1 DEF IdKey, Keys
  <2> QED BY <2>2
<1>11. d = [c EXCEPT !.front = front, !.pool = pool] /\ wants = <<IdKey(id)>>  OBVIOUS
<1>12. label \in PipeLabels /\ label \in Submitting /\ label \in Locking
       /\ (label \in {"first_send", "first_submit"} <=> pc[t] \in {"first_send", "first_submit"})
  BY <1>1 DEF PipeLabels, Submitting, Locking
<1>13. holds \in SUBSET Keys  BY <1>3 DEF Here
<1> HIDE DEF c, pool, d, front, wants, id, label, p, fly, holds
<1>14. [c EXCEPT !.front = front, !.pool = pool] \in ListSet  BY <1>3, <1>8, <1>9 DEF ListSet
<1>15. d \in ListSet  BY <1>11, <1>14
<1>16. /\ d.kind = c.kind /\ d.dyn = c.dyn /\ d.query = c.query /\ d.L = c.L /\ d.seen = c.seen
       /\ d.pool = pool /\ d.heap = c.heap /\ d.k = c.k /\ d.nk = c.nk /\ d.front = front
  BY <1>3, <1>11 DEF ListSet
<1>17. Repicked(c, d)
  BY <1>3, <1>7, <1>8, <1>15, <1>16 DEF Repicked, ListOK
<1>18. ListOK(d) /\ (Nearest(c) => Nearest(d)) /\ Ids(d.pool) = Ids(c.pool)
  BY <1>3, <1>17, RepickedGood
<1>19. PipeAt(d, fly, p, label, wants, holds)
  <2>1. /\ fly \in Seq(Reads) /\ p \in RingSet(got)
        /\ SentIds(c, fly, pc[t]) = FlyIds(fly) /\ SentIds(d, fly, label) = FlyIds(fly) \cup {id}
    BY <1>1, <1>3, <1>9, <1>12, <1>16 DEF PipeAt, SentIds
  <2>2. /\ got \cup FlyIds(fly) \subseteq c.seen /\ got \cap FlyIds(fly) = {}
        /\ \A j \in DOMAIN c.pool :
              /\ c.pool[j].flag => c.pool[j].id \notin FlyIds(fly)
              /\ ~c.pool[j].flag => c.pool[j].id \in got \cup FlyIds(fly)
              /\ c.pool[j].done => c.pool[j].id \in got
        /\ holds = {IdKey(n) : n \in FlyIds(fly)}
    BY <1>1, <1>3, <2>1 DEF PipeAt
  <2>3. id \in c.seen /\ id \in Ids(c.pool)  BY <1>3, <1>6 DEF ListOK, Ids, id
  <2>4. id \notin FlyIds(fly)  BY <1>6, <2>2 DEF id
  <2>5. got \cup (FlyIds(fly) \cup {id}) \subseteq d.seen /\ got \cap (FlyIds(fly) \cup {id}) = {}
    BY <1>6, <1>16, <2>2, <2>3
  <2>6. ASSUME NEW j \in DOMAIN c.pool
        PROVE  /\ pool[j].flag => pool[j].id \notin FlyIds(fly) \cup {id}
               /\ ~pool[j].flag => pool[j].id \in got \cup (FlyIds(fly) \cup {id})
               /\ pool[j].done => pool[j].id \in got
    <3>1. /\ pool[j].id = c.pool[j].id /\ pool[j].done = c.pool[j].done
          /\ pool[j].flag = IF j <= i THEN FALSE ELSE c.pool[j].flag
      BY <1>7
    <3>2. i \in Nat /\ j \in Nat  BY <1>5, <1>6
    <3>3. CASE j <= i
      <4>1. ~pool[j].flag  BY <3>1, <3>3
      <4>2. CASE j = i  BY <2>2, <3>1, <4>1, <4>2 DEF id
      <4>3. CASE j < i
        <5>1. ~(i <= j)  BY <3>2, <4>3
        <5>2. ~c.pool[j].flag \/ c.pool[j].id \in got  BY <1>6, <5>1
        <5> QED BY <2>2, <3>1, <4>1, <5>2
      <4> QED BY <3>2, <3>3, <4>2, <4>3
    <3>4. CASE ~(j <= i)
      <4>1. j # i  BY <3>2, <3>4
      <4>2. c.pool[j].id # id  BY <1>3, <1>6, <4>1 DEF ListOK, OneEach, id
      <4>3. pool[j].flag = c.pool[j].flag  BY <3>1, <3>4
      <4> QED BY <2>2, <3>1, <4>2, <4>3
    <3> QED BY <3>3, <3>4
  <2>7. \A k \in DOMAIN fly : \E j \in DOMAIN pool :
              /\ pool[j].id \notin got
              /\ \A l \in DOMAIN fly : fly[l].id = pool[j].id => l >= k
    <3> SUFFICES ASSUME NEW k \in DOMAIN fly
                 PROVE  \E j \in DOMAIN pool :
                           /\ pool[j].id \notin got
                           /\ \A l \in DOMAIN fly : fly[l].id = pool[j].id => l >= k
      OBVIOUS
    <3>1. PICK j \in DOMAIN c.pool : /\ c.pool[j].id \notin got
                                    /\ \A l \in DOMAIN fly : fly[l].id = c.pool[j].id => l >= k
      BY <1>3 DEF PipeAt
    <3> QED BY <1>7, <3>1
  <2>8. \A j, k \in DOMAIN fly : fly[j].id = fly[k].id => j = k  BY <1>3 DEF PipeAt
  <2>9. id \in Ids(pool) \ FlyIds(fly)  BY <1>16, <1>18, <2>3, <2>4
  <2>10. wants # << >>  BY <1>10
  <2>11. /\ wants \in {<< >>, <<IdKey(id)>>}
         /\ holds = {IdKey(n) : n \in FlyIds(fly)} \cup
                    IF label \in Submitting /\ wants = << >> THEN {IdKey(id)} ELSE {}
    BY <1>11, <2>2, <2>10
  <2>12. DOMAIN pool = DOMAIN c.pool  BY <1>7
  <2> QED BY <1>9, <1>12, <1>16, <2>1, <2>5, <2>6, <2>7, <2>8, <2>9, <2>11, <2>12 DEF PipeAt
<1>20. WantsAt(label, wants, holds)
  <2>1. IdKey(id) \notin holds
    <3>1. holds = {IdKey(n) : n \in FlyIds(fly)} /\ id \notin FlyIds(fly)
      BY <1>1, <1>3, <1>9, <1>12, <1>16, <1>19 DEF PipeAt
    <3>2. \A n : IdKey(n) = IdKey(id) => n = id  BY DEF IdKey
    <3> QED BY <3>1, <3>2
  <2>2. DOMAIN wants = {1}  BY <1>10, LenProperties
  <2> QED BY <1>10, <1>12, <2>1, <2>2 DEF WantsAt, IsInjective
<1>21. Moved(t, label, <<d>>, wants, holds, fly, p)
  BY <1>1, <1>2, <1>3 DEF Moved, Goto, SetList, Same, holds, fly, p
<1>22. (label \in {"first_send", "first_submit"} => d.seen = Ids(d.pool))
       /\ (label \notin {"first_send", "first_submit"} => Good(d))
  BY <1>3, <1>12, <1>16, <1>18 DEF Good
<1>23. d.kind = "pipe" /\ ~d.dyn /\ UNCHANGED <<free, bg, calls>>  BY <1>1, <1>3, <1>16
<1> QED BY <1>1, <1>4, <1>10, <1>12, <1>13, <1>18, <1>19, <1>20, <1>21, <1>22, <1>23, PipeMoves

LEMMA PipeSubmitKeeps ==
    ASSUME SearchIInv, NEW t \in Threads, PipeSubmit(t)
    PROVE  SearchIInv'
<1> DEFINE c == list[t][1]
           fly == flying[t]
           p == pipe[t]
           id == c.front[1]
           read == [id |-> id, slot |-> p.next, fin |-> FALSE]
           more == Append(fly, read)
           q == [p EXCEPT !.next = (p.next + 1) % MaxReads, !.quota = p.quota - 1]
           none == << >>
           holds == held[t]
           label == IF pc[t] = "submit" THEN "send" ELSE "first_send"
           got == DOMAIN p.slotOf
<1>1. /\ pc[t] \in Submitting /\ pc[t] \in PipeLabels /\ want[t] = none
      /\ UNCHANGED <<mix, free, bg, calls, list, want, held, locks>> /\ Goto(t, label)
      /\ flying' = [flying EXCEPT ![t] = more]
      /\ pipe' = [pipe EXCEPT ![t].next = (@ + 1) % MaxReads, ![t].quota = @ - 1]
  BY DEF PipeSubmit, PipeLabels, Submitting
<1>2. /\ Here(t) /\ Same(list, t) /\ Same(want, t) /\ Same(held, t) /\ Same(pipe, t)
      /\ PipeAt(c, fly, p, pc[t], want[t], holds)
      /\ c \in ListSet /\ ListOK(c) /\ c.kind = "pipe" /\ ~c.dyn /\ list[t] = <<c>>
      /\ (pc[t] \in {"first_send", "first_submit"} => c.seen = Ids(c.pool))
      /\ (pc[t] \notin {"first_send", "first_submit"} => Good(c))
  BY <1>1, HereOK, InPipe
<1>3. LocksInOrder'  BY <1>1, <1>2, LocksStay DEF Here
<1>4. /\ fly \in Seq(Reads) /\ p \in RingSet(got)
      /\ SentIds(c, fly, pc[t]) = FlyIds(fly) \cup {id}
      /\ got \cup (FlyIds(fly) \cup {id}) \subseteq c.seen /\ got \cap (FlyIds(fly) \cup {id}) = {}
      /\ \A j, k \in DOMAIN fly : fly[j].id = fly[k].id => j = k
      /\ \A j \in DOMAIN c.pool :
              /\ c.pool[j].flag => c.pool[j].id \notin FlyIds(fly) \cup {id}
              /\ ~c.pool[j].flag => c.pool[j].id \in got \cup (FlyIds(fly) \cup {id})
              /\ c.pool[j].done => c.pool[j].id \in got
      /\ \A i \in DOMAIN fly : \E j \in DOMAIN c.pool :
              /\ c.pool[j].id \notin got
              /\ \A k \in DOMAIN fly : fly[k].id = c.pool[j].id => k >= i
      /\ id \in Ids(c.pool) \ FlyIds(fly)
      /\ holds = {IdKey(n) : n \in FlyIds(fly)} \cup {IdKey(id)}
  <2>1. SentIds(c, fly, pc[t]) = FlyIds(fly) \cup {id}  BY <1>1 DEF SentIds
  <2> HIDE DEF c, fly, p, id, got, holds
  <2> QED BY <1>1, <1>2, <2>1 DEF PipeAt, got, id
<1>5. label \in PipeLabels /\ label \notin Submitting /\ label \notin Locking
       /\ (label \in {"first_send", "first_submit"} <=> pc[t] \in {"first_send", "first_submit"})
  BY <1>1 DEF PipeLabels, Submitting, Locking
<1>6. id \in Nodes /\ read \in Reads /\ read.id = id
  <2>1. id \in Nodes
    <3>1. Ids(c.pool) \subseteq Nodes  BY <1>2, Fields
    <3> QED BY <1>4, <3>1
  <2>2. p.next \in 0 .. MaxReads - 1  BY <1>4 DEF RingSet
  <2> HIDE DEF id, p
  <2> QED BY <2>1, <2>2 DEF Reads
<1>7. q \in RingSet(got) /\ q.slotOf = p.slotOf
  <2> DEFINE n == (p.next + 1) % MaxReads
             m == p.quota - 1
  <2>1. p.next \in 0 .. MaxReads - 1 /\ p.quota \in Int /\ MaxReads \in Nat /\ MaxReads > 0
    BY <1>4, SearchAssumption DEF RingSet
  <2>2. n \in 0 .. MaxReads - 1 /\ m \in Int
    <3> DEFINE a == p.next
    <3>1. a \in Nat /\ a + 1 \in Int  BY <2>1
    <3> HIDE DEF a
    <3>2. (a + 1) % MaxReads \in 0 .. MaxReads - 1  BY <2>1, <3>1
    <3> QED BY <2>1, <3>2 DEF a
  <2>3. q = [p EXCEPT !.next = n, !.quota = m]  OBVIOUS
  <2> HIDE DEF n, m, q, p, got
  <2> QED BY <1>4, <2>2, <2>3 DEF RingSet
<1>8. pipe' = [pipe EXCEPT ![t] = q]
  <2>1. pipe = [pipe EXCEPT ![t] = pipe[t]]  BY <1>2 DEF Same
  <2> QED BY <1>1, <2>1
<1>9. q.slotOf = p.slotOf /\ DOMAIN q.slotOf = got  BY <1>7
<1>10. read = [id |-> id, slot |-> p.next, fin |-> FALSE] /\ more = Append(fly, read)  OBVIOUS
<1>11. holds \in SUBSET Keys  BY <1>2 DEF Here
<1>12. none \in Seq(Keys) /\ DOMAIN none = {}  OBVIOUS
<1> DEFINE n == Len(fly)
<1>13. /\ n \in Nat /\ DOMAIN fly = 1 .. n /\ more \in Seq(Reads) /\ DOMAIN more = 1 .. n + 1
       /\ (\A i \in 1 .. n : more[i] = fly[i]) /\ more[n + 1] = read
  <2> HIDE DEF fly, read, more
  <2>1. n \in Nat /\ DOMAIN fly = 1 .. n  BY <1>4, LenProperties
  <2>2. /\ more \in Seq(Reads) /\ Len(more) = n + 1 /\ \A i \in 1 .. n : more[i] = fly[i]
        /\ more[n + 1] = read
    BY <1>4, <1>6, <1>10, AppendProperties
  <2> QED BY <2>1, <2>2, LenProperties
<1> HIDE DEF c, fly, p, id, read, more, q, none, holds, label, got, n
<1>14. /\ \A i \in DOMAIN more : i \in DOMAIN fly \/ i = n + 1
       /\ \A i \in DOMAIN fly : i \in DOMAIN more /\ more[i].id = fly[i].id /\ i < n + 1
       /\ n + 1 \in DOMAIN more /\ more[n + 1].id = id /\ n + 1 \in Int /\ DOMAIN fly \subseteq Int
  BY <1>6, <1>13
<1> DEFINE last == n + 1
<1>15. /\ \A i \in DOMAIN more : i \in DOMAIN fly \/ i = last
       /\ \A i \in DOMAIN fly : i \in DOMAIN more /\ more[i].id = fly[i].id /\ i < last /\ i \in Int
       /\ last \in DOMAIN more /\ more[last].id = id /\ last \in Int
  BY <1>14
<1> HIDE DEF last
<1>16. FlyIds(more) = FlyIds(fly) \cup {id}
  <2>1. FlyIds(more) \subseteq FlyIds(fly) \cup {id}
    <3> SUFFICES ASSUME NEW i \in DOMAIN more PROVE more[i].id \in FlyIds(fly) \cup {id}
      BY DEF FlyIds
    <3> QED BY <1>15 DEF FlyIds
  <2>2. FlyIds(fly) \subseteq FlyIds(more) /\ id \in FlyIds(more)
    <3>1. ASSUME NEW i \in DOMAIN fly PROVE fly[i].id \in FlyIds(more)
      <4>1. i \in DOMAIN more /\ more[i].id = fly[i].id  BY <1>15
      <4> QED BY <4>1 DEF FlyIds
    <3>2. id \in FlyIds(more)  BY <1>15 DEF FlyIds
    <3> QED BY <3>1, <3>2 DEF FlyIds
  <2> QED BY <2>1, <2>2
<1>17. PipeAt(c, more, q, label, none, holds)
  <2>1. SentIds(c, more, label) = FlyIds(fly) \cup {id}  BY <1>5, <1>16 DEF SentIds
  <2>2. \A i \in DOMAIN fly : fly[i].id # id  BY <1>4 DEF FlyIds
  <2>3. \A j, k \in DOMAIN more : more[j].id = more[k].id => j = k
    <3> SUFFICES ASSUME NEW j \in DOMAIN more, NEW k \in DOMAIN more, more[j].id = more[k].id
                 PROVE  j = k
      OBVIOUS
    <3>1. CASE j \in DOMAIN fly /\ k \in DOMAIN fly  BY <1>4, <1>15, <3>1
    <3>2. CASE j \in DOMAIN fly /\ k = last  BY <1>15, <2>2, <3>2
    <3>3. CASE j = last /\ k \in DOMAIN fly  BY <1>15, <2>2, <3>3
    <3> QED BY <1>15, <3>1, <3>2, <3>3
  <2>4. ASSUME NEW i \in DOMAIN more
        PROVE  \E j \in DOMAIN c.pool :
                  /\ c.pool[j].id \notin got
                  /\ \A k \in DOMAIN more : more[k].id = c.pool[j].id => k >= i
    <3>1. CASE i \in DOMAIN fly
      <4>1. PICK j \in DOMAIN c.pool : /\ c.pool[j].id \notin got
                                      /\ \A k \in DOMAIN fly : fly[k].id = c.pool[j].id => k >= i
        BY <1>4, <3>1
      <4>2. last >= i  BY <1>15, <3>1
      <4>3. \A k \in DOMAIN more : more[k].id = c.pool[j].id => k >= i  BY <1>15, <4>1, <4>2
      <4> QED BY <4>1, <4>3
    <3>2. CASE i = last
      <4>1. PICK j \in DOMAIN c.pool : c.pool[j].id = id  BY <1>4 DEF Ids
      <4>2. id \notin got  BY <1>4
      <4>3. last >= last  BY <1>15
      <4>4. \A k \in DOMAIN more : more[k].id = id => k >= last  BY <1>15, <2>2, <4>3
      <4> QED BY <3>2, <4>1, <4>2, <4>4
    <3> QED BY <1>15, <3>1, <3>2
  <2>5. holds = {IdKey(k) : k \in FlyIds(more)}  BY <1>4, <1>16
  <2> QED BY <1>4, <1>5, <1>7, <1>9, <1>13, <2>1, <2>3, <2>4, <2>5 DEF PipeAt
<1>18. WantsAt(label, none, holds)  BY <1>5, <1>12 DEF WantsAt, IsInjective, none
<1>19. Moved(t, label, <<c>>, none, holds, more, q)
  BY <1>1, <1>2, <1>8 DEF Moved, Goto, Same, holds, c
<1>20. (label \in {"first_send", "first_submit"} => c.seen = Ids(c.pool))
       /\ (label \notin {"first_send", "first_submit"} => Good(c))
  BY <1>2, <1>5
<1>21. UNCHANGED <<free, bg, calls>>  BY <1>1
<1> QED BY <1>1, <1>2, <1>3, <1>5, <1>11, <1>12, <1>17, <1>18, <1>19, <1>20, <1>21, PipeMoves

LEMMA PipeSentKeeps ==
    ASSUME SearchIInv, NEW t \in Threads, PipeSent(t)
    PROVE  SearchIInv'
<1> DEFINE c == list[t][1]
           d == IF pc[t] = "send" THEN c ELSE SortPool(c)
           fly == flying[t]
           p == pipe[t]
           none == << >>
           holds == held[t]
           label == IF pc[t] = "send" THEN "calc" ELSE "poll"
           got == DOMAIN p.slotOf
<1>1. /\ pc[t] \in {"send", "first_send"} /\ pc[t] \in PipeLabels /\ pc[t] \notin Submitting
      /\ UNCHANGED <<mix, free, bg, calls, want, held, locks, flying, pipe>> /\ Goto(t, label)
      /\ IF pc[t] = "send" THEN UNCHANGED list ELSE SetList(t, SortPool(c))
  BY DEF PipeSent, PipeLabels, Submitting
<1>2. /\ Here(t) /\ Same(list, t) /\ Same(want, t) /\ Same(held, t) /\ Same(flying, t) /\ Same(pipe, t)
      /\ PipeAt(c, fly, p, pc[t], want[t], holds) /\ want[t] = none
      /\ c \in ListSet /\ ListOK(c) /\ c.kind = "pipe" /\ ~c.dyn /\ list[t] = <<c>>
      /\ (pc[t] \in {"first_send", "first_submit"} => c.seen = Ids(c.pool))
      /\ (pc[t] \notin {"first_send", "first_submit"} => Good(c))
  BY <1>1, HereOK, InPipe
<1>3. LocksInOrder'  BY <1>1, <1>2, LocksStay DEF Here
<1>4. label \in PipeLabels /\ label \notin Submitting /\ label \notin Locking
      /\ label \notin {"first_send", "first_submit"}
  BY <1>1 DEF PipeLabels, Submitting, Locking
<1>5. list' = [list EXCEPT ![t] = <<d>>]
  <2>1. CASE pc[t] = "send"
    <3>1. list = [list EXCEPT ![t] = list[t]]  BY <1>2 DEF Same
    <3> QED BY <1>1, <1>2, <2>1, <3>1
  <2>2. CASE pc[t] # "send"  BY <1>1, <2>2 DEF SetList
  <2> QED BY <2>1, <2>2
<1>6. /\ Good(d) /\ d.kind = c.kind /\ d.dyn = c.dyn /\ d.seen = c.seen
      /\ \A i \in DOMAIN d.pool : \E j \in DOMAIN c.pool : d.pool[i] = c.pool[j]
      /\ \A j \in DOMAIN c.pool : \E i \in DOMAIN d.pool : d.pool[i] = c.pool[j]
  <2>1. CASE pc[t] = "send"
    <3>1. d = c /\ Good(c)  BY <1>2, <2>1
    <3> HIDE DEF d, c
    <3> QED BY <3>1
  <2>2. CASE pc[t] # "send"
    <3>1. c.seen = Ids(c.pool) /\ d = SortPool(c)  BY <1>1, <1>2, <2>2
    <3> HIDE DEF d, c
    <3>2. /\ Good(d) /\ d.seen = Ids(d.pool) /\ d.kind = c.kind /\ d.dyn = c.dyn
          /\ \A i \in DOMAIN d.pool : \E j \in DOMAIN c.pool : d.pool[i] = c.pool[j]
          /\ \A j \in DOMAIN c.pool : \E i \in DOMAIN d.pool : d.pool[i] = c.pool[j]
      <4>1. ListOK(c)  BY <1>2
      <4>2. Good(d) /\ d.seen = Ids(d.pool) /\ d.kind = c.kind /\ d.dyn = c.dyn
        BY <3>1, <4>1, SortKeeps
      <4>3. \A i \in DOMAIN d.pool : \E j \in DOMAIN c.pool : d.pool[i] = c.pool[j]
        BY <3>1, <4>1, SortKeeps
      <4>4. \A j \in DOMAIN c.pool : \E i \in DOMAIN d.pool : d.pool[i] = c.pool[j]
        BY <3>1, <4>1, SortKeeps
      <4> QED BY <4>2, <4>3, <4>4
    <3>3. Ids(d.pool) = Ids(c.pool)
      <4>1. \A i \in DOMAIN d.pool : d.pool[i].id \in Ids(c.pool)
        <5> SUFFICES ASSUME NEW i \in DOMAIN d.pool PROVE d.pool[i].id \in Ids(c.pool)
          OBVIOUS
        <5>1. PICK j \in DOMAIN c.pool : d.pool[i] = c.pool[j]  BY <3>2
        <5> QED BY <5>1 DEF Ids
      <4>2. \A j \in DOMAIN c.pool : c.pool[j].id \in Ids(d.pool)
        <5> SUFFICES ASSUME NEW j \in DOMAIN c.pool PROVE c.pool[j].id \in Ids(d.pool)
          OBVIOUS
        <5>1. PICK i \in DOMAIN d.pool : d.pool[i] = c.pool[j]  BY <3>2
        <5> QED BY <5>1 DEF Ids
      <4> QED BY <4>1, <4>2 DEF Ids
    <3> QED BY <3>1, <3>2, <3>3
  <2> QED BY <2>1, <2>2
<1>7. holds \in SUBSET Keys /\ none \in Seq(Keys) /\ DOMAIN none = {}  BY <1>2 DEF Here
<1> HIDE DEF c, d, fly, p, none, holds, label
<1>8. PipeAt(d, fly, p, label, none, holds)
  <2>1. SentIds(d, fly, label) = FlyIds(fly) /\ SentIds(c, fly, pc[t]) = FlyIds(fly)
    BY <1>1, <1>4 DEF SentIds
  <2>2. /\ fly \in Seq(Reads) /\ p \in RingSet(got)
        /\ got \cup FlyIds(fly) \subseteq c.seen /\ got \cap FlyIds(fly) = {}
        /\ \A j, k \in DOMAIN fly : fly[j].id = fly[k].id => j = k
        /\ \A j \in DOMAIN c.pool :
              /\ c.pool[j].flag => c.pool[j].id \notin FlyIds(fly)
              /\ ~c.pool[j].flag => c.pool[j].id \in got \cup FlyIds(fly)
              /\ c.pool[j].done => c.pool[j].id \in got
        /\ \A i \in DOMAIN fly : \E j \in DOMAIN c.pool :
              /\ c.pool[j].id \notin got
              /\ \A k \in DOMAIN fly : fly[k].id = c.pool[j].id => k >= i
        /\ holds = {IdKey(n) : n \in FlyIds(fly)}
    BY <1>1, <1>2, <2>1 DEF PipeAt
  <2>3. ASSUME NEW i \in DOMAIN d.pool
        PROVE /\ d.pool[i].flag => d.pool[i].id \notin FlyIds(fly)
              /\ ~d.pool[i].flag => d.pool[i].id \in got \cup FlyIds(fly)
              /\ d.pool[i].done => d.pool[i].id \in got
    <3>1. PICK j \in DOMAIN c.pool : d.pool[i] = c.pool[j]  BY <1>6
    <3> QED BY <2>2, <3>1
  <2>4. ASSUME NEW i \in DOMAIN fly
        PROVE \E j \in DOMAIN d.pool :
              /\ d.pool[j].id \notin got
              /\ \A k \in DOMAIN fly : fly[k].id = d.pool[j].id => k >= i
    <3>1. PICK j \in DOMAIN c.pool : /\ c.pool[j].id \notin got
                                    /\ \A k \in DOMAIN fly : fly[k].id = c.pool[j].id => k >= i
      BY <2>2
    <3>2. PICK l \in DOMAIN d.pool : d.pool[l] = c.pool[j]  BY <1>6
    <3> QED BY <3>1, <3>2
  <2> QED BY <1>4, <1>6, <2>1, <2>2, <2>3, <2>4 DEF PipeAt
<1>9. WantsAt(label, none, holds)  BY <1>4, <1>7 DEF WantsAt, IsInjective, none
<1>10. Moved(t, label, <<d>>, none, holds, fly, p)
  BY <1>1, <1>2, <1>5 DEF Moved, Goto, Same, holds, fly, p
<1>11. ListOK(d) /\ d.kind = "pipe" /\ ~d.dyn /\ UNCHANGED <<free, bg, calls>>
  BY <1>1, <1>2, <1>6 DEF Good
<1> QED BY <1>1, <1>3, <1>4, <1>6, <1>7, <1>8, <1>9, <1>10, <1>11, PipeMoves

(* What is harvested is what stands first, up to a read that has not finished. *)
LEMMA HarvestFirst ==
    ASSUME NEW t, flying[t] \in Seq(Reads)
    PROVE  \E m \in 0 .. Len(flying[t]) :
              Harvest(t) = SubSeq(flying[t], 1, m) /\ \A i \in 1 .. m : flying[t][i].fin
<1> DEFINE fly == flying[t]
           N == Len(fly)
           prefix == {n \in 0 .. N : \A i \in 1 .. n : fly[i].fin}
           m == CHOOSE n \in prefix : \A k \in prefix : k <= n
           T == {k \in 0 .. N : N - k \in prefix}
<1>1. N \in Nat  BY LenProperties
<1>2. 0 \in prefix  BY <1>1
<1>3. Harvest(t) = SubSeq(fly, 1, m)  BY DEF Harvest
<1>4. prefix \subseteq 0 .. N  OBVIOUS
<1> HIDE DEF prefix, fly, N, m
<1>5. \E n \in prefix : \A k \in prefix : k <= n
  <2>1. N - N = 0 /\ N \in 0 .. N  BY <1>1
  <2>2. N \in T  BY <1>2, <2>1
  <2>3. T \in SUBSET Nat  BY <1>1
  <2>4. PICK k \in T : \A j \in T : k <= j
    <3> HIDE DEF T
    <3> QED BY <2>2, <2>3, LeastNatural
  <2>5. k \in 0 .. N /\ N - k \in prefix  BY <2>4
  <2>6. ASSUME NEW n \in prefix PROVE n <= N - k
    <3>1. n \in 0 .. N  BY <1>4
    <3>2. N - n \in 0 .. N /\ N - (N - n) = n  BY <1>1, <3>1
    <3>3. N - n \in T  BY <3>2
    <3>4. k <= N - n  BY <2>4, <3>3
    <3> QED BY <1>1, <2>5, <3>1, <3>4
  <2> QED BY <2>5, <2>6
<1>6. m \in prefix  BY <1>5 DEF m
<1>7. m \in 0 .. N /\ \A i \in 1 .. m : fly[i].fin  BY <1>6 DEF prefix
<1> QED BY <1>3, <1>7 DEF fly, N

LEMMA PipePollKeeps ==
    ASSUME SearchIInv, NEW t \in Threads, PipePoll(t)
    PROVE  SearchIInv'
<1> DEFINE c == list[t][1]
           fly == flying[t]
           p == pipe[t]
           in == Harvest(t)
           rest == SubSeq(fly, Len(in) + 1, Len(fly))
           keys == {IdKey(in[i].id) : i \in DOMAIN in}
           none == << >>
           holds == held[t] \ keys
           got == DOMAIN p.slotOf
           inIds == {in[i].id : i \in DOMAIN in}
           slots == [id \in got \cup inIds |->
                        IF id \in got THEN p.slotOf[id]
                        ELSE in[CHOOSE i \in DOMAIN in : in[i].id = id].slot]
<1>1. /\ pc[t] = "poll" /\ pc[t] \in PipeLabels /\ pc[t] \notin Submitting
      /\ "send" \in PipeLabels /\ "send" \notin Submitting /\ "send" \notin Locking
  BY DEF PipePoll, PipeLabels, Submitting, Locking
<1>2. /\ flying' = [flying EXCEPT ![t] = rest]
      /\ locks' = Unlocked(keys)
      /\ held' = [held EXCEPT ![t] = held[t] \ keys]
      /\ Goto(t, "send")
      /\ UNCHANGED <<mix, free, bg, calls, list, want>>
  BY Zenon DEF PipePoll
<1>3. \E width \in {pipe[t].width, pipe[t].width + 1} :
         pipe' = [pipe EXCEPT
                    ![t].slotOf = [id \in DOMAIN @ \union {in[i].id : i \in DOMAIN in} |->
                        IF id \in DOMAIN @ THEN @[id]
                        ELSE in[CHOOSE i \in DOMAIN in : in[i].id = id].slot],
                    ![t].width = width,
                    ![t].quota = IF Len(rest) < width THEN 1 ELSE 0]
  BY DEF PipePoll
<1>4. PICK width \in {pipe[t].width, pipe[t].width + 1} :
         pipe' = [pipe EXCEPT
                    ![t].slotOf = [id \in DOMAIN @ \union {in[i].id : i \in DOMAIN in} |->
                        IF id \in DOMAIN @ THEN @[id]
                        ELSE in[CHOOSE i \in DOMAIN in : in[i].id = id].slot],
                    ![t].width = width,
                    ![t].quota = IF Len(rest) < width THEN 1 ELSE 0]
  BY <1>3
<1> DEFINE q == [p EXCEPT !.slotOf = slots, !.width = width,
                          !.quota = IF Len(rest) < width THEN 1 ELSE 0]
<1>5. /\ Here(t) /\ Same(list, t) /\ Same(want, t) /\ Same(pipe, t)
      /\ PipeAt(c, fly, p, pc[t], want[t], held[t]) /\ want[t] = none
      /\ c \in ListSet /\ ListOK(c) /\ c.kind = "pipe" /\ ~c.dyn /\ list[t] = <<c>> /\ Good(c)
  BY <1>1, HereOK, InPipe
<1>6. pipe' = [pipe EXCEPT ![t] = q]
  <2>1. pipe = [pipe EXCEPT ![t] = pipe[t]]  BY <1>5 DEF Same
  <2> HIDE DEF in, rest
  <2> QED BY <1>4, <2>1
<1> HIDE DEF c
<1>7. /\ fly \in Seq(Reads) /\ p \in RingSet(got)
      /\ got \cup FlyIds(fly) \subseteq c.seen /\ got \cap FlyIds(fly) = {}
      /\ \A j, k \in DOMAIN fly : fly[j].id = fly[k].id => j = k
      /\ \A j \in DOMAIN c.pool :
            /\ c.pool[j].flag => c.pool[j].id \notin FlyIds(fly)
            /\ ~c.pool[j].flag => c.pool[j].id \in got \cup FlyIds(fly)
            /\ c.pool[j].done => c.pool[j].id \in got
      /\ \A i \in DOMAIN fly : \E j \in DOMAIN c.pool :
            /\ c.pool[j].id \notin got
            /\ \A k \in DOMAIN fly : fly[k].id = c.pool[j].id => k >= i
      /\ held[t] = {IdKey(n) : n \in FlyIds(fly)}
  <2>1. SentIds(c, fly, pc[t]) = FlyIds(fly)  BY <1>1 DEF SentIds
  <2> HIDE DEF fly, p, got
  <2> QED BY <1>1, <1>5, <2>1 DEF PipeAt, got
<1> DEFINE N == Len(fly)
<1>8. PICK m \in 0 .. N : in = SubSeq(fly, 1, m)  BY <1>7, HarvestFirst
<1> HIDE DEF fly, in
<1>9. /\ N \in Nat /\ DOMAIN fly = 1 .. N
      /\ in \in Seq(Reads) /\ Len(in) = m /\ DOMAIN in = 1 .. m /\ \A i \in 1 .. m : in[i] = fly[i]
  <2>1. N \in Nat /\ DOMAIN fly = 1 .. N  BY <1>7, LenProperties
  <2> QED BY <1>7, <1>8, <2>1, FirstOnes
<1>10. /\ rest \in Seq(Reads) /\ Len(rest) = N - m /\ DOMAIN rest = 1 .. N - m
       /\ \A i \in 1 .. N - m : rest[i] = fly[m + i]
  <2>1. rest = SubSeq(fly, m + 1, Len(fly))  BY <1>9
  <2> HIDE DEF rest
  <2> QED BY <1>7, <2>1, RestOnes
<1> HIDE DEF p, got, rest, q, holds, inIds, slots, keys, none, N
<1>11. /\ \A i \in DOMAIN in : i \in DOMAIN fly /\ i <= m /\ in[i].id = fly[i].id
       /\ \A i \in DOMAIN fly : i <= m => i \in DOMAIN in
       /\ DOMAIN fly \subseteq Int /\ m \in Int
  BY <1>9
<1> DEFINE at == [i \in DOMAIN rest |-> m + i]
<1>12. /\ \A i \in DOMAIN rest : at[i] \in DOMAIN fly /\ at[i] > m /\ rest[i].id = fly[at[i]].id
       /\ \A i, j \in DOMAIN rest : (at[j] >= at[i] => j >= i) /\ (at[i] = at[j] => i = j)
       /\ \A k \in DOMAIN fly : k > m => \E i \in DOMAIN rest : at[i] = k
  <2>1. \A i \in DOMAIN rest : at[i] \in DOMAIN fly /\ at[i] > m /\ rest[i].id = fly[at[i]].id
    BY <1>9, <1>10
  <2>2. \A i, j \in DOMAIN rest : (at[j] >= at[i] => j >= i) /\ (at[i] = at[j] => i = j)
    BY <1>9, <1>10
  <2>3. ASSUME NEW k \in DOMAIN fly, k > m PROVE \E i \in DOMAIN rest : at[i] = k
    <3>1. k - m \in 1 .. N - m /\ m + (k - m) = k  BY <1>9, <2>3
    <3> QED BY <1>10, <3>1
  <2> QED BY <2>1, <2>2, <2>3
<1> HIDE DEF at
<1>13. FlyIds(fly) = inIds \cup FlyIds(rest) /\ inIds \cap FlyIds(rest) = {}
  <2>1. ASSUME NEW k \in DOMAIN fly PROVE fly[k].id \in inIds \cup FlyIds(rest)
    <3>1. CASE k <= m  BY <1>11, <3>1 DEF inIds
    <3>2. CASE k > m
      <4>1. PICK i \in DOMAIN rest : at[i] = k  BY <1>12, <3>2
      <4> QED BY <1>12, <4>1 DEF FlyIds
    <3> QED BY <1>11, <3>1, <3>2
  <2>2. inIds \subseteq FlyIds(fly)  BY <1>11 DEF inIds, FlyIds
  <2>3. FlyIds(rest) \subseteq FlyIds(fly)  BY <1>12 DEF FlyIds
  <2>4. ASSUME NEW i \in DOMAIN in, NEW j \in DOMAIN rest, in[i].id = rest[j].id PROVE FALSE
    <3>1. i = at[j]  BY <1>7, <1>11, <1>12, <2>4
    <3>2. i <= m /\ at[j] > m /\ i \in Int  BY <1>11, <1>12
    <3> QED BY <1>11, <3>1, <3>2
  <2> QED BY <2>1, <2>2, <2>3, <2>4 DEF inIds, FlyIds
<1>14. slots \in [got \cup inIds -> 0 .. MaxReads - 1]
  <2> SUFFICES ASSUME NEW n \in got \cup inIds
               PROVE  (IF n \in got THEN p.slotOf[n]
                       ELSE in[CHOOSE i \in DOMAIN in : in[i].id = n].slot) \in 0 .. MaxReads - 1
    BY DEF slots
  <2>1. CASE n \in got
    <3>1. p.slotOf \in [got -> 0 .. MaxReads - 1]  BY <1>7 DEF RingSet
    <3> QED BY <2>1, <3>1
  <2>2. CASE n \notin got
    <3> DEFINE i == CHOOSE i \in DOMAIN in : in[i].id = n
    <3>1. \E j \in DOMAIN in : in[j].id = n  BY <2>2 DEF inIds
    <3>2. i \in DOMAIN in  BY <3>1
    <3> HIDE DEF i
    <3>3. in[i] \in Reads  BY <1>9, <3>2, ElementOfSeq
    <3>4. in[i].slot \in 0 .. MaxReads - 1  BY <3>3 DEF Reads
    <3> QED BY <2>2, <3>4 DEF i
  <2> QED BY <2>1, <2>2
<1>15. q \in RingSet(got \cup inIds) /\ DOMAIN q.slotOf = got \cup inIds
  <2> DEFINE quota == IF Len(rest) < width THEN 1 ELSE 0
  <2>1. width \in Nat /\ quota \in Int
    <3>1. p.width \in Nat  BY <1>7 DEF RingSet
    <3> QED BY <3>1 DEF p
  <2>2. q = [p EXCEPT !.slotOf = slots, !.width = width, !.quota = quota]  BY DEF q
  <2> HIDE DEF quota
  <2>3. q \in RingSet(got \cup inIds) /\ q.slotOf = slots  BY <1>7, <1>14, <2>1, <2>2 DEF RingSet
  <2> QED BY <1>14, <2>3
<1>16. keys = {IdKey(n) : n \in inIds}  BY DEF keys, inIds
<1>17. keys \subseteq held[t] /\ holds = {IdKey(n) : n \in FlyIds(rest)} /\ holds \in SUBSET Keys
  <2>1. keys \subseteq held[t]  BY <1>7, <1>13, <1>16
  <2>2. \A n, k : IdKey(n) = IdKey(k) => n = k  BY DEF IdKey
  <2>3. holds = {IdKey(n) : n \in FlyIds(rest)}  BY <1>7, <1>13, <1>16, <2>2 DEF holds
  <2>4. holds \in SUBSET Keys  BY <1>5 DEF Here, holds
  <2> QED BY <2>1, <2>3, <2>4
<1>18. LocksInOrder'
  <2>1. TypesOK /\ LocksInOrder  BY <1>5 DEF Here
  <2> QED BY <1>2, <1>17, <2>1, UnlockKeeps
<1>19. PipeAt(c, rest, q, "send", none, holds)
  <2>1. SentIds(c, rest, "send") = FlyIds(rest)  BY <1>1 DEF SentIds
  <2>2. \A j, k \in DOMAIN rest : rest[j].id = rest[k].id => j = k
    <3> SUFFICES ASSUME NEW j \in DOMAIN rest, NEW k \in DOMAIN rest, rest[j].id = rest[k].id
                 PROVE  j = k
      OBVIOUS
    <3>1. at[j] \in DOMAIN fly /\ at[k] \in DOMAIN fly /\ fly[at[j]].id = fly[at[k]].id  BY <1>12
    <3>2. at[j] = at[k]  BY <1>7, <3>1
    <3> QED BY <1>12, <3>2
  <2>3. ASSUME NEW i \in DOMAIN rest
        PROVE \E j \in DOMAIN c.pool :
              /\ c.pool[j].id \notin got \cup inIds
              /\ \A k \in DOMAIN rest : rest[k].id = c.pool[j].id => k >= i
    <3>1. at[i] \in DOMAIN fly /\ at[i] > m  BY <1>12
    <3>2. PICK j \in DOMAIN c.pool : /\ c.pool[j].id \notin got
                                    /\ \A k \in DOMAIN fly : fly[k].id = c.pool[j].id => k >= at[i]
      BY <1>7, <3>1
    <3>3. c.pool[j].id \notin inIds
      <4> SUFFICES ASSUME NEW k \in DOMAIN in, in[k].id = c.pool[j].id PROVE FALSE
        BY DEF inIds
      <4>1. k \in DOMAIN fly /\ fly[k].id = c.pool[j].id /\ k <= m  BY <1>11
      <4>2. k >= at[i]  BY <3>2, <4>1
      <4> QED BY <1>11, <3>1, <4>1, <4>2
    <3>4. ASSUME NEW k \in DOMAIN rest, rest[k].id = c.pool[j].id PROVE k >= i
      <4>1. at[k] \in DOMAIN fly /\ fly[at[k]].id = c.pool[j].id  BY <1>12, <3>4
      <4>2. at[k] >= at[i]  BY <3>2, <4>1
      <4> QED BY <1>12, <4>2
    <3> QED BY <3>2, <3>3, <3>4
  <2>4. /\ (got \cup inIds) \cup FlyIds(rest) \subseteq c.seen
        /\ (got \cup inIds) \cap FlyIds(rest) = {}
    BY <1>7, <1>13
  <2>5. \A j \in DOMAIN c.pool :
            /\ c.pool[j].flag => c.pool[j].id \notin FlyIds(rest)
            /\ ~c.pool[j].flag => c.pool[j].id \in (got \cup inIds) \cup FlyIds(rest)
            /\ c.pool[j].done => c.pool[j].id \in got \cup inIds
    BY <1>7, <1>13
  <2> QED BY <1>1, <1>10, <1>15, <1>17, <2>1, <2>2, <2>3, <2>4, <2>5 DEF PipeAt
<1>20. none \in Seq(Keys) /\ WantsAt("send", none, holds)
  BY <1>1 DEF WantsAt, IsInjective, none
<1>21. Moved(t, "send", <<c>>, none, holds, rest, q)
  BY <1>2, <1>5, <1>6 DEF Moved, Goto, Same, holds
<1>22. UNCHANGED <<free, bg, calls>> /\ "send" \notin {"first_send", "first_submit"}  BY <1>2
<1> QED BY <1>1, <1>5, <1>17, <1>18, <1>19, <1>20, <1>21, <1>22, PipeMoves

LEMMA PipeCalcKeeps ==
    ASSUME SearchIInv, NEW t \in Threads, PipeCalc(t)
    PROVE  SearchIInv'
<1> DEFINE c == list[t][1]
           fly == flying[t]
           p == pipe[t]
           none == << >>
           holds == held[t]
           got == DOMAIN p.slotOf
           ready == {i \in DOMAIN c.pool : ~c.pool[i].done /\ c.pool[i].id \in got}
           i == First(ready)
           id == c.pool[i].id
           page == p.onPage[p.slotOf[id]]
           b == [c EXCEPT !.pool[i] = [@ EXCEPT !.flag = FALSE, !.done = TRUE]]
           d == Expand(b, id, page)
<1>1. /\ pc[t] = "calc" /\ pc[t] \in PipeLabels /\ pc[t] \notin Submitting
      /\ "poll" \in PipeLabels /\ "poll" \notin Submitting /\ "poll" \notin Locking
  BY DEF PipeCalc, PipeLabels, Submitting, Locking
<1>2. /\ IF ready = {} THEN UNCHANGED list ELSE SetList(t, d)
      /\ Goto(t, "poll")
      /\ UNCHANGED <<mix, free, bg, calls, want, held, locks, flying, pipe>>
  BY Zenon DEF PipeCalc
<1>3. /\ Here(t) /\ Same(list, t) /\ Same(want, t) /\ Same(held, t) /\ Same(flying, t) /\ Same(pipe, t)
      /\ PipeAt(c, fly, p, pc[t], want[t], holds) /\ want[t] = none
      /\ c \in ListSet /\ ListOK(c) /\ c.kind = "pipe" /\ ~c.dyn /\ list[t] = <<c>> /\ Good(c)
  BY <1>1, HereOK, InPipe
<1>4. LocksInOrder'  BY <1>2, <1>3, LocksStay DEF Here
<1>5. /\ fly \in Seq(Reads) /\ p \in RingSet(got)
      /\ got \cup FlyIds(fly) \subseteq c.seen /\ got \cap FlyIds(fly) = {}
      /\ \A j, k \in DOMAIN fly : fly[j].id = fly[k].id => j = k
      /\ \A j \in DOMAIN c.pool :
            /\ c.pool[j].flag => c.pool[j].id \notin FlyIds(fly)
            /\ ~c.pool[j].flag => c.pool[j].id \in got \cup FlyIds(fly)
            /\ c.pool[j].done => c.pool[j].id \in got
      /\ \A k \in DOMAIN fly : \E j \in DOMAIN c.pool :
            /\ c.pool[j].id \notin got
            /\ \A l \in DOMAIN fly : fly[l].id = c.pool[j].id => l >= k
      /\ holds = {IdKey(n) : n \in FlyIds(fly)}
  <2>1. SentIds(c, fly, pc[t]) = FlyIds(fly)  BY <1>1 DEF SentIds
  <2> HIDE DEF c, fly, p, got, holds
  <2> QED BY <1>1, <1>3, <2>1 DEF PipeAt, got
<1>6. holds \in SUBSET Keys /\ none \in Seq(Keys) /\ WantsAt("poll", none, holds)
  <2>1. holds \in SUBSET Keys /\ none \in Seq(Keys) /\ DOMAIN none = {}  BY <1>3 DEF Here
  <2> HIDE DEF holds
  <2> QED BY <1>1, <2>1 DEF WantsAt, IsInjective
<1>7. UNCHANGED <<free, bg, calls>> /\ "poll" \notin {"first_send", "first_submit"}  BY <1>2
<1>8. CASE ready = {}
  <2>1. PipeAt(c, fly, p, "poll", none, holds)
    <3> HIDE DEF c, fly, p, none, holds
    <3> QED BY <1>1, <1>3 DEF PipeAt, SentIds
  <2>2. Moved(t, "poll", <<c>>, none, holds, fly, p)
    <3>1. UNCHANGED list  BY <1>2, <1>8
    <3> HIDE DEF d, ready, i, c
    <3> QED BY <1>2, <1>3, <3>1 DEF Moved, Goto, Same
  <2> HIDE DEF c, fly, p, none, holds
  <2> QED BY <1>1, <1>3, <1>4, <1>6, <1>7, <2>1, <2>2, PipeMoves
<1>9. CASE ready # {}
  <2>1. SetList(t, d)  BY <1>2, <1>9
  <2>2. /\ c.pool \in Seq(EntrySet) /\ DOMAIN c.pool = 1 .. Len(c.pool) /\ Len(c.pool) \in Nat
        /\ \A j \in DOMAIN c.pool : c.pool[j] \in EntrySet /\ c.pool[j].id \in Nodes
    BY <1>3, Fields
  <2>3. i \in DOMAIN c.pool /\ ~c.pool[i].done /\ id \in got
    <3> DEFINE U == ready
    <3>1. U \in SUBSET Nat /\ U # {} /\ i = First(U)  BY <1>9, <2>2
    <3> HIDE DEF U, i, c, got
    <3>2. \E j \in U : \A k \in U : j <= k  BY <3>1, LeastNatural
    <3>3. i \in U  BY <3>1, <3>2 DEF First
    <3> QED BY <3>3 DEF U, id
  <2> HIDE DEF i
  <2>4. page \in Nat
    <3>1. p.slotOf \in [got -> 0 .. MaxReads - 1] /\ p.onPage \in [0 .. MaxReads - 1 -> Nat]
      BY <1>5 DEF RingSet
    <3> HIDE DEF p, got, id
    <3> QED BY <2>3, <3>1 DEF page
  <2> DEFINE e == [c.pool[i] EXCEPT !.flag = FALSE, !.done = TRUE]
             pool == [c.pool EXCEPT ![i] = e]
  <2>5. e \in EntrySet /\ e.id = id /\ ~e.flag
    <3>1. c.pool[i] \in EntrySet  BY <2>2, <2>3
    <3> DEFINE o == c.pool[i]
    <3>2. e = [o EXCEPT !.flag = FALSE, !.done = TRUE] /\ id = o.id /\ o \in EntrySet  BY <3>1
    <3> HIDE DEF o, e, id
    <3> QED BY <3>2 DEF EntrySet
  <2>6. b = [c EXCEPT !.pool = pool]  OBVIOUS
  <2>7. d = Expand(b, id, page) /\ id \in Nodes  BY <2>2, <2>3
  <2> HIDE DEF c, e, b, d, page, p, fly, none, holds, got, id
  <2>8. /\ pool \in Seq(EntrySet) /\ Len(pool) = Len(c.pool) /\ DOMAIN pool = DOMAIN c.pool
        /\ \A j \in DOMAIN c.pool : pool[j] = IF j = i THEN e ELSE c.pool[j]
    BY <2>2, <2>3, <2>5, ExceptSeq
  <2>9. \A j \in DOMAIN c.pool : pool[j].id = c.pool[j].id  BY <2>5, <2>8 DEF id
  <2> HIDE DEF pool
  <2>10. [c EXCEPT !.pool = pool] \in ListSet  BY <1>3, <2>8 DEF ListSet
  <2>11. b \in ListSet  BY <2>6, <2>10
  <2>12. /\ b.kind = c.kind /\ b.dyn = c.dyn /\ b.query = c.query /\ b.L = c.L /\ b.seen = c.seen
         /\ b.pool = pool /\ b.heap = c.heap /\ b.k = c.k /\ b.nk = c.nk
    BY <1>3, <2>6 DEF ListSet
  <2>13. Repicked(c, b)  BY <1>3, <2>8, <2>9, <2>11, <2>12 DEF Repicked, ListOK
  <2>14. Good(b)  BY <1>3, <2>13, RepickedGood DEF Good
  <2>15. d \in From(b)  BY <2>4, <2>7, <2>14, ExpandKeeps
  <2>16. Good(d) /\ Grown(b, d)  BY <2>15, FromGood
  <2>17. d.kind = "pipe" /\ ~d.dyn /\ c.seen \subseteq d.seen /\ ListOK(d)
    BY <1>3, <2>12, <2>16 DEF Grown, Good
  <2>18. \A j \in DOMAIN pool :
            /\ pool[j].flag => pool[j].id \notin FlyIds(fly)
            /\ ~pool[j].flag => pool[j].id \in got \cup FlyIds(fly)
            /\ pool[j].done => pool[j].id \in got
    <3> SUFFICES ASSUME NEW j \in DOMAIN c.pool
                 PROVE  /\ pool[j].flag => pool[j].id \notin FlyIds(fly)
                        /\ ~pool[j].flag => pool[j].id \in got \cup FlyIds(fly)
                        /\ pool[j].done => pool[j].id \in got
      BY <2>8
    <3>1. CASE j = i
      <4>1. pool[j] = e  BY <2>8, <3>1
      <4> QED BY <2>3, <2>5, <4>1
    <3>2. CASE j # i
      <4>1. pool[j] = c.pool[j]  BY <2>8, <3>2
      <4> QED BY <1>5, <4>1
    <3> QED BY <3>1, <3>2
  <2>19. ASSUME NEW j \in DOMAIN d.pool
         PROVE /\ d.pool[j].flag => d.pool[j].id \notin FlyIds(fly)
               /\ ~d.pool[j].flag => d.pool[j].id \in got \cup FlyIds(fly)
               /\ d.pool[j].done => d.pool[j].id \in got
    <3>1. CASE \E k \in DOMAIN pool : d.pool[j] = pool[k]  BY <2>18, <3>1
    <3>2. CASE d.pool[j] = Entry(d.pool[j].id) /\ d.pool[j].id \notin c.seen
      <4> DEFINE n == d.pool[j].id
      <4>1. d.pool[j] = Entry(n) /\ n \notin c.seen  BY <3>2
      <4> HIDE DEF n
      <4>2. d.pool[j].flag /\ ~d.pool[j].done /\ d.pool[j].id = n  BY <4>1 DEF Entry
      <4> QED BY <1>5, <4>1, <4>2
    <3> QED BY <2>12, <2>16, <3>1, <3>2 DEF Grown
  <2>20. ASSUME NEW k \in DOMAIN fly
         PROVE \E j \in DOMAIN d.pool :
                  /\ d.pool[j].id \notin got
                  /\ \A l \in DOMAIN fly : fly[l].id = d.pool[j].id => l >= k
    <3>1. CASE d.pool = pool
      <4>1. PICK j \in DOMAIN c.pool : /\ c.pool[j].id \notin got
                                      /\ \A l \in DOMAIN fly : fly[l].id = c.pool[j].id => l >= k
        BY <1>5
      <4>2. j \in DOMAIN d.pool /\ d.pool[j].id = c.pool[j].id  BY <2>8, <2>9, <3>1
      <4> QED BY <4>1, <4>2
    <3>2. CASE \E j \in DOMAIN d.pool : d.pool[j].id \notin c.seen
      <4>1. PICK j \in DOMAIN d.pool : d.pool[j].id \notin c.seen  BY <3>2
      <4>2. d.pool[j].id \notin got /\ d.pool[j].id \notin FlyIds(fly)  BY <1>5, <4>1
      <4>3. \A l \in DOMAIN fly : fly[l].id # d.pool[j].id  BY <4>2 DEF FlyIds
      <4> QED BY <4>2, <4>3
    <3> QED BY <1>3, <2>12, <2>16, <3>1, <3>2 DEF Grown
  <2>21. PipeAt(d, fly, p, "poll", none, holds)
    <3>1. SentIds(d, fly, "poll") = FlyIds(fly)  BY <1>1 DEF SentIds
    <3>2. got \cup FlyIds(fly) \subseteq d.seen  BY <1>5, <2>17
    <3> QED BY <1>1, <1>5, <2>19, <2>20, <3>1, <3>2 DEF PipeAt, got
  <2>22. Moved(t, "poll", <<d>>, none, holds, fly, p)
    BY <1>2, <1>3, <2>1 DEF Moved, Goto, SetList, Same, holds, fly, p
  <2> QED BY <1>1, <1>4, <1>6, <1>7, <2>16, <2>17, <2>21, <2>22, PipeMoves
<1> QED BY <1>8, <1>9

(* When every entry of a pipe search's list has been expanded, no read is   *)
(* in flight and no lock is held.                                           *)
LEMMA PipeDrains ==
    ASSUME SearchIInv, NEW t \in Threads, PipeEnded(t)
    PROVE  flying[t] = << >> /\ held[t] = {}
<1> DEFINE c == list[t][1]
           fly == flying[t]
           p == pipe[t]
           got == DOMAIN p.slotOf
<1>1. /\ pc[t] \in PipeLabels /\ pc[t] \notin Submitting
      /\ \A i \in DOMAIN c.pool : c.pool[i].done
  BY DEF PipeEnded, AllVisited, PipeLabels, Submitting
<1>2. PipeAt(c, fly, p, pc[t], want[t], held[t])  BY <1>1, InPipe
<1>3. /\ fly \in Seq(Reads)
      /\ \A j \in DOMAIN c.pool : c.pool[j].done => c.pool[j].id \in got
      /\ \A i \in DOMAIN fly : \E j \in DOMAIN c.pool : c.pool[j].id \notin got
      /\ held[t] = {IdKey(n) : n \in FlyIds(fly)}
  <2> HIDE DEF c, fly, p, got
  <2> QED BY <1>1, <1>2 DEF PipeAt, got
<1> HIDE DEF c, fly, got
<1>4. DOMAIN fly = {}  BY <1>1, <1>3
<1>5. fly = << >>
  <2>1. DOMAIN fly = 1 .. Len(fly) /\ Len(fly) \in Nat  BY <1>3, LenProperties
  <2>2. Len(fly) = 0  BY <1>4, <2>1
  <2> QED BY <1>3, <2>2, EmptySeq
<1>6. held[t] = {}  BY <1>3, <1>4 DEF FlyIds
<1> QED BY <1>5, <1>6 DEF fly

LEMMA EndPipeKeeps ==
    ASSUME SearchIInv, NEW t \in Threads, EndPipe(t)
    PROVE  SearchIInv'
<1> DEFINE p == NoPipe
<1>1. pc[t] \in PipeLabels /\ pc[t] \notin Submitting /\ pc[t] # "idle" /\ PipeEnded(t)
  BY DEF EndPipe, PipeEnded, PipeLabels, Submitting
<1>2. Here(t) /\ Same(want, t) /\ Same(held, t) /\ want[t] = << >> /\ list[t][1].kind = "pipe"
  BY <1>1, HereOK, InPipe
<1>3. held[t] = {}  BY <1>1, PipeDrains
<1>4. LocksInOrder'  BY <1>2, LocksStay DEF Here, EndPipe
<1>5. Moved(t, "idle", << >>, << >>, {}, << >>, p)
  <2> HIDE DEF p
  <2> QED BY <1>2, <1>3 DEF Moved, EndPipe, Goto, Same, p
<1>6. Accounts(t, "idle", << >>)
  BY <1>1, <1>2 DEF Here, Accounts, Busy, Cost, EndPipe
<1> HIDE DEF p
<1> QED BY <1>4, <1>5, <1>6, CallEnds

(* The next batch of a query of coro_search. *)
LEMMA IssueKeeps ==
    ASSUME NEW c, Good(c), NEW x, x = Issue(c)
    PROVE  Good(x) /\ x \in ListSet /\ x.kind = c.kind
<1>1. ListOK(c) /\ c \in ListSet  BY DEF Good, ListOK
<1>2. Repicked(c, x)
  <2>1. CASE SearchEnds(c)
    <3>1. x = [c EXCEPT !.front = << >>]  BY <2>1 DEF Issue
    <3>2. << >> \in Seq(Nodes)  OBVIOUS
    <3>3. [c EXCEPT !.front = << >>] \in ListSet  BY <1>1, <3>2 DEF ListSet
    <3>4. x \in ListSet  BY <3>1, <3>3
    <3>5. /\ x.kind = c.kind /\ x.dyn = c.dyn /\ x.query = c.query /\ x.L = c.L /\ x.seen = c.seen
          /\ x.pool = c.pool /\ x.heap = c.heap /\ x.k = c.k /\ x.nk = c.nk
      BY <1>1, <3>1 DEF ListSet
    <3> QED BY <1>1, <3>4, <3>5 DEF Repicked, ListOK
  <2>2. CASE ~SearchEnds(c)
    <3>1. x = PickBeam(c)  BY <2>2 DEF Issue
    <3> QED BY <1>1, <3>1, PickBeamKeeps
  <2> QED BY <2>1, <2>2
<1> QED BY <1>1, <1>2, RepickedGood DEF Good, Repicked

(* A coro_search's step, with its lists and its reads. *)
LEMMA CoroMoves ==
    ASSUME SearchIInv, NEW t \in Threads, NEW lists \in Seq(ListSet), Len(lists) = NCoros,
           lists[1].kind = "coro", \A i \in DOMAIN lists : Good(lists[i]),
           NEW fly, NEW p, Moved(t, "coro", lists, << >>, {}, fly, p),
           LocksInOrder', Accounts(t, "coro", lists)
    PROVE  SearchIInv'
<1> DEFINE label == "coro"
           none == << >>
<1>1. /\ label \in Labels /\ label \notin PipeLabels /\ label \notin RoundLabels
      /\ label \notin Locking /\ label \notin {"first_send", "first_submit", "idle", "pop"}
      /\ label = "coro"
  BY DEF Labels, PipeLabels, RoundLabels, Locking, Submitting
<1>2. none \in Seq(Keys) /\ DOMAIN none = {} /\ {} \in SUBSET Keys /\ none = << >>  OBVIOUS
<1>4. Moved(t, label, lists, none, {}, fly, p) /\ Accounts(t, label, lists)  OBVIOUS
<1> HIDE DEF label, none
<1>5. ListsAt(label, lists)  BY <1>1 DEF ListsAt
<1>6. WantsAt(label, none, {})  BY <1>2 DEF WantsAt, IsInjective
<1>7. InOrderAt(label, lists, none, {}, fly, p)
  BY <1>1, <1>5, <1>6 DEF InOrderAt, FlyingAt
<1> QED BY <1>1, <1>2, <1>4, <1>7, StepKeeps

LEMMA BeginCoroKeeps ==
    ASSUME SearchIInv, NEW t \in Threads, BeginCoro(t)
    PROVE  SearchIInv'
<1> DEFINE label == "coro"
           none == << >>
           p == pipe[t]
<1>1. /\ pc[t] = "idle" /\ calls < MaxCalls /\ PopBuffer /\ calls' = calls + 1
      /\ UNCHANGED <<mix, bg, want, held, locks, pipe>> /\ Goto(t, "coro")
  BY DEF BeginCoro
<1>2. Here(t) /\ Same(want, t) /\ Same(held, t) /\ Same(pipe, t)  BY HereOK
<1>3. want[t] = << >> /\ held[t] = {}
  BY <1>1, <1>2 DEF Here, WantsAt, Locking, Submitting, PipeLabels
<1>4. LocksInOrder'  BY <1>1, <1>2, LocksStay DEF Here
<1>5. PICK query \in [1 .. NCoros -> Queries], entries \in Entries \cup {<<Medoid>>} :
          \E new \in {[i \in 1 .. NCoros |-> NewList("coro", FALSE, query[i], entries)]} :
          \E sorted \in {[i \in 1 .. NCoros |-> SortPool(new[i])]} :
          \E cs \in {[i \in 1 .. NCoros |-> Issue(sorted[i])]} :
              /\ list' = [list EXCEPT ![t] = cs]
              /\ flying' = [flying EXCEPT ![t] =
                              FlattenSeq([i \in DOMAIN cs |-> Batch(cs[i], i)])]
  BY DEF BeginCoro
<1> DEFINE new == [i \in 1 .. NCoros |-> NewList("coro", FALSE, query[i], entries)]
           sorted == [i \in 1 .. NCoros |-> SortPool(new[i])]
           cs == [i \in 1 .. NCoros |-> Issue(sorted[i])]
           fly == FlattenSeq([i \in DOMAIN cs |-> Batch(cs[i], i)])
<1>6. list' = [list EXCEPT ![t] = cs] /\ flying' = [flying EXCEPT ![t] = fly]
  <2> DEFINE Sent(issued) ==
                 /\ list' = [list EXCEPT ![t] = issued]
                 /\ flying' = [flying EXCEPT ![t] =
                                 FlattenSeq([i \in DOMAIN issued |-> Batch(issued[i], i)])]
             SortedOf(news) == [i \in 1 .. NCoros |-> SortPool(news[i])]
             IssuedOf(sorts) == [i \in 1 .. NCoros |-> Issue(sorts[i])]
  <2>1. \E news \in {new} : \E sorts \in {SortedOf(news)} : \E issued \in {IssuedOf(sorts)} : Sent(issued)
    BY <1>5
  <2>2. cs = IssuedOf(SortedOf(new))  OBVIOUS
  <2> HIDE DEF Sent, SortedOf, IssuedOf, cs, sorted, new
  <2>3. Sent(cs)  BY <2>1, <2>2
  <2> QED BY <2>3 DEF Sent
<1>7. ASSUME NEW i \in 1 .. NCoros
      PROVE  Good(cs[i]) /\ cs[i] \in ListSet /\ cs[i].kind = "coro"
  <2> DEFINE kind == "coro"
             dyn == FALSE
             q == query[i]
             c == SortPool(NewList(kind, dyn, q, entries))
  <2>1. kind \in Kinds /\ dyn \in BOOLEAN /\ q \in Queries
        /\ c = SortPool(NewList(kind, dyn, q, entries))
    BY DEF Kinds
  <2>2. sorted[i] = c /\ cs[i] = Issue(c) /\ kind = "coro"  OBVIOUS
  <2> HIDE DEF kind, dyn, q, c, cs, sorted, new
  <2>3. Good(c) /\ c.kind = kind  BY <2>1, FirstList
  <2>4. Good(cs[i]) /\ cs[i] \in ListSet /\ cs[i].kind = c.kind  BY <2>2, <2>3, IssueKeeps
  <2> QED BY <2>2, <2>3, <2>4
<1>8. cs \in [1 .. NCoros -> ListSet]
  <2>1. cs = [i \in 1 .. NCoros |-> cs[i]]  OBVIOUS
  <2> HIDE DEF cs
  <2> QED BY <1>7, <2>1
<1> HIDE DEF cs, fly, new, sorted, p
<1>9. NCoros \in Nat /\ 1 \in 1 .. NCoros  BY SearchAssumption
<1>10. cs \in Seq(ListSet) /\ Len(cs) = NCoros /\ DOMAIN cs = 1 .. NCoros  BY <1>8, <1>9, AsSequence
<1>11. Moved(t, "coro", cs, << >>, {}, fly, p)
  BY <1>1, <1>2, <1>3, <1>6 DEF Moved, Goto, Same, p
<1>12. Accounts(t, "coro", cs)
  <2> DEFINE at == "coro"
  <2>1. Cost(at, cs) = 1 /\ Cost(pc[t], list[t]) = 0 /\ Busy(t) = 0 /\ at # "idle"
    BY <1>1, <1>7, <1>9 DEF Cost, Busy
  <2>2. MaxCalls \in Nat  BY SearchAssumption
  <2> HIDE DEF at
  <2>3. Accounts(t, at, cs)  BY <1>1, <1>2, <2>1, <2>2 DEF Here, Accounts, PopBuffer
  <2> QED BY <2>3 DEF at
<1>13. cs[1].kind = "coro" /\ \A i \in DOMAIN cs : Good(cs[i])  BY <1>7, <1>9, <1>10
<1> QED BY <1>4, <1>10, <1>11, <1>12, <1>13, CoroMoves

(* What the invariant says of a coro_search. *)
LEMMA InCoro ==
    ASSUME SearchIInv, NEW t \in Threads, pc[t] = "coro"
    PROVE  /\ list[t] \in Seq(ListSet) /\ Len(list[t]) = NCoros /\ DOMAIN list[t] = 1 .. NCoros
           /\ list[t][1].kind = "coro" /\ want[t] = << >> /\ held[t] = {}
           /\ \A i \in DOMAIN list[t] : Good(list[t][i])
<1>1. Here(t)  BY HereOK
<1>2. pc[t] \notin {"idle", "first_send", "first_submit"} /\ pc[t] \notin Locking \cup PipeLabels
  BY DEF Locking, Submitting, PipeLabels
<1>3. list[t] \in Seq(ListSet) /\ Len(list[t]) = NCoros /\ list[t][1].kind = "coro"
      /\ \A i \in DOMAIN list[t] : Good(list[t][i])
  BY <1>1, <1>2 DEF Here, ListsAt
<1>4. DOMAIN list[t] = 1 .. NCoros  BY <1>3, LenProperties
<1>5. want[t] = << >> /\ held[t] = {}  BY <1>1, <1>2 DEF Here, WantsAt
<1> QED BY <1>3, <1>4, <1>5

LEMMA EndCoroKeeps ==
    ASSUME SearchIInv, NEW t \in Threads, EndCoro(t)
    PROVE  SearchIInv'
<1> DEFINE p == pipe[t]
<1>1. pc[t] = "coro"  BY DEF EndCoro, CoroEnded
<1>2. Here(t) /\ Same(want, t) /\ Same(held, t) /\ Same(pipe, t)  BY HereOK
<1>3. want[t] = << >> /\ held[t] = {} /\ list[t][1].kind = "coro"  BY <1>1, InCoro
<1>4. LocksInOrder'  BY <1>2, LocksStay DEF Here, EndCoro
<1> HIDE DEF p
<1>5. Moved(t, "idle", << >>, << >>, {}, << >>, p)
  BY <1>2, <1>3 DEF Moved, EndCoro, Goto, Same, p
<1>6. Accounts(t, "idle", << >>)
  BY <1>1, <1>2, <1>3 DEF Here, Accounts, Busy, Cost, EndCoro
<1> QED BY <1>4, <1>5, <1>6, CallEnds

LEMMA StepCoroKeeps ==
    ASSUME SearchIInv, NEW t \in Threads, StepCoro(t)
    PROVE  SearchIInv'
<1> DEFINE p == pipe[t]
           had == list[t]
<1>1. pc[t] = "coro" /\ UNCHANGED <<mix, free, bg, calls, pc, want, held, locks, pipe>>
  BY DEF StepCoro
<1>2. Here(t) /\ Same(pc, t) /\ Same(want, t) /\ Same(held, t) /\ Same(pipe, t)  BY HereOK
<1>3. /\ had \in Seq(ListSet) /\ Len(had) = NCoros /\ DOMAIN had = 1 .. NCoros
      /\ had[1].kind = "coro" /\ want[t] = << >> /\ held[t] = {}
      /\ \A i \in DOMAIN had : Good(had[i])
  BY <1>1, InCoro
<1>4. LocksInOrder'  BY <1>1, <1>2, LocksStay DEF Here
<1>5. PICK i \in 1 .. NCoros :
        \E explored \in {Explore(list[t][i])} : \E c \in {Issue(explored)} :
           /\ list' = [list EXCEPT ![t][i] = c]
           /\ flying' = [flying EXCEPT ![t] =
                            SelectSeq(@, LAMBDA io : io.slot # i) \o Batch(c, i)]
  BY DEF StepCoro
<1>6. PICK explored \in {Explore(list[t][i])} : \E c \in {Issue(explored)} :
           /\ list' = [list EXCEPT ![t][i] = c]
           /\ flying' = [flying EXCEPT ![t] =
                            SelectSeq(@, LAMBDA io : io.slot # i) \o Batch(c, i)]
  BY <1>5
<1>7. PICK c \in {Issue(explored)} :
           /\ list' = [list EXCEPT ![t][i] = c]
           /\ flying' = [flying EXCEPT ![t] =
                            SelectSeq(@, LAMBDA io : io.slot # i) \o Batch(c, i)]
  BY <1>6
<1> DEFINE fly == SelectSeq(flying[t], LAMBDA io : io.slot # i) \o Batch(c, i)
           old == had[i]
           lists == [had EXCEPT ![i] = c]
<1>8. explored = Explore(old) /\ c = Issue(explored)  OBVIOUS
<1>9. flying' = [flying EXCEPT ![t] = fly] /\ list' = [list EXCEPT ![t][i] = c]  BY <1>7
<1>10. list' = [list EXCEPT ![t] = lists]  BY <1>9
<1>11. Good(old)  BY <1>3
<1> HIDE DEF fly, old, p
<1>12. explored \in From(old)  BY <1>8, <1>11, ExploreKeeps
<1>13. Good(explored) /\ explored.kind = old.kind  BY <1>12, FromGood DEF Grown
<1>14. Good(c) /\ c \in ListSet /\ c.kind = old.kind  BY <1>8, <1>13, IssueKeeps
<1>15. lists \in Seq(ListSet) /\ Len(lists) = NCoros /\ DOMAIN lists = 1 .. NCoros
       /\ \A j \in DOMAIN had : lists[j] = IF j = i THEN c ELSE had[j]
  <2>1. i \in DOMAIN had  BY <1>3
  <2> HIDE DEF had
  <2> QED BY <1>3, <1>14, <2>1, ExceptSeq
<1>16. NCoros \in Nat /\ 1 \in 1 .. NCoros  BY SearchAssumption
<1>17. lists[1].kind = "coro" /\ \A j \in DOMAIN lists : Good(lists[j])
  <2> HIDE DEF lists, had
  <2>1. lists[1] = IF 1 = i THEN c ELSE had[1]  BY <1>3, <1>15, <1>16
  <2>2. lists[1].kind = "coro"
    <3>1. CASE i = 1  BY <1>3, <1>14, <2>1, <3>1 DEF old
    <3>2. CASE i # 1  BY <1>3, <2>1, <3>2
    <3> QED BY <3>1, <3>2
  <2>3. \A j \in DOMAIN lists : Good(lists[j])  BY <1>3, <1>14, <1>15
  <2> QED BY <2>2, <2>3
<1>18. Moved(t, "coro", lists, << >>, {}, fly, p)
  <2> HIDE DEF lists
  <2> QED BY <1>1, <1>2, <1>3, <1>9, <1>10 DEF Moved, Same, p
<1>19. Accounts(t, "coro", lists)
  <2>1. Cost("coro", lists) = 1 /\ Cost(pc[t], list[t]) = 1 /\ Busy(t) = 1
    BY <1>1, <1>3, <1>17 DEF Cost, Busy
  <2> HIDE DEF lists, had
  <2> QED BY <1>1, <1>2, <2>1 DEF Here, Accounts
<1> HIDE DEF lists, had
<1> QED BY <1>4, <1>15, <1>17, <1>18, <1>19, CoroMoves

-----------------------------------------------------------------------------
(* The background thread, and the program at rest. *)
LEMMA BgReturnKeeps ==
    ASSUME SearchIInv, BgReturn
    PROVE  SearchIInv'
<1>1. /\ bg > 0 /\ bg' = bg - 1 /\ free' = free + 1
      /\ UNCHANGED <<mix, calls, pc, list, want, held, locks, flying, pipe>>
  BY DEF BgReturn
<1>2. TypesOK /\ LocksExact /\ BuffersExact /\ CallsCounted /\ \A u \in Threads : InOrderOf(u)
  BY DEF SearchIInv
<1>3. free \in Nat /\ bg \in Nat /\ calls \in 0 .. MaxCalls  BY <1>2 DEF TypesOK
<1>4. free' \in Nat /\ bg' \in Nat /\ free' + bg' = free + bg  BY <1>1, <1>3
<1>5. TypesOK'  BY <1>1, <1>2, <1>4 DEF TypesOK
<1>6. LocksExact'  BY <1>1, <1>2 DEF LocksExact, Holders
<1>7. \A u \in Threads : InOrderOf(u)'  BY <1>1, <1>2 DEF InOrderOf
<1>8. BuffersExact'
  <2>1. Buffers' = Buffers  BY <1>1 DEF Buffers
  <2>2. free' + bg' + SumFunction(Buffers) = NBuffers  BY <1>2, <1>4 DEF BuffersExact
  <2> QED BY <2>1, <2>2 DEF BuffersExact
<1>9. CallsCounted'
  <2> DEFINE n == Cardinality(Active)
  <2>1. Active' = Active  BY <1>1 DEF Active
  <2>2. IsFiniteSet(Threads) /\ Active \subseteq Threads  BY SearchAssumption DEF Active
  <2>3. n \in Nat  BY <2>2, FS_Subset, FS_CardinalityType
  <2>4. bg + n <= calls  BY <1>2 DEF CallsCounted
  <2> HIDE DEF n
  <2>5. bg' + n <= calls  BY <1>1, <1>3, <2>3, <2>4
  <2> QED BY <1>1, <2>1, <2>5 DEF CallsCounted, n
<1> QED BY <1>5, <1>6, <1>7, <1>8, <1>9 DEF SearchIInv

LEMMA QuietKeeps ==
    ASSUME SearchIInv, UNCHANGED vars
    PROVE  SearchIInv'
<1>1. UNCHANGED <<mix, free, bg, calls, pc, list, want, held, locks, flying, pipe>>  BY DEF vars
<1>2. TypesOK /\ LocksExact /\ BuffersExact /\ CallsCounted /\ \A u \in Threads : InOrderOf(u)
  BY DEF SearchIInv
<1>3. TypesOK'  BY <1>1, <1>2 DEF TypesOK
<1>4. LocksExact'  BY <1>1, <1>2 DEF LocksExact, Holders
<1>5. \A u \in Threads : InOrderOf(u)'  BY <1>1, <1>2 DEF InOrderOf
<1>6. BuffersExact'
  <2>1. Buffers' = Buffers  BY <1>1 DEF Buffers
  <2> QED BY <1>1, <1>2, <2>1 DEF BuffersExact
<1>7. CallsCounted'
  <2>1. Active' = Active  BY <1>1 DEF Active
  <2> QED BY <1>1, <1>2, <2>1 DEF CallsCounted
<1> QED BY <1>3, <1>4, <1>5, <1>6, <1>7 DEF SearchIInv

LEMMA InitKeeps == Init => SearchIInv
<1> SUFFICES ASSUME Init PROVE SearchIInv
  OBVIOUS
<1> DEFINE none == << >>
<1>1. /\ mix \in Mixes /\ free = NBuffers /\ bg = 0 /\ calls = 0
      /\ pc = [t \in Threads |-> "idle"] /\ list = [t \in Threads |-> none]
      /\ want = [t \in Threads |-> none] /\ held = [t \in Threads |-> {}]
      /\ locks = none /\ flying = [t \in Threads |-> none] /\ pipe = [t \in Threads |-> NoPipe]
  BY DEF Init
<1>2. "idle" \in Labels /\ "idle" \notin PipeLabels \cup {"coro"} /\ "idle" \notin RoundLabels
      /\ "idle" \notin Locking
  BY DEF Labels, PipeLabels, RoundLabels, Locking, Submitting
<1>3. none \in Seq(ListSet) /\ none \in Seq(Keys) /\ DOMAIN none = {} /\ {} \in SUBSET Keys
      /\ none \in [{} -> LockSet] /\ none = << >>
  OBVIOUS
<1> HIDE DEF none
<1>4. TypesOK
  <2>1. NBuffers \in Nat /\ MaxCalls \in Nat /\ Mixes \subseteq [Threads -> SUBSET Kinds]
    BY SearchAssumption
  <2>2. mix \in [Threads -> SUBSET Kinds] /\ free \in Nat /\ bg \in Nat /\ calls \in 0 .. MaxCalls
    BY <1>1, <2>1
  <2>3. pc \in [Threads -> Labels] /\ list \in [Threads -> Seq(ListSet)]
        /\ want \in [Threads -> Seq(Keys)] /\ held \in [Threads -> SUBSET Keys]
    BY <1>1, <1>2, <1>3
  <2>4. locks \in [DOMAIN locks -> LockSet]  BY <1>1, <1>3
  <2>5. flying = [t \in Threads |-> flying[t]] /\ pipe = [t \in Threads |-> pipe[t]]
    BY <1>1
  <2> QED BY <2>2, <2>3, <2>4, <2>5 DEF TypesOK
<1>5. ASSUME NEW t \in Threads PROVE InOrderOf(t)
  <2>1. /\ pc[t] = "idle" /\ list[t] = none /\ want[t] = none /\ held[t] = {} /\ flying[t] = none
    BY <1>1
  <2>2. ListsAt("idle", none)  BY <1>2, <1>3 DEF ListsAt
  <2>3. WantsAt("idle", none, {})  BY <1>2, <1>3 DEF WantsAt, IsInjective
  <2>4. FlyingAt("idle", none, none, {}, none, pipe[t])  BY <1>2, <1>3 DEF FlyingAt
  <2> QED BY <2>1, <2>2, <2>3, <2>4 DEF InOrderOf, InOrderAt
<1>6. LocksExact
  <2>1. DOMAIN locks = {} /\ UNION {held[t] : t \in Threads} = {}  BY <1>1, <1>3
  <2> QED BY <2>1 DEF LocksExact
<1>7. BuffersExact
  <2>1. Buffers = [t \in Threads |-> 0]  BY <1>1 DEF Buffers
  <2>2. IsFiniteSet(Threads) /\ NBuffers \in Nat  BY SearchAssumption
  <2> DEFINE f == Buffers
  <2>3. f = [t \in Threads |-> 0]  BY <2>1
  <2> HIDE DEF f
  <2>4. SumFunction(f) = 0  BY <2>2, <2>3, SumOfZeroes
  <2>5. free + bg + SumFunction(f) = NBuffers  BY <1>1, <2>2, <2>4
  <2> QED BY <2>5 DEF BuffersExact, f
<1>8. CallsCounted
  <2>1. Active = {}  BY <1>1 DEF Active
  <2>2. Cardinality({}) = 0  BY FS_EmptySet
  <2> QED BY <1>1, <2>1, <2>2 DEF CallsCounted
<1> QED BY <1>4, <1>5, <1>6, <1>7, <1>8 DEF SearchIInv

LEMMA NextKeeps == SearchIInv /\ [Next]_vars => SearchIInv'
<1> SUFFICES ASSUME SearchIInv, [Next]_vars PROVE SearchIInv'
  OBVIOUS
<1>1. CASE BgReturn  BY <1>1, BgReturnKeeps
<1>2. CASE Quiet  BY <1>2, QuietKeeps DEF Quiet
<1>3. CASE UNCHANGED vars  BY <1>3, QuietKeeps
<1>4. ASSUME NEW t \in Threads, Step(t) PROVE SearchIInv'
  <2>1. CASE Acquire(t)  BY <2>1, AcquireKeeps
  <2>2. CASE Rounds(t)
    <3>1. CASE BeginRounds(t)  BY <3>1, BeginRoundsKeeps
    <3>2. CASE PopAgain(t)  BY <3>2, PopAgainKeeps
    <3>3. CASE Select(t)  BY <3>3, SelectKeeps
    <3>4. CASE ReadAndExplore(t)  BY <3>4, ReadAndExploreKeeps
    <3>5. CASE NextBatch(t)  BY <3>5, NextBatchKeeps
    <3>6. CASE ReadBatch(t)  BY <3>6, ReadBatchKeeps
    <3>7. CASE Prefilled(t)  BY <3>7, PrefilledKeeps
    <3>8. CASE Refine(t)  BY <3>8, RefineKeeps
    <3>9. CASE EndRounds(t)  BY <3>9, EndRoundsKeeps
    <3>10. CASE Publish(t)  BY <3>10, PublishKeeps
    <3> QED BY <2>2, <3>1, <3>2, <3>3, <3>4, <3>5, <3>6, <3>7, <3>8, <3>9, <3>10 DEF Rounds
  <2>3. CASE Pipe(t)
    <3>1. CASE BeginPipe(t)  BY <3>1, BeginPipeKeeps
    <3>2. CASE PipeSelect(t)  BY <3>2, PipeSelectKeeps
    <3>3. CASE PipeSubmit(t)  BY <3>3, PipeSubmitKeeps
    <3>4. CASE PipeSent(t)  BY <3>4, PipeSentKeeps
    <3>5. CASE PipePoll(t)  BY <3>5, PipePollKeeps
    <3>6. CASE PipeCalc(t)  BY <3>6, PipeCalcKeeps
    <3>7. CASE EndPipe(t)  BY <3>7, EndPipeKeeps
    <3> QED BY <2>3, <3>1, <3>2, <3>3, <3>4, <3>5, <3>6, <3>7 DEF Pipe
  <2>4. CASE Coro(t)
    <3>1. CASE BeginCoro(t)  BY <3>1, BeginCoroKeeps
    <3>2. CASE StepCoro(t)  BY <3>2, StepCoroKeeps
    <3>3. CASE EndCoro(t)  BY <3>3, EndCoroKeeps
    <3> QED BY <2>4, <3>1, <3>2, <3>3 DEF Coro
  <2> QED BY <1>4, <2>1, <2>2, <2>3, <2>4 DEF Step
<1>5. ASSUME NEW t \in Threads, Complete(t) PROVE SearchIInv'
  BY <1>5, CompleteKeeps
<1> QED BY <1>1, <1>2, <1>3, <1>4, <1>5 DEF Next

-----------------------------------------------------------------------------
(* What the invariant says of the properties of the runs.                   *)
LEMMA EveryList ==
    ASSUME SearchIInv, NEW t \in Threads, NEW i \in DOMAIN list[t]
    PROVE  /\ ListOK(list[t][i])
           /\ pc[t] \notin {"first_send", "first_submit"} => Good(list[t][i])
<1>1. ListsAt(pc[t], list[t]) /\ list[t] \in Seq(ListSet)  BY HereOK DEF Here
<1>2. CASE pc[t] \in {"first_send", "first_submit"}
  <2>1. Len(list[t]) = 1 /\ ListOK(list[t][1])  BY <1>1, <1>2 DEF ListsAt
  <2>2. i = 1  BY <1>1, <2>1, LenProperties
  <2> QED BY <1>2, <2>1, <2>2
<1>3. CASE pc[t] \notin {"first_send", "first_submit"}
  BY <1>1, <1>3 DEF ListsAt, Good
<1> QED BY <1>2, <1>3

LEMMA BuffersCounted ==
    ASSUME SearchIInv
    PROVE  free \in 0 .. NBuffers /\ bg \in 0 .. MaxCalls /\ calls \in 0 .. MaxCalls
<1>1. TypesOK /\ BuffersExact /\ CallsCounted  BY DEF SearchIInv
<1>2. free \in Nat /\ bg \in Nat /\ calls \in 0 .. MaxCalls  BY <1>1 DEF TypesOK
<1>3. IsFiniteSet(Threads) /\ NBuffers \in Nat /\ MaxCalls \in Nat  BY SearchAssumption
<1> DEFINE f == Buffers
           sum == SumFunction(f)
           n == Cardinality(Active)
<1>4. f \in [Threads -> Nat]  BY DEF Buffers
<1>5. free + bg + sum = NBuffers  BY <1>1 DEF BuffersExact
<1>6. n \in Nat
  <2>1. Active \subseteq Threads  BY DEF Active
  <2> QED BY <1>3, <2>1, FS_Subset, FS_CardinalityType
<1>7. bg + n <= calls  BY <1>1 DEF CallsCounted
<1> HIDE DEF f, n
<1>8. sum \in Nat  BY <1>3, <1>4, SumNotNegative
<1> HIDE DEF sum
<1>9. free \in 0 .. NBuffers  BY <1>2, <1>3, <1>5, <1>8
<1>10. bg \in 0 .. MaxCalls  BY <1>2, <1>3, <1>6, <1>7
<1> QED BY <1>2, <1>9, <1>10

LEMMA ListsTyped == ASSUME SearchIInv PROVE SearchTypeOK
<1>1. free \in 0 .. NBuffers /\ bg \in 0 .. MaxCalls /\ calls \in 0 .. MaxCalls  BY BuffersCounted
<1>2. ASSUME NEW t \in Threads PROVE Len(list[t]) \in {0, 1, NCoros}
  <2>1. ListsAt(pc[t], list[t])  BY HereOK DEF Here
  <2>2. Len(<< >>) = 0  OBVIOUS
  <2> QED BY <2>1, <2>2 DEF ListsAt
<1>3. ASSUME NEW t \in Threads, NEW i \in DOMAIN list[t], NEW c, c = list[t][i]
      PROVE  /\ Ids(c.pool) \subseteq c.seen /\ c.seen \subseteq Nodes
             /\ c.L >= LSearch /\ Len(c.heap) <= KSearch
             /\ c.k \in 0 .. Len(c.pool) /\ ToSet(c.front) \subseteq Nodes
  <2>1. ListOK(c) /\ c \in ListSet  BY <1>3, EveryList DEF ListOK
  <2>2. c.seen \in SUBSET Nodes /\ c.k \in Nat /\ c.front \in Seq(Nodes) /\ Len(c.pool) \in Nat
    BY <2>1, Fields DEF ListSet
  <2>3. ToSet(c.front) \subseteq Nodes  BY <2>2 DEF ToSet
  <2> QED BY <2>1, <2>2, <2>3 DEF ListOK
<1>4. ASSUME NEW key \in DOMAIN locks PROVE locks[key].count \in 1 .. Cardinality(Threads)
  <2> DEFINE n == Cardinality(Holders(key))
             m == Cardinality(Threads)
             count == locks[key].count
  <2>1. count = n /\ locks[key] \in LockSet  BY DEF SearchIInv, TypesOK, LocksExact
  <2>2. count \in Nat \ {0}  BY <2>1 DEF LockSet
  <2>3. IsFiniteSet(Threads) /\ Holders(key) \subseteq Threads  BY SearchAssumption DEF Holders
  <2>4. n <= m /\ m \in Nat  BY <2>3, FS_Subset, FS_CardinalityType
  <2> HIDE DEF n, m, count
  <2>5. count \in 1 .. m  BY <2>1, <2>2, <2>4
  <2> QED BY <2>5 DEF count, m
<1> QED BY <1>1, <1>2, <1>3, <1>4 DEF SearchTypeOK

LEMMA GoodBest == ASSUME NEW c, Good(c) PROVE Best(c)
<1> DEFINE d == c.query.pq
           pool == c.pool
           ids == [i \in DOMAIN pool |-> pool[i].id]
           n == Len(pool)
<1>1. ListOK(c) /\ c \in ListSet /\ Nearest(c)  BY DEF Good, ListOK
<1>2. /\ pool \in Seq(EntrySet) /\ n \in Nat /\ DOMAIN pool = 1 .. n
      /\ \A i \in DOMAIN pool : pool[i].id \in Nodes
      /\ d \in [Nodes -> Int]
  BY <1>1, Fields
<1>3. n # 0  BY <1>1, <1>2, EmptySeq DEF ListOK
<1>4. OneEach(pool) /\ NearestFirst(d, pool)  BY <1>1 DEF ListOK, Nearest
<1>5. ~c.dyn => \A m \in c.seen \ Ids(pool) : n = LSearch /\ d[m] >= d[Last(pool).id]
  BY <1>1 DEF Nearest
<1> HIDE DEF d, pool, n
<1>6. ids \in Seq(Nodes) /\ Len(ids) = n /\ DOMAIN ids = 1 .. n
  <2>1. ids \in [1 .. n -> Nodes]  BY <1>2
  <2> HIDE DEF ids
  <2> QED BY <1>2, <2>1, AsSequence
<1>7. IsInjective(ids)  BY <1>2, <1>4 DEF IsInjective, OneEach
<1>8. \A i \in 1 .. Len(ids) - 1 : d[ids[i]] <= d[ids[i + 1]]
  <2> SUFFICES ASSUME NEW i \in 1 .. n - 1 PROVE d[ids[i]] <= d[ids[i + 1]]
    BY <1>6
  <2> DEFINE j == i + 1
  <2>1. i \in DOMAIN pool /\ j \in DOMAIN pool /\ i < j  BY <1>2
  <2> HIDE DEF j
  <2>2. d[pool[i].id] <= d[pool[j].id]  BY <1>4, <2>1 DEF NearestFirst
  <2>3. ids[i] = pool[i].id /\ ids[j] = pool[j].id  BY <2>1
  <2> HIDE DEF ids
  <2> QED BY <2>2, <2>3 DEF j
<1>9. Last(ids) = Last(pool).id
  <2>1. n \in DOMAIN pool  BY <1>2, <1>3
  <2>2. Last(ids) = ids[n] /\ Last(pool) = pool[n]
    <3> HIDE DEF ids
    <3> QED BY <1>6 DEF Last, n
  <2>3. ids[n] = pool[n].id  BY <2>1
  <2> HIDE DEF ids
  <2> QED BY <2>2, <2>3
<1>10. ~c.dyn => \A m \in c.seen \ Ids(pool) : Len(ids) = LSearch /\ d[m] >= d[Last(ids)]
  <2> HIDE DEF ids
  <2> QED BY <1>5, <1>6, <1>9
<1> HIDE DEF ids
<1>11. ids = [i \in DOMAIN c.pool |-> c.pool[i].id] /\ d = c.query.pq /\ pool = c.pool
  BY DEF ids, d, pool
<1> QED BY <1>7, <1>8, <1>10, <1>11 DEF Best

LEMMA ListsSafe == ASSUME SearchIInv PROVE ListsInv
<1>1. ASSUME NEW t \in Threads, NEW i \in DOMAIN list[t], pc[t] \notin {"first_send", "first_submit"}
      PROVE  Best(list[t][i])
  <2>1. Good(list[t][i])  BY <1>1, EveryList
  <2> QED BY <2>1, GoodBest
<1> QED BY <1>1, ListsTyped DEF ListsInv, ListsBest

LEMMA ResourcesSafe == ASSUME SearchIInv PROVE ResourcesExact
<1>1. PipeDrained  BY PipeDrains DEF PipeDrained
<1>2. LocksExact /\ BuffersExact  BY DEF SearchIInv
<1> QED BY <1>1, <1>2 DEF ResourcesExact, LocksExact, BuffersExact, Holders

-----------------------------------------------------------------------------
(* Nothing expanded yet. *)
LEMMA AlongItself == ASSUME NEW c, Good(c) PROVE c \in Along(c)
<1>1. c \in From(c)  BY FromItself DEF Good
<1>2. c \in ListSet  BY DEF Good, ListOK
<1>3. c.nk \in Nat  BY <1>2 DEF ListSet
<1> QED BY <1>1, <1>3 DEF Along, Ahead

(* A list along c is still a good one. *)
LEMMA AlongGood ==
    ASSUME NEW c, NEW x \in Along(c)
    PROVE  Good(x) /\ x \in ListSet /\ x \in From(c) /\ Ahead(c, x) /\ Grown(c, x)
  BY FromGood DEF Along

(* Expansions follow one another. *)
LEMMA AlongAlong ==
    ASSUME NEW c, Good(c), NEW x \in Along(c), NEW y \in Along(x)
    PROVE  y \in Along(c)
<1>1. x \in From(c) /\ y \in From(x) /\ Ahead(c, x) /\ Ahead(x, y)  BY DEF Along
<1>2. y \in From(c)  BY <1>1, FromFrom
<1>3. x \in ListSet /\ y \in ListSet  BY <1>1 DEF From
<1>4. x.nk \in Nat /\ y.nk \in Nat /\ y.nk <= x.nk  BY <1>1, <1>3 DEF ListSet, Ahead
<1>5. c.nk >= x.nk /\ c.nk \in Nat  BY <1>1 DEF Ahead, Good, ListOK, ListSet
<1>6. \A i \in 1 .. y.nk : i \in 1 .. x.nk  BY <1>4
<1> QED BY <1>1, <1>2, <1>4, <1>5, <1>6 DEF Along, Ahead

(* What is done stays done. *)
LEMMA StaysDone ==
    ASSUME NEW c, NEW x, Ahead(c, x), NEW n, Done(c, n)
    PROVE  Done(x, n)
  BY DEF Ahead, Done

(* An offered id is met; it enters the list no earlier than nk says.        *)
LEMMA OfferAhead ==
    ASSUME NEW c, Good(c), NEW n \in Nodes, NEW x, x = Offer(c, n)
    PROVE  x \in Along(c) /\ n \in x.seen
<1>1. c \in ListSet /\ ListOK(c) /\ Nearest(c)  BY DEF Good, ListOK
<1>2. x \in From(c)  BY <1>1, OfferKeeps
<1> DEFINE y == Meet(c, n)
           r == InsertIntoPool(c.query.pq, c.pool, n)
<1>3. y = Meet(c, n) /\ r = InsertIntoPool(c.query.pq, c.pool, n)  OBVIOUS
<1> HIDE DEF y, r
<1>4. y \in ListSet /\ y.seen = c.seen \cup {n} /\ Unmet(c, y)  BY <1>1, <1>3, MeetAdds
<1>5. \/ n \in c.seen /\ x = c
      \/ x = y
      \/ Taken(c, n, r, y, x)
  <2>1. \/ n \in c.seen /\ x = c
        \/ /\ n \notin c.seen /\ x = Meet(c, n)
           /\ Len(c.pool) = c.L /\ c.query.pq[n] >= c.query.pq[Last(c.pool).id]
        \/ /\ n \notin c.seen
           /\ ~(Len(c.pool) = c.L /\ c.query.pq[n] >= c.query.pq[Last(c.pool).id])
           /\ \E s \in {InsertIntoPool(c.query.pq, c.pool, n)} : Taken(c, n, s, Meet(c, n), x)
    BY <1>1, OfferCases
  <2> QED BY <1>3, <2>1
<1>6. CASE n \in c.seen /\ x = c  BY <1>6, AlongItself
<1>7. c.nk \in Nat /\ c.nk <= Len(c.pool) /\ Len(c.pool) \in Nat /\ c.pool \in Seq(EntrySet)
      /\ c.query.pq \in [Nodes -> Int] /\ c.pool # << >> /\ c.L \in Nat
  BY <1>1, Fields DEF ListSet, ListOK
<1>8. CASE x = y
  <2>1. Ahead(c, y)  BY <1>4, <1>7 DEF Unmet, Ahead, Expanded
  <2> QED BY <1>2, <1>4, <1>8, <2>1 DEF Along
<1>9. CASE Taken(c, n, r, y, x)
  <2> DEFINE m == IF Len(c.pool) < c.L THEN Len(c.pool) + 1 ELSE Len(c.pool)
             new == Splice(c.pool, r, Entry(n), m)
             nk == IF r < c.nk THEN r ELSE c.nk
  <2>1. r \in 0 .. Len(c.pool)
    <3> DEFINE pool == c.pool
               d == c.query.pq
    <3>1. r = InsertIntoPool(d, pool, n) /\ pool \in Seq(EntrySet) /\ pool # << >> /\ d \in [Nodes -> Int]
      BY <1>3, <1>7
    <3> HIDE DEF pool, d
    <3>2. r \in 0 .. Len(pool)  BY <3>1, PlaceFound
    <3> QED BY <3>2 DEF pool
  <2>2. m \in Nat /\ m \in 0 .. Len(c.pool) + 1 /\ r <= m /\ nk \in Nat /\ nk <= r /\ nk <= c.nk /\ nk <= m
    BY <1>7, <2>1
  <2>3. x = [y EXCEPT !.pool = new, !.nk = nk]
    <3>1. y.pool = c.pool /\ y.nk = c.nk  BY <1>4 DEF Unmet
    <3> QED BY <1>9, <3>1 DEF Taken
  <2>4. \A i \in 1 .. nk : new[i] = c.pool[i]
    <3> DEFINE e == Entry(n)
               pool == c.pool
    <3>1. new = Splice(pool, r, e, m) /\ e \in EntrySet /\ pool \in Seq(EntrySet)
          /\ r \in 0 .. Len(pool) /\ m \in 0 .. Len(pool) + 1
      BY <1>7, <2>1, <2>2 DEF Entry, EntrySet
    <3> HIDE DEF e, new, m, nk, pool
    <3>2. /\ new \in Seq(EntrySet) /\ Len(new) = m /\ DOMAIN new = 1 .. m
          /\ \A i \in 1 .. m : new[i] = IF i <= r THEN pool[i]
                                        ELSE IF i = r + 1 THEN e ELSE pool[i - 1]
      BY <3>1, InsertedAndCut
    <3>3. \A i \in 1 .. nk : i \in 1 .. m /\ i <= r  BY <2>1, <2>2
    <3> QED BY <3>2, <3>3 DEF pool
  <2> HIDE DEF new, m, nk
  <2>5. /\ x.pool = new /\ x.nk = nk /\ x.k = c.k /\ x.front = c.front /\ x.pages = c.pages
        /\ x.snap = c.snap /\ x.seen = c.seen \cup {n} /\ x.full = c.full /\ x.computed = c.computed
    BY <1>4, <2>3 DEF ListSet, Unmet
  <2> QED BY <1>2, <2>2, <2>4, <2>5 DEF Along, Ahead, Expanded
<1> QED BY <1>5, <1>6, <1>8, <1>9

(* Every neighbour offered is met. *)
LEMMA OffersAhead ==
    ASSUME NEW c, Good(c), NEW seq \in Seq(Nodes), NEW x, x = Offers(c, seq)[Len(seq)]
    PROVE  x \in Along(c) /\ ToSet(seq) \subseteq x.seen
<1> DEFINE F == Offers(c, seq)
           n == Len(seq)
           S == Along(c)
           Upto == { iz \in (0 .. n) \X S : \A j \in 1 .. iz[1] : seq[j] \in iz[2].seen }
           g == [ i \in 0 .. n |-> <<i, F[i]>> ]
<1>1. n \in Nat /\ DOMAIN seq = 1 .. n /\ \A i \in 1 .. n : seq[i] \in Nodes
  BY LenProperties, ElementOfSeq
<1>2. F = Offers(c, seq) /\ x = F[n]  OBVIOUS
<1> HIDE DEF F
<1>3. F[0] = c /\ \A i \in 1 .. n : F[i] = Offer(F[i - 1], seq[i])  BY <1>2, OffersInTurn
<1>4. g[0] \in Upto  BY <1>1, <1>3, AlongItself
<1>5. ASSUME NEW i \in 1 .. n, g[i - 1] \in Upto PROVE g[i] \in Upto
  <2>1. i - 1 \in 0 .. n /\ i \in 0 .. n  BY <1>1
  <2>2. F[i - 1] \in S /\ \A j \in 1 .. i - 1 : seq[j] \in F[i - 1].seen  BY <1>5, <2>1
  <2>3. F[i] \in Along(F[i - 1]) /\ seq[i] \in F[i].seen
    <3>1. Good(F[i - 1])  BY <2>2, AlongGood
    <3>2. F[i] = Offer(F[i - 1], seq[i]) /\ seq[i] \in Nodes  BY <1>1, <1>3
    <3> QED BY <3>1, <3>2, OfferAhead
  <2>4. F[i] \in S /\ F[i - 1].seen \subseteq F[i].seen  BY <2>2, <2>3, AlongAlong DEF Along, Ahead
  <2>5. \A j \in 1 .. i : j = i \/ j \in 1 .. i - 1  BY <1>1
  <2>6. \A j \in 1 .. i : seq[j] \in F[i].seen  BY <2>2, <2>3, <2>4, <2>5
  <2> HIDE DEF S, n
  <2> QED BY <2>1, <2>4, <2>6
<1> HIDE DEF g, Upto
<1>6. \A i \in 0 .. n : g[i] \in Upto  BY <1>1, <1>4, <1>5, KeptToTheEnd
<1>7. F[n] \in S /\ \A j \in 1 .. n : seq[j] \in F[n].seen
  <2>1. n \in 0 .. n  BY <1>1
  <2>2. g[n] = <<n, F[n]>> /\ g[n] \in Upto  BY <1>6, <2>1 DEF g
  <2> HIDE DEF S, n
  <2> QED BY <2>2 DEF Upto
<1> QED BY <1>1, <1>2, <1>7 DEF ToSet

(* Keeping a record's distance expands it. *)
LEMMA RecordedAhead ==
    ASSUME NEW c, Good(c), NEW n \in Nodes, NEW page \in Nat, NEW x, x = Recorded(c, n, page)
    PROVE  x \in Along(c) /\ n \in Expanded(x)
<1> DEFINE heap == IF Tag[n] \in Candidates THEN PushHeap(c.query.exact, c.heap, n, KSearch)
                   ELSE c.heap
           full == Append(c.full, <<n, page>>)
<1>1. c \in ListSet /\ x \in From(c) /\ c.nk \in Nat  BY RecordedKeeps DEF Good, ListOK, ListSet
<1>2. /\ DOMAIN full = 1 .. Len(c.full) + 1 /\ DOMAIN c.full = 1 .. Len(c.full) /\ Len(c.full) \in Nat
      /\ full[Len(c.full) + 1] = <<n, page>>
      /\ \A i \in 1 .. Len(c.full) : full[i] = c.full[i]
  <2>1. c.full \in Seq(Nodes \X Nat) /\ <<n, page>> \in Nodes \X Nat  BY <1>1 DEF ListSet
  <2> QED BY <2>1, AppendProperties, LenProperties
<1>3. x = IF c.kind # "filter" THEN [c EXCEPT !.full = full]
          ELSE [c EXCEPT !.computed = c.computed \cup {n}, !.heap = heap]
  BY DEF Recorded
<1> HIDE DEF heap, full
<1>4. /\ x.pool = c.pool /\ x.seen = c.seen /\ x.k = c.k /\ x.nk = c.nk /\ x.front = c.front
      /\ x.pages = c.pages /\ x.snap = c.snap
      /\ \/ x.full = full /\ x.computed = c.computed
         \/ x.full = c.full /\ x.computed = c.computed \cup {n}
  BY <1>1, <1>3 DEF ListSet
<1>5. n \in Expanded(x) /\ Expanded(c) \subseteq Expanded(x)
  <2>1. CASE x.full = full /\ x.computed = c.computed
    <3>1. Len(c.full) + 1 \in DOMAIN full /\ full[Len(c.full) + 1][1] = n  BY <1>2
    <3>2. \A i \in DOMAIN c.full : i \in DOMAIN full /\ full[i] = c.full[i]  BY <1>2
    <3> QED BY <2>1, <3>1, <3>2 DEF Expanded
  <2>2. CASE x.full = c.full /\ x.computed = c.computed \cup {n}  BY <2>2 DEF Expanded
  <2> QED BY <1>4, <2>1, <2>2
<1>6. Ahead(c, x)  BY <1>1, <1>4, <1>5 DEF Ahead
<1> QED BY <1>1, <1>5, <1>6 DEF Along

(* Moving l_search moves nothing else. *)
LEMMA ResizeAhead ==
    ASSUME NEW c, Good(c), NEW x, x = ResizeL(c)
    PROVE  x \in Along(c)
<1>1. c \in ListSet /\ x \in From(c) /\ c.nk \in Nat  BY ResizeKeeps DEF Good, ListOK, ListSet
<1>2. x = c \/ \E l : x = [c EXCEPT !.L = l]  BY Zenon DEF ResizeL
<1>3. /\ x.pool = c.pool /\ x.seen = c.seen /\ x.k = c.k /\ x.nk = c.nk /\ x.front = c.front
      /\ x.pages = c.pages /\ x.snap = c.snap /\ x.full = c.full /\ x.computed = c.computed
  BY <1>1, <1>2 DEF ListSet
<1> QED BY <1>1, <1>3 DEF Along, Ahead, Expanded

(* An expanded record is done. *)
LEMMA ExpandAhead ==
    ASSUME NEW c, Good(c), NEW n \in Nodes, NEW page \in Nat, NEW x, x = Expand(c, n, page)
    PROVE  x \in Along(c) /\ Done(x, n)
<1> DEFINE keep == Recorded(c, n, page)
           seq == Graph[n]
           all == Offers(keep, seq)[Len(seq)]
<1>1. x = ResizeL(all)
  <2>1. Expand(c, n, page) = Only({ResizeL(z) : z \in {all}})
    BY Zenon DEF Expand, Recorded, Offers, Through
  <2> HIDE DEF all
  <2>2. {ResizeL(z) : z \in {all}} = {ResizeL(all)}  OBVIOUS
  <2>3. Only({ResizeL(all)}) = ResizeL(all)  BY OnlyOne
  <2> QED BY <2>1, <2>2, <2>3
<1>2. keep = Recorded(c, n, page) /\ seq \in Seq(Nodes) /\ all = Offers(keep, seq)[Len(seq)]
  BY ListAssumption
<1> HIDE DEF keep, all
<1>3. keep \in Along(c) /\ n \in Expanded(keep)  BY <1>2, RecordedAhead
<1> HIDE DEF seq
<1>4. all \in Along(keep) /\ ToSet(seq) \subseteq all.seen
  <2>1. Good(keep)  BY <1>3, AlongGood
  <2> QED BY <1>2, <2>1, OffersAhead
<1>5. x \in Along(all)
  <2>1. Good(all)  BY <1>4, AlongGood
  <2> QED BY <1>1, <2>1, ResizeAhead
<1>6. all \in Along(c)  BY <1>3, <1>4, AlongAlong
<1>7. x \in Along(c)  BY <1>5, <1>6, AlongAlong
<1>8. n \in Expanded(x) /\ ToSet(seq) \subseteq x.seen
  <2>1. Ahead(keep, all) /\ Ahead(all, x)  BY <1>4, <1>5 DEF Along
  <2> QED BY <1>3, <1>4, <2>1 DEF Ahead
<1> QED BY <1>7, <1>8 DEF Done, seq

(* So are all the records of a beam. *)
LEMMA ExpandAllAhead ==
    ASSUME NEW c, Good(c), NEW ids \in Seq(Nodes), NEW x, x = ExpandAll(c, ids)
    PROVE  x \in Along(c) /\ \A j \in DOMAIN ids : Done(x, ids[j])
<1> DEFINE F == Expansions(c, ids)
           n == Len(ids)
           S == Along(c)
           Upto == { iz \in (0 .. n) \X S : \A j \in 1 .. iz[1] : Done(iz[2], ids[j]) }
           g == [ i \in 0 .. n |-> <<i, F[i]>> ]
<1>1. n \in Nat /\ DOMAIN ids = 1 .. n /\ \A i \in 1 .. n : ids[i] \in Nodes
  BY LenProperties, ElementOfSeq
<1>2. F = Expansions(c, ids) /\ x = F[n]  BY AllExpanded
<1> HIDE DEF F
<1>3. F[0] = c /\ \A i \in 1 .. n : F[i] = Expand(F[i - 1], ids[i], Page[ids[i]])
  BY <1>2, ExpansionsInTurn
<1>4. g[0] \in Upto  BY <1>1, <1>3, AlongItself
<1>5. ASSUME NEW i \in 1 .. n, g[i - 1] \in Upto PROVE g[i] \in Upto
  <2> DEFINE m == ids[i]
             page == Page[m]
             y == F[i]
             z == F[i - 1]
  <2>1. i - 1 \in 0 .. n /\ i \in 0 .. n  BY <1>1
  <2>2. z \in S /\ \A j \in 1 .. i - 1 : Done(z, ids[j])  BY <1>5, <2>1
  <2>7. m \in Nodes /\ page \in Nat /\ y = Expand(z, m, page) /\ Good(z)
    <3>1. m \in Nodes  BY <1>1
    <3>2. page \in Nat  BY <3>1, SearchAssumption
    <3> QED BY <1>3, <2>2, <3>1, <3>2, AlongGood
  <2> HIDE DEF m, page, y, z
  <2>3. y \in Along(z) /\ Done(y, m)  BY <2>7, ExpandAhead
  <2>4. y \in S /\ Ahead(z, y)  BY <2>2, <2>3, AlongAlong DEF Along
  <2>5. \A j \in 1 .. i : j = i \/ j \in 1 .. i - 1  BY <1>1
  <2>8. \A j \in 1 .. i - 1 : Done(y, ids[j])  BY <2>2, <2>4, StaysDone
  <2>6. \A j \in 1 .. i : Done(y, ids[j])  BY <2>3, <2>5, <2>8 DEF m
  <2> HIDE DEF S, n
  <2> QED BY <2>1, <2>4, <2>6 DEF y
<1> HIDE DEF g, Upto
<1>6. \A i \in 0 .. n : g[i] \in Upto  BY <1>1, <1>4, <1>5, KeptToTheEnd
<1>7. F[n] \in S /\ \A j \in 1 .. n : Done(F[n], ids[j])
  <2>1. n \in 0 .. n  BY <1>1
  <2>2. g[n] = <<n, F[n]>> /\ g[n] \in Upto  BY <1>6, <2>1 DEF g
  <2> HIDE DEF S, n
  <2> QED BY <2>2 DEF Upto
<1> QED BY <1>1, <1>2, <1>7

(* The other records of a page: none is left out. *)
LEMMA RestLeavesNone ==
    ASSUME NEW c \in ListSet, NEW n \in Nodes, NEW m \in Nodes, m # n, Page[m] = Page[n]
    PROVE  \E i \in DOMAIN RestOfPage(c, n) : RestOfPage(c, n)[i] = m
<1> DEFINE S == {l \in Nodes \ {n} : Page[l] = Page[n]}
           W == {ml \in S \X S : Nearer(c.query.exact, ml[1], ml[2])}
           rest == RestOfPage(c, n)
<1>1. rest = InOrder(S, W)  BY DEF RestOfPage
<1>2. S \in SUBSET Nodes /\ IsFiniteSet(S) /\ m \in S  BY ListAssumption, FS_Subset
<1>3. c.query.exact \in [Nodes -> Int]  BY Fields
<1>4. StrictOrder(S, W)
  <2> HIDE DEF S
  <2> QED BY <1>2, <1>3, NearerStrict
<1> HIDE DEF S, W, rest
<1>5. DOMAIN rest = 1 .. Cardinality(S) /\ \A a \in S : \E i \in 1 .. Cardinality(S) : rest[i] = a
  BY <1>1, <1>2, <1>4, InOrderLists
<1> QED BY <1>2, <1>5 DEF rest

(* Passing over the pages of ids makes all their other records done. *)
LEMMA PassesAhead ==
    ASSUME NEW c, Good(c), NEW ids \in Seq(Nodes), NEW x, x = Passes(c, ids)[Len(ids)]
    PROVE  /\ x \in Along(c)
           /\ \A j \in DOMAIN ids : \A m \in Nodes :
                 m # ids[j] /\ Page[m] = Page[ids[j]] => Done(x, m)
<1> DEFINE F == Passes(c, ids)
           n == Len(ids)
           S == Along(c)
           Over(z, l) == \A m \in Nodes : m # l /\ Page[m] = Page[l] => Done(z, m)
           Upto == { iz \in (0 .. n) \X S : \A j \in 1 .. iz[1] : Over(iz[2], ids[j]) }
           g == [ i \in 0 .. n |-> <<i, F[i]>> ]
<1>1. n \in Nat /\ DOMAIN ids = 1 .. n /\ \A i \in 1 .. n : ids[i] \in Nodes
  BY LenProperties, ElementOfSeq
<1>2. F = Passes(c, ids) /\ x = F[n]  OBVIOUS
<1> HIDE DEF F
<1>3. F[0] = c /\ \A i \in 1 .. n : F[i] = ExpandAll(F[i - 1], RestOfPage(F[i - 1], ids[i]))
  BY <1>2, PassesInTurn
<1>8. ASSUME NEW z, NEW y, Ahead(z, y), NEW l, Over(z, l) PROVE Over(y, l)
  BY <1>8, StaysDone
<1> HIDE DEF Over
<1>4. g[0] \in Upto  BY <1>1, <1>3, AlongItself
<1>5. ASSUME NEW i \in 1 .. n, g[i - 1] \in Upto PROVE g[i] \in Upto
  <2> DEFINE l == ids[i]
             y == F[i]
             z == F[i - 1]
             rest == RestOfPage(z, l)
  <2>1. i - 1 \in 0 .. n /\ i \in 0 .. n  BY <1>1
  <2>2. z \in S /\ \A j \in 1 .. i - 1 : Over(z, ids[j])  BY <1>5, <2>1
  <2>7. l \in Nodes /\ rest = RestOfPage(z, l) /\ y = ExpandAll(z, rest) /\ Good(z) /\ z \in ListSet
    BY <1>1, <1>3, <2>2, AlongGood
  <2> HIDE DEF l, y, z, rest
  <2>9. rest \in Seq(Nodes)  BY <2>7, RestListed
  <2>3. y \in Along(z) /\ \A j \in DOMAIN rest : Done(y, rest[j])  BY <2>7, <2>9, ExpandAllAhead
  <2>4. y \in S /\ Ahead(z, y)  BY <2>2, <2>3, AlongAlong DEF Along
  <2>5. \A j \in 1 .. i : j = i \/ j \in 1 .. i - 1  BY <1>1
  <2>8. \A j \in 1 .. i - 1 : Over(y, ids[j])  BY <1>8, <2>2, <2>4
  <2>10. Over(y, l)
    <3> SUFFICES ASSUME NEW m \in Nodes, m # l, Page[m] = Page[l] PROVE Done(y, m)
      BY DEF Over
    <3>1. \E j \in DOMAIN rest : rest[j] = m  BY <2>7, RestLeavesNone
    <3> QED BY <2>3, <3>1
  <2>6. \A j \in 1 .. i : Over(y, ids[j])  BY <2>5, <2>8, <2>10 DEF l
  <2> HIDE DEF S, n
  <2> QED BY <2>1, <2>4, <2>6 DEF y
<1> HIDE DEF g, Upto
<1>6. \A i \in 0 .. n : g[i] \in Upto  BY <1>1, <1>4, <1>5, KeptToTheEnd
<1>7. F[n] \in S /\ \A j \in 1 .. n : Over(F[n], ids[j])
  <2>1. n \in 0 .. n  BY <1>1
  <2>2. g[n] = <<n, F[n]>> /\ g[n] \in Upto  BY <1>6, <2>1 DEF g
  <2> HIDE DEF S, n
  <2> QED BY <2>2 DEF Upto
<1> QED BY <1>1, <1>2, <1>7 DEF Over

-----------------------------------------------------------------------------
(* After a round, what was picked and what was passed over are done.        *)
LEMMA ExploreRests ==
    ASSUME NEW c, Good(c), Picked(c), ~SearchEnds(c), NEW x, x = Explore(c)
    PROVE  Rest(x) /\ Good(x)
<1> DEFINE all == Passes(c, c.snap)[Len(c.snap)]
           passed == IF c.kind = "page" THEN all ELSE c
           snap == IF c.kind = "page" THEN c.front ELSE c.snap
           e == ExpandAll(passed, c.front)
           y == EndRound([e EXCEPT !.snap = snap])
           k == IF e.nk <= e.k THEN e.nk ELSE e.k + 1
<1>1. Explore(c) = Only({EndRound([z EXCEPT !.snap = snap]) :
                            z \in {ExpandAll(w, c.front) : w \in {passed}}})
  BY Zenon DEF Explore, Through, Passes
<1>2. x = y
  <2> HIDE DEF passed, snap
  <2>1. {ExpandAll(w, c.front) : w \in {passed}} = {e}  OBVIOUS
  <2> HIDE DEF e
  <2>2. {EndRound([z EXCEPT !.snap = snap]) : z \in {e}} = {y}  OBVIOUS
  <2> HIDE DEF y
  <2> QED BY <1>1, <2>1, <2>2, OnlyOne
<1>3. c \in ListSet /\ c.snap \in Seq(Nodes) /\ c.front \in Seq(Nodes) /\ ListOK(c) /\ Nearest(c)
  BY DEF Good, ListOK, ListSet
<1>4. snap \in Seq(Nodes) /\ (c.kind = "page" => snap = c.front)  BY <1>3
<1>5. passed \in Along(c)
      /\ (c.kind = "page" => \A j \in DOMAIN c.snap : \A m \in Nodes :
                                m # c.snap[j] /\ Page[m] = Page[c.snap[j]] => Done(passed, m))
  <2>1. all \in Along(c)
        /\ \A j \in DOMAIN c.snap : \A m \in Nodes :
              m # c.snap[j] /\ Page[m] = Page[c.snap[j]] => Done(all, m)
    BY <1>3, PassesAhead
  <2>2. c \in Along(c)  BY AlongItself
  <2> HIDE DEF all
  <2> QED BY <2>1, <2>2
<1> HIDE DEF passed, snap
<1>6. e \in Along(passed) /\ \A j \in DOMAIN c.front : Done(e, c.front[j])
  <2>1. e = ExpandAll(passed, c.front) /\ Good(passed)  BY <1>5, AlongGood
  <2> HIDE DEF e
  <2> QED BY <1>3, <2>1, ExpandAllAhead
<1>20. y = EndRound([e EXCEPT !.snap = snap])  OBVIOUS
<1> HIDE DEF e, y
<1>7. e \in Along(c)  BY <1>5, <1>6, AlongAlong
<1>8. e \in ListSet /\ Ahead(c, e) /\ Grown(c, e) /\ Ahead(passed, e)
  BY <1>6, <1>7, AlongGood DEF Along
<1>9. /\ e.k \in Nat /\ e.nk \in Nat /\ Len(c.pool) \in Nat /\ e.k = c.k /\ c.k < Len(c.pool)
  <2>1. e.k \in Nat /\ e.nk \in Nat /\ c.k \in Nat  BY <1>3, <1>8 DEF ListSet
  <2>2. Len(c.pool) \in Nat  BY <1>3, Fields
  <2>3. c.k < Len(c.pool)  BY <2>1, <2>2 DEF SearchEnds
  <2> QED BY <1>8, <2>1, <2>2, <2>3 DEF Ahead
<1>10. k \in Nat /\ k <= e.nk /\ k <= c.k + 1  BY <1>9
<1>11. y = [e EXCEPT !.snap = snap, !.k = k]  BY <1>8, <1>20 DEF EndRound, ListSet
<1> HIDE DEF k
<1>12. /\ y.kind = c.kind /\ y.pool = e.pool /\ y.seen = e.seen /\ y.k = k /\ y.snap = snap
       /\ y.pages = c.pages /\ y.full = e.full /\ y.computed = e.computed
  BY <1>8, <1>11 DEF ListSet, Ahead, Grown
<1>13. \A m : Done(e, m) => Done(y, m)  BY <1>12 DEF Done, Expanded
<1>14. \A m : Done(c, m) => Done(y, m)  BY <1>8, <1>13, StaysDone
<1>15. \A m \in ToSet(c.front) : Done(y, m)  BY <1>6, <1>13 DEF ToSet
<1>16. ASSUME c.kind = "page", NEW m \in OnPages(c.snap) PROVE Done(y, m)
  <2>1. PICK j \in DOMAIN c.snap : Page[m] = Page[c.snap[j]]  BY <1>16 DEF OnPages
  <2>2. CASE m = c.snap[j]  BY <1>14, <1>16, <2>1, <2>2 DEF Picked
  <2>3. CASE m # c.snap[j]
    <3>1. m \in Nodes  BY <1>16 DEF OnPages
    <3>2. Done(passed, m)  BY <1>5, <1>16, <2>1, <2>3, <3>1
    <3> QED BY <1>8, <1>13, <3>2, StaysDone
  <2> QED BY <2>2, <2>3
<1>17. ASSUME NEW i \in 1 .. y.k PROVE Done(y, y.pool[i].id)
  <2>1. y.pool[i] = c.pool[i]
    <3>1. i \in 1 .. e.nk  BY <1>9, <1>10, <1>12
    <3> QED BY <1>8, <1>12, <3>1 DEF Ahead
  <2>2. i \in 1 .. c.k \/ i = c.k + 1  BY <1>9, <1>10, <1>12
  <2>3. CASE i \in 1 .. c.k  BY <1>14, <2>1, <2>3 DEF Picked
  <2>4. CASE i = c.k + 1  BY <1>9, <1>14, <1>15, <1>16, <2>1, <2>4 DEF Picked
  <2> QED BY <2>2, <2>3, <2>4
<1>18. ASSUME NEW i \in DOMAIN y.pool, ~y.pool[i].flag PROVE Done(y, y.pool[i].id)
  <2>1. PICK j \in DOMAIN c.pool : y.pool[i] = c.pool[j]
    <3>1. y.pool[i] # Entry(y.pool[i].id)  BY <1>18 DEF Entry
    <3> QED BY <1>8, <1>12, <1>18, <3>1 DEF Grown
  <2> QED BY <1>14, <1>15, <1>18, <2>1 DEF Picked
<1>19. ASSUME y.kind = "page"
       PROVE  /\ \A i \in DOMAIN y.snap : Done(y, y.snap[i])
              /\ \A m \in Nodes : Page[m] \in y.pages => Done(y, m) \/ m \in OnPages(y.snap)
  <2>1. c.kind = "page" /\ y.snap = c.front  BY <1>4, <1>12, <1>19
  <2>2. \A i \in DOMAIN y.snap : Done(y, y.snap[i])  BY <1>15, <2>1 DEF ToSet
  <2> QED BY <1>12, <1>14, <1>16, <2>1, <2>2 DEF Picked
<1>21. Good(x)
  <2>1. x \in From(c)  BY ExploreKeeps
  <2> QED BY <2>1, FromGood
<1> QED BY <1>2, <1>17, <1>18, <1>19, <1>21 DEF Rest

(* One step of the choice keeps what was chosen and passed over. *)
LEMMA PickingGoesOn ==
    ASSUME NEW c, ListOK(c), NEW i \in 1 .. Len(c.pool), NEW z, Repicked(c, z),
           Picking(c, i - 1, z), NEW y, y = Pick(z, c, i)
    PROVE  Picking(c, i, y)
<1> DEFINE n == c.pool[i].id
           front == Append(z.front, n)
           pool == [z.pool EXCEPT ![i] = [z.pool[i] EXCEPT !.flag = FALSE]]
           pages == z.pages \cup {Page[n]}
           take == /\ i > c.k /\ Len(z.front) < Beam
                   /\ c.pool[i].flag
                   /\ c.kind = "page" => Page[n] \notin z.pages
<1>1. c \in ListSet /\ z \in ListSet  BY DEF ListOK, Repicked
<1>2. /\ DOMAIN z.pool = DOMAIN c.pool /\ DOMAIN c.pool = 1 .. Len(c.pool) /\ Len(c.pool) \in Nat
      /\ z.pool \in Seq(EntrySet) /\ n \in Nodes /\ c.k \in Nat /\ i \in Nat /\ i - 1 \in Nat
      /\ z.front \in Seq(Nodes) /\ Beam \in Nat \ {0}
  <2>1. c.k \in Nat /\ z.front \in Seq(Nodes)  BY <1>1 DEF ListSet
  <2>2. DOMAIN z.pool = DOMAIN c.pool /\ DOMAIN c.pool = 1 .. Len(c.pool) /\ Len(c.pool) \in Nat
        /\ z.pool \in Seq(EntrySet) /\ n \in Nodes
    BY <1>1, Fields DEF Repicked
  <2> QED BY <2>1, <2>2, ListAssumption
<1>3. y = IF take THEN [z EXCEPT !.front = front, !.pool = pool, !.pages = pages] ELSE z
  BY DEF Pick
<1>4. n \in ToSet(front) /\ ToSet(z.front) \subseteq ToSet(front)
  <2>1. /\ DOMAIN front = 1 .. Len(z.front) + 1 /\ DOMAIN z.front = 1 .. Len(z.front)
        /\ Len(z.front) \in Nat /\ front[Len(z.front) + 1] = n
        /\ \A j \in 1 .. Len(z.front) : front[j] = z.front[j]
    BY <1>2, AppendProperties, LenProperties
  <2> HIDE DEF front
  <2>2. Len(z.front) + 1 \in DOMAIN front  BY <2>1
  <2>3. \A j \in DOMAIN z.front : j \in DOMAIN front  BY <2>1
  <2> QED BY <2>1, <2>2, <2>3 DEF ToSet
<1>5. \A j \in DOMAIN c.pool : j # i => pool[j] = z.pool[j]  BY <1>2
<1>6. i \in DOMAIN c.pool /\ (i <= c.k => i - 1 <= c.k) /\ (i > c.k => i - 1 > c.k \/ i = c.k + 1)
  BY <1>2
<1> HIDE DEF front, pool, pages, n
<1>7. CASE take
  <2>1. i > c.k /\ y = [z EXCEPT !.front = front, !.pool = pool, !.pages = pages]
    BY <1>3, <1>7
  <2> HIDE DEF take
  <2>2. /\ y.front = front /\ y.pool = pool /\ y.pages = pages /\ y.k = z.k /\ y.snap = z.snap
        /\ y.full = z.full /\ y.computed = z.computed
    BY <1>1, <2>1 DEF ListSet
  <2>3. ASSUME NEW j \in DOMAIN c.pool, ~y.pool[j].flag
        PROVE  ~c.pool[j].flag \/ c.pool[j].id \in ToSet(y.front)
    <3>1. CASE j = i  BY <1>4, <2>2, <3>1 DEF n
    <3>2. CASE j # i  BY <1>4, <1>5, <2>2, <2>3, <3>2 DEF Picking
    <3> QED BY <3>1, <3>2
  <2>4. ASSUME NEW p \in y.pages PROVE p \in c.pages \/ \E m \in ToSet(y.front) : Page[m] = p
    <3>1. p = Page[n] \/ p \in z.pages  BY <2>2, <2>4 DEF pages
    <3> QED BY <1>4, <2>2, <3>1 DEF Picking
  <2>5. \/ ~c.pool[c.k + 1].flag
        \/ c.pool[c.k + 1].id \in ToSet(y.front)
        \/ c.kind = "page" /\ Page[c.pool[c.k + 1].id] \in c.pages
    <3>1. CASE i = c.k + 1  BY <1>4, <2>2, <3>1 DEF n
    <3>2. CASE i - 1 > c.k  BY <1>4, <2>2, <3>2 DEF Picking
    <3> QED BY <1>6, <2>1, <3>1, <3>2
  <2>6. ~(i <= c.k)  BY <1>2, <2>1
  <2> QED BY <2>2, <2>3, <2>4, <2>5, <2>6 DEF Picking
<1>8. CASE ~take
  <2>1. y = z  BY <1>3, <1>8
  <2>2. ASSUME i = c.k + 1
        PROVE  ~c.pool[c.k + 1].flag \/ (c.kind = "page" /\ Page[c.pool[c.k + 1].id] \in c.pages)
    <3>1. i - 1 <= c.k /\ i > c.k  BY <1>2, <2>2
    <3>2. z.front = << >> /\ z.pages = c.pages  BY <3>1 DEF Picking
    <3>3. Len(z.front) < Beam  BY <1>2, <3>2
    <3>4. ~c.pool[i].flag \/ (c.kind = "page" /\ Page[n] \in z.pages)
      <4>1. i > c.k  BY <3>1
      <4> QED BY Zenon, <1>8, <3>3, <4>1
    <3>5. ~c.pool[i].flag \/ (c.kind = "page" /\ Page[n] \in c.pages)  BY <3>2, <3>4
    <3>6. n = c.pool[c.k + 1].id /\ c.pool[i] = c.pool[c.k + 1]  BY <2>2 DEF n
    <3> HIDE DEF take
    <3> QED BY <3>5, <3>6
  <2> HIDE DEF take
  <2> QED BY <1>6, <2>1, <2>2 DEF Picking
<1> QED BY <1>7, <1>8

(* The first entry from k on is picked, or was read, or its page was.       *)
LEMMA PickPicks ==
    ASSUME NEW c, ListOK(c), Rest(c), ~SearchEnds(c), NEW x, x = PickBeam(c)
    PROVE  Picked(x) /\ ~SearchEnds(x)
<1> DEFINE F == Picks(c, Unpicked(c), Positions(c))
           N == Len(c.pool)
           S == { z \in ListSet : Repicked(c, z) }
           Upto == { iz \in (0 .. N) \X S : Picking(c, iz[1], iz[2]) }
           g == [ i \in 0 .. N |-> <<i, F[i]>> ]
<1>1. c \in ListSet  BY DEF ListOK
<1>2. N \in Nat /\ DOMAIN c.pool = 1 .. N /\ c.k \in Nat /\ \A i \in 1 .. N : c.pool[i].id \in Nodes
  <2>1. N \in Nat /\ DOMAIN c.pool = 1 .. N /\ \A i \in 1 .. N : c.pool[i].id \in Nodes
    BY <1>1, Fields
  <2>2. c.k \in Nat  BY <1>1 DEF ListSet
  <2> HIDE DEF N
  <2> QED BY <2>1, <2>2
<1> HIDE DEF F
<1>3. /\ F[0] = Unpicked(c) /\ F[N] = x
      /\ \A i \in 0 .. N : Repicked(c, F[i])
      /\ \A i \in 1 .. N : F[i] = Pick(F[i - 1], c, i)
  BY PicksInTurn DEF F
<1>20. \A i \in 0 .. N : F[i] \in S  BY <1>3 DEF Repicked
<1>4. g[0] \in Upto
  <2> DEFINE z == Unpicked(c)
  <2>1. /\ z.k = c.k /\ z.snap = c.snap /\ z.full = c.full /\ z.computed = c.computed
        /\ z.pool = c.pool /\ z.pages = c.pages /\ z.front = << >>
    BY <1>1 DEF ListSet, Unpicked
  <2> HIDE DEF z
  <2>2. ~(0 > c.k)  BY <1>2
  <2>3. Picking(c, 0, z)  BY <2>1, <2>2 DEF Picking
  <2>4. 0 \in 0 .. N  BY <1>2
  <2> HIDE DEF S, N
  <2> QED BY <1>3, <1>20, <2>3, <2>4 DEF z
<1>5. ASSUME NEW i \in 1 .. N, g[i - 1] \in Upto PROVE g[i] \in Upto
  <2> DEFINE z == F[i - 1]
             y == F[i]
  <2>1. i - 1 \in 0 .. N /\ i \in 0 .. N  BY <1>2
  <2>2. Picking(c, i - 1, z)  BY <1>5, <2>1
  <2>3. Repicked(c, z) /\ y = Pick(z, c, i)  BY <1>3, <2>1
  <2> HIDE DEF z, y
  <2>4. Picking(c, i, y)  BY <2>2, <2>3, PickingGoesOn
  <2> HIDE DEF S, N
  <2> QED BY <1>20, <2>1, <2>4 DEF y
<1> HIDE DEF g, Upto
<1>6. \A i \in 0 .. N : g[i] \in Upto  BY <1>2, <1>4, <1>5, KeptToTheEnd
<1>7. Picking(c, N, x) /\ Repicked(c, x)
  <2>1. N \in 0 .. N  BY <1>2
  <2>2. g[N] = <<N, F[N]>> /\ g[N] \in Upto  BY <1>6, <2>1 DEF g
  <2> HIDE DEF S, N
  <2> QED BY <1>3, <2>1, <2>2 DEF Upto
<1>8. c.k < N /\ c.k + 1 \in 1 .. N
  <2>1. c.k < N
    <3>1. ~(c.k >= N)  BY DEF SearchEnds
    <3> HIDE DEF N
    <3> QED BY <1>2, <3>1
  <2> HIDE DEF N
  <2> QED BY <1>2, <2>1
<1>9. /\ DOMAIN x.pool = 1 .. N /\ Len(x.pool) = N /\ x.k = c.k /\ x.snap = c.snap /\ x.kind = c.kind
      /\ x.seen = c.seen /\ \A i \in 1 .. N : x.pool[i].id = c.pool[i].id
  <2>1. x \in ListSet /\ Len(x.pool) = N  BY <1>7 DEF Repicked
  <2>2. DOMAIN x.pool = 1 .. N  BY <2>1, Fields
  <2> HIDE DEF N
  <2> QED BY <1>2, <1>7, <2>1, <2>2 DEF Picking, Repicked
<1>10. \A n : Done(c, n) => Done(x, n)
  <2>1. Expanded(x) = Expanded(c)  BY <1>7 DEF Expanded, Picking
  <2> QED BY <1>9, <2>1 DEF Done
<1>19. N > c.k  BY <1>2, <1>8
<1> HIDE DEF N
<1>11. ~SearchEnds(x)  BY <1>2, <1>8, <1>9 DEF SearchEnds
<1>12. ASSUME NEW i \in 1 .. x.k PROVE Done(x, x.pool[i].id)
  <2>1. i \in 1 .. c.k /\ i \in 1 .. N  BY <1>2, <1>8, <1>9
  <2> QED BY <1>9, <1>10, <2>1 DEF Rest
<1>13. ASSUME NEW i \in DOMAIN x.pool, ~x.pool[i].flag
       PROVE  Done(x, x.pool[i].id) \/ x.pool[i].id \in ToSet(x.front)
  <2>1. ~c.pool[i].flag \/ c.pool[i].id \in ToSet(x.front)
    BY <1>2, <1>7, <1>9, <1>13 DEF Picking
  <2> QED BY <1>2, <1>9, <1>10, <1>13, <2>1 DEF Rest
<1>14. ASSUME c.kind = "page", NEW m \in Nodes, Page[m] \in c.pages
       PROVE  Done(x, m) \/ m \in OnPages(x.snap)
  BY <1>9, <1>10, <1>14 DEF Rest
<1>15. \/ Done(x, x.pool[x.k + 1].id)
       \/ x.pool[x.k + 1].id \in ToSet(x.front)
       \/ x.kind = "page" /\ x.pool[x.k + 1].id \in OnPages(x.snap)
  <2> DEFINE e == c.pool[c.k + 1]
  <2>1. x.pool[x.k + 1].id = e.id /\ e.id \in Nodes /\ (~e.flag => Done(c, e.id))
    BY <1>2, <1>8, <1>9 DEF Rest
  <2>2. \/ ~e.flag
        \/ e.id \in ToSet(x.front)
        \/ c.kind = "page" /\ Page[e.id] \in c.pages
    BY <1>7, <1>19 DEF Picking
  <2> HIDE DEF e
  <2> QED BY <1>9, <1>10, <1>14, <2>1, <2>2
<1>16. ASSUME x.kind = "page"
       PROVE  /\ \A i \in DOMAIN x.snap : Done(x, x.snap[i])
              /\ \A m \in Nodes : Page[m] \in x.pages =>
                   Done(x, m) \/ m \in OnPages(x.snap) \/ m \in OnPages(x.front)
  <2>1. \A i \in DOMAIN x.snap : Done(x, x.snap[i])  BY <1>9, <1>10, <1>16 DEF Rest
  <2>2. ASSUME NEW m \in Nodes, Page[m] \in x.pages
        PROVE  Done(x, m) \/ m \in OnPages(x.snap) \/ m \in OnPages(x.front)
    <3>1. Page[m] \in c.pages \/ \E n \in ToSet(x.front) : Page[n] = Page[m]
      BY <1>7, <2>2 DEF Picking
    <3>2. CASE Page[m] \in c.pages  BY <1>9, <1>14, <1>16, <3>2
    <3>3. CASE \E n \in ToSet(x.front) : Page[n] = Page[m]  BY <3>3 DEF ToSet, OnPages
    <3> QED BY <3>1, <3>2, <3>3
  <2> QED BY <2>1, <2>2
<1> QED BY <1>11, <1>12, <1>13, <1>15, <1>16 DEF Picked

LEMMA FreshRests == ASSUME NEW c, Fresh(c) PROVE Rest(c) /\ Visited(c)
<1>1. \A i \in 1 .. 0 : FALSE  OBVIOUS
<1>2. DOMAIN << >> = {}  OBVIOUS
<1> QED BY <1>1, <1>2 DEF Fresh, Rest, Visited

(* The first ids are flagged and not visited, before they are sorted ...    *)
LEMMA NewFresh ==
    ASSUME NEW kind \in Kinds, NEW dyn \in BOOLEAN, NEW query \in Queries,
           NEW entries \in Entries \cup {<<Medoid>>},
           NEW c, c = NewList(kind, dyn, query, entries)
    PROVE  Fresh(c)
<1>1. /\ c.k = 0 /\ c.pages = {} /\ c.snap = << >>
      /\ \A i \in DOMAIN c.pool : c.pool[i] = Entry(c.pool[i].id)
  BY NewListOK
<1>2. \A n : Entry(n).flag /\ ~Entry(n).done  BY DEF Entry
<1> QED BY <1>1, <1>2 DEF Fresh

(* ... and after.                                                           *)
LEMMA FirstFresh ==
    ASSUME NEW kind \in Kinds, NEW dyn \in BOOLEAN, NEW query \in Queries,
           NEW entries \in Entries \cup {<<Medoid>>},
           NEW c, c = SortPool(NewList(kind, dyn, query, entries))
    PROVE  Fresh(c)
<1> DEFINE new == NewList(kind, dyn, query, entries)
<1>1. new = NewList(kind, dyn, query, entries) /\ c = SortPool(new)  OBVIOUS
<1> HIDE DEF new
<1>2. ListOK(new) /\ new.seen = Ids(new.pool)  BY <1>1, NewListOK
<1>3. Fresh(new)  BY <1>1, NewFresh
<1>4. /\ c.k = new.k /\ c.pages = new.pages /\ c.snap = new.snap
      /\ \A i \in DOMAIN c.pool : \E j \in DOMAIN new.pool : c.pool[i] = new.pool[j]
  BY <1>1, <1>2, SortKeeps
<1> QED BY <1>3, <1>4 DEF Fresh

LEMMA FixOfLabels ==
    ASSUME NEW c
    PROVE  /\ Rest(c) => \A label \in Resting : FixOf(label, c)
           /\ Picked(c) /\ ~SearchEnds(c) => FixOf("explore", c)
           /\ AllDone(c) => FixOf("refine", c) /\ FixOf("refine_read", c)
           /\ Visited(c) => \A label \in PipeLabels : FixOf(label, c)
           /\ (IF SearchEnds(c) THEN Rest(c) ELSE Picked(c)) => FixOf("coro", c)
           /\ FixOf("link", c)
  BY DEF FixOf, Resting, PipeLabels

(* A step of thread t changes that thread's lists only.                     *)
LEMMA FixMoves ==
    ASSUME FixInv, SearchIInv, NEW t \in Threads, NEW label, NEW lists,
           Goto(t, label), list' = [list EXCEPT ![t] = lists],
           \A i \in DOMAIN lists : FixOf(label, lists[i])
    PROVE  FixInv'
<1>1. pc \in [Threads -> Labels] /\ list \in [Threads -> Seq(ListSet)]
  BY DEF SearchIInv, TypesOK
<1>2. \A u \in Threads : pc'[u] = IF u = t THEN label ELSE pc[u]  BY <1>1 DEF Goto
<1>3. \A u \in Threads : list'[u] = IF u = t THEN lists ELSE list[u]  BY <1>1
<1>4. ASSUME NEW u \in Threads, NEW i \in DOMAIN list'[u] PROVE FixOf(pc'[u], list'[u][i])
  <2>1. CASE u = t  BY <1>2, <1>3, <1>4, <2>1
  <2>2. CASE u # t
    <3>1. pc'[u] = pc[u] /\ list'[u] = list[u]  BY <1>2, <1>3, <2>2
    <3> QED BY <1>4, <3>1 DEF FixInv
  <2> QED BY <2>1, <2>2
<1> QED BY <1>4 DEF FixInv

(* The same for a call with one list. *)
LEMMA FixMovesOne ==
    ASSUME FixInv, SearchIInv, NEW t \in Threads, NEW label, NEW d,
           Goto(t, label), SetList(t, d), FixOf(label, d)
    PROVE  FixInv'
<1> DEFINE lists == <<d>>
<1>1. list' = [list EXCEPT ![t] = lists]  BY DEF SetList
<1>2. \A i \in DOMAIN lists : FixOf(label, lists[i])  OBVIOUS
<1> HIDE DEF lists
<1> QED BY <1>1, <1>2, FixMoves

(* The same for a step that leaves the list alone. *)
LEMMA FixGoes ==
    ASSUME FixInv, SearchIInv, NEW t \in Threads, NEW label, Goto(t, label), UNCHANGED list,
           \A i \in DOMAIN list[t] : FixOf(label, list[t][i])
    PROVE  FixInv'
<1>1. list' = [list EXCEPT ![t] = list[t]]  BY HereOK DEF Same
<1> QED BY <1>1, FixMoves

LEMMA FixStays == ASSUME FixInv, UNCHANGED <<pc, list>> PROVE FixInv'
  BY DEF FixInv

LEMMA FixIdle ==
    ASSUME FixInv, SearchIInv, NEW t \in Threads, Goto(t, "idle"), list' = [list EXCEPT ![t] = << >>]
    PROVE  FixInv'
<1> DEFINE lists == << >>
<1>1. \A i \in DOMAIN lists : FALSE  OBVIOUS
<1> HIDE DEF lists
<1>2. list' = [list EXCEPT ![t] = lists]  BY DEF lists
<1> QED BY <1>1, <1>2, FixMoves

LEMMA AlikeRests ==
    ASSUME NEW c, NEW x, Alike(c, x)
    PROVE  (Rest(c) => Rest(x)) /\ (AllDone(c) => AllDone(x))
<1>1. \A n : Done(c, n) => Done(x, n)  BY DEF Alike, Done
<1>2. Rest(c) => Rest(x)  BY <1>1 DEF Rest, Alike
<1>3. AllDone(c) => AllDone(x)  BY <1>1 DEF AllDone, Alike
<1> QED BY <1>2, <1>3

(* At its end a search is at rest with its whole list.                      *)
LEMMA RestEnds ==
    ASSUME NEW c, ListOK(c), Rest(c), SearchEnds(c)
    PROVE  AllDone(c)
<1>1. c \in ListSet  BY DEF ListOK
<1>2. Len(c.pool) \in Nat /\ DOMAIN c.pool = 1 .. Len(c.pool)  BY <1>1, Fields
<1>3. c.k \in Nat /\ c.k >= Len(c.pool)  BY <1>1 DEF ListSet, SearchEnds
<1>4. \A i \in DOMAIN c.pool : i \in 1 .. c.k  BY <1>2, <1>3
<1> QED BY <1>4 DEF Rest, AllDone

(* The beam that a query of coro_search sends. *)
LEMMA IssuePicks ==
    ASSUME NEW c, Good(c), Rest(c), NEW x, x = Issue(c)
    PROVE  IF SearchEnds(x) THEN Rest(x) ELSE Picked(x)
<1>1. ListOK(c) /\ c \in ListSet  BY DEF Good, ListOK
<1>2. CASE SearchEnds(c)
  <2>1. x = [c EXCEPT !.front = << >>]  BY <1>2 DEF Issue
  <2>2. Alike(c, x)  BY <1>1, <2>1 DEF ListSet, Alike, Expanded
  <2>3. SearchEnds(x)  BY <1>2, <2>2 DEF SearchEnds, Alike
  <2> QED BY <2>2, <2>3, AlikeRests
<1>3. CASE ~SearchEnds(c)
  <2>1. x = PickBeam(c)  BY <1>3 DEF Issue
  <2> QED BY <1>1, <1>3, <2>1, PickPicks
<1> QED BY <1>2, <1>3

-----------------------------------------------------------------------------
(* Every step keeps what its search has reached.                            *)
LEMMA RoundFix ==
    ASSUME SearchIInv, FixInv, NEW t \in Threads, pc[t] \in RoundLabels
    PROVE  FixOf(pc[t], list[t][1]) /\ DOMAIN list[t] = {1}
<1> DEFINE lists == list[t]
           d == lists[1]
<1>1. lists = <<d>> /\ d \in ListSet  BY InRound
<1>2. DOMAIN <<d>> = {1}  OBVIOUS
<1> HIDE DEF d
<1>3. DOMAIN lists = {1}  BY <1>1, <1>2
<1> QED BY <1>3 DEF FixInv, d

(* Beam, page, filtered searches and inserts. *)
LEMMA SelectFix ==
    ASSUME SearchIInv, FixInv, NEW t \in Threads, Select(t)
    PROVE  FixInv'
<1> DEFINE b == list[t][1]
           c == PickBeam(b)
<1>1. pc[t] = "search" /\ pc[t] \in RoundLabels /\ ~SearchEnds(b)  BY DEF Select, RoundLabels
<1>2. Good(b) /\ Rest(b)  BY <1>1, InRound, RoundFix DEF FixOf, Resting
<1>3. c = PickBeam(b)  OBVIOUS
<1>4. CASE c.front = << >>
  <2> DEFINE d == Explore(c)
  <2>1. pc' = pc /\ SetList(t, d)  BY <1>4 DEF Select
  <2>2. Same(pc, t)  BY HereOK
  <2>3. d = Explore(c)  OBVIOUS
  <2> HIDE DEF b, c, d
  <2>4. Goto(t, "search")  BY <1>1, <2>1, <2>2 DEF Goto, Same
  <2>5. ListOK(b) /\ Nearest(b)  BY <1>2 DEF Good
  <2>6. Picked(c) /\ ~SearchEnds(c)  BY <1>1, <1>2, <1>3, <2>5, PickPicks
  <2>7. Repicked(b, c)  BY <1>3, <2>5, PickBeamKeeps
  <2>8. Good(c)  BY <2>5, <2>7, RepickedGood DEF Good
  <2>9. Rest(d)  BY <2>3, <2>6, <2>8, ExploreRests
  <2>10. FixOf("search", d)  BY <2>9, FixOfLabels DEF Resting
  <2> QED BY <2>1, <2>4, <2>10, FixMovesOne
<1>5. CASE c.front # << >>
  <2>1. SetList(t, c) /\ Goto(t, "explore")  BY <1>5 DEF Select
  <2> HIDE DEF b, c
  <2>2. ListOK(b)  BY <1>2 DEF Good
  <2>3. Picked(c) /\ ~SearchEnds(c)  BY <1>1, <1>2, <1>3, <2>2, PickPicks
  <2>4. FixOf("explore", c)  BY <2>3, FixOfLabels
  <2> QED BY <2>1, <2>4, FixMovesOne
<1> QED BY <1>4, <1>5

LEMMA ReadAndExploreFix ==
    ASSUME SearchIInv, FixInv, NEW t \in Threads, ReadAndExplore(t)
    PROVE  FixInv'
<1> DEFINE b == list[t][1]
           d == Explore(b)
<1>1. pc[t] = "explore" /\ pc[t] \in RoundLabels /\ SetList(t, d) /\ Goto(t, "search")
  BY DEF ReadAndExplore, RoundLabels
<1>2. Good(b) /\ Picked(b) /\ ~SearchEnds(b)  BY <1>1, InRound, RoundFix DEF FixOf
<1>3. d = Explore(b)  OBVIOUS
<1> HIDE DEF b, d
<1>4. Rest(d)  BY <1>2, <1>3, ExploreRests
<1>5. FixOf("search", d)  BY <1>4, FixOfLabels DEF Resting
<1> QED BY <1>1, <1>5, FixMovesOne

(* The batches of a filtered search leave the list as it is.                *)
LEMMA BatchFix ==
    ASSUME SearchIInv, FixInv, NEW t \in Threads,
           NEW d, Alike(list[t][1], d), SetList(t, d), NEW label, Goto(t, label),
           \/ pc[t] \in {"prefill", "prefill_read"} /\ label \in {"prefill", "prefill_read"}
           \/ pc[t] \in {"refine", "refine_read"} /\ label \in {"refine", "refine_read"}
    PROVE  FixInv'
<1>1. pc[t] \in RoundLabels  BY DEF RoundLabels
<1>2. FixOf(pc[t], list[t][1])  BY <1>1, RoundFix
<1>3. CASE pc[t] \in {"prefill", "prefill_read"} /\ label \in {"prefill", "prefill_read"}
  <2>1. Rest(list[t][1])  BY <1>2, <1>3 DEF FixOf, Resting
  <2>2. Rest(d)  BY <2>1, AlikeRests
  <2>3. FixOf(label, d)  BY <1>3, <2>2, FixOfLabels DEF Resting
  <2> QED BY <2>3, FixMovesOne
<1>4. CASE pc[t] \in {"refine", "refine_read"} /\ label \in {"refine", "refine_read"}
  <2>1. AllDone(list[t][1])  BY <1>2, <1>4 DEF FixOf
  <2>2. AllDone(d)  BY <2>1, AlikeRests
  <2>3. FixOf(label, d)  BY <1>4, <2>2, FixOfLabels
  <2> QED BY <2>3, FixMovesOne
<1> QED BY <1>3, <1>4

LEMMA NextBatchFix ==
    ASSUME SearchIInv, FixInv, NEW t \in Threads, NextBatch(t)
    PROVE  FixInv'
<1> DEFINE b == list[t][1]
           n == IF Len(b.batch) < Beam THEN Len(b.batch) ELSE Beam
           front == SubSeq(b.batch, 1, n)
           rest == SubSeq(b.batch, n + 1, Len(b.batch))
           d == [b EXCEPT !.front = front, !.batch = rest]
           label == IF pc[t] = "prefill" THEN "prefill_read" ELSE "refine_read"
<1>1. pc[t] \in {"prefill", "refine"} /\ pc[t] \in RoundLabels  BY DEF NextBatch, RoundLabels
<1>2. SetList(t, d) /\ Goto(t, label)  BY Zenon DEF NextBatch
<1>3. b \in ListSet  BY <1>1, InRound
<1>4. d = [b EXCEPT !.front = front, !.batch = rest]  OBVIOUS
<1> HIDE DEF d, front, rest, b
<1>5. Alike(b, d)  BY <1>3, <1>4 DEF ListSet, Alike, Expanded
<1> QED BY <1>1, <1>2, <1>5, BatchFix DEF b

LEMMA ReadBatchFix ==
    ASSUME SearchIInv, FixInv, NEW t \in Threads, ReadBatch(t)
    PROVE  FixInv'
<1> DEFINE b == list[t][1]
           heap == Pushes(b.query.exact, b.heap, b.front)[Len(b.front)]
           d == [b EXCEPT !.heap = heap]
           label == IF pc[t] = "prefill_read" THEN "prefill" ELSE "refine"
<1>1. pc[t] \in {"prefill_read", "refine_read"} /\ pc[t] \in RoundLabels
  BY DEF ReadBatch, RoundLabels
<1>2. SetList(t, d) /\ Goto(t, label)  BY Zenon DEF ReadBatch, Through, Pushes
<1>3. b \in ListSet  BY <1>1, InRound
<1>4. d = [b EXCEPT !.heap = heap]  OBVIOUS
<1> HIDE DEF d, heap, b
<1>5. Alike(b, d)  BY <1>3, <1>4 DEF ListSet, Alike, Expanded
<1> QED BY <1>1, <1>2, <1>5, BatchFix DEF b

LEMMA RefineFix ==
    ASSUME SearchIInv, FixInv, NEW t \in Threads, Refine(t)
    PROVE  FixInv'
<1> DEFINE b == list[t][1]
           left == ToRefine(b)
           done == b.computed \cup ToSet(left)
           d == [b EXCEPT !.batch = left, !.cands = << >>, !.computed = done]
<1>1. pc[t] = "search" /\ pc[t] \in RoundLabels /\ SearchEnds(b)  BY DEF Refine, RoundLabels
<1>2. SetList(t, d) /\ Goto(t, "refine")  BY Zenon DEF Refine
<1>3. b \in ListSet /\ ListOK(b) /\ Rest(b)
  BY <1>1, InRound, RoundFix DEF FixOf, Resting, Good
<1>4. d = [b EXCEPT !.batch = left, !.cands = << >>, !.computed = done]  OBVIOUS
<1>5. b.computed \subseteq done  OBVIOUS
<1> HIDE DEF d, left, done, b
<1>6. Alike(b, d)  BY <1>3, <1>4, <1>5 DEF ListSet, Alike, Expanded
<1>7. AllDone(d)  BY <1>1, <1>3, <1>6, RestEnds, AlikeRests
<1>8. FixOf("refine", d)  BY <1>7, FixOfLabels
<1> QED BY <1>2, <1>8, FixMovesOne

(* From one place at rest to the next.                                      *)
LEMMA PrefilledFix ==
    ASSUME SearchIInv, FixInv, NEW t \in Threads, Prefilled(t) \/ PopAgain(t)
    PROVE  FixInv'
<1>1. pc[t] \in Resting /\ pc[t] \in RoundLabels /\ Goto(t, "search") /\ UNCHANGED list
  BY DEF Prefilled, PopAgain, Resting, RoundLabels
<1>2. Rest(list[t][1]) /\ DOMAIN list[t] = {1}  BY <1>1, RoundFix DEF FixOf
<1>3. FixOf("search", list[t][1])  BY <1>2, FixOfLabels DEF Resting
<1> QED BY <1>1, <1>2, <1>3, FixGoes

LEMMA EndRoundsFix ==
    ASSUME SearchIInv, FixInv, NEW t \in Threads, EndRounds(t)
    PROVE  FixInv'
<1>1. CASE Goto(t, "idle") /\ list' = [list EXCEPT ![t] = << >>]  BY <1>1, FixIdle
<1>2. CASE Goto(t, "link") /\ UNCHANGED list
  <2>1. \A i \in DOMAIN list[t] : FixOf("link", list[t][i])  BY FixOfLabels
  <2> QED BY <1>2, <2>1, FixGoes
<1> QED BY <1>1, <1>2 DEF EndRounds

LEMMA BeginRoundsFix ==
    ASSUME SearchIInv, FixInv, NEW t \in Threads, BeginRounds(t)
    PROVE  FixInv'
<1>1. PICK kind \in mix[t] \ {"pipe", "coro"}, query \in Queries,
           entries \in Entries \cup {<<Medoid>>}, dyn \in BOOLEAN :
          \E c \in {SortPool(NewList(kind, dyn, query, entries))} :
          /\ kind = "insert" => entries = <<Medoid>>
          /\ kind \in {"page", "insert"} => ~dyn
          /\ kind # "filter" => SetList(t, c)
          /\ kind = "filter" =>
               \E S \in SUBSET Candidates :
                  /\ Cardinality(S) = IF Cardinality(Candidates) < KSearch
                                      THEN Cardinality(Candidates) ELSE KSearch
                  /\ SetList(t, [c EXCEPT !.batch = Ascending(S), !.computed = S])
          /\ Goto(t, CASE kind = "insert" -> "pop" [] kind = "filter" -> "prefill"
                       [] OTHER -> "search")
  BY DEF BeginRounds
<1> DEFINE c == SortPool(NewList(kind, dyn, query, entries))
           label == CASE kind = "insert" -> "pop" [] kind = "filter" -> "prefill"
                       [] OTHER -> "search"
<1>2. /\ kind # "filter" => SetList(t, c)
      /\ kind = "filter" =>
               \E S \in SUBSET Candidates :
                  SetList(t, [c EXCEPT !.batch = Ascending(S), !.computed = S])
      /\ Goto(t, label)
  BY <1>1
<1>3. kind \in Kinds
  <2>1. mix[t] \subseteq Kinds  BY DEF SearchIInv, TypesOK
  <2> QED BY <2>1
<1>4. c = SortPool(NewList(kind, dyn, query, entries))  OBVIOUS
<1>5. label \in Resting  BY DEF Resting
<1> HIDE DEF c, label
<1>6. Fresh(c) /\ c \in ListSet  BY <1>3, <1>4, FirstFresh, FirstList
<1>7. CASE kind # "filter"
  <2>1. FixOf(label, c)  BY <1>5, <1>6, FreshRests, FixOfLabels
  <2> QED BY <1>2, <1>7, <2>1, FixMovesOne
<1>8. CASE kind = "filter"
  <2>1. PICK S \in SUBSET Candidates : SetList(t, [c EXCEPT !.batch = Ascending(S), !.computed = S])
    BY <1>2, <1>8
  <2> DEFINE batch == Ascending(S)
             d == [c EXCEPT !.batch = batch, !.computed = S]
  <2>2. SetList(t, d) /\ d = [c EXCEPT !.batch = batch, !.computed = S]  BY <2>1
  <2> HIDE DEF d, batch
  <2>3. d.k = c.k /\ d.pages = c.pages /\ d.snap = c.snap /\ d.pool = c.pool
    BY <1>6, <2>2 DEF ListSet
  <2>4. Fresh(d)  BY <1>6, <2>3 DEF Fresh
  <2>5. FixOf(label, d)  BY <1>5, <2>4, FreshRests, FixOfLabels
  <2> QED BY <1>2, <2>2, <2>5, FixMovesOne
<1> QED BY <1>7, <1>8

(* A pipe search marks what it has expanded.                                *)
LEMMA PipeFix ==
    ASSUME SearchIInv, FixInv, NEW t \in Threads, pc[t] \in PipeLabels
    PROVE  /\ Visited(list[t][1]) /\ DOMAIN list[t] = {1}
           /\ list[t][1] \in ListSet /\ ListOK(list[t][1])
<1> DEFINE lists == list[t]
           d == lists[1]
<1>1. lists = <<d>> /\ d \in ListSet /\ ListOK(d)  BY InPipe
<1>2. DOMAIN <<d>> = {1}  OBVIOUS
<1> HIDE DEF d
<1>3. DOMAIN lists = {1}  BY <1>1, <1>2
<1>4. FixOf(pc[t], d)  BY <1>3 DEF FixInv, d
<1>5. Visited(d)  BY <1>4 DEF FixOf
<1> QED BY <1>1, <1>3, <1>5 DEF d

LEMMA PipeGoes ==
    ASSUME SearchIInv, FixInv, NEW t \in Threads, pc[t] \in PipeLabels,
           NEW label \in PipeLabels, Goto(t, label), UNCHANGED list
    PROVE  FixInv'
<1>1. Visited(list[t][1]) /\ DOMAIN list[t] = {1}  BY PipeFix
<1>2. FixOf(label, list[t][1])  BY <1>1, FixOfLabels
<1> QED BY <1>1, <1>2, FixGoes

LEMMA BeginPipeFix ==
    ASSUME SearchIInv, FixInv, NEW t \in Threads, BeginPipe(t)
    PROVE  FixInv'
<1>1. PICK query \in Queries, entries \in Entries \cup {<<Medoid>>} :
          SetList(t, NewList("pipe", FALSE, query, entries))
  BY DEF BeginPipe
<1> DEFINE kind == "pipe"
           dyn == FALSE
           c == NewList(kind, dyn, query, entries)
<1>2. kind \in Kinds /\ dyn \in BOOLEAN /\ c = NewList(kind, dyn, query, entries) /\ SetList(t, c)
  BY <1>1 DEF Kinds
<1> HIDE DEF kind, dyn, c
<1>3. Fresh(c)  BY <1>2, NewFresh
<1>4. FixOf("first_send", c)  BY <1>3, FreshRests, FixOfLabels DEF PipeLabels
<1>5. Goto(t, "first_send")  BY DEF BeginPipe
<1> QED BY <1>2, <1>4, <1>5, FixMovesOne

LEMMA PipeSelectFix ==
    ASSUME SearchIInv, FixInv, NEW t \in Threads, PipeSelect(t)
    PROVE  FixInv'
<1> DEFINE c == list[t][1]
           i == First(Unread(t))
           front == <<c.pool[i].id>>
           pool == [j \in DOMAIN c.pool |->
                      IF j <= i THEN [c.pool[j] EXCEPT !.flag = FALSE] ELSE c.pool[j]]
           d == [c EXCEPT !.front = front, !.pool = pool]
           label == IF pc[t] = "send" THEN "submit" ELSE "first_submit"
<1>1. pc[t] \in PipeLabels /\ Goto(t, label) /\ label \in PipeLabels  BY DEF PipeSelect, PipeLabels
<1>2. SetList(t, d)  BY Zenon DEF PipeSelect
<1>3. Visited(c) /\ c \in ListSet  BY <1>1, PipeFix
<1>4. \A j \in DOMAIN c.pool : c.pool[j] \in EntrySet  BY <1>3, Fields
<1>5. d = [c EXCEPT !.front = front, !.pool = pool]  OBVIOUS
<1> HIDE DEF i, c, front, label, d
<1>6. DOMAIN pool = DOMAIN c.pool
      /\ \A j \in DOMAIN c.pool : pool[j].id = c.pool[j].id /\ pool[j].done = c.pool[j].done
  BY <1>4 DEF EntrySet
<1> HIDE DEF pool
<1>7. d.pool = pool /\ d.seen = c.seen /\ d.full = c.full /\ d.computed = c.computed
  BY <1>3, <1>5 DEF ListSet
<1>8. Visited(d)  BY <1>3, <1>6, <1>7 DEF Visited, Done, Expanded
<1>9. FixOf(label, d)  BY <1>1, <1>8, FixOfLabels
<1> QED BY <1>1, <1>2, <1>9, FixMovesOne

LEMMA PipeSubmitFix ==
    ASSUME SearchIInv, FixInv, NEW t \in Threads, PipeSubmit(t) \/ PipePoll(t)
    PROVE  FixInv'
<1>1. CASE PipeSubmit(t)
  <2> DEFINE label == IF pc[t] = "submit" THEN "send" ELSE "first_send"
  <2>1. pc[t] \in PipeLabels /\ label \in PipeLabels /\ Goto(t, label) /\ UNCHANGED list
    BY <1>1 DEF PipeSubmit, PipeLabels
  <2> QED BY <2>1, PipeGoes
<1>2. CASE PipePoll(t)
  <2>1. pc[t] = "poll" /\ Goto(t, "send") /\ UNCHANGED list
    BY Zenon, <1>2 DEF PipePoll
  <2>2. pc[t] \in PipeLabels /\ "send" \in PipeLabels  BY <2>1 DEF PipeLabels
  <2> QED BY <2>1, <2>2, PipeGoes
<1> QED BY <1>1, <1>2

LEMMA PipeSentFix ==
    ASSUME SearchIInv, FixInv, NEW t \in Threads, PipeSent(t)
    PROVE  FixInv'
<1> DEFINE c == list[t][1]
           d == SortPool(c)
<1>1. pc[t] \in {"first_send", "send"} /\ pc[t] \in PipeLabels
      /\ "calc" \in PipeLabels /\ "poll" \in PipeLabels
  BY DEF PipeSent, PipeLabels
<1>2. CASE pc[t] = "send"
  <2>1. Goto(t, "calc") /\ UNCHANGED list  BY <1>2 DEF PipeSent
  <2> QED BY <1>1, <2>1, PipeGoes
<1>3. CASE pc[t] = "first_send"
  <2>1. Goto(t, "poll") /\ SetList(t, d)  BY <1>3 DEF PipeSent
  <2>2. Visited(c) /\ ListOK(c) /\ c.seen = Ids(c.pool)  BY <1>1, <1>3, PipeFix, InPipe
  <2>3. d = SortPool(c)  OBVIOUS
  <2> HIDE DEF c, d
  <2>4. /\ d.seen = Ids(d.pool) /\ d.full = c.full /\ d.computed = c.computed
        /\ \A i \in DOMAIN d.pool : \E j \in DOMAIN c.pool : d.pool[i] = c.pool[j]
        /\ \A j \in DOMAIN c.pool : \E i \in DOMAIN d.pool : d.pool[i] = c.pool[j]
    <3>1. /\ d.seen = Ids(d.pool) /\ d.full = c.full /\ d.computed = c.computed
      BY <2>2, <2>3, SortKeeps
    <3>2. \A i \in DOMAIN d.pool : \E j \in DOMAIN c.pool : d.pool[i] = c.pool[j]
      BY <2>2, <2>3, SortKeeps
    <3>3. \A j \in DOMAIN c.pool : \E i \in DOMAIN d.pool : d.pool[i] = c.pool[j]
      BY <2>2, <2>3, SortKeeps
    <3> QED BY <3>1, <3>2, <3>3
  <2>5. c.seen \subseteq d.seen
    <3> SUFFICES ASSUME NEW j \in DOMAIN c.pool PROVE c.pool[j].id \in Ids(d.pool)
      BY <2>2, <2>4 DEF Ids
    <3>1. PICK i \in DOMAIN d.pool : d.pool[i] = c.pool[j]  BY <2>4
    <3> QED BY <3>1 DEF Ids
  <2>6. \A n : Done(c, n) => Done(d, n)  BY <2>4, <2>5 DEF Done, Expanded
  <2>7. Visited(d)
    <3> SUFFICES ASSUME NEW i \in DOMAIN d.pool, d.pool[i].done PROVE Done(d, d.pool[i].id)
      BY DEF Visited
    <3>1. PICK j \in DOMAIN c.pool : d.pool[i] = c.pool[j]  BY <2>4
    <3> QED BY <2>2, <2>6, <3>1 DEF Visited
  <2>8. FixOf("poll", d)  BY <1>1, <2>7, FixOfLabels
  <2> QED BY <2>1, <2>8, FixMovesOne
<1> QED BY <1>1, <1>2, <1>3

LEMMA PipeCalcFix ==
    ASSUME SearchIInv, FixInv, NEW t \in Threads, PipeCalc(t)
    PROVE  FixInv'
<1> DEFINE c == list[t][1]
           p == pipe[t]
           got == DOMAIN p.slotOf
           ready == {i \in DOMAIN c.pool : ~c.pool[i].done /\ c.pool[i].id \in got}
           i == First(ready)
           id == c.pool[i].id
           page == p.onPage[p.slotOf[id]]
           b == [c EXCEPT !.pool[i] = [@ EXCEPT !.flag = FALSE, !.done = TRUE]]
           d == Expand(b, id, page)
<1>1. pc[t] = "calc" /\ pc[t] \in PipeLabels /\ pc[t] \notin Submitting /\ "poll" \in PipeLabels
  BY DEF PipeCalc, PipeLabels, Submitting
<1>2. (IF ready = {} THEN UNCHANGED list ELSE SetList(t, d)) /\ Goto(t, "poll")
  BY Zenon DEF PipeCalc
<1>3. CASE ready = {}  BY <1>1, <1>2, <1>3, PipeGoes
<1>4. CASE ready # {}
  <2>1. SetList(t, d)  BY <1>2, <1>4
  <2>2. /\ PipeAt(c, flying[t], p, pc[t], want[t], held[t])
        /\ c \in ListSet /\ Good(c) /\ ListOK(c) /\ Nearest(c) /\ Visited(c)
    BY <1>1, InPipe, PipeFix DEF Good
  <2>3. /\ c.pool \in Seq(EntrySet) /\ DOMAIN c.pool = 1 .. Len(c.pool) /\ Len(c.pool) \in Nat
        /\ \A j \in DOMAIN c.pool : c.pool[j] \in EntrySet /\ c.pool[j].id \in Nodes
    BY <2>2, Fields
  <2>4. i \in DOMAIN c.pool /\ id \in got
    <3> DEFINE U == ready
    <3>1. U \in SUBSET Nat /\ U # {} /\ i = First(U)  BY <1>4, <2>3
    <3> HIDE DEF U, i, c, got
    <3>2. \E j \in U : \A k \in U : j <= k  BY <3>1, LeastNatural
    <3>3. i \in U  BY <3>1, <3>2 DEF First
    <3> QED BY <3>3 DEF U, id
  <2> HIDE DEF i
  <2>5. page \in Nat
    <3>1. p \in RingSet(got)
      <4> HIDE DEF c
      <4> QED BY <2>2 DEF PipeAt
    <3>2. p.slotOf \in [got -> 0 .. MaxReads - 1] /\ p.onPage \in [0 .. MaxReads - 1 -> Nat]
      BY <3>1 DEF RingSet
    <3> HIDE DEF p, got, id
    <3> QED BY <2>4, <3>2 DEF page
  <2> DEFINE e == [c.pool[i] EXCEPT !.flag = FALSE, !.done = TRUE]
             pool == [c.pool EXCEPT ![i] = e]
  <2>6. e \in EntrySet /\ e.id = id
    <3> DEFINE o == c.pool[i]
    <3>1. e = [o EXCEPT !.flag = FALSE, !.done = TRUE] /\ id = o.id /\ o \in EntrySet  BY <2>3, <2>4
    <3> HIDE DEF o, e, id
    <3> QED BY <3>1 DEF EntrySet
  <2>7. b = [c EXCEPT !.pool = pool]  OBVIOUS
  <2>8. d = Expand(b, id, page) /\ id \in Nodes  BY <2>3, <2>4
  <2> HIDE DEF c, e, b, d, page, p, got, id
  <2>9. /\ pool \in Seq(EntrySet) /\ Len(pool) = Len(c.pool) /\ DOMAIN pool = DOMAIN c.pool
        /\ \A j \in DOMAIN c.pool : pool[j] = IF j = i THEN e ELSE c.pool[j]
    BY <2>3, <2>4, <2>6, ExceptSeq
  <2>10. \A j \in DOMAIN c.pool : pool[j].id = c.pool[j].id  BY <2>6, <2>9 DEF id
  <2> HIDE DEF pool
  <2>11. [c EXCEPT !.pool = pool] \in ListSet  BY <2>2, <2>9 DEF ListSet
  <2>12. b \in ListSet  BY <2>7, <2>11
  <2>13. /\ b.kind = c.kind /\ b.dyn = c.dyn /\ b.query = c.query /\ b.L = c.L /\ b.seen = c.seen
         /\ b.pool = pool /\ b.heap = c.heap /\ b.k = c.k /\ b.nk = c.nk
         /\ b.full = c.full /\ b.computed = c.computed
    BY <2>2, <2>7 DEF ListSet
  <2>14. Repicked(c, b)  BY <2>2, <2>9, <2>10, <2>12, <2>13 DEF Repicked, ListOK
  <2>15. Good(b)  BY <2>2, <2>14, RepickedGood DEF Good
  <2>16. d \in Along(b) /\ Done(d, id)  BY <2>5, <2>8, <2>15, ExpandAhead
  <2>17. Ahead(b, d) /\ Grown(b, d)  BY <2>16, AlongGood
  <2>18. \A n : Done(c, n) => Done(d, n)
    <3>1. \A n : Done(c, n) => Done(b, n)  BY <2>13 DEF Done, Expanded
    <3> QED BY <2>17, <3>1, StaysDone
  <2>19. Visited(d)
    <3> SUFFICES ASSUME NEW j \in DOMAIN d.pool, d.pool[j].done PROVE Done(d, d.pool[j].id)
      BY DEF Visited
    <3>1. d.pool[j] # Entry(d.pool[j].id)  BY DEF Entry
    <3>2. PICK k \in DOMAIN c.pool : d.pool[j] = pool[k]  BY <2>9, <2>13, <2>17, <3>1 DEF Grown
    <3>3. CASE k = i
      <4>1. d.pool[j].id = id  BY <2>6, <2>9, <3>2, <3>3
      <4> QED BY <2>16, <4>1
    <3>4. CASE k # i  BY <2>2, <2>9, <2>18, <3>2, <3>4 DEF Visited
    <3> QED BY <3>3, <3>4
  <2>20. FixOf("poll", d)  BY <1>1, <2>19, FixOfLabels
  <2> QED BY <1>2, <2>1, <2>20, FixMovesOne
<1> QED BY <1>3, <1>4

(* A call that returns leaves no list.                                      *)
LEMMA ReturnFix ==
    ASSUME SearchIInv, FixInv, NEW t \in Threads, Publish(t) \/ EndPipe(t) \/ EndCoro(t)
    PROVE  FixInv'
<1>1. Goto(t, "idle") /\ list' = [list EXCEPT ![t] = << >>]
  BY Zenon DEF Publish, EndPipe, EndCoro
<1> QED BY <1>1, FixIdle

(* The lists of coro_search: each is at rest or waits for its beam. *)
LEMMA BeginCoroFix ==
    ASSUME SearchIInv, FixInv, NEW t \in Threads, BeginCoro(t)
    PROVE  FixInv'
<1>1. Goto(t, "coro")  BY DEF BeginCoro
<1>2. PICK query \in [1 .. NCoros -> Queries], entries \in Entries \cup {<<Medoid>>} :
          \E new \in {[i \in 1 .. NCoros |-> NewList("coro", FALSE, query[i], entries)]} :
          \E sorted \in {[i \in 1 .. NCoros |-> SortPool(new[i])]} :
          \E cs \in {[i \in 1 .. NCoros |-> Issue(sorted[i])]} :
              /\ list' = [list EXCEPT ![t] = cs]
              /\ flying' = [flying EXCEPT ![t] =
                              FlattenSeq([i \in DOMAIN cs |-> Batch(cs[i], i)])]
  BY DEF BeginCoro
<1> DEFINE new == [i \in 1 .. NCoros |-> NewList("coro", FALSE, query[i], entries)]
           sorted == [i \in 1 .. NCoros |-> SortPool(new[i])]
           cs == [i \in 1 .. NCoros |-> Issue(sorted[i])]
<1>3. list' = [list EXCEPT ![t] = cs]
  <2> DEFINE Sent(issued) ==
                 /\ list' = [list EXCEPT ![t] = issued]
                 /\ flying' = [flying EXCEPT ![t] =
                                 FlattenSeq([i \in DOMAIN issued |-> Batch(issued[i], i)])]
             SortedOf(news) == [i \in 1 .. NCoros |-> SortPool(news[i])]
             IssuedOf(sorts) == [i \in 1 .. NCoros |-> Issue(sorts[i])]
  <2>1. \E news \in {new} : \E sorts \in {SortedOf(news)} : \E issued \in {IssuedOf(sorts)} : Sent(issued)
    BY <1>2
  <2>2. cs = IssuedOf(SortedOf(new))  OBVIOUS
  <2> HIDE DEF Sent, SortedOf, IssuedOf, cs, sorted, new
  <2>3. Sent(cs)  BY <2>1, <2>2
  <2> QED BY <2>3 DEF Sent
<1>4. ASSUME NEW i \in 1 .. NCoros
      PROVE  FixOf("coro", cs[i])
  <2> DEFINE kind == "coro"
             dyn == FALSE
             q == query[i]
             c == SortPool(NewList(kind, dyn, q, entries))
  <2>1. kind \in Kinds /\ dyn \in BOOLEAN /\ q \in Queries
        /\ c = SortPool(NewList(kind, dyn, q, entries))
    BY DEF Kinds
  <2>2. sorted[i] = c /\ cs[i] = Issue(c)  OBVIOUS
  <2> HIDE DEF kind, dyn, q, c, cs, sorted, new
  <2>3. Good(c) /\ c.kind = kind  BY <2>1, FirstList
  <2>4. Rest(c)  BY <2>1, FirstFresh, FreshRests
  <2>5. IF SearchEnds(cs[i]) THEN Rest(cs[i]) ELSE Picked(cs[i])  BY <2>2, <2>3, <2>4, IssuePicks
  <2> QED BY <2>5, FixOfLabels
<1>5. DOMAIN cs = 1 .. NCoros  OBVIOUS
<1> HIDE DEF cs, new, sorted
<1> QED BY <1>1, <1>3, <1>4, <1>5, FixMoves

LEMMA StepCoroFix ==
    ASSUME SearchIInv, FixInv, NEW t \in Threads, StepCoro(t)
    PROVE  FixInv'
<1> DEFINE had == list[t]
<1>1. pc[t] = "coro" /\ pc' = pc  BY DEF StepCoro
<1>2. Goto(t, "coro")  BY <1>1, HereOK DEF Same, Goto
<1>3. /\ had \in Seq(ListSet) /\ Len(had) = NCoros /\ DOMAIN had = 1 .. NCoros
      /\ had[1].kind = "coro" /\ want[t] = << >> /\ held[t] = {}
      /\ \A i \in DOMAIN had : Good(had[i])
  BY <1>1, InCoro
<1>4. PICK i \in 1 .. NCoros :
        /\ ~SearchEnds(list[t][i])
        /\ \E explored \in {Explore(list[t][i])} : \E c \in {Issue(explored)} :
             list' = [list EXCEPT ![t][i] = c]
  BY DEF StepCoro
<1> DEFINE old == had[i]
           explored == Explore(old)
           c == Issue(explored)
           lists == [had EXCEPT ![i] = c]
<1>5. list' = [list EXCEPT ![t] = lists]  BY <1>4
<1>6. Good(old) /\ Picked(old) /\ ~SearchEnds(old) /\ explored = Explore(old) /\ c = Issue(explored)
  <2>1. FixOf(pc[t], old)  BY <1>3 DEF FixInv
  <2> QED BY <1>1, <1>3, <1>4, <2>1 DEF FixOf
<1>7. ASSUME NEW j \in 1 .. NCoros, j # i PROVE FixOf("coro", had[j])
  BY <1>1, <1>3, <1>7 DEF FixInv
<1> HIDE DEF old, explored, c
<1>8. Rest(explored) /\ Good(explored)  BY <1>6, ExploreRests
<1>9. FixOf("coro", c)  BY <1>6, <1>8, IssuePicks, FixOfLabels
<1>10. DOMAIN lists = 1 .. NCoros
       /\ \A j \in 1 .. NCoros : lists[j] = IF j = i THEN c ELSE had[j]
  <2> HIDE DEF had
  <2> QED BY <1>3
<1>11. \A j \in DOMAIN lists : FixOf("coro", lists[j])  BY <1>7, <1>9, <1>10
<1> HIDE DEF lists, had
<1> QED BY <1>2, <1>5, <1>11, FixMoves

(* No call, no list. *)
LEMMA FixInit == Init => FixInv
<1> SUFFICES ASSUME Init PROVE FixInv
  OBVIOUS
<1> DEFINE none == << >>
<1>1. \A i \in DOMAIN none : FALSE  OBVIOUS
<1>2. \A t \in Threads : list[t] = none  BY DEF Init
<1> HIDE DEF none
<1> QED BY <1>1, <1>2 DEF FixInv

(* Every step of the program. *)
LEMMA FixNext == SearchIInv /\ FixInv /\ [Next]_vars => FixInv'
<1> SUFFICES ASSUME SearchIInv, FixInv, [Next]_vars PROVE FixInv'
  OBVIOUS
<1>1. CASE BgReturn  BY <1>1, FixStays DEF BgReturn
<1>2. CASE UNCHANGED vars \/ Quiet  BY <1>2, FixStays DEF Quiet, vars
<1>3. ASSUME NEW t \in Threads, Step(t) PROVE FixInv'
  <2>1. CASE Acquire(t)  BY <2>1, FixStays DEF Acquire
  <2>2. CASE Rounds(t)
    <3>1. CASE BeginRounds(t)  BY <3>1, BeginRoundsFix
    <3>2. CASE PopAgain(t) \/ Prefilled(t)  BY <3>2, PrefilledFix
    <3>3. CASE Select(t)  BY <3>3, SelectFix
    <3>4. CASE ReadAndExplore(t)  BY <3>4, ReadAndExploreFix
    <3>5. CASE NextBatch(t)  BY <3>5, NextBatchFix
    <3>6. CASE ReadBatch(t)  BY <3>6, ReadBatchFix
    <3>7. CASE Refine(t)  BY <3>7, RefineFix
    <3>8. CASE EndRounds(t)  BY <3>8, EndRoundsFix
    <3>9. CASE Publish(t)  BY <3>9, ReturnFix
    <3> QED BY <2>2, <3>1, <3>2, <3>3, <3>4, <3>5, <3>6, <3>7, <3>8, <3>9 DEF Rounds
  <2>3. CASE Pipe(t)
    <3>1. CASE BeginPipe(t)  BY <3>1, BeginPipeFix
    <3>2. CASE PipeSelect(t)  BY <3>2, PipeSelectFix
    <3>3. CASE PipeSubmit(t) \/ PipePoll(t)  BY <3>3, PipeSubmitFix
    <3>4. CASE PipeSent(t)  BY <3>4, PipeSentFix
    <3>5. CASE PipeCalc(t)  BY <3>5, PipeCalcFix
    <3>6. CASE EndPipe(t)  BY <3>6, ReturnFix
    <3> QED BY <2>3, <3>1, <3>2, <3>3, <3>4, <3>5, <3>6 DEF Pipe
  <2>4. CASE Coro(t)
    <3>1. CASE BeginCoro(t)  BY <3>1, BeginCoroFix
    <3>2. CASE StepCoro(t)  BY <3>2, StepCoroFix
    <3>3. CASE EndCoro(t)  BY <3>3, ReturnFix
    <3> QED BY <2>4, <3>1, <3>2, <3>3 DEF Coro
  <2> QED BY <1>3, <2>1, <2>2, <2>3, <2>4 DEF Step
<1>4. ASSUME NEW t \in Threads, Complete(t) PROVE FixInv'
  BY <1>4, FixStays DEF Complete
<1> QED BY <1>1, <1>2, <1>3, <1>4 DEF Next

(* What has been reached, at the end of a search.                           *)
LEMMA AllDoneFixed == ASSUME NEW c, AllDone(c) PROVE FixedPoint(c)
  BY DEF AllDone, Done, FixedPoint, Ids

(* At its end each kind of search has done its whole list. *)
LEMMA FixComplete == ASSUME SearchIInv, FixInv PROVE SearchesComplete
<1> SUFFICES ASSUME NEW t \in Threads, Ended(t), NEW i \in DOMAIN list[t]
             PROVE  AllDone(list[t][i])
  BY AllDoneFixed DEF SearchesComplete
<1>1. FixOf(pc[t], list[t][i])  BY DEF FixInv
<1>2. CASE RoundsEnded(t)
  <2>1. pc[t] \in {"search", "refine"} /\ pc[t] \in RoundLabels
    BY <1>2 DEF RoundsEnded, RoundLabels
  <2>2. i = 1 /\ ListOK(list[t][1])  BY <2>1, RoundFix, InRound DEF Good
  <2>3. CASE pc[t] = "refine"  BY <1>1, <2>3 DEF FixOf
  <2>4. CASE pc[t] = "search"
    <3>1. SearchEnds(list[t][1])  BY <1>2, <2>4 DEF RoundsEnded
    <3>2. Rest(list[t][1])  BY <1>1, <2>2, <2>4 DEF FixOf, Resting
    <3> QED BY <2>2, <3>1, <3>2, RestEnds
  <2> QED BY <2>1, <2>3, <2>4
<1>3. CASE PipeEnded(t)
  <2>1. pc[t] \in PipeLabels /\ AllVisited(t)  BY <1>3 DEF PipeEnded, PipeLabels
  <2>2. i = 1 /\ Visited(list[t][1])  BY <2>1, PipeFix
  <2> QED BY <2>1, <2>2 DEF AllVisited, Visited, AllDone
<1>4. CASE CoroEnded(t)
  <2>1. pc[t] = "coro" /\ \A j \in 1 .. NCoros : SearchEnds(list[t][j])  BY <1>4 DEF CoroEnded
  <2>2. DOMAIN list[t] = 1 .. NCoros /\ Good(list[t][i])  BY <2>1, InCoro
  <2>3. SearchEnds(list[t][i]) /\ ListOK(list[t][i])  BY <2>1, <2>2 DEF Good
  <2>4. Rest(list[t][i])  BY <1>1, <2>1, <2>3 DEF FixOf
  <2> QED BY <2>3, <2>4, RestEnds
<1> QED BY <1>2, <1>3, <1>4 DEF Ended

(* push_to_heap: the heap stays sorted; an id leaves it only when it is     *)
(* full, for ids that are no farther.                                       *)
LEMMA HeapKeeps ==
    ASSUME NEW d \in [Nodes -> Int], NEW heap, NEW cap \in Nat \ {0}, Heap(Nodes, d, heap, cap),
           NEW n \in Nodes, NEW x, x = PushHeap(d, heap, n, cap)
    PROVE  Pushed(Nodes, d, heap, cap, n, x)
<1>1. x = IntoHeap(d, heap, n, cap)  BY DEF PushHeap, IntoHeap
<1> QED BY <1>1, IntoHeapKeeps

-----------------------------------------------------------------------------
(* What is gathered and scored stays when the fields it looks at do.        *)
LEMMA AsideKeeps ==
    ASSUME NEW c, NEW x, Aside(c, x)
    PROVE  /\ Gathered(c) => Gathered(x)
           /\ Filtered(c) => Filtered(x)
           /\ \A due : Scored(c, due) => Scored(x, due)
<1>1. Gathered(c) => Gathered(x)  BY DEF Gathered, Met, Aside
<1>2. \A due : Scored(c, due) => Scored(x, due)  BY DEF Scored, Aside
<1>3. Filtered(c) => Filtered(x)  BY <1>1, <1>2 DEF Filtered, Aside
<1> QED BY <1>1, <1>2, <1>3

(* An id that was not met before is met. *)
LEMMA MeetGathers ==
    ASSUME NEW c \in ListSet, c.kind = "filter", Gathered(c), NEW n \in Nodes, n \notin c.seen,
           NEW x, x = Meet(c, n)
    PROVE  Gathered(x)
<1> DEFINE d == c.query.pq
           cands == c.cands
           pushed == PushHeap(d, cands, n, RefineCapacity)
<1>1. x \in ListSet /\ x.seen = c.seen \cup {n} /\ x.query = c.query  BY MeetAdds DEF Unmet
<1>2. x.cands = IF Tag[n] \in Candidates THEN pushed ELSE cands
  BY DEF Meet, ListSet
<1>3. d \in [Nodes -> Int] /\ RefineCapacity \in Nat \ {0}  BY Fields, ListAssumption
<1>4. Heap(Nodes, d, cands, RefineCapacity) /\ IsInjective(cands) /\ ToSet(cands) \subseteq Met(c)
      /\ \A q \in Met(c) : Ranks(d, cands, RefineCapacity, q)
  BY DEF Gathered
<1>5. Met(c) \subseteq c.seen /\ Met(c) \subseteq Nodes /\ n \notin ToSet(cands)
  BY <1>4 DEF Met, ListSet
<1>6. pushed = PushHeap(d, cands, n, RefineCapacity)  OBVIOUS
<1> HIDE DEF d, cands, pushed
<1>7. CASE Tag[n] \in Candidates
  <2>1. Pushed(Nodes, d, cands, RefineCapacity, n, pushed)  BY <1>3, <1>4, <1>6, HeapKeeps
  <2>2. Met(x) = Met(c) \cup {n}  BY <1>1, <1>7 DEF Met
  <2>3. Heap(Nodes, d, pushed, RefineCapacity) /\ IsInjective(pushed)  BY <1>4, <1>5, <2>1 DEF Pushed
  <2>4. ToSet(pushed) \subseteq Met(x)  BY <1>4, <2>1, <2>2 DEF Pushed
  <2>5. \A q \in Met(x) : Ranks(d, pushed, RefineCapacity, q)
    BY <1>4, <1>5, <2>1, <2>2 DEF Pushed
  <2> QED BY <1>1, <1>2, <1>7, <2>3, <2>4, <2>5 DEF Gathered, d
<1>8. CASE Tag[n] \notin Candidates
  <2>1. Met(x) = Met(c)  BY <1>1, <1>8 DEF Met
  <2> QED BY <1>1, <1>2, <1>4, <1>8, <2>1 DEF Gathered, d
<1> QED BY <1>7, <1>8

(* An id is offered: it is gathered when it was not met. *)
LEMMA OfferFilters ==
    ASSUME NEW c, Good(c), Filtered(c), NEW n \in Nodes, NEW x, x = Offer(c, n)
    PROVE  Filtered(x)
<1> DEFINE y == Meet(c, n)
           r == InsertIntoPool(c.query.pq, c.pool, n)
<1>1. c \in ListSet  BY DEF Good, ListOK
<1>2. y = Meet(c, n)  OBVIOUS
<1>3. \/ x = c
      \/ n \notin c.seen /\ (x = y \/ Taken(c, n, r, y, x))
  <2>1. \/ n \in c.seen /\ x = c
        \/ /\ n \notin c.seen /\ x = Meet(c, n)
           /\ Len(c.pool) = c.L /\ c.query.pq[n] >= c.query.pq[Last(c.pool).id]
        \/ /\ n \notin c.seen
           /\ ~(Len(c.pool) = c.L /\ c.query.pq[n] >= c.query.pq[Last(c.pool).id])
           /\ \E s \in {InsertIntoPool(c.query.pq, c.pool, n)} : Taken(c, n, s, Meet(c, n), x)
    BY <1>1, OfferCases
  <2> QED BY <2>1
<1> HIDE DEF y, r
<1>4. ASSUME n \notin c.seen PROVE Filtered(y)
  <2>1. y \in ListSet /\ y.seen = c.seen \cup {n} /\ Unmet(c, y)  BY <1>1, <1>2, MeetAdds
  <2>2. Gathered(y)  BY <1>1, <1>2, <1>4, MeetGathers DEF Filtered
  <2>3. Scored(y, {})  BY <2>1 DEF Scored, Filtered, Unmet
  <2> QED BY <2>1, <2>2, <2>3 DEF Filtered, Unmet
<1>5. ASSUME n \notin c.seen, Taken(c, n, r, y, x) PROVE Filtered(x)
  <2>1. y \in ListSet  BY <1>1, <1>2, MeetAdds
  <2>2. x = [y EXCEPT !.pool = Splice(@, r, Entry(n), IF Len(c.pool) < c.L THEN Len(c.pool) + 1
                                                      ELSE Len(c.pool)),
                      !.nk = IF r < @ THEN r ELSE @]
    BY <1>5 DEF Taken
  <2>3. Aside(y, x)  BY <2>1, <2>2 DEF ListSet, Aside
  <2> QED BY <1>4, <1>5, <2>3, AsideKeeps
<1> QED BY <1>3, <1>4, <1>5

(* Every neighbour is offered. *)
LEMMA OffersFilter ==
    ASSUME NEW c, Good(c), Filtered(c), NEW seq \in Seq(Nodes), NEW x, x = Offers(c, seq)[Len(seq)]
    PROVE  Filtered(x)
<1> DEFINE F == Offers(c, seq)
           n == Len(seq)
           S == { z \in From(c) : Filtered(z) }
<1>1. n \in Nat /\ \A i \in 1 .. n : seq[i] \in Nodes  BY LenProperties, ElementOfSeq
<1>2. F = Offers(c, seq) /\ x = F[n]  OBVIOUS
<1> HIDE DEF F
<1>3. /\ F[0] = c /\ \A i \in 0 .. n : F[i] \in From(c)
      /\ \A i \in 1 .. n : F[i] = Offer(F[i - 1], seq[i])
  BY <1>2, OffersInTurn
<1>4. 0 \in 0 .. n /\ n \in 0 .. n  BY <1>1
<1>5. F[0] \in S  BY <1>3, <1>4
<1>6. ASSUME NEW i \in 1 .. n, F[i - 1] \in S PROVE F[i] \in S
  <2> DEFINE y == F[i]
             z == F[i - 1]
             m == seq[i]
  <2>1. y = Offer(z, m) /\ m \in Nodes /\ Filtered(z) /\ z \in From(c)  BY <1>1, <1>3, <1>6
  <2>2. y \in From(c)  BY <1>3, <1>1
  <2> HIDE DEF y, z, m
  <2>3. Good(z)  BY <2>1, FromGood
  <2>4. Filtered(y)  BY <2>1, <2>3, OfferFilters
  <2> QED BY <2>2, <2>4 DEF y
<1> HIDE DEF S
<1>7. \A i \in 0 .. n : F[i] \in S  BY <1>1, <1>5, <1>6, KeptToTheEnd
<1> QED BY <1>2, <1>4, <1>7 DEF S

(* A record that is read: its distance counts if it is a candidate's.       *)
LEMMA RecordedFilters ==
    ASSUME NEW c, Good(c), Filtered(c), NEW n \in Nodes, NEW page, NEW x, x = Recorded(c, n, page)
    PROVE  Filtered(x)
<1> DEFINE d == c.query.exact
           heap == c.heap
           pushed == PushHeap(d, heap, n, KSearch)
           new == IF Tag[n] \in Candidates THEN pushed ELSE heap
<1>1. c \in ListSet /\ c.kind = "filter"  BY DEF Good, ListOK, Filtered
<1>2. x = [c EXCEPT !.computed = c.computed \cup {n}, !.heap = new]
  BY <1>1 DEF Recorded
<1>3. d \in [Nodes -> Int] /\ KSearch \in Nat \ {0} /\ c.computed \subseteq Nodes
  BY <1>1, Fields, ListAssumption DEF ListSet
<1>4. /\ Heap(Nodes, d, heap, KSearch) /\ \A q \in ToSet(heap) : Tag[q] \in Candidates
      /\ \A q \in c.computed : Tag[q] \in Candidates => Ranks(d, heap, KSearch, q)
  BY DEF Filtered, Scored
<1>5. pushed = PushHeap(d, heap, n, KSearch)  OBVIOUS
<1> HIDE DEF pushed, heap, d
<1>6. /\ Heap(Nodes, d, new, KSearch) /\ \A q \in ToSet(new) : Tag[q] \in Candidates
      /\ \A q \in c.computed \cup {n} : Tag[q] \in Candidates => Ranks(d, new, KSearch, q)
  <2>1. CASE Tag[n] \in Candidates
    <3>1. Pushed(Nodes, d, heap, KSearch, n, pushed)  BY <1>3, <1>4, <1>5, HeapKeeps
    <3>2. new = pushed  BY <2>1
    <3> HIDE DEF new
    <3>3. \A q \in ToSet(new) : Tag[q] \in Candidates  BY <1>4, <2>1, <3>1, <3>2 DEF Pushed
    <3>4. \A q \in c.computed \cup {n} : Tag[q] \in Candidates => Ranks(d, new, KSearch, q)
      BY <1>3, <1>4, <3>1, <3>2 DEF Pushed
    <3> QED BY <3>1, <3>2, <3>3, <3>4 DEF Pushed
  <2>2. CASE Tag[n] \notin Candidates  BY <1>4, <2>2
  <2> QED BY <2>1, <2>2
<1> HIDE DEF new
<1>7. /\ x.kind = c.kind /\ x.query = c.query /\ x.seen = c.seen /\ x.cands = c.cands
      /\ x.heap = new /\ x.computed = c.computed \cup {n}
  BY <1>1, <1>2 DEF ListSet
<1>8. Gathered(x)  BY <1>7 DEF Filtered, Gathered, Met
<1>9. Scored(x, {})  BY <1>6, <1>7 DEF Scored, d
<1> QED BY <1>1, <1>7, <1>8, <1>9 DEF Filtered

(* A record is expanded. *)
LEMMA ExpandFilters ==
    ASSUME NEW c, Good(c), Filtered(c), NEW n \in Nodes, NEW page \in Nat, NEW x, x = Expand(c, n, page)
    PROVE  Filtered(x)
<1> DEFINE keep == Recorded(c, n, page)
           seq == Graph[n]
           all == Offers(keep, seq)[Len(seq)]
<1>1. x = ResizeL(all)
  <2>1. Expand(c, n, page) = Only({ResizeL(z) : z \in {all}})
    BY Zenon DEF Expand, Recorded, Offers, Through
  <2> HIDE DEF all
  <2>2. {ResizeL(z) : z \in {all}} = {ResizeL(all)}  OBVIOUS
  <2>3. Only({ResizeL(all)}) = ResizeL(all)  BY OnlyOne
  <2> QED BY <2>1, <2>2, <2>3
<1>2. keep = Recorded(c, n, page) /\ seq \in Seq(Nodes) /\ all = Offers(keep, seq)[Len(seq)]
  BY ListAssumption
<1> HIDE DEF keep, all, seq
<1>3. keep \in From(c) /\ Filtered(keep)  BY <1>2, RecordedKeeps, RecordedFilters
<1>4. Good(keep)  BY <1>3, FromGood
<1>5. all \in From(keep) /\ Filtered(all)  BY <1>2, <1>3, <1>4, OffersKeep, OffersFilter
<1>6. all \in ListSet  BY <1>5, FromGood
<1>7. x = all \/ \E l : x = [all EXCEPT !.L = l]  BY <1>1, Zenon DEF ResizeL
<1>8. Aside(all, x)  BY <1>6, <1>7 DEF ListSet, Aside
<1> QED BY <1>5, <1>8, AsideKeeps

(* So are the records of a beam. *)
LEMMA ExpandAllFilters ==
    ASSUME NEW c, Good(c), Filtered(c), NEW ids \in Seq(Nodes), NEW x, x = ExpandAll(c, ids)
    PROVE  Filtered(x)
<1> DEFINE F == Expansions(c, ids)
           n == Len(ids)
           S == { z \in From(c) : Filtered(z) }
<1>1. n \in Nat /\ \A i \in 1 .. n : ids[i] \in Nodes  BY LenProperties, ElementOfSeq
<1>2. F = Expansions(c, ids) /\ x = F[n]  BY AllExpanded
<1> HIDE DEF F
<1>3. /\ F[0] = c /\ \A i \in 0 .. n : F[i] \in From(c)
      /\ \A i \in 1 .. n : F[i] = Expand(F[i - 1], ids[i], Page[ids[i]])
  BY <1>2, ExpansionsInTurn
<1>4. 0 \in 0 .. n /\ n \in 0 .. n  BY <1>1
<1>5. F[0] \in S  BY <1>3, <1>4
<1>6. ASSUME NEW i \in 1 .. n, F[i - 1] \in S PROVE F[i] \in S
  <2> DEFINE y == F[i]
             z == F[i - 1]
             m == ids[i]
             page == Page[m]
  <2>1. y = Expand(z, m, page) /\ m \in Nodes /\ Filtered(z) /\ z \in From(c)  BY <1>1, <1>3, <1>6
  <2>2. y \in From(c)  BY <1>3, <1>1
  <2>3. page \in Nat  BY <2>1, SearchAssumption
  <2> HIDE DEF y, z, m, page
  <2>4. Good(z)  BY <2>1, FromGood
  <2>5. Filtered(y)  BY <2>1, <2>3, <2>4, ExpandFilters
  <2> QED BY <2>2, <2>5 DEF y
<1> HIDE DEF S
<1>7. \A i \in 0 .. n : F[i] \in S  BY <1>1, <1>5, <1>6, KeptToTheEnd
<1> QED BY <1>2, <1>4, <1>7 DEF S

(* A round of a filtered search. *)
LEMMA ExploreFilters ==
    ASSUME NEW c, Good(c), Filtered(c), NEW x, x = Explore(c)
    PROVE  Filtered(x)
<1> DEFINE e == ExpandAll(c, c.front)
           y == EndRound([e EXCEPT !.snap = c.snap])
           passed == IF c.kind = "page" THEN Passes(c, c.snap)[Len(c.snap)] ELSE c
           snap == IF c.kind = "page" THEN c.front ELSE c.snap
<1>1. Explore(c) = Only({EndRound([z EXCEPT !.snap = snap]) :
                            z \in {ExpandAll(w, c.front) : w \in {passed}}})
  BY Zenon DEF Explore, Through, Passes
<1>2. passed = c /\ snap = c.snap  BY DEF Filtered
<1> HIDE DEF passed, snap
<1>3. x = y
  <2>1. {ExpandAll(w, c.front) : w \in {passed}} = {e}  BY <1>2
  <2> HIDE DEF e
  <2>2. {EndRound([z EXCEPT !.snap = snap]) : z \in {e}} = {y}  BY <1>2
  <2> HIDE DEF y
  <2> QED BY <1>1, <2>1, <2>2, OnlyOne
<1>4. c.front \in Seq(Nodes)  BY DEF Good, ListOK, ListSet
<1>5. e = ExpandAll(c, c.front)  OBVIOUS
<1> HIDE DEF e
<1>6. e \in From(c) /\ Filtered(e)  BY <1>4, <1>5, ExpandAllKeeps, ExpandAllFilters
<1>7. e \in ListSet  BY <1>6, FromGood
<1>8. Aside(e, y)  BY <1>7 DEF EndRound, ListSet, Aside
<1> QED BY <1>3, <1>6, <1>8, AsideKeeps

(* Choosing the beam and sorting the first entries are no concern of it.    *)
LEMMA PickBeamAside == ASSUME NEW c, ListOK(c), NEW x, x = PickBeam(c) PROVE Aside(c, x)
<1> DEFINE F == Picks(c, Unpicked(c), Positions(c))
           n == Len(c.pool)
           S == { z \in ListSet : Aside(c, z) }
<1>1. c \in ListSet  BY DEF ListOK
<1>2. n \in Nat  BY <1>1, Fields
<1> HIDE DEF F
<1>3. /\ F[0] = Unpicked(c) /\ F[n] = x /\ \A i \in 0 .. n : Repicked(c, F[i])
      /\ \A i \in 1 .. n : F[i] = Pick(F[i - 1], c, i)
  BY PicksInTurn DEF F
<1> HIDE DEF n
<1>4. \A i \in 0 .. n : F[i] \in ListSet  BY <1>3 DEF Repicked
<1>5. F[0] \in S
  <2>1. Aside(c, Unpicked(c))  BY <1>1 DEF ListSet, Unpicked, Aside
  <2> QED BY <1>2, <1>3, <1>4, <2>1
<1>6. ASSUME NEW i \in 1 .. n, F[i - 1] \in S PROVE F[i] \in S
  <2> DEFINE y == F[i]
             z == F[i - 1]
  <2>1. y = Pick(z, c, i) /\ y \in ListSet /\ z \in ListSet /\ Aside(c, z)
    BY <1>2, <1>3, <1>4, <1>6
  <2> HIDE DEF y, z
  <2>2. y = z \/ \E f, p, g : y = [z EXCEPT !.front = f, !.pool = p, !.pages = g]
    BY <2>1 DEF Pick
  <2>3. Aside(z, y)  BY <2>1, <2>2 DEF ListSet, Aside
  <2>4. Aside(c, y)  BY <2>1, <2>3 DEF Aside
  <2> QED BY <2>1, <2>4 DEF y
<1> HIDE DEF S
<1>7. \A i \in 0 .. n : F[i] \in S  BY <1>2, <1>5, <1>6, KeptToTheEnd
<1>8. n \in 0 .. n  BY <1>2
<1> QED BY <1>3, <1>7, <1>8 DEF S

LEMMA SortAside == ASSUME NEW c \in ListSet, NEW x, x = SortPool(c) PROVE Aside(c, x)
<1>1. \E p : x = [c EXCEPT !.pool = p]  BY DEF SortPool
<1> QED BY <1>1 DEF ListSet, Aside

(* The ids a filtered search starts from are gathered. *)
LEMMA MeetsGather ==
    ASSUME NEW c \in ListSet, c.seen = {}, c.kind = "filter", c.cands = << >>,
           NEW seq \in Seq(Nodes), IsInjective(seq), NEW x, x = Meets(c, seq)[Len(seq)]
    PROVE  Gathered(x)
<1> DEFINE F == Meets(c, seq)
           n == Len(seq)
           S == { z \in ListSet : z.kind = "filter" /\ Gathered(z) }
<1>1. n \in Nat /\ DOMAIN seq = 1 .. n /\ \A i \in 1 .. n : seq[i] \in Nodes
  BY LenProperties, ElementOfSeq
<1>2. x = F[n] /\ F = Meets(c, seq)  OBVIOUS
<1> HIDE DEF F
<1>3. /\ F[0] = c /\ \A i \in 0 .. n : F[i] \in ListSet /\ Unmet(c, F[i])
      /\ \A i \in 1 .. n : F[i] = Meet(F[i - 1], seq[i])
  BY <1>2, MeetsInTurn
<1>4. \A i \in 0 .. n : F[i].seen = {seq[j] : j \in 1 .. i}  BY <1>2, MeetsInTurn
<1> HIDE DEF n
<1>5. F[0] \in S
  <2> DEFINE none == << >>
  <2>1. none \in Seq(Nodes) /\ Len(none) = 0 /\ DOMAIN none = {} /\ ToSet(none) = {}
    BY DEF ToSet
  <2>2. c.cands = none  OBVIOUS
  <2> HIDE DEF none
  <2>3. Heap(Nodes, c.query.pq, none, RefineCapacity)  BY <2>1, ListAssumption DEF Heap
  <2>4. IsInjective(none)  BY <2>1 DEF IsInjective
  <2>5. Met(c) = {}  BY DEF Met
  <2>6. Gathered(c)  BY <2>1, <2>2, <2>3, <2>4, <2>5 DEF Gathered
  <2> QED BY <1>3, <2>6
<1>6. ASSUME NEW i \in 1 .. n, F[i - 1] \in S PROVE F[i] \in S
  <2> DEFINE y == F[i]
             z == F[i - 1]
             m == seq[i]
  <2>1. i \in 0 .. n /\ i - 1 \in 0 .. n  BY <1>1
  <2>2. y = Meet(z, m) /\ y \in ListSet /\ Unmet(c, y) /\ z \in ListSet /\ m \in Nodes
        /\ z.kind = "filter" /\ Gathered(z)
    BY <1>1, <1>3, <1>6, <2>1
  <2>3. m \notin z.seen
    <3>1. z.seen = {seq[j] : j \in 1 .. i - 1}  BY <1>4, <2>1
    <3>2. \A j \in 1 .. i - 1 : j \in DOMAIN seq /\ j # i /\ i \in DOMAIN seq  BY <1>1
    <3> QED BY <3>1, <3>2 DEF IsInjective
  <2> HIDE DEF y, z, m
  <2>4. Gathered(y)  BY <2>2, <2>3, MeetGathers
  <2>5. y.kind = "filter"  BY <2>2 DEF Unmet
  <2> QED BY <2>2, <2>4, <2>5 DEF y
<1> HIDE DEF S
<1>7. \A i \in 0 .. n : F[i] \in S  BY <1>1, <1>5, <1>6, KeptToTheEnd
<1>8. n \in 0 .. n  BY <1>1
<1> QED BY <1>2, <1>7, <1>8 DEF S

LEMMA NewListGathers ==
    ASSUME NEW kind \in Kinds, kind = "filter", NEW dyn \in BOOLEAN, NEW query \in Queries,
           NEW entries \in Entries \cup {<<Medoid>>},
           NEW x, x = SortPool(NewList(kind, dyn, query, entries))
    PROVE  x \in ListSet /\ x.kind = "filter" /\ Gathered(x) /\ x.heap = << >>
<1> DEFINE m == IF Len(entries) < LSearch THEN Len(entries) ELSE LSearch
           first == SubSeq(entries, 1, m)
           pool == [i \in DOMAIN first |-> Entry(first[i])]
           empty == Start(kind, dyn, query, pool)
           new == NewList(kind, dyn, query, entries)
<1>1. new = Meets(empty, first)[Len(first)]
  BY Zenon DEF NewList, Through, Meets, Start
<1>2. new = NewList(kind, dyn, query, entries) /\ x = SortPool(new)  OBVIOUS
<1> HIDE DEF new
<1>3. entries \in Seq(Nodes) /\ entries # << >> /\ IsInjective(entries)
  <2>1. CASE entries \in Entries  BY <2>1, SearchAssumption
  <2>2. CASE entries = <<Medoid>>
    <3>1. Medoid \in Nodes  BY SearchAssumption
    <3>2. <<Medoid>> \in Seq(Nodes) /\ <<Medoid>> # << >> /\ DOMAIN <<Medoid>> = {1}  BY <3>1
    <3>3. IsInjective(<<Medoid>>)  BY <3>2 DEF IsInjective
    <3> QED BY <2>2, <3>2, <3>3
  <2> QED BY <2>1, <2>2
<1>4. Len(entries) \in Nat /\ DOMAIN entries = 1 .. Len(entries) /\ LSearch \in Nat \ {0}
  BY <1>3, LenProperties, ListAssumption
<1>5. m \in 0 .. Len(entries)  BY <1>4
<1> HIDE DEF m
<1>6. /\ first \in Seq(Nodes) /\ Len(first) = m /\ DOMAIN first = 1 .. m
      /\ \A i \in 1 .. m : first[i] = entries[i]
  BY <1>3, <1>5, FirstOnes
<1> HIDE DEF first
<1>7. IsInjective(first)
  <2>1. \A i \in 1 .. m : i \in DOMAIN entries  BY <1>4, <1>5
  <2> QED BY <1>3, <1>6, <2>1 DEF IsInjective
<1>8. pool \in Seq(EntrySet)
  <2>1. \A i \in 1 .. m : first[i] \in Nodes  BY <1>6, ElementOfSeq
  <2>2. pool \in [1 .. m -> EntrySet]  BY <1>6, <2>1 DEF Entry, EntrySet
  <2> HIDE DEF pool
  <2> QED BY <1>5, <2>2, AsSequence
<1> HIDE DEF pool
<1>9. empty \in ListSet
  <2>1. /\ << >> \in Seq(Nodes) /\ << >> \in Seq(Nodes \X Nat) /\ {} \in SUBSET Nodes
        /\ {} \in SUBSET Nat /\ LSearch \in Nat /\ 0 \in Nat
    BY <1>4
  <2> QED BY <1>8, <2>1 DEF Start, ListSet
<1>10. empty.seen = {} /\ empty.kind = "filter" /\ empty.cands = << >>  BY DEF Start
<1> HIDE DEF empty
<1>11. Gathered(new)  BY <1>1, <1>6, <1>7, <1>9, <1>10, MeetsGather
<1>12. ListOK(new) /\ new.seen = Ids(new.pool) /\ new.kind = kind /\ new.heap = << >>
  BY <1>2, NewListOK
<1>13. new \in ListSet  BY <1>12 DEF ListOK
<1>14. Aside(new, x)  BY <1>2, <1>13, SortAside
<1>15. Good(x) /\ x.kind = new.kind  BY <1>2, <1>12, SortKeeps
<1> QED BY <1>11, <1>12, <1>14, <1>15, AsideKeeps DEF Good, ListOK, Aside

LEMMA PushesMerge ==
    ASSUME NEW d \in [Nodes -> Int], NEW heap, Heap(Nodes, d, heap, KSearch), NEW seq \in Seq(Nodes),
           NEW x, x = Pushes(d, heap, seq)[Len(seq)]
    PROVE  Merged(d, heap, seq, x)
<1> DEFINE F == Pushes(d, heap, seq)
           n == Len(seq)
           upto(i) == {seq[j] : j \in 1 .. i}
           S == { ih \in (0 .. n) \X Seq(Nodes) :
                    /\ Heap(Nodes, d, ih[2], KSearch) /\ ToSet(ih[2]) \subseteq ToSet(heap) \cup upto(ih[1])
                    /\ \A q \in Nodes : q \in upto(ih[1]) \/ Ranks(d, heap, KSearch, q)
                                          => Ranks(d, ih[2], KSearch, q) }
           g == [ i \in 0 .. n |-> <<i, F[i]>> ]
<1>1. n \in Nat /\ DOMAIN seq = 1 .. n /\ \A i \in 1 .. n : seq[i] \in Nodes
  BY LenProperties, ElementOfSeq
<1>2. heap \in Seq(Nodes) /\ Len(heap) <= KSearch  BY DEF Heap
<1>3. x = F[n] /\ F = Pushes(d, heap, seq)  OBVIOUS
<1> HIDE DEF F
<1>4. /\ F[0] = heap /\ \A i \in 0 .. n : F[i] \in Seq(Nodes)
      /\ \A i \in 1 .. n : F[i] = PushHeap(d, F[i - 1], seq[i], KSearch)
  <2> DEFINE e == d
  <2>1. F = Pushes(e, heap, seq)  BY <1>3
  <2> HIDE DEF e, n
  <2>2. F[0] = heap  BY <1>2, <2>1, PushesInTurn
  <2>3. \A i \in 0 .. Len(seq) : F[i] \in Seq(Nodes) /\ Len(F[i]) <= KSearch
    BY <1>2, <2>1, PushesInTurn
  <2>4. InTurn(F, e, seq)  BY <1>2, <2>1, PushesInTurn
  <2>5. \A i \in 1 .. Len(seq) : F[i] = PushHeap(e, F[i - 1], seq[i], KSearch)
    BY <2>4 DEF InTurn
  <2> QED BY <2>2, <2>3, <2>5 DEF n, e
<1>5. KSearch \in Nat \ {0}  BY ListAssumption
<1>6. ToSet(seq) = upto(n)  BY <1>1 DEF ToSet
<1> HIDE DEF n
<1>7. g[0] \in S
  <2>1. upto(0) = {} /\ 0 \in 0 .. n  BY <1>1
  <2>2. g[0] = <<0, heap>>  BY <1>4, <2>1
  <2> HIDE DEF g, upto
  <2> QED BY <1>2, <2>1, <2>2
<1>8. ASSUME NEW i \in 1 .. n, g[i - 1] \in S PROVE g[i] \in S
  <2> DEFINE y == F[i]
             z == F[i - 1]
             m == seq[i]
  <2>1. i - 1 \in 0 .. n /\ i \in 0 .. n  BY <1>1
  <2>2. upto(i) = upto(i - 1) \cup {m}
    <3>1. \A j : j \in 1 .. i <=> j = i \/ j \in 1 .. i - 1  BY <1>1
    <3> QED BY <3>1
  <2>3. g[i - 1] = <<i - 1, z>> /\ g[i] = <<i, y>>  BY <2>1
  <2>4. y = PushHeap(d, z, m, KSearch) /\ m \in Nodes /\ y \in Seq(Nodes)  BY <1>1, <1>4, <2>1
  <2> HIDE DEF y, z, m, g, upto
  <2>5. /\ Heap(Nodes, d, z, KSearch) /\ ToSet(z) \subseteq ToSet(heap) \cup upto(i - 1)
        /\ \A q \in Nodes : q \in upto(i - 1) \/ Ranks(d, heap, KSearch, q) => Ranks(d, z, KSearch, q)
    BY <1>8, <2>3
  <2>6. Pushed(Nodes, d, z, KSearch, m, y)  BY <1>5, <2>4, <2>5, HeapKeeps
  <2>7. Heap(Nodes, d, y, KSearch) /\ ToSet(y) \subseteq ToSet(heap) \cup upto(i)
    BY <2>2, <2>5, <2>6 DEF Pushed
  <2>8. \A q \in Nodes : q \in upto(i) \/ Ranks(d, heap, KSearch, q) => Ranks(d, y, KSearch, q)
    BY <2>2, <2>5, <2>6 DEF Pushed
  <2> QED BY <2>1, <2>3, <2>4, <2>7, <2>8
<1> HIDE DEF S
<1>9. \A i \in 0 .. n : g[i] \in S
  <2> HIDE DEF g
  <2> QED BY <1>1, <1>7, <1>8, KeptToTheEnd
<1>10. <<n, x>> \in S
  <2>1. n \in 0 .. n  BY <1>1
  <2> QED BY <1>3, <1>9, <2>1
<1> QED BY <1>6, <1>10 DEF S, Merged

-----------------------------------------------------------------------------
(* A list of a filtered search is somewhere in its rounds, or has ended.    *)
LEMMA FilterElsewhere == ASSUME NEW label \in Elsewhere, NEW c PROVE FilterAt(label, c)
  BY DEF FilterAt, Elsewhere, PipeLabels, Gathering, Refining

(* A step of thread t changes that thread's list only.                      *)
LEMMA FilterMoves ==
    ASSUME FilterInv, SearchIInv, NEW t \in Threads, NEW label, NEW lists,
           Goto(t, label), list' = [list EXCEPT ![t] = lists], FilterAt(label, lists[1])
    PROVE  FilterInv'
<1>1. pc \in [Threads -> Labels] /\ list \in [Threads -> Seq(ListSet)]
  BY DEF SearchIInv, TypesOK
<1>2. \A u \in Threads : pc'[u] = IF u = t THEN label ELSE pc[u]  BY <1>1 DEF Goto
<1>3. \A u \in Threads : list'[u] = IF u = t THEN lists ELSE list[u]  BY <1>1
<1>4. ASSUME NEW u \in Threads PROVE FilterAt(pc'[u], list'[u][1])
  <2>1. CASE u = t  BY <1>2, <1>3, <2>1
  <2>2. CASE u # t
    <3>1. pc'[u] = pc[u] /\ list'[u] = list[u]  BY <1>2, <1>3, <2>2
    <3> QED BY <3>1 DEF FilterInv
  <2> QED BY <2>1, <2>2
<1> QED BY <1>4 DEF FilterInv

LEMMA FilterMovesOne ==
    ASSUME FilterInv, SearchIInv, NEW t \in Threads, NEW label, NEW d,
           Goto(t, label), SetList(t, d), FilterAt(label, d)
    PROVE  FilterInv'
<1> DEFINE lists == <<d>>
<1>1. list' = [list EXCEPT ![t] = lists] /\ lists[1] = d  BY DEF SetList
<1> HIDE DEF lists
<1> QED BY <1>1, FilterMoves

LEMMA FilterGoes ==
    ASSUME FilterInv, SearchIInv, NEW t \in Threads, NEW label, Goto(t, label), UNCHANGED list,
           FilterAt(label, list[t][1])
    PROVE  FilterInv'
<1>1. list' = [list EXCEPT ![t] = list[t]]  BY HereOK DEF Same
<1> QED BY <1>1, FilterMoves

LEMMA FilterLeaves ==
    ASSUME FilterInv, SearchIInv, NEW t \in Threads, NEW label \in Elsewhere, NEW lists,
           Goto(t, label), list' = [list EXCEPT ![t] = lists]
    PROVE  FilterInv'
  BY FilterMoves, FilterElsewhere

LEMMA FilterStays == ASSUME FilterInv, UNCHANGED <<pc, list>> PROVE FilterInv'
  BY DEF FilterInv

-----------------------------------------------------------------------------
(* Every step keeps what a filtered search has gathered and scored.         *)
LEMMA SearchFilters ==
    ASSUME NEW c
    PROVE  /\ c.kind = "filter" /\ FilterAt("search", c) => Filtered(c)
           /\ c.kind = "filter" /\ FilterAt("explore", c) => Filtered(c)
           /\ Filtered(c) => FilterAt("search", c) /\ FilterAt("explore", c)
  BY DEF FilterAt, Filtered, Gathering, Refining, Due, DueAt

LEMMA SelectFilters ==
    ASSUME SearchIInv, FilterInv, NEW t \in Threads, Select(t)
    PROVE  FilterInv'
<1> DEFINE b == list[t][1]
           c == PickBeam(b)
<1>1. pc[t] = "search" /\ pc[t] \in RoundLabels  BY DEF Select, RoundLabels
<1>2. Good(b) /\ FilterAt("search", b)  BY <1>1, InRound DEF FilterInv
<1>3. c = PickBeam(b)  OBVIOUS
<1>4. ListOK(b) /\ Nearest(b)  BY <1>2 DEF Good
<1> HIDE DEF b, c
<1>5. Repicked(b, c)  BY <1>3, <1>4, PickBeamKeeps
<1>6. Good(c)  BY <1>4, <1>5, RepickedGood DEF Good
<1>7. Aside(b, c)  BY <1>3, <1>4, PickBeamAside
<1>8. c.kind = "filter" => Filtered(c)  BY <1>2, <1>7, SearchFilters, AsideKeeps DEF Aside
<1>9. CASE c.front = << >>
  <2> DEFINE d == Explore(c)
  <2>1. pc' = pc /\ SetList(t, d)  BY <1>9 DEF Select, b, c
  <2>2. Same(pc, t)  BY HereOK
  <2>3. d = Explore(c)  OBVIOUS
  <2> HIDE DEF d
  <2>4. Goto(t, "search")  BY <1>1, <2>1, <2>2 DEF Goto, Same
  <2>5. d \in From(c)  BY <1>6, <2>3, ExploreKeeps
  <2>6. d.kind = c.kind  BY <2>5 DEF From, Grown
  <2>7. d.kind = "filter" => Filtered(d)  BY <1>6, <1>8, <2>3, <2>6, ExploreFilters
  <2>8. FilterAt("search", d)  BY <2>7, SearchFilters DEF FilterAt
  <2> QED BY <2>1, <2>4, <2>8, FilterMovesOne
<1>10. CASE c.front # << >>
  <2>1. SetList(t, c) /\ Goto(t, "explore")  BY <1>10 DEF Select, b, c
  <2>2. FilterAt("explore", c)  BY <1>8, SearchFilters DEF FilterAt
  <2> QED BY <2>1, <2>2, FilterMovesOne
<1> QED BY <1>9, <1>10

LEMMA ReadAndExploreFilters ==
    ASSUME SearchIInv, FilterInv, NEW t \in Threads, ReadAndExplore(t)
    PROVE  FilterInv'
<1> DEFINE b == list[t][1]
           d == Explore(b)
<1>1. pc[t] = "explore" /\ pc[t] \in RoundLabels /\ SetList(t, d) /\ Goto(t, "search")
  BY DEF ReadAndExplore, RoundLabels
<1>2. Good(b) /\ FilterAt("explore", b)  BY <1>1, InRound DEF FilterInv
<1>3. d = Explore(b)  OBVIOUS
<1> HIDE DEF b, d
<1>4. d \in From(b)  BY <1>2, <1>3, ExploreKeeps
<1>5. d.kind = b.kind  BY <1>4 DEF From, Grown
<1>6. d.kind = "filter" => Filtered(d)
  <2>1. b.kind = "filter" => Filtered(b)  BY <1>2, SearchFilters
  <2> QED BY <1>2, <1>3, <1>5, <2>1, ExploreFilters
<1>7. FilterAt("search", d)  BY <1>6, SearchFilters DEF FilterAt
<1> QED BY <1>1, <1>7, FilterMovesOne

(* The next ids to read move from the batch to the beam. *)
LEMMA NextBatchFilters ==
    ASSUME SearchIInv, FilterInv, NEW t \in Threads, NextBatch(t)
    PROVE  FilterInv'
<1> DEFINE b == list[t][1]
           n == IF Len(b.batch) < Beam THEN Len(b.batch) ELSE Beam
           front == SubSeq(b.batch, 1, n)
           rest == SubSeq(b.batch, n + 1, Len(b.batch))
           d == [b EXCEPT !.front = front, !.batch = rest]
           label == IF pc[t] = "prefill" THEN "prefill_read" ELSE "refine_read"
<1>1. pc[t] \in {"prefill", "refine"} /\ pc[t] \in RoundLabels  BY DEF NextBatch, RoundLabels
<1>2. SetList(t, d) /\ Goto(t, label)  BY Zenon DEF NextBatch
<1>3. b \in ListSet /\ FilterAt(pc[t], b)  BY <1>1, InRound DEF FilterInv
<1>4. ToSet(b.batch) = ToSet(front) \cup ToSet(rest)
  <2> DEFINE s == b.batch
             N == Len(s)
  <2>1. s \in Seq(Nodes) /\ N \in Nat /\ DOMAIN s = 1 .. N  BY <1>3, LenProperties DEF ListSet
  <2>2. n \in 0 .. Len(s)
    <3>1. Beam \in Nat  BY ListAssumption
    <3> QED BY <2>1, <3>1
  <2>3. front = SubSeq(s, 1, n) /\ rest = SubSeq(s, n + 1, Len(s))  OBVIOUS
  <2> HIDE DEF n, front, rest, s
  <2>4. DOMAIN front = 1 .. n /\ \A i \in 1 .. n : front[i] = s[i]  BY <2>1, <2>2, <2>3, FirstOnes
  <2>5. /\ DOMAIN rest = 1 .. Len(s) - n /\ \A i \in 1 .. Len(s) - n : rest[i] = s[n + i]
    BY <2>1, <2>2, <2>3, RestOnes
  <2>6. ASSUME NEW i \in 1 .. N PROVE s[i] \in ToSet(front) \cup ToSet(rest)
    <3>1. CASE i <= n
      <4>1. i \in DOMAIN front /\ s[i] = front[i]  BY <2>1, <2>2, <2>4, <3>1
      <4> QED BY <4>1 DEF ToSet
    <3>2. CASE ~(i <= n)
      <4>1. i - n \in 1 .. N - n /\ n + (i - n) = i  BY <2>1, <2>2, <3>2
      <4>2. i - n \in DOMAIN rest /\ s[i] = rest[i - n]  BY <2>5, <4>1
      <4> QED BY <4>2 DEF ToSet
    <3> QED BY <3>1, <3>2
  <2>7. ASSUME NEW i \in 1 .. n PROVE front[i] \in ToSet(s)
    <3>1. i \in DOMAIN s /\ front[i] = s[i]  BY <2>1, <2>2, <2>4
    <3> QED BY <3>1 DEF ToSet
  <2>8. ASSUME NEW i \in 1 .. N - n PROVE rest[i] \in ToSet(s)
    <3>1. n + i \in DOMAIN s /\ rest[i] = s[n + i]  BY <2>1, <2>2, <2>5
    <3> QED BY <3>1 DEF ToSet
  <2>9. ToSet(s) \subseteq ToSet(front) \cup ToSet(rest)  BY <2>1, <2>6 DEF ToSet
  <2>10. ToSet(front) \subseteq ToSet(s) /\ ToSet(rest) \subseteq ToSet(s)
    BY <2>4, <2>5, <2>7, <2>8 DEF ToSet
  <2> QED BY <2>9, <2>10 DEF s
<1>5. d = [b EXCEPT !.front = front, !.batch = rest]  OBVIOUS
<1>6. (pc[t] = "prefill" /\ label = "prefill_read") \/ (pc[t] = "refine" /\ label = "refine_read")
  BY <1>1
<1> HIDE DEF d, front, rest, b, label
<1>7. Aside(b, d) /\ d.front = front /\ d.batch = rest  BY <1>3, <1>5 DEF ListSet, Aside
<1>8. DueAt(label, d) = DueAt(pc[t], b)  BY <1>4, <1>6, <1>7 DEF DueAt
<1>9. Due(b, DueAt(pc[t], b)) => Due(d, DueAt(label, d))  BY <1>7, <1>8, AsideKeeps DEF Due
<1>10. Gathered(b) => Gathered(d)  BY <1>7, AsideKeeps
<1>11. Weighed(b) => Weighed(d)  BY <1>7 DEF Weighed, NearerMet, Met, Aside
<1>12. FilterAt(label, d)
  BY <1>3, <1>6, <1>7, <1>9, <1>10, <1>11 DEF FilterAt, Gathering, Refining, Aside
<1> QED BY <1>2, <1>12, FilterMovesOne

(* The ids of the beam are scored. *)
LEMMA ReadBatchFilters ==
    ASSUME SearchIInv, FilterInv, NEW t \in Threads, ReadBatch(t)
    PROVE  FilterInv'
<1> DEFINE b == list[t][1]
           heap == Pushes(b.query.exact, b.heap, b.front)[Len(b.front)]
           d == [b EXCEPT !.heap = heap]
           label == IF pc[t] = "prefill_read" THEN "prefill" ELSE "refine"
<1>1. pc[t] \in {"prefill_read", "refine_read"} /\ pc[t] \in RoundLabels
  BY DEF ReadBatch, RoundLabels
<1>2. SetList(t, d) /\ Goto(t, label)  BY Zenon DEF ReadBatch, Through, Pushes
<1>3. b \in ListSet /\ FilterAt(pc[t], b)  BY <1>1, InRound DEF FilterInv
<1>4. d = [b EXCEPT !.heap = heap]  OBVIOUS
<1>5. (pc[t] = "prefill_read" /\ label = "prefill") \/ (pc[t] = "refine_read" /\ label = "refine")
  BY <1>1
<1>6. heap = Pushes(b.query.exact, b.heap, b.front)[Len(b.front)]  OBVIOUS
<1> HIDE DEF d, heap, b, label
<1>7. /\ d.kind = b.kind /\ d.query = b.query /\ d.seen = b.seen /\ d.cands = b.cands
      /\ d.heap = heap /\ d.computed = b.computed /\ d.batch = b.batch
  BY <1>3, <1>4 DEF ListSet
<1>8. DueAt(label, d) = ToSet(b.batch) /\ DueAt(pc[t], b) = ToSet(b.batch) \cup ToSet(b.front)
  BY <1>5, <1>7 DEF DueAt
<1>9. ASSUME Due(b, ToSet(b.batch) \cup ToSet(b.front)) PROVE Due(d, ToSet(b.batch))
  <2> DEFINE e == b.query.exact
             old == b.heap
             seq == b.front
  <2>1. e \in [Nodes -> Int] /\ seq \in Seq(Nodes) /\ b.computed \subseteq Nodes
    BY <1>3, Fields DEF ListSet
  <2>2. /\ Heap(Nodes, e, old, KSearch) /\ \A n \in ToSet(old) : Tag[n] \in Candidates
        /\ \A n \in ToSet(b.batch) \cup ToSet(seq) : Tag[n] \in Candidates
        /\ \A n \in b.computed \ (ToSet(b.batch) \cup ToSet(seq)) :
              Tag[n] \in Candidates => Ranks(e, old, KSearch, n)
    BY <1>9 DEF Due, Scored
  <2>3. heap = Pushes(e, old, seq)[Len(seq)]  BY <1>6
  <2> HIDE DEF e, old, seq
  <2>4. Merged(e, old, seq, heap)  BY <2>1, <2>2, <2>3, PushesMerge
  <2>5. Heap(Nodes, e, heap, KSearch) /\ \A n \in ToSet(heap) : Tag[n] \in Candidates
    BY <2>2, <2>4 DEF Merged
  <2>6. \A n \in b.computed \ ToSet(b.batch) : Tag[n] \in Candidates => Ranks(e, heap, KSearch, n)
    BY <2>1, <2>2, <2>4 DEF Merged
  <2> QED BY <1>7, <2>2, <2>5, <2>6 DEF Due, Scored, e
<1>10. Gathered(b) => Gathered(d)  BY <1>7 DEF Gathered, Met
<1>11. Weighed(b) => Weighed(d)  BY <1>7 DEF Weighed, NearerMet, Met
<1>12. FilterAt(label, d)
  BY <1>3, <1>5, <1>7, <1>8, <1>9, <1>10, <1>11 DEF FilterAt, Gathering, Refining
<1> QED BY <1>2, <1>12, FilterMovesOne

(* The prefilled ids are scored, and the search begins.                     *)
LEMMA PrefilledFilters ==
    ASSUME SearchIInv, FilterInv, NEW t \in Threads, Prefilled(t)
    PROVE  FilterInv'
<1> DEFINE b == list[t][1]
<1>1. pc[t] = "prefill" /\ b.batch = << >> /\ Goto(t, "search") /\ UNCHANGED list
  BY DEF Prefilled
<1>2. FilterAt("prefill", b)  BY <1>1 DEF FilterInv
<1>3. ToSet(b.batch) = {}  BY <1>1 DEF ToSet
<1> HIDE DEF b
<1>4. FilterAt("search", b)
  BY <1>2, <1>3 DEF FilterAt, Gathering, Refining, DueAt
<1> QED BY <1>1, <1>4, FilterGoes DEF b

LEMMA PopAgainFilters ==
    ASSUME SearchIInv, FilterInv, NEW t \in Threads, PopAgain(t)
    PROVE  FilterInv'
<1> DEFINE b == list[t][1]
<1>1. pc[t] = "pop" /\ Goto(t, "search") /\ UNCHANGED list  BY DEF PopAgain
<1>2. b.kind = "insert"  BY <1>1, HereOK DEF Here, ListsAt
<1>3. FilterAt("search", b)  BY <1>2 DEF FilterAt
<1> QED BY <1>1, <1>3, FilterGoes

(* What is left to refine are the candidates not yet scored. *)
LEMMA RefineTakes ==
    ASSUME NEW c \in ListSet
    PROVE  ToSet(ToRefine(c)) = ToSet(c.cands) \ c.computed
<1> DEFINE back == Reverse(c.cands)
           S == Nodes \ c.computed
           left == Kept(back, S)
           n == Len(c.cands)
<1>1. /\ c.cands \in Seq(Nodes) /\ n \in Nat /\ DOMAIN c.cands = 1 .. n
      /\ \A i \in 1 .. n : c.cands[i] \in Nodes
  BY LenProperties, ElementOfSeq DEF ListSet
<1>2. back = [i \in 1 .. n |-> c.cands[(n - i) + 1]]  BY DEF Reverse
<1> HIDE DEF n, back
<1>3. \A i \in 1 .. n : (n - i) + 1 \in 1 .. n /\ (n - ((n - i) + 1)) + 1 = i  BY <1>1
<1>4. back \in Seq(Nodes) /\ DOMAIN back = 1 .. n
  <2>1. back \in [1 .. n -> Nodes]  BY <1>1, <1>2, <1>3
  <2> QED BY <1>1, <2>1, AsSequence
<1>5. Range(back) = ToSet(c.cands)
  <2>1. ASSUME NEW i \in 1 .. n PROVE back[i] \in ToSet(c.cands)
    <3>1. (n - i) + 1 \in DOMAIN c.cands /\ back[i] = c.cands[(n - i) + 1]  BY <1>1, <1>2, <1>3
    <3> QED BY <3>1 DEF ToSet
  <2>2. ASSUME NEW i \in 1 .. n PROVE c.cands[i] \in Range(back)
    <3>1. (n - i) + 1 \in DOMAIN back /\ back[(n - i) + 1] = c.cands[i]
      BY <1>1, <1>2, <1>3, <1>4
    <3> QED BY <3>1 DEF Range
  <2>3. Range(back) \subseteq ToSet(c.cands)  BY <1>4, <2>1 DEF Range
  <2>4. ToSet(c.cands) \subseteq Range(back)  BY <1>1, <2>2 DEF ToSet
  <2> QED BY <2>3, <2>4
<1> HIDE DEF S, left
<1>6. Range(left) = Range(back) \cap S
  <2>1. left = Kept(back, S)  BY DEF left
  <2>2. Range(Kept(back, S)) = Range(back) \cap S  BY <1>4, KeptEntries, Zenon
  <2> QED BY <2>1, <2>2
<1>7. Range(left) = ToSet(left)  BY DEF Range, ToSet
<1>8. ToSet(c.cands) \subseteq Nodes  BY <1>1 DEF ToSet
<1>9. ToRefine(c) = left  BY DEF ToRefine, left, back, S
<1> QED BY <1>5, <1>6, <1>7, <1>8, <1>9 DEF S

(* A candidate that was met and is not in the heap of candidates has more   *)
(* than refine_capacity of them that are no farther.                        *)
LEMMA LeftOut ==
    ASSUME NEW c \in ListSet, Gathered(c), NEW n \in Met(c), n \notin ToSet(c.cands)
    PROVE  Cardinality(NearerMet(c, n)) > RefineCapacity
<1> DEFINE d == c.query.pq
           s == c.cands
           T == ToSet(s)
           near == NearerMet(c, n)
           m == Len(s)
<1>1. /\ Heap(Nodes, d, s, RefineCapacity) /\ IsInjective(s) /\ T \subseteq Met(c)
      /\ Ranks(d, s, RefineCapacity, n) /\ n \in Nodes /\ d \in [Nodes -> Int] /\ Met(c) \subseteq Nodes
  BY Fields DEF Gathered, Met, ListSet
<1>2. RefineCapacity \in Nat \ {0}  BY ListAssumption
<1>3. s \in Seq(Nodes) /\ \A i, j \in DOMAIN s : i < j => d[s[i]] <= d[s[j]]  BY <1>1 DEF Heap
<1>4. m = RefineCapacity /\ d[Last(s)] <= d[n]  BY <1>1 DEF Ranks
<1>5. DOMAIN s = 1 .. m /\ Last(s) = s[m] /\ \A i \in 1 .. m : s[i] \in Nodes
  BY <1>3, LenProperties, ElementOfSeq DEF Last
<1>6. near = {q \in Met(c) : d[q] <= d[n]}  BY DEF NearerMet
<1>7. T = {s[i] : i \in DOMAIN s}  BY DEF ToSet
<1>8. n \notin T  OBVIOUS
<1>9. IsFiniteSet(near)
  <2>1. near \subseteq Nodes /\ IsFiniteSet(Nodes)  BY <1>1, <1>6, ListAssumption
  <2> HIDE DEF near
  <2> QED BY <2>1, FS_Subset
<1>10. Cardinality(T) = m /\ IsFiniteSet(T)
  <2>1. Len(s) = Cardinality(Range(s)) /\ IsFiniteSet(Range(s))
    <3> HIDE DEF s
    <3> QED BY <1>1, <1>3, DistinctLen
  <2>2. Range(s) = T  BY DEF Range, ToSet
  <2> QED BY <2>1, <2>2
<1> HIDE DEF d, s, near, T, m
<1>11. T \cup {n} \subseteq near
  <2>1. ASSUME NEW i \in 1 .. m PROVE d[s[i]] <= d[n]
    <3>1. m \in 1 .. m  BY <1>2, <1>4
    <3>2. i = m \/ d[s[i]] <= d[s[m]]
      <4>1. i = m \/ i < m  BY <1>2, <1>4
      <4> QED BY <1>3, <1>5, <3>1, <4>1
    <3>3. d[s[m]] <= d[n]  BY <1>4, <1>5
    <3>4. d[s[i]] \in Int /\ d[s[m]] \in Int /\ d[n] \in Int  BY <1>1, <1>5, <3>1
    <3> QED BY <3>2, <3>3, <3>4
  <2>2. d[n] \in Int  BY <1>1
  <2>3. \A q \in T : d[q] <= d[n]  BY <1>5, <1>7, <2>1
  <2>4. d[n] <= d[n]  BY <2>2
  <2> QED BY <1>1, <1>6, <2>3, <2>4
<1>12. Cardinality(T \cup {n}) = m + 1  BY <1>8, <1>10, FS_AddElement
<1>13. Cardinality(T \cup {n}) <= Cardinality(near) /\ Cardinality(near) \in Nat
  <2>1. Cardinality(T \cup {n}) <= Cardinality(near)  BY <1>9, <1>11, FS_Subset
  <2>2. Cardinality(near) \in Nat  BY <1>9, FS_CardinalityType
  <2> QED BY <2>1, <2>2
<1>14. Cardinality(near) > RefineCapacity  BY <1>2, <1>4, <1>12, <1>13
<1> QED BY <1>14 DEF near

LEMMA RefineFilters ==
    ASSUME SearchIInv, FilterInv, NEW t \in Threads, Refine(t)
    PROVE  FilterInv'
<1> DEFINE b == list[t][1]
           left == ToRefine(b)
           done == b.computed \cup ToSet(left)
           d == [b EXCEPT !.batch = left, !.cands = << >>, !.computed = done]
<1>1. pc[t] = "search" /\ pc[t] \in RoundLabels  BY DEF Refine, RoundLabels
<1>2. SetList(t, d) /\ Goto(t, "refine")  BY Zenon DEF Refine
<1>3. b \in ListSet /\ FilterAt("search", b)  BY <1>1, InRound DEF FilterInv
<1>4. d = [b EXCEPT !.batch = left, !.cands = << >>, !.computed = done]  OBVIOUS
<1>5. left = ToRefine(b) /\ done = b.computed \cup ToSet(left)  OBVIOUS
<1> HIDE DEF d, left, done, b
<1>6. /\ d.kind = b.kind /\ d.query = b.query /\ d.seen = b.seen
      /\ d.heap = b.heap /\ d.computed = done /\ d.batch = left
  BY <1>3, <1>4 DEF ListSet
<1>7. ASSUME b.kind = "filter" PROVE Due(d, ToSet(left)) /\ Weighed(d)
  <2>1. Gathered(b) /\ Scored(b, {})  BY <1>3, <1>7, SearchFilters DEF Filtered
  <2>2. ToSet(left) = ToSet(b.cands) \ b.computed  BY <1>3, <1>5, RefineTakes
  <2>3. Scored(d, ToSet(left))  BY <1>5, <1>6, <2>1 DEF Scored
  <2>4. \A n \in ToSet(left) : Tag[n] \in Candidates  BY <2>1, <2>2 DEF Gathered, Met
  <2>5. Met(d) = Met(b)  BY <1>6 DEF Met
  <2>6. ASSUME NEW n \in Met(b) PROVE n \in done \/ Cardinality(NearerMet(d, n)) > RefineCapacity
    <3>1. CASE n \in ToSet(b.cands)  BY <1>5, <2>2, <3>1
    <3>2. CASE n \notin ToSet(b.cands)
      <4>1. NearerMet(d, n) = NearerMet(b, n)  BY <1>6, <2>5 DEF NearerMet
      <4>2. Cardinality(NearerMet(b, n)) > RefineCapacity  BY <1>3, <2>1, <3>2, LeftOut
      <4> QED BY <4>1, <4>2
    <3> QED BY <3>1, <3>2
  <2> QED BY <1>6, <2>3, <2>4, <2>5, <2>6 DEF Due, Weighed
<1>8. FilterAt("refine", d)
  BY <1>6, <1>7 DEF FilterAt, Gathering, Refining, DueAt
<1> QED BY <1>2, <1>8, FilterMovesOne

(* A call begins: what is prefilled is due. *)
LEMMA BeginRoundsFilters ==
    ASSUME CandidateTags, SearchIInv, FilterInv, NEW t \in Threads, BeginRounds(t)
    PROVE  FilterInv'
<1>1. PICK kind \in mix[t] \ {"pipe", "coro"}, query \in Queries,
           entries \in Entries \cup {<<Medoid>>}, dyn \in BOOLEAN :
          \E c \in {SortPool(NewList(kind, dyn, query, entries))} :
          /\ kind = "insert" => entries = <<Medoid>>
          /\ kind \in {"page", "insert"} => ~dyn
          /\ kind # "filter" => SetList(t, c)
          /\ kind = "filter" =>
               \E S \in SUBSET Candidates :
                  /\ Cardinality(S) = IF Cardinality(Candidates) < KSearch
                                      THEN Cardinality(Candidates) ELSE KSearch
                  /\ SetList(t, [c EXCEPT !.batch = Ascending(S), !.computed = S])
          /\ Goto(t, CASE kind = "insert" -> "pop" [] kind = "filter" -> "prefill"
                       [] OTHER -> "search")
  BY DEF BeginRounds
<1> DEFINE c == SortPool(NewList(kind, dyn, query, entries))
           label == CASE kind = "insert" -> "pop" [] kind = "filter" -> "prefill"
                       [] OTHER -> "search"
<1>2. /\ kind # "filter" => SetList(t, c)
      /\ kind = "filter" =>
               \E S \in SUBSET Candidates :
                  SetList(t, [c EXCEPT !.batch = Ascending(S), !.computed = S])
      /\ Goto(t, label)
  BY <1>1
<1>3. kind \in Kinds
  <2>1. mix[t] \subseteq Kinds  BY DEF SearchIInv, TypesOK
  <2> QED BY <2>1
<1>4. c = SortPool(NewList(kind, dyn, query, entries))  OBVIOUS
<1>5. kind = "filter" => label = "prefill"  OBVIOUS
<1> HIDE DEF c, label
<1>6. c \in ListSet /\ c.kind = kind  BY <1>3, <1>4, FirstList
<1>7. CASE kind # "filter"
  <2>1. FilterAt(label, c)  BY <1>6, <1>7 DEF FilterAt
  <2> QED BY <1>2, <1>7, <2>1, FilterMovesOne
<1>8. CASE kind = "filter"
  <2>1. PICK S \in SUBSET Candidates : SetList(t, [c EXCEPT !.batch = Ascending(S), !.computed = S])
    BY <1>2, <1>8
  <2> DEFINE batch == Ascending(S)
             d == [c EXCEPT !.batch = batch, !.computed = S]
  <2>2. SetList(t, d) /\ d = [c EXCEPT !.batch = batch, !.computed = S] /\ batch = Ascending(S)
    BY <2>1
  <2>3. S \in SUBSET Nat /\ IsFiniteSet(S)
    <3>1. S \subseteq Nodes /\ Nodes \subseteq Nat /\ IsFiniteSet(Nodes)  BY ListAssumption
    <3> QED BY <3>1, FS_Subset
  <2> HIDE DEF d, batch
  <2>4. batch \in Seq(S) /\ \A n \in S : \E i \in DOMAIN batch : batch[i] = n
    BY <2>2, <2>3, AscendingLists
  <2>5. ToSet(batch) = S
    <3>1. \A i \in DOMAIN batch : batch[i] \in S  BY <2>4
    <3> QED BY <2>4, <3>1 DEF ToSet
  <2>6. Gathered(c) /\ c.heap = << >>  BY <1>3, <1>4, <1>8, NewListGathers
  <2>7. /\ d.kind = c.kind /\ d.query = c.query /\ d.seen = c.seen /\ d.cands = c.cands
        /\ d.heap = c.heap /\ d.computed = S /\ d.batch = batch
    BY <1>6, <2>2 DEF ListSet
  <2>8. Gathered(d)  BY <2>6, <2>7 DEF Gathered, Met
  <2>9. Scored(d, ToSet(batch))
    <3> DEFINE none == << >>
    <3>1. none \in Seq(Nodes) /\ Len(none) = 0 /\ DOMAIN none = {} /\ ToSet(none) = {}
      BY DEF ToSet
    <3>2. d.heap = none  BY <2>6, <2>7
    <3> HIDE DEF none
    <3>3. Heap(Nodes, d.query.exact, none, KSearch)  BY <3>1, ListAssumption DEF Heap
    <3> QED BY <2>5, <2>7, <3>1, <3>2, <3>3 DEF Scored
  <2>10. \A n \in ToSet(batch) : Tag[n] \in Candidates  BY <2>5 DEF CandidateTags
  <2>11. FilterAt("prefill", d)
    BY <2>7, <2>8, <2>9, <2>10 DEF FilterAt, Gathering, Refining, Due, DueAt
  <2> QED BY <1>2, <1>5, <1>8, <2>2, <2>11, FilterMovesOne
<1> QED BY <1>7, <1>8

LEMMA LeavesFilters ==
    ASSUME FilterInv, SearchIInv, NEW t \in Threads, Leaves(t) PROVE FilterInv'
  BY FilterLeaves DEF Leaves

LEMMA GoesElsewhere ==
    ASSUME SearchIInv, NEW t \in Threads, NEW label \in Elsewhere, Goto(t, label),
           UNCHANGED list \/ \E d : SetList(t, d) \/ list' = [list EXCEPT ![t] = d]
    PROVE  Leaves(t)
<1>1. UNCHANGED list => list' = [list EXCEPT ![t] = list[t]]  BY HereOK DEF Same
<1> QED BY <1>1 DEF Leaves, SetList

LEMMA EndRoundsLeaves ==
    ASSUME SearchIInv, NEW t \in Threads, EndRounds(t) \/ Publish(t) PROVE Leaves(t)
<1>1. "idle" \in Elsewhere /\ "link" \in Elsewhere  BY DEF Elsewhere
<1>2. CASE Goto(t, "idle") /\ list' = [list EXCEPT ![t] = << >>]  BY <1>1, <1>2, GoesElsewhere
<1>3. CASE Goto(t, "link") /\ UNCHANGED list  BY <1>1, <1>3, GoesElsewhere
<1> QED BY <1>2, <1>3 DEF EndRounds, Publish

LEMMA PipeLeaves == ASSUME SearchIInv, NEW t \in Threads, Pipe(t) PROVE Leaves(t)
<1>1. PipeLabels \cup {"idle"} \subseteq Elsewhere  BY DEF Elsewhere
<1>2. {"first_send", "first_submit", "send", "submit", "poll", "calc", "idle"} \subseteq Elsewhere
  BY <1>1 DEF PipeLabels
<1>3. CASE BeginPipe(t)
  <2>1. Goto(t, "first_send") /\ \E d : SetList(t, d)  BY <1>3 DEF BeginPipe
  <2> QED BY <1>2, <2>1, GoesElsewhere
<1>4. CASE PipeSelect(t)
  <2>1. /\ Goto(t, "submit") \/ Goto(t, "first_submit")
        /\ \E d : SetList(t, d)
    BY <1>4 DEF PipeSelect
  <2> QED BY <1>2, <2>1, GoesElsewhere
<1>5. CASE PipeSubmit(t)
  <2>1. (Goto(t, "send") \/ Goto(t, "first_send")) /\ UNCHANGED list  BY <1>5 DEF PipeSubmit
  <2> QED BY <1>2, <2>1, GoesElsewhere
<1>6. CASE PipeSent(t)
  <2>1. \/ Goto(t, "calc") /\ UNCHANGED list
        \/ Goto(t, "poll") /\ \E d : SetList(t, d)
    BY <1>6 DEF PipeSent
  <2> QED BY <1>2, <2>1, GoesElsewhere
<1>7. CASE PipePoll(t)
  <2>1. Goto(t, "send") /\ UNCHANGED list  BY <1>7 DEF PipePoll
  <2> QED BY <1>2, <2>1, GoesElsewhere
<1>8. CASE PipeCalc(t)
  <2>1. Goto(t, "poll") /\ (UNCHANGED list \/ \E d : SetList(t, d))  BY <1>8, Zenon DEF PipeCalc
  <2> QED BY <1>2, <2>1, GoesElsewhere
<1>9. CASE EndPipe(t)
  <2>1. Goto(t, "idle") /\ list' = [list EXCEPT ![t] = << >>]  BY <1>9 DEF EndPipe
  <2> QED BY <1>2, <2>1, GoesElsewhere
<1> QED BY <1>3, <1>4, <1>5, <1>6, <1>7, <1>8, <1>9 DEF Pipe

LEMMA CoroLeaves == ASSUME SearchIInv, NEW t \in Threads, Coro(t) PROVE Leaves(t)
<1>1. "idle" \in Elsewhere /\ "coro" \in Elsewhere  BY DEF Elsewhere
<1>2. CASE BeginCoro(t)
  <2>1. Goto(t, "coro") /\ \E d : list' = [list EXCEPT ![t] = d]  BY <1>2 DEF BeginCoro
  <2> QED BY <1>1, <2>1, GoesElsewhere
<1>3. CASE StepCoro(t)
  <2>1. pc[t] = "coro" /\ pc' = pc /\ \E i, c : list' = [list EXCEPT ![t][i] = c]
    BY <1>3 DEF StepCoro
  <2>2. PICK i, c : list' = [list EXCEPT ![t][i] = c]  BY <2>1
  <2> DEFINE lists == [list[t] EXCEPT ![i] = c]
  <2>3. list' = [list EXCEPT ![t] = lists]  BY <2>2
  <2>4. Goto(t, "coro")  BY <2>1, HereOK DEF Goto, Same
  <2> HIDE DEF lists
  <2> QED BY <1>1, <2>3, <2>4, GoesElsewhere
<1>4. CASE EndCoro(t)
  <2>1. Goto(t, "idle") /\ list' = [list EXCEPT ![t] = << >>]  BY <1>4 DEF EndCoro
  <2> QED BY <1>1, <2>1, GoesElsewhere
<1> QED BY <1>2, <1>3, <1>4 DEF Coro

LEMMA FilterInit == Init => FilterInv
<1> SUFFICES ASSUME Init PROVE FilterInv
  OBVIOUS
<1>1. \A t \in Threads : pc[t] = "idle"  BY DEF Init
<1>2. "idle" \in Elsewhere  BY DEF Elsewhere
<1> QED BY <1>1, <1>2, FilterElsewhere DEF FilterInv

LEMMA FilterNext == CandidateTags /\ SearchIInv /\ FilterInv /\ [Next]_vars => FilterInv'
<1> SUFFICES ASSUME CandidateTags, SearchIInv, FilterInv, [Next]_vars PROVE FilterInv'
  OBVIOUS
<1>1. CASE BgReturn  BY <1>1, FilterStays DEF BgReturn
<1>2. CASE UNCHANGED vars \/ Quiet  BY <1>2, FilterStays DEF Quiet, vars
<1>3. ASSUME NEW t \in Threads, Step(t) PROVE FilterInv'
  <2>1. CASE Acquire(t)  BY <2>1, FilterStays DEF Acquire
  <2>2. CASE Rounds(t)
    <3>1. CASE BeginRounds(t)  BY <3>1, BeginRoundsFilters
    <3>2. CASE PopAgain(t)  BY <3>2, PopAgainFilters
    <3>3. CASE Select(t)  BY <3>3, SelectFilters
    <3>4. CASE ReadAndExplore(t)  BY <3>4, ReadAndExploreFilters
    <3>5. CASE NextBatch(t)  BY <3>5, NextBatchFilters
    <3>6. CASE ReadBatch(t)  BY <3>6, ReadBatchFilters
    <3>7. CASE Prefilled(t)  BY <3>7, PrefilledFilters
    <3>8. CASE Refine(t)  BY <3>8, RefineFilters
    <3>9. CASE EndRounds(t) \/ Publish(t)  BY <3>9, EndRoundsLeaves, LeavesFilters
    <3> QED BY <2>2, <3>1, <3>2, <3>3, <3>4, <3>5, <3>6, <3>7, <3>8, <3>9 DEF Rounds
  <2>3. CASE Pipe(t)  BY <2>3, PipeLeaves, LeavesFilters
  <2>4. CASE Coro(t)  BY <2>4, CoroLeaves, LeavesFilters
  <2> QED BY <1>3, <2>1, <2>2, <2>3, <2>4 DEF Step
<1>4. ASSUME NEW t \in Threads, Complete(t) PROVE FilterInv'
  BY <1>4, FilterStays DEF Complete
<1> QED BY <1>1, <1>2, <1>3, <1>4 DEF Next

(* At its end a filtered search has nothing due. *)
LEMMA FilterSafe == ASSUME SearchIInv, FilterInv PROVE FilterBest
<1> SUFFICES ASSUME NEW t \in Threads, Ended(t), list[t][1].kind = "filter",
                    NEW c, c = list[t][1]
             PROVE  /\ \A i \in DOMAIN c.heap : Tag[c.heap[i]] \in Candidates
                    /\ \A n \in Met(c) \ ToSet(c.heap) :
                         \/ Len(c.heap) = KSearch /\ c.query.exact[Last(c.heap)] <= c.query.exact[n]
                         \/ Cardinality(NearerMet(c, n)) > RefineCapacity
  BY DEF FilterBest, Met, NearerMet
<1>1. pc[t] = "refine" /\ c.batch = << >>
  <2>1. ListsAt(pc[t], list[t])  BY HereOK DEF Here
  <2>2. ~PipeEnded(t)  BY <2>1 DEF PipeEnded, ListsAt, PipeLabels
  <2>3. ~CoroEnded(t)  BY <2>1 DEF CoroEnded, ListsAt
  <2> QED BY <2>2, <2>3 DEF Ended, RoundsEnded
<1>2. FilterAt("refine", c) /\ c.kind = "filter"  BY <1>1 DEF FilterInv
<1>3. ToSet(c.batch) = {}  BY <1>1 DEF ToSet
<1>4. Scored(c, {}) /\ Weighed(c)
  BY <1>2, <1>3 DEF FilterAt, Gathering, Refining, Due, DueAt
<1>5. \A i \in DOMAIN c.heap : Tag[c.heap[i]] \in Candidates  BY <1>4 DEF Scored, ToSet
<1>6. ASSUME NEW n \in Met(c) \ ToSet(c.heap)
      PROVE  \/ Len(c.heap) = KSearch /\ c.query.exact[Last(c.heap)] <= c.query.exact[n]
             \/ Cardinality(NearerMet(c, n)) > RefineCapacity
  <2>1. CASE n \in c.computed  BY <1>4, <2>1 DEF Scored, Met, Ranks
  <2>2. CASE n \notin c.computed  BY <1>4, <2>2 DEF Weighed
  <2> QED BY <2>1, <2>2
<1> QED BY <1>5, <1>6

-----------------------------------------------------------------------------
(* A list in which no entry has come to lie further forward.                *)
LEMMA LaterItself == ASSUME NEW c, Good(c) PROVE c \in Later(c)
  BY FromItself DEF Later, Behind, Good

LEMMA BehindBehind ==
    ASSUME NEW c, NEW x, c.seen \subseteq x.seen, Behind(c, x), NEW y, Behind(x, y)
    PROVE  Behind(c, y)
<1> SUFFICES ASSUME NEW i \in DOMAIN y.pool, y.pool[i].id \in c.seen
             PROVE  \E j \in DOMAIN c.pool :
                       /\ y.pool[i] = c.pool[j]
                       /\ DoneBefore(c.pool, j) \subseteq DoneBefore(y.pool, i)
  BY DEF Behind
<1>1. PICK k \in DOMAIN x.pool :
          y.pool[i] = x.pool[k] /\ DoneBefore(x.pool, k) \subseteq DoneBefore(y.pool, i)
  BY DEF Behind
<1>2. PICK j \in DOMAIN c.pool :
          x.pool[k] = c.pool[j] /\ DoneBefore(c.pool, j) \subseteq DoneBefore(x.pool, k)
  BY <1>1 DEF Behind
<1> QED BY <1>1, <1>2

LEMMA LaterLater ==
    ASSUME NEW c, NEW x \in Later(c), NEW y \in Later(x)
    PROVE  y \in Later(c)
<1>1. x \in From(c) /\ y \in From(x) /\ Behind(c, x) /\ Behind(x, y) /\ y.full = c.full
  BY DEF Later
<1>2. c.seen \subseteq x.seen  BY <1>1, FromGood DEF Grown
<1> QED BY <1>1, <1>2, FromFrom, BehindBehind DEF Later

(* An id offered goes in front of nothing that was before an entry. *)
LEMMA OfferLater ==
    ASSUME NEW c, Good(c), NEW n \in Nodes, NEW x, x = Offer(c, n)
    PROVE  x \in Later(c)
<1>1. c \in ListSet /\ ListOK(c) /\ Nearest(c)  BY DEF Good, ListOK
<1>2. x \in From(c)  BY <1>1, OfferKeeps
<1> DEFINE y == Meet(c, n)
           r == InsertIntoPool(c.query.pq, c.pool, n)
<1>3. y = Meet(c, n) /\ r = InsertIntoPool(c.query.pq, c.pool, n)  OBVIOUS
<1> HIDE DEF y, r
<1>4. y \in ListSet /\ y.seen = c.seen \cup {n} /\ Unmet(c, y)  BY <1>1, <1>3, MeetAdds
<1>5. \/ n \in c.seen /\ x = c
      \/ x = y
      \/ n \notin c.seen /\ Taken(c, n, r, y, x)
  <2>1. \/ n \in c.seen /\ x = c
        \/ /\ n \notin c.seen /\ x = Meet(c, n)
           /\ Len(c.pool) = c.L /\ c.query.pq[n] >= c.query.pq[Last(c.pool).id]
        \/ /\ n \notin c.seen
           /\ ~(Len(c.pool) = c.L /\ c.query.pq[n] >= c.query.pq[Last(c.pool).id])
           /\ \E s \in {InsertIntoPool(c.query.pq, c.pool, n)} : Taken(c, n, s, Meet(c, n), x)
    BY <1>1, OfferCases
  <2> QED BY <1>3, <2>1
<1>6. CASE n \in c.seen /\ x = c  BY <1>6, LaterItself
<1>7. CASE x = y  BY <1>2, <1>4, <1>7 DEF Unmet, Later, Behind
<1>8. CASE n \notin c.seen /\ Taken(c, n, r, y, x)
  <2> DEFINE pool == c.pool
             N == Len(pool)
             m == IF N < c.L THEN N + 1 ELSE N
             e == Entry(n)
             new == Splice(pool, r, e, m)
             d == c.query.pq
  <2>1. /\ pool \in Seq(EntrySet) /\ N \in Nat /\ DOMAIN pool = 1 .. N /\ d \in [Nodes -> Int]
        /\ pool # << >> /\ c.L \in Nat /\ e \in EntrySet /\ e.id = n
    BY <1>1, Fields DEF ListSet, ListOK, Entry, EntrySet
  <2>2. r \in 0 .. N
    <3>1. r = InsertIntoPool(d, pool, n)  BY <1>3
    <3> HIDE DEF pool, d
    <3> QED BY <2>1, <3>1, PlaceFound
  <2>3. m \in 0 .. N + 1 /\ m \in Nat  BY <2>1
  <2>4. x.pool = new /\ x.full = c.full
    <3>1. y.pool = c.pool  BY <1>4 DEF Unmet
    <3>2. \E nk : x = [y EXCEPT !.pool = new, !.nk = nk]  BY <1>8, <3>1 DEF Taken
    <3> HIDE DEF new
    <3> QED BY <1>4, <3>2 DEF ListSet, Unmet
  <2>5. new = Splice(pool, r, e, m)  OBVIOUS
  <2> HIDE DEF pool, m, e, new, N
  <2>6. /\ DOMAIN new = 1 .. m
        /\ \A i \in 1 .. m : new[i] = IF i <= r THEN pool[i]
                                      ELSE IF i = r + 1 THEN e ELSE pool[i - 1]
    <3>1. /\ pool \in Seq(EntrySet) /\ r \in 0 .. Len(pool) /\ e \in EntrySet
          /\ m \in 0 .. Len(pool) + 1
      BY <2>1, <2>2, <2>3 DEF N
    <3>2. /\ new \in Seq(EntrySet) /\ Len(new) = m /\ DOMAIN new = 1 .. m
          /\ \A i \in 1 .. m : new[i] = IF i <= r THEN pool[i]
                                        ELSE IF i = r + 1 THEN e ELSE pool[i - 1]
      BY <2>5, <3>1, InsertedAndCut
    <3> QED BY <3>2
  <2>7. ASSUME NEW i \in 1 .. m
        PROVE  \/ new[i].id \notin c.seen
               \/ \E j \in DOMAIN pool :
                     new[i] = pool[j] /\ DoneBefore(pool, j) \subseteq DoneBefore(new, i)
    <3>1. CASE i <= r
      <4>1. i \in DOMAIN pool /\ new[i] = pool[i]  BY <2>1, <2>2, <2>3, <2>6, <3>1
      <4>2. ASSUME NEW k \in 1 .. i - 1 PROVE new[k] = pool[k]
        <5>1. k \in 1 .. m /\ k <= r  BY <2>2, <2>3, <3>1
        <5> QED BY <2>6, <5>1
      <4>3. DoneBefore(pool, i) \subseteq DoneBefore(new, i)  BY <4>2 DEF DoneBefore
      <4> QED BY <4>1, <4>3
    <3>2. CASE i = r + 1  BY <1>8, <2>1, <2>2, <2>6, <3>2
    <3>3. CASE i > r + 1
      <4>1. i - 1 \in DOMAIN pool /\ new[i] = pool[i - 1]  BY <2>1, <2>2, <2>3, <2>6, <3>3
      <4>2. ASSUME NEW k \in 1 .. (i - 1) - 1
            PROVE  \E l \in 1 .. i - 1 : new[l] = pool[k]
        <5>1. CASE k <= r
          <6>1. k \in 1 .. m /\ k \in 1 .. i - 1  BY <2>2, <2>3, <5>1
          <6> QED BY <2>6, <5>1, <6>1
        <5>2. CASE ~(k <= r)
          <6>1. k + 1 \in 1 .. m /\ k + 1 \in 1 .. i - 1 /\ (k + 1) - 1 = k
                /\ ~(k + 1 <= r) /\ k + 1 # r + 1
            BY <2>2, <2>3, <5>2
          <6>2. new[k + 1] = pool[k]  BY <2>6, <6>1
          <6> QED BY <6>1, <6>2
        <5> QED BY <5>1, <5>2
      <4>3. DoneBefore(pool, i - 1) \subseteq DoneBefore(new, i)
        <5> SUFFICES ASSUME NEW k \in 1 .. (i - 1) - 1, pool[k].done
                     PROVE  \E l \in 1 .. i - 1 : new[l].done /\ new[l].id = pool[k].id
          BY DEF DoneBefore
        <5> QED BY <4>2
      <4> QED BY <4>1, <4>3
    <3> QED BY <2>2, <2>3, <3>1, <3>2, <3>3
  <2>8. Behind(c, x)  BY <2>4, <2>6, <2>7 DEF Behind, pool
  <2> QED BY <1>2, <2>4, <2>8 DEF Later
<1> QED BY <1>5, <1>6, <1>7, <1>8

LEMMA OffersLater ==
    ASSUME NEW c, Good(c), NEW seq \in Seq(Nodes), NEW x, x = Offers(c, seq)[Len(seq)]
    PROVE  x \in Later(c)
<1> DEFINE F == Offers(c, seq)
           n == Len(seq)
           S == Later(c)
<1>1. n \in Nat /\ \A i \in 1 .. n : seq[i] \in Nodes  BY LenProperties, ElementOfSeq
<1>2. F = Offers(c, seq) /\ x = F[n]  OBVIOUS
<1> HIDE DEF F
<1>3. F[0] = c /\ \A i \in 1 .. n : F[i] = Offer(F[i - 1], seq[i])  BY <1>2, OffersInTurn
<1>4. F[0] \in S  BY <1>3, LaterItself
<1>5. ASSUME NEW i \in 1 .. n, F[i - 1] \in S PROVE F[i] \in S
  <2>1. F[i - 1] \in From(c)  BY <1>5 DEF Later
  <2>2. Good(F[i - 1])  BY <2>1, FromGood
  <2>3. F[i] = Offer(F[i - 1], seq[i]) /\ seq[i] \in Nodes  BY <1>1, <1>3
  <2>4. F[i] \in Later(F[i - 1])  BY <2>2, <2>3, OfferLater
  <2> QED BY <1>5, <2>4, LaterLater
<1> HIDE DEF S, n
<1>6. \A i \in 0 .. n : F[i] \in S  BY <1>1, <1>4, <1>5, KeptToTheEnd
<1>7. n \in 0 .. n  BY <1>1
<1> QED BY <1>2, <1>6, <1>7 DEF S

LEMMA ResizeLater ==
    ASSUME NEW c, Good(c), NEW x, x = ResizeL(c)
    PROVE  x \in Later(c)
<1>1. c \in ListSet /\ x \in From(c)  BY ResizeKeeps DEF Good, ListOK
<1>2. x = c \/ \E l : x = [c EXCEPT !.L = l]  BY Zenon DEF ResizeL
<1>3. x.pool = c.pool /\ x.full = c.full  BY <1>1, <1>2 DEF ListSet
<1> QED BY <1>1, <1>3 DEF Later, Behind

(* A record expanded is recorded with the page it was read from; the rest   *)
(* is offering its neighbours.                                              *)
LEMMA ExpandLater ==
    ASSUME NEW c, Good(c), NEW n \in Nodes, NEW page \in Nat, NEW x, x = Expand(c, n, page)
    PROVE  /\ x \in From(c) /\ Behind(c, x)
           /\ OwnFull(c) /\ page = Page[n] => OwnFull(x)
<1> DEFINE keep == Recorded(c, n, page)
           seq == Graph[n]
           all == Offers(keep, seq)[Len(seq)]
<1>1. x = ResizeL(all)
  <2>1. Expand(c, n, page) = Only({ResizeL(z) : z \in {all}})
    BY Zenon DEF Expand, Recorded, Offers, Through
  <2> HIDE DEF all
  <2>2. {ResizeL(z) : z \in {all}} = {ResizeL(all)}  OBVIOUS
  <2>3. Only({ResizeL(all)}) = ResizeL(all)  BY OnlyOne
  <2> QED BY <2>1, <2>2, <2>3
<1>2. keep = Recorded(c, n, page) /\ seq \in Seq(Nodes) /\ all = Offers(keep, seq)[Len(seq)]
  BY ListAssumption
<1> HIDE DEF keep, all
<1>3. keep \in From(c)  BY <1>2, RecordedKeeps
<1>4. c \in ListSet  BY DEF Good, ListOK
<1> DEFINE full == Append(c.full, <<n, page>>)
<1>5. /\ keep.pool = c.pool
      /\ keep.full = c.full \/ keep.full = full
  BY <1>2, <1>4 DEF Recorded, ListSet
<1>6. c.seen \subseteq keep.seen  BY <1>3, FromGood DEF Grown
<1>7. Behind(c, keep)  BY <1>5 DEF Behind
<1> HIDE DEF seq
<1>8. Good(keep)  BY <1>3, FromGood
<1>9. all \in Later(keep)  BY <1>2, <1>8, OffersLater
<1>10. Good(all)
  <2>1. all \in From(keep)  BY <1>9 DEF Later
  <2> QED BY <2>1, FromGood
<1>11. x \in Later(all)  BY <1>1, <1>10, ResizeLater
<1>12. x \in Later(keep)  BY <1>9, <1>11, LaterLater
<1>13. x \in From(keep) /\ Behind(keep, x) /\ x.full = keep.full  BY <1>12 DEF Later
<1>14. x \in From(c)  BY <1>3, <1>13, FromFrom
<1>15. Behind(c, x)  BY <1>6, <1>7, <1>13, BehindBehind
<1>16. ASSUME OwnFull(c), page = Page[n] PROVE OwnFull(x)
  <2>1. /\ DOMAIN full = 1 .. Len(c.full) + 1 /\ DOMAIN c.full = 1 .. Len(c.full) /\ Len(c.full) \in Nat
        /\ full[Len(c.full) + 1] = <<n, page>>
        /\ \A i \in 1 .. Len(c.full) : full[i] = c.full[i]
    <3>1. c.full \in Seq(Nodes \X Nat) /\ <<n, page>> \in Nodes \X Nat  BY <1>4 DEF ListSet
    <3> QED BY <3>1, AppendProperties, LenProperties
  <2> HIDE DEF full
  <2>2. \A i \in DOMAIN full : i \in DOMAIN c.full \/ i = Len(c.full) + 1  BY <2>1
  <2>3. full[Len(c.full) + 1][2] = Page[full[Len(c.full) + 1][1]]  BY <1>16, <2>1
  <2>4. \A i \in DOMAIN c.full : full[i][2] = Page[full[i][1]]  BY <1>16, <2>1 DEF OwnFull
  <2>5. \A i \in DOMAIN full : full[i][2] = Page[full[i][1]]  BY <2>2, <2>3, <2>4
  <2> QED BY <1>5, <1>13, <1>16, <2>5 DEF OwnFull
<1> QED BY <1>14, <1>15, <1>16

(* So are the records of a beam ... *)
LEMMA ExpandAllOwn ==
    ASSUME NEW c, Good(c), OwnFull(c), NEW ids \in Seq(Nodes), NEW x, x = ExpandAll(c, ids)
    PROVE  OwnFull(x)
<1> DEFINE F == Expansions(c, ids)
           n == Len(ids)
           S == { z \in From(c) : OwnFull(z) }
<1>1. n \in Nat /\ \A i \in 1 .. n : ids[i] \in Nodes  BY LenProperties, ElementOfSeq
<1>2. F = Expansions(c, ids) /\ x = F[n]  BY AllExpanded
<1> HIDE DEF F
<1>3. /\ F[0] = c /\ \A i \in 0 .. n : F[i] \in From(c)
      /\ \A i \in 1 .. n : F[i] = Expand(F[i - 1], ids[i], Page[ids[i]])
  BY <1>2, ExpansionsInTurn
<1>4. 0 \in 0 .. n /\ n \in 0 .. n  BY <1>1
<1>5. F[0] \in S  BY <1>3, <1>4
<1>6. ASSUME NEW i \in 1 .. n, F[i - 1] \in S PROVE F[i] \in S
  <2> DEFINE y == F[i]
             z == F[i - 1]
             m == ids[i]
             page == Page[m]
  <2>1. y = Expand(z, m, page) /\ m \in Nodes /\ OwnFull(z) /\ z \in From(c) /\ page = Page[m]
    BY <1>1, <1>3, <1>6
  <2>2. y \in From(c)  BY <1>3, <1>1
  <2>3. page \in Nat  BY <2>1, SearchAssumption
  <2> HIDE DEF y, z, m, page
  <2>4. Good(z)  BY <2>1, FromGood
  <2>5. OwnFull(z) /\ page = Page[m] => OwnFull(y)  BY <2>1, <2>3, <2>4, ExpandLater
  <2> QED BY <2>1, <2>2, <2>5 DEF y
<1> HIDE DEF S
<1>7. \A i \in 0 .. n : F[i] \in S  BY <1>1, <1>5, <1>6, KeptToTheEnd
<1> QED BY <1>2, <1>4, <1>7 DEF S

(* ... those on the pages of the beam before ... *)
LEMMA PassesOwn ==
    ASSUME NEW c, Good(c), OwnFull(c), NEW ids \in Seq(Nodes), NEW x, x = Passes(c, ids)[Len(ids)]
    PROVE  OwnFull(x)
<1> DEFINE F == Passes(c, ids)
           n == Len(ids)
           S == { z \in From(c) : OwnFull(z) }
<1>1. n \in Nat /\ \A i \in 1 .. n : ids[i] \in Nodes  BY LenProperties, ElementOfSeq
<1>2. F = Passes(c, ids) /\ x = F[n]  OBVIOUS
<1> HIDE DEF F
<1>3. /\ F[0] = c /\ \A i \in 0 .. n : F[i] \in From(c)
      /\ \A i \in 1 .. n : F[i] = ExpandAll(F[i - 1], RestOfPage(F[i - 1], ids[i]))
  BY <1>2, PassesInTurn
<1>4. 0 \in 0 .. n /\ n \in 0 .. n  BY <1>1
<1>5. F[0] \in S  BY <1>3, <1>4
<1>6. ASSUME NEW i \in 1 .. n, F[i - 1] \in S PROVE F[i] \in S
  <2> DEFINE y == F[i]
             z == F[i - 1]
             m == ids[i]
             rest == RestOfPage(z, m)
  <2>1. y = ExpandAll(z, rest) /\ m \in Nodes /\ OwnFull(z) /\ z \in From(c)
        /\ rest = RestOfPage(z, m)
    BY <1>1, <1>3, <1>6
  <2>2. y \in From(c)  BY <1>3, <1>1
  <2> HIDE DEF y, z, m, rest
  <2>3. Good(z) /\ z \in ListSet  BY <2>1, FromGood
  <2>4. rest \in Seq(Nodes)  BY <2>1, <2>3, RestListed
  <2>5. OwnFull(y)  BY <2>1, <2>3, <2>4, ExpandAllOwn
  <2> QED BY <2>2, <2>5 DEF y
<1> HIDE DEF S
<1>7. \A i \in 0 .. n : F[i] \in S  BY <1>1, <1>5, <1>6, KeptToTheEnd
<1> QED BY <1>2, <1>4, <1>7 DEF S

(* ... and so those of a round. *)
LEMMA ExploreOwn ==
    ASSUME NEW c, Good(c), OwnFull(c), NEW x, x = Explore(c)
    PROVE  OwnFull(x)
<1> DEFINE all == Passes(c, c.snap)[Len(c.snap)]
           passed == IF c.kind = "page" THEN all ELSE c
           snap == IF c.kind = "page" THEN c.front ELSE c.snap
           e == ExpandAll(passed, c.front)
           y == EndRound([e EXCEPT !.snap = snap])
<1>1. Explore(c) = Only({EndRound([z EXCEPT !.snap = snap]) :
                            z \in {ExpandAll(w, c.front) : w \in {passed}}})
  BY Zenon DEF Explore, Through, Passes
<1>2. x = y
  <2> HIDE DEF passed, snap
  <2>1. {ExpandAll(w, c.front) : w \in {passed}} = {e}  OBVIOUS
  <2> HIDE DEF e
  <2>2. {EndRound([z EXCEPT !.snap = snap]) : z \in {e}} = {y}  OBVIOUS
  <2> HIDE DEF y
  <2> QED BY <1>1, <2>1, <2>2, OnlyOne
<1>3. c.snap \in Seq(Nodes) /\ c.front \in Seq(Nodes) /\ ListOK(c) /\ Nearest(c)
  BY DEF Good, ListOK, ListSet
<1>4. passed \in From(c) /\ OwnFull(passed)
  <2>1. all \in From(c) /\ OwnFull(all)  BY <1>3, PassesKeep, PassesOwn
  <2>2. c \in From(c)  BY <1>3, FromItself
  <2> HIDE DEF all
  <2> QED BY <2>1, <2>2
<1> HIDE DEF passed, snap
<1>5. e \in From(passed) /\ OwnFull(e)
  <2>1. e = ExpandAll(passed, c.front) /\ Good(passed)  BY <1>4, FromGood
  <2> HIDE DEF e
  <2> QED BY <1>3, <1>4, <2>1, ExpandAllKeeps, ExpandAllOwn
<1> HIDE DEF e
<1>6. e \in ListSet  BY <1>5, FromGood
<1>7. y.full = e.full  BY <1>6 DEF EndRound, ListSet
<1> QED BY <1>2, <1>5, <1>7 DEF OwnFull

(* A call begins with none. *)
LEMMA NewOwn ==
    ASSUME NEW kind \in Kinds, NEW dyn \in BOOLEAN, NEW query \in Queries,
           NEW entries \in Entries \cup {<<Medoid>>},
           NEW new, new = NewList(kind, dyn, query, entries)
    PROVE  OwnFull(new) /\ OwnFull(SortPool(new))
<1> DEFINE x == SortPool(new)
           none == << >>
<1>1. new.full = none /\ ListOK(new)  BY NewListOK
<1>2. new \in ListSet /\ x = SortPool(new)  BY <1>1 DEF ListOK
<1>3. DOMAIN none = {}  OBVIOUS
<1> HIDE DEF x, none
<1>4. Aside(new, x)  BY <1>2, SortAside
<1>5. OwnFull(new) /\ OwnFull(x)  BY <1>1, <1>3, <1>4 DEF Aside, OwnFull
<1> QED BY <1>5 DEF x

(* What coro_search sends next changes no record. *)
LEMMA IssueOwn ==
    ASSUME NEW c, Good(c), OwnFull(c), NEW x, x = Issue(c) PROVE OwnFull(x)
<1>1. ListOK(c) /\ c \in ListSet  BY DEF Good, ListOK
<1>2. CASE SearchEnds(c)
  <2>1. x = [c EXCEPT !.front = << >>]  BY <1>2 DEF Issue
  <2> QED BY <1>1, <2>1 DEF ListSet, OwnFull
<1>3. CASE ~SearchEnds(c)
  <2>1. x = PickBeam(c)  BY <1>3 DEF Issue
  <2>2. Aside(c, x)  BY <1>1, <2>1, PickBeamAside
  <2> QED BY <2>2 DEF Aside, OwnFull
<1> QED BY <1>2, <1>3

-----------------------------------------------------------------------------
(* Ages in the ring of buffers.                                             *)
LEMMA AgeIn ==
    ASSUME NEW slot \in Slots, NEW next \in Slots
    PROVE  /\ Age(slot, next) \in Slots
           /\ \A other \in Slots : Age(other, next) = Age(slot, next) => other = slot
  BY SearchAssumption DEF Age, Slots

(* Taking one more makes every other older. *)
LEMMA AgeGrows ==
    ASSUME NEW next \in Slots
    PROVE  /\ After(next) \in Slots /\ Age(next, After(next)) = 0
           /\ \A slot \in Slots : Age(slot, next) <= MaxReads - 2 =>
                 Age(slot, After(next)) = Age(slot, next) + 1
<1>1. MaxReads \in Nat \ {0} /\ next \in 0 .. MaxReads - 1  BY SearchAssumption DEF Slots
<1>2. After(next) = IF next + 1 = MaxReads THEN 0 ELSE next + 1
  <2>1. CASE next + 1 = MaxReads
    <3>1. MaxReads * 1 + 0 = MaxReads /\ 1 \in Nat /\ 0 \in 0 .. MaxReads - 1  BY <1>1
    <3>2. (MaxReads * 1 + 0) % MaxReads = 0  BY <1>1, <3>1, DivModUnique
    <3> QED BY <2>1, <3>1, <3>2 DEF After
  <2>2. CASE next + 1 # MaxReads
    <3> DEFINE s == next + 1
    <3>1. s \in 0 .. MaxReads - 1  BY <1>1, <2>2
    <3> HIDE DEF s
    <3>2. MaxReads * 0 + s = s /\ 0 \in Nat  BY <1>1, <3>1
    <3>3. (MaxReads * 0 + s) % MaxReads = s  BY <1>1, <3>1, <3>2, DivModUnique
    <3> QED BY <2>2, <3>2, <3>3 DEF After, s
  <2> QED BY <2>1, <2>2
<1> DEFINE a == After(next)
<1>3. a = IF next + 1 = MaxReads THEN 0 ELSE next + 1  BY <1>2
<1> HIDE DEF a
<1>4. a \in Slots /\ Age(next, a) = 0  BY <1>1, <1>3 DEF Age, Slots
<1>5. \A slot \in Slots : Age(slot, next) <= MaxReads - 2 => Age(slot, a) = Age(slot, next) + 1
  BY <1>1, <1>3 DEF Age, Slots
<1> QED BY <1>4, <1>5 DEF a

-----------------------------------------------------------------------------
(* Before an entry there are fewer expanded ones than the list may hold. *)
LEMMA DoneFew ==
    ASSUME NEW c, ListOK(c), ~c.dyn, NEW j \in DOMAIN c.pool
    PROVE  /\ IsFiniteSet(DoneBefore(c.pool, j)) /\ Cardinality(DoneBefore(c.pool, j)) \in Nat
           /\ Cardinality(DoneBefore(c.pool, j)) <= LSearch - 1
<1> DEFINE pool == c.pool
           A == 1 .. j - 1
           B == { l \in A : pool[l].done }
           D == { pool[k].id : k \in B }
<1>1. Len(pool) \in Nat /\ DOMAIN pool = 1 .. Len(pool) /\ Len(pool) <= LSearch /\ LSearch \in Nat
  BY Fields, ListAssumption DEF ListOK
<1>2. j - 1 \in Nat /\ j - 1 <= LSearch - 1  BY <1>1
<1>3. IsFiniteSet(A) /\ Cardinality(A) = j - 1
  <2>1. 1 \in Int /\ j - 1 \in Int  BY <1>2
  <2>2. IsFiniteSet(A) /\ Cardinality(A) = IF 1 > j - 1 THEN 0 ELSE (j - 1) - 1 + 1
    BY <2>1, FS_Interval
  <2> QED BY <1>2, <2>2
<1>4. D = DoneBefore(c.pool, j)  BY DEF DoneBefore
<1>5. B \subseteq A  OBVIOUS
<1> HIDE DEF A, B
<1>6. IsFiniteSet(B) /\ Cardinality(B) <= Cardinality(A)  BY <1>3, <1>5, FS_Subset
<1>7. IsFiniteSet(D) /\ Cardinality(D) <= Cardinality(B)
  <2> DEFINE at == [ k \in B |-> pool[k].id ]
  <2>1. D = { at[k] : k \in B }  OBVIOUS
  <2>2. at \in Surjection(B, D)  BY <2>1 DEF Surjection
  <2> HIDE DEF D, at
  <2> QED BY <1>6, <2>2, FS_Surjection
<1> HIDE DEF D
<1>8. Cardinality(D) \in Nat /\ Cardinality(B) \in Nat  BY <1>6, <1>7, FS_CardinalityType
<1>9. Cardinality(D) <= LSearch - 1  BY <1>1, <1>2, <1>3, <1>6, <1>7, <1>8
<1> QED BY <1>4, <1>7, <1>8, <1>9

(* The parts of the ring, with their types. *)
LEMMA RingFields ==
    ASSUME NEW p, p \in RingSet(DOMAIN p.slotOf)
    PROVE  /\ p.next \in Slots /\ p.width \in Nat /\ p.quota \in Int
           /\ p.onPage \in [Slots -> Nat] /\ \A id \in DOMAIN p.slotOf : p.slotOf[id] \in Slots
<1> DEFINE got == DOMAIN p.slotOf
<1>1. p \in RingSet(got)  OBVIOUS
<1> HIDE DEF got
<1>2. p.slotOf \in [got -> Slots] /\ p.next \in Slots /\ p.width \in Nat /\ p.quota \in Int
      /\ p.onPage \in [Slots -> Nat]
  BY <1>1 DEF RingSet, Slots
<1>3. \A id \in got : p.slotOf[id] \in Slots  BY <1>2
<1> QED BY <1>2, <1>3 DEF got

LEMMA FlyFields ==
    ASSUME NEW fly \in Seq(Reads)
    PROVE  /\ Len(fly) \in Nat /\ DOMAIN fly = 1 .. Len(fly)
           /\ \A i \in DOMAIN fly : /\ fly[i] \in Reads /\ fly[i].slot \in Slots
                                    /\ fly[i].id \in Nodes
<1>1. Len(fly) \in Nat /\ DOMAIN fly = 1 .. Len(fly)  BY LenProperties
<1>2. \A i \in DOMAIN fly : fly[i] \in Reads  BY <1>1, ElementOfSeq
<1> QED BY <1>1, <1>2 DEF Reads, Slots

(* A read completes: its page comes to stand in its buffer, which is no     *)
(* other read's and holds nothing that is still needed.                     *)
LEMMA CompleteRing ==
    ASSUME NEW c, NEW label, NEW fly \in Seq(Reads), NEW p, p \in RingSet(DOMAIN p.slotOf),
           RingAt(c, fly, p, label),
           NEW i \in DOMAIN fly, NEW e, e = [fly[i] EXCEPT !.fin = TRUE],
           NEW f, f = [fly EXCEPT ![i] = e],
           NEW pages, pages = [p.onPage EXCEPT ![fly[i].slot] = Page[fly[i].id]],
           NEW q, q = [p EXCEPT !.onPage = pages]
    PROVE  RingAt(c, f, q, label)
<1> DEFINE N == Len(fly)
           slot == fly[i].slot
<1>1. /\ N \in Nat /\ DOMAIN fly = 1 .. N
      /\ \A j \in DOMAIN fly : fly[j] \in Reads /\ fly[j].slot \in Slots /\ fly[j].id \in Nodes
  BY FlyFields
<1>2. /\ p.next \in Slots /\ p.width \in Nat /\ p.quota \in Int
      /\ p.onPage \in [Slots -> Nat] /\ \A id \in DOMAIN p.slotOf : p.slotOf[id] \in Slots
  BY RingFields
<1>3. e \in Reads /\ e.slot = slot /\ e.id = fly[i].id  BY <1>1 DEF Reads
<1>4. /\ Len(f) = N /\ DOMAIN f = DOMAIN fly
      /\ \A j \in DOMAIN fly : f[j] = IF j = i THEN e ELSE fly[j]
  <2>1. Len(f) = N  BY <1>3, ExceptSeq
  <2> QED BY <2>1
<1>5. /\ q.next = p.next /\ q.width = p.width /\ q.quota = p.quota /\ q.slotOf = p.slotOf
      /\ q.onPage = pages
  <2> DEFINE got == DOMAIN p.slotOf
  <2>1. p \in RingSet(got)  OBVIOUS
  <2> HIDE DEF got
  <2> QED BY <2>1 DEF RingSet
<1>6. slot \in Slots /\ pages[slot] = Page[fly[i].id]
      /\ \A s \in Slots : s # slot => pages[s] = p.onPage[s]
  BY <1>1, <1>2
<1>7. /\ \A j \in DOMAIN fly : Age(fly[j].slot, p.next) = N - j
      /\ \A j \in DOMAIN fly : fly[j].fin => p.onPage[fly[j].slot] = Page[fly[j].id]
  BY DEF RingAt, Aged
<1>8. \A s \in Slots : Age(s, p.next) = N - i => s = slot  BY <1>2, <1>6, <1>7, AgeIn
<1> HIDE DEF N, slot
<1>9. Aged(f, q)
  <2> SUFFICES ASSUME NEW j \in DOMAIN fly
               PROVE  /\ Age(f[j].slot, q.next) = N - j
                      /\ f[j].fin => q.onPage[f[j].slot] = Page[f[j].id]
    BY <1>4 DEF Aged
  <2>1. CASE j = i  BY <1>3, <1>4, <1>5, <1>6, <1>7, <2>1 DEF slot
  <2>2. CASE j # i
    <3>1. f[j] = fly[j]  BY <1>4, <2>2
    <3> DEFINE s == fly[j].slot
    <3>2. s \in Slots /\ s # slot /\ Age(s, p.next) = N - j  BY <1>1, <1>7, <2>2 DEF slot
    <3>3. fly[j].fin => p.onPage[s] = Page[fly[j].id]  BY <1>7
    <3> HIDE DEF s
    <3>4. q.onPage[s] = p.onPage[s]  BY <1>5, <1>6, <3>2
    <3> QED BY <1>5, <3>1, <3>2, <3>3, <3>4 DEF s
  <2> QED BY <2>1, <2>2
<1>10. ASSUME NEW slack, Landed(c, N, p, slack) PROVE Landed(c, N, q, slack)
  <2> SUFFICES ASSUME NEW j \in DOMAIN c.pool, Ready(c, q, j), NEW id, id = c.pool[j].id
               PROVE  LandedAt(c.pool, id, j, N, q, slack)
    BY DEF Landed
  <2>1. Ready(c, p, j) /\ id \in DOMAIN p.slotOf  BY <1>5 DEF Ready
  <2>2. LandedAt(c.pool, id, j, N, p, slack)  BY <1>10, <2>1 DEF Landed
  <2> DEFINE s == p.slotOf[id]
  <2>3. s \in Slots /\ N <= Age(s, p.next)  BY <1>2, <2>1, <2>2 DEF LandedAt
  <2>4. Age(slot, p.next) = N - i  BY <1>7 DEF slot
  <2>5. s # slot  BY <1>1, <2>3, <2>4
  <2>6. q.onPage[s] = p.onPage[s]  BY <1>5, <1>6, <2>3, <2>5
  <2> QED BY <1>5, <2>2, <2>6 DEF LandedAt
<1>11. Slack(label, q) = Slack(label, p) /\ (Room(label, N, p) => Room(label, N, q))
  BY <1>5 DEF Slack, Room
<1>12. Room(label, N, p) /\ Landed(c, N, p, Slack(label, p))  BY DEF RingAt, N
<1>13. Landed(c, N, q, Slack(label, p))
  <2> DEFINE slack == Slack(label, p)
  <2>1. Landed(c, N, p, slack)  BY <1>12
  <2> HIDE DEF slack
  <2>2. Landed(c, N, q, slack)  BY <1>10, <2>1
  <2> QED BY <2>2 DEF slack
<1> QED BY <1>4, <1>5, <1>9, <1>11, <1>12, <1>13 DEF RingAt

(* A read is sent into the next buffer: nothing in the ring is so old that  *)
(* it stands there.                                                         *)
LEMMA SubmitRing ==
    ASSUME NEW c, ListOK(c), ~c.dyn, NEW fly \in Seq(Reads), NEW p, p \in RingSet(DOMAIN p.slotOf),
           NEW label \in Submitting, RingAt(c, fly, p, label),
           NEW read \in Reads, read.slot = p.next, ~read.fin,
           NEW more, more = Append(fly, read),
           NEW q, q = [p EXCEPT !.next = After(p.next), !.quota = p.quota - 1],
           NEW to, to = IF label = "submit" THEN "send" ELSE "first_send"
    PROVE  RingAt(c, more, q, to)
<1> DEFINE N == Len(fly)
           new == After(p.next)
<1>1. /\ N \in Nat /\ DOMAIN fly = 1 .. N
      /\ \A j \in DOMAIN fly : fly[j] \in Reads /\ fly[j].slot \in Slots /\ fly[j].id \in Nodes
  BY FlyFields
<1>2. /\ p.next \in Slots /\ p.width \in Nat /\ p.quota \in Int
      /\ p.onPage \in [Slots -> Nat] /\ \A id \in DOMAIN p.slotOf : p.slotOf[id] \in Slots
  BY RingFields
<1>3. /\ q.next = new /\ q.width = p.width /\ q.quota = p.quota - 1 /\ q.slotOf = p.slotOf
      /\ q.onPage = p.onPage
  <2> DEFINE got == DOMAIN p.slotOf
  <2>1. p \in RingSet(got)  OBVIOUS
  <2> HIDE DEF got
  <2> QED BY <2>1 DEF RingSet
<1>4. /\ Len(more) = N + 1 /\ DOMAIN more = 1 .. N + 1
      /\ \A j \in 1 .. N : more[j] = fly[j]
      /\ more[N + 1] = read
  <2> HIDE DEF N
  <2>1. more \in Seq(Reads) /\ Len(more) = Len(fly) + 1
        /\ (\A j \in 1 .. Len(fly) : more[j] = fly[j]) /\ more[Len(fly) + 1] = read
    BY AppendProperties
  <2> QED BY <2>1, LenProperties DEF N
<1>5. /\ Age(p.next, new) = 0
      /\ \A s \in Slots : Age(s, p.next) <= MaxReads - 2 => Age(s, new) = Age(s, p.next) + 1
  BY <1>2, AgeGrows
<1>6. /\ LSearch + p.width <= MaxReads /\ p.quota >= 1 /\ N + p.quota <= p.width
      /\ \A j \in DOMAIN fly : Age(fly[j].slot, p.next) = N - j
      /\ \A j \in DOMAIN fly : fly[j].fin => p.onPage[fly[j].slot] = Page[fly[j].id]
      /\ Landed(c, N, p, Slack(label, p))
      /\ label = "first_submit" => DOMAIN p.slotOf = {}
  BY DEF RingAt, Room, Aged, Submitting
<1>7. MaxReads \in Nat /\ LSearch \in Nat \ {0}  BY SearchAssumption, ListAssumption
<1>8. /\ to \notin Submitting
      /\ \/ label = "submit" /\ to = "send"
         \/ label = "first_submit" /\ to = "first_send"
  <2>1. CASE label = "submit"  BY <2>1 DEF Submitting
  <2>2. CASE label = "first_submit"  BY <2>2 DEF Submitting
  <2> QED BY <2>1, <2>2 DEF Submitting
<1> HIDE DEF N, new
<1>9. Room(to, N + 1, q)  BY <1>1, <1>2, <1>3, <1>6, <1>8 DEF Room
<1>10. Aged(more, q)
  <2> SUFFICES ASSUME NEW j \in 1 .. N + 1
               PROVE  /\ Age(more[j].slot, q.next) = (N + 1) - j
                      /\ more[j].fin => q.onPage[more[j].slot] = Page[more[j].id]
    BY <1>4 DEF Aged
  <2>1. CASE j = N + 1
    <3>1. more[j] = read /\ (N + 1) - j = 0  BY <1>1, <1>4, <2>1
    <3> QED BY <1>3, <1>5, <3>1
  <2>2. CASE j # N + 1
    <3>1. j \in 1 .. N /\ more[j] = fly[j] /\ j \in DOMAIN fly  BY <1>1, <1>4, <2>2
    <3> DEFINE s == fly[j].slot
    <3>2. s \in Slots /\ Age(s, p.next) = N - j  BY <1>1, <1>6, <3>1
    <3> HIDE DEF s
    <3>3. N - j <= MaxReads - 2  BY <1>1, <1>2, <1>6, <1>7, <3>1
    <3>4. Age(s, new) = (N - j) + 1  BY <1>5, <3>2, <3>3
    <3>5. (N - j) + 1 = (N + 1) - j  BY <1>1, <3>1
    <3> QED BY <1>3, <1>6, <3>1, <3>4, <3>5 DEF s
  <2> QED BY <2>1, <2>2
<1>11. Landed(c, N + 1, q, Slack(to, q))
  <2> SUFFICES ASSUME NEW j \in DOMAIN c.pool, Ready(c, q, j), NEW id, id = c.pool[j].id
               PROVE  LandedAt(c.pool, id, j, N + 1, q, Slack(to, q))
    BY DEF Landed
  <2>1. Ready(c, p, j) /\ id \in DOMAIN p.slotOf  BY <1>3 DEF Ready
  <2>2. label = "submit" /\ to = "send"  BY <1>6, <1>8, <2>1
  <2>3. Slack(label, p) = p.quota /\ Slack(to, q) = p.quota - 1  BY <1>3, <2>2 DEF Slack
  <2>4. LandedAt(c.pool, id, j, N, p, p.quota)  BY <1>6, <2>1, <2>3 DEF Landed
  <2> DEFINE s == p.slotOf[id]
             d == Cardinality(DoneBefore(c.pool, j))
             a == Age(s, p.next)
  <2>5. s \in Slots /\ p.onPage[s] = Page[id] /\ N <= a /\ a + p.quota <= p.width + d
    BY <1>2, <2>1, <2>4 DEF LandedAt
  <2>6. d \in Nat /\ d <= LSearch - 1  BY DoneFew
  <2>7. a \in Nat
    <3>1. a \in Slots  BY <1>2, <2>5, AgeIn
    <3> QED BY <1>7, <3>1 DEF Slots
  <2> HIDE DEF a, d
  <2>8. a <= MaxReads - 2
    <3> DEFINE w == p.width
               k == p.quota
    <3>1. w \in Nat /\ k \in Int /\ k >= 1 /\ LSearch + w <= MaxReads /\ a + k <= w + d
      BY <1>2, <1>6, <2>5
    <3> HIDE DEF w, k
    <3> QED BY <1>7, <2>6, <2>7, <3>1
  <2>9. Age(s, new) = a + 1  BY <1>5, <2>5, <2>8 DEF a
  <2>10. N + 1 <= a + 1 /\ (a + 1) + (p.quota - 1) <= p.width + d
    BY <1>1, <1>2, <2>5, <2>6, <2>7
  <2> QED BY <1>3, <2>3, <2>5, <2>9, <2>10 DEF LandedAt, d
<1>12. to = "first_send" => DOMAIN q.slotOf = {}  BY <1>3, <1>6, <1>8
<1> QED BY <1>4, <1>8, <1>9, <1>10, <1>11, <1>12 DEF RingAt

(* The reads harvested stand in the ring with their pages, none of them     *)
(* sent before those still in flight.                                       *)
LEMMA PollRing ==
    ASSUME LSearch + Beam <= MaxReads,
           NEW c, ListOK(c), ~c.dyn, NEW fly \in Seq(Reads), NEW p, p \in RingSet(DOMAIN p.slotOf),
           RingAt(c, fly, p, "poll"),
           NEW m \in 0 .. Len(fly), NEW in, NEW rest, Cut(fly, m, in, rest),
           NEW width, width = p.width \/ (p.width < Beam /\ width = p.width + 1),
           NEW slots, slots = SlotsWith(p, in),
           NEW quota, quota = IF Len(rest) < width THEN 1 ELSE 0,
           NEW q, q = [p EXCEPT !.slotOf = slots, !.width = width, !.quota = quota]
    PROVE  RingAt(c, rest, q, "send")
<1> DEFINE N == Len(fly)
           got == DOMAIN p.slotOf
           inIds == {in[i].id : i \in DOMAIN in}
<1>0. /\ DOMAIN in = 1 .. m /\ \A i \in 1 .. m : in[i] = fly[i] /\ fly[i].fin
      /\ DOMAIN rest = 1 .. N - m /\ Len(rest) = N - m /\ \A i \in 1 .. N - m : rest[i] = fly[m + i]
  BY DEF Cut
<1>1. /\ N \in Nat /\ DOMAIN fly = 1 .. N
      /\ \A j \in DOMAIN fly : fly[j] \in Reads /\ fly[j].slot \in Slots /\ fly[j].id \in Nodes
  BY FlyFields
<1>2. /\ p.next \in Slots /\ p.width \in Nat /\ p.quota \in Int
      /\ p.onPage \in [Slots -> Nat] /\ \A id \in got : p.slotOf[id] \in Slots
  BY RingFields
<1>3. /\ q.next = p.next /\ q.width = width /\ q.quota = quota /\ q.slotOf = slots
      /\ q.onPage = p.onPage
  <2>1. p \in RingSet(got)  OBVIOUS
  <2> HIDE DEF got
  <2> QED BY <2>1 DEF RingSet
<1>4. /\ LSearch + p.width <= MaxReads /\ p.quota >= 0 /\ N + p.quota <= p.width
      /\ \A j \in DOMAIN fly : Age(fly[j].slot, p.next) = N - j
      /\ \A j \in DOMAIN fly : fly[j].fin => p.onPage[fly[j].slot] = Page[fly[j].id]
      /\ Landed(c, N, p, 1)
  BY DEF RingAt, Room, Aged, Slack
<1>5. MaxReads \in Nat /\ LSearch \in Nat \ {0} /\ Beam \in Nat  BY SearchAssumption, ListAssumption
<1>6. "send" \notin Submitting /\ "send" \notin {"first_send", "first_submit"} /\ Slack("send", q) = quota
  BY <1>3 DEF Submitting, Slack
<1> DEFINE w == p.width
<1>7. w \in Nat /\ N <= w /\ LSearch + w <= MaxReads  BY <1>1, <1>2, <1>4
<1>8. w \in Nat /\ (width = w \/ (w < Beam /\ width = w + 1))  BY <1>2
<1>9. m \in Nat /\ m <= N /\ Len(rest) = N - m  BY <1>0, <1>1
<1> HIDE DEF N, got, w
<1>10. width \in Nat /\ w <= width /\ LSearch + width <= MaxReads /\ quota \in {0, 1}
       /\ N - m + quota <= width
  BY <1>1, <1>5, <1>7, <1>8, <1>9
<1>11. Room("send", N - m, q)  BY <1>3, <1>6, <1>10 DEF Room
<1>12. Aged(rest, q)
  <2> SUFFICES ASSUME NEW j \in 1 .. N - m
               PROVE  /\ Age(rest[j].slot, p.next) = (N - m) - j
                      /\ rest[j].fin => p.onPage[rest[j].slot] = Page[rest[j].id]
    BY <1>0, <1>3, <1>9 DEF Aged
  <2> DEFINE k == m + j
  <2>1. k \in 1 .. N /\ N - k = (N - m) - j  BY <1>1, <1>9
  <2>2. rest[j] = fly[k]  BY <1>0
  <2> HIDE DEF k
  <2> QED BY <1>1, <1>4, <2>1, <2>2
<1>13. Landed(c, N - m, q, quota)
  <2> SUFFICES ASSUME NEW j \in DOMAIN c.pool, Ready(c, q, j), NEW id, id = c.pool[j].id
               PROVE  LandedAt(c.pool, id, j, N - m, q, quota)
    BY DEF Landed
  <2> DEFINE d == Cardinality(DoneBefore(c.pool, j))
  <2>1. d \in Nat  BY DoneFew
  <2>2. id \in got \cup inIds /\ ~c.pool[j].done  BY <1>3 DEF Ready, SlotsWith, got
  <2>3. CASE id \in got
    <3> DEFINE s == p.slotOf[id]
               a == Age(s, p.next)
    <3>1. slots[id] = s  BY <2>3 DEF SlotsWith, got
    <3>2. Ready(c, p, j)  BY <2>2, <2>3 DEF Ready, got
    <3>3. p.onPage[s] = Page[id] /\ N <= a /\ a + 1 <= w + d
      BY <1>4, <3>2 DEF Landed, LandedAt, w
    <3>4. a \in Nat
      <4>1. s \in Slots  BY <1>2, <2>3
      <4>2. a \in Slots  BY <1>2, <4>1, AgeIn
      <4> QED BY <1>5, <4>2 DEF Slots
    <3> HIDE DEF a, d
    <3>5. N - m <= a /\ a + quota <= width + d  BY <1>1, <1>7, <1>9, <1>10, <2>1, <3>3, <3>4
    <3> QED BY <1>3, <3>1, <3>3, <3>5 DEF LandedAt, a, d
  <2>4. CASE id \notin got
    <3> DEFINE i == CHOOSE i \in DOMAIN in : in[i].id = id
    <3>1. \E k \in DOMAIN in : in[k].id = id  BY <2>2, <2>4
    <3>2. i \in DOMAIN in /\ in[i].id = id  BY <3>1
    <3>3. slots[id] = in[i].slot  BY <2>2, <2>4 DEF SlotsWith, got
    <3> HIDE DEF i
    <3>4. i \in 1 .. m /\ i \in DOMAIN fly /\ in[i] = fly[i] /\ fly[i].fin
      BY <1>0, <1>1, <1>9, <3>2
    <3> DEFINE s == fly[i].slot
    <3>5. p.onPage[s] = Page[id] /\ Age(s, p.next) = N - i  BY <1>4, <3>2, <3>4
    <3>6. slots[id] = s  BY <3>3, <3>4
    <3> HIDE DEF d, s
    <3>7. N - m <= N - i /\ (N - i) + quota <= width + d
      BY <1>1, <1>7, <1>9, <1>10, <2>1, <3>4
    <3> QED BY <1>3, <3>5, <3>6, <3>7 DEF LandedAt, d
  <2> QED BY <2>3, <2>4
<1> QED BY <1>6, <1>9, <1>11, <1>12, <1>13 DEF RingAt

(* The first entry whose page is read is expanded: what stays ready has one *)
(* more expanded before it.                                                 *)
LEMMA CalcRing ==
    ASSUME NEW c, ListOK(c), ~c.dyn, NEW fly, NEW p, RingAt(c, fly, p, "calc"),
           p \in RingSet(DOMAIN p.slotOf),
           NEW i \in DOMAIN c.pool, Ready(c, p, i),
           \A j \in DOMAIN c.pool : Ready(c, p, j) => i <= j,
           NEW b, DOMAIN b.pool = DOMAIN c.pool, DOMAIN p.slotOf \subseteq b.seen,
           b.pool[i].id = c.pool[i].id, b.pool[i].done,
           \A j \in DOMAIN c.pool : j # i => b.pool[j] = c.pool[j],
           NEW d, Behind(b, d), ListOK(d), ~d.dyn
    PROVE  RingAt(d, fly, p, "poll")
<1> DEFINE N == Len(fly)
<1>1. /\ p.next \in Slots /\ p.width \in Nat
      /\ \A id \in DOMAIN p.slotOf : p.slotOf[id] \in Slots
  BY RingFields
<1>2. Room("poll", N, p) /\ Aged(fly, p) /\ Landed(c, N, p, 0) /\ Slack("poll", p) = 1
      /\ "poll" \notin {"first_send", "first_submit"}
  BY DEF RingAt, Room, Slack, Submitting
<1>3. DOMAIN c.pool = 1 .. Len(c.pool) /\ Len(c.pool) \in Nat  BY Fields DEF ListOK
<1>4. MaxReads \in Nat  BY SearchAssumption
<1> HIDE DEF N
<1>5. ASSUME NEW j \in DOMAIN d.pool, Ready(d, p, j), NEW id, id = d.pool[j].id
      PROVE  LandedAt(d.pool, id, j, N, p, 1)
  <2>1. id \in b.seen  BY <1>5 DEF Ready
  <2>2. PICK k \in DOMAIN c.pool :
            d.pool[j] = b.pool[k] /\ DoneBefore(b.pool, k) \subseteq DoneBefore(d.pool, j)
    BY <1>5, <2>1 DEF Behind
  <2>3. k # i  BY <1>5, <2>2 DEF Ready
  <2>4. b.pool[k] = c.pool[k] /\ id = c.pool[k].id /\ Ready(c, p, k)
    BY <1>5, <2>2, <2>3 DEF Ready
  <2>5. i < k  BY <1>3, <2>3, <2>4
  <2> DEFINE A == DoneBefore(c.pool, k)
             B == DoneBefore(b.pool, k)
             D == DoneBefore(d.pool, j)
             e == c.pool[i].id
  <2>6. A \subseteq B
    <3> SUFFICES ASSUME NEW l \in 1 .. k - 1, c.pool[l].done
                 PROVE  \E h \in 1 .. k - 1 : b.pool[h].done /\ b.pool[h].id = c.pool[l].id
      BY DEF DoneBefore
    <3>1. l \in DOMAIN c.pool  BY <1>3
    <3> QED BY <1>3, <3>1
  <2>7. e \in B
    <3>1. i \in 1 .. k - 1  BY <1>3, <2>5
    <3>2. \E h \in 1 .. k - 1 : b.pool[h].done /\ b.pool[h].id = e  BY <3>1
    <3> QED BY <3>2 DEF DoneBefore
  <2>8. e \notin A
    <3> SUFFICES ASSUME NEW l \in 1 .. k - 1, c.pool[l].done, c.pool[l].id = e PROVE FALSE
      BY DEF DoneBefore
    <3>1. l \in DOMAIN c.pool  BY <1>3
    <3>2. l = i  BY <3>1 DEF ListOK, OneEach
    <3> QED BY <3>2 DEF Ready
  <2>9. IsFiniteSet(A) /\ Cardinality(A) \in Nat /\ IsFiniteSet(D) /\ Cardinality(D) \in Nat
    BY <1>5, DoneFew
  <2>10. A \cup {e} \subseteq D  BY <2>2, <2>6, <2>7
  <2> HIDE DEF A, B, D, e
  <2>11. Cardinality(A \cup {e}) = Cardinality(A) + 1  BY <2>8, <2>9, FS_AddElement
  <2>12. Cardinality(A \cup {e}) <= Cardinality(D)  BY <2>9, <2>10, FS_Subset
  <2> DEFINE s == p.slotOf[id]
             a == Age(s, p.next)
  <2>13. p.onPage[s] = Page[id] /\ N <= a /\ a + 0 <= p.width + Cardinality(A)
    BY <1>2, <2>4 DEF Landed, LandedAt, A
  <2>14. a \in Nat
    <3>1. s \in Slots  BY <1>1, <1>5 DEF Ready
    <3>2. a \in Slots  BY <1>1, <3>1, AgeIn
    <3> QED BY <1>4, <3>2 DEF Slots
  <2> HIDE DEF a
  <2>15. a + 1 <= p.width + Cardinality(D)  BY <1>1, <2>9, <2>11, <2>12, <2>13, <2>14
  <2> QED BY <2>13, <2>15 DEF LandedAt, a, D
<1>6. Landed(d, N, p, 1)  BY <1>5 DEF Landed
<1> QED BY <1>2, <1>6 DEF RingAt, N

-----------------------------------------------------------------------------
(* A step of thread t changes that thread's lists, reads and ring only.     *)
LEMMA OwnMoves ==
    ASSUME SearchIInv, OwnInv, NEW t \in Threads, NEW label, NEW lists,
           Goto(t, label), list' = [list EXCEPT ![t] = lists],
           \A u \in Threads \ {t} : flying'[u] = flying[u] /\ pipe'[u] = pipe[u],
           OwnAt(label, lists, flying'[t], pipe'[t])
    PROVE  OwnInv'
<1>1. pc \in [Threads -> Labels] /\ list \in [Threads -> Seq(ListSet)]
  BY DEF SearchIInv, TypesOK
<1>2. \A u \in Threads : pc'[u] = IF u = t THEN label ELSE pc[u]  BY <1>1 DEF Goto
<1>3. \A u \in Threads : list'[u] = IF u = t THEN lists ELSE list[u]  BY <1>1
<1>4. ASSUME NEW u \in Threads PROVE OwnAt(pc'[u], list'[u], flying'[u], pipe'[u])
  <2>1. CASE u = t  BY <1>2, <1>3, <2>1
  <2>2. CASE u # t
    <3>1. pc'[u] = pc[u] /\ list'[u] = list[u] /\ flying'[u] = flying[u] /\ pipe'[u] = pipe[u]
      BY <1>2, <1>3, <2>2
    <3>2. OwnAt(pc[u], list[u], flying[u], pipe[u])  BY DEF OwnInv
    <3> QED BY <3>1, <3>2
  <2> QED BY <2>1, <2>2
<1> QED BY <1>4 DEF OwnInv

LEMMA OthersStay ==
    ASSUME SearchIInv, NEW t \in Threads,
           UNCHANGED flying \/ \E fly : flying' = [flying EXCEPT ![t] = fly],
           UNCHANGED pipe \/ \E p : pipe' = [pipe EXCEPT ![t] = p]
    PROVE  /\ Others(t)
           /\ \A fly : flying' = [flying EXCEPT ![t] = fly] => flying'[t] = fly
           /\ \A p : pipe' = [pipe EXCEPT ![t] = p] => pipe'[t] = p
<1>1. flying = [u \in Threads |-> flying[u]] /\ pipe = [u \in Threads |-> pipe[u]]
  BY DEF SearchIInv, TypesOK
<1>2. DOMAIN flying = Threads /\ DOMAIN pipe = Threads  BY <1>1
<1> QED BY <1>2 DEF Others

(* Outside a pipe search: a call with one list. *)
LEMMA OwnMovesOne ==
    ASSUME SearchIInv, OwnInv, NEW t \in Threads, NEW label, label \notin PipeLabels, NEW d,
           Goto(t, label), SetList(t, d), OwnFull(d), UNCHANGED <<flying, pipe>>
    PROVE  OwnInv'
<1> DEFINE lists == <<d>>
<1>1. list' = [list EXCEPT ![t] = lists]  BY DEF SetList
<1>2. \A i \in DOMAIN lists : OwnFull(lists[i])  OBVIOUS
<1> HIDE DEF lists
<1>3. OwnAt(label, lists, flying'[t], pipe'[t])  BY <1>2 DEF OwnAt
<1>4. \A u \in Threads \ {t} : flying'[u] = flying[u] /\ pipe'[u] = pipe[u]  OBVIOUS
<1> QED BY <1>1, <1>3, <1>4, OwnMoves

(* The same for a step that leaves the list alone. *)
LEMMA OwnGoes ==
    ASSUME SearchIInv, OwnInv, NEW t \in Threads, NEW label, label \notin PipeLabels,
           Goto(t, label), UNCHANGED <<list, flying, pipe>>
    PROVE  OwnInv'
<1>1. list' = [list EXCEPT ![t] = list[t]]  BY HereOK DEF Same
<1>2. OwnAt(label, list[t], flying'[t], pipe'[t])  BY DEF OwnInv, OwnAt
<1>3. \A u \in Threads \ {t} : flying'[u] = flying[u] /\ pipe'[u] = pipe[u]  OBVIOUS
<1> QED BY <1>1, <1>2, <1>3, OwnMoves

LEMMA OwnStays == ASSUME OwnInv, UNCHANGED <<pc, list, flying, pipe>> PROVE OwnInv'
  BY DEF OwnInv

(* A call that returns leaves no list. *)
LEMMA OwnIdle ==
    ASSUME SearchIInv, OwnInv, NEW t \in Threads, Goto(t, "idle"), list' = [list EXCEPT ![t] = << >>],
           Others(t)
    PROVE  OwnInv'
<1> DEFINE lists == << >>
           label == "idle"
<1>1. \A i \in DOMAIN lists : FALSE  OBVIOUS
<1>2. label \notin PipeLabels /\ Goto(t, label)  BY DEF PipeLabels
<1> HIDE DEF lists, label
<1>3. list' = [list EXCEPT ![t] = lists]  BY DEF lists
<1>4. OwnAt(label, lists, flying'[t], pipe'[t])  BY <1>1, <1>2 DEF OwnAt
<1> QED BY <1>2, <1>3, <1>4, OwnMoves DEF Others

(* The list of a call that reads in rounds. *)
LEMMA RoundOwn ==
    ASSUME SearchIInv, OwnInv, NEW t \in Threads, pc[t] \in RoundLabels
    PROVE  OwnFull(list[t][1])
<1> DEFINE lists == list[t]
           d == lists[1]
<1>1. lists = <<d>>  BY InRound
<1>2. DOMAIN <<d>> = {1}  OBVIOUS
<1> HIDE DEF d
<1>3. 1 \in DOMAIN lists  BY <1>1, <1>2
<1> QED BY <1>3 DEF OwnInv, OwnAt

LEMMA NotPipe == \A label \in RoundLabels \cup {"idle", "coro"} : label \notin PipeLabels
  BY DEF RoundLabels, PipeLabels

(* What changes neither records nor pages. *)
LEMMA OwnSame == ASSUME NEW c, OwnFull(c), NEW x, x.full = c.full PROVE OwnFull(x)
  BY DEF OwnFull

LEMMA SelectOwn ==
    ASSUME SearchIInv, OwnInv, NEW t \in Threads, Select(t)
    PROVE  OwnInv'
<1> DEFINE b == list[t][1]
           c == PickBeam(b)
<1>1. pc[t] = "search" /\ pc[t] \in RoundLabels /\ "explore" \in RoundLabels
      /\ UNCHANGED <<flying, pipe>>
  BY DEF Select, RoundLabels
<1>2. Good(b) /\ OwnFull(b)  BY <1>1, InRound, RoundOwn
<1>3. c = PickBeam(b)  OBVIOUS
<1>4. ListOK(b) /\ Nearest(b)  BY <1>2 DEF Good
<1> HIDE DEF b, c
<1>5. Repicked(b, c)  BY <1>3, <1>4, PickBeamKeeps
<1>6. Good(c)  BY <1>4, <1>5, RepickedGood DEF Good
<1>7. Aside(b, c)  BY <1>3, <1>4, PickBeamAside
<1>8. OwnFull(c)  BY <1>2, <1>7, OwnSame DEF Aside
<1>9. CASE c.front = << >>
  <2> DEFINE d == Explore(c)
  <2>1. pc' = pc /\ SetList(t, d)  BY <1>9 DEF Select, b, c
  <2>2. Same(pc, t)  BY HereOK
  <2>3. d = Explore(c)  OBVIOUS
  <2> HIDE DEF d
  <2>4. Goto(t, "search")  BY <1>1, <2>1, <2>2 DEF Goto, Same
  <2>5. OwnFull(d)  BY <1>6, <1>8, <2>3, ExploreOwn
  <2> QED BY <1>1, <2>1, <2>4, <2>5, NotPipe, OwnMovesOne
<1>10. CASE c.front # << >>
  <2>1. SetList(t, c) /\ Goto(t, "explore")  BY <1>10 DEF Select, b, c
  <2> QED BY <1>1, <1>8, <2>1, NotPipe, OwnMovesOne
<1> QED BY <1>9, <1>10

LEMMA ReadAndExploreOwn ==
    ASSUME SearchIInv, OwnInv, NEW t \in Threads, ReadAndExplore(t)
    PROVE  OwnInv'
<1> DEFINE b == list[t][1]
           d == Explore(b)
<1>1. /\ pc[t] = "explore" /\ pc[t] \in RoundLabels /\ SetList(t, d) /\ Goto(t, "search")
      /\ "search" \in RoundLabels /\ UNCHANGED <<flying, pipe>>
  BY DEF ReadAndExplore, RoundLabels
<1>2. Good(b) /\ OwnFull(b)  BY <1>1, InRound, RoundOwn
<1>3. d = Explore(b)  OBVIOUS
<1> HIDE DEF b, d
<1>4. OwnFull(d)  BY <1>2, <1>3, ExploreOwn
<1> QED BY <1>1, <1>4, NotPipe, OwnMovesOne

(* The batches of a filtered search leave the records as they are. *)
LEMMA BatchOwn ==
    ASSUME SearchIInv, OwnInv, NEW t \in Threads, NextBatch(t) \/ ReadBatch(t) \/ Refine(t)
    PROVE  OwnInv'
<1> DEFINE b == list[t][1]
           n == IF Len(b.batch) < Beam THEN Len(b.batch) ELSE Beam
           front == SubSeq(b.batch, 1, n)
           rest == SubSeq(b.batch, n + 1, Len(b.batch))
           heap == Pushes(b.query.exact, b.heap, b.front)[Len(b.front)]
           left == ToRefine(b)
           done == b.computed \cup ToSet(left)
           next == [b EXCEPT !.front = front, !.batch = rest]
           read == [b EXCEPT !.heap = heap]
           refined == [b EXCEPT !.batch = left, !.cands = << >>, !.computed = done]
<1>1. pc[t] \in RoundLabels /\ UNCHANGED <<flying, pipe>>
  BY Zenon DEF NextBatch, ReadBatch, Refine, RoundLabels
<1>2. {"prefill", "prefill_read", "refine", "refine_read"} \subseteq RoundLabels  BY DEF RoundLabels
<1>3. b \in ListSet /\ OwnFull(b)  BY <1>1, InRound, RoundOwn
<1>4. next = [b EXCEPT !.front = front, !.batch = rest] /\ read = [b EXCEPT !.heap = heap]
      /\ refined = [b EXCEPT !.batch = left, !.cands = << >>, !.computed = done]
  OBVIOUS
<1>5. CASE NextBatch(t)
  <2>1. SetList(t, next) /\ (Goto(t, "prefill_read") \/ Goto(t, "refine_read"))
    BY <1>5, Zenon DEF NextBatch
  <2> HIDE DEF next, read, refined, front, rest, heap, left, done, b
  <2>2. next.full = b.full  BY <1>3, <1>4 DEF ListSet
  <2>3. OwnFull(next)  BY <1>3, <2>2, OwnSame
  <2> QED BY <1>1, <1>2, <2>1, <2>3, NotPipe, OwnMovesOne
<1>6. CASE ReadBatch(t)
  <2>1. SetList(t, read) /\ (Goto(t, "prefill") \/ Goto(t, "refine"))
    BY <1>6, Zenon DEF ReadBatch, Through, Pushes
  <2> HIDE DEF next, read, refined, front, rest, heap, left, done, b
  <2>2. read.full = b.full  BY <1>3, <1>4 DEF ListSet
  <2>3. OwnFull(read)  BY <1>3, <2>2, OwnSame
  <2> QED BY <1>1, <1>2, <2>1, <2>3, NotPipe, OwnMovesOne
<1>7. CASE Refine(t)
  <2>1. SetList(t, refined) /\ Goto(t, "refine")  BY <1>7, Zenon DEF Refine
  <2> HIDE DEF next, read, refined, front, rest, heap, left, done, b
  <2>2. refined.full = b.full  BY <1>3, <1>4 DEF ListSet
  <2>3. OwnFull(refined)  BY <1>3, <2>2, OwnSame
  <2> QED BY <1>1, <1>2, <2>1, <2>3, NotPipe, OwnMovesOne
<1> QED BY <1>5, <1>6, <1>7

LEMMA EndRoundsOwn ==
    ASSUME SearchIInv, OwnInv, NEW t \in Threads,
           PopAgain(t) \/ Prefilled(t) \/ EndRounds(t) \/ Publish(t)
    PROVE  OwnInv'
<1>1. UNCHANGED <<flying, pipe>>  BY DEF PopAgain, Prefilled, EndRounds, Publish
<1>2. Others(t)  BY <1>1 DEF Others
<1>3. CASE Goto(t, "idle") /\ list' = [list EXCEPT ![t] = << >>]  BY <1>2, <1>3, OwnIdle
<1>4. CASE (Goto(t, "link") \/ Goto(t, "search")) /\ UNCHANGED list
  <2>1. "link" \notin PipeLabels /\ "search" \notin PipeLabels  BY DEF PipeLabels
  <2> QED BY <1>1, <1>4, <2>1, OwnGoes
<1> QED BY <1>3, <1>4 DEF PopAgain, Prefilled, EndRounds, Publish

LEMMA BeginRoundsOwn ==
    ASSUME SearchIInv, OwnInv, NEW t \in Threads, BeginRounds(t)
    PROVE  OwnInv'
<1>1. PICK kind \in mix[t] \ {"pipe", "coro"}, query \in Queries,
           entries \in Entries \cup {<<Medoid>>}, dyn \in BOOLEAN :
          \E c \in {SortPool(NewList(kind, dyn, query, entries))} :
          /\ kind = "insert" => entries = <<Medoid>>
          /\ kind \in {"page", "insert"} => ~dyn
          /\ kind # "filter" => SetList(t, c)
          /\ kind = "filter" =>
               \E S \in SUBSET Candidates :
                  /\ Cardinality(S) = IF Cardinality(Candidates) < KSearch
                                      THEN Cardinality(Candidates) ELSE KSearch
                  /\ SetList(t, [c EXCEPT !.batch = Ascending(S), !.computed = S])
          /\ Goto(t, CASE kind = "insert" -> "pop" [] kind = "filter" -> "prefill"
                       [] OTHER -> "search")
  BY DEF BeginRounds
<1> DEFINE new == NewList(kind, dyn, query, entries)
           c == SortPool(new)
           label == CASE kind = "insert" -> "pop" [] kind = "filter" -> "prefill"
                       [] OTHER -> "search"
<1>2. /\ kind # "filter" => SetList(t, c)
      /\ kind = "filter" =>
               \E S \in SUBSET Candidates :
                  SetList(t, [c EXCEPT !.batch = Ascending(S), !.computed = S])
      /\ Goto(t, label)
  BY <1>1
<1>3. kind \in Kinds
  <2>1. mix[t] \subseteq Kinds  BY DEF SearchIInv, TypesOK
  <2> QED BY <2>1
<1>4. new = NewList(kind, dyn, query, entries) /\ c = SortPool(new)  OBVIOUS
<1>5. label \notin PipeLabels  BY DEF PipeLabels
<1>6. c \in ListSet  BY <1>3, FirstList
<1> HIDE DEF c, label, new
<1>7. OwnFull(c)
  <2>1. OwnFull(new) /\ OwnFull(SortPool(new))  BY <1>3, <1>4, NewOwn
  <2> QED BY <1>4, <2>1
<1>8. UNCHANGED <<flying, pipe>>  BY DEF BeginRounds
<1>9. CASE kind # "filter"  BY <1>2, <1>5, <1>7, <1>8, <1>9, OwnMovesOne
<1>10. CASE kind = "filter"
  <2>1. PICK S \in SUBSET Candidates : SetList(t, [c EXCEPT !.batch = Ascending(S), !.computed = S])
    BY <1>2, <1>10
  <2> DEFINE batch == Ascending(S)
             d == [c EXCEPT !.batch = batch, !.computed = S]
  <2>2. SetList(t, d) /\ d = [c EXCEPT !.batch = batch, !.computed = S]  BY <2>1
  <2> HIDE DEF d, batch
  <2>3. d.full = c.full  BY <1>6, <2>2 DEF ListSet
  <2>4. OwnFull(d)  BY <1>7, <2>3, OwnSame
  <2> QED BY <1>2, <1>5, <1>8, <2>2, <2>4, OwnMovesOne
<1> QED BY <1>9, <1>10

(* The lists of coro_search. *)
LEMMA BeginCoroOwn ==
    ASSUME SearchIInv, OwnInv, NEW t \in Threads, BeginCoro(t)
    PROVE  OwnInv'
<1>1. PICK query \in [1 .. NCoros -> Queries], entries \in Entries \cup {<<Medoid>>} :
          \E new \in {[i \in 1 .. NCoros |-> NewList("coro", FALSE, query[i], entries)]} :
          \E sorted \in {[i \in 1 .. NCoros |-> SortPool(new[i])]} :
          \E cs \in {[i \in 1 .. NCoros |-> Issue(sorted[i])]} :
              /\ list' = [list EXCEPT ![t] = cs]
              /\ flying' = [flying EXCEPT ![t] =
                              FlattenSeq([i \in DOMAIN cs |-> Batch(cs[i], i)])]
  BY DEF BeginCoro
<1> DEFINE new == [i \in 1 .. NCoros |-> NewList("coro", FALSE, query[i], entries)]
           sorted == [i \in 1 .. NCoros |-> SortPool(new[i])]
           cs == [i \in 1 .. NCoros |-> Issue(sorted[i])]
           fly == FlattenSeq([i \in DOMAIN cs |-> Batch(cs[i], i)])
<1>2. list' = [list EXCEPT ![t] = cs] /\ flying' = [flying EXCEPT ![t] = fly]
  <2> DEFINE Sent(issued) ==
                 /\ list' = [list EXCEPT ![t] = issued]
                 /\ flying' = [flying EXCEPT ![t] =
                                 FlattenSeq([i \in DOMAIN issued |-> Batch(issued[i], i)])]
             SortedOf(news) == [i \in 1 .. NCoros |-> SortPool(news[i])]
             IssuedOf(sorts) == [i \in 1 .. NCoros |-> Issue(sorts[i])]
  <2>1. \E news \in {new} : \E sorts \in {SortedOf(news)} : \E issued \in {IssuedOf(sorts)} : Sent(issued)
    BY <1>1
  <2>2. cs = IssuedOf(SortedOf(new))  OBVIOUS
  <2> HIDE DEF Sent, SortedOf, IssuedOf, cs, sorted, new
  <2>3. Sent(cs)  BY <2>1, <2>2
  <2> QED BY <2>3 DEF Sent
<1>3. ASSUME NEW i \in 1 .. NCoros PROVE OwnFull(cs[i])
  <2> DEFINE kind == "coro"
             dyn == FALSE
             q == query[i]
             first == NewList(kind, dyn, q, entries)
             c == SortPool(first)
  <2>1. kind \in Kinds /\ dyn \in BOOLEAN /\ q \in Queries
        /\ first = NewList(kind, dyn, q, entries) /\ c = SortPool(first)
    BY DEF Kinds
  <2>2. sorted[i] = c /\ cs[i] = Issue(c)  OBVIOUS
  <2> HIDE DEF kind, dyn, q, c, first, cs, sorted, new
  <2>3. c = SortPool(NewList(kind, dyn, q, entries))  BY <2>1
  <2>4. Good(c) /\ c.kind = kind  BY <2>1, <2>3, FirstList
  <2>5. OwnFull(first) /\ OwnFull(SortPool(first))  BY <2>1, NewOwn
  <2>6. OwnFull(c)  BY <2>1, <2>5
  <2> QED BY <2>2, <2>4, <2>6, IssueOwn
<1>4. DOMAIN cs = 1 .. NCoros  OBVIOUS
<1> DEFINE label == "coro"
<1>5. label \notin PipeLabels /\ Goto(t, label) /\ UNCHANGED pipe  BY DEF BeginCoro, PipeLabels
<1> HIDE DEF cs, new, sorted, fly, label
<1>6. Others(t)  BY <1>2, <1>5, OthersStay
<1>7. OwnAt(label, cs, flying'[t], pipe'[t])  BY <1>3, <1>4, <1>5 DEF OwnAt
<1> QED BY <1>2, <1>5, <1>6, <1>7, OwnMoves DEF Others

LEMMA StepCoroOwn ==
    ASSUME SearchIInv, OwnInv, NEW t \in Threads, StepCoro(t)
    PROVE  OwnInv'
<1> DEFINE had == list[t]
<1>1. pc[t] = "coro" /\ pc' = pc /\ UNCHANGED pipe  BY DEF StepCoro
<1>2. Goto(t, "coro")  BY <1>1, HereOK DEF Same, Goto
<1>3. /\ had \in Seq(ListSet) /\ Len(had) = NCoros /\ DOMAIN had = 1 .. NCoros
      /\ had[1].kind = "coro" /\ want[t] = << >> /\ held[t] = {}
      /\ \A i \in DOMAIN had : Good(had[i])
  BY <1>1, InCoro
<1>4. PICK i \in 1 .. NCoros :
        \E explored \in {Explore(list[t][i])} : \E c \in {Issue(explored)} :
           /\ list' = [list EXCEPT ![t][i] = c]
           /\ flying' = [flying EXCEPT ![t] =
                            SelectSeq(@, LAMBDA io : io.slot # i) \o Batch(c, i)]
  BY DEF StepCoro
<1> DEFINE old == had[i]
           explored == Explore(old)
           c == Issue(explored)
           lists == [had EXCEPT ![i] = c]
           fly == SelectSeq(flying[t], LAMBDA io : io.slot # i) \o Batch(c, i)
<1>5. list' = [list EXCEPT ![t] = lists] /\ flying' = [flying EXCEPT ![t] = fly]  BY <1>4
<1>6. Good(old) /\ explored = Explore(old) /\ c = Issue(explored)  BY <1>3
<1>7. \A j \in 1 .. NCoros : OwnFull(had[j])  BY <1>3 DEF OwnInv, OwnAt
<1>8. OwnFull(old)  BY <1>7
<1> HIDE DEF old, explored, c, fly
<1>9. explored \in From(old)  BY <1>6, ExploreKeeps
<1>10. Good(explored)  BY <1>9, FromGood
<1>11. OwnFull(explored)  BY <1>6, <1>8, ExploreOwn
<1>12. OwnFull(c)  BY <1>6, <1>10, <1>11, IssueOwn
<1>13. DOMAIN lists = 1 .. NCoros
       /\ \A j \in 1 .. NCoros : lists[j] = IF j = i THEN c ELSE had[j]
  <2> HIDE DEF had
  <2> QED BY <1>3
<1>14. \A j \in DOMAIN lists : OwnFull(lists[j])  BY <1>7, <1>12, <1>13
<1> DEFINE label == "coro"
<1>15. label \notin PipeLabels /\ Goto(t, label)  BY <1>2 DEF PipeLabels
<1> HIDE DEF lists, had, label
<1>16. Others(t)  BY <1>1, <1>5, OthersStay
<1>17. OwnAt(label, lists, flying'[t], pipe'[t])  BY <1>14, <1>15 DEF OwnAt
<1> QED BY <1>5, <1>15, <1>16, <1>17, OwnMoves DEF Others

-----------------------------------------------------------------------------
(* The steps of a pipe search.                                              *)
LEMMA InPipeOwn ==
    ASSUME SearchIInv, OwnInv, NEW t \in Threads, pc[t] \in PipeLabels
    PROVE  /\ OwnFull(list[t][1]) /\ DOMAIN list[t] = {1}
           /\ RingAt(list[t][1], flying[t], pipe[t], pc[t])
           /\ flying[t] \in Seq(Reads) /\ pipe[t] \in RingSet(DOMAIN pipe[t].slotOf)
<1> DEFINE lists == list[t]
           c == lists[1]
           fly == flying[t]
           p == pipe[t]
<1>1. lists = <<c>> /\ PipeAt(c, fly, p, pc[t], want[t], held[t])  BY InPipe
<1>2. DOMAIN <<c>> = {1}  OBVIOUS
<1> HIDE DEF c
<1>3. DOMAIN lists = {1}  BY <1>1, <1>2
<1>4. OwnAt(pc[t], lists, fly, p)  BY DEF OwnInv
<1>5. OwnFull(c) /\ RingAt(c, fly, p, pc[t])  BY <1>3, <1>4 DEF OwnAt, c
<1> HIDE DEF fly, p
<1>6. fly \in Seq(Reads) /\ p \in RingSet(DOMAIN p.slotOf)  BY <1>1 DEF PipeAt
<1> QED BY <1>3, <1>5, <1>6 DEF c, fly, p

(* A step within a pipe search. *)
LEMMA PipeOwn ==
    ASSUME SearchIInv, OwnInv, NEW t \in Threads, NEW label \in PipeLabels, NEW d,
           Goto(t, label), list' = [list EXCEPT ![t] = <<d>>], OwnFull(d), Others(t),
           RingAt(d, flying'[t], pipe'[t], label)
    PROVE  OwnInv'
<1> DEFINE lists == <<d>>
<1>1. list' = [list EXCEPT ![t] = lists] /\ lists[1] = d  OBVIOUS
<1>2. \A i \in DOMAIN lists : OwnFull(lists[i])  OBVIOUS
<1> HIDE DEF lists
<1>3. OwnAt(label, lists, flying'[t], pipe'[t])  BY <1>1, <1>2 DEF OwnAt
<1> QED BY <1>1, <1>3, OwnMoves DEF Others

(* A read arrives. *)
LEMMA CompleteOwn ==
    ASSUME SearchIInv, OwnInv, NEW t \in Threads, Complete(t)
    PROVE  OwnInv'
<1> DEFINE fly == flying[t]
           p == pipe[t]
           c == list[t][1]
<1>1. PICK i \in DOMAIN fly :
         /\ flying' = [flying EXCEPT ![t][i].fin = TRUE]
         /\ pipe' = IF pc[t] = "coro" THEN pipe
                    ELSE [pipe EXCEPT ![t].onPage[flying[t][i].slot] = Page[flying[t][i].id]]
         /\ UNCHANGED <<mix, free, bg, calls, pc, list, want, held, locks>>
  BY DEF Complete
<1> DEFINE e == [fly[i] EXCEPT !.fin = TRUE]
           f == [fly EXCEPT ![i] = e]
           pages == [p.onPage EXCEPT ![fly[i].slot] = Page[fly[i].id]]
           q == [p EXCEPT !.onPage = pages]
<1>2. flying' = [flying EXCEPT ![t] = f]  BY <1>1
<1>3. Goto(t, pc[t]) /\ list' = [list EXCEPT ![t] = list[t]]  BY <1>1, HereOK DEF Same, Goto
<1>4. pc[t] \in PipeLabels \cup {"coro"}
  <2>1. FlyingAt(pc[t], list[t], want[t], held[t], fly, p)  BY HereOK DEF Here
  <2>2. fly # << >>  BY <1>1
  <2> HIDE DEF fly, p
  <2> QED BY <2>1, <2>2 DEF FlyingAt
<1>5. CASE pc[t] = "coro"
  <2>1. UNCHANGED pipe /\ pc[t] \notin PipeLabels  BY <1>1, <1>5 DEF PipeLabels
  <2> HIDE DEF f
  <2>2. Others(t)  BY <1>2, <2>1, OthersStay
  <2>3. OwnAt(pc[t], list[t], flying'[t], pipe'[t])  BY <2>1 DEF OwnInv, OwnAt
  <2> QED BY <1>3, <2>2, <2>3, OwnMoves DEF Others
<1>6. CASE pc[t] \in PipeLabels
  <2>1. pc[t] # "coro"  BY <1>6 DEF PipeLabels
  <2>2. pipe' = [pipe EXCEPT ![t] = q]  BY <1>1, <2>1
  <2>3. /\ OwnFull(c) /\ RingAt(c, fly, p, pc[t]) /\ fly \in Seq(Reads)
        /\ p \in RingSet(DOMAIN p.slotOf) /\ list[t] = <<c>>
    BY <1>6, InPipeOwn, InPipe
  <2>4. /\ e = [fly[i] EXCEPT !.fin = TRUE] /\ f = [fly EXCEPT ![i] = e]
        /\ pages = [p.onPage EXCEPT ![fly[i].slot] = Page[fly[i].id]]
        /\ q = [p EXCEPT !.onPage = pages]
    OBVIOUS
  <2> HIDE DEF fly, p, c, e, f, pages, q
  <2>5. RingAt(c, f, q, pc[t])  BY <1>1, <2>3, <2>4, CompleteRing DEF fly
  <2>6. Others(t) /\ flying'[t] = f /\ pipe'[t] = q  BY <1>2, <2>2, OthersStay
  <2> QED BY <1>3, <1>6, <2>3, <2>5, <2>6, PipeOwn
<1> QED BY <1>4, <1>5, <1>6

(* A pipe search begins with an empty ring. *)
LEMMA BeginPipeOwn ==
    ASSUME RingSuffices, SearchIInv, OwnInv, NEW t \in Threads, BeginPipe(t)
    PROVE  OwnInv'
<1> DEFINE label == "first_send"
           none == << >>
           pages == [slot \in 0 .. MaxReads - 1 |-> 0]
           p == [onPage |-> pages, slotOf |-> none,
                 next |-> 0, width |-> StartWidth, quota |-> StartWidth]
<1>1. PICK query \in Queries, entries \in Entries \cup {<<Medoid>>} :
          SetList(t, NewList("pipe", FALSE, query, entries))
  BY DEF BeginPipe
<1> DEFINE kind == "pipe"
           dyn == FALSE
           c == NewList(kind, dyn, query, entries)
<1>2. kind \in Kinds /\ dyn \in BOOLEAN /\ c = NewList(kind, dyn, query, entries) /\ SetList(t, c)
  BY <1>1 DEF Kinds
<1>3. /\ pc[t] = "idle" /\ UNCHANGED flying /\ Goto(t, label) /\ pipe' = [pipe EXCEPT ![t] = p]
  BY DEF BeginPipe
<1>4. label \in PipeLabels /\ label \notin Submitting /\ label \notin {"send", "submit", "poll"}
  BY DEF PipeLabels, Submitting
<1>5. flying[t] = none
  <2>1. FlyingAt(pc[t], list[t], want[t], held[t], flying[t], pipe[t])  BY HereOK DEF Here
  <2>2. pc[t] \notin PipeLabels \cup {"coro"}  BY <1>3 DEF PipeLabels
  <2> QED BY <2>1, <2>2 DEF FlyingAt
<1>6. DOMAIN none = {} /\ Len(none) = 0  OBVIOUS
<1>7. p.slotOf = none /\ p.next = 0 /\ p.width = StartWidth /\ p.quota = StartWidth  OBVIOUS
<1> HIDE DEF kind, dyn, c, label, none, p, pages
<1>8. OwnFull(c)
  <2>1. OwnFull(c) /\ OwnFull(SortPool(c))  BY <1>2, NewOwn
  <2> QED BY <2>1
<1>9. StartWidth \in Nat /\ LSearch + StartWidth <= MaxReads  BY SearchAssumption DEF RingSuffices
<1>10. Room(label, Len(none), p)  BY <1>4, <1>6, <1>7, <1>9 DEF Room
<1>11. Aged(none, p)  BY <1>6 DEF Aged
<1>12. \A n : n \notin DOMAIN p.slotOf  BY <1>6, <1>7
<1>13. Landed(c, Len(none), p, Slack(label, p))  BY <1>12 DEF Landed, Ready
<1>14. DOMAIN p.slotOf = {}  BY <1>6, <1>7
<1>15. RingAt(c, none, p, label)  BY <1>10, <1>11, <1>13, <1>14 DEF RingAt
<1>16. Others(t) /\ flying'[t] = none /\ pipe'[t] = p
  <2>1. Others(t) /\ pipe'[t] = p  BY <1>3, OthersStay
  <2> QED BY <1>3, <1>5, <2>1
<1>17. list' = [list EXCEPT ![t] = <<c>>]  BY <1>2 DEF SetList
<1> QED BY <1>3, <1>4, <1>8, <1>15, <1>16, <1>17, PipeOwn

(* Choosing the next entry to read moves and expands none. *)
LEMMA SamePlaces ==
    ASSUME NEW c, NEW d, NEW N \in Nat, DOMAIN c.pool = 1 .. N, DOMAIN d.pool = DOMAIN c.pool,
           \A j \in DOMAIN c.pool : d.pool[j].id = c.pool[j].id /\ d.pool[j].done = c.pool[j].done,
           NEW n, NEW p, NEW slack, Landed(c, n, p, slack)
    PROVE  Landed(d, n, p, slack)
<1> SUFFICES ASSUME NEW j \in DOMAIN c.pool, Ready(d, p, j)
             PROVE  LandedAt(d.pool, d.pool[j].id, j, n, p, slack)
  BY DEF Landed
<1>1. Ready(c, p, j) /\ d.pool[j].id = c.pool[j].id  BY DEF Ready
<1>2. LandedAt(c.pool, c.pool[j].id, j, n, p, slack)  BY <1>1 DEF Landed
<1>3. \A l \in 1 .. j - 1 : l \in DOMAIN c.pool  OBVIOUS
<1>4. DoneBefore(d.pool, j) = DoneBefore(c.pool, j)  BY <1>3 DEF DoneBefore
<1> QED BY <1>1, <1>2, <1>4 DEF LandedAt

LEMMA PipeSelectOwn ==
    ASSUME SearchIInv, OwnInv, NEW t \in Threads, PipeSelect(t)
    PROVE  OwnInv'
<1> DEFINE c == list[t][1]
           fly == flying[t]
           p == pipe[t]
           i == First(Unread(t))
           front == <<c.pool[i].id>>
           pool == [j \in DOMAIN c.pool |->
                      IF j <= i THEN [c.pool[j] EXCEPT !.flag = FALSE] ELSE c.pool[j]]
           d == [c EXCEPT !.front = front, !.pool = pool]
           label == IF pc[t] = "send" THEN "submit" ELSE "first_submit"
<1>1. /\ pc[t] \in PipeLabels /\ Goto(t, label) /\ label \in PipeLabels
      /\ UNCHANGED <<flying, pipe>> /\ p.quota > 0
  BY DEF PipeSelect, PipeLabels
<1>2. list' = [list EXCEPT ![t] = <<d>>]
  <2>1. SetList(t, d)  BY Zenon DEF PipeSelect
  <2> HIDE DEF d
  <2> QED BY <2>1 DEF SetList
<1>3. /\ OwnFull(c) /\ c \in ListSet /\ RingAt(c, fly, p, pc[t]) /\ p \in RingSet(DOMAIN p.slotOf)
  BY <1>1, InPipe, InPipeOwn
<1>4. /\ Len(c.pool) \in Nat /\ DOMAIN c.pool = 1 .. Len(c.pool)
      /\ \A j \in DOMAIN c.pool : c.pool[j] \in EntrySet
  BY <1>3, Fields
<1>5. d = [c EXCEPT !.front = front, !.pool = pool]  OBVIOUS
<1>6. (pc[t] = "send" /\ label = "submit") \/ (pc[t] = "first_send" /\ label = "first_submit")
  BY DEF PipeSelect
<1> HIDE DEF i, c, front, label, d, fly, p
<1>7. DOMAIN pool = DOMAIN c.pool
      /\ \A j \in DOMAIN c.pool : pool[j].id = c.pool[j].id /\ pool[j].done = c.pool[j].done
  BY <1>4 DEF EntrySet
<1> HIDE DEF pool
<1>8. d.pool = pool /\ d.full = c.full  BY <1>3, <1>5 DEF ListSet
<1>9. OwnFull(d)  BY <1>3, <1>8, OwnSame
<1>10. Landed(c, Len(fly), p, Slack(label, p))
  <2>1. Slack(label, p) = Slack(pc[t], p)  BY <1>6 DEF Slack
  <2> QED BY <1>3, <2>1 DEF RingAt
<1>11. Landed(d, Len(fly), p, Slack(label, p))  BY <1>4, <1>7, <1>8, <1>10, SamePlaces
<1>12. Room(label, Len(fly), p)
  <2> DEFINE k == p.quota
  <2>1. k \in Int /\ k > 0  BY <1>1, <1>3, RingFields
  <2> HIDE DEF k
  <2>2. k >= 1  BY <2>1
  <2> QED BY <1>3, <2>2 DEF RingAt, Room, k
<1>13. label \in {"first_send", "first_submit"} => DOMAIN p.slotOf = {}  BY <1>3, <1>6 DEF RingAt
<1>14. RingAt(d, fly, p, label)  BY <1>3, <1>11, <1>12, <1>13 DEF RingAt
<1>15. Others(t)  BY <1>1 DEF Others
<1>16. flying'[t] = fly /\ pipe'[t] = p  BY <1>1 DEF fly, p
<1> QED BY <1>1, <1>2, <1>9, <1>14, <1>15, <1>16, PipeOwn

LEMMA PipeSubmitOwn ==
    ASSUME SearchIInv, OwnInv, NEW t \in Threads, PipeSubmit(t)
    PROVE  OwnInv'
<1> DEFINE c == list[t][1]
           fly == flying[t]
           p == pipe[t]
           id == c.front[1]
           read == [id |-> id, slot |-> p.next, fin |-> FALSE]
           more == Append(fly, read)
           q == [p EXCEPT !.next = After(p.next), !.quota = p.quota - 1]
           label == IF pc[t] = "submit" THEN "send" ELSE "first_send"
<1>1. /\ pc[t] \in Submitting /\ pc[t] \in PipeLabels /\ label \in PipeLabels
      /\ UNCHANGED list /\ Goto(t, label) /\ flying' = [flying EXCEPT ![t] = more]
      /\ pipe' = [pipe EXCEPT ![t].next = (@ + 1) % MaxReads, ![t].quota = @ - 1]
  BY DEF PipeSubmit, PipeLabels, Submitting
<1>2. pipe' = [pipe EXCEPT ![t] = q]
  <2>1. Same(pipe, t)  BY HereOK
  <2>2. pipe' = [pipe EXCEPT ![t] = [p EXCEPT !.next = (p.next + 1) % MaxReads, !.quota = p.quota - 1]]
    BY <1>1, <2>1 DEF Same
  <2> QED BY <2>2 DEF After
<1>3. list' = [list EXCEPT ![t] = <<c>>]
  <2>1. Same(list, t) /\ list[t] = <<c>>  BY <1>1, HereOK, InPipe
  <2> QED BY <1>1, <2>1 DEF Same
<1>4. /\ OwnFull(c) /\ c \in ListSet /\ ListOK(c) /\ ~c.dyn /\ RingAt(c, fly, p, pc[t])
      /\ p \in RingSet(DOMAIN p.slotOf) /\ fly \in Seq(Reads)
  BY <1>1, InPipe, InPipeOwn
<1>5. id \in Nodes
  <2>1. PipeAt(c, fly, p, pc[t], want[t], held[t])  BY <1>1, InPipe
  <2>2. Ids(c.pool) \subseteq Nodes  BY <1>4, Fields
  <2> HIDE DEF c, fly, p
  <2>3. id \in Ids(c.pool)  BY <1>1, <2>1 DEF PipeAt
  <2> QED BY <2>2, <2>3
<1>6. /\ read = [id |-> id, slot |-> p.next, fin |-> FALSE] /\ more = Append(fly, read)
      /\ q = [p EXCEPT !.next = After(p.next), !.quota = p.quota - 1]
      /\ label = IF pc[t] = "submit" THEN "send" ELSE "first_send"
  OBVIOUS
<1> HIDE DEF c, fly, p, id, read, more, q, label
<1>7. p.next \in 0 .. MaxReads - 1  BY <1>4 DEF RingSet
<1>8. read \in Reads /\ read.slot = p.next /\ ~read.fin  BY <1>5, <1>6, <1>7 DEF Reads
<1>9. RingAt(c, more, q, label)  BY <1>1, <1>4, <1>6, <1>8, SubmitRing
<1>10. Others(t) /\ flying'[t] = more /\ pipe'[t] = q  BY <1>1, <1>2, OthersStay
<1> QED BY <1>1, <1>3, <1>4, <1>9, <1>10, PipeOwn

(* Less may be sent: the older pages are needed no longer than before. *)
LEMMA LandedLess ==
    ASSUME NEW c, ListOK(c), ~c.dyn, NEW n, NEW p, p \in RingSet(DOMAIN p.slotOf),
           NEW slack \in Nat, Landed(c, n, p, slack)
    PROVE  Landed(c, n, p, 0)
<1> SUFFICES ASSUME NEW j \in DOMAIN c.pool, Ready(c, p, j)
             PROVE  LandedAt(c.pool, c.pool[j].id, j, n, p, 0)
  BY DEF Landed
<1> DEFINE id == c.pool[j].id
           a == Age(p.slotOf[id], p.next)
           w == p.width
           k == Cardinality(DoneBefore(c.pool, j))
<1>1. LandedAt(c.pool, id, j, n, p, slack)  BY DEF Landed
<1>2. id \in DOMAIN p.slotOf  BY DEF Ready
<1>3. p.slotOf[id] \in Slots /\ p.next \in Slots /\ w \in Nat  BY <1>2, RingFields
<1>4. a \in Nat
  <2>1. a \in Slots  BY <1>3, AgeIn
  <2> QED BY <2>1 DEF Slots
<1>5. k \in Nat  BY DoneFew
<1>6. a + slack <= w + k  BY <1>1 DEF LandedAt
<1>7. a + 0 <= w + k
  <2> HIDE DEF a, w, k
  <2> QED BY <1>3, <1>4, <1>5, <1>6
<1> QED BY <1>1, <1>7 DEF LandedAt

LEMMA PipeSentOwn ==
    ASSUME SearchIInv, OwnInv, NEW t \in Threads, PipeSent(t)
    PROVE  OwnInv'
<1> DEFINE c == list[t][1]
           d == SortPool(c)
           fly == flying[t]
           p == pipe[t]
<1>1. pc[t] \in {"first_send", "send"} /\ pc[t] \in PipeLabels
      /\ "calc" \in PipeLabels /\ "poll" \in PipeLabels
      /\ "calc" \notin Submitting /\ "poll" \notin Submitting
      /\ UNCHANGED <<flying, pipe>>
  BY DEF PipeSent, PipeLabels, Submitting
<1>2. /\ OwnFull(c) /\ c \in ListSet /\ ListOK(c) /\ ~c.dyn /\ RingAt(c, fly, p, pc[t])
      /\ p \in RingSet(DOMAIN p.slotOf) /\ list[t] = <<c>>
  BY <1>1, InPipe, InPipeOwn
<1>3. Others(t) /\ flying'[t] = fly /\ pipe'[t] = p  BY <1>1 DEF Others
<1>4. Aged(fly, p) /\ Landed(c, Len(fly), p, Slack(pc[t], p))
      /\ Room("calc", Len(fly), p) /\ Room("poll", Len(fly), p)
  BY <1>1, <1>2 DEF RingAt, Room
<1>5. CASE pc[t] = "send"
  <2>1. Goto(t, "calc") /\ UNCHANGED list  BY <1>5 DEF PipeSent
  <2>2. list' = [list EXCEPT ![t] = <<c>>]  BY <1>2, <2>1, HereOK DEF Same
  <2> HIDE DEF c, d, fly, p
  <2>3. Slack(pc[t], p) = p.quota /\ Slack("calc", p) = 0  BY <1>5 DEF Slack
  <2>4. p.quota \in Nat
    <3> DEFINE k == p.quota
    <3>1. k \in Int /\ k >= 0  BY <1>2, <1>4, RingFields DEF Room
    <3> HIDE DEF k
    <3>2. k \in Nat  BY <3>1
    <3> QED BY <3>2 DEF k
  <2>5. Landed(c, Len(fly), p, 0)  BY <1>2, <1>4, <2>3, <2>4, LandedLess
  <2>6. RingAt(c, fly, p, "calc")  BY <1>4, <2>3, <2>5 DEF RingAt
  <2> QED BY <1>1, <1>2, <1>3, <2>1, <2>2, <2>6, PipeOwn
<1>6. CASE pc[t] = "first_send"
  <2>1. Goto(t, "poll") /\ SetList(t, d)  BY <1>6 DEF PipeSent
  <2>2. d = SortPool(c)  OBVIOUS
  <2> HIDE DEF c, d, fly, p
  <2>3. list' = [list EXCEPT ![t] = <<d>>]  BY <2>1 DEF SetList
  <2>4. Aside(c, d)  BY <1>2, <2>2, SortAside
  <2>5. OwnFull(d)  BY <1>2, <2>4, OwnSame DEF Aside
  <2>6. DOMAIN p.slotOf = {}  BY <1>2, <1>6 DEF RingAt
  <2>7. Landed(d, Len(fly), p, Slack("poll", p))  BY <2>6 DEF Landed, Ready
  <2>8. RingAt(d, fly, p, "poll")  BY <1>4, <2>7 DEF RingAt
  <2> QED BY <1>1, <1>3, <2>1, <2>3, <2>5, <2>8, PipeOwn
<1> QED BY <1>1, <1>5, <1>6

LEMMA PipePollOwn ==
    ASSUME RingSuffices, SearchIInv, OwnInv, NEW t \in Threads, PipePoll(t)
    PROVE  OwnInv'
<1> DEFINE c == list[t][1]
           fly == flying[t]
           p == pipe[t]
           in == Harvest(t)
           rest == SubSeq(fly, Len(in) + 1, Len(fly))
           slots == SlotsWith(p, in)
<1>1. pc[t] = "poll" /\ pc[t] \in PipeLabels /\ "send" \in PipeLabels
  BY DEF PipePoll, PipeLabels
<1>2. flying' = [flying EXCEPT ![t] = rest] /\ Goto(t, "send") /\ UNCHANGED list
  BY Zenon DEF PipePoll
<1>3. PICK width \in IF in = << >> \/ pipe[t].width >= Beam THEN {pipe[t].width}
                     ELSE {pipe[t].width, pipe[t].width + 1} :
         pipe' = [pipe EXCEPT
                    ![t].slotOf = [id \in DOMAIN @ \union {in[i].id : i \in DOMAIN in} |->
                        IF id \in DOMAIN @ THEN @[id]
                        ELSE in[CHOOSE i \in DOMAIN in : in[i].id = id].slot],
                    ![t].width = width,
                    ![t].quota = IF Len(rest) < width THEN 1 ELSE 0]
  BY DEF PipePoll
<1> DEFINE quota == IF Len(rest) < width THEN 1 ELSE 0
           q == [p EXCEPT !.slotOf = slots, !.width = width, !.quota = quota]
<1>4. /\ OwnFull(c) /\ c \in ListSet /\ ListOK(c) /\ ~c.dyn /\ RingAt(c, fly, p, "poll")
      /\ p \in RingSet(DOMAIN p.slotOf) /\ fly \in Seq(Reads) /\ list[t] = <<c>>
      /\ Same(list, t) /\ Same(pipe, t)
  BY <1>1, InPipe, InPipeOwn, HereOK
<1>5. pipe' = [pipe EXCEPT ![t] = q]
  <2>1. pipe = [pipe EXCEPT ![t] = pipe[t]]  BY <1>4 DEF Same
  <2> HIDE DEF in, rest
  <2> QED BY <1>3, <2>1 DEF SlotsWith
<1>6. list' = [list EXCEPT ![t] = <<c>>]  BY <1>2, <1>4 DEF Same
<1>7. width = p.width \/ (p.width < Beam /\ width = p.width + 1)
  <2> DEFINE w == p.width
  <2>1. w \in Nat /\ Beam \in Nat  BY <1>4, RingFields, ListAssumption
  <2>2. width = w \/ (~(w >= Beam) /\ width = w + 1)
    <3> HIDE DEF in
    <3> QED BY <1>3
  <2> HIDE DEF w
  <2>3. width = w \/ (w < Beam /\ width = w + 1)  BY <2>1, <2>2
  <2> QED BY <2>3 DEF w
<1>8. PICK m \in 0 .. Len(fly) : in = SubSeq(fly, 1, m) /\ \A i \in 1 .. m : fly[i].fin
  BY <1>4, HarvestFirst
<1>9. /\ slots = SlotsWith(p, in) /\ quota = IF Len(rest) < width THEN 1 ELSE 0
      /\ q = [p EXCEPT !.slotOf = slots, !.width = width, !.quota = quota]
      /\ rest = SubSeq(fly, Len(in) + 1, Len(fly))
  OBVIOUS
<1> HIDE DEF c, fly, p, in, rest, slots, quota, q
<1>10. Len(in) = m /\ DOMAIN in = 1 .. m /\ \A i \in 1 .. m : in[i] = fly[i]
  BY <1>4, <1>8, FirstOnes
<1>11. /\ Len(rest) = Len(fly) - m /\ DOMAIN rest = 1 .. Len(fly) - m
       /\ \A i \in 1 .. Len(fly) - m : rest[i] = fly[m + i]
  <2>1. rest = SubSeq(fly, m + 1, Len(fly))  BY <1>9, <1>10
  <2> QED BY <1>4, <2>1, RestOnes
<1>12. LSearch + Beam <= MaxReads  BY DEF RingSuffices
<1>13. RingAt(c, rest, q, "send")
  <2>1. ListOK(c) /\ ~c.dyn /\ fly \in Seq(Reads) /\ p \in RingSet(DOMAIN p.slotOf)
        /\ RingAt(c, fly, p, "poll")
    BY <1>4
  <2>2. m \in 0 .. Len(fly) /\ Cut(fly, m, in, rest)  BY <1>8, <1>10, <1>11 DEF Cut
  <2>3. /\ slots = SlotsWith(p, in) /\ quota = IF Len(rest) < width THEN 1 ELSE 0
        /\ q = [p EXCEPT !.slotOf = slots, !.width = width, !.quota = quota]
    BY <1>9
  <2> QED BY <1>7, <1>12, <2>1, <2>2, <2>3, PollRing
<1>14. Others(t) /\ flying'[t] = rest /\ pipe'[t] = q  BY <1>2, <1>5, OthersStay
<1> QED BY <1>1, <1>2, <1>4, <1>6, <1>13, <1>14, PipeOwn

LEMMA PipeCalcOwn ==
    ASSUME SearchIInv, OwnInv, NEW t \in Threads, PipeCalc(t)
    PROVE  OwnInv'
<1> DEFINE c == list[t][1]
           fly == flying[t]
           p == pipe[t]
           got == DOMAIN p.slotOf
           ready == {i \in DOMAIN c.pool : ~c.pool[i].done /\ c.pool[i].id \in got}
           i == First(ready)
           id == c.pool[i].id
           page == p.onPage[p.slotOf[id]]
           b == [c EXCEPT !.pool[i] = [@ EXCEPT !.flag = FALSE, !.done = TRUE]]
           d == Expand(b, id, page)
<1>1. pc[t] = "calc" /\ pc[t] \in PipeLabels /\ "poll" \in PipeLabels /\ "poll" \notin Submitting
  BY DEF PipeCalc, PipeLabels, Submitting
<1>2. (IF ready = {} THEN UNCHANGED list ELSE SetList(t, d)) /\ Goto(t, "poll")
  BY Zenon DEF PipeCalc
<1>3. UNCHANGED <<flying, pipe>>  BY Zenon DEF PipeCalc
<1>4. Others(t) /\ flying'[t] = fly /\ pipe'[t] = p  BY <1>3 DEF Others
<1>5. /\ OwnFull(c) /\ c \in ListSet /\ Good(c) /\ ListOK(c) /\ Nearest(c) /\ ~c.dyn
      /\ RingAt(c, fly, p, "calc")
      /\ p \in RingSet(DOMAIN p.slotOf) /\ list[t] = <<c>> /\ Same(list, t)
      /\ PipeAt(c, fly, p, pc[t], want[t], held[t])
  BY <1>1, InPipe, InPipeOwn, HereOK DEF Good
<1>6. CASE ready = {}
  <2>1. list' = [list EXCEPT ![t] = <<c>>]  BY <1>2, <1>5, <1>6 DEF Same
  <2>2. \A j \in DOMAIN c.pool : ~Ready(c, p, j)  BY <1>6 DEF Ready
  <2> HIDE DEF c, fly, p
  <2>3. Landed(c, Len(fly), p, Slack("poll", p))  BY <2>2 DEF Landed
  <2>4. Room("poll", Len(fly), p) /\ Aged(fly, p)  BY <1>1, <1>5 DEF RingAt, Room
  <2>5. RingAt(c, fly, p, "poll")  BY <2>3, <2>4 DEF RingAt
  <2> QED BY <1>1, <1>2, <1>4, <1>5, <2>1, <2>5, PipeOwn
<1>7. CASE ready # {}
  <2>1. list' = [list EXCEPT ![t] = <<d>>]
    <3>1. SetList(t, d)  BY <1>2, <1>7
    <3> HIDE DEF d
    <3> QED BY <3>1 DEF SetList
  <2>2. /\ c.pool \in Seq(EntrySet) /\ DOMAIN c.pool = 1 .. Len(c.pool) /\ Len(c.pool) \in Nat
        /\ \A j \in DOMAIN c.pool : c.pool[j] \in EntrySet /\ c.pool[j].id \in Nodes
    BY <1>5, Fields
  <2>3. i \in ready /\ \A j \in ready : i <= j
    <3> DEFINE U == ready
    <3>1. U \in SUBSET Nat /\ U # {} /\ i = First(U)  BY <1>7, <2>2
    <3> HIDE DEF U, i, c, got
    <3>2. \E j \in U : \A k \in U : j <= k  BY <3>1, LeastNatural
    <3>3. i \in U /\ \A j \in U : i <= j  BY <3>1, <3>2 DEF First
    <3> QED BY <3>3 DEF U
  <2>4. i \in DOMAIN c.pool /\ id \in got /\ Ready(c, p, i)  BY <2>3 DEF Ready
  <2>5. \A j \in DOMAIN c.pool : Ready(c, p, j) => i <= j
    <3>1. \A j \in DOMAIN c.pool : Ready(c, p, j) => j \in ready  BY DEF Ready
    <3> QED BY <2>3, <3>1
  <2> HIDE DEF i, ready
  <2>6. page = Page[id] /\ page \in Nat
    <3>1. LandedAt(c.pool, id, i, Len(fly), p, Slack("calc", p))
      <4>1. Landed(c, Len(fly), p, Slack("calc", p))  BY <1>5 DEF RingAt
      <4> QED BY <2>4, <4>1 DEF Landed
    <3>2. page = Page[id]  BY <3>1 DEF LandedAt
    <3>3. id \in Nodes  BY <2>2, <2>4
    <3> HIDE DEF page, id
    <3> QED BY <3>2, <3>3, SearchAssumption
  <2> DEFINE e == [c.pool[i] EXCEPT !.flag = FALSE, !.done = TRUE]
             pool == [c.pool EXCEPT ![i] = e]
  <2>7. e \in EntrySet /\ e.id = id /\ e.done
    <3> DEFINE o == c.pool[i]
    <3>1. e = [o EXCEPT !.flag = FALSE, !.done = TRUE] /\ id = o.id /\ o \in EntrySet  BY <2>2, <2>4
    <3> HIDE DEF o, e, id
    <3> QED BY <3>1 DEF EntrySet
  <2>8. b = [c EXCEPT !.pool = pool]  OBVIOUS
  <2>9. d = Expand(b, id, page) /\ id \in Nodes  BY <2>2, <2>4
  <2>10. got \subseteq c.seen
    <3> HIDE DEF c, fly, p
    <3> QED BY <1>5 DEF PipeAt, got
  <2>11. id = c.pool[i].id /\ got = DOMAIN p.slotOf  OBVIOUS
  <2> HIDE DEF c, e, b, d, page, p, fly, got, id
  <2>12. /\ pool \in Seq(EntrySet) /\ Len(pool) = Len(c.pool) /\ DOMAIN pool = DOMAIN c.pool
         /\ \A j \in DOMAIN c.pool : pool[j] = IF j = i THEN e ELSE c.pool[j]
    BY <2>2, <2>4, <2>7, ExceptSeq
  <2>13. \A j \in DOMAIN c.pool : pool[j].id = c.pool[j].id  BY <2>7, <2>11, <2>12
  <2> HIDE DEF pool
  <2>14. [c EXCEPT !.pool = pool] \in ListSet  BY <1>5, <2>12 DEF ListSet
  <2>15. b \in ListSet  BY <2>8, <2>14
  <2>16. /\ b.kind = c.kind /\ b.dyn = c.dyn /\ b.query = c.query /\ b.L = c.L /\ b.seen = c.seen
         /\ b.pool = pool /\ b.heap = c.heap /\ b.k = c.k /\ b.nk = c.nk /\ b.full = c.full
    BY <1>5, <2>8 DEF ListSet
  <2>17. Repicked(c, b)  BY <1>5, <2>12, <2>13, <2>15, <2>16 DEF Repicked, ListOK
  <2>18. Good(b)  BY <1>5, <2>17, RepickedGood DEF Good
  <2>19. OwnFull(b)  BY <1>5, <2>16, OwnSame
  <2>20. d \in From(b) /\ Behind(b, d)  BY <2>6, <2>9, <2>18, ExpandLater
  <2>21. OwnFull(b) /\ page = Page[id] => OwnFull(d)  BY <2>6, <2>9, <2>18, ExpandLater
  <2>22. OwnFull(d)  BY <2>6, <2>19, <2>21
  <2>23. Good(d) /\ Grown(b, d)  BY <2>20, FromGood
  <2>24. ListOK(d) /\ ~d.dyn  BY <1>5, <2>16, <2>23 DEF Grown, Good
  <2>25. /\ DOMAIN b.pool = DOMAIN c.pool /\ DOMAIN p.slotOf \subseteq b.seen
         /\ b.pool[i].id = c.pool[i].id /\ b.pool[i].done
         /\ \A j \in DOMAIN c.pool : j # i => b.pool[j] = c.pool[j]
    BY <2>4, <2>7, <2>10, <2>11, <2>12, <2>13, <2>16
  <2>26. RingAt(d, fly, p, "poll")
    BY <1>5, <2>4, <2>5, <2>20, <2>24, <2>25, CalcRing
  <2> QED BY <1>1, <1>2, <1>4, <2>1, <2>22, <2>26, PipeOwn
<1> QED BY <1>6, <1>7

LEMMA EndPipeOwn ==
    ASSUME SearchIInv, OwnInv, NEW t \in Threads, EndPipe(t) \/ EndCoro(t)
    PROVE  OwnInv'
<1> DEFINE none == << >>
<1>1. /\ Goto(t, "idle") /\ list' = [list EXCEPT ![t] = << >>]
      /\ flying' = [flying EXCEPT ![t] = none]
      /\ UNCHANGED pipe \/ pipe' = [pipe EXCEPT ![t] = NoPipe]
  BY Zenon DEF EndPipe, EndCoro
<1> HIDE DEF none
<1>2. Others(t)  BY <1>1, OthersStay
<1> QED BY <1>1, <1>2, OwnIdle

(* No call, no record. *)
LEMMA OwnInit == Init => OwnInv
<1> SUFFICES ASSUME Init PROVE OwnInv
  OBVIOUS
<1> DEFINE none == << >>
<1>1. \A i \in DOMAIN none : FALSE  OBVIOUS
<1>2. \A t \in Threads : list[t] = none /\ pc[t] = "idle"  BY DEF Init
<1>3. "idle" \notin PipeLabels  BY DEF PipeLabels
<1> HIDE DEF none
<1> QED BY <1>1, <1>2, <1>3 DEF OwnInv, OwnAt

LEMMA OwnNext == RingSuffices /\ SearchIInv /\ OwnInv /\ [Next]_vars => OwnInv'
<1> SUFFICES ASSUME RingSuffices, SearchIInv, OwnInv, [Next]_vars PROVE OwnInv'
  OBVIOUS
<1>1. CASE BgReturn  BY <1>1, OwnStays DEF BgReturn
<1>2. CASE UNCHANGED vars \/ Quiet  BY <1>2, OwnStays DEF Quiet, vars
<1>3. ASSUME NEW t \in Threads, Step(t) PROVE OwnInv'
  <2>1. CASE Acquire(t)  BY <2>1, OwnStays DEF Acquire
  <2>2. CASE Rounds(t)
    <3>1. CASE BeginRounds(t)  BY <3>1, BeginRoundsOwn
    <3>2. CASE Select(t)  BY <3>2, SelectOwn
    <3>3. CASE ReadAndExplore(t)  BY <3>3, ReadAndExploreOwn
    <3>4. CASE NextBatch(t) \/ ReadBatch(t) \/ Refine(t)  BY <3>4, BatchOwn
    <3>5. CASE PopAgain(t) \/ Prefilled(t) \/ EndRounds(t) \/ Publish(t)  BY <3>5, EndRoundsOwn
    <3> QED BY <2>2, <3>1, <3>2, <3>3, <3>4, <3>5 DEF Rounds
  <2>3. CASE Pipe(t)
    <3>1. CASE BeginPipe(t)  BY <3>1, BeginPipeOwn
    <3>2. CASE PipeSelect(t)  BY <3>2, PipeSelectOwn
    <3>3. CASE PipeSubmit(t)  BY <3>3, PipeSubmitOwn
    <3>4. CASE PipeSent(t)  BY <3>4, PipeSentOwn
    <3>5. CASE PipePoll(t)  BY <3>5, PipePollOwn
    <3>6. CASE PipeCalc(t)  BY <3>6, PipeCalcOwn
    <3>7. CASE EndPipe(t)  BY <3>7, EndPipeOwn
    <3> QED BY <2>3, <3>1, <3>2, <3>3, <3>4, <3>5, <3>6, <3>7 DEF Pipe
  <2>4. CASE Coro(t)
    <3>1. CASE BeginCoro(t)  BY <3>1, BeginCoroOwn
    <3>2. CASE StepCoro(t)  BY <3>2, StepCoroOwn
    <3>3. CASE EndCoro(t)  BY <3>3, EndPipeOwn
    <3> QED BY <2>4, <3>1, <3>2, <3>3 DEF Coro
  <2> QED BY <1>3, <2>1, <2>2, <2>3, <2>4 DEF Step
<1>4. ASSUME NEW t \in Threads, Complete(t) PROVE OwnInv'  BY <1>4, CompleteOwn
<1> QED BY <1>1, <1>2, <1>3, <1>4 DEF Next

LEMMA OwnSafe == ASSUME OwnInv PROVE OwnPage
  BY DEF OwnInv, OwnAt, OwnFull, OwnPage

-----------------------------------------------------------------------------
(* The invariant of searches, whatever calls run together.                  *)
THEOREM SearchInvariant == SearchSpec => []SearchIInv
<1>1. Init => SearchIInv  BY InitKeeps
<1>2. SearchIInv /\ [Next]_vars => SearchIInv'  BY NextKeeps
<1> QED BY <1>1, <1>2, PTL DEF SearchSpec

(* The sparse lock tables hold an entry exactly for the keys that a search  *)
(* or an insert holds, counted once per holder and with one holder when     *)
(* written (lock_table.h:75); a pipe search gives its buffer back with no   *)
(* read in flight and no lock left (pipe_search.cpp:225); and every query   *)
(* buffer is in the pool, in a call or with the background thread           *)
(* (ssd_index.h:166).                                                       *)
THEOREM ResourcesAccounted == SearchSpec => []ResourcesExact
<1>1. SearchIInv => ResourcesExact  BY ResourcesSafe
<1> QED BY <1>1, SearchInvariant, PTL

(* Every candidate list has its type, stays sorted and without repetition,  *)
(* and - unless deletions moved l_search - is the best of all ids it met:   *)
(* InsertIntoPool's bisection and the drop of the last entry lose nothing   *)
(* nearer (neighbor.h:126, pipe_search.cpp:121).                            *)
THEOREM ListsStayBest == SearchSpec => []ListsInv
<1>1. SearchIInv => ListsInv  BY ListsSafe
<1> QED BY <1>1, SearchInvariant, PTL

(* "iterate to fixed point": when a search ends, every entry of its list    *)
(* has been read and its neighbours met, whatever way it reads - in rounds  *)
(* of a beam, through a pipe, or interleaved with other queries - and for   *)
(* page_search with the entries it passed over because their page had been  *)
(* read for another one (page_search.cpp:286).                              *)
THEOREM SearchesReachFixedPoint == SearchSpec => []SearchesComplete
<1>1. SearchIInv /\ FixInv => SearchesComplete  BY FixComplete
<1> QED BY <1>1, SearchInvariant, FixInit, FixNext, PTL DEF SearchSpec

(* A filtered search returns candidates only, and no candidate it met is    *)
(* nearer than the farthest it returns, unless refine_capacity of them were *)
(* nearer by PQ distance (beam_search.cpp:680) - when each id of the filter *)
(* index is a candidate under its tag too, which is what the prefill takes  *)
(* for granted (beam_search.cpp:408).                                       *)
THEOREM FilterReturnsBest == CandidateTags => (SearchSpec => []FilterBest)
<1> SUFFICES ASSUME CandidateTags PROVE SearchSpec => []FilterBest
  OBVIOUS
<1>1. SearchIInv /\ FilterInv /\ [Next]_vars => FilterInv'  BY FilterNext
<1>2. SearchIInv /\ FilterInv => FilterBest  BY FilterSafe
<1> QED BY <1>1, <1>2, SearchInvariant, FilterInit, PTL DEF SearchSpec

(* Every record is computed from its own page: the ring of                  *)
(* MAX_N_SECTOR_READS buffers does not come round while a page in it is     *)
(* still needed (pipe_search.cpp:207) - when it has a buffer for each entry *)
(* of the list and for each read of the widest beam (query_buf.h:6).        *)
THEOREM PagesStayOwn == RingSuffices => (SearchSpec => []OwnPage)
<1> SUFFICES ASSUME RingSuffices PROVE SearchSpec => []OwnPage
  OBVIOUS
<1>1. SearchIInv /\ OwnInv /\ [Next]_vars => OwnInv'  BY OwnNext
<1>2. OwnInv => OwnPage  BY OwnSafe
<1> QED BY <1>1, <1>2, SearchInvariant, OwnInit, PTL DEF SearchSpec
=============================================================================
