----------------------------- MODULE ListProofs -----------------------------
(***************************************************************************)
(* Lemmas about recursive functions, the operators of RankedLists and the  *)
(* division of locations into sectors, which the other proofs share.       *)
(* What a recursive function computes is proved by least counterexample.   *)
(***************************************************************************)
EXTENDS RankedLists, FiniteSetTheorems, SequenceTheorems, WellFoundedInduction, TLAPS

(* Every non-empty set of naturals has a least element: with it, a property *)
(* of all naturals is proved from its least counterexample.                 *)
LEMMA LeastNatural ==
    ASSUME NEW T \in SUBSET Nat, T # {}
    PROVE  \E n \in T : \A m \in T : n <= m
<1> DEFINE X == { 0 .. k : k \in T }
<1>1. X \subseteq FiniteSubsetsOf(Nat)
  <2>1. \A k \in T : IsFiniteSet(0 .. k)  BY FS_Interval
  <2> QED BY <2>1 DEF FiniteSubsetsOf
<1>2. X # {}  OBVIOUS
<1>3. IsWellFoundedOn(StrictSubsetOrdering(Nat), FiniteSubsetsOf(Nat))
  BY FS_StrictSubsetOrderingWellFounded
<1>4. PICK x \in X : \A y \in X : ~(<<y, x>> \in StrictSubsetOrdering(Nat))
  <2> HIDE DEF X
  <2> QED BY <1>1, <1>2, <1>3, WFMin
<1>5. PICK n \in T : x = 0 .. n  OBVIOUS
<1>6. ASSUME NEW m \in T, m < n PROVE FALSE
  <2>1. 0 .. m \in X  OBVIOUS
  <2>2. 0 .. m \subseteq 0 .. n /\ 0 .. m # 0 .. n
    <3>1. n \in 0 .. n /\ n \notin 0 .. m  BY <1>6
    <3> QED BY <3>1, <1>6
  <2>3. <<0 .. m, x>> \in StrictSubsetOrdering(Nat)
    BY <1>5, <2>2 DEF StrictSubsetOrdering
  <2> QED BY <1>4, <2>1, <2>3
<1> QED BY <1>6

(* f is what a recursion over 0 .. n computes. *)
Recursion(f, n, base, step) == f[0] = base /\ \A t \in 1 .. n : f[t] = step[<<t, f[t - 1]>>]

(* The function that a recursion over 0 .. n defines exists, and keeps the  *)
(* type of its step.                                                        *)
LEMMA RecursionExists ==
    ASSUME NEW n \in Nat, NEW S, NEW base \in S, NEW step \in [(1 .. n) \X S -> S]
    PROVE  \E f \in [0 .. n -> S] : Recursion(f, n, base, step)
<1> DEFINE Good(k, f) == f \in [0 .. k -> S] /\ f[0] = base
                           /\ \A t \in 1 .. k : f[t] = step[<<t, f[t - 1]>>]
           T == { k \in 0 .. n : ~ \E f : Good(k, f) }
<1>1. Good(0, [ i \in 0 .. 0 |-> base ])  OBVIOUS
<1>2. ASSUME NEW k \in 1 .. n, NEW f, Good(k - 1, f)
      PROVE  Good(k, [ i \in 0 .. k |-> IF i = k THEN step[<<k, f[k - 1]>>] ELSE f[i] ])
  <2> DEFINE g == [ i \in 0 .. k |-> IF i = k THEN step[<<k, f[k - 1]>>] ELSE f[i] ]
  <2>1. step[<<k, f[k - 1]>>] \in S  BY <1>2
  <2>2. g \in [0 .. k -> S]
    <3>1. \A i \in 0 .. k : i # k => i \in 0 .. k - 1  OBVIOUS
    <3>2. \A i \in 0 .. k - 1 : f[i] \in S  BY <1>2
    <3> QED BY <2>1, <3>1, <3>2
  <2>3. g[0] = base  BY <1>2
  <2>4. ASSUME NEW t \in 1 .. k PROVE g[t] = step[<<t, g[t - 1]>>]
    <3>1. g[t - 1] = f[t - 1]  OBVIOUS
    <3>2. CASE t = k
      <4>1. k \in 0 .. k  OBVIOUS
      <4>2. g[k] = step[<<k, f[k - 1]>>]  BY <4>1
      <4> QED BY <3>1, <3>2, <4>2
    <3>3. CASE t # k
      <4>1. t \in 1 .. k - 1 /\ t \in 0 .. k  BY <3>3
      <4>2. f[t] = step[<<t, f[t - 1]>>]  BY <1>2, <4>1
      <4> QED BY <3>1, <3>3, <4>1, <4>2
    <3> QED BY <3>2, <3>3
  <2> QED BY <2>2, <2>3, <2>4
<1> HIDE DEF Good
<1>3. ASSUME T # {} PROVE FALSE
  <2>1. T \in SUBSET Nat  OBVIOUS
  <2>2. PICK k \in T : \A j \in T : k <= j
    <3> HIDE DEF T
    <3> QED BY <1>3, <2>1, LeastNatural
  <2>3. k # 0  BY <1>1
  <2>4. k - 1 \in 0 .. n /\ k - 1 \notin T /\ k \in 1 .. n  BY <2>2, <2>3
  <2>5. PICK f : Good(k - 1, f)  BY <2>4
  <2> QED BY <1>2, <2>4, <2>5
<1>4. \E f : Good(n, f)  BY <1>3
<1> QED BY <1>4 DEF Good, Recursion

(* A strict order on S, as a set of pairs; what comes before a in it; a list *)
(* that names, at each position, the member of that rank.                    *)
StrictOrder(S, Before) ==
    /\ \A a \in S : <<a, a>> \notin Before
    /\ \A a, b \in S : a # b => <<a, b>> \in Before \/ <<b, a>> \in Before
    /\ \A a, b, c \in S : <<a, b>> \in Before /\ <<b, c>> \in Before => <<a, c>> \in Before

(* What comes before a in the order, its rank, and a list in the order.     *)
Preceding(S, Before, a) == { m \in S : <<m, a>> \in Before }

RankIn(S, Before) == [ a \in S |-> Cardinality(Preceding(S, Before, a)) ]

Lists(list, S, Before) ==
    /\ list = [ i \in 1 .. Cardinality(S) |-> list[i] ]
    /\ \A i \in 1 .. Cardinality(S), a \in S : RankIn(S, Before)[a] = i - 1 =>
           list[i] \in S /\ RankIn(S, Before)[list[i]] = i - 1

(* The members of a finite set, ranked by a strict order on it, have the    *)
(* ranks 0, 1, 2, ...                                                       *)
LEMMA Ranked ==
    ASSUME NEW S, IsFiniteSet(S), NEW Before,
           StrictOrder(S, Before),
           NEW rank, rank = RankIn(S, Before)
    PROVE  /\ Cardinality(S) \in Nat
           /\ \A a \in S : rank[a] \in 0 .. Cardinality(S) - 1
           /\ \A a, b \in S : <<a, b>> \in Before => rank[a] < rank[b]
           /\ \A i \in 0 .. Cardinality(S) - 1 : \E a \in S : rank[a] = i
<1> DEFINE Below(a) == Preceding(S, Before, a)
           n    == Cardinality(S)
<1> USE DEF Preceding, StrictOrder
<1>0. rank = [ a \in S |-> Cardinality(Below(a)) ]  BY DEF RankIn
<1>1. n \in Nat  BY FS_CardinalityType
<1>2. ASSUME NEW a \in S PROVE IsFiniteSet(Below(a)) /\ Cardinality(Below(a)) \in Nat
  <2>1. IsFiniteSet(Below(a))  BY FS_Subset
  <2> QED BY <2>1, FS_CardinalityType
<1>3. ASSUME NEW a \in S PROVE Cardinality(Below(a)) \in 0 .. n - 1
  <2>1. IsFiniteSet(S \ {a}) /\ Cardinality(S \ {a}) = n - 1  BY FS_RemoveElement
  <2>2. Below(a) \subseteq S \ {a}  OBVIOUS
  <2> HIDE DEF Below
  <2>3. Cardinality(Below(a)) <= n - 1  BY <2>1, <2>2, FS_Subset
  <2> QED BY <1>1, <1>2, <2>3
<1>4. ASSUME NEW a \in S, NEW b \in S, <<a, b>> \in Before
      PROVE  Cardinality(Below(a)) < Cardinality(Below(b))
  <2>1. IsFiniteSet(Below(b) \ {a}) /\ Cardinality(Below(b) \ {a}) = Cardinality(Below(b)) - 1
    <3>1. a \in Below(b)  BY <1>4
    <3> HIDE DEF Below
    <3> QED BY <3>1, <1>2, FS_RemoveElement
  <2>2. Below(a) \subseteq Below(b) \ {a}  BY <1>4
  <2>3. Cardinality(Below(a)) <= Cardinality(Below(b)) - 1
    <3> HIDE DEF Below
    <3> QED BY <2>1, <2>2, FS_Subset
  <2> HIDE DEF Below
  <2> QED BY <2>3, <1>2
<1> HIDE DEF Below, Preceding
<1>5. \A i \in 0 .. n - 1 : \E a \in S : rank[a] = i
  <2>1. rank \in Injection(S, 0 .. n - 1)
    <3>1. rank \in [S -> 0 .. n - 1]  BY <1>0, <1>3
    <3>2. ASSUME NEW a \in S, NEW b \in S, rank[a] = rank[b] PROVE a = b
      <4>1. Cardinality(Below(a)) = Cardinality(Below(b))  BY <1>0, <3>2
      <4>2. Cardinality(Below(a)) \in Nat /\ Cardinality(Below(b)) \in Nat  BY <1>2
      <4>3. <<a, b>> \notin Before /\ <<b, a>> \notin Before  BY <1>4, <4>1, <4>2
      <4> QED BY <4>3
    <3> QED BY <3>1, <3>2 DEF Injection, IsInjective
  <2>2. IsFiniteSet(0 .. n - 1) /\ Cardinality(0 .. n - 1) = n
    <3>1. IsFiniteSet(0 .. n - 1) /\ Cardinality(0 .. n - 1) = IF 0 > n - 1 THEN 0 ELSE n - 1 - 0 + 1
      BY <1>1, FS_Interval
    <3> QED BY <3>1, <1>1
  <2>3. rank \in Surjection(S, 0 .. n - 1)  BY <2>1, <2>2, FS_Injection
  <2> QED BY <2>3 DEF Surjection
<1>6. \A a \in S : rank[a] \in 0 .. n - 1  BY <1>0, <1>3
<1>7. \A a, b \in S : <<a, b>> \in Before => rank[a] < rank[b]  BY <1>0, <1>4
<1> QED BY <1>1, <1>5, <1>6, <1>7

(* To name the member of each rank lists the set in its order, each member  *)
(* once.                                                                    *)
LEMMA Listed ==
    ASSUME NEW S, IsFiniteSet(S), NEW Before,
           StrictOrder(S, Before),
           NEW list, Lists(list, S, Before)
    PROVE  /\ Cardinality(S) \in Nat /\ list \in [1 .. Cardinality(S) -> S]
           /\ \A a \in S : \E i \in 1 .. Cardinality(S) : list[i] = a
           /\ \A i, j \in 1 .. Cardinality(S) : i < j => <<list[i], list[j]>> \in Before
           /\ \A i, j \in 1 .. Cardinality(S) : list[i] = list[j] => i = j
<1> DEFINE n == Cardinality(S)
           rank == RankIn(S, Before)
<1>1. /\ n \in Nat
      /\ \A a \in S : rank[a] \in 0 .. n - 1
      /\ \A a, b \in S : <<a, b>> \in Before => rank[a] < rank[b]
      /\ \A i \in 0 .. n - 1 : \E a \in S : rank[a] = i
  BY Ranked
<1>2. ASSUME NEW i \in 1 .. n
      PROVE  list[i] \in S /\ rank[list[i]] = i - 1
  <2>1. i - 1 \in 0 .. n - 1  BY <1>1
  <2>2. \E a \in S : rank[a] = i - 1  BY <1>1, <2>1
  <2> QED BY <2>2 DEF Lists
<1>3. list \in [1 .. n -> S]
  <2>1. list = [ i \in 1 .. n |-> list[i] ]  BY DEF Lists
  <2> HIDE DEF n
  <2> QED BY <1>2, <2>1
<1>4. \A a, b \in S : a # b => <<a, b>> \in Before \/ <<b, a>> \in Before  BY DEF StrictOrder
<1> HIDE DEF n, rank
<1>5. ASSUME NEW i \in 1 .. n, NEW j \in 1 .. n, i < j PROVE <<list[i], list[j]>> \in Before
  <2>1. list[i] \in S /\ list[j] \in S /\ rank[list[i]] = i - 1 /\ rank[list[j]] = j - 1  BY <1>2
  <2>2. ~(rank[list[j]] < rank[list[i]]) /\ list[i] # list[j]  BY <2>1, <1>1, <1>5
  <2> QED BY <2>1, <2>2, <1>1, <1>4
<1>6. ASSUME NEW i \in 1 .. n, NEW j \in 1 .. n, list[i] = list[j] PROVE i = j
  <2>1. i - 1 = j - 1  BY <1>2, <1>6
  <2> QED BY <2>1, <1>1
<1>7. ASSUME NEW a \in S PROVE \E i \in 1 .. n : list[i] = a
  <2>1. rank[a] + 1 \in 1 .. n /\ rank[a] \in Int
    <3>1. rank[a] \in 0 .. n - 1  BY <1>1
    <3> QED BY <3>1, <1>1
  <2>2. list[rank[a] + 1] \in S /\ rank[list[rank[a] + 1]] = rank[a]
    <3>1. list[rank[a] + 1] \in S /\ rank[list[rank[a] + 1]] = (rank[a] + 1) - 1  BY <1>2, <2>1
    <3> QED BY <2>1, <3>1
  <2>3. list[rank[a] + 1] = a
    <3>1. ~(rank[list[rank[a] + 1]] < rank[a]) /\ ~(rank[a] < rank[list[rank[a] + 1]])  BY <2>1, <2>2
    <3> QED BY <3>1, <2>2, <1>1, <1>4
  <2> QED BY <2>1, <2>3
<1> QED BY <1>1, <1>3, <1>5, <1>6, <1>7 DEF n

-----------------------------------------------------------------------------
(* A list of members of S, by position. *)
LEMMA AsSequence ==
    ASSUME NEW n \in Nat, NEW S, NEW f \in [1 .. n -> S]
    PROVE  f \in Seq(S) /\ Len(f) = n /\ << >> \o f = f
<1>1. f \in Seq(S) /\ Len(f) = n  BY IsASeq
<1> QED BY <1>1, ConcatEmptySeq

(* The member of a singleton. *)
LEMMA OnlyOne == ASSUME NEW x PROVE Only({x}) = x
  BY DEF Only

(* What a list keeps, by the positions it keeps. *)
LEMMA KeptAt == ASSUME NEW list, NEW S PROVE Kept(list, S) = AtOf(list, Where(list, S))
<1> DEFINE T == { AtOf(given, Where(given, s)) : given \in {list}, s \in {S} }
<1>1. Kept(list, S) = Only(T)  BY DEF Kept
<1>2. \A x : x \in T <=> x = AtOf(list, Where(list, S))  OBVIOUS
<1> HIDE DEF T
<1>3. T = {AtOf(list, Where(list, S))}  BY <1>2
<1> QED BY <1>1, <1>3, OnlyOne

(* The entries of a list that are in S: nothing else, none missed, in their *)
(* order.                                                                   *)
LEMMA KeptLists ==
    ASSUME NEW X, NEW list \in Seq(X), NEW S, NEW kept, kept = Kept(list, S)
    PROVE  /\ kept \in Seq(X \cap S) /\ Len(kept) <= Len(list)
           /\ Range(kept) = Range(list) \cap S
           /\ \A i \in DOMAIN list : list[i] \in S => \E k \in DOMAIN kept : kept[k] = list[i]
           /\ \A k \in DOMAIN kept : \E i \in DOMAIN list : kept[k] = list[i] /\ list[i] \in S
           /\ IsInjective(list) => IsInjective(kept)
           /\ list # << >> /\ list[1] \in S => kept # << >> /\ kept[1] = list[1]
<1> DEFINE at == Where(list, S)
           B  == { ab \in at \X at : ab[1] < ab[2] }
           n  == Cardinality(at)
           elem(k) == CHOOSE i \in at : Cardinality({ j \in at : j < i }) = k - 1
           h  == [ k \in 1 .. n |-> elem(k) ]
           f  == [ k \in 1 .. n |-> list[h[k]] ]
<1>1. kept = << >> \o f
  <2>6. kept = AtOf(list, at)  BY KeptAt
  <2>3. AtOf(list, at) = << >> \o [ k \in 1 .. n |-> list[elem(k)] ]  BY DEF AtOf
  <2>4. f = [ k \in 1 .. n |-> list[elem(k)] ]
    <3> HIDE DEF elem
    <3> QED OBVIOUS
  <2> HIDE DEF f, elem
  <2> QED BY <2>6, <2>3, <2>4
<1>8. at = { i \in DOMAIN list : list[i] \in S }  BY DEF Where
<1> HIDE DEF at
<1>2. DOMAIN list = 1 .. Len(list) /\ Len(list) \in Nat /\ \A i \in DOMAIN list : list[i] \in X
  BY LenProperties, ElementOfSeq
<1>3. IsFiniteSet(at) /\ n <= Len(list)
  <2>1. IsFiniteSet(1 .. Len(list)) /\ Cardinality(1 .. Len(list)) = Len(list)
    <3>1. IsFiniteSet(1 .. Len(list))
          /\ Cardinality(1 .. Len(list)) = IF 1 > Len(list) THEN 0 ELSE Len(list) - 1 + 1
      BY <1>2, FS_Interval
    <3> QED BY <3>1, <1>2
  <2>2. at \subseteq 1 .. Len(list)  BY <1>2, <1>8
  <2> QED BY <2>1, <2>2, FS_Subset
<1>4. at \subseteq Int  BY <1>2, <1>8
<1> DEFINE rank == RankIn(at, B)
<1>5. \A i \in at : rank[i] = Cardinality({ j \in at : j < i })
  <2>1. \A i \in at : { j \in at : j < i } = Preceding(at, B, i)  BY DEF Preceding
  <2> QED BY <2>1 DEF RankIn
<1>6. Lists(h, at, B)
  <2>1. h = [ k \in 1 .. n |-> h[k] ]
    <3> HIDE DEF elem
    <3> QED OBVIOUS
  <2>2. ASSUME NEW k \in 1 .. n, NEW i \in at, rank[i] = k - 1
        PROVE  h[k] \in at /\ rank[h[k]] = k - 1
    <3>1. h[k] = CHOOSE l \in at : Cardinality({ j \in at : j < l }) = k - 1  OBVIOUS
    <3> HIDE DEF rank, h, at
    <3>2. Cardinality({ j \in at : j < i }) = k - 1  BY <1>5, <2>2
    <3>3. h[k] \in at /\ Cardinality({ j \in at : j < h[k] }) = k - 1  BY <3>1, <3>2
    <3> QED BY <1>5, <3>3
  <2> HIDE DEF h, at
  <2> QED BY <2>1, <2>2 DEF Lists
<1>7. \A i, j \in at : <<i, j>> \in B <=> i < j  OBVIOUS
<1>9. DOMAIN f = 1 .. n /\ \A k \in 1 .. n : f[k] = list[h[k]]  OBVIOUS
<1> HIDE DEF B, h, rank
<1>10. StrictOrder(at, B)
  BY <1>4, <1>7 DEF StrictOrder
<1>11. /\ n \in Nat /\ h \in [1 .. n -> at]
       /\ \A i \in at : \E k \in 1 .. n : h[k] = i
       /\ \A k, l \in 1 .. n : k < l => <<h[k], h[l]>> \in B
       /\ \A k, l \in 1 .. n : h[k] = h[l] => k = l
  BY <1>3, <1>6, <1>10, Listed
<1> HIDE DEF n, f
<1>12. f \in [1 .. n -> X \cap S]
  <2>1. \A k \in 1 .. n : f[k] \in X \cap S  BY <1>2, <1>8, <1>9, <1>11
  <2>2. f = [ k \in 1 .. n |-> f[k] ]  BY DEF f
  <2> QED BY <2>1, <2>2
<1>13. kept = f /\ kept \in Seq(X \cap S) /\ Len(kept) = n /\ DOMAIN kept = 1 .. n
  BY <1>1, <1>9, <1>11, <1>12, AsSequence
<1>14. ASSUME NEW i \in DOMAIN list, list[i] \in S PROVE \E k \in DOMAIN kept : kept[k] = list[i]
  <2>1. PICK k \in 1 .. n : h[k] = i  BY <1>8, <1>11, <1>14
  <2> QED BY <2>1, <1>9, <1>13
<1>15. \A k \in DOMAIN kept : \E i \in DOMAIN list : kept[k] = list[i] /\ list[i] \in S
  BY <1>8, <1>9, <1>11, <1>13
<1>16. Range(kept) = Range(list) \cap S
  BY <1>14, <1>15 DEF Range
<1>17. IsInjective(list) => IsInjective(kept)
  BY <1>8, <1>9, <1>11, <1>13 DEF IsInjective
<1>18. ASSUME list # << >>, list[1] \in S PROVE kept # << >> /\ kept[1] = list[1]
  <2>1. 1 \in at  
    <3>1. Len(list) # 0  BY <1>18, EmptySeq
    <3> QED BY <3>1, <1>2, <1>8, <1>18
  <2>2. PICK k \in 1 .. n : h[k] = 1  BY <2>1, <1>11
  <2>3. k = 1
    <3>1. ASSUME k # 1 PROVE FALSE
      <4>1. 1 \in 1 .. n /\ 1 < k  BY <3>1, <1>11
      <4>2. h[1] \in at /\ <<h[1], 1>> \in B  BY <4>1, <2>2, <1>11
      <4>3. h[1] < 1  BY <4>2, <2>1, <1>7
      <4> QED BY <4>2, <4>3, <1>2, <1>8
    <3> QED BY <3>1
  <2>4. 1 \in DOMAIN kept  BY <2>3, <1>13
  <2>5. kept # << >>  BY <2>4
  <2> QED BY <2>2, <2>3, <2>5, <1>9, <1>13
<1> QED BY <1>3, <1>13, <1>14, <1>15, <1>16, <1>17, <1>18

(* The parts of it that proofs cite: which entries, their order, the first. *)
LEMMA KeptEntries ==
    ASSUME NEW X, NEW list \in Seq(X), NEW S
    PROVE  Range(Kept(list, S)) = Range(list) \cap S
<1>1. Kept(list, S) \in Seq(X \cap S) /\ Range(Kept(list, S)) = Range(list) \cap S  BY KeptLists
<1> QED BY <1>1

(* A list without duplicates keeps none.                                    *)
LEMMA KeptInjective ==
    ASSUME NEW X, NEW list \in Seq(X), NEW S, IsInjective(list)
    PROVE  IsInjective(Kept(list, S))
<1>1. Kept(list, S) \in Seq(X \cap S) /\ IsInjective(Kept(list, S))  BY KeptLists
<1> QED BY <1>1

(* A list whose first entry is kept does not become empty.                  *)
LEMMA KeptFirst ==
    ASSUME NEW X, NEW list \in Seq(X), NEW S, list # << >>, list[1] \in S
    PROVE  Kept(list, S) # << >>
<1>1. Kept(list, S) \in Seq(X \cap S) /\ Kept(list, S) # << >>  BY KeptLists
<1> QED BY <1>1

(* A list that a choice of pool entries keeps: it is not longer than the    *)
(* choice is large.                                                         *)
LEMMA KeptLen ==
    ASSUME NEW X, NEW list \in Seq(X), IsInjective(list), NEW S, IsFiniteSet(S),
           NEW kept, kept = Kept(list, S)
    PROVE  Len(kept) <= Cardinality(S)
<1>1. kept \in Seq(X \cap S) /\ IsInjective(kept)  BY KeptLists
<1>2. Len(kept) \in Nat /\ DOMAIN kept = 1 .. Len(kept) /\ \A i \in 1 .. Len(kept) : kept[i] \in S
  BY <1>1, LenProperties, ElementOfSeq
<1>3. kept \in Injection(1 .. Len(kept), S)
  <2>1. kept \in [1 .. Len(kept) -> X \cap S]  BY <1>1, LenProperties
  <2>2. kept \in [1 .. Len(kept) -> S]  BY <2>1
  <2>3. \A i, j \in 1 .. Len(kept) : kept[i] = kept[j] => i = j  BY <1>1, <1>2 DEF IsInjective
  <2> QED BY <2>2, <2>3 DEF Injection, IsInjective
<1>4. Cardinality(1 .. Len(kept)) <= Cardinality(S)  BY <1>3, FS_Injection
<1>5. Cardinality(1 .. Len(kept)) = Len(kept)
  <2>1. IsFiniteSet(1 .. Len(kept))
        /\ Cardinality(1 .. Len(kept)) = IF 1 > Len(kept) THEN 0 ELSE Len(kept) - 1 + 1
    <3>1. 1 \in Int /\ Len(kept) \in Int  BY <1>2
    <3> QED BY <3>1, FS_Interval
  <2> QED BY <2>1, <1>2
<1> QED BY <1>4, <1>5

(* An entry inserted behind the first r.                                    *)
Larger(s, r, e, new) ==
    /\ Len(new) = Len(s) + 1
    /\ \A i \in 1 .. Len(s) + 1 : new[i] = IF i <= r THEN s[i]
                                           ELSE IF i = r + 1 THEN e ELSE s[i - 1]

LEMMA InsertedInside ==
    ASSUME NEW X, NEW s \in Seq(X), NEW r \in 0 .. Len(s), NEW e \in X,
           NEW new, new = InsertAt(s, r + 1, e)
    PROVE  new \in Seq(X) /\ Larger(s, r, e, new)
<1> DEFINE a == SubSeq(s, 1, r)
           b == SubSeq(s, r + 1, Len(s))
           ae == a \o <<e>>
           all == ae \o b
           n == Len(s)
<1>1. n \in Nat /\ DOMAIN s = 1 .. n /\ \A i \in 1 .. n : s[i] \in X  BY LenProperties, ElementOfSeq
<1>2. (r + 1) - 1 = r  OBVIOUS
<1>3. InsertAt(s, r + 1, e) = all  BY <1>2 DEF InsertAt
<1>4. a \in Seq(X) /\ Len(a) = r /\ \A i \in 1 .. r : a[i] = s[i]
  <2>1. \A i \in 1 .. r : s[i] \in X  BY <1>1
  <2>2. /\ a \in Seq(X) /\ Len(a) = IF 1 <= r THEN r - 1 + 1 ELSE 0
        /\ \A i \in 1 .. r - 1 + 1 : a[i] = s[1 + i - 1]
    <3>1. 1 \in Int /\ r \in Int  OBVIOUS
    <3> QED BY <2>1, <3>1, SubSeqProperties
  <2> HIDE DEF a
  <2>3. r \in Nat /\ r - 1 + 1 = r /\ \A i \in 1 .. r : 1 + i - 1 = i  BY <1>1
  <2>4. Len(a) = r  BY <2>2, <2>3
  <2>5. \A i \in 1 .. r : a[i] = s[i]  BY <2>2, <2>3
  <2> QED BY <2>2, <2>4, <2>5
<1>5. b \in Seq(X) /\ Len(b) = n - r /\ \A i \in 1 .. n - r : b[i] = s[r + i]
  <2>1. \A i \in r + 1 .. n : s[i] \in X  BY <1>1
  <2>2. /\ b \in Seq(X) /\ Len(b) = IF r + 1 <= n THEN n - (r + 1) + 1 ELSE 0
        /\ \A i \in 1 .. n - (r + 1) + 1 : b[i] = s[(r + 1) + i - 1]
    <3>1. r + 1 \in Int /\ n \in Int  BY <1>1
    <3> QED BY <2>1, <3>1, SubSeqProperties
  <2> HIDE DEF b, n
  <2>3. n - (r + 1) + 1 = n - r /\ r \in Nat /\ r <= n  BY <1>1 DEF n
  <2>4. Len(b) = n - r  BY <2>2, <2>3, <1>1
  <2>5. \A i \in 1 .. n - r : (r + 1) + i - 1 = r + i  BY <2>3, <1>1
  <2> QED BY <2>2, <2>3, <2>4, <2>5
<1> HIDE DEF a, b, n
<1>6. <<e>> \in Seq(X) /\ Len(<<e>>) = 1 /\ <<e>>[1] = e  OBVIOUS
<1>7. /\ ae \in Seq(X) /\ Len(ae) = r + 1
      /\ \A i \in 1 .. r + 1 : ae[i] = IF i <= r THEN s[i] ELSE e
  <2>1. /\ ae \in Seq(X) /\ Len(ae) = r + 1
        /\ \A i \in 1 .. r + 1 : ae[i] = IF i <= r THEN a[i] ELSE <<e>>[i - r]
    BY <1>4, <1>6, ConcatProperties
  <2> HIDE DEF ae
  <2> QED BY <2>1, <1>4, <1>6
<1> HIDE DEF ae
<1>8. /\ all \in Seq(X) /\ Len(all) = n + 1
      /\ \A i \in 1 .. n + 1 : all[i] = IF i <= r THEN s[i]
                                        ELSE IF i = r + 1 THEN e ELSE s[i - 1]
  <2>1. /\ all \in Seq(X) /\ Len(all) = (r + 1) + (n - r)
        /\ \A i \in 1 .. (r + 1) + (n - r) : all[i] = IF i <= r + 1 THEN ae[i] ELSE b[i - (r + 1)]
    <3>1. /\ ae \o b \in Seq(X) /\ Len(ae \o b) = Len(ae) + Len(b)
          /\ \A i \in 1 .. Len(ae) + Len(b) :
                (ae \o b)[i] = IF i <= Len(ae) THEN ae[i] ELSE b[i - Len(ae)]
      BY <1>5, <1>7, ConcatProperties
    <3>2. Len(ae) = r + 1 /\ Len(b) = n - r  BY <1>5, <1>7
    <3> QED BY <3>1, <3>2
  <2> HIDE DEF all
  <2>2. (r + 1) + (n - r) = n + 1  BY <1>1
  <2>3. ASSUME NEW i \in 1 .. n + 1, i > r + 1 PROVE b[i - (r + 1)] = s[i - 1]
    <3> DEFINE j == i - (r + 1)
    <3>1. j \in 1 .. n - r /\ r + j = i - 1  BY <2>3, <1>1
    <3> HIDE DEF j
    <3>2. b[j] = s[r + j]  BY <3>1, <1>5
    <3> QED BY <3>1, <3>2 DEF j
  <2>4. r \in Nat /\ r <= n  BY <1>1 DEF n
  <2>5. Len(all) = n + 1  BY <2>1, <2>2
  <2>6. ASSUME NEW i \in 1 .. n + 1
        PROVE  all[i] = IF i <= r THEN s[i] ELSE IF i = r + 1 THEN e ELSE s[i - 1]
    <3>1. all[i] = IF i <= r + 1 THEN ae[i] ELSE b[i - (r + 1)]  BY <2>1, <2>2
    <3>2. CASE i <= r + 1
      <4>1. i \in 1 .. r + 1  BY <3>2, <2>4
      <4> QED BY <3>1, <3>2, <4>1, <2>4, <1>7
    <3>3. CASE i > r + 1  BY <3>1, <3>3, <2>3, <2>4
    <3> QED BY <3>2, <3>3, <2>4
  <2> QED BY <2>1, <2>5, <2>6
<1> HIDE DEF all
<1> QED BY <1>3, <1>8 DEF n, Larger

(* The first m entries of a list. *)
LEMMA FirstOnes ==
    ASSUME NEW X, NEW s \in Seq(X), NEW m \in 0 .. Len(s), NEW cut, cut = SubSeq(s, 1, m)
    PROVE  cut \in Seq(X) /\ Len(cut) = m /\ DOMAIN cut = 1 .. m /\ \A i \in 1 .. m : cut[i] = s[i]
<1>1. Len(s) \in Nat /\ \A i \in 1 .. Len(s) : s[i] \in X  BY LenProperties, ElementOfSeq
<1>2. m \in Int /\ 1 \in Int /\ \A i \in 1 .. m : s[i] \in X  BY <1>1
<1>3. /\ cut \in Seq(X) /\ Len(cut) = IF 1 <= m THEN m - 1 + 1 ELSE 0
      /\ \A i \in 1 .. m - 1 + 1 : cut[i] = s[1 + i - 1]
  BY <1>2, SubSeqProperties
<1>4. Len(cut) = m /\ \A i \in 1 .. m : cut[i] = s[i]  BY <1>1, <1>3
<1> QED BY <1>3, <1>4, LenProperties

(* An entry inserted behind the first r, and the list cut to its first m.   *)
Splice(s, r, e, m) == SubSeq(InsertAt(s, r + 1, e), 1, m)

LEMMA InsertedAndCut ==
    ASSUME NEW X, NEW s \in Seq(X), NEW r \in 0 .. Len(s), NEW e \in X, NEW m \in 0 .. Len(s) + 1,
           NEW cut, cut = Splice(s, r, e, m)
    PROVE  /\ cut \in Seq(X) /\ Len(cut) = m /\ DOMAIN cut = 1 .. m
           /\ \A i \in 1 .. m : cut[i] = IF i <= r THEN s[i]
                                         ELSE IF i = r + 1 THEN e ELSE s[i - 1]
<1> DEFINE all == InsertAt(s, r + 1, e)
<1>1. all = InsertAt(s, r + 1, e) /\ cut = SubSeq(all, 1, m)  BY DEF Splice
<1> HIDE DEF all
<1>2. all \in Seq(X) /\ Larger(s, r, e, all)  BY <1>1, InsertedInside
<1>3. m \in 0 .. Len(all)  BY <1>2 DEF Larger
<1>4. cut \in Seq(X) /\ Len(cut) = m /\ DOMAIN cut = 1 .. m /\ \A i \in 1 .. m : cut[i] = all[i]
  BY <1>1, <1>2, <1>3, FirstOnes
<1>5. Len(s) \in Nat  BY LenProperties
<1>6. \A i \in 1 .. m : i \in 1 .. Len(s) + 1  BY <1>5
<1> QED BY <1>2, <1>4, <1>6 DEF Larger

(* The entries of a list behind the first m. *)
LEMMA RestOnes ==
    ASSUME NEW X, NEW s \in Seq(X), NEW m \in 0 .. Len(s), NEW rest, rest = SubSeq(s, m + 1, Len(s))
    PROVE  /\ rest \in Seq(X) /\ Len(rest) = Len(s) - m /\ DOMAIN rest = 1 .. Len(s) - m
           /\ \A i \in 1 .. Len(s) - m : rest[i] = s[m + i]
<1>1. Len(s) \in Nat /\ \A i \in 1 .. Len(s) : s[i] \in X  BY LenProperties, ElementOfSeq
<1>2. m + 1 \in Int /\ Len(s) \in Int /\ \A i \in m + 1 .. Len(s) : s[i] \in X  BY <1>1
<1>3. /\ rest \in Seq(X) /\ Len(rest) = IF m + 1 <= Len(s) THEN Len(s) - (m + 1) + 1 ELSE 0
      /\ \A i \in 1 .. Len(s) - (m + 1) + 1 : rest[i] = s[(m + 1) + i - 1]
  BY <1>2, SubSeqProperties
<1>4. Len(rest) = Len(s) - m /\ \A i \in 1 .. Len(s) - m : rest[i] = s[m + i]  BY <1>1, <1>3
<1> QED BY <1>3, <1>4, LenProperties

(* A finite set in a strict order: each member once. *)
LEMMA InOrderLists ==
    ASSUME NEW S, IsFiniteSet(S), NEW Before, StrictOrder(S, Before),
           NEW list, list = InOrder(S, Before)
    PROVE  /\ Cardinality(S) \in Nat /\ list \in Seq(S) /\ list \in [1 .. Cardinality(S) -> S]
           /\ Len(list) = Cardinality(S) /\ DOMAIN list = 1 .. Cardinality(S)
           /\ \A a \in S : \E i \in 1 .. Cardinality(S) : list[i] = a
           /\ \A i, j \in 1 .. Cardinality(S) : i < j => <<list[i], list[j]>> \in Before
           /\ \A i, j \in 1 .. Cardinality(S) : list[i] = list[j] => i = j
<1> DEFINE n == Cardinality(S)
           rank == RankIn(S, Before)
           h == [ i \in 1 .. n |-> CHOOSE a \in S : rank[a] = i - 1 ]
<1>1. RankOf(S, Before) = rank  BY DEF RankOf, RankIn, Preceding
<1>2. list = << >> \o h
  <2> DEFINE Q == { RankOf(S, before) : before \in {Before} }
             T == { AtRanks(S, r) : r \in Q }
  <2>1. list = Only(T)  BY DEF InOrder
  <2>2. Q = {rank}  BY <1>1
  <2> HIDE DEF Q, rank
  <2>3. T = {AtRanks(S, rank)}  BY <2>2
  <2>4. Only({AtRanks(S, rank)}) = AtRanks(S, rank)  BY OnlyOne
  <2> QED BY <2>1, <2>3, <2>4 DEF AtRanks
<1>3. h = [ i \in 1 .. n |-> h[i] ]  OBVIOUS
<1>4. ASSUME NEW i \in 1 .. n, NEW a \in S, rank[a] = i - 1 PROVE h[i] \in S /\ rank[h[i]] = i - 1
  <2>1. h[i] = CHOOSE b \in S : rank[b] = i - 1  OBVIOUS
  <2> HIDE DEF h, rank
  <2> QED BY <1>4, <2>1
<1>5. Lists(h, S, Before)
  <2> HIDE DEF h
  <2> QED BY <1>3, <1>4 DEF Lists
<1> HIDE DEF h, rank
<1>6. /\ n \in Nat /\ h \in [1 .. n -> S]
      /\ \A a \in S : \E i \in 1 .. n : h[i] = a
      /\ \A i, j \in 1 .. n : i < j => <<h[i], h[j]>> \in Before
      /\ \A i, j \in 1 .. n : h[i] = h[j] => i = j
  BY <1>5, Listed
<1>7. h \in Seq(S) /\ Len(h) = n /\ list = h  BY <1>2, <1>6, AsSequence
<1>8. DOMAIN list = 1 .. n  BY <1>6, <1>7
<1> QED BY <1>6, <1>7, <1>8

(* What every step of a recursion keeps. *)
LEMMA KeptToTheEnd ==
    ASSUME NEW n \in Nat, NEW S, NEW f, f[0] \in S,
           \A t \in 1 .. n : f[t - 1] \in S => f[t] \in S
    PROVE  \A t \in 0 .. n : f[t] \in S
<1> DEFINE T == { t \in 0 .. n : f[t] \notin S }
<1>1. ASSUME T # {} PROVE FALSE
  <2>1. T \in SUBSET Nat  OBVIOUS
  <2>2. PICK k \in T : \A j \in T : k <= j
    <3> HIDE DEF T
    <3> QED BY <1>1, <2>1, LeastNatural
  <2>3. k # 0 /\ k \in Nat /\ k <= n /\ f[k] \notin S  OBVIOUS
  <2>4. k - 1 \in 0 .. n /\ k \in 1 .. n  BY <2>3
  <2>5. k - 1 \notin T  BY <2>2, <2>3
  <2>6. f[k - 1] \in S  BY <2>4, <2>5
  <2> QED BY <2>3, <2>4, <2>6
<1> QED BY <1>1

(* A recursion that goes, until it stops, to an argument of smaller measure. *)
Descent(N, S, V, m, stop, val, next, step) ==
    /\ N \in Nat /\ m \in [S -> 0 .. N] /\ stop \in SUBSET S
    /\ val \in [S -> V] /\ next \in [S -> S] /\ step \in [S \X V -> V]
    /\ \A x \in S : x \notin stop => m[next[x]] < m[x]

(* It defines a function. *)
LEMMA DescentExists ==
    ASSUME NEW N, NEW S, NEW V, NEW m, NEW stop, NEW val, NEW next, NEW step,
           Descent(N, S, V, m, stop, val, next, step)
    PROVE  \E f \in [S -> V] : \A x \in S : f[x] = IF x \in stop THEN val[x] ELSE step[<<x, f[next[x]]>>]
<1> USE DEF Descent
<1> DEFINE Upto(k) == { x \in S : m[x] < k }
           Solves(k, f) == f \in [Upto(k) -> V]
                           /\ \A x \in Upto(k) : f[x] = IF x \in stop THEN val[x] ELSE step[<<x, f[next[x]]>>]
           T == { k \in 0 .. N + 1 : ~ \E f : Solves(k, f) }
<1>1. Solves(0, [ x \in {} |-> x ])
  <2>1. Upto(0) = {}  OBVIOUS
  <2> QED BY <2>1
<1>2. ASSUME NEW k \in 1 .. N + 1, NEW f, Solves(k - 1, f)
      PROVE  \E g : Solves(k, g)
  <2> DEFINE g == [ x \in Upto(k) |-> IF x \in stop THEN val[x] ELSE step[<<x, f[next[x]]>>] ]
  <2>1. \A x \in Upto(k) : x \notin stop => next[x] \in Upto(k - 1)
    <3> SUFFICES ASSUME NEW x \in Upto(k), x \notin stop PROVE next[x] \in Upto(k - 1)
      OBVIOUS
    <3>1. x \in S /\ next[x] \in S /\ m[x] \in 0 .. N /\ m[next[x]] \in 0 .. N
          /\ m[x] < k /\ m[next[x]] < m[x]
      OBVIOUS
    <3>2. m[next[x]] < k - 1  BY <3>1
    <3> QED BY <3>1, <3>2
  <2>2. g \in [Upto(k) -> V]
    <3>1. \A x \in Upto(k) : val[x] \in V  OBVIOUS
    <3>2. \A x \in Upto(k - 1) : f[x] \in V  BY <1>2
    <3>3. \A x \in Upto(k), v \in V : step[<<x, v>>] \in V  OBVIOUS
    <3> HIDE DEF Upto
    <3> QED BY <2>1, <3>1, <3>2, <3>3
  <2>3. \A x \in Upto(k - 1) : x \in Upto(k)
    <3> SUFFICES ASSUME NEW x \in S, m[x] < k - 1 PROVE m[x] < k
      OBVIOUS
    <3>1. m[x] \in 0 .. N  OBVIOUS
    <3> QED BY <3>1
  <2>4. \A x \in Upto(k - 1) : g[x] = f[x]
    <3>1. \A x \in Upto(k - 1) : f[x] = IF x \in stop THEN val[x] ELSE step[<<x, f[next[x]]>>]  BY <1>2
    <3> HIDE DEF Upto
    <3> QED BY <2>3, <3>1
  <2>5. \A x \in Upto(k) : g[x] = IF x \in stop THEN val[x] ELSE step[<<x, g[next[x]]>>]
    <3>1. \A x \in Upto(k) : g[x] = IF x \in stop THEN val[x] ELSE step[<<x, f[next[x]]>>]  OBVIOUS
    <3> HIDE DEF g, Upto
    <3> QED BY <2>1, <2>4, <3>1
  <2>6. Solves(k, g)  BY <2>2, <2>5
  <2> HIDE DEF Solves, g
  <2> QED BY <2>6
<1> HIDE DEF Solves
<1>3. ASSUME T # {} PROVE FALSE
  <2>1. T \in SUBSET Nat  OBVIOUS
  <2>2. PICK k \in T : \A j \in T : k <= j
    <3> HIDE DEF T
    <3> QED BY <1>3, <2>1, LeastNatural
  <2>3. k # 0 /\ k \in Nat /\ k <= N + 1  BY <1>1
  <2>4. k - 1 \in 0 .. N + 1 /\ k \in 1 .. N + 1  BY <2>3
  <2>5. k - 1 \notin T  BY <2>2, <2>3
  <2>6. PICK f : Solves(k - 1, f)  BY <2>4, <2>5
  <2>7. \E g : Solves(k, g)  BY <1>2, <2>4, <2>6
  <2> QED BY <2>7
<1>4. PICK f : Solves(N + 1, f)
  <2>1. N + 1 \in 0 .. N + 1  OBVIOUS
  <2> QED BY <1>3, <2>1
<1>5. Upto(N + 1) = S
  <2>1. \A x \in S : m[x] \in 0 .. N  OBVIOUS
  <2>2. \A x \in S : m[x] < N + 1  BY <2>1
  <2> QED BY <2>2
<1> QED BY <1>4, <1>5 DEF Solves

(* F is what a fold over 1 .. n chooses: a fixed point of B, whenever B has *)
(* one; on what stays in S, B is the recursion by step.                     *)
Folding(n, S, base, step, F, B) ==
    /\ (\E f \in [0 .. n -> S] : f = B[f]) => F = B[F]
    /\ \A f \in [0 .. n -> S] \cup {F} :
          /\ B[f] = [ i \in 0 .. n |-> B[f][i] ] /\ B[f][0] = base
          /\ \A i \in 1 .. n : f[i - 1] \in S => B[f][i] = step[<<i, f[i - 1]>>]

(* The fold stays in S. *)
LEMMA FoldKept ==
    ASSUME NEW n \in Nat, NEW S, NEW base \in S, NEW step \in [(1 .. n) \X S -> S],
           NEW F, NEW B, Folding(n, S, base, step, F, B)
    PROVE  F[n] \in S /\ (\A i \in 0 .. n : F[i] \in S) /\ Recursion(F, n, base, step)
<1>1. PICK f \in [0 .. n -> S] : Recursion(f, n, base, step)  BY RecursionExists
<1>2. f[0] = base /\ \A i \in 1 .. n : f[i] = step[<<i, f[i - 1]>>]  BY <1>1 DEF Recursion
<1>3. \A i \in 1 .. n : i - 1 \in 0 .. n /\ i \in 0 .. n  OBVIOUS
<1>4. B[f] = [ i \in 0 .. n |-> B[f][i] ] /\ B[f][0] = base
      /\ \A i \in 1 .. n : B[f][i] = step[<<i, f[i - 1]>>]
  BY <1>1, <1>3 DEF Folding
<1>5. \A i \in 0 .. n : f[i] = B[f][i]
  <2>1. \A i \in 0 .. n : i # 0 => i \in 1 .. n  OBVIOUS
  <2> QED BY <1>2, <1>4, <2>1
<1>6. f = B[f]
  <2>1. f = [ i \in 0 .. n |-> f[i] ]  BY <1>1
  <2> QED BY <1>4, <1>5, <2>1
<1>7. F = B[F]  BY <1>1, <1>6 DEF Folding
<1>8. F[0] = base /\ \A i \in 1 .. n : F[i - 1] \in S => F[i] = step[<<i, F[i - 1]>>]
  <2>1. /\ B[F][0] = base
        /\ \A i \in 1 .. n : F[i - 1] \in S => B[F][i] = step[<<i, F[i - 1]>>]
    BY Zenon DEF Folding
  <2> QED BY <1>7, <2>1, Zenon
<1>9. \A i \in 1 .. n : F[i - 1] \in S => F[i] \in S
  <2> SUFFICES ASSUME NEW i \in 1 .. n, F[i - 1] \in S PROVE F[i] \in S
    OBVIOUS
  <2>1. step[<<i, F[i - 1]>>] \in S  OBVIOUS
  <2> QED BY <1>8, <2>1
<1>10. \A i \in 0 .. n : F[i] \in S  BY <1>8, <1>9, KeptToTheEnd
<1>11. Recursion(F, n, base, step)
  <2>1. \A i \in 1 .. n : i - 1 \in 0 .. n  OBVIOUS
  <2> QED BY <1>8, <1>10, <2>1 DEF Recursion
<1> QED BY <1>10, <1>11

-----------------------------------------------------------------------------
(* The sums of f over the finite subsets of S that SumFunction defines.     *)
Sums(S, f) ==
    CHOOSE iter : iter = [ s \in SUBSET S |->
        IF s = {} THEN 0
        ELSE f[CHOOSE x \in s : TRUE] + iter[s \ {CHOOSE x \in s : TRUE}] ]

Summing(S, f, sums) ==
    /\ sums[{}] = 0
    /\ \A s \in SUBSET S : /\ sums[s] \in Int
                           /\ s # {} => \E x \in s : x = (CHOOSE y \in s : TRUE)
                                           /\ sums[s] = f[x] + sums[s \ {x}]

LEMMA SumsRecursive ==
    ASSUME NEW S, IsFiniteSet(S), NEW f \in [S -> Int], NEW sums, sums = Sums(S, f)
    PROVE  SumFunction(f) = sums[S] /\ Summing(S, f, sums)
<1> DEFINE P == SUBSET S
           first(s) == CHOOSE x \in s : TRUE
           N == Cardinality(S)
           m == [ s \in P |-> Cardinality(s) ]
           stop == {{}}
           val == [ s \in P |-> 0 ]
           next == [ s \in P |-> IF s = {} THEN s ELSE s \ {first(s)} ]
           step == [ sv \in P \X Int |-> IF sv[1] = {} THEN 0 ELSE f[first(sv[1])] + sv[2] ]
           body(g) == [ s \in P |-> IF s = {} THEN 0 ELSE f[first(s)] + g[s \ {first(s)}] ]
<1>1. SumFunction(f) = sums[S]
  BY DEF SumFunction, SumFunctionOnSet, FoldFunctionOnSet, MapThenFoldSet, Sums
<1>2. \A s \in P : s # {} => first(s) \in s /\ first(s) \in S  OBVIOUS
<1>3. \A s \in P : IsFiniteSet(s) /\ Cardinality(s) \in 0 .. N
  <2> SUFFICES ASSUME NEW s \in P PROVE IsFiniteSet(s) /\ Cardinality(s) \in 0 .. N
    OBVIOUS
  <2>1. IsFiniteSet(s) /\ Cardinality(s) <= Cardinality(S)  BY FS_Subset
  <2>2. Cardinality(s) \in Nat /\ Cardinality(S) \in Nat  BY <2>1, FS_CardinalityType
  <2> QED BY <2>1, <2>2
<1>4. N \in Nat  BY FS_CardinalityType
<1> HIDE DEF first
<1>5. \A s \in P : s \notin stop => m[next[s]] < m[s]
  <2> SUFFICES ASSUME NEW s \in P, s # {} PROVE Cardinality(s \ {first(s)}) < Cardinality(s)
    OBVIOUS
  <2>1. Cardinality(s \ {first(s)}) = Cardinality(s) - 1  BY <1>2, <1>3, FS_RemoveElement
  <2> QED BY <2>1, <1>3, <1>4
<1>6. step \in [P \X Int -> Int] /\ \A s \in P, v \in Int : s # {} => step[<<s, v>>] = f[first(s)] + v
  <2> HIDE DEF P
  <2> QED BY <1>2
<1>7. m \in [P -> 0 .. N] /\ stop \in SUBSET P /\ val \in [P -> Int] /\ next \in [P -> P]
  <2>1. \A s \in P : s \ {first(s)} \in P  OBVIOUS
  <2>2. {} \in P  OBVIOUS
  <2> HIDE DEF P
  <2> QED BY <1>3, <2>1, <2>2
<1>8. PICK g \in [P -> Int] : \A s \in P : g[s] = IF s \in stop THEN val[s] ELSE step[<<s, g[next[s]]>>]
  <2> DEFINE V == Int
  <2> HIDE DEF P, m, stop, val, next, step, N, V
  <2>1. Descent(N, P, V, m, stop, val, next, step)  BY <1>4, <1>5, <1>6, <1>7 DEF Descent, V
  <2>2. \E g \in [P -> V] : \A s \in P : g[s] = IF s \in stop THEN val[s] ELSE step[<<s, g[next[s]]>>]
    BY <2>1, DescentExists
  <2> QED BY <2>2 DEF V
<1>9. \A s \in P : s # {} => g[s] = f[first(s)] + g[s \ {first(s)}]
  <2> SUFFICES ASSUME NEW s \in P, s # {} PROVE g[s] = f[first(s)] + g[s \ {first(s)}]
    OBVIOUS
  <2>1. next[s] = s \ {first(s)} /\ next[s] \in P /\ s \notin stop  OBVIOUS
  <2> HIDE DEF P, next, step, stop
  <2> QED BY <1>6, <1>8, <2>1
<1>10. g[{}] = 0
  <2>1. {} \in P /\ {} \in stop /\ val[{}] = 0  OBVIOUS
  <2> HIDE DEF P, val, stop, next, step
  <2> QED BY <1>8, <2>1
<1>11. g = body(g)
  <2>1. g = [ s \in P |-> g[s] ]  OBVIOUS
  <2> HIDE DEF P
  <2> QED BY <1>9, <1>10, <2>1
<1>12. sums = body(sums)
  <2>1. sums = CHOOSE h : h = body(h)  BY DEF Sums, first
  <2> HIDE DEF body
  <2> QED BY <1>11, <2>1
<1> HIDE DEF m, stop, val, next, step
<1>13. \A s \in P : sums[s] = IF s = {} THEN 0 ELSE f[first(s)] + sums[s \ {first(s)}]
  <2> HIDE DEF P
  <2> QED BY <1>12
<1> HIDE DEF body
<1> DEFINE T == { k \in 0 .. N : \E s \in P : Cardinality(s) = k /\ sums[s] \notin Int }
<1>14. ASSUME T # {} PROVE FALSE
  <2>1. T \in SUBSET Nat  OBVIOUS
  <2>2. PICK k \in T : \A j \in T : k <= j
    <3> HIDE DEF T
    <3> QED BY <1>14, <2>1, LeastNatural
  <2>3. PICK s \in P : Cardinality(s) = k /\ sums[s] \notin Int  BY <2>2
  <2>4. s # {} /\ sums[s] = f[first(s)] + sums[s \ {first(s)}] /\ f[first(s)] \in Int
    BY <1>2, <1>13, <2>3
  <2>5. s \ {first(s)} \in P  OBVIOUS
  <2>6. Cardinality(s \ {first(s)}) = k - 1  BY <1>2, <1>3, <2>3, <2>4, FS_RemoveElement
  <2>7. sums[s \ {first(s)}] \notin Int  BY <2>3, <2>4
  <2>8. k - 1 \in 0 .. N
    <3>1. Cardinality(s \ {first(s)}) \in 0 .. N  BY <1>3, <2>5
    <3> QED BY <2>6, <3>1
  <2>9. k - 1 \in T  BY <2>5, <2>6, <2>7, <2>8
  <2>10. k <= k - 1 /\ k \in Nat  BY <2>2, <2>9
  <2> QED BY <2>10
<1>15. \A s \in P : sums[s] \in Int  BY <1>3, <1>14
<1>16. sums[{}] = 0  BY <1>13
<1>17. \A s \in P : s # {} => sums[s] = f[first(s)] + sums[s \ {first(s)}] /\ first(s) \in s
  BY <1>2, <1>13
<1> QED BY <1>1, <1>15, <1>16, <1>17 DEF first, P, Summing

(* One value of a function changes: its sum changes by the difference.      *)
Changed(S, f, t, v, g) == f \in [S -> Int] /\ t \in S /\ v \in Int /\ g = [f EXCEPT ![t] = v]

SumMoves(f, t, v, g) == SumFunction(f) \in Int /\ SumFunction(g) = SumFunction(f) - f[t] + v

LEMMA SumChanged ==
    ASSUME NEW S, IsFiniteSet(S), NEW f, NEW t, NEW v, NEW g, Changed(S, f, t, v, g)
    PROVE  SumMoves(f, t, v, g)
<1> DEFINE N == Cardinality(S)
           a == Sums(S, f)
           b == Sums(S, g)
           Right(s) == b[s] = IF t \in s THEN a[s] - f[t] + v ELSE a[s]
           T == { k \in 0 .. N : \E s \in SUBSET S : Cardinality(s) = k /\ ~Right(s) }
<1>0. f \in [S -> Int] /\ t \in S /\ v \in Int /\ g = [f EXCEPT ![t] = v]  BY DEF Changed
<1>1. g \in [S -> Int] /\ g[t] = v /\ \A x \in S : x # t => g[x] = f[x]  BY <1>0
<1>2. SumFunction(f) = a[S] /\ Summing(S, f, a)
  <2>1. a = Sums(S, f)  OBVIOUS
  <2> HIDE DEF a
  <2> QED BY <1>0, <2>1, SumsRecursive
<1>3. SumFunction(g) = b[S] /\ Summing(S, g, b)
  <2>1. b = Sums(S, g)  OBVIOUS
  <2> HIDE DEF b
  <2> QED BY <2>1, <1>1, SumsRecursive
<1>4. \A s \in SUBSET S : IsFiniteSet(s) /\ Cardinality(s) \in 0 .. N
  <2> SUFFICES ASSUME NEW s \in SUBSET S PROVE IsFiniteSet(s) /\ Cardinality(s) \in 0 .. N
    OBVIOUS
  <2>1. IsFiniteSet(s) /\ Cardinality(s) <= Cardinality(S)  BY FS_Subset
  <2>2. Cardinality(s) \in Nat /\ Cardinality(S) \in Nat  BY <2>1, FS_CardinalityType
  <2> QED BY <2>1, <2>2
<1> HIDE DEF a, b
<1>5. ASSUME T # {} PROVE FALSE
  <2>1. T \in SUBSET Nat  OBVIOUS
  <2>2. PICK k \in T : \A j \in T : k <= j
    <3> HIDE DEF T
    <3> QED BY <1>5, <2>1, LeastNatural
  <2>3. PICK s \in SUBSET S : Cardinality(s) = k /\ ~Right(s)  BY <2>2
  <2>4. s # {}  BY <1>2, <1>3, <2>3 DEF Summing
  <2> DEFINE x == CHOOSE y \in s : TRUE
             r == s \ {x}
  <2>5. x \in s /\ a[s] = f[x] + a[r] /\ b[s] = g[x] + b[r]  BY <1>2, <1>3, <2>4 DEF Summing
  <2> HIDE DEF x
  <2>6. r \in SUBSET S /\ (t \in r <=> t \in s /\ t # x)  OBVIOUS
  <2>7. Cardinality(r) = k - 1 /\ Cardinality(r) \in 0 .. N
    <3>1. Cardinality(s \ {x}) = Cardinality(s) - 1  BY <1>4, <2>5, FS_RemoveElement
    <3> QED BY <3>1, <1>4, <2>3, <2>6
  <2> HIDE DEF r
  <2>8. Right(r)
    <3>1. k - 1 \notin T
      <4>1. k \in Nat  BY <2>1
      <4>2. ~(k <= k - 1)  BY <4>1
      <4> QED BY <2>2, <4>2
    <3>2. k - 1 \in 0 .. N  BY <2>7
    <3> QED BY <3>1, <3>2, <2>6, <2>7
  <2>9. a[r] \in Int /\ b[r] \in Int /\ f[x] \in Int /\ g[x] \in Int /\ f[t] \in Int /\ x \in S
    BY <1>0, <1>1, <1>2, <1>3, <2>5, <2>6 DEF Summing
  <2>10. CASE x = t
    <3>1. b[r] = a[r] /\ t \in s /\ g[x] = v  BY <1>1, <2>5, <2>6, <2>8, <2>10
    <3>2. b[s] = v + a[r] /\ a[s] = f[t] + a[r]  BY <2>5, <2>10, <3>1
    <3>3. b[s] = a[s] - f[t] + v  BY <1>0, <2>9, <3>2
    <3> QED BY <2>3, <3>1, <3>3
  <2>11. CASE x # t
    <3>1. g[x] = f[x]  BY <1>1, <2>9, <2>11
    <3>2. b[s] = f[x] + b[r] /\ a[s] = f[x] + a[r]  BY <2>5, <3>1
    <3>3. CASE t \in s
      <4>1. b[r] = a[r] - f[t] + v  BY <2>6, <2>8, <2>11, <3>3
      <4>2. b[s] = a[s] - f[t] + v  BY <1>0, <2>9, <3>2, <4>1
      <4> QED BY <2>3, <3>3, <4>2
    <3>4. CASE t \notin s
      <4>1. b[r] = a[r]  BY <2>6, <2>8, <3>4
      <4>2. b[s] = a[s]  BY <3>2, <4>1
      <4> QED BY <2>3, <3>4, <4>2
    <3> QED BY <3>3, <3>4
  <2> QED BY <2>10, <2>11
<1>6. Right(S)
  <2>1. Cardinality(S) \notin T /\ Cardinality(S) \in 0 .. N  BY <1>4, <1>5
  <2> QED BY <2>1
<1> QED BY <1>0, <1>2, <1>3, <1>6 DEF Summing, SumMoves

(* The sum of zeroes. *)
LEMMA SumOfZeroes ==
    ASSUME NEW S, IsFiniteSet(S), NEW f, f = [ x \in S |-> 0 ]
    PROVE  SumFunction(f) = 0
<1> DEFINE N == Cardinality(S)
           a == Sums(S, f)
           T == { k \in 0 .. N : \E s \in SUBSET S : Cardinality(s) = k /\ a[s] # 0 }
<1>1. f \in [S -> Int] /\ \A x \in S : f[x] = 0  OBVIOUS
<1>2. SumFunction(f) = a[S] /\ Summing(S, f, a)
  <2>1. a = Sums(S, f)  OBVIOUS
  <2> HIDE DEF a
  <2> QED BY <2>1, <1>1, SumsRecursive
<1>3. \A s \in SUBSET S : IsFiniteSet(s) /\ Cardinality(s) \in 0 .. N
  <2> SUFFICES ASSUME NEW s \in SUBSET S PROVE IsFiniteSet(s) /\ Cardinality(s) \in 0 .. N
    OBVIOUS
  <2>1. IsFiniteSet(s) /\ Cardinality(s) <= Cardinality(S)  BY FS_Subset
  <2>2. Cardinality(s) \in Nat /\ Cardinality(S) \in Nat  BY <2>1, FS_CardinalityType
  <2> QED BY <2>1, <2>2
<1> HIDE DEF a
<1>4. ASSUME T # {} PROVE FALSE
  <2>1. T \in SUBSET Nat  OBVIOUS
  <2>2. PICK k \in T : \A j \in T : k <= j
    <3> HIDE DEF T
    <3> QED BY <1>4, <2>1, LeastNatural
  <2>3. PICK s \in SUBSET S : Cardinality(s) = k /\ a[s] # 0  BY <2>2
  <2>4. PICK x \in s : a[s] = f[x] + a[s \ {x}]  BY <1>2, <2>3 DEF Summing
  <2>5. Cardinality(s \ {x}) = k - 1 /\ s \ {x} \in SUBSET S  BY <1>3, <2>3, FS_RemoveElement
  <2>6. k - 1 \in 0 .. N  BY <1>3, <2>5
  <2>7. k \in Nat /\ ~(k <= k - 1)  BY <2>1
  <2>8. a[s \ {x}] = 0  BY <2>2, <2>5, <2>6, <2>7
  <2> QED BY <1>1, <2>3, <2>4, <2>8
<1>5. a[S] = 0
  <2>1. Cardinality(S) \notin T /\ Cardinality(S) \in 0 .. N  BY <1>3, <1>4
  <2> QED BY <2>1
<1> QED BY <1>2, <1>5

(* The sum of a function with no negative value is not negative. *)
LEMMA SumNotNegative ==
    ASSUME NEW S, IsFiniteSet(S), NEW f \in [S -> Nat]
    PROVE  SumFunction(f) \in Nat
<1> DEFINE N == Cardinality(S)
           a == Sums(S, f)
           T == { k \in 0 .. N : \E s \in SUBSET S : Cardinality(s) = k /\ a[s] \notin Nat }
<1>1. f \in [S -> Int] /\ \A x \in S : f[x] \in Nat  OBVIOUS
<1>2. SumFunction(f) = a[S] /\ Summing(S, f, a)
  <2>1. a = Sums(S, f)  OBVIOUS
  <2> HIDE DEF a
  <2> QED BY <2>1, <1>1, SumsRecursive
<1>3. \A s \in SUBSET S : IsFiniteSet(s) /\ Cardinality(s) \in 0 .. N
  <2> SUFFICES ASSUME NEW s \in SUBSET S PROVE IsFiniteSet(s) /\ Cardinality(s) \in 0 .. N
    OBVIOUS
  <2>1. IsFiniteSet(s) /\ Cardinality(s) <= Cardinality(S)  BY FS_Subset
  <2>2. Cardinality(s) \in Nat /\ Cardinality(S) \in Nat  BY <2>1, FS_CardinalityType
  <2> QED BY <2>1, <2>2
<1> HIDE DEF a
<1>4. ASSUME T # {} PROVE FALSE
  <2>1. T \in SUBSET Nat  OBVIOUS
  <2>2. PICK k \in T : \A j \in T : k <= j
    <3> HIDE DEF T
    <3> QED BY <1>4, <2>1, LeastNatural
  <2>3. PICK s \in SUBSET S : Cardinality(s) = k /\ a[s] \notin Nat  BY <2>2
  <2>9. s # {}
    <3>1. a[{}] = 0 /\ 0 \in Nat  BY <1>2 DEF Summing
    <3> QED BY <2>3, <3>1
  <2>4. PICK x \in s : a[s] = f[x] + a[s \ {x}]  BY <1>2, <2>9 DEF Summing
  <2>5. Cardinality(s \ {x}) = k - 1 /\ s \ {x} \in SUBSET S  BY <1>3, <2>3, FS_RemoveElement
  <2>6. k - 1 \in 0 .. N  BY <1>3, <2>5
  <2>7. k \in Nat /\ ~(k <= k - 1)  BY <2>1
  <2>8. a[s \ {x}] \in Nat  BY <2>2, <2>5, <2>6, <2>7
  <2> QED BY <1>1, <2>3, <2>4, <2>8
<1>5. a[S] \in Nat
  <2>1. Cardinality(S) \notin T /\ Cardinality(S) \in 0 .. N  BY <1>3, <1>4
  <2> QED BY <2>1
<1> QED BY <1>2, <1>5

-----------------------------------------------------------------------------
(* Lists that are changed by one entry. *)

(* A bounded set of positions has a last one. *)
LEMMA GreatestPosition ==
    ASSUME NEW n \in Nat, NEW T \in SUBSET (1 .. n), T # {}
    PROVE  \E k \in T : \A j \in T : j <= k
<1> DEFINE back == { n - k : k \in T }
<1>1. T \subseteq 1 .. n  OBVIOUS
<1>2. back \in SUBSET Nat
  <2>1. \A k \in T : n - k \in Nat  BY <1>1
  <2> QED BY <2>1
<1>3. back # {}  OBVIOUS
<1> HIDE DEF back
<1>4. PICK b \in back : \A c \in back : b <= c  BY <1>2, <1>3, LeastNatural
<1> USE DEF back
<1>5. PICK k \in T : b = n - k  BY <1>4
<1>6. ASSUME NEW j \in T PROVE j <= k
  <2>1. n - j \in back  OBVIOUS
  <2>2. b <= n - j  BY <1>4, <2>1
  <2>3. j \in Int /\ k \in Int /\ n \in Int  BY <1>1
  <2> QED BY <1>5, <2>2, <2>3
<1> QED BY <1>6

(* Without its entry at e a list has the others, in their places. *)
LEMMA RemovedAt ==
    ASSUME NEW X, NEW s \in Seq(X), IsInjective(s), NEW e \in 1 .. Len(s), NEW list, list = RemoveAt(s, e)
    PROVE  /\ list \in Seq(X) /\ IsInjective(list) /\ Len(list) = Len(s) - 1
           /\ Range(list) \subseteq Range(s) \ {s[e]}
           /\ \A i \in 1 .. Len(s) : i # e => s[i] \in Range(list)
<1> DEFINE n == Len(s)
           a == SubSeq(s, 1, e - 1)
           b == SubSeq(s, e + 1, n)
<1>1. n \in Nat /\ DOMAIN s = 1 .. n /\ \A i \in 1 .. n : s[i] \in X
  BY LenProperties, ElementOfSeq
<1>2. list = a \o b  BY DEF RemoveAt
<1>3. e \in 1 .. n  OBVIOUS
<1>0. \A i \in 1 .. n : s[i] \in X  BY <1>1
<1> HIDE DEF n
<1>4. /\ a \in Seq(X) /\ Len(a) = e - 1
      /\ \A i \in 1 .. e - 1 : a[i] = s[i]
  <2>1. 1 \in Int /\ e - 1 \in Int /\ \A i \in 1 .. e - 1 : s[i] \in X
    BY <1>0, <1>1, <1>3
  <2>2. /\ a \in Seq(X) /\ Len(a) = IF 1 <= e - 1 THEN (e - 1) - 1 + 1 ELSE 0
        /\ \A i \in 1 .. (e - 1) - 1 + 1 : a[i] = s[1 + i - 1]
    BY <2>1, SubSeqProperties
  <2>3. a \in Seq(X)  BY <2>2
  <2>4. Len(a) = e - 1  BY <1>1, <1>3, <2>2
  <2>5. \A i \in 1 .. e - 1 : 1 + i - 1 = i /\ i \in 1 .. (e - 1) - 1 + 1  BY <1>1, <1>3
  <2>6. \A i \in 1 .. e - 1 : a[i] = s[i]  BY <2>2, <2>5
  <2> QED BY <2>3, <2>4, <2>6
<1>5. /\ b \in Seq(X) /\ Len(b) = n - e
      /\ \A i \in 1 .. n - e : b[i] = s[e + i]
  <2>1. e + 1 \in Int /\ n \in Int /\ \A i \in e + 1 .. n : s[i] \in X
    BY <1>0, <1>1, <1>3
  <2>2. /\ b \in Seq(X) /\ Len(b) = IF e + 1 <= n THEN n - (e + 1) + 1 ELSE 0
        /\ \A i \in 1 .. n - (e + 1) + 1 : b[i] = s[(e + 1) + i - 1]
    BY <2>1, SubSeqProperties
  <2>3. b \in Seq(X)  BY <2>2
  <2>4. Len(b) = n - e  BY <1>1, <1>3, <2>2
  <2>5. \A i \in 1 .. n - e : (e + 1) + i - 1 = e + i /\ i \in 1 .. n - (e + 1) + 1  BY <1>1, <1>3
  <2>6. \A i \in 1 .. n - e : b[i] = s[e + i]  BY <2>2, <2>5
  <2> QED BY <2>3, <2>4, <2>6
<1> HIDE DEF a, b
<1>6. /\ list \in Seq(X) /\ Len(list) = n - 1
      /\ \A i \in 1 .. n - 1 : list[i] = IF i < e THEN s[i] ELSE s[i + 1]
  <2>1. /\ a \o b \in Seq(X) /\ Len(a \o b) = Len(a) + Len(b)
        /\ \A i \in 1 .. Len(a) + Len(b) : (a \o b)[i] = IF i <= Len(a) THEN a[i] ELSE b[i - Len(a)]
    BY <1>4, <1>5, ConcatProperties
  <2>2. Len(list) = n - 1  BY <1>1, <1>2, <1>3, <1>4, <1>5, <2>1
  <2>3. ASSUME NEW i \in 1 .. n - 1
        PROVE  list[i] = IF i < e THEN s[i] ELSE s[i + 1]
    <3>1. list[i] = IF i <= e - 1 THEN a[i] ELSE b[i - (e - 1)]
      BY <1>1, <1>2, <1>3, <1>4, <1>5, <2>1
    <3>2. CASE i < e
      <4>1. i \in 1 .. e - 1 /\ i <= e - 1  BY <1>1, <1>3, <3>2
      <4> QED BY <1>4, <3>1, <3>2, <4>1
    <3>3. CASE ~(i < e)
      <4>1. i - (e - 1) \in 1 .. n - e /\ ~(i <= e - 1) /\ e + (i - (e - 1)) = i + 1
        BY <1>1, <1>3, <3>3
      <4>2. list[i] = s[e + (i - (e - 1))]  BY <1>5, <3>1, <4>1
      <4> QED BY <3>3, <4>1, <4>2
    <3> QED BY <3>2, <3>3
  <2> QED BY <1>2, <2>1, <2>2, <2>3
<1>7. DOMAIN list = 1 .. n - 1  BY <1>6, LenProperties
<1> DEFINE At(i) == IF i < e THEN i ELSE i + 1
<1>8. ASSUME NEW i \in 1 .. n - 1 PROVE At(i) \in 1 .. n /\ At(i) # e /\ list[i] = s[At(i)]
  <2>1. At(i) \in 1 .. n /\ At(i) # e  BY <1>1, <1>3
  <2> QED BY <1>6, <2>1
<1>9. IsInjective(list)
  <2>1. ASSUME NEW i \in 1 .. n - 1, NEW j \in 1 .. n - 1, list[i] = list[j] PROVE i = j
    <3>1. s[At(i)] = s[At(j)]  BY <1>8, <2>1
    <3>2. At(i) \in 1 .. n /\ At(j) \in 1 .. n  BY <1>8
    <3> HIDE DEF At
    <3>3. At(i) = At(j)  BY <1>1, <3>1, <3>2 DEF IsInjective
    <3> USE DEF At
    <3> QED BY <1>1, <1>3, <3>3
  <2> QED BY <1>7, <2>1 DEF IsInjective
<1>10. ASSUME NEW y \in Range(list) PROVE y \in Range(s) \ {s[e]}
  <2>1. PICK i \in 1 .. n - 1 : y = list[i]  BY <1>7 DEF Range
  <2>2. At(i) \in 1 .. n /\ At(i) # e /\ y = s[At(i)]  BY <1>8, <2>1
  <2> HIDE DEF At
  <2>3. y \in Range(s)  BY <1>1, <2>2 DEF Range
  <2>4. y # s[e]  BY <1>1, <1>3, <2>2 DEF IsInjective
  <2> QED BY <2>3, <2>4
<1>11. ASSUME NEW i \in 1 .. n, i # e PROVE s[i] \in Range(list)
  <2>1. CASE i < e
    <3>1. i \in 1 .. n - 1  BY <1>1, <1>3, <2>1
    <3>2. list[i] = s[i]  BY <1>6, <2>1, <3>1
    <3> QED BY <1>7, <3>1, <3>2 DEF Range
  <2>2. CASE ~(i < e)
    <3>1. i - 1 \in 1 .. n - 1 /\ ~(i - 1 < e) /\ (i - 1) + 1 = i  BY <1>1, <1>3, <1>11, <2>2
    <3>2. list[i - 1] = s[i]  BY <1>6, <3>1
    <3> QED BY <1>7, <3>1, <3>2 DEF Range
  <2> QED BY <2>1, <2>2
<1> QED BY <1>6, <1>9, <1>10, <1>11 DEF n

(* A list without repetition is as long as it has entries. *)
LEMMA DistinctLen ==
    ASSUME NEW X, NEW s \in Seq(X), IsInjective(s)
    PROVE  Len(s) = Cardinality(Range(s)) /\ IsFiniteSet(Range(s))
<1>1. Len(s) \in Nat /\ DOMAIN s = 1 .. Len(s) /\ s \in [1 .. Len(s) -> X]  BY LenProperties
<1>2. s \in [1 .. Len(s) -> Range(s)]  BY <1>1 DEF Range
<1>3. s \in Bijection(1 .. Len(s), Range(s))
  <2>1. \A i, j \in 1 .. Len(s) : s[i] = s[j] => i = j  BY <1>1 DEF IsInjective
  <2>2. \A x \in Range(s) : \E i \in 1 .. Len(s) : s[i] = x  BY <1>1 DEF Range
  <2> QED BY <1>2, <2>1, <2>2 DEF Bijection, Injection, Surjection, IsInjective
<1>4. ExistsBijection(1 .. Len(s), Range(s))  BY <1>3 DEF ExistsBijection
<1>5. IsFiniteSet(1 .. Len(s)) /\ Cardinality(1 .. Len(s)) = Len(s)
  <2>1. 1 \in Int /\ Len(s) \in Int  BY <1>1
  <2>2. /\ IsFiniteSet(1 .. Len(s))
        /\ Cardinality(1 .. Len(s)) = IF 1 > Len(s) THEN 0 ELSE Len(s) - 1 + 1
    BY <2>1, FS_Interval
  <2> QED BY <1>1, <2>2
<1> QED BY <1>4, <1>5, FS_Bijection

(* The entries of list are those of s and x. *)
OneMore(list, s, x) == \A y : y \in Range(list) <=> y \in Range(s) \/ y = x

(* A list with one more entry. *)
LEMMA Longer ==
    ASSUME NEW X, NEW s \in Seq(X), IsInjective(s), NEW x, x \notin X, NEW list, list = Append(s, x)
    PROVE  /\ list \in Seq(X \cup {x}) /\ IsInjective(list) /\ Len(list) = Len(s) + 1
           /\ OneMore(list, s, x)
<1> DEFINE n == Len(s)
<1>1. n \in Nat /\ DOMAIN s = 1 .. n  BY LenProperties
<1>2. \A i \in 1 .. n : s[i] \in X  BY <1>1, ElementOfSeq
<1>3. s \in Seq(X \cup {x}) /\ x \in X \cup {x}  OBVIOUS
<1>4. /\ list \in Seq(X \cup {x}) /\ Len(list) = n + 1
      /\ (\A i \in 1 .. n : list[i] = s[i]) /\ list[n + 1] = x
  BY <1>3, AppendProperties
<1> HIDE DEF n
<1>5. DOMAIN list = 1 .. n + 1
  <2>1. DOMAIN list = 1 .. Len(list)  BY <1>4, LenProperties
  <2> QED BY <1>4, <2>1
<1>6. \A i \in 1 .. n + 1 : i \in 1 .. n \/ i = n + 1  BY <1>1
<1>7. IsInjective(list)
  <2>1. ASSUME NEW i \in 1 .. n + 1, NEW j \in 1 .. n + 1, list[i] = list[j] PROVE i = j
    <3>1. CASE i \in 1 .. n /\ j \in 1 .. n
      <4>1. s[i] = s[j]  BY <1>4, <2>1, <3>1
      <4> QED BY <1>1, <3>1, <4>1 DEF IsInjective
    <3>2. CASE i \in 1 .. n /\ j = n + 1  BY <1>2, <1>4, <2>1, <3>2
    <3>3. CASE i = n + 1 /\ j \in 1 .. n  BY <1>2, <1>4, <2>1, <3>3
    <3>4. CASE i = n + 1 /\ j = n + 1  BY <3>4
    <3> QED BY <1>6, <3>1, <3>2, <3>3, <3>4
  <2> QED BY <1>5, <2>1 DEF IsInjective
<1>8. ASSUME NEW y PROVE y \in Range(list) <=> y \in Range(s) \/ y = x
  <2>1. \A z : z \in Range(list) <=> \E i \in 1 .. n + 1 : z = list[i]  BY <1>5 DEF Range
  <2>2. \A z : z \in Range(s) <=> \E i \in 1 .. n : z = s[i]  BY <1>1 DEF Range
  <2>3. \A i \in 1 .. n : i \in 1 .. n + 1  BY <1>1
  <2>4. n + 1 \in 1 .. n + 1  BY <1>1
  <2>5. ASSUME y \in Range(list) PROVE y \in Range(s) \/ y = x
    <3>1. PICK i \in 1 .. n + 1 : y = list[i]  BY <2>1, <2>5
    <3> QED BY <1>4, <1>6, <2>2, <3>1
  <2>6. ASSUME y \in Range(s) PROVE y \in Range(list)
    <3>1. PICK i \in 1 .. n : y = s[i]  BY <2>2, <2>6
    <3>2. i \in 1 .. n + 1 /\ y = list[i]  BY <1>4, <2>3, <3>1
    <3> QED BY <2>1, <3>2
  <2>7. x \in Range(list)  BY <1>4, <2>1, <2>4
  <2> QED BY <2>5, <2>6, <2>7
<1> QED BY <1>4, <1>7, <1>8 DEF n, OneMore

-----------------------------------------------------------------------------
(* The arithmetic of locations: loc_sector_no and sector_to_loc. *)

(* A number is made of its quotient and its remainder. *)
LEMMA DivMod ==
    ASSUME NEW a \in Nat, NEW n \in Nat \ {0}
    PROVE  \E q \in Nat, r \in 0 .. n - 1 : q = a \div n /\ r = a % n /\ a = n * q + r
<1> DEFINE q == a \div n
           r == a % n
<1>1. q \in Int
  OBVIOUS
<1>2. r \in 0 .. n - 1
  OBVIOUS
<1>3. r = a - n * q
  OBVIOUS
<1> HIDE DEF q, r
<1>4. a = n * q + r
  <2>1. n * q \in Int
    BY <1>1
  <2>2. QED
    BY <1>2, <1>3, <2>1
<1>5. q >= 0
  BY <1>1, <1>2, <1>4
<1>6. q \in Nat
  BY <1>1, <1>5
<1>7. \E x \in Nat, y \in 0 .. n - 1 : x = q /\ y = r /\ a = n * x + y
  BY <1>2, <1>4, <1>6
<1>8. QED
  BY <1>7 DEF q, r

(* Multiples of n keep the order of their factors. *)
LEMMA FactorOrder ==
    ASSUME NEW n \in Nat \ {0}, NEW x \in Nat, NEW y \in Nat, n * x < n * y
    PROVE  x < y
OBVIOUS

(* ... by at least n. *)
LEMMA FactorStep ==
    ASSUME NEW n \in Nat \ {0}, NEW x \in Nat, NEW y \in Nat, x < y
    PROVE  n * x + n <= n * y
OBVIOUS

(* Quotient and remainder are the only way to make it. *)
LEMMA DivModUnique ==
    ASSUME NEW n \in Nat \ {0}, NEW q \in Nat, NEW s \in 0 .. n - 1
    PROVE  (n * q + s) \div n = q /\ (n * q + s) % n = s
OBVIOUS

-----------------------------------------------------------------------------
(* A heap: a sequence over X in order of d, of which the first cap are kept. *)
IntoHeap(d, heap, n, cap) ==
    LET pushed == InsertAt(heap, 1 + Cardinality({i \in DOMAIN heap : d[heap[i]] <= d[n]}), n)
    IN  SubSeq(pushed, 1, IF Len(pushed) > cap THEN cap ELSE Len(pushed))

(* push_to_heap: n and entries of the heap, at most cap of them.            *)
LEMMA IntoHeapTyped ==
    ASSUME NEW X, NEW d, NEW heap \in Seq(X), NEW n \in X, NEW cap \in Nat,
           NEW pushed, pushed = IntoHeap(d, heap, n, cap)
    PROVE  pushed \in Seq(X) /\ Len(pushed) <= cap
<1> DEFINE before == { i \in DOMAIN heap : d[heap[i]] <= d[n] }
           r == Cardinality(before)
           all == InsertAt(heap, r + 1, n)
<1>1. Len(heap) \in Nat /\ DOMAIN heap = 1 .. Len(heap)  BY LenProperties
<1>2. r \in 0 .. Len(heap)
  <2>1. IsFiniteSet(1 .. Len(heap)) /\ Cardinality(1 .. Len(heap)) = Len(heap)
    <3>1. 1 \in Int /\ Len(heap) \in Int  BY <1>1
    <3>2. IsFiniteSet(1 .. Len(heap))
          /\ Cardinality(1 .. Len(heap)) = IF 1 > Len(heap) THEN 0 ELSE Len(heap) - 1 + 1
      BY <3>1, FS_Interval
    <3> QED BY <3>2, <1>1
  <2>2. before \subseteq 1 .. Len(heap)  BY <1>1
  <2> HIDE DEF before
  <2>3. IsFiniteSet(before) /\ Cardinality(before) <= Cardinality(1 .. Len(heap))
    BY <2>1, <2>2, FS_Subset
  <2>4. Cardinality(before) \in Nat  BY <2>3, FS_CardinalityType
  <2> QED BY <1>1, <2>1, <2>3, <2>4
<1>3. pushed = SubSeq(InsertAt(heap, 1 + r, n), 1,
                      IF Len(InsertAt(heap, 1 + r, n)) > cap THEN cap
                      ELSE Len(InsertAt(heap, 1 + r, n)))
  BY DEF IntoHeap
<1> HIDE DEF before, r
<1>4. 1 + r = r + 1  BY <1>2
<1>5. pushed = SubSeq(all, 1, IF Len(all) > cap THEN cap ELSE Len(all))  BY <1>3, <1>4
<1>6. all \in Seq(X) /\ Len(all) \in Nat
  <2> DEFINE a == SubSeq(heap, 1, (r + 1) - 1)
             b == SubSeq(heap, r + 1, Len(heap))
  <2>1. \A i \in 1 .. Len(heap) : heap[i] \in X  BY <1>1, ElementOfSeq
  <2>2. a \in Seq(X)
    <3>1. (r + 1) - 1 \in Int /\ 1 \in Int  BY <1>2
    <3>2. \A i \in 1 .. (r + 1) - 1 : heap[i] \in X  BY <1>2, <2>1
    <3> QED BY <3>1, <3>2, SubSeqProperties
  <2>3. b \in Seq(X)
    <3>1. r + 1 \in Int /\ Len(heap) \in Int  BY <1>1, <1>2
    <3>2. \A i \in r + 1 .. Len(heap) : heap[i] \in X  BY <1>2, <2>1
    <3> QED BY <3>1, <3>2, SubSeqProperties
  <2>4. <<n>> \in Seq(X)  OBVIOUS
  <2>5. all = a \o <<n>> \o b  BY DEF InsertAt
  <2> HIDE DEF a, b
  <2> HIDE DEF all
  <2>7. a \o <<n>> \in Seq(X)  BY <2>2, <2>4, ConcatProperties
  <2>6. (a \o <<n>>) \o b \in Seq(X)  BY <2>3, <2>7, ConcatProperties
  <2> QED BY <2>5, <2>6, LenProperties
<1> HIDE DEF all
<1>7. (IF Len(all) > cap THEN cap ELSE Len(all)) \in 0 .. Len(all)  BY <1>6
<1>8. pushed \in Seq(X) /\ Len(pushed) = IF Len(all) > cap THEN cap ELSE Len(all)
  BY <1>5, <1>6, <1>7, FirstOnes
<1> QED BY <1>6, <1>8

(* A heap of at most cap ids, nearest first. *)
Heap(X, d, heap, cap) ==
    /\ heap \in Seq(X) /\ Len(heap) <= cap
    /\ \A i, j \in DOMAIN heap : i < j => d[heap[i]] <= d[heap[j]]

(* n is in it, or it is full of ids that are no farther. *)
Ranks(d, heap, cap, n) ==
    n \in ToSet(heap) \/ (Len(heap) = cap /\ d[Last(heap)] <= d[n])

(* The ids of a sorted heap that are no farther than n are its first. *)
LEMMA FirstNearer ==
    ASSUME NEW X, NEW d \in [X -> Int], NEW heap, NEW cap \in Nat, Heap(X, d, heap, cap), NEW n \in X,
           NEW r, r = Cardinality({ i \in DOMAIN heap : d[heap[i]] <= d[n] })
    PROVE  r \in 0 .. Len(heap) /\ \A i \in DOMAIN heap : d[heap[i]] <= d[n] <=> i <= r
<1> DEFINE N == Len(heap)
           before == { i \in DOMAIN heap : d[heap[i]] <= d[n] }
           T == (1 .. N + 1) \ before
<1>1. /\ N \in Nat /\ DOMAIN heap = 1 .. N
      /\ \A i \in 1 .. N : heap[i] \in X /\ d[heap[i]] \in Int
  <2>1. heap \in Seq(X)  BY DEF Heap
  <2>2. N \in Nat /\ DOMAIN heap = 1 .. N /\ \A i \in 1 .. N : heap[i] \in X
    BY <2>1, LenProperties, ElementOfSeq
  <2> HIDE DEF N
  <2> QED BY <2>2
<1>2. d[n] \in Int  OBVIOUS
<1>3. ASSUME NEW j \in before, NEW i \in 1 .. j PROVE i \in before
  <2>1. i \in DOMAIN heap /\ j \in DOMAIN heap  BY <1>1
  <2>2. i = j \/ d[heap[i]] <= d[heap[j]]  BY <2>1 DEF Heap
  <2> HIDE DEF N
  <2> QED BY <1>1, <1>2, <2>1, <2>2
<1>4. before \subseteq 1 .. N  BY <1>1
<1>5. r = Cardinality(before)  OBVIOUS
<1>9. \A i \in DOMAIN heap : d[heap[i]] <= d[n] <=> i \in before  OBVIOUS
<1> HIDE DEF before
<1>6. T \in SUBSET Nat /\ T # {}
  <2>1. N + 1 \in T  BY <1>1, <1>4
  <2> QED BY <2>1, <1>1
<1> HIDE DEF N
<1>7. PICK k \in T : \A l \in T : k <= l
  <2> HIDE DEF T
  <2> QED BY <1>6, LeastNatural
<1>8. before = 1 .. k - 1
  <2>1. k \in 1 .. N + 1 /\ k \notin before  OBVIOUS
  <2>2. ASSUME NEW i \in before PROVE i \in 1 .. k - 1
    <3>1. i \in 1 .. N  BY <1>4
    <3>2. ~(k <= i)
      <4>1. k <= i => k \in 1 .. i  BY <2>1, <3>1, <1>1
      <4> QED BY <4>1, <1>3, <2>1
    <3> QED BY <2>1, <3>1, <3>2, <1>1
  <2>3. ASSUME NEW i \in 1 .. k - 1 PROVE i \in before
    <3>1. i \in 1 .. N + 1 /\ ~(k <= i)  BY <2>1, <1>1
    <3> QED BY <3>1, <1>7
  <2> QED BY <2>2, <2>3
<1>10. r = k - 1
  <2>1. Cardinality(1 .. k - 1) = IF 1 > k - 1 THEN 0 ELSE k - 1 - 1 + 1
    <3>1. 1 \in Int /\ k - 1 \in Int  BY <1>6
    <3> QED BY <3>1, FS_Interval
  <2> QED BY <2>1, <1>1, <1>5, <1>8
<1>11. k - 1 \in 0 .. N  BY <1>1
<1>12. \A i \in DOMAIN heap : d[heap[i]] <= d[n] <=> i <= k - 1  BY <1>1, <1>8, <1>9, <1>11
<1> QED BY <1>10, <1>11, <1>12 DEF N

(* push_to_heap: the heap stays sorted; an id leaves it only when it is     *)
(* full, for ids that are no farther.                                       *)
Pushed(X, d, heap, cap, n, x) ==
    /\ Heap(X, d, x, cap) /\ ToSet(x) \subseteq ToSet(heap) \cup {n}
    /\ Ranks(d, x, cap, n) /\ \A q \in X : Ranks(d, heap, cap, q) => Ranks(d, x, cap, q)
    /\ IsInjective(heap) /\ n \notin ToSet(heap) => IsInjective(x)

LEMMA IntoHeapKeeps ==
    ASSUME NEW X, NEW d \in [X -> Int], NEW heap, NEW cap \in Nat \ {0}, Heap(X, d, heap, cap),
           NEW n \in X, NEW x, x = IntoHeap(d, heap, n, cap)
    PROVE  Pushed(X, d, heap, cap, n, x)
<1> DEFINE N == Len(heap)
           r == Cardinality({ i \in DOMAIN heap : d[heap[i]] <= d[n] })
           m == IF N + 1 > cap THEN cap ELSE N + 1
<1>1. heap \in Seq(X) /\ N <= cap /\ \A i, j \in DOMAIN heap : i < j => d[heap[i]] <= d[heap[j]]
  BY DEF Heap
<1>2. N \in Nat /\ DOMAIN heap = 1 .. N /\ \A i \in 1 .. N : heap[i] \in X /\ d[heap[i]] \in Int
  <2>1. N \in Nat /\ DOMAIN heap = 1 .. N /\ \A i \in 1 .. N : heap[i] \in X
    BY <1>1, LenProperties, ElementOfSeq
  <2> HIDE DEF N
  <2> QED BY <2>1
<1>3. r = Cardinality({ i \in DOMAIN heap : d[heap[i]] <= d[n] })  OBVIOUS
<1>4. x = SubSeq(InsertAt(heap, 1 + r, n), 1,
                 IF Len(InsertAt(heap, 1 + r, n)) > cap THEN cap ELSE Len(InsertAt(heap, 1 + r, n)))
  BY DEF IntoHeap
<1> HIDE DEF r
<1>5. r \in 0 .. N /\ \A i \in 1 .. N : d[heap[i]] <= d[n] <=> i <= r
  <2>1. r \in 0 .. Len(heap) /\ \A i \in DOMAIN heap : d[heap[i]] <= d[n] <=> i <= r
    BY <1>3, FirstNearer
  <2> QED BY <2>1, <1>2
<1>6. Len(InsertAt(heap, r + 1, n)) = N + 1
  <2> DEFINE all == InsertAt(heap, r + 1, n)
  <2>1. all = InsertAt(heap, r + 1, n) /\ r \in 0 .. Len(heap)  BY <1>5
  <2> HIDE DEF all
  <2>2. all \in Seq(X) /\ Larger(heap, r, n, all)  BY <1>1, <2>1, InsertedInside
  <2> QED BY <2>2 DEF Larger, all
<1>7. x = Splice(heap, r, n, m)
  <2>1. 1 + r = r + 1  BY <1>5
  <2> QED BY <1>4, <1>6, <2>1 DEF Splice
<1>8. /\ m \in 0 .. N + 1 /\ m # 0 /\ m <= cap /\ N <= m
      /\ r + 1 <= m \/ (m = cap /\ r = cap /\ N = cap)
      /\ m = N + 1 \/ (m = cap /\ N = cap)
  <2>1. N <= cap /\ cap \in Nat \ {0} /\ N \in Nat /\ r \in 0 .. N  BY <1>1, <1>2, <1>5
  <2>2. CASE N + 1 > cap
    <3>1. N = cap /\ m = cap  BY <2>1, <2>2
    <3> HIDE DEF N, m
    <3> QED BY <2>1, <3>1
  <2>3. CASE ~(N + 1 > cap)
    <3>1. m = N + 1  BY <2>3
    <3> HIDE DEF N, m
    <3> QED BY <2>1, <2>3, <3>1
  <2> QED BY <2>2, <2>3
<1>9. /\ x \in Seq(X) /\ Len(x) = m /\ DOMAIN x = 1 .. m
      /\ \A i \in 1 .. m : x[i] = IF i <= r THEN heap[i] ELSE IF i = r + 1 THEN n ELSE heap[i - 1]
  <2> DEFINE all == InsertAt(heap, r + 1, n)
  <2>1. all = InsertAt(heap, r + 1, n) /\ r \in 0 .. Len(heap) /\ x = SubSeq(all, 1, m)
    BY <1>5, <1>7 DEF Splice
  <2>2. m \in 0 .. N + 1  BY <1>8
  <2> HIDE DEF all, m
  <2>3. all \in Seq(X) /\ Larger(heap, r, n, all)  BY <1>1, <2>1, InsertedInside
  <2>4. /\ m \in 0 .. Len(all)
        /\ \A i \in 1 .. Len(all) : all[i] = IF i <= r THEN heap[i] ELSE IF i = r + 1 THEN n ELSE heap[i - 1]
    BY <2>2, <2>3 DEF Larger
  <2>5. x \in Seq(X) /\ Len(x) = m /\ DOMAIN x = 1 .. m /\ \A i \in 1 .. m : x[i] = all[i]
    BY <2>1, <2>3, <2>4, FirstOnes
  <2>6. \A i \in 1 .. m : i \in 1 .. Len(all)
    <3>1. Len(all) \in Nat  BY <2>3, LenProperties
    <3> QED BY <3>1, <2>4
  <2> QED BY <2>4, <2>5, <2>6
<1>10. d[n] \in Int  OBVIOUS
<1> HIDE DEF m, N
<1>11. \A i \in 1 .. m : i <= r => i \in 1 .. N  BY <1>2, <1>5, <1>8
<1>12. \A i \in 1 .. m : i > r + 1 => i - 1 \in 1 .. N /\ i - 1 > r  BY <1>2, <1>5, <1>8
<1>13. \A i, j \in 1 .. N : i < j => d[heap[i]] <= d[heap[j]]  BY <1>1, <1>2
<1>14. Heap(X, d, x, cap)
  <2> SUFFICES ASSUME NEW i \in 1 .. m, NEW j \in 1 .. m, i < j PROVE d[x[i]] <= d[x[j]]
    BY <1>8, <1>9 DEF Heap
  <2>1. CASE j <= r
    <3>1. x[i] = heap[i] /\ x[j] = heap[j] /\ i \in 1 .. N /\ j \in 1 .. N
      BY <1>5, <1>8, <1>9, <1>11, <2>1
    <3> QED BY <3>1, <1>13
  <2>2. CASE j = r + 1
    <3>1. x[i] = heap[i] /\ x[j] = n /\ i \in 1 .. N /\ i <= r  BY <1>5, <1>8, <1>9, <1>11, <2>2
    <3> QED BY <3>1, <1>5
  <2>3. CASE j > r + 1 /\ i <= r
    <3>1. x[i] = heap[i] /\ x[j] = heap[j - 1] /\ i \in 1 .. N /\ j - 1 \in 1 .. N /\ i < j - 1
      BY <1>5, <1>8, <1>9, <1>11, <1>12, <2>3
    <3> QED BY <3>1, <1>13
  <2>4. CASE j > r + 1 /\ i = r + 1
    <3>1. x[i] = n /\ x[j] = heap[j - 1] /\ j - 1 \in 1 .. N /\ ~(j - 1 <= r)
      BY <1>5, <1>8, <1>9, <1>12, <2>4
    <3>2. ~(d[heap[j - 1]] <= d[n]) /\ d[heap[j - 1]] \in Int  BY <1>2, <1>5, <3>1
    <3> QED BY <1>10, <3>1, <3>2
  <2>5. CASE j > r + 1 /\ i > r + 1
    <3>1. x[i] = heap[i - 1] /\ x[j] = heap[j - 1] /\ i - 1 \in 1 .. N /\ j - 1 \in 1 .. N /\ i - 1 < j - 1
      BY <1>5, <1>8, <1>9, <1>12, <2>5
    <3> QED BY <3>1, <1>13
  <2>6. i \in Int /\ j \in Int /\ r \in Int  BY <1>5
  <2> QED BY <2>1, <2>2, <2>3, <2>4, <2>5, <2>6
<1>15. ToSet(x) \subseteq ToSet(heap) \cup {n}
  <2> SUFFICES ASSUME NEW i \in 1 .. m PROVE x[i] = n \/ \E j \in 1 .. N : x[i] = heap[j]
    <3>1. \A z : z \in ToSet(x) <=> \E i \in 1 .. m : z = x[i]  BY <1>9 DEF ToSet
    <3>2. \A z : z \in ToSet(heap) <=> \E i \in 1 .. N : z = heap[i]  BY <1>2 DEF ToSet
    <3> QED BY <3>1, <3>2
  <2>1. i \in Int /\ r \in Int  BY <1>5
  <2>2. CASE i <= r  BY <1>9, <1>11, <2>2
  <2>3. CASE i = r + 1  BY <1>9, <2>1, <2>3
  <2>4. CASE i > r + 1
    <3>1. ~(i <= r) /\ i # r + 1 /\ i - 1 \in 1 .. N  BY <1>12, <2>1, <2>4
    <3> QED BY <1>9, <3>1
  <2> QED BY <2>1, <2>2, <2>3, <2>4
<1>16. ASSUME N = cap PROVE Len(x) = cap /\ d[Last(x)] <= d[heap[N]]
  <2>1. m = cap /\ Last(x) = x[cap] /\ cap \in 1 .. m /\ cap \in 1 .. N
    <3>1. m = cap  BY <1>1, <1>8, <1>16
    <3> QED BY <3>1, <1>9, <1>16 DEF Last
  <2>2. CASE cap <= r
    <3>1. x[cap] = heap[cap]  BY <1>9, <2>1, <2>2
    <3>2. d[heap[cap]] \in Int  BY <1>2, <2>1
    <3> QED BY <1>9, <1>16, <2>1, <3>1, <3>2
  <2>3. CASE cap = r + 1
    <3>1. x[cap] = n /\ ~(cap <= r)  BY <1>5, <1>9, <2>1, <2>3
    <3>2. ~(d[heap[cap]] <= d[n]) /\ d[heap[cap]] \in Int  BY <1>2, <1>5, <2>1, <3>1
    <3> QED BY <1>9, <1>10, <1>16, <2>1, <3>1, <3>2
  <2>4. CASE cap > r + 1
    <3>1. x[cap] = heap[cap - 1] /\ cap - 1 \in 1 .. N /\ cap - 1 < cap  BY <1>5, <1>9, <1>12, <2>1, <2>4
    <3>2. d[heap[cap - 1]] <= d[heap[cap]]  BY <1>13, <2>1, <3>1
    <3> QED BY <1>9, <1>16, <2>1, <3>1, <3>2
  <2>5. r \in Int  BY <1>5
  <2> QED BY <2>2, <2>3, <2>4, <2>5
<1>17. Ranks(d, x, cap, n)
  <2>1. CASE r + 1 <= m
    <3>1. r + 1 \in 1 .. m /\ ~(r + 1 <= r)  BY <1>5, <2>1
    <3>2. x[r + 1] = n  BY <1>9, <3>1
    <3> QED BY <1>9, <3>1, <3>2 DEF Ranks, ToSet
  <2>2. CASE m = cap /\ r = cap /\ N = cap
    <3>1. Last(x) = x[cap] /\ cap \in 1 .. m /\ cap \in 1 .. N /\ cap <= r
      BY <1>5, <1>9, <2>2 DEF Last
    <3>2. x[cap] = heap[cap] /\ d[heap[cap]] <= d[n]  BY <1>5, <1>9, <3>1
    <3> QED BY <1>9, <2>2, <3>1, <3>2 DEF Ranks
  <2> QED BY <1>8, <2>1, <2>2
<1>18. ASSUME NEW q \in X, Ranks(d, heap, cap, q) PROVE Ranks(d, x, cap, q)
  <2>1. CASE N = cap /\ d[heap[N]] <= d[q]
    <3>1. Len(x) = cap /\ d[Last(x)] <= d[heap[N]]  BY <1>16, <2>1
    <3>2. N \in 1 .. N /\ Last(x) \in X
      <4>1. Last(x) = x[m] /\ m \in 1 .. m  BY <1>8, <1>9 DEF Last
      <4>2. Last(x) \in X  BY <1>9, <4>1, ElementOfSeq
      <4> QED BY <4>2, <1>2, <2>1
    <3>3. d[heap[N]] \in Int /\ d[Last(x)] \in Int /\ d[q] \in Int  BY <1>2, <3>2
    <3> QED BY <2>1, <3>1, <3>3 DEF Ranks
  <2>2. CASE q \in ToSet(heap)
    <3>1. PICK j \in 1 .. N : q = heap[j]  BY <1>2, <2>2 DEF ToSet
    <3>2. CASE j <= r
      <4>1. j \in 1 .. m /\ x[j] = q  BY <1>2, <1>8, <1>9, <3>1, <3>2
      <4> QED BY <1>9, <4>1 DEF Ranks, ToSet
    <3>3. CASE j > r /\ j + 1 <= m
      <4>1. j + 1 \in 1 .. m /\ ~(j + 1 <= r) /\ j + 1 # r + 1 /\ (j + 1) - 1 = j  BY <1>5, <3>3
      <4>2. x[j + 1] = q  BY <1>9, <3>1, <4>1
      <4> QED BY <1>9, <4>1, <4>2 DEF Ranks, ToSet
    <3>4. CASE ~(j + 1 <= m)
      <4>1. j = N /\ N = cap  BY <1>2, <1>8, <3>4
      <4>2. d[heap[N]] <= d[q]  BY <1>2, <3>1, <4>1
      <4> QED BY <2>1, <4>1, <4>2
    <3>5. r \in Int  BY <1>5
    <3> QED BY <3>2, <3>3, <3>4, <3>5
  <2> QED BY <1>18, <2>1, <2>2 DEF Ranks, Last, N
<1>19. ASSUME IsInjective(heap), n \notin ToSet(heap) PROVE IsInjective(x)
  <2>1. \A i, j \in 1 .. N : heap[i] = heap[j] => i = j  BY <1>2, <1>19 DEF IsInjective
  <2>2. \A i \in 1 .. N : heap[i] # n  BY <1>2, <1>19 DEF ToSet
  <2> SUFFICES ASSUME NEW i \in 1 .. m, NEW j \in 1 .. m, x[i] = x[j], i < j PROVE FALSE
    <3>1. ASSUME NEW i \in 1 .. m, NEW j \in 1 .. m, x[i] = x[j] PROVE i = j
      <4>1. ~(i < j) /\ ~(j < i)  BY <3>1
      <4> QED BY <4>1
    <3> QED BY <1>9, <3>1 DEF IsInjective
  <2>3. i \in Int /\ j \in Int /\ r \in Int  BY <1>5
  <2>4. CASE j <= r
    <3>1. x[i] = heap[i] /\ x[j] = heap[j] /\ i \in 1 .. N /\ j \in 1 .. N
      BY <1>9, <1>11, <2>3, <2>4
    <3>2. heap[i] = heap[j]  BY <3>1
    <3> QED BY <2>1, <2>3, <3>1, <3>2
  <2>5. CASE j = r + 1
    <3>1. x[i] = heap[i] /\ x[j] = n /\ i \in 1 .. N  BY <1>9, <1>11, <2>3, <2>5
    <3> QED BY <2>2, <3>1
  <2>6. CASE j > r + 1 /\ i <= r
    <3>1. x[i] = heap[i] /\ x[j] = heap[j - 1] /\ i \in 1 .. N /\ j - 1 \in 1 .. N /\ i < j - 1
      BY <1>9, <1>11, <1>12, <2>3, <2>6
    <3>2. heap[i] = heap[j - 1]  BY <3>1
    <3> QED BY <2>1, <2>3, <3>1, <3>2
  <2>7. CASE j > r + 1 /\ i = r + 1
    <3>1. x[i] = n /\ x[j] = heap[j - 1] /\ j - 1 \in 1 .. N  BY <1>9, <1>12, <2>3, <2>7
    <3> QED BY <2>2, <3>1
  <2>8. CASE j > r + 1 /\ i > r + 1
    <3>1. x[i] = heap[i - 1] /\ x[j] = heap[j - 1] /\ i - 1 \in 1 .. N /\ j - 1 \in 1 .. N /\ i - 1 < j - 1
      BY <1>9, <1>12, <2>3, <2>8
    <3>2. heap[i - 1] = heap[j - 1]  BY <3>1
    <3> QED BY <2>1, <2>3, <3>1, <3>2
  <2> QED BY <2>3, <2>4, <2>5, <2>6, <2>7, <2>8
<1> QED BY <1>14, <1>15, <1>17, <1>18, <1>19 DEF Pushed
=============================================================================
