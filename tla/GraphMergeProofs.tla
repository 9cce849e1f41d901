-------------------------- MODULE GraphMergeProofs --------------------------
(***************************************************************************)
(* Proofs about GraphMerge, for any number of points, threads, sectors and *)
(* deletions, and any distances: the index stays well formed through       *)
(* inserts, merges and rebuilds, and a merge writes every survivor once.   *)
(***************************************************************************)
EXTENDS GraphMerge, PruneProofs

-----------------------------------------------------------------------------
(* The invariant. *)

(* loc2id: every id has one location, and a location one id or none. *)
LocsInv ==
    /\ Cardinality(Locs) \in Nat /\ Locs = 0 .. Cardinality(Locs) - 1
    /\ layout \in [Locs -> DOMAIN tags \cup {None}]
    /\ \A l, k \in LiveLocs : layout[l] = layout[k] => l = k
    /\ \A id \in DOMAIN tags : \E l \in LiveLocs : layout[l] = id

(* The ids are used without gaps, and name the points that are left. *)
IdsInv ==
    /\ Cardinality(DOMAIN tags) \in Nat /\ DOMAIN tags = 0 .. Cardinality(DOMAIN tags) - 1
    /\ tags \in [DOMAIN tags -> 0 .. nextTag - 1] /\ data = tags
    /\ \A a, b \in DOMAIN tags : tags[a] = tags[b] => a = b
    /\ Range(tags) = (0 .. nextTag - 1) \ dropped
    /\ nextTag \in Nat /\ 0 .. nextTag - 1 \subseteq Points
    /\ medoid \in DOMAIN tags
    /\ deleted \subseteq 0 .. nextTag - 1 /\ dropped \subseteq 0 .. nextTag - 1

(* A neighbour list of id. *)
GoodList(id, l) == l \in Seq(DOMAIN tags \ {id}) /\ Len(l) <= R /\ IsInjective(l)

(* A live location holds the record of its id. *)
FileInv ==
    /\ file = [ l \in Locs |-> file[l] ]
    /\ \A l \in LiveLocs :
          /\ file[l] = [point |-> tags[layout[l]], nbrs |-> file[l].nbrs]
          /\ GoodList(layout[l], file[l].nbrs)

IndexInv == LocsInv /\ IdsInv /\ FileInv

(* What m is while a merge runs. *)
MergeFields == {"pc", "kind", "dels", "sector", "todo", "idMap", "nhoods", "npoints",
                "wbuf", "wbId", "used", "out", "newTags", "newData", "header"}

Merging == m.pc \in {"populate", "process", "flush", "install", "stopped"}

MergeShape ==
    /\ m.pc = "idle" => m = Idle
    /\ m.pc = "rebuild" =>
          m = [pc |-> "rebuild", sector |-> m.sector, dels |-> {}] /\ m.sector \in Nat
    /\ Merging => /\ m = [ f \in MergeFields |-> m[f] ]
                  /\ m.kind \in {"final", "stream"} /\ m.dels \subseteq 0 .. nextTag - 1
                  /\ {m.npoints, m.wbId, m.used} \subseteq Nat
    /\ Merging \/ Between

Step == IF m.pc = "populate" THEN PopulateSectors ELSE MergeSectors

Base == m.sector * NodesPerSector

(* The blocks of a chunk: apart from each other and within the chunk. *)
GoodBlocks(todo, lo, hi) ==
    /\ todo \in [1 .. Workers -> [from : Nat, to : Nat]]
    /\ \A w \in 1 .. Workers : lo <= todo[w].from /\ todo[w].from <= todo[w].to /\ todo[w].to <= hi
    /\ \A v, w \in 1 .. Workers : v < w => todo[v].to <= todo[w].from

(* The locations that the loop has left behind. *)
PassedBy(todo, hi) ==
    { l \in 0 .. hi - 1 : \A w \in 1 .. Workers : l < todo[w].from \/ l >= todo[w].to }

ChunkInv ==
    m.pc \in {"populate", "process"} =>
        /\ m.sector \in Nat /\ m.sector % Step = 0 /\ Base <= Cardinality(Locs)
        /\ GoodBlocks(m.todo, Base, ChunkEnd(m.sector, Step))

Passed == PassedBy(m.todo, ChunkEnd(m.sector, Step))

Numbered == { l \in LiveLocs : ~Dead(layout[l]) /\ (m.pc = "populate" => l \in Passed) }

Collected == { l \in LiveLocs : Dead(layout[l]) /\ (m.pc = "populate" => l \in Passed) }

NewId(l) == m.idMap[layout[l]]

(* The survivors passed have the new ids below npoints, one each, those of  *)
(* an earlier chunk the smaller ones.                                       *)
NumbersInv ==
    Merging =>
        /\ m.idMap \in [{ layout[l] : l \in Numbered } -> 0 .. m.npoints - 1]
        /\ \A a, b \in Numbered : NewId(a) = NewId(b) => a = b
        /\ \A x \in 0 .. m.npoints - 1 : \E l \in Numbered : NewId(l) = x
        /\ \A b \in 0 .. Cardinality(Locs), i, j \in Numbered :
              i < b * (PopulateSectors * NodesPerSector) /\ b * (PopulateSectors * NodesPerSector) <= j
                  => NewId(i) < NewId(j)

(* The deleted points passed have left their neighbours. *)
NhoodsInv ==
    Merging =>
        m.nhoods = [ id \in { layout[l] : l \in Collected } |-> Sampled(id) ]

(* Nothing is written before every survivor has a number. *)
UnwrittenInv ==
    m.pc = "populate" =>
        /\ m.wbId = 0 /\ m.used = 0
        /\ m.newTags = << >> /\ m.newData = << >> /\ m.wbuf = << >> /\ m.out = << >>

Writing == m.pc \in {"process", "flush", "install", "stopped"}

Processed == { l \in LiveLocs : ~Dead(layout[l]) /\ (m.pc = "process" => l \in Passed) }

(* The record that the merge writes for the point at l. *)
NewRec(id) ==
    LET nhood == Pruned(id, Repaired(id))
    IN  [point |-> Rec(id).point, nbrs |-> [ i \in DOMAIN nhood |-> m.idMap[nhood[i]] ]]

(* The new tags and PQ codes are those of the processed points.             *)
TagsInv ==
    Writing =>
        /\ m.newTags \in [{ NewId(l) : l \in Processed } -> Points] /\ m.newData = m.newTags
        /\ \A l \in Processed : m.newTags[NewId(l)] = tags[layout[l]]
        /\ m.used = Cardinality({ NewId(l) : l \in Processed })

(* A processed record is in the file or in its slot of the window. *)
WindowInv ==
    Writing => \A l \in Processed :
        IF NewId(l) < m.wbId
        THEN NewId(l) \in DOMAIN m.out /\ m.out[NewId(l)] = NewRec(layout[l])
        ELSE /\ NewId(l) % WindowSize \in DOMAIN m.wbuf
             /\ m.wbuf[NewId(l) % WindowSize] = NewRec(layout[l])

(* The survivors at the locations below b. *)
Early(b) == { l \in LiveLocs : l < b /\ ~Dead(layout[l]) }

(* A chunk starts with less than half a window unwritten. *)
HalvesInv ==
    /\ m.pc = "process" =>
          /\ m.wbId % HalfWindow = 0 /\ m.wbId <= Cardinality(Early(Base))
          /\ Cardinality(Early(Base)) - m.wbId < HalfWindow
    /\ m.pc = "flush" => /\ m.wbId % HalfWindow = 0 \/ m.wbId = m.used
                         /\ m.wbId <= m.used /\ m.used - m.wbId < WindowSize
    /\ m.pc = "install" => m.wbId = m.used

(* The header names where searches may start. *)
HeaderInv ==
    /\ m.pc = "install" =>
          \E n \in EntryPoints : m.header = IF m.kind = "final" THEN m.idMap[n] ELSE n
    /\ m.pc = "stopped" => EntryPoints = {}

MergeInv ==
    /\ IndexInv /\ MergeShape /\ ChunkInv /\ NumbersInv /\ NhoodsInv /\ UnwrittenInv
    /\ TagsInv /\ WindowInv /\ HalvesInv /\ HeaderInv

(* As many units of b as cover a. *)
LEMMA DivUpCovers ==
    ASSUME NEW a \in Nat, NEW b \in Nat \ {0}
    PROVE  /\ DivUp(a, b) \in Nat /\ DivUp(a, b) * b >= a
           /\ DivUp(a, b) > 0 => (DivUp(a, b) - 1) * b < a
<1>1. PICK q \in Nat, r \in 0 .. b - 1 : q = (a + b - 1) \div b /\ a + b - 1 = b * q + r
  <2>1. a + b - 1 \in Nat  OBVIOUS
  <2> QED BY <2>1, DivMod
<1>2. DivUp(a, b) = q  BY <1>1 DEF DivUp
<1>3. q * b = b * q /\ b * q \in Nat /\ (q - 1) * b = b * q - b  OBVIOUS
<1>4. q * b >= a /\ (q - 1) * b < a  BY <1>1, <1>3
<1> QED BY <1>2, <1>4

LEMMA MulMono ==
    ASSUME NEW a \in Nat, NEW b \in Nat, NEW s \in Nat, a <= b
    PROVE  a * s \in Nat /\ b * s \in Nat /\ a * s <= b * s
<1> DEFINE d == b - a
<1>1. d \in Nat /\ b = a + d  OBVIOUS
<1> HIDE DEF d
<1>2. (a + d) * s = a * s + d * s
  <2>1. \A x, y, z \in Int : (x + y) * z = x * z + y * z  OBVIOUS
  <2> QED BY <1>1, <2>1
<1>3. d * s \in Nat /\ a * s \in Nat /\ b * s \in Nat  BY <1>1
<1> QED BY <1>1, <1>2, <1>3

(* Fewer units. *)
LEMMA MulStrict ==
    ASSUME NEW a \in Nat, NEW b \in Nat, NEW s \in Nat \ {0}, a * s < b * s
    PROVE  a < b
<1>1. ASSUME b <= a PROVE FALSE
  <2>1. b * s <= a * s /\ a * s \in Nat /\ b * s \in Nat  BY <1>1, MulMono
  <2> QED BY <2>1
<1> QED BY <1>1

(* Numbers of one remainder are equal or n apart. *)
LEMMA SameSlot ==
    ASSUME NEW n \in Nat \ {0}, NEW x \in Nat, NEW y \in Nat, x % n = y % n,
           NEW low \in Nat, low <= x, low <= y, x < low + n, y < low + n
    PROVE  x = y
<1>1. PICK q \in Nat, r \in 0 .. n - 1 : r = x % n /\ x = n * q + r  BY DivMod
<1>2. PICK p \in Nat, s \in 0 .. n - 1 : s = y % n /\ y = n * p + s  BY DivMod
<1>3. r = s  BY <1>1, <1>2
<1>4. n * q \in Nat /\ n * p \in Nat  OBVIOUS
<1>5. ASSUME q < p PROVE FALSE
  <2>1. n * (q + 1) = n * q + n /\ n * (q + 1) = (q + 1) * n /\ n * p = p * n  OBVIOUS
  <2>2. (q + 1) * n <= p * n  BY <1>5, MulMono
  <2> QED BY <1>1, <1>2, <1>3, <1>4, <2>1, <2>2
<1>6. ASSUME p < q PROVE FALSE
  <2>1. n * (p + 1) = n * p + n /\ n * (p + 1) = (p + 1) * n /\ n * q = q * n  OBVIOUS
  <2>2. (p + 1) * n <= q * n  BY <1>6, MulMono
  <2> QED BY <1>1, <1>2, <1>3, <1>4, <2>1, <2>2
<1>7. p = q  BY <1>5, <1>6
<1> QED BY <1>1, <1>2, <1>3, <1>7

(* The half of the window where a multiple of half its size stands. *)
LEMMA HalfStands ==
    ASSUME NEW h \in Nat \ {0}, NEW k \in Nat, NEW i \in 0 .. h - 1
    PROVE  (((k * h) % (2 * h)) \div h) * h + i = (k * h + i) % (2 * h)
<1>1. PICK q \in Nat, r \in 0 .. 1 : k = 2 * q + r
  <2>1. \E q \in Nat, r \in 0 .. 2 - 1 : q = k \div 2 /\ r = k % 2 /\ k = 2 * q + r  BY DivMod
  <2> QED BY <2>1
<1> DEFINE w == 2 * h
<1>2. k * h = w * q + r * h
  <2>1. (2 * q + r) * h = (2 * q) * h + r * h /\ (2 * q) * h = w * q  OBVIOUS
  <2> QED BY <1>1, <2>1
<1>3. w \in Nat \ {0} /\ r * h \in 0 .. w - 1 /\ r * h + i \in 0 .. w - 1
  BY <1>1
<1>4. k * h + i = w * q + (r * h + i)
  <2>1. w * q \in Nat /\ r * h \in Nat  BY <1>1
  <2> QED BY <1>2, <2>1
<1> HIDE DEF w
<1>5. (k * h) % w = r * h  BY <1>2, <1>3, DivModUnique
<1>6. (k * h + i) % w = r * h + i  BY <1>3, <1>4, DivModUnique
<1>7. (r * h) \div h = r
  <2>1. h * r + 0 = r * h /\ 0 \in 0 .. h - 1  OBVIOUS
  <2>2. (h * r + 0) \div h = r  BY <2>1, DivModUnique
  <2> QED BY <2>1, <2>2
<1>8. (((k * h) % w) \div h) * h + i = (k * h + i) % w  BY <1>5, <1>6, <1>7
<1> QED BY <1>8 DEF w

(* A finite set of numbers without gaps is an interval. *)
LEMMA NoGaps ==
    ASSUME NEW D \in SUBSET Nat, IsFiniteSet(D), \A x \in D : \A y \in 0 .. x : y \in D
    PROVE  Cardinality(D) \in Nat /\ D = 0 .. Cardinality(D) - 1
<1> DEFINE T == { n \in Nat : n \notin D }
<1>1. T # {}
  <2>1. SUFFICES ASSUME D = Nat PROVE FALSE  OBVIOUS
  <2> DEFINE c == Cardinality(D)
  <2>2. c \in Nat  BY FS_CardinalityType
  <2>3. 0 .. c \subseteq D  BY <2>1, <2>2
  <2>4. Cardinality(0 .. c) <= c  BY <2>3, FS_Subset
  <2>5. Cardinality(0 .. c) = c + 1
    <3>1. 0 \in Int /\ c \in Int  BY <2>2
    <3>2. Cardinality(0 .. c) = IF 0 > c THEN 0 ELSE c - 0 + 1  BY <3>1, FS_Interval
    <3> QED BY <2>2, <3>2
  <2> QED BY <2>2, <2>4, <2>5
<1>2. PICK g \in T : \A n \in T : g <= n
  <2> HIDE DEF T
  <2>1. T \in SUBSET Nat  BY DEF T
  <2> QED BY <1>1, <2>1, LeastNatural
<1>3. g \in Nat /\ g \notin D /\ \A n \in Nat : n < g => n \in D  BY <1>2
<1>4. D = 0 .. g - 1
  <2>1. \A x \in D : x < g
    <3> SUFFICES ASSUME NEW x \in D, x >= g PROVE FALSE  BY <1>3
    <3>1. g \in 0 .. x  BY <1>3
    <3> QED BY <3>1, <1>3
  <2>2. \A x \in Nat : x < g => x \in D  BY <1>3
  <2> HIDE DEF T
  <2>3. D \subseteq 0 .. g - 1
    <3>1. \A x \in D : x \in Nat /\ x < g  BY <2>1
    <3> QED BY <1>3, <3>1
  <2>4. 0 .. g - 1 \subseteq D
    <3>1. \A x \in 0 .. g - 1 : x \in Nat /\ x < g  BY <1>3
    <3> QED BY <2>2, <3>1
  <2> QED BY <2>3, <2>4
<1>5. Cardinality(0 .. g - 1) = g
  <2>1. 0 \in Int /\ g - 1 \in Int  BY <1>3
  <2>2. Cardinality(0 .. g - 1) = IF 0 > g - 1 THEN 0 ELSE (g - 1) - 0 + 1  BY <2>1, FS_Interval
  <2> QED BY <1>3, <2>2
<1> QED BY <1>3, <1>4, <1>5

(* The blocks of the threads: in order, apart, and all of the chunk. *)
LEMMA BlocksSplit ==
    ASSUME NEW lo \in Nat, NEW hi \in Nat, lo <= hi, NEW b, b = Blocks(lo, hi)
    PROVE  /\ b \in [1 .. Workers -> [from : Nat, to : Nat]]
           /\ \A w \in 1 .. Workers :
                 lo <= b[w].from /\ b[w].from <= b[w].to /\ b[w].to <= hi
           /\ \A v, w \in 1 .. Workers : v < w => b[v].to <= b[w].from
           /\ \A l \in lo .. hi - 1 : \E w \in 1 .. Workers : b[w].from <= l /\ l < b[w].to
<1> DEFINE s == DivUp(hi - lo, Workers)
           e(w) == IF lo + w * s < hi THEN lo + w * s ELSE hi
<1>1. Workers \in Nat \ {0}  BY MergeAssumption
<1>2. s \in Nat /\ s * Workers >= hi - lo
  <2>1. hi - lo \in Nat  OBVIOUS
  <2> QED BY <1>1, <2>1, DivUpCovers
<1>3. b = [ w \in 1 .. Workers |-> [from |-> e(w - 1), to |-> e(w)] ]  BY DEF Blocks
<1> HIDE DEF s
<1>4. \A w \in Nat : w * s \in Nat  BY <1>2
<1>5. \A w \in Nat : e(w) \in Nat /\ lo <= e(w) /\ e(w) <= hi  BY <1>4
<1>6. \A v, w \in Nat : v <= w => e(v) <= e(w)
  <2> SUFFICES ASSUME NEW v \in Nat, NEW w \in Nat, v <= w PROVE e(v) <= e(w)  OBVIOUS
  <2>1. v * s <= w * s /\ v * s \in Nat /\ w * s \in Nat  BY <1>2, MulMono
  <2> QED BY <2>1
<1>7. e(0) = lo
  <2>1. 0 * s = 0  BY <1>2
  <2> QED BY <2>1
<1>8. e(Workers) = hi
  <2>1. Workers * s = s * Workers /\ Workers * s \in Nat  BY <1>1, <1>2
  <2> QED BY <1>2, <2>1
<1> HIDE DEF e
<1>9. \A w \in 1 .. Workers : w - 1 \in Nat /\ w \in Nat /\ b[w].from = e(w - 1) /\ b[w].to = e(w)
  BY <1>1, <1>3
<1>10. b \in [1 .. Workers -> [from : Nat, to : Nat]]
  <2>1. \A w \in 1 .. Workers : e(w - 1) \in Nat /\ e(w) \in Nat  BY <1>5, <1>9
  <2>2. \A w \in 1 .. Workers : [from |-> e(w - 1), to |-> e(w)] \in [from : Nat, to : Nat]  BY <2>1
  <2> QED BY <1>3, <2>2
<1>11. \A w \in 1 .. Workers : lo <= b[w].from /\ b[w].from <= b[w].to /\ b[w].to <= hi
  BY <1>5, <1>6, <1>9
<1>12. \A v, w \in 1 .. Workers : v < w => b[v].to <= b[w].from
  <2> SUFFICES ASSUME NEW v \in 1 .. Workers, NEW w \in 1 .. Workers, v < w
               PROVE  b[v].to <= b[w].from
    OBVIOUS
  <2>1. v \in Nat /\ w - 1 \in Nat /\ v <= w - 1  OBVIOUS
  <2> QED BY <1>6, <1>9, <2>1
<1>13. ASSUME NEW l \in lo .. hi - 1
       PROVE  \E w \in 1 .. Workers : b[w].from <= l /\ l < b[w].to
  <2> DEFINE T == { w \in Nat : l < e(w) }
  <2>1. Workers \in T  BY <1>1, <1>8
  <2>2. PICK w \in T : \A v \in T : w <= v
    <3> HIDE DEF T
    <3>1. T \in SUBSET Nat  BY DEF T
    <3> QED BY <2>1, <3>1, LeastNatural
  <2>3. w \in Nat /\ l < e(w) /\ w <= Workers  BY <2>1, <2>2
  <2>4. w # 0  BY <2>3, <1>7
  <2>5. w - 1 \in Nat /\ w - 1 \notin T  BY <2>2, <2>3, <2>4
  <2>6. e(w - 1) <= l  BY <2>5, <1>5
  <2> QED BY <1>9, <2>3, <2>4, <2>6
<1> QED BY <1>10, <1>11, <1>12, <1>13

-----------------------------------------------------------------------------
(* The index. *)

(* Ids, locations and records belong together. *)
LEMMA IdsAndLocs ==
    ASSUME IndexInv
    PROVE  /\ IsFiniteSet(Locs) /\ IsFiniteSet(LiveLocs) /\ IsFiniteSet(DOMAIN tags)
           /\ DOMAIN tags \subseteq Nat /\ None \notin DOMAIN tags
           /\ \A l \in LiveLocs :
                 /\ l \in Nat /\ l < Cardinality(Locs) /\ layout[l] \in DOMAIN tags
                 /\ LocOf(layout[l]) = l /\ Rec(layout[l]) = file[l]
           /\ \A id \in DOMAIN tags :
                 /\ LocOf(id) \in LiveLocs /\ layout[LocOf(id)] = id
                 /\ Rec(id) = [point |-> tags[id], nbrs |-> Rec(id).nbrs]
                 /\ GoodList(id, Rec(id).nbrs)
<1> USE DEF IndexInv
<1>1. Cardinality(Locs) \in Nat /\ Locs = 0 .. Cardinality(Locs) - 1  BY DEF LocsInv
<1>2. Cardinality(DOMAIN tags) \in Nat /\ DOMAIN tags = 0 .. Cardinality(DOMAIN tags) - 1
  BY DEF IdsInv
<1>3. IsFiniteSet(Locs)
  <2>1. 0 \in Int /\ Cardinality(Locs) - 1 \in Int  BY <1>1
  <2>2. IsFiniteSet(0 .. Cardinality(Locs) - 1)  BY <2>1, FS_Interval
  <2> QED BY <1>1, <2>2
<1>4. IsFiniteSet(DOMAIN tags)
  <2>1. 0 \in Int /\ Cardinality(DOMAIN tags) - 1 \in Int  BY <1>2
  <2>2. IsFiniteSet(0 .. Cardinality(DOMAIN tags) - 1)  BY <2>1, FS_Interval
  <2> QED BY <1>2, <2>2
<1>5. LiveLocs \subseteq Locs  BY DEF LiveLocs
<1>6. IsFiniteSet(LiveLocs)  BY <1>3, <1>5, FS_Subset
<1>7. DOMAIN tags \subseteq Nat /\ None \notin DOMAIN tags  BY <1>2, MergeAssumption
<1>8. \A l \in LiveLocs : l \in Nat /\ l < Cardinality(Locs) /\ layout[l] \in DOMAIN tags
  <2>1. \A l \in LiveLocs : l \in Nat /\ l < Cardinality(Locs)  BY <1>1, <1>5
  <2>2. \A l \in LiveLocs : layout[l] \in DOMAIN tags \cup {None} /\ layout[l] # None
    BY <1>5 DEF LocsInv, LiveLocs
  <2> QED BY <2>1, <2>2
<1>9. \A id \in DOMAIN tags : LocOf(id) \in LiveLocs /\ layout[LocOf(id)] = id
  BY DEF LocOf, LocsInv
<1>10. \A l \in LiveLocs : LocOf(layout[l]) = l
  BY <1>8, <1>9 DEF LocsInv
<1>11. \A l \in LiveLocs : Rec(layout[l]) = file[l]  BY <1>10 DEF Rec
<1>12. \A id \in DOMAIN tags :
          Rec(id) = [point |-> tags[id], nbrs |-> Rec(id).nbrs] /\ GoodList(id, Rec(id).nbrs)
  BY <1>9 DEF Rec, FileInv
<1> QED BY <1>3, <1>4, <1>6, <1>7, <1>8, <1>9, <1>10, <1>11, <1>12

(* Points have integer distances. *)
LEMMA GapTyped ==
    ASSUME IndexInv, NEW a \in DOMAIN tags, NEW b \in DOMAIN tags
    PROVE  data = tags /\ Gap(data, a, b) \in Nat /\ Gap(data, a, b) = Dist[tags[a], tags[b]]
<1>1. data = tags /\ tags[a] \in Points /\ tags[b] \in Points  BY DEF IndexInv, IdsInv
<1>2. Dist[tags[a], tags[b]] \in Nat  BY <1>1, IndexAssumption
<1> QED BY <1>1, <1>2 DEF Gap

(* What RecordsExact and ListsLive ask is the shape of the index. *)
LEMMA IndexExact ==
    ASSUME IndexInv
    PROVE  RecordsExact /\ ListsLive
<1>1. /\ IsFiniteSet(LiveLocs)
      /\ \A l \in LiveLocs : layout[l] \in DOMAIN tags
      /\ \A id \in DOMAIN tags :
            /\ LocOf(id) \in LiveLocs /\ layout[LocOf(id)] = id
            /\ Rec(id) = [point |-> tags[id], nbrs |-> Rec(id).nbrs]
            /\ GoodList(id, Rec(id).nbrs)
  BY IdsAndLocs
<1>2. { layout[l] : l \in LiveLocs } = DOMAIN tags  BY <1>1
<1>3. Cardinality(LiveLocs) = Cardinality(DOMAIN tags)
  <2> DEFINE f == [ l \in LiveLocs |-> layout[l] ]
  <2>1. f \in [LiveLocs -> DOMAIN tags]  BY <1>1
  <2>2. \A a, b \in LiveLocs : f[a] = f[b] => a = b  BY DEF IndexInv, LocsInv
  <2>3. \A id \in DOMAIN tags : \E l \in LiveLocs : f[l] = id  BY <1>1
  <2> HIDE DEF f
  <2>4. f \in Bijection(LiveLocs, DOMAIN tags)
    BY <2>1, <2>2, <2>3 DEF Bijection, Injection, Surjection, IsInjective
  <2>5. ExistsBijection(LiveLocs, DOMAIN tags)  BY <2>4 DEF ExistsBijection
  <2> QED BY <1>1, <2>5, FS_Bijection
<1>4. \A id \in DOMAIN tags : Rec(id).point = tags[id] /\ data[id] = tags[id]
  <2>1. data = tags  BY DEF IndexInv, IdsInv
  <2> QED BY <1>1, <2>1
<1>5. Range(tags) = (0 .. nextTag - 1) \ dropped  BY DEF IndexInv, IdsInv
<1>6. IsInjective(tags)  BY DEF IndexInv, IdsInv, IsInjective
<1>7. RecordsExact  BY <1>2, <1>3, <1>4, <1>5, <1>6 DEF RecordsExact
<1>8. ASSUME NEW id \in DOMAIN tags
      PROVE  LET l == Rec(id).nbrs IN
             Range(l) \subseteq DOMAIN tags \ {id} /\ Len(l) <= R /\ IsInjective(l)
  <2>1. Rec(id).nbrs \in Seq(DOMAIN tags \ {id}) /\ Len(Rec(id).nbrs) <= R
        /\ IsInjective(Rec(id).nbrs)
    BY <1>1 DEF GoodList
  <2>2. Range(Rec(id).nbrs) \subseteq DOMAIN tags \ {id}  BY <2>1, RangeOfSeq
  <2> QED BY <2>1, <2>2
<1>9. ListsLive  BY <1>8 DEF ListsLive
<1> QED BY <1>7, <1>9

(* What pruning candidates for id returns: distinct ones, at most range, the *)
(* nearest among them, and all of them when they fit.                        *)
PrunedTo(list, id, ids) ==
    /\ list \in Seq(ids) /\ IsInjective(list) /\ Len(list) <= R
    /\ Cardinality(ids) <= R => Range(list) = ids
    /\ Cardinality(ids) > R /\ Filling => Len(list) = IF MaxC < R THEN MaxC ELSE R
    /\ ids # {} => \E k \in Range(list) : \A j \in ids : Gap(data, id, k) <= Gap(data, id, j)

(* Pruning the nearest maxc of more than range candidates. *)
LEMMA CutPruned ==
    ASSUME NEW id, NEW X, NEW pool \in Seq(X), IsInjective(pool), NEW k, NEW list,
           Len(pool) > R /\ k \in 1 .. Len(pool) /\ k <= MaxC /\ (k < MaxC => k = Len(pool)),
           list = prune_neighbors_pq(id, SubSeq(pool, 1, k), data)
    PROVE  /\ list \in Seq(X) /\ IsInjective(list) /\ Len(list) <= R
           /\ pool[1] \in Range(list)
           /\ Filling => Len(list) = IF MaxC < R THEN MaxC ELSE R
<1> DEFINE cut == SubSeq(pool, 1, k)
<1>0. R \in Nat \ {0} /\ MaxC \in Nat \ {0}  BY PruneAssumption
<1> DEFINE n == Len(pool)
<1>1. DOMAIN pool = 1 .. n /\ n \in Nat  BY LenProperties
<1>2. k \in 0 .. n /\ k \in 1 .. n /\ n > R /\ k <= MaxC /\ (k < MaxC => k = n)
  <2>1. k \in 1 .. n /\ n > R /\ k <= MaxC /\ (k < MaxC => k = n)  OBVIOUS
  <2> HIDE DEF n
  <2> QED BY <1>1, <2>1
<1>3. cut \in Seq(X) /\ Len(cut) = k /\ DOMAIN cut = 1 .. k /\ \A i \in 1 .. k : cut[i] = pool[i]
  BY <1>2, FirstOnes
<1>4. list = prune_neighbors_pq(id, cut, data)  OBVIOUS
<1> HIDE DEF cut, n
<1>5. IsInjective(cut)
  <2>1. \A i \in 1 .. k : i \in DOMAIN pool  BY <1>1, <1>2
  <2>2. \A i, j \in DOMAIN pool : pool[i] = pool[j] => i = j  BY DEF IsInjective
  <2>3. \A i, j \in DOMAIN cut : cut[i] = cut[j] => i = j  BY <1>3, <2>1, <2>2
  <2> QED BY <2>3 DEF IsInjective
<1>6. /\ list \in Seq(X) /\ IsInjective(list) /\ Len(list) <= R
      /\ Range(list) \subseteq Range(cut) /\ (cut # << >> => cut[1] \in Range(list))
      /\ Filling => Len(list) = R \/ Range(list) = Range(cut)
  BY <1>3, <1>4, <1>5, PqPruned
<1>7. cut # << >> /\ cut[1] = pool[1]
  <2>1. 1 \in 1 .. k /\ k # 0  BY <1>1, <1>2
  <2> QED BY <2>1, <1>3, EmptySeq
<1>8. Len(cut) = Cardinality(Range(cut)) /\ IsFiniteSet(Range(cut))  BY <1>3, <1>5, DistinctLen
<1>9. Len(list) = Cardinality(Range(list)) /\ Len(list) \in Nat
  <2>1. Len(list) = Cardinality(Range(list)) /\ IsFiniteSet(Range(list))  BY <1>6, DistinctLen
  <2> QED BY <2>1, <1>6, LenProperties
<1>10. Len(list) <= k
  <2>1. Cardinality(Range(list)) <= Cardinality(Range(cut))  BY <1>6, <1>8, FS_Subset
  <2> QED BY <2>1, <1>3, <1>8, <1>9
<1>11. Range(list) = Range(cut) => Len(list) = k  BY <1>3, <1>8, <1>9
<1>12. Filling => Len(list) = R \/ Len(list) = k  BY <1>6, <1>11
<1>13. Len(list) = R \/ Len(list) = k => Len(list) = IF MaxC < R THEN MaxC ELSE R
  <2> DEFINE d == Len(list)
  <2>1. d \in Nat /\ d <= k /\ d <= R  BY <1>1, <1>2, <1>6, <1>9, <1>10
  <2> HIDE DEF d
  <2>2. d = R \/ d = k => d = IF MaxC < R THEN MaxC ELSE R  BY <1>0, <1>1, <1>2, <2>1
  <2> QED BY <2>2 DEF d
<1> QED BY <1>6, <1>7, <1>12, <1>13

LEMMA PrunedExact ==
    ASSUME NEW id, NEW ids, IsFiniteSet(ids), ids \subseteq Int,
           \A n \in ids : Gap(data, id, n) \in Int,
           NEW list, list = Pruned(id, ids)
    PROVE  PrunedTo(list, id, ids)
<1> DEFINE pool == SortedPool(id, ids, data)
           k == IF Len(pool) < MaxC THEN Len(pool) ELSE MaxC
           cut == SubSeq(pool, 1, k)
<1>0. R \in Nat \ {0} /\ MaxC \in Nat \ {0}  BY PruneAssumption
<1>1. /\ Cardinality(ids) \in Nat /\ pool \in Seq(ids) /\ Len(pool) = Cardinality(ids)
      /\ IsInjective(pool) /\ Range(pool) = ids
  BY SortedPoolParts
<1>2. ids # {} => /\ pool # << >> /\ pool[1] \in ids
                  /\ \A n \in ids : Gap(data, id, pool[1]) <= Gap(data, id, n)
  <2>1. ASSUME ids # {}
        PROVE /\ pool # << >> /\ pool[1] \in ids
              /\ \A n \in ids : Gap(data, id, pool[1]) <= Gap(data, id, n)
    <3> HIDE DEF k, cut
    <3>1. ids # {}  BY <2>1
    <3> QED BY <3>1, NearestFirst
  <2> QED BY <2>1
<1>3. list = IF Cardinality(ids) <= R THEN pool ELSE prune_neighbors_pq(id, cut, data)
  BY DEF Pruned
<1> HIDE DEF pool
<1>4. DOMAIN pool = 1 .. Len(pool) /\ Len(pool) \in Nat  BY <1>1, LenProperties
<1>5. CASE Cardinality(ids) <= R
  <2>1. list = pool  BY <1>3, <1>5
  <2>2. ids # {} => pool[1] \in Range(list)  BY <2>1, <1>1, <1>2
  <2> QED BY <1>0, <1>1, <1>2, <1>5, <2>1, <2>2 DEF PrunedTo
<1>6. CASE Cardinality(ids) > R
  <2>1. list = prune_neighbors_pq(id, cut, data)  BY <1>0, <1>1, <1>3, <1>6
  <2>2. k \in 1 .. Len(pool) /\ k <= MaxC /\ (k < MaxC => k = Len(pool)) /\ Len(pool) > R
    BY <1>0, <1>1, <1>4, <1>6
  <2>3. /\ list \in Seq(ids) /\ IsInjective(list) /\ Len(list) <= R
        /\ pool[1] \in Range(list)
        /\ Filling => Len(list) = IF MaxC < R THEN MaxC ELSE R
    <3> HIDE DEF k
    <3> QED BY <1>1, <1>4, <2>1, <2>2, CutPruned
  <2>4. \E n \in Range(list) : \A j \in ids : Gap(data, id, n) <= Gap(data, id, j)
    <3>1. CASE ids # {}  BY <1>2, <2>3, <3>1
    <3>2. CASE ids = {}  BY <2>3, <3>2
    <3> QED BY <3>1, <3>2
  <2>5. ~(Cardinality(ids) <= R)  BY <1>0, <1>1, <1>6
  <2> QED BY <2>3, <2>4, <2>5, <1>6 DEF PrunedTo
<1> QED BY <1>0, <1>1, <1>5, <1>6

(* What a deleted point leaves are surviving neighbours of it, and nothing  *)
(* only if it had none.                                                     *)
LEMMA SampledExact ==
    ASSUME IndexInv, NEW id \in DOMAIN tags, NEW s, s = Sampled(id)
    PROVE  /\ s \in Seq(DOMAIN tags \ {id})
           /\ \A n \in Range(s) : n \in Range(Rec(id).nbrs) /\ n \in DOMAIN tags \ {id} /\ ~Dead(n)
           /\ (\E n \in Range(Rec(id).nbrs) : ~Dead(n)) => s # << >>
           /\ s # << >> => s[1] \in Range(s)
<1> DEFINE nb == Rec(id).nbrs
           X == DOMAIN tags \ {id}
           live == { n \in DOMAIN tags : ~Dead(n) }
           alive == Survivors(nb)
           k == IF Len(alive) < NSampled THEN Len(alive) ELSE NSampled
<1>1. NSampled \in Nat \ {0}  BY MergeAssumption
<1>2. nb \in Seq(X)
  <2>1. GoodList(id, Rec(id).nbrs)  BY IdsAndLocs
  <2> QED BY <2>1 DEF GoodList
<1>3. s = SubSeq(alive, 1, k)  BY DEF Sampled
<1>4. alive = Kept(nb, live)  BY DEF Survivors
<1> HIDE DEF nb, alive
<1>5. alive \in Seq(X \cap live) /\ Range(alive) = Range(nb) \cap live
  <2> HIDE DEF live, X
  <2> QED BY <1>2, <1>4, KeptLists
<1>6. Len(alive) \in Nat /\ (alive = << >> <=> Len(alive) = 0)  BY <1>5, LenProperties, EmptySeq
<1>7. k \in 0 .. Len(alive) /\ (k = 0 <=> Len(alive) = 0)  BY <1>1, <1>6
<1> HIDE DEF k
<1>8. s \in Seq(X \cap live) /\ Len(s) = k /\ DOMAIN s = 1 .. k /\ \A i \in 1 .. k : s[i] = alive[i]
  <2> HIDE DEF live, X
  <2> QED BY <1>3, <1>5, <1>7, FirstOnes
<1>9. Range(s) \subseteq Range(alive)
  <2>1. DOMAIN alive = 1 .. Len(alive)  BY <1>5, LenProperties
  <2>2. \A i \in 1 .. k : i \in 1 .. Len(alive)  BY <1>6, <1>7
  <2> QED BY <1>8, <2>1, <2>2 DEF Range
<1>10. Range(nb) \subseteq X
  <2> HIDE DEF X
  <2> QED BY <1>2, RangeOfSeq
<1>11. s \in Seq(X)
  <2>1. Range(s) \subseteq X \cap live
    <3> HIDE DEF live, X
    <3> QED BY <1>8, RangeOfSeq
  <2>2. s \in Seq(Range(s))
    <3> HIDE DEF live, X
    <3> QED BY <1>8, SeqOfRange
  <2>3. \A i \in 1 .. k : s[i] \in X  BY <1>8, <2>1 DEF Range
  <2>4. s = [ i \in 1 .. k |-> s[i] ]
    <3>1. s \in [1 .. Len(s) -> X \cap live]
      <4> HIDE DEF live, X
      <4> QED BY <1>8, LenProperties
    <3> QED BY <1>8, <3>1
  <2>5. s \in [1 .. k -> X]
    <3> HIDE DEF X
    <3> QED BY <2>3, <2>4
  <2> HIDE DEF X
  <2>6. k \in Nat  BY <1>6, <1>7
  <2> QED BY <2>5, <2>6, IsASeq
<1>12. s = << >> <=> k = 0  BY <1>8, <1>11, EmptySeq
<1>13. s # << >> => s[1] \in Range(s)
  <2>1. k # 0 => 1 \in 1 .. k  BY <1>6, <1>7
  <2> QED BY <2>1, <1>8, <1>12 DEF Range
<1>14. (\E n \in Range(nb) : ~Dead(n)) => s # << >>
  <2> SUFFICES ASSUME NEW n \in Range(nb), ~Dead(n) PROVE s # << >>  OBVIOUS
  <2>1. n \in Range(alive)  BY <1>5, <1>10
  <2>2. alive # << >>
    <3>1. Range(alive) # {}  BY <2>1
    <3>2. DOMAIN alive = 1 .. Len(alive)  BY <1>5, LenProperties
    <3>3. alive = << >> => DOMAIN alive = {}  BY <1>6, <3>2
    <3> QED BY <3>1, <3>3 DEF Range
  <2> QED BY <2>2, <1>6, <1>7, <1>12
<1>15. \A n \in Range(s) : n \in Range(nb) /\ n \in X /\ ~Dead(n)
  <2>1. \A n \in Range(s) : n \in Range(nb) /\ n \in live  BY <1>5, <1>9
  <2> QED BY <2>1, <1>10
<1> QED BY <1>11, <1>13, <1>14, <1>15 DEF nb

(* All deleted points have left their neighbours. *)
AllCollected ==
    m.nhoods = [ id \in { d \in DOMAIN tags : Dead(d) } |-> Sampled(id) ]

LEMMA RepairedExact ==
    ASSUME IndexInv, AllCollected, NEW id \in DOMAIN tags
    PROVE  /\ Repaired(id) = Bridged(id) /\ NhoodsFound(id)
           /\ Bridged(id) \subseteq { n \in DOMAIN tags : ~Dead(n) } \ {id} /\ IsFiniteSet(Bridged(id))
<1>1. /\ IsFiniteSet(DOMAIN tags)
      /\ GoodList(id, Rec(id).nbrs)
  BY IdsAndLocs
<1>2. Range(Rec(id).nbrs) \subseteq DOMAIN tags \ {id}
  <2>1. Rec(id).nbrs \in Seq(DOMAIN tags \ {id})  BY <1>1 DEF GoodList
  <2> QED BY <2>1, RangeOfSeq
<1>3. \A k \in DOMAIN tags : Dead(k) => k \in DOMAIN m.nhoods /\ m.nhoods[k] = Sampled(k)
  BY DEF AllCollected
<1>4. \A k \in DOMAIN tags : \A n \in Range(Sampled(k)) : n \in DOMAIN tags /\ ~Dead(n)
  <2> SUFFICES ASSUME NEW k \in DOMAIN tags
               PROVE  \A n \in Range(Sampled(k)) : n \in DOMAIN tags /\ ~Dead(n)
    OBVIOUS
  <2>1. /\ Sampled(k) \in Seq(DOMAIN tags \ {k})
        /\ \A n \in Range(Sampled(k)) :
              n \in Range(Rec(k).nbrs) /\ n \in DOMAIN tags \ {k} /\ ~Dead(n)
    BY SampledExact
  <2> QED BY <2>1
<1>5. NhoodsFound(id)  BY <1>2, <1>3 DEF NhoodsFound
<1>6. \A n : n \in Repaired(id) <=> n \in Bridged(id)
  <2> DEFINE nb == Range(Rec(id).nbrs)
  <2> HIDE DEF nb
  <2>1. \A n : n \in Repaired(id) <=>
          n # id /\ \E k \in nb : n \in IF Dead(k) THEN Range(m.nhoods[k]) ELSE {k}
    BY DEF Repaired, nb
  <2>2. \A n : n \in Bridged(id) <=>
          /\ n \in DOMAIN tags /\ n # id /\ ~Dead(n)
          /\ \E k \in nb : k = n \/ (Dead(k) /\ n \in Range(Sampled(k)))
    BY DEF Bridged, nb
  <2>3. nb \subseteq DOMAIN tags  BY <1>2 DEF nb
  <2>4. ASSUME NEW n, n # id, NEW k \in nb, n \in IF Dead(k) THEN Range(m.nhoods[k]) ELSE {k}
        PROVE  n \in Bridged(id)
    <3>1. CASE Dead(k)
      <4>1. n \in Range(Sampled(k)) /\ k \in DOMAIN tags  BY <1>3, <2>3, <2>4, <3>1
      <4>2. n \in DOMAIN tags /\ ~Dead(n)  BY <1>4, <4>1
      <4> QED BY <2>2, <2>4, <3>1, <4>1, <4>2
    <3>2. CASE ~Dead(k)
      <4>1. n = k /\ n \in DOMAIN tags /\ ~Dead(n)  BY <2>3, <2>4, <3>2
      <4> QED BY <2>2, <2>4, <4>1
    <3> QED BY <3>1, <3>2
  <2>5. ASSUME NEW n, n # id, n \in DOMAIN tags, ~Dead(n), NEW k \in nb,
               k = n \/ (Dead(k) /\ n \in Range(Sampled(k)))
        PROVE  n \in Repaired(id)
    <3>1. CASE k = n
      <4>1. n \in IF Dead(k) THEN Range(m.nhoods[k]) ELSE {k}  BY <2>5, <3>1
      <4> QED BY <2>1, <2>5, <4>1
    <3>2. CASE Dead(k) /\ n \in Range(Sampled(k))
      <4>1. n \in IF Dead(k) THEN Range(m.nhoods[k]) ELSE {k}  BY <1>3, <2>3, <3>2
      <4> QED BY <2>1, <2>5, <4>1
    <3> QED BY <2>5, <3>1, <3>2
  <2> QED BY <2>1, <2>2, <2>4, <2>5
<1>7. Bridged(id) \subseteq { n \in DOMAIN tags : ~Dead(n) } \ {id}  BY DEF Bridged
<1>8. IsFiniteSet(Bridged(id))
  <2>1. Bridged(id) \subseteq DOMAIN tags  BY <1>7
  <2> QED BY <1>1, <2>1, FS_Subset
<1>9. Repaired(id) = Bridged(id)  BY <1>6, SetExtensionality
<1> QED BY <1>5, <1>7, <1>8, <1>9

(* The list that the merge writes for a survivor. *)
LEMMA NewListExact ==
    ASSUME IndexInv, AllCollected, NEW id \in DOMAIN tags
    PROVE  PrunedTo(Pruned(id, Repaired(id)), id, Bridged(id))
<1> DEFINE ids == Bridged(id)
<1>1. /\ Repaired(id) = ids /\ NhoodsFound(id)
      /\ ids \subseteq { n \in DOMAIN tags : ~Dead(n) } \ {id} /\ IsFiniteSet(ids)
  BY RepairedExact
<1> HIDE DEF ids
<1>2. ids \subseteq Int /\ \A n \in ids : Gap(data, id, n) \in Int
  <2>1. DOMAIN tags \subseteq Nat  BY IdsAndLocs
  <2>2. \A n \in DOMAIN tags : Gap(data, id, n) \in Nat
    <3> SUFFICES ASSUME NEW n \in DOMAIN tags PROVE Gap(data, id, n) \in Nat  OBVIOUS
    <3>1. data = tags /\ Gap(data, id, n) \in Nat /\ Gap(data, id, n) = Dist[tags[id], tags[n]]
      BY GapTyped
    <3> QED BY <3>1
  <2> QED BY <1>1, <2>1, <2>2
<1>3. PrunedTo(Pruned(id, ids), id, ids)  BY <1>1, <1>2, PrunedExact
<1> QED BY <1>1, <1>3 DEF ids

-----------------------------------------------------------------------------
(* The chunks. *)

(* A chunk that starts has passed what lies before it. *)
LEMMA BlocksStart ==
    ASSUME NEW lo \in Nat, NEW hi \in Nat, lo <= hi, NEW todo, todo = Blocks(lo, hi)
    PROVE  GoodBlocks(todo, lo, hi) /\ PassedBy(todo, hi) = 0 .. lo - 1
<1>1. /\ todo \in [1 .. Workers -> [from : Nat, to : Nat]]
      /\ \A w \in 1 .. Workers :
            lo <= todo[w].from /\ todo[w].from <= todo[w].to /\ todo[w].to <= hi
      /\ \A v, w \in 1 .. Workers : v < w => todo[v].to <= todo[w].from
      /\ \A l \in lo .. hi - 1 : \E w \in 1 .. Workers : todo[w].from <= l /\ l < todo[w].to
  BY BlocksSplit
<1>2. GoodBlocks(todo, lo, hi)  BY <1>1 DEF GoodBlocks
<1>3. \A w \in 1 .. Workers : todo[w].from \in Nat /\ todo[w].to \in Nat  BY <1>1
<1>4. \A l \in 0 .. lo - 1 : l \in PassedBy(todo, hi)
  <2> SUFFICES ASSUME NEW l \in 0 .. lo - 1 PROVE l \in PassedBy(todo, hi)  OBVIOUS
  <2>1. l \in 0 .. hi - 1  OBVIOUS
  <2>2. \A w \in 1 .. Workers : l < todo[w].from  BY <1>1, <1>3
  <2> QED BY <2>1, <2>2 DEF PassedBy
<1>5. \A l \in PassedBy(todo, hi) : l \in 0 .. lo - 1
  <2> SUFFICES ASSUME NEW l \in PassedBy(todo, hi), l \notin 0 .. lo - 1 PROVE FALSE  OBVIOUS
  <2>1. l \in 0 .. hi - 1 /\ \A w \in 1 .. Workers : l < todo[w].from \/ l >= todo[w].to
    BY DEF PassedBy
  <2>2. l \in lo .. hi - 1  BY <2>1
  <2>3. PICK w \in 1 .. Workers : todo[w].from <= l /\ l < todo[w].to  BY <1>1, <2>2
  <2>4. l \in Nat /\ todo[w].from \in Nat /\ todo[w].to \in Nat  BY <1>3, <2>1
  <2>5. l < todo[w].from \/ l >= todo[w].to  BY <2>1
  <2> QED BY <2>3, <2>4, <2>5
<1> QED BY <1>2, <1>4, <1>5, SetExtensionality

(* A thread passes the first location that it has left. *)
LEMMA BlocksAdvance ==
    ASSUME NEW lo \in Nat, NEW hi \in Nat, NEW todo, GoodBlocks(todo, lo, hi),
           NEW w \in 1 .. Workers, todo[w].from < todo[w].to,
           NEW next, next = [todo EXCEPT ![w].from = @ + 1]
    PROVE  /\ GoodBlocks(next, lo, hi)
           /\ PassedBy(next, hi) = PassedBy(todo, hi) \cup {todo[w].from}
           /\ todo[w].from \in lo .. hi - 1 /\ todo[w].from \notin PassedBy(todo, hi)
<1> DEFINE at == todo[w].from
<1>1. /\ todo \in [1 .. Workers -> [from : Nat, to : Nat]]
      /\ \A v \in 1 .. Workers : lo <= todo[v].from /\ todo[v].from <= todo[v].to /\ todo[v].to <= hi
      /\ \A u, v \in 1 .. Workers : u < v => todo[u].to <= todo[v].from
  BY DEF GoodBlocks
<1>2. \A v \in 1 .. Workers : todo[v].from \in Nat /\ todo[v].to \in Nat  BY <1>1
<1>3. /\ next \in [1 .. Workers -> [from : Nat, to : Nat]]
      /\ next[w].from = at + 1 /\ next[w].to = todo[w].to
      /\ \A v \in 1 .. Workers \ {w} : next[v] = todo[v]
  BY <1>1, <1>2
<1>4. at \in Nat /\ at < todo[w].to  BY <1>2
<1> HIDE DEF at
<1>5. \A v \in 1 .. Workers : next[v].to = todo[v].to /\ next[v].from = IF v = w THEN at + 1 ELSE todo[v].from
  BY <1>3
<1>6. at = todo[w].from  BY DEF at
<1>7. \A v \in 1 .. Workers : lo <= next[v].from /\ next[v].from <= next[v].to /\ next[v].to <= hi
  BY <1>1, <1>2, <1>4, <1>5, <1>6
<1>8. \A u, v \in 1 .. Workers : u < v => next[u].to <= next[v].from
  BY <1>1, <1>2, <1>4, <1>5, <1>6
<1>9. GoodBlocks(next, lo, hi)  BY <1>3, <1>7, <1>8 DEF GoodBlocks
<1>10. at \in lo .. hi - 1  BY <1>1, <1>2, <1>4, <1>6
<1>11. at \notin PassedBy(todo, hi)  BY <1>4, <1>6, <1>2 DEF PassedBy
<1>12. ASSUME NEW l \in 0 .. hi - 1
       PROVE  (\A v \in 1 .. Workers : l < next[v].from \/ l >= next[v].to)
                <=> l = at \/ (\A v \in 1 .. Workers : l < todo[v].from \/ l >= todo[v].to)
  <2>1. CASE l = at
    <3>1. \A v \in 1 .. Workers : l < next[v].from \/ l >= next[v].to
      <4> SUFFICES ASSUME NEW v \in 1 .. Workers PROVE l < next[v].from \/ l >= next[v].to
        OBVIOUS
      <4>1. CASE v = w  BY <1>4, <1>5, <2>1, <4>1
      <4>2. CASE v < w
        <5>1. todo[v].to <= todo[w].from  BY <1>1, <4>2
        <5> QED BY <1>2, <1>5, <1>6, <2>1, <5>1
      <4>3. CASE w < v
        <5>1. todo[w].to <= todo[v].from /\ v # w  BY <1>1, <4>3
        <5> QED BY <1>2, <1>4, <1>5, <1>6, <2>1, <5>1
      <4> QED BY <4>1, <4>2, <4>3
    <3> QED BY <2>1, <3>1
  <2>2. CASE l # at
    <3>1. \A v \in 1 .. Workers : (l < next[v].from \/ l >= next[v].to)
                                   <=> (l < todo[v].from \/ l >= todo[v].to)
      <4> SUFFICES ASSUME NEW v \in 1 .. Workers
                   PROVE (l < next[v].from \/ l >= next[v].to)
                                   <=> (l < todo[v].from \/ l >= todo[v].to)
        OBVIOUS
      <4>1. l \in Nat /\ todo[v].from \in Nat /\ todo[v].to \in Nat /\ todo[w].from \in Nat  BY <1>2
      <4> QED BY <1>5, <1>6, <2>2, <4>1
    <3> QED BY <2>2, <3>1
  <2> QED BY <2>1, <2>2
<1>13. at \in 0 .. hi - 1  BY <1>10
<1>14. PassedBy(next, hi) = PassedBy(todo, hi) \cup {at}
  <2>1. \A l : l \in PassedBy(next, hi) <=>
                 l \in 0 .. hi - 1 /\ \A v \in 1 .. Workers : l < next[v].from \/ l >= next[v].to
    BY DEF PassedBy
  <2>2. \A l : l \in PassedBy(todo, hi) <=>
                 l \in 0 .. hi - 1 /\ \A v \in 1 .. Workers : l < todo[v].from \/ l >= todo[v].to
    BY DEF PassedBy
  <2>3. \A l : l \in PassedBy(next, hi) <=> l \in PassedBy(todo, hi) \cup {at}
    BY <1>12, <1>13, <2>1, <2>2
  <2> QED BY <2>3, SetExtensionality
<1> QED BY <1>9, <1>10, <1>11, <1>14 DEF at

(* A chunk that is done has passed all it has. *)
LEMMA BlocksDone ==
    ASSUME NEW lo \in Nat, NEW hi \in Nat, NEW todo, GoodBlocks(todo, lo, hi),
           \A w \in 1 .. Workers : todo[w].from = todo[w].to
    PROVE  PassedBy(todo, hi) = 0 .. hi - 1
<1>1. \A w \in 1 .. Workers : todo[w].from \in Nat /\ todo[w].to \in Nat  BY DEF GoodBlocks
<1>2. \A l \in 0 .. hi - 1 : \A w \in 1 .. Workers : l < todo[w].from \/ l >= todo[w].to
  BY <1>1
<1> QED BY <1>2 DEF PassedBy

(* Chunks are whole sectors, and end where the index does. *)
ChunkFrom(sector, step, lo, hi) ==
    /\ lo \in Nat /\ hi \in Nat /\ lo <= hi /\ hi <= Cardinality(Locs)
    /\ hi <= lo + step * NodesPerSector /\ step * NodesPerSector \in Nat \ {0}
    /\ (sector + step) * NodesPerSector = lo + step * NodesPerSector
    /\ hi = Cardinality(Locs) \/ hi = (sector + step) * NodesPerSector
    /\ (sector + step) * NodesPerSector < Cardinality(Locs) => hi = (sector + step) * NodesPerSector
    /\ (sector + step) * NodesPerSector >= Cardinality(Locs) => hi = Cardinality(Locs)

LEMMA ChunkBounds ==
    ASSUME Cardinality(Locs) \in Nat, NEW sector \in Nat, NEW step \in Nat \ {0},
           NEW lo, lo = sector * NodesPerSector, NEW hi, hi = ChunkEnd(sector, step),
           lo <= Cardinality(Locs)
    PROVE  ChunkFrom(sector, step, lo, hi)
<1> DEFINE n == NodesPerSector
           e == (sector + step) * n
           c == Cardinality(Locs)
<1>1. n \in Nat \ {0}  BY MergeAssumption
<1>2. hi = IF e < c THEN e ELSE c  BY DEF ChunkEnd
<1>3. e = lo + step * n
  <2>1. \A x, y, z \in Int : (x + y) * z = x * z + y * z  OBVIOUS
  <2> QED BY <1>1, <2>1
<1>4. step * n \in Nat \ {0}
  <2>1. 1 * n <= step * n /\ step * n \in Nat  BY <1>1, MulMono
  <2>2. 1 * n = n  BY <1>1
  <2> QED BY <1>1, <2>1, <2>2
<1>5. lo \in Nat  BY <1>1
<1> HIDE DEF n, e
<1>6. e \in Nat  BY <1>3, <1>4, <1>5
<1>7. hi \in Nat /\ lo <= hi /\ hi <= c /\ hi <= lo + step * n /\ (hi = c \/ hi = e)
      /\ (e < c => hi = e) /\ (e >= c => hi = c)
  BY <1>2, <1>3, <1>4, <1>5, <1>6
<1> QED BY <1>3, <1>4, <1>5, <1>7 DEF n, e, ChunkFrom

-----------------------------------------------------------------------------
(* Steps that leave the index alone. *)

LEMMA IndexKept ==
    ASSUME IndexInv, UNCHANGED <<indexVars, nextTag, dropped>>, deleted' \subseteq 0 .. nextTag - 1
    PROVE  IndexInv'
<1>1. /\ layout' = layout /\ file' = file /\ tags' = tags /\ data' = data /\ medoid' = medoid
      /\ nextTag' = nextTag /\ dropped' = dropped
  BY DEF indexVars
<1>2. Locs' = Locs /\ LiveLocs' = LiveLocs  BY <1>1 DEF Locs, LiveLocs
<1>3. LocsInv'
  <2>1. LocsInv  BY DEF IndexInv
  <2> QED BY <1>1, <1>2, <2>1 DEF LocsInv
<1>4. IdsInv'
  <2>1. IdsInv  BY DEF IndexInv
  <2> QED BY <1>1, <2>1 DEF IdsInv
<1>5. FileInv'
  <2>1. FileInv  BY DEF IndexInv
  <2> QED BY <1>1, <1>2, <2>1 DEF FileInv, GoodList
<1> QED BY <1>3, <1>4, <1>5 DEF IndexInv

(* What is read of the index stays what it is. *)
SameReads ==
    /\ Locs' = Locs /\ LiveLocs' = LiveLocs /\ layout' = layout /\ tags' = tags /\ data' = data
    /\ medoid' = medoid
    /\ \A id : Rec(id)' = Rec(id) /\ (Dead(id)' <=> Dead(id)) /\ Sampled(id)' = Sampled(id)
    /\ \A b : Early(b)' = Early(b)
    /\ EntryPoints' = EntryPoints

LEMMA ReadsSame ==
    ASSUME UNCHANGED indexVars, m'.dels = m.dels
    PROVE  SameReads
<1>1. /\ layout' = layout /\ file' = file /\ tags' = tags /\ data' = data /\ medoid' = medoid
  BY DEF indexVars
<1>2. Locs' = Locs /\ LiveLocs' = LiveLocs  BY <1>1 DEF Locs, LiveLocs
<1>3. \A id : LocOf(id)' = LocOf(id)  BY <1>1, <1>2 DEF LocOf
<1>4. \A id : Rec(id)' = Rec(id)  BY <1>1, <1>3 DEF Rec
<1>5. \A id : Dead(id)' <=> Dead(id)  BY <1>1 DEF Dead
<1>6. \A list : Survivors(list)' = Survivors(list)
  <2>1. { n \in DOMAIN tags : ~Dead(n) }' = { n \in DOMAIN tags : ~Dead(n) }  BY <1>1, <1>5
  <2> QED BY <2>1 DEF Survivors
<1>7. \A id : Sampled(id)' = Sampled(id)  BY <1>4, <1>6 DEF Sampled
<1>8. \A b : Early(b)' = Early(b)  BY <1>1, <1>2, <1>5 DEF Early
<1>9. EntryPoints' = EntryPoints
  <2>1. Rec(medoid)' = Rec(medoid)  BY <1>1, <1>4
  <2>2. Dead(medoid)' <=> Dead(medoid)  BY <1>1, <1>5
  <2> QED BY <1>1, <1>5, <2>1, <2>2 DEF EntryPoints
<1> QED BY <1>1, <1>2, <1>4, <1>5, <1>7, <1>8, <1>9 DEF SameReads

(* The records to write stay the same. *)
LEMMA NewRecsSame ==
    ASSUME SameReads, m'.nhoods = m.nhoods, m'.idMap = m.idMap
    PROVE  \A id : NewRec(id)' = NewRec(id)
<1> USE DEF SameReads
<1>1. \A id : Repaired(id)' = Repaired(id)
  <2>1. \A id : Range(Rec(id).nbrs)' = Range(Rec(id).nbrs)  OBVIOUS
  <2> QED BY <2>1 DEF Repaired
<1>2. \A id, ids : Pruned(id, ids)' = Pruned(id, ids)  BY DEF Pruned
<1>3. \A id : Pruned(id, Repaired(id))' = Pruned(id, Repaired(id))  BY <1>1, <1>2
<1> QED BY <1>3 DEF NewRec

(* The fields of m. *)
LEMMA FieldSet ==
    ASSUME Merging, MergeShape
    PROVE  /\ m = [ f \in MergeFields |-> m[f] ] /\ DOMAIN m = MergeFields
           /\ m.kind \in {"final", "stream"} /\ m.dels \subseteq 0 .. nextTag - 1
           /\ m.npoints \in Nat /\ m.wbId \in Nat /\ m.used \in Nat
<1>1. m = [ f \in MergeFields |-> m[f] ]  BY DEF MergeShape
<1>2. DOMAIN [ f \in MergeFields |-> m[f] ] = MergeFields  OBVIOUS
<1>3. DOMAIN m = MergeFields  BY <1>1, <1>2
<1> QED BY <1>1, <1>3 DEF MergeShape

LEMMA NumbersStay ==
    ASSUME NumbersInv, SameReads, Merging, Numbered' = Numbered,
           m'.idMap = m.idMap, m'.npoints = m.npoints
    PROVE  NumbersInv'
<1>1. /\ m.idMap \in [{ layout[l] : l \in Numbered } -> 0 .. m.npoints - 1]
      /\ \A a, b \in Numbered : NewId(a) = NewId(b) => a = b
      /\ \A x \in 0 .. m.npoints - 1 : \E l \in Numbered : NewId(l) = x
      /\ \A b \in 0 .. Cardinality(Locs), i, j \in Numbered :
            i < b * (PopulateSectors * NodesPerSector) /\ b * (PopulateSectors * NodesPerSector) <= j
                => NewId(i) < NewId(j)
  BY DEF NumbersInv
<1>2. layout' = layout /\ Locs' = Locs  BY DEF SameReads
<1>3. \A l : NewId(l)' = NewId(l)  BY <1>2 DEF NewId
<1>4. { layout[l] : l \in Numbered }' = { layout[l] : l \in Numbered }  BY <1>2
<1> QED BY <1>1, <1>2, <1>3, <1>4 DEF NumbersInv

LEMMA NhoodsStay ==
    ASSUME NhoodsInv, SameReads, Merging, Collected' = Collected, m'.nhoods = m.nhoods
    PROVE  NhoodsInv'
<1>1. m.nhoods = [ id \in { layout[l] : l \in Collected } |-> Sampled(id) ]  BY DEF NhoodsInv
<1>2. layout' = layout /\ \A id : Sampled(id)' = Sampled(id)  BY DEF SameReads
<1>3. { layout[l] : l \in Collected }' = { layout[l] : l \in Collected }  BY <1>2
<1> QED BY <1>1, <1>2, <1>3 DEF NhoodsInv

(* The survivors' and the dead ones' part of the passed locations. *)
LEMMA PartsSame ==
    ASSUME SameReads, Merging, m.pc = "populate" <=> m'.pc = "populate",
           m.pc = "populate" => \A l \in LiveLocs : l \in Passed' <=> l \in Passed
    PROVE  Numbered' = Numbered /\ Collected' = Collected
<1>1. LiveLocs' = LiveLocs /\ layout' = layout /\ \A id : Dead(id)' <=> Dead(id)  BY DEF SameReads
<1>2. \A l \in LiveLocs : Dead(layout[l])' <=> Dead(layout[l])  BY <1>1
<1>3. \A l : l \in Numbered' <=> l \in Numbered  BY <1>1, <1>2 DEF Numbered
<1>4. \A l : l \in Collected' <=> l \in Collected  BY <1>1, <1>2 DEF Collected
<1> QED BY <1>3, <1>4, SetExtensionality

-----------------------------------------------------------------------------
(* Numbering. *)

(* The location that Populate passes. *)
LEMMA PopulateChunk ==
    ASSUME MergeInv, NEW w \in 1 .. Workers, Populate(w), NEW at, at = m.todo[w].from
    PROVE  /\ m.pc = "populate" /\ at < m.todo[w].to /\ at \in Locs /\ at \notin Passed
           /\ Base \in Nat /\ Base <= at /\ at < ChunkEnd(m.sector, PopulateSectors)
           /\ ChunkEnd(m.sector, PopulateSectors) \in Nat
           /\ ChunkEnd(m.sector, PopulateSectors) <= Base + PopulateSectors * NodesPerSector
           /\ UNCHANGED <<indexVars, nextTag, deleted, dropped>>
           /\ m'.todo = Advance(w) /\ m'.sector = m.sector /\ m'.pc = m.pc /\ m'.dels = m.dels =>
                /\ Passed' = Passed \cup {at} /\ ChunkInv' /\ SameReads /\ IndexInv'
                /\ Base' = Base /\ Step' = Step
<1> USE DEF MergeInv
<1>1. m.pc = "populate" /\ at < m.todo[w].to /\ UNCHANGED <<indexVars, nextTag, deleted, dropped>>
  BY Zenon DEF Populate
<1>2. Step = PopulateSectors /\ PopulateSectors \in Nat \ {0}
  BY <1>1, MergeAssumption DEF Step
<1>3. /\ m.sector \in Nat /\ m.sector % PopulateSectors = 0 /\ Base <= Cardinality(Locs)
      /\ GoodBlocks(m.todo, Base, ChunkEnd(m.sector, PopulateSectors))
  BY <1>1, <1>2 DEF ChunkInv
<1>4. Cardinality(Locs) \in Nat /\ Locs = 0 .. Cardinality(Locs) - 1  BY DEF IndexInv, LocsInv
<1> DEFINE lo == Base
           hi == ChunkEnd(m.sector, PopulateSectors)
<1>5. /\ lo \in Nat /\ hi \in Nat /\ lo <= hi /\ hi <= Cardinality(Locs)
      /\ hi <= lo + PopulateSectors * NodesPerSector
  <2>1. lo = m.sector * NodesPerSector  BY DEF Base
  <2> HIDE DEF lo, hi
  <2>2. hi = ChunkEnd(m.sector, PopulateSectors) /\ lo <= Cardinality(Locs)  BY <1>3 DEF lo, hi
  <2>3. ChunkFrom(m.sector, PopulateSectors, lo, hi)  BY <1>2, <1>3, <1>4, <2>1, <2>2, ChunkBounds
  <2> QED BY <2>3 DEF ChunkFrom
<1>6. Passed = PassedBy(m.todo, hi)  BY <1>2 DEF Passed
<1> DEFINE next == [m.todo EXCEPT ![w].from = @ + 1]
<1>7. GoodBlocks(m.todo, lo, hi)  BY <1>3
<1>8. lo = Base /\ hi = ChunkEnd(m.sector, PopulateSectors)  OBVIOUS
<1> HIDE DEF lo, hi
<1>9. /\ GoodBlocks(next, lo, hi)
      /\ PassedBy(next, hi) = PassedBy(m.todo, hi) \cup {m.todo[w].from}
      /\ m.todo[w].from \in lo .. hi - 1 /\ m.todo[w].from \notin PassedBy(m.todo, hi)
  <2>1. m.todo[w].from < m.todo[w].to  BY <1>1
  <2> HIDE DEF next
  <2>2. next = [m.todo EXCEPT ![w].from = @ + 1]  BY DEF next
  <2> QED BY <1>5, <1>7, <2>1, <2>2, BlocksAdvance
<1>10. at \in lo .. hi - 1 /\ at \notin Passed  BY <1>6, <1>9
<1>11. at \in Locs  BY <1>4, <1>5, <1>10
<1>12. ASSUME m'.todo = Advance(w), m'.sector = m.sector, m'.pc = m.pc, m'.dels = m.dels
       PROVE  /\ Passed' = Passed \cup {at} /\ ChunkInv' /\ SameReads /\ IndexInv'
              /\ Base' = Base /\ Step' = Step
  <2>1. SameReads  BY <1>1, <1>12, ReadsSame
  <2>2. IndexInv'
    <3>1. deleted' \subseteq 0 .. nextTag - 1  BY <1>1 DEF IndexInv, IdsInv
    <3> QED BY <1>1, <3>1, IndexKept
  <2>3. Locs' = Locs  BY <2>1 DEF SameReads
  <2>4. Base' = Base /\ Step' = Step  BY <1>12 DEF Base, Step
  <2>5. ChunkEnd(m.sector, PopulateSectors)' = hi  BY <1>8, <1>12, <2>3 DEF ChunkEnd
  <2>6. m'.todo = next  BY <1>12 DEF Advance
  <2>7. Passed' = PassedBy(next, hi)
    <3>1. Passed' = PassedBy(m'.todo, ChunkEnd(m.sector, PopulateSectors)')
      BY <2>4, <1>2 DEF Passed, PassedBy
    <3> QED BY <2>5, <2>6, <3>1
  <2>8. ChunkInv'
    <3>1. m'.sector \in Nat /\ m'.sector % PopulateSectors = 0 /\ Base' <= Cardinality(Locs')
      BY <1>3, <1>12, <2>3, <2>4
    <3>2. GoodBlocks(m'.todo, Base', ChunkEnd(m.sector, PopulateSectors)')
      BY <1>8, <1>9, <2>4, <2>5, <2>6
    <3> QED BY <1>2, <2>4, <3>1, <3>2 DEF ChunkInv, GoodBlocks
  <2> QED BY <1>6, <1>9, <2>1, <2>2, <2>4, <2>7, <2>8
<1> QED BY <1>1, <1>5, <1>8, <1>10, <1>11, <1>12

(* A step of the first pass that touches only the numbers and the lists of  *)
(* the deleted.                                                             *)
PopulateFields(w) ==
    /\ m' = [ f \in MergeFields |-> m'[f] ] /\ m'.pc = m.pc /\ m'.kind = m.kind /\ m'.dels = m.dels
    /\ m'.sector = m.sector /\ m'.todo = Advance(w)
    /\ m'.wbuf = m.wbuf /\ m'.wbId = m.wbId /\ m'.used = m.used /\ m'.out = m.out
    /\ m'.newTags = m.newTags /\ m'.newData = m.newData /\ m'.header = m.header

(* Its three cases. *)
LEMMA PopulateCases ==
    ASSUME MergeInv, NEW w \in 1 .. Workers, Populate(w), NEW id, id = layout[m.todo[w].from]
    PROVE  /\ PopulateFields(w) /\ Merging /\ m.npoints \in Nat
           /\ \/ /\ id = None
                 /\ m'.idMap = m.idMap /\ m'.npoints = m.npoints /\ m'.nhoods = m.nhoods
              \/ /\ id # None /\ ~Dead(id) /\ m'.npoints = m.npoints + 1
                 /\ m'.idMap = With(m.idMap, id, m.npoints) /\ m'.nhoods = m.nhoods
              \/ /\ id # None /\ Dead(id) /\ m'.npoints = m.npoints /\ m'.idMap = m.idMap
                 /\ m'.nhoods = With(m.nhoods, id, Sampled(id))
<1> USE DEF MergeInv
<1>1. m.pc = "populate"  BY Zenon DEF Populate
<1>2. Merging  BY <1>1 DEF Merging
<1>3. DOMAIN m = MergeFields /\ m = [ f \in MergeFields |-> m[f] ] /\ m.npoints \in Nat
  BY <1>2, FieldSet
<1>4. m' = IF id = None THEN [m EXCEPT !.todo = Advance(w)]
           ELSE IF ~Dead(id)
           THEN [m EXCEPT !.todo = Advance(w), !.npoints = @ + 1, !.idMap = With(@, id, m.npoints)]
           ELSE [m EXCEPT !.todo = Advance(w), !.nhoods = With(@, id, Sampled(id))]
  BY Zenon DEF Populate
<1>5. CASE id = None
  <2>1. m' = [m EXCEPT !.todo = Advance(w)]  BY <1>4, <1>5
  <2> QED BY <1>2, <1>3, <1>5, <2>1 DEF MergeFields, PopulateFields
<1>6. CASE id # None /\ ~Dead(id)
  <2>1. m' = [m EXCEPT !.todo = Advance(w), !.npoints = @ + 1, !.idMap = With(@, id, m.npoints)]
    BY <1>4, <1>6
  <2> QED BY <1>2, <1>3, <1>6, <2>1 DEF MergeFields, PopulateFields
<1>7. CASE id # None /\ Dead(id)
  <2>1. m' = [m EXCEPT !.todo = Advance(w), !.nhoods = With(@, id, Sampled(id))]
    BY <1>4, <1>7
  <2> QED BY <1>2, <1>3, <1>7, <2>1 DEF MergeFields, PopulateFields
<1> QED BY <1>5, <1>6, <1>7

(* An earlier chunk ends before a later one starts. *)
LEMMA ChunkEdge ==
    ASSUME NEW sector \in Nat, NEW step \in Nat \ {0}, sector % step = 0, NEW n \in Nat \ {0},
           NEW b \in Nat, sector * n < b * (step * n)
    PROVE  sector * n + step * n <= b * (step * n)
<1>1. PICK q \in Nat, r \in 0 .. step - 1 : r = sector % step /\ sector = step * q + r  BY DivMod
<1>2. sector = q * step  BY <1>1
<1> DEFINE k == step * n
<1>3. k \in Nat \ {0}
  <2>1. 1 * n <= step * n /\ step * n \in Nat  BY MulMono
  <2> QED BY <2>1
<1>4. sector * n = q * k
  <2>1. \A x, y, z \in Int : (x * y) * z = x * (y * z)  OBVIOUS
  <2> QED BY <1>2, <2>1
<1> HIDE DEF k
<1>5. q < b  BY <1>3, <1>4, MulStrict DEF k
<1>6. (q + 1) * k <= b * k  BY <1>3, <1>5, MulMono
<1>7. (q + 1) * k = q * k + k
  <2>1. \A x, y, z \in Int : (x + y) * z = x * z + y * z  OBVIOUS
  <2>2. 1 * k = k  BY <1>3
  <2>3. q \in Int /\ 1 \in Int /\ k \in Int  BY <1>3
  <2>4. (q + 1) * k = q * k + 1 * k  BY <2>1, <2>3
  <2> QED BY <2>2, <2>4
<1> QED BY <1>4, <1>6, <1>7 DEF k

(* The next number goes to the survivor that is passed. *)
LEMMA NumbersGrow ==
    ASSUME MergeInv, m.pc = "populate", SameReads, NEW at \in LiveLocs, at \notin Numbered,
           Numbered' = Numbered \cup {at}, m'.npoints = m.npoints + 1, m.npoints \in Nat,
           m'.idMap = With(m.idMap, layout[at], m.npoints),
           \A b \in 0 .. Cardinality(Locs), j \in Numbered :
              at < b * (PopulateSectors * NodesPerSector) => ~(b * (PopulateSectors * NodesPerSector) <= j)
    PROVE  NumbersInv'
<1> USE DEF MergeInv
<1> DEFINE id == layout[at]
           np == m.npoints
           k == PopulateSectors * NodesPerSector
<1>1. Merging  BY DEF Merging
<1>2. /\ m.idMap \in [{ layout[l] : l \in Numbered } -> 0 .. np - 1]
      /\ \A a, b \in Numbered : NewId(a) = NewId(b) => a = b
      /\ \A x \in 0 .. np - 1 : \E l \in Numbered : NewId(l) = x
      /\ \A b \in 0 .. Cardinality(Locs), i, j \in Numbered : i < b * k /\ b * k <= j => NewId(i) < NewId(j)
  BY <1>1 DEF NumbersInv
<1>3. layout' = layout /\ Locs' = Locs /\ LiveLocs' = LiveLocs  BY DEF SameReads
<1>4. Numbered \subseteq LiveLocs  BY DEF Numbered
<1>5. \A a, b \in LiveLocs : layout[a] = layout[b] => a = b  BY DEF IndexInv, LocsInv
<1>6. \A l \in Numbered : layout[l] # id /\ layout[l] \in DOMAIN m.idMap /\ NewId(l) \in 0 .. np - 1
  <2>1. \A l \in Numbered : layout[l] # id  BY <1>4, <1>5
  <2>2. \A l \in Numbered : layout[l] \in { layout[i] : i \in Numbered }  OBVIOUS
  <2>3. DOMAIN m.idMap = { layout[l] : l \in Numbered }  BY <1>2
  <2>4. \A l \in Numbered : NewId(l) \in 0 .. np - 1  BY <1>2, <2>2 DEF NewId
  <2> QED BY <2>1, <2>2, <2>3, <2>4
<1>7. m'.idMap = [ x \in DOMAIN m.idMap \cup {id} |-> IF x = id THEN np ELSE m.idMap[x] ]
  BY DEF With
<1>8. m'.npoints = np + 1 /\ np \in Nat  OBVIOUS
<1>9. NewId(at)' = np  BY <1>3, <1>7 DEF NewId
<1>10. \A l \in Numbered : NewId(l)' = NewId(l)  BY <1>3, <1>6, <1>7 DEF NewId
<1>11. { layout[l] : l \in Numbered }' = { layout[l] : l \in Numbered } \cup {id}  BY <1>3
<1> HIDE DEF id, np, k
<1>12. m'.idMap \in [{ layout[l] : l \in Numbered }' -> 0 .. m'.npoints - 1]
  <2>1. DOMAIN m.idMap = { layout[l] : l \in Numbered }  BY <1>2
  <2>2. \A x \in DOMAIN m.idMap : m.idMap[x] \in 0 .. np  BY <1>2, <1>8
  <2>3. m'.npoints - 1 = np /\ np \in 0 .. np  BY <1>8
  <2>4. \A x \in DOMAIN m.idMap \cup {id} : (IF x = id THEN np ELSE m.idMap[x]) \in 0 .. np
    BY <2>2, <2>3
  <2> QED BY <1>7, <1>11, <2>1, <2>3, <2>4
<1>13. \A a, b \in Numbered' : NewId(a)' = NewId(b)' => a = b
  <2>1. \A l \in Numbered : NewId(l) # np  BY <1>6, <1>8
  <2> QED BY <1>2, <1>9, <1>10, <2>1
<1>14. \A x \in 0 .. m'.npoints - 1 : \E l \in Numbered' : NewId(l)' = x
  <2> SUFFICES ASSUME NEW x \in 0 .. m'.npoints - 1 PROVE \E l \in Numbered' : NewId(l)' = x
    OBVIOUS
  <2>1. CASE x = np  BY <1>9, <2>1
  <2>2. CASE x # np
    <3>1. x \in 0 .. np - 1  BY <1>8, <2>2
    <3> QED BY <1>2, <1>10, <3>1
  <2> QED BY <2>1, <2>2
<1>15. \A b \in 0 .. Cardinality(Locs'), i, j \in Numbered' : i < b * k /\ b * k <= j => NewId(i)' < NewId(j)'
  <2> SUFFICES ASSUME NEW b \in 0 .. Cardinality(Locs), NEW i \in Numbered', NEW j \in Numbered',
                      i < b * k, b * k <= j
               PROVE  NewId(i)' < NewId(j)'
    BY <1>3
  <2>1. CASE i \in Numbered /\ j \in Numbered  BY <1>2, <1>10, <2>1
  <2>2. CASE i = at /\ j \in Numbered  BY <2>2 DEF k
  <2>3. CASE i \in Numbered /\ j = at
    <3>1. NewId(i)' \in 0 .. np - 1  BY <1>6, <1>10, <2>3
    <3> QED BY <1>8, <1>9, <2>3, <3>1
  <2>4. CASE i = at /\ j = at
    <3>1. at \in Nat /\ b * k \in Nat
      <4>1. PopulateSectors \in Nat /\ NodesPerSector \in Nat  BY MergeAssumption
      <4>2. k \in Nat  BY <4>1 DEF k
      <4>3. Locs = 0 .. Cardinality(Locs) - 1 /\ Cardinality(Locs) \in Nat  BY DEF IndexInv, LocsInv
      <4>4. at \in Nat  BY <4>3 DEF LiveLocs
      <4> QED BY <4>2, <4>3, <4>4
    <3> QED BY <2>4, <3>1
  <2> QED BY <2>1, <2>2, <2>3, <2>4
<1> QED BY <1>12, <1>13, <1>14, <1>15 DEF NumbersInv, k

(* The lists of the deleted points grow. *)
LEMMA NhoodsGrow ==
    ASSUME MergeInv, m.pc = "populate", SameReads, NEW at \in LiveLocs,
           Collected' = Collected \cup {at},
           m'.nhoods = With(m.nhoods, layout[at], Sampled(layout[at]))
    PROVE  NhoodsInv'
<1> USE DEF MergeInv
<1>1. Merging  BY DEF Merging
<1>2. m.nhoods = [ id \in { layout[l] : l \in Collected } |-> Sampled(id) ]  BY <1>1 DEF NhoodsInv
<1>3. layout' = layout /\ \A id : Sampled(id)' = Sampled(id)  BY DEF SameReads
<1> DEFINE D == { layout[l] : l \in Collected }
<1>4. { layout[l] : l \in Collected }' = D \cup {layout[at]}  BY <1>3
<1>5. m'.nhoods = [ x \in D \cup {layout[at]} |-> Sampled(x) ]
  <2>1. DOMAIN m.nhoods = D /\ \A x \in D : m.nhoods[x] = Sampled(x)  BY <1>2
  <2> HIDE DEF D
  <2>2. m'.nhoods = [ x \in D \cup {layout[at]} |->
                        IF x = layout[at] THEN Sampled(layout[at]) ELSE m.nhoods[x] ]
    BY <2>1 DEF With
  <2>3. \A x \in D \cup {layout[at]} :
          (IF x = layout[at] THEN Sampled(layout[at]) ELSE m.nhoods[x]) = Sampled(x)
    BY <2>1
  <2> QED BY <2>2, <2>3
<1> HIDE DEF D
<1>6. \A x \in D \cup {layout[at]} : Sampled(x)' = Sampled(x)  BY <1>3
<1>7. m'.nhoods = [ x \in D \cup {layout[at]} |-> Sampled(x)' ]  BY <1>5, <1>6
<1>8. NhoodsInv' = (Merging' => m'.nhoods = [ id \in { layout[l] : l \in Collected }' |-> Sampled(id)' ])
  BY DEF NhoodsInv
<1> QED BY <1>4, <1>7, <1>8

LEMMA PopulateKeeps ==
    ASSUME MergeInv, NEW w \in 1 .. Workers, Populate(w)
    PROVE  MergeInv'
<1> DEFINE at == m.todo[w].from
           id == layout[at]
           k == PopulateSectors * NodesPerSector
           hi == ChunkEnd(m.sector, PopulateSectors)
<1>1. /\ m.pc = "populate" /\ at < m.todo[w].to /\ at \in Locs /\ at \notin Passed
      /\ Base \in Nat /\ Base <= at /\ at < hi /\ hi \in Nat /\ hi <= Base + k
      /\ UNCHANGED <<indexVars, nextTag, deleted, dropped>>
      /\ m'.todo = Advance(w) /\ m'.sector = m.sector /\ m'.pc = m.pc /\ m'.dels = m.dels =>
           /\ Passed' = Passed \cup {at} /\ ChunkInv' /\ SameReads /\ IndexInv'
           /\ Base' = Base /\ Step' = Step
  BY PopulateChunk
<1>2. /\ PopulateFields(w) /\ Merging /\ m.npoints \in Nat
      /\ \/ /\ id = None
            /\ m'.idMap = m.idMap /\ m'.npoints = m.npoints /\ m'.nhoods = m.nhoods
         \/ /\ id # None /\ ~Dead(id) /\ m'.npoints = m.npoints + 1
            /\ m'.idMap = With(m.idMap, id, m.npoints) /\ m'.nhoods = m.nhoods
         \/ /\ id # None /\ Dead(id) /\ m'.npoints = m.npoints /\ m'.idMap = m.idMap
            /\ m'.nhoods = With(m.nhoods, id, Sampled(id))
  BY PopulateCases
<1>3. Passed' = Passed \cup {at} /\ ChunkInv' /\ SameReads /\ IndexInv'
  BY <1>1, <1>2 DEF PopulateFields
<1>4. m'.pc = "populate" /\ Merging'  BY <1>1, <1>2 DEF PopulateFields, Merging
<1>5. LiveLocs' = LiveLocs /\ layout' = layout /\ \A x : Dead(x)' <=> Dead(x)  BY <1>3 DEF SameReads
<1>6. \A l \in LiveLocs : Dead(layout[l])' <=> Dead(layout[l])  BY <1>5
<1>7. MergeShape'
  <2>1. m'.kind \in {"final", "stream"} /\ m'.dels \subseteq 0 .. nextTag' - 1 /\ m'.npoints \in Nat
        /\ m'.wbId \in Nat /\ m'.used \in Nat
    <3>1. /\ m = [ f \in MergeFields |-> m[f] ] /\ DOMAIN m = MergeFields
          /\ m.kind \in {"final", "stream"} /\ m.dels \subseteq 0 .. nextTag - 1
          /\ m.npoints \in Nat /\ m.wbId \in Nat /\ m.used \in Nat
      BY <1>2, FieldSet DEF MergeInv
    <3>2. nextTag' = nextTag  BY <1>1
    <3> QED BY <1>2, <3>1, <3>2 DEF PopulateFields
  <2>2. nextTag' = nextTag  BY <1>1
  <2> QED BY <1>2, <1>4, <2>1, <2>2 DEF MergeShape, PopulateFields
<1>8. UnwrittenInv'
  BY <1>1, <1>2 DEF MergeInv, UnwrittenInv, PopulateFields
<1>9. TagsInv' /\ WindowInv' /\ HalvesInv' /\ HeaderInv'
  BY <1>4 DEF TagsInv, WindowInv, HalvesInv, HeaderInv, Writing
<1>10. NumbersInv /\ NhoodsInv  BY DEF MergeInv
<1>11. at \in LiveLocs <=> id # None  BY <1>1 DEF LiveLocs
<1> HIDE DEF at, k, hi
<1>12. \A l : l \in Numbered' <=> l \in LiveLocs /\ ~Dead(layout[l]) /\ (l \in Passed \/ l = at)
  BY <1>3, <1>4, <1>5, <1>6 DEF Numbered
<1>13. \A l : l \in Numbered <=> l \in LiveLocs /\ ~Dead(layout[l]) /\ l \in Passed
  BY <1>1 DEF Numbered
<1>14. \A l : l \in Collected' <=> l \in LiveLocs /\ Dead(layout[l]) /\ (l \in Passed \/ l = at)
  BY <1>3, <1>4, <1>5, <1>6 DEF Collected
<1>15. \A l : l \in Collected <=> l \in LiveLocs /\ Dead(layout[l]) /\ l \in Passed
  BY <1>1 DEF Collected
<1>16. CASE id = None
  <2>1. Numbered' = Numbered
    <3>1. \A l : l \in Numbered' <=> l \in Numbered  BY <1>11, <1>12, <1>13, <1>16
    <3> QED BY <3>1, SetExtensionality
  <2>2. Collected' = Collected
    <3>1. \A l : l \in Collected' <=> l \in Collected  BY <1>11, <1>14, <1>15, <1>16
    <3> QED BY <3>1, SetExtensionality
  <2>3. m'.idMap = m.idMap /\ m'.npoints = m.npoints /\ m'.nhoods = m.nhoods  BY <1>2, <1>16
  <2>4. NumbersInv' /\ NhoodsInv'  BY <1>2, <1>3, <1>10, <2>1, <2>2, <2>3, NumbersStay, NhoodsStay
  <2> QED BY <1>3, <1>7, <1>8, <1>9, <2>4 DEF MergeInv
<1>17. CASE id # None /\ ~Dead(id)
  <2>1. Numbered' = Numbered \cup {at}
    <3>1. \A l : l \in Numbered' <=> l \in Numbered \cup {at}  BY <1>11, <1>12, <1>13, <1>17
    <3> QED BY <3>1, SetExtensionality
  <2>2. Collected' = Collected
    <3>1. \A l : l \in Collected' <=> l \in Collected  BY <1>14, <1>15, <1>17
    <3> QED BY <3>1, SetExtensionality
  <2>3. m'.idMap = With(m.idMap, id, m.npoints) /\ m'.npoints = m.npoints + 1 /\ m'.nhoods = m.nhoods
    BY <1>2, <1>17
  <2>4. at \in LiveLocs /\ at \notin Numbered  BY <1>1, <1>11, <1>13, <1>17 DEF at
  <2>5. ASSUME NEW b \in 0 .. Cardinality(Locs), NEW j \in Numbered,
               at < b * (PopulateSectors * NodesPerSector), b * (PopulateSectors * NodesPerSector) <= j
        PROVE  FALSE
    <3>1. j \in Passed  BY <1>13
    <3>2. j \in 0 .. hi - 1
      <4>1. Step = PopulateSectors  BY <1>1 DEF Step
      <4> QED BY <3>1, <4>1 DEF Passed, PassedBy, hi
    <3>3. PopulateSectors \in Nat \ {0} /\ NodesPerSector \in Nat \ {0}  BY MergeAssumption
    <3>4. m.sector \in Nat /\ m.sector % PopulateSectors = 0
      BY <1>1 DEF MergeInv, ChunkInv, Step
    <3>5. Cardinality(Locs) \in Nat /\ Locs = 0 .. Cardinality(Locs) - 1
      BY DEF MergeInv, IndexInv, LocsInv
    <3>6. at \in Nat /\ b \in Nat  BY <3>5, <2>4 DEF LiveLocs
    <3>7. Base = m.sector * NodesPerSector /\ Base \in Nat /\ Base <= at /\ hi \in Nat /\ hi <= Base + k
      BY <1>1 DEF Base, at, hi, k
    <3>8. k \in Nat /\ b * k \in Nat  BY <3>3, <3>6 DEF k
    <3>9. at < b * k /\ b * k <= j  BY <2>5 DEF k
    <3>10. m.sector * NodesPerSector < b * (PopulateSectors * NodesPerSector)
      <4>1. Base < b * k  BY <3>6, <3>7, <3>8, <3>9
      <4> QED BY <3>7, <4>1 DEF k
    <3>11. m.sector * NodesPerSector + PopulateSectors * NodesPerSector
              <= b * (PopulateSectors * NodesPerSector)
      BY <3>3, <3>4, <3>6, <3>10, ChunkEdge
    <3>12. Base + k <= b * k  BY <3>7, <3>11 DEF k
    <3> QED BY <3>2, <3>7, <3>8, <3>9, <3>12
  <2>6. NumbersInv'
    <3>1. \A b \in 0 .. Cardinality(Locs), j \in Numbered :
            at < b * (PopulateSectors * NodesPerSector) => ~(b * (PopulateSectors * NodesPerSector) <= j)
      BY <2>5
    <3> QED BY <1>1, <1>2, <1>3, <2>1, <2>3, <2>4, <3>1, NumbersGrow
  <2>7. NhoodsInv'  BY <1>2, <1>3, <1>10, <2>2, <2>3, NhoodsStay
  <2> QED BY <1>3, <1>7, <1>8, <1>9, <2>6, <2>7 DEF MergeInv
<1>18. CASE id # None /\ Dead(id)
  <2>1. Numbered' = Numbered
    <3>1. \A l : l \in Numbered' <=> l \in Numbered  BY <1>12, <1>13, <1>18
    <3> QED BY <3>1, SetExtensionality
  <2>2. Collected' = Collected \cup {at}
    <3>1. \A l : l \in Collected' <=> l \in Collected \cup {at}  BY <1>11, <1>14, <1>15, <1>18
    <3> QED BY <3>1, SetExtensionality
  <2>3. m'.idMap = m.idMap /\ m'.npoints = m.npoints /\ m'.nhoods = With(m.nhoods, id, Sampled(id))
    BY <1>2, <1>18
  <2>4. NumbersInv'  BY <1>2, <1>3, <1>10, <2>1, <2>3, NumbersStay
  <2>5. at \in LiveLocs  BY <1>11, <1>18
  <2>6. NhoodsInv'  BY <1>1, <1>3, <2>2, <2>3, <2>5, NhoodsGrow
  <2> QED BY <1>3, <1>7, <1>8, <1>9, <2>4, <2>6 DEF MergeInv
<1> QED BY <1>16, <1>17, <1>18

-----------------------------------------------------------------------------
(* From chunk to chunk. *)

LEMMA NextMultiple ==
    ASSUME NEW n \in Nat \ {0}, NEW a \in Nat, a % n = 0
    PROVE  (a + n) % n = 0 /\ 0 % n = 0
<1>1. PICK q \in Nat, r \in 0 .. n - 1 : r = a % n /\ a = n * q + r  BY DivMod
<1>2. a + n = n * (q + 1) + 0
  <2>1. n * (q + 1) = n * q + n  OBVIOUS
  <2> QED BY <1>1, <2>1
<1>3. q + 1 \in Nat /\ 0 \in 0 .. n - 1  OBVIOUS
<1>4. (n * (q + 1) + 0) % n = 0  BY <1>3, DivModUnique
<1>5. 0 = n * 0 + 0 /\ 0 \in Nat  OBVIOUS
<1>6. (n * 0 + 0) % n = 0  BY <1>3, <1>5, DivModUnique
<1> QED BY <1>2, <1>4, <1>5, <1>6

LEMMA ChunkStarted ==
    ASSUME IndexInv, Locs' = Locs, NEW sector \in Nat, NEW step \in Nat \ {0}, sector % step = 0,
           sector * NodesPerSector <= Cardinality(Locs), m'.pc \in {"populate", "process"},
           step = IF m'.pc = "populate" THEN PopulateSectors ELSE MergeSectors,
           m'.sector = sector,
           m'.todo = Blocks(sector * NodesPerSector, ChunkEnd(sector, step))
    PROVE  /\ ChunkInv' /\ Passed' = 0 .. sector * NodesPerSector - 1
           /\ Base' = sector * NodesPerSector /\ Base' \in Nat
<1> DEFINE lo == sector * NodesPerSector
           hi == ChunkEnd(sector, step)
<1>1. Cardinality(Locs) \in Nat  BY DEF IndexInv, LocsInv
<1>2. lo = sector * NodesPerSector /\ hi = ChunkEnd(sector, step)  OBVIOUS
<1>3. m'.todo = Blocks(lo, hi) /\ lo <= Cardinality(Locs)  OBVIOUS
<1> HIDE DEF lo, hi
<1>4. ChunkFrom(sector, step, lo, hi)  BY <1>1, <1>2, <1>3, ChunkBounds
<1>5. lo \in Nat /\ hi \in Nat /\ lo <= hi  BY <1>4 DEF ChunkFrom
<1>6. GoodBlocks(m'.todo, lo, hi) /\ PassedBy(m'.todo, hi) = 0 .. lo - 1
  BY <1>3, <1>5, BlocksStart
<1>7. Step' = step /\ Base' = lo  BY <1>2 DEF Step, Base
<1>8. ChunkEnd(m.sector, Step)' = hi  BY <1>2, <1>7 DEF ChunkEnd
<1>9. Passed' = PassedBy(m'.todo, ChunkEnd(m.sector, Step)')  BY DEF Passed, PassedBy
<1>10. GoodBlocks(m.todo, Base, ChunkEnd(m.sector, Step))'  BY <1>6, <1>7, <1>8 DEF GoodBlocks
<1>11. ChunkInv'
  <2>1. m'.sector \in Nat /\ m'.sector % Step' = 0 /\ Base' <= Cardinality(Locs')
    BY <1>3, <1>7
  <2> QED BY <1>10, <2>1 DEF ChunkInv
<1> QED BY <1>2, <1>5, <1>6, <1>7, <1>8, <1>9, <1>11

(* What a chunk that is done leaves. *)
ChunkLeft(sector, step) ==
    /\ m.sector = sector /\ sector \in Nat /\ step \in Nat \ {0} /\ sector % step = 0
    /\ Base = sector * NodesPerSector /\ Base \in Nat /\ Base <= Cardinality(Locs)
    /\ ChunkFrom(sector, step, Base, ChunkEnd(sector, step))
    /\ Passed = 0 .. ChunkEnd(sector, step) - 1

LEMMA ChunkOver ==
    ASSUME MergeInv, m.pc \in {"populate", "process"}, ChunkDone, NEW step, step = Step
    PROVE  ChunkLeft(m.sector, step)
<1> USE DEF MergeInv
<1>1. /\ m.sector \in Nat /\ m.sector % step = 0 /\ Base <= Cardinality(Locs)
      /\ GoodBlocks(m.todo, Base, ChunkEnd(m.sector, step))
  BY DEF ChunkInv
<1>2. step \in Nat \ {0}  BY MergeAssumption DEF Step
<1>3. Cardinality(Locs) \in Nat  BY DEF IndexInv, LocsInv
<1>4. Base = m.sector * NodesPerSector  BY DEF Base
<1> DEFINE hi == ChunkEnd(m.sector, step)
<1>5. hi = ChunkEnd(m.sector, step) /\ GoodBlocks(m.todo, Base, hi)  BY <1>1
<1> HIDE DEF hi
<1>6. ChunkFrom(m.sector, step, Base, hi)  BY <1>1, <1>2, <1>3, <1>4, <1>5, ChunkBounds
<1>7. Base \in Nat /\ hi \in Nat  BY <1>6 DEF ChunkFrom
<1>8. \A w \in 1 .. Workers : m.todo[w].from = m.todo[w].to  BY DEF ChunkDone
<1>9. PassedBy(m.todo, hi) = 0 .. hi - 1  BY <1>5, <1>7, <1>8, BlocksDone
<1>10. Passed = 0 .. hi - 1  BY <1>5, <1>9 DEF Passed
<1> QED BY <1>1, <1>2, <1>4, <1>5, <1>6, <1>7, <1>10 DEF ChunkLeft

(* The next chunk goes on where this one ended. *)
LEMMA ChunkFollows ==
    ASSUME MergeInv, Locs' = Locs, m.pc \in {"populate", "process"}, ChunkDone,
           NEW step, step = Step, ~LastChunk(step),
           m'.pc = m.pc, m'.sector = m.sector + step,
           m'.todo = Blocks((m.sector + step) * NodesPerSector, ChunkEnd(m.sector + step, step))
    PROVE  ChunkInv' /\ Passed' = Passed /\ Base' = ChunkEnd(m.sector, step)
<1> DEFINE sector == m.sector + step
<1>1. ChunkLeft(m.sector, step)  BY ChunkOver
<1>2. /\ m.sector \in Nat /\ step \in Nat \ {0} /\ m.sector % step = 0
      /\ ChunkFrom(m.sector, step, Base, ChunkEnd(m.sector, step))
      /\ Passed = 0 .. ChunkEnd(m.sector, step) - 1
  BY <1>1 DEF ChunkLeft
<1>3. Cardinality(Locs) \in Nat /\ IndexInv  BY DEF MergeInv, IndexInv, LocsInv
<1>4. (m.sector + step) * NodesPerSector < Cardinality(Locs)
  <2>1. (m.sector + step) * NodesPerSector \in Nat  BY <1>2, MergeAssumption
  <2> QED BY <1>3, <2>1 DEF LastChunk
<1>5. ChunkEnd(m.sector, step) = sector * NodesPerSector  BY <1>2, <1>4 DEF ChunkFrom
<1>6. sector \in Nat /\ sector % step = 0 /\ sector * NodesPerSector <= Cardinality(Locs)
  <2>1. (m.sector + step) % step = 0 /\ 0 % step = 0  BY <1>2, NextMultiple
  <2>2. (m.sector + step) * NodesPerSector \in Nat  BY <1>2, MergeAssumption
  <2> QED BY <1>2, <1>3, <1>4, <2>1, <2>2
<1>7. /\ m'.pc \in {"populate", "process"} /\ m'.sector = sector
      /\ m'.todo = Blocks(sector * NodesPerSector, ChunkEnd(sector, step))
      /\ step = IF m'.pc = "populate" THEN PopulateSectors ELSE MergeSectors
  BY DEF Step
<1> HIDE DEF sector
<1>8. /\ ChunkInv' /\ Passed' = 0 .. sector * NodesPerSector - 1
      /\ Base' = sector * NodesPerSector /\ Base' \in Nat
  BY <1>2, <1>3, <1>6, <1>7, ChunkStarted
<1> QED BY <1>2, <1>5, <1>8

(* All that the fields of a merge but the chunk are. *)
ChunkFields ==
    /\ m' = [ f \in MergeFields |-> m'[f] ] /\ m'.kind = m.kind /\ m'.dels = m.dels
    /\ m'.idMap = m.idMap /\ m'.nhoods = m.nhoods /\ m'.npoints = m.npoints
    /\ m'.used = m.used /\ m'.wbuf = m.wbuf
    /\ m'.newTags = m.newTags /\ m'.newData = m.newData /\ m'.header = m.header

LEMMA ShapeStays ==
    ASSUME Merging, MergeShape, ChunkFields, nextTag' = nextTag,
           m'.pc \in {"populate", "process", "flush"}, m'.wbId \in Nat
    PROVE  MergeShape' /\ Merging'
<1>1. /\ m = [ f \in MergeFields |-> m[f] ] /\ DOMAIN m = MergeFields
      /\ m.kind \in {"final", "stream"} /\ m.dels \subseteq 0 .. nextTag - 1
      /\ m.npoints \in Nat /\ m.wbId \in Nat /\ m.used \in Nat
  BY FieldSet
<1> QED BY <1>1 DEF ChunkFields, MergeShape, Merging

(* Once every location is passed all survivors have their numbers. *)
LEMMA AllPassed ==
    ASSUME MergeInv, Merging, m.pc = "populate" => Passed = Locs
    PROVE  /\ \A l : l \in Numbered <=> l \in LiveLocs /\ ~Dead(layout[l])
           /\ \A l : l \in Collected <=> l \in LiveLocs /\ Dead(layout[l])
           /\ AllCollected
<1>1. LiveLocs \subseteq Locs  BY DEF LiveLocs
<1>2. \A l : l \in Numbered <=> l \in LiveLocs /\ ~Dead(layout[l])  BY <1>1 DEF Numbered
<1>3. \A l : l \in Collected <=> l \in LiveLocs /\ Dead(layout[l])  BY <1>1 DEF Collected
<1>4. m.nhoods = [ id \in { layout[l] : l \in Collected } |-> Sampled(id) ]
  BY DEF MergeInv, NhoodsInv
<1>5. { layout[l] : l \in Collected } = { d \in DOMAIN tags : Dead(d) }
  <2>1. \A l \in LiveLocs : layout[l] \in DOMAIN tags  BY IdsAndLocs DEF MergeInv
  <2>2. \A d \in DOMAIN tags : \E l \in LiveLocs : layout[l] = d
    BY DEF MergeInv, IndexInv, LocsInv
  <2>3. \A d : d \in { layout[l] : l \in Collected } => d \in { e \in DOMAIN tags : Dead(e) }
    BY <1>3, <2>1
  <2>4. \A d : d \in { e \in DOMAIN tags : Dead(e) } => d \in { layout[l] : l \in Collected }
    <3> SUFFICES ASSUME NEW d \in DOMAIN tags, Dead(d) PROVE d \in { layout[l] : l \in Collected }
      OBVIOUS
    <3>1. PICK l \in LiveLocs : layout[l] = d  BY <2>2
    <3>2. l \in Collected  BY <1>3, <3>1
    <3> QED BY <3>1, <3>2
  <2> QED BY <2>3, <2>4, SetExtensionality
<1> QED BY <1>2, <1>3, <1>4, <1>5 DEF AllCollected

LEMMA PopulateNextKeeps ==
    ASSUME MergeInv, PopulateNext
    PROVE  MergeInv'
<1>1. m.pc = "populate" /\ ChunkDone /\ UNCHANGED <<indexVars, nextTag, deleted, dropped>>
  BY Zenon DEF PopulateNext
<1>2. m' = IF LastChunk(PopulateSectors)
           THEN StartChunk([m EXCEPT !.pc = "process"], MergeSectors, 0)
           ELSE StartChunk(m, PopulateSectors, m.sector + PopulateSectors)
  BY Zenon DEF PopulateNext
<1>3. Merging /\ Step = PopulateSectors  BY <1>1 DEF Merging, Step
<1>4. /\ m = [ f \in MergeFields |-> m[f] ] /\ DOMAIN m = MergeFields
      /\ m.kind \in {"final", "stream"} /\ m.dels \subseteq 0 .. nextTag - 1
      /\ m.npoints \in Nat /\ m.wbId \in Nat /\ m.used \in Nat
  BY <1>3, FieldSet DEF MergeInv
<1>5. NumbersInv /\ NhoodsInv /\ MergeShape /\ IndexInv  BY DEF MergeInv
<1>6. IndexInv'
  <2>1. deleted' \subseteq 0 .. nextTag - 1  BY <1>1, <1>5 DEF IndexInv, IdsInv
  <2> QED BY <1>1, <1>5, <2>1, IndexKept
<1>7. m'.dels = m.dels => SameReads  BY <1>1, ReadsSame
<1>8. CASE ~LastChunk(PopulateSectors)
  <2>1. m' = [m EXCEPT !.sector = m.sector + PopulateSectors,
                !.todo = Blocks((m.sector + PopulateSectors) * NodesPerSector,
                                ChunkEnd(m.sector + PopulateSectors, PopulateSectors))]
    BY <1>2, <1>8 DEF StartChunk
  <2>2. /\ ChunkFields /\ m'.pc = "populate" /\ m'.wbId = m.wbId /\ m'.out = m.out
        /\ m'.sector = m.sector + PopulateSectors
        /\ m'.todo = Blocks((m.sector + PopulateSectors) * NodesPerSector,
                                ChunkEnd(m.sector + PopulateSectors, PopulateSectors))
    BY <1>1, <1>4, <2>1 DEF MergeFields, ChunkFields
  <2>3. SameReads  BY <1>7, <2>2 DEF ChunkFields
  <2>4. Locs' = Locs  BY <2>3 DEF SameReads
  <2>5. ChunkInv' /\ Passed' = Passed /\ Base' = ChunkEnd(m.sector, PopulateSectors)
    BY <1>1, <1>3, <1>8, <2>2, <2>4, ChunkFollows
  <2>6. Numbered' = Numbered /\ Collected' = Collected
    BY <1>1, <1>3, <2>2, <2>3, <2>5, PartsSame
  <2>7. NumbersInv' /\ NhoodsInv'
    BY <1>3, <1>5, <2>2, <2>3, <2>6, NumbersStay, NhoodsStay DEF ChunkFields
  <2>8. MergeShape' /\ Merging'  BY <1>1, <1>3, <1>4, <1>5, <2>2, ShapeStays
  <2>9. UnwrittenInv'  BY <1>1, <2>2 DEF MergeInv, UnwrittenInv, ChunkFields
  <2>10. TagsInv' /\ WindowInv' /\ HalvesInv' /\ HeaderInv'
    BY <2>2 DEF TagsInv, WindowInv, HalvesInv, HeaderInv, Writing
  <2> QED BY <1>6, <2>5, <2>7, <2>8, <2>9, <2>10 DEF MergeInv
<1>9. CASE LastChunk(PopulateSectors)
  <2> DEFINE e == ChunkEnd(0, MergeSectors)
  <2>1. m' = [[m EXCEPT !.pc = "process"] EXCEPT !.sector = 0, !.todo = Blocks(0 * NodesPerSector, e)]
    BY <1>2, <1>9 DEF StartChunk
  <2>2. /\ ChunkFields /\ m'.pc = "process" /\ m'.wbId = m.wbId /\ m'.out = m.out
        /\ m'.sector = 0 /\ m'.todo = Blocks(0 * NodesPerSector, e)
    <3> HIDE DEF e
    <3> QED BY <1>1, <1>4, <2>1 DEF MergeFields, ChunkFields
  <2>3. SameReads  BY <1>7, <2>2 DEF ChunkFields
  <2>4. Locs' = Locs /\ LiveLocs' = LiveLocs /\ layout' = layout
        /\ \A l \in LiveLocs : Dead(layout[l])' <=> Dead(layout[l])
    <3>1. Locs' = Locs /\ LiveLocs' = LiveLocs /\ layout' = layout /\ \A x : Dead(x)' <=> Dead(x)
      BY <2>3 DEF SameReads
    <3> QED BY <3>1
  <2>5. ChunkInv' /\ Passed' = {} /\ Base' = 0
    <3>1. 0 \in Nat /\ MergeSectors \in Nat \ {0} /\ NodesPerSector \in Nat \ {0}
      BY MergeAssumption
    <3>2. (0 + MergeSectors) % MergeSectors = 0 /\ 0 % MergeSectors = 0
      <4>1. 0 % MergeSectors = 0  BY <3>1
      <4> QED BY <3>1, <4>1, NextMultiple
    <3>3. 0 * NodesPerSector = 0 /\ 0 <= Cardinality(Locs)
      BY <1>5, <3>1 DEF IndexInv, LocsInv
    <3>4. MergeSectors = IF m'.pc = "populate" THEN PopulateSectors ELSE MergeSectors
      BY <2>2
    <3>5. /\ ChunkInv' /\ Passed' = 0 .. 0 * NodesPerSector - 1
          /\ Base' = 0 * NodesPerSector /\ Base' \in Nat
      BY <1>5, <2>2, <2>4, <3>1, <3>2, <3>3, <3>4, ChunkStarted
    <3>6. 0 .. 0 - 1 = {}  OBVIOUS
    <3> QED BY <3>3, <3>5, <3>6
  <2>6. Passed = Locs
    <3>1. ChunkLeft(m.sector, PopulateSectors)  BY <1>1, <1>3, ChunkOver
    <3>2. ChunkEnd(m.sector, PopulateSectors) = Cardinality(Locs)
      BY <1>9, <3>1 DEF ChunkLeft, ChunkFrom, LastChunk
    <3>3. Passed = 0 .. ChunkEnd(m.sector, PopulateSectors) - 1  BY <3>1 DEF ChunkLeft
    <3> QED BY <1>5, <3>2, <3>3 DEF IndexInv, LocsInv
  <2>7. /\ \A l : l \in Numbered <=> l \in LiveLocs /\ ~Dead(layout[l])
        /\ \A l : l \in Collected <=> l \in LiveLocs /\ Dead(layout[l])
        /\ AllCollected
    BY <1>3, <2>6, AllPassed
  <2>8. Numbered' = Numbered /\ Collected' = Collected
    <3>1. \A l : l \in Numbered' <=> l \in Numbered  BY <2>2, <2>4, <2>7 DEF Numbered
    <3>2. \A l : l \in Collected' <=> l \in Collected  BY <2>2, <2>4, <2>7 DEF Collected
    <3> QED BY <3>1, <3>2, SetExtensionality
  <2>9. NumbersInv' /\ NhoodsInv'
    BY <1>3, <1>5, <2>2, <2>3, <2>8, NumbersStay, NhoodsStay DEF ChunkFields
  <2>10. MergeShape' /\ Merging'  BY <1>1, <1>3, <1>4, <1>5, <2>2, ShapeStays
  <2>11. UnwrittenInv' /\ HeaderInv'  BY <2>2 DEF UnwrittenInv, HeaderInv
  <2>12. m'.wbId = 0 /\ m'.used = 0 /\ m'.newTags = << >> /\ m'.newData = << >>
    BY <1>1, <2>2 DEF MergeInv, UnwrittenInv, ChunkFields
  <2>13. Processed' = {}  BY <2>2, <2>5 DEF Processed
  <2>14. TagsInv'
    <3>1. { NewId(l) : l \in Processed }' = {}  BY <2>13
    <3>2. << >> \in [{} -> Points]  OBVIOUS
    <3>3. Cardinality({}) = 0  BY FS_EmptySet
    <3> QED BY <2>12, <2>13, <3>1, <3>2, <3>3 DEF TagsInv
  <2>15. WindowInv'  BY <2>13 DEF WindowInv
  <2>16. HalvesInv'
    <3>1. Early(Base)' = {}
      <4>1. \A l \in LiveLocs : ~(l < 0)  BY <1>5, IdsAndLocs
      <4> QED BY <2>4, <2>5, <4>1 DEF Early
    <3>2. Cardinality(Early(Base)') = 0  BY <3>1, FS_EmptySet
    <3>3. HalfWindow \in Nat \ {0}
      <4>1. MergeSectors \in Nat \ {0} /\ NodesPerSector \in Nat \ {0}  BY MergeAssumption
      <4>2. 1 * NodesPerSector <= MergeSectors * NodesPerSector  BY <4>1, MulMono
      <4> QED BY <4>1, <4>2 DEF HalfWindow
    <3>4. 0 % HalfWindow = 0  BY <3>3
    <3> QED BY <2>2, <2>12, <3>2, <3>3, <3>4 DEF HalvesInv
  <2> QED BY <1>6, <2>5, <2>9, <2>10, <2>11, <2>14, <2>15, <2>16 DEF MergeInv
<1> QED BY <1>8, <1>9

-----------------------------------------------------------------------------
(* Numbers and chunks. *)

(* Values without repetitions are as many as what has them. *)
LEMMA AsMany ==
    ASSUME NEW S, IsFiniteSet(S), NEW T, NEW f \in [S -> T],
           \A x, y \in S : f[x] = f[y] => x = y
    PROVE  /\ IsFiniteSet({ f[x] : x \in S })
           /\ Cardinality({ f[x] : x \in S }) = Cardinality(S)
<1> DEFINE V == { f[x] : x \in S }
<1>1. f \in Surjection(S, V)  BY DEF Surjection
<1>2. f \in Injection(S, V)
  <2>1. f \in [S -> V]  OBVIOUS
  <2> QED BY <2>1 DEF Injection, IsInjective
<1> QED BY <1>1, <1>2, FS_Surjection

(* Where a chunk of either pass may start or end. *)
Edge(b) ==
    /\ b \in Nat
    /\ \/ b >= Cardinality(Locs)
       \/ \E c \in 0 .. Cardinality(Locs) : b = c * (PopulateSectors * NodesPerSector)

LEMMA EdgeOfChunk ==
    ASSUME Cardinality(Locs) \in Nat, NEW sector \in Nat, sector % MergeSectors = 0,
           sector * NodesPerSector <= Cardinality(Locs)
    PROVE  Edge(sector * NodesPerSector)
<1>1. /\ PopulateSectors \in Nat \ {0} /\ MergeSectors \in Nat \ {0} /\ NodesPerSector \in Nat \ {0}
      /\ MergeSectors % PopulateSectors = 0
  BY MergeAssumption
<1>2. PICK q \in Nat, r \in 0 .. MergeSectors - 1 :
         q = sector \div MergeSectors /\ r = sector % MergeSectors /\ sector = MergeSectors * q + r
  <2>1. MergeSectors \in Nat \ {0}  BY <1>1
  <2> QED BY <2>1, DivMod, Zenon
<1>3. PICK p \in Nat, s \in 0 .. PopulateSectors - 1 :
         /\ p = MergeSectors \div PopulateSectors /\ s = MergeSectors % PopulateSectors
         /\ MergeSectors = PopulateSectors * p + s
  <2>1. MergeSectors \in Nat /\ PopulateSectors \in Nat \ {0}  BY <1>1
  <2> QED BY <2>1, DivMod, Zenon
<1> DEFINE k == PopulateSectors * NodesPerSector
           c == q * p
<1>4. sector = (PopulateSectors * p) * q  BY <1>1, <1>2, <1>3
<1>5. sector * NodesPerSector = c * k
  <2>1. \A a, b, d, e \in Int : ((a * b) * d) * e = (d * b) * (a * e)  OBVIOUS
  <2> QED BY <1>1, <1>4, <2>1
<1>6. c \in Nat  OBVIOUS
<1>7. k \in Nat \ {0}
  <2>1. 1 * NodesPerSector <= PopulateSectors * NodesPerSector /\ k \in Nat  BY <1>1, MulMono
  <2> QED BY <1>1, <2>1
<1> HIDE DEF c, k
<1>8. c <= c * k /\ c * k \in Nat
  <2>1. 1 * c <= k * c /\ k * c \in Nat  BY <1>6, <1>7, MulMono
  <2>2. k * c = c * k  BY <1>6, <1>7
  <2> QED BY <1>6, <2>1, <2>2
<1>9. c \in 0 .. Cardinality(Locs)  BY <1>5, <1>6, <1>8
<1> QED BY <1>5, <1>8, <1>9 DEF Edge, k

(* The survivors below an edge have the smallest new ids. *)
LEMMA EarlyNumbered ==
    ASSUME MergeInv, Merging, m.pc # "populate", NEW b, Edge(b)
    PROVE  /\ IsFiniteSet(Early(b)) /\ Cardinality(Early(b)) \in Nat
           /\ \A l \in Early(b) : NewId(l) \in 0 .. Cardinality(Early(b)) - 1
           /\ \A l \in LiveLocs : ~Dead(layout[l]) /\ NewId(l) < Cardinality(Early(b)) => l < b
           /\ Cardinality({ NewId(l) : l \in Early(b) }) = Cardinality(Early(b))
           /\ Cardinality(Early(b)) <= m.npoints
           /\ b >= Cardinality(Locs) => Cardinality(Early(b)) = m.npoints
<1> USE DEF MergeInv
<1> DEFINE k == PopulateSectors * NodesPerSector
           E == Early(b)
           np == m.npoints
<1>1. \A l : l \in Numbered <=> l \in LiveLocs /\ ~Dead(layout[l])  BY AllPassed
<1>2. /\ m.idMap \in [{ layout[l] : l \in Numbered } -> 0 .. np - 1]
      /\ \A i, j \in Numbered : NewId(i) = NewId(j) => i = j
      /\ \A x \in 0 .. np - 1 : \E l \in Numbered : NewId(l) = x
      /\ \A c \in 0 .. Cardinality(Locs), i, j \in Numbered : i < c * k /\ c * k <= j => NewId(i) < NewId(j)
  BY DEF NumbersInv
<1>3. \A l \in Numbered : NewId(l) \in 0 .. np - 1
  <2>1. \A l \in Numbered : layout[l] \in { layout[i] : i \in Numbered }  OBVIOUS
  <2> QED BY <1>2, <2>1 DEF NewId
<1>4. \A l : l \in E <=> l \in Numbered /\ l < b  BY <1>1 DEF Early
<1>5. IsFiniteSet(LiveLocs) /\ \A l \in LiveLocs : l \in Nat /\ l < Cardinality(Locs)  BY IdsAndLocs
<1>6. Cardinality(Locs) \in Nat  BY DEF IndexInv, LocsInv
<1>7. np \in Nat  BY FieldSet
<1> HIDE DEF E, np
<1>8. IsFiniteSet(E)
  <2>1. E \in SUBSET LiveLocs  BY <1>1, <1>4
  <2> QED BY <1>5, <2>1, FS_Subset
<1> DEFINE f == [ l \in E |-> NewId(l) ]
           D == { f[l] : l \in E }
<1>9. f \in [E -> 0 .. np - 1] /\ \A x, y \in E : f[x] = f[y] => x = y  BY <1>2, <1>3, <1>4
<1>10. \A l \in E : f[l] = NewId(l)  OBVIOUS
<1> HIDE DEF f
<1>11. IsFiniteSet(D) /\ Cardinality(D) = Cardinality(E)
  <2> DEFINE T == 0 .. np - 1
  <2>1. f \in [E -> T]  BY <1>9
  <2> HIDE DEF T
  <2>2. IsFiniteSet(E) /\ \A x, y \in E : f[x] = f[y] => x = y  BY <1>8, <1>9
  <2>3. IsFiniteSet({ f[x] : x \in E }) /\ Cardinality({ f[x] : x \in E }) = Cardinality(E)
    BY <2>1, <2>2, AsMany
  <2> QED BY <2>3
<1>12. D \in SUBSET Nat /\ D \subseteq 0 .. np - 1  BY <1>7, <1>9
<1>13. \A l \in Numbered : l >= b => \A i \in E : NewId(i) < NewId(l)
  <2> SUFFICES ASSUME NEW l \in Numbered, l >= b, NEW i \in E PROVE NewId(i) < NewId(l)
    OBVIOUS
  <2>1. l \in LiveLocs /\ i \in Numbered /\ i < b  BY <1>1, <1>4
  <2>2. l < Cardinality(Locs) /\ l \in Nat /\ b \in Nat  BY <1>5, <2>1 DEF Edge
  <2>3. ~(b >= Cardinality(Locs))  BY <1>6, <2>2
  <2>4. PICK c \in 0 .. Cardinality(Locs) : b = c * k  BY <2>3 DEF Edge
  <2> HIDE DEF k
  <2>5. i < c * k /\ c * k <= l  BY <2>1, <2>2, <2>4
  <2> QED BY <1>2, <2>1, <2>5
<1>14. \A x \in D : \A y \in 0 .. x : y \in D
  <2> SUFFICES ASSUME NEW i \in E, NEW y \in 0 .. f[i] PROVE y \in D
    OBVIOUS
  <2>1. f[i] \in 0 .. np - 1 /\ f[i] = NewId(i)  BY <1>9, <1>10
  <2>2. y \in 0 .. np - 1  BY <1>7, <2>1
  <2>3. PICK l \in Numbered : NewId(l) = y  BY <1>2, <2>2
  <2>4. l < b
    <3>1. l \in Nat /\ b \in Nat  BY <1>1, <1>5 DEF Edge
    <3>2. CASE l >= b
      <4>1. NewId(i) < y  BY <1>13, <2>3, <3>2
      <4> QED BY <1>7, <2>1, <4>1
    <3> QED BY <3>1, <3>2
  <2>5. l \in E /\ f[l] = y  BY <1>4, <1>10, <2>3, <2>4
  <2> QED BY <2>5
<1>15. Cardinality(D) \in Nat /\ D = 0 .. Cardinality(D) - 1
  <2> HIDE DEF D
  <2> QED BY <1>11, <1>12, <1>14, NoGaps
<1>16. Cardinality(E) \in Nat /\ D = 0 .. Cardinality(E) - 1  BY <1>11, <1>15
<1>17. \A l \in E : NewId(l) \in 0 .. Cardinality(E) - 1
  <2>1. \A l \in E : f[l] \in D  OBVIOUS
  <2> QED BY <1>10, <1>16, <2>1
<1>18. \A l \in Numbered : NewId(l) < Cardinality(E) => l < b
  <2> SUFFICES ASSUME NEW l \in Numbered, NewId(l) < Cardinality(E) PROVE l < b
    OBVIOUS
  <2>1. NewId(l) \in D
    <3>1. NewId(l) \in Nat  BY <1>3, <1>7
    <3> QED BY <1>16, <2>1, <3>1
  <2>2. PICK i \in E : f[i] = NewId(l)  BY <2>1
  <2>3. l = i  BY <1>2, <1>4, <1>10, <2>2
  <2> QED BY <1>4, <2>3
<1>19. Cardinality(E) <= np
  <2>1. CASE Cardinality(E) = 0  BY <1>7, <2>1
  <2>2. CASE Cardinality(E) # 0
    <3>1. Cardinality(E) - 1 \in D  BY <1>16, <2>2
    <3> QED BY <1>7, <1>12, <1>16, <3>1
  <2> QED BY <2>1, <2>2
<1>20. b >= Cardinality(Locs) => Cardinality(E) = np
  <2> SUFFICES ASSUME b >= Cardinality(Locs), Cardinality(E) < np PROVE FALSE
    BY <1>7, <1>16, <1>19
  <2>1. PICK l \in Numbered : NewId(l) = Cardinality(E)  BY <1>2, <1>7, <1>16
  <2>2. l < b
    <3>1. l \in Nat /\ l < Cardinality(Locs) /\ b \in Nat  BY <1>1, <1>5 DEF Edge
    <3> QED BY <1>6, <3>1
  <2>3. NewId(l) \in 0 .. Cardinality(E) - 1  BY <1>4, <1>17, <2>2
  <2> QED BY <1>16, <2>1, <2>3
<1>21. Cardinality({ NewId(l) : l \in E }) = Cardinality(E)
  <2>1. { NewId(l) : l \in E } = D  BY <1>10
  <2> QED BY <1>11, <2>1
<1> QED BY <1>1, <1>8, <1>16, <1>17, <1>18, <1>19, <1>20, <1>21 DEF E, np

(* A chunk of n locations adds n survivors at most. *)
LEMMA EarlyGrows ==
    ASSUME IndexInv, NEW lo \in Nat, NEW n \in Nat, NEW hi \in Nat, lo <= hi, hi <= lo + n
    PROVE  /\ Cardinality(Early(lo)) \in Nat /\ Cardinality(Early(hi)) \in Nat
           /\ Cardinality(Early(lo)) <= Cardinality(Early(hi))
           /\ Cardinality(Early(hi)) <= Cardinality(Early(lo)) + n
<1>1. IsFiniteSet(LiveLocs) /\ \A l \in LiveLocs : l \in Nat  BY IdsAndLocs
<1>2. Early(lo) \in SUBSET LiveLocs /\ Early(hi) \in SUBSET LiveLocs  BY DEF Early
<1>3. IsFiniteSet(Early(lo)) /\ IsFiniteSet(Early(hi))  BY <1>1, <1>2, FS_Subset
<1>4. Cardinality(Early(lo)) \in Nat /\ Cardinality(Early(hi)) \in Nat  BY <1>3, FS_CardinalityType
<1>5. Early(lo) \in SUBSET Early(hi)
  <2>1. \A l \in LiveLocs : l < lo => l < hi  BY <1>1
  <2> QED BY <2>1 DEF Early
<1>6. Cardinality(Early(lo)) <= Cardinality(Early(hi))  BY <1>3, <1>5, FS_Subset
<1> DEFINE I == lo .. hi - 1
<1>7. IsFiniteSet(I) /\ Cardinality(I) <= n /\ Cardinality(I) \in Nat
  <2>1. lo \in Int /\ hi - 1 \in Int  OBVIOUS
  <2>2. IsFiniteSet(I) /\ Cardinality(I) = IF lo > hi - 1 THEN 0 ELSE hi - 1 - lo + 1
    BY <2>1, FS_Interval
  <2> QED BY <2>2
<1>8. Early(hi) \in SUBSET (Early(lo) \cup I)
  <2>1. \A l \in LiveLocs : l < hi => l < lo \/ l \in I  BY <1>1
  <2> QED BY <2>1 DEF Early
<1> HIDE DEF I
<1>9. /\ IsFiniteSet(Early(lo) \cup I)
      /\ Cardinality(Early(lo) \cup I) = Cardinality(Early(lo)) + Cardinality(I) - Cardinality(Early(lo) \cap I)
  BY <1>3, <1>7, FS_Union
<1>10. Cardinality(Early(hi)) <= Cardinality(Early(lo) \cup I)  BY <1>8, <1>9, FS_Subset
<1>11. Cardinality(Early(lo) \cap I) \in Nat
  <2>1. Early(lo) \cap I \in SUBSET Early(lo)  OBVIOUS
  <2>2. IsFiniteSet(Early(lo) \cap I)  BY <1>3, <2>1, FS_Subset
  <2> QED BY <2>2, FS_CardinalityType
<1> QED BY <1>4, <1>6, <1>7, <1>9, <1>10, <1>11

(* A loop steps to its next location. *)
LEMMA ChunkAdvances ==
    ASSUME MergeInv, m.pc \in {"populate", "process"}, NEW w \in 1 .. Workers,
           m.todo[w].from < m.todo[w].to, NEW at, at = m.todo[w].from,
           UNCHANGED <<indexVars, nextTag, deleted, dropped>>,
           m'.todo = Advance(w), m'.sector = m.sector, m'.pc = m.pc, m'.dels = m.dels
    PROVE  /\ at \in Locs /\ at \notin Passed /\ Base <= at /\ at < ChunkEnd(m.sector, Step)
           /\ m.sector \in Nat /\ m.sector % Step = 0 /\ Step \in Nat \ {0}
           /\ Base = m.sector * NodesPerSector /\ Base <= Cardinality(Locs)
           /\ ChunkFrom(m.sector, Step, Base, ChunkEnd(m.sector, Step))
           /\ Passed' = Passed \cup {at} /\ Passed \subseteq 0 .. ChunkEnd(m.sector, Step) - 1
           /\ ChunkInv' /\ SameReads /\ IndexInv' /\ Base' = Base
<1> USE DEF MergeInv
<1> DEFINE step == Step
           lo == Base
           hi == ChunkEnd(m.sector, step)
           next == [m.todo EXCEPT ![w].from = @ + 1]
<1>1. /\ m.sector \in Nat /\ m.sector % step = 0 /\ lo <= Cardinality(Locs)
      /\ GoodBlocks(m.todo, lo, hi)
  BY DEF ChunkInv
<1>2. step \in Nat \ {0}  BY MergeAssumption DEF Step
<1>3. Cardinality(Locs) \in Nat /\ Locs = 0 .. Cardinality(Locs) - 1  BY DEF IndexInv, LocsInv
<1>4. lo = m.sector * NodesPerSector  BY DEF Base
<1>5. lo = Base /\ hi = ChunkEnd(m.sector, step) /\ step = Step  OBVIOUS
<1> HIDE DEF lo, hi, step
<1>6. ChunkFrom(m.sector, step, lo, hi)  BY <1>1, <1>2, <1>3, <1>4, <1>5, ChunkBounds
<1>7. lo \in Nat /\ hi \in Nat /\ lo <= hi /\ hi <= Cardinality(Locs)  BY <1>6 DEF ChunkFrom
<1>8. Passed = PassedBy(m.todo, hi)  BY <1>5 DEF Passed
<1>9. /\ GoodBlocks(next, lo, hi)
      /\ PassedBy(next, hi) = PassedBy(m.todo, hi) \cup {at}
      /\ at \in lo .. hi - 1 /\ at \notin PassedBy(m.todo, hi)
  <2> HIDE DEF next
  <2>1. next = [m.todo EXCEPT ![w].from = @ + 1]  BY DEF next
  <2> QED BY <1>1, <1>7, <2>1, BlocksAdvance
<1>10. SameReads  BY ReadsSame
<1>11. IndexInv'
  <2>1. deleted' \subseteq 0 .. nextTag - 1  BY DEF IndexInv, IdsInv
  <2> QED BY <2>1, IndexKept
<1>12. Locs' = Locs  BY <1>10 DEF SameReads
<1>13. Base' = lo /\ Step' = step  BY <1>5 DEF Base, Step
<1>14. ChunkEnd(m.sector, Step)' = hi  BY <1>5, <1>12, <1>13 DEF ChunkEnd
<1>15. m'.todo = next  BY DEF Advance
<1> HIDE DEF next
<1>16. Passed' = PassedBy(next, hi)
  <2>1. Passed' = PassedBy(m'.todo, ChunkEnd(m.sector, Step)')  BY DEF Passed, PassedBy
  <2> QED BY <1>14, <1>15, <2>1
<1>17. ChunkInv'
  <2>1. m'.sector \in Nat /\ m'.sector % Step' = 0 /\ Base' <= Cardinality(Locs')
    BY <1>1, <1>12, <1>13
  <2>2. GoodBlocks(m.todo, Base, ChunkEnd(m.sector, Step))'
    BY <1>9, <1>13, <1>14, <1>15 DEF GoodBlocks
  <2> QED BY <2>1, <2>2 DEF ChunkInv
<1>18. Passed \subseteq 0 .. hi - 1  BY <1>8 DEF PassedBy
<1>19. at \in Locs /\ lo <= at /\ at < hi  BY <1>3, <1>7, <1>9
<1> QED BY <1>1, <1>2, <1>4, <1>5, <1>6, <1>8, <1>9, <1>10, <1>11, <1>13, <1>16, <1>17, <1>18, <1>19

(* What a step of the second pass may touch. *)
ProcessFields ==
    /\ m' = [ f \in MergeFields |-> m'[f] ] /\ m'.pc = m.pc /\ m'.kind = m.kind /\ m'.dels = m.dels
    /\ m'.sector = m.sector
    /\ m'.idMap = m.idMap /\ m'.nhoods = m.nhoods /\ m'.npoints = m.npoints
    /\ m'.wbId = m.wbId /\ m'.out = m.out /\ m'.header = m.header

(* A deleted or missing point is skipped; no other stops the merge. *)
LEMMA ProcessCases ==
    ASSUME MergeInv, Process
    PROVE  /\ m.pc = "process" /\ Merging /\ ProcessFields
           /\ UNCHANGED <<indexVars, nextTag, deleted, dropped>>
           /\ \E w \in 1 .. Workers :
                 /\ m.todo[w].from < m.todo[w].to /\ m'.todo = Advance(w)
                 /\ LET at == m.todo[w].from IN
                    \/ /\ at \notin { l \in LiveLocs : ~Dead(layout[l]) }
                       /\ m'.used = m.used /\ m'.wbuf = m.wbuf
                       /\ m'.newTags = m.newTags /\ m'.newData = m.newData
                    \/ /\ at \in LiveLocs /\ ~Dead(layout[at])
                       /\ m'.used = m.used + 1
                       /\ m'.wbuf = With(m.wbuf, NewId(at) % WindowSize, NewRec(layout[at]))
                       /\ m'.newTags = With(m.newTags, NewId(at), tags[layout[at]])
                       /\ m'.newData = With(m.newData, NewId(at), data[layout[at]])
<1> USE DEF MergeInv
<1>1. m.pc = "process" /\ UNCHANGED <<indexVars, nextTag, deleted, dropped>>  BY Zenon DEF Process
<1>2. Merging  BY <1>1 DEF Merging
<1>3. DOMAIN m = MergeFields /\ m = [ f \in MergeFields |-> m[f] ] /\ m.used \in Nat
  BY <1>2, FieldSet
<1>4. PICK w \in 1 .. Workers :
        /\ m.todo[w].from < m.todo[w].to
        /\ LET id == layout[m.todo[w].from] IN
           IF id = None \/ (id # None /\ Dead(id)) THEN m' = [m EXCEPT !.todo = Advance(w)]
           ELSE IF ~NhoodsFound(id) THEN m' = [m EXCEPT !.pc = "stopped"]
           ELSE \E nhood \in { Pruned(id, Repaired(id)) } :
                IF ~(Range(nhood) \subseteq DOMAIN m.idMap) THEN m' = [m EXCEPT !.pc = "stopped"]
                ELSE LET new == m.idMap[id]
                         rec == [point |-> Rec(id).point,
                                 nbrs |-> [ i \in DOMAIN nhood |-> m.idMap[nhood[i]] ]]
                     IN  m' = [m EXCEPT !.todo = Advance(w), !.used = @ + 1,
                                        !.wbuf = With(@, new % WindowSize, rec),
                                        !.newTags = With(@, new, tags[id]),
                                        !.newData = With(@, new, data[id])]
  BY Zenon DEF Process
<1> DEFINE at == m.todo[w].from
           id == layout[at]
<1>5. at \in Locs
  <2>1. GoodBlocks(m.todo, Base, ChunkEnd(m.sector, Step)) /\ Base <= Cardinality(Locs)
        /\ m.sector \in Nat
    BY <1>1 DEF ChunkInv
  <2>2. Base \in Nat  BY <2>1, MergeAssumption DEF Base
  <2>3. Cardinality(Locs) \in Nat /\ Locs = 0 .. Cardinality(Locs) - 1  BY DEF IndexInv, LocsInv
  <2>4. ChunkEnd(m.sector, Step) <= Cardinality(Locs) /\ ChunkEnd(m.sector, Step) \in Nat
    <3>1. Step \in Nat \ {0}  BY MergeAssumption DEF Step
    <3>2. (m.sector + Step) * NodesPerSector \in Nat  BY <2>1, <3>1, MergeAssumption
    <3> QED BY <2>3, <3>2 DEF ChunkEnd
  <2>5. m.todo[w].from \in Nat /\ m.todo[w].to \in Nat /\ m.todo[w].to <= ChunkEnd(m.sector, Step)
    BY <2>1 DEF GoodBlocks
  <2>6. m.todo[w].from < m.todo[w].to  BY <1>4
  <2> QED BY <2>3, <2>4, <2>5, <2>6
<1>6. at \in LiveLocs <=> id # None  BY <1>5 DEF LiveLocs
<1>7. CASE id = None \/ (id # None /\ Dead(id))
  <2>1. m' = [m EXCEPT !.todo = Advance(w)]  BY <1>4, <1>7
  <2>2. at \notin { l \in LiveLocs : ~Dead(layout[l]) }  BY <1>6, <1>7
  <2>3. /\ ProcessFields /\ m'.todo = Advance(w) /\ m'.used = m.used /\ m'.wbuf = m.wbuf
        /\ m'.newTags = m.newTags /\ m'.newData = m.newData
    BY <1>3, <2>1 DEF MergeFields, ProcessFields
  <2> QED BY <1>1, <1>2, <1>4, <2>2, <2>3
<1>8. CASE id # None /\ ~Dead(id)
  <2>1. at \in LiveLocs /\ id \in DOMAIN tags
    <3>1. at \in LiveLocs  BY <1>6, <1>8
    <3> QED BY <3>1, IdsAndLocs
  <2>2. /\ \A l : l \in Numbered <=> l \in LiveLocs /\ ~Dead(layout[l])
        /\ AllCollected
    BY <1>1, <1>2, AllPassed
  <2>3. /\ Repaired(id) = Bridged(id) /\ NhoodsFound(id)
        /\ Bridged(id) \subseteq { n \in DOMAIN tags : ~Dead(n) } \ {id}
    <3> HIDE DEF id
    <3> QED BY <2>1, <2>2, RepairedExact
  <2> DEFINE nhood == Pruned(id, Repaired(id))
  <2>4. PrunedTo(nhood, id, Bridged(id))
    <3> HIDE DEF id
    <3> QED BY <2>1, <2>2, NewListExact
  <2>5. Range(nhood) \subseteq DOMAIN m.idMap
    <3>1. DOMAIN m.idMap = { layout[l] : l \in Numbered }  BY <1>2 DEF NumbersInv
    <3>2. \A n \in DOMAIN tags : ~Dead(n) => n \in { layout[l] : l \in Numbered }
      <4> SUFFICES ASSUME NEW n \in DOMAIN tags, ~Dead(n) PROVE \E l \in Numbered : layout[l] = n
        OBVIOUS
      <4>1. PICK l \in LiveLocs : layout[l] = n  BY DEF IndexInv, LocsInv
      <4> QED BY <2>2, <4>1
    <3>3. Range(nhood) \subseteq Bridged(id)
      <4> HIDE DEF nhood
      <4>1. nhood \in Seq(Bridged(id))  BY <2>4 DEF PrunedTo
      <4> QED BY <4>1 DEF Range
    <3> QED BY <2>3, <3>1, <3>2, <3>3
  <2>6. m' = [m EXCEPT !.todo = Advance(w), !.used = @ + 1,
                       !.wbuf = With(@, NewId(at) % WindowSize, NewRec(id)),
                       !.newTags = With(@, NewId(at), tags[id]),
                       !.newData = With(@, NewId(at), data[id])]
    <3>1. \E n \in { nhood } :
            IF ~(Range(n) \subseteq DOMAIN m.idMap) THEN m' = [m EXCEPT !.pc = "stopped"]
            ELSE LET new == m.idMap[id]
                     rec == [point |-> Rec(id).point,
                             nbrs |-> [ i \in DOMAIN n |-> m.idMap[n[i]] ]]
                 IN  m' = [m EXCEPT !.todo = Advance(w), !.used = @ + 1,
                                    !.wbuf = With(@, new % WindowSize, rec),
                                    !.newTags = With(@, new, tags[id]),
                                    !.newData = With(@, new, data[id])]
      BY <1>4, <1>8, <2>3
    <3>2. m.idMap[id] = NewId(at)  BY DEF NewId
    <3>3. NewRec(id) = [point |-> Rec(id).point,
                        nbrs |-> [ i \in DOMAIN nhood |-> m.idMap[nhood[i]] ]]
      BY DEF NewRec
    <3> HIDE DEF nhood, id, at
    <3> QED BY <2>5, <3>1, <3>2, <3>3
  <2>7. /\ ProcessFields /\ m'.todo = Advance(w) /\ m'.used = m.used + 1
        /\ m'.wbuf = With(m.wbuf, NewId(at) % WindowSize, NewRec(id))
        /\ m'.newTags = With(m.newTags, NewId(at), tags[id])
        /\ m'.newData = With(m.newData, NewId(at), data[id])
    <3> HIDE DEF at, id
    <3> QED BY <1>3, <2>6 DEF MergeFields, ProcessFields
  <2>8. at \in LiveLocs /\ ~Dead(layout[at])  BY <1>8, <2>1
  <2> QED BY <1>1, <1>2, <1>4, <2>7, <2>8
<1> QED BY <1>7, <1>8

(* What is written stays when no point is processed. *)
LEMMA WrittenStays ==
    ASSUME MergeInv, Writing, Writing', SameReads, Processed' = Processed,
           m'.idMap = m.idMap, m'.nhoods = m.nhoods, m'.newTags = m.newTags, m'.newData = m.newData,
           m'.used = m.used, m'.wbuf = m.wbuf, m'.wbId = m.wbId, m'.out = m.out
    PROVE  TagsInv' /\ WindowInv'
<1>1. layout' = layout /\ tags' = tags  BY DEF SameReads
<1>2. \A l : NewId(l)' = NewId(l)  BY <1>1 DEF NewId
<1>3. \A id : NewRec(id)' = NewRec(id)  BY NewRecsSame
<1>4. { NewId(l) : l \in Processed }' = { NewId(l) : l \in Processed }  BY <1>2
<1>5. TagsInv'
  <2>1. /\ m.newTags \in [{ NewId(l) : l \in Processed } -> Points] /\ m.newData = m.newTags
        /\ \A l \in Processed : m.newTags[NewId(l)] = tags[layout[l]]
        /\ m.used = Cardinality({ NewId(l) : l \in Processed })
    BY DEF MergeInv, TagsInv
  <2>2. \A l \in Processed' : m'.newTags[NewId(l)'] = tags'[layout'[l]]  BY <1>1, <1>2, <2>1
  <2> QED BY <1>4, <2>1, <2>2 DEF TagsInv
<1>6. WindowInv'
  <2>1. \A l \in Processed :
          IF NewId(l) < m.wbId
          THEN NewId(l) \in DOMAIN m.out /\ m.out[NewId(l)] = NewRec(layout[l])
          ELSE /\ NewId(l) % WindowSize \in DOMAIN m.wbuf
               /\ m.wbuf[NewId(l) % WindowSize] = NewRec(layout[l])
    BY DEF MergeInv, WindowInv
  <2> SUFFICES ASSUME NEW l \in Processed
               PROVE  IF NewId(l)' < m'.wbId
                      THEN NewId(l)' \in DOMAIN m'.out /\ m'.out[NewId(l)'] = NewRec(layout[l])'
                      ELSE /\ NewId(l)' % WindowSize \in DOMAIN m'.wbuf
                           /\ m'.wbuf[NewId(l)' % WindowSize] = NewRec(layout[l])'
    BY DEF WindowInv
  <2>2. NewId(l)' = NewId(l) /\ NewRec(layout[l])' = NewRec(layout[l])  BY <1>1, <1>2, <1>3
  <2> QED BY <2>1, <2>2
<1> QED BY <1>5, <1>6

(* One point more has its new tag and its new record. *)
LEMMA WrittenGrows ==
    ASSUME MergeInv, Writing, Writing', m.pc # "populate", SameReads,
           NEW at \in LiveLocs, ~Dead(layout[at]), at \notin Processed,
           Processed' = Processed \cup {at},
           m'.idMap = m.idMap, m'.nhoods = m.nhoods, m'.wbId = m.wbId, m'.out = m.out,
           m'.used = m.used + 1,
           m'.wbuf = With(m.wbuf, NewId(at) % WindowSize, NewRec(layout[at])),
           m'.newTags = With(m.newTags, NewId(at), tags[layout[at]]),
           m'.newData = With(m.newData, NewId(at), data[layout[at]]),
           NewId(at) >= m.wbId, WindowSize \in Nat \ {0},
           \A l \in Processed \cup {at} : NewId(l) < m.wbId + WindowSize
    PROVE  TagsInv' /\ WindowInv'
<1> USE DEF MergeInv
<1> DEFINE new == NewId(at)
           Ids == { NewId(l) : l \in Processed }
<1>1. layout' = layout /\ tags' = tags  BY DEF SameReads
<1>2. \A l : NewId(l)' = NewId(l)  BY <1>1 DEF NewId
<1>3. \A id : NewRec(id)' = NewRec(id)  BY NewRecsSame
<1>4. Merging  BY DEF Writing, Merging
<1>5. m.npoints \in Nat /\ m.wbId \in Nat /\ m.used \in Nat  BY <1>4, FieldSet
<1>6. /\ \A l \in Processed \cup {at} : NewId(l) \in 0 .. m.npoints - 1
      /\ \A l \in Processed : NewId(l) # new
  <2>1. \A l : l \in Numbered <=> l \in LiveLocs /\ ~Dead(layout[l])  BY <1>4, AllPassed
  <2>2. /\ m.idMap \in [{ layout[l] : l \in Numbered } -> 0 .. m.npoints - 1]
        /\ \A a, b \in Numbered : NewId(a) = NewId(b) => a = b
    BY <1>4 DEF NumbersInv
  <2>3. \A l \in Processed \cup {at} : l \in Numbered  BY <2>1 DEF Processed
  <2>4. \A l \in Numbered : NewId(l) \in 0 .. m.npoints - 1
    <3>1. \A l \in Numbered : layout[l] \in { layout[i] : i \in Numbered }  OBVIOUS
    <3> QED BY <2>2, <3>1 DEF NewId
  <2> QED BY <2>2, <2>3, <2>4
<1>7. { NewId(l) : l \in Processed }' = Ids \cup {new}  BY <1>2
<1>8. new \notin Ids  BY <1>6
<1>9. TagsInv'
  <2>1. /\ m.newTags \in [Ids -> Points] /\ m.newData = m.newTags
        /\ \A l \in Processed : m.newTags[NewId(l)] = tags[layout[l]]
        /\ m.used = Cardinality(Ids)
    BY DEF TagsInv
  <2>2. tags[layout[at]] \in Points /\ data = tags
    <3>1. layout[at] \in DOMAIN tags  BY IdsAndLocs
    <3> QED BY <3>1 DEF IndexInv, IdsInv
  <2>3. IsFiniteSet(Ids)
    <3>1. Ids \in SUBSET (0 .. m.npoints - 1)  BY <1>6
    <3>2. IsFiniteSet(0 .. m.npoints - 1)
      <4>1. 0 \in Int /\ m.npoints - 1 \in Int  BY <1>5
      <4> QED BY <4>1, FS_Interval
    <3> HIDE DEF Ids
    <3> QED BY <3>1, <3>2, FS_Subset
  <2>4. \A l \in Processed : NewId(l) \in Ids  OBVIOUS
  <2>5. NewId(at)' = new  BY <1>2
  <2> HIDE DEF Ids, new
  <2>6. Cardinality(Ids \cup {new}) = Cardinality(Ids) + 1  BY <1>8, <2>3, FS_AddElement
  <2>7. m'.newTags = [ x \in DOMAIN m.newTags \cup {new} |->
                         IF x = new THEN tags[layout[at]] ELSE m.newTags[x] ]
    BY DEF With, new
  <2>8. m'.newTags \in [Ids \cup {new} -> Points]  BY <2>1, <2>2, <2>7
  <2>9. m'.newData = m'.newTags  BY <2>1, <2>2 DEF new
  <2>10. \A l \in Processed' : m'.newTags[NewId(l)'] = tags'[layout'[l]]
    <3> SUFFICES ASSUME NEW l \in Processed' PROVE m'.newTags[NewId(l)'] = tags'[layout'[l]]
      OBVIOUS
    <3>1. CASE l = at  BY <1>1, <2>5, <2>7, <3>1
    <3>2. CASE l \in Processed
      <4>1. NewId(l) \in Ids /\ NewId(l) # new /\ NewId(l)' = NewId(l)
        BY <1>2, <1>8, <2>4, <3>2
      <4> QED BY <1>1, <2>1, <2>7, <3>2, <4>1
    <3> QED BY <3>1, <3>2
  <2> QED BY <1>7, <2>1, <2>6, <2>8, <2>9, <2>10 DEF TagsInv
<1>10. WindowInv'
  <2>1. \A l \in Processed :
          IF NewId(l) < m.wbId
          THEN NewId(l) \in DOMAIN m.out /\ m.out[NewId(l)] = NewRec(layout[l])
          ELSE /\ NewId(l) % WindowSize \in DOMAIN m.wbuf
               /\ m.wbuf[NewId(l) % WindowSize] = NewRec(layout[l])
    BY DEF WindowInv
  <2> SUFFICES ASSUME NEW l \in Processed'
               PROVE  IF NewId(l)' < m'.wbId
                      THEN NewId(l)' \in DOMAIN m'.out /\ m'.out[NewId(l)'] = NewRec(layout[l])'
                      ELSE /\ NewId(l)' % WindowSize \in DOMAIN m'.wbuf
                           /\ m'.wbuf[NewId(l)' % WindowSize] = NewRec(layout[l])'
    BY DEF WindowInv
  <2>2. NewId(l)' = NewId(l) /\ NewRec(layout[l])' = NewRec(layout[l])  BY <1>1, <1>2, <1>3
  <2>3. m'.wbuf = [ x \in DOMAIN m.wbuf \cup {new % WindowSize} |->
                      IF x = new % WindowSize THEN NewRec(layout[at]) ELSE m.wbuf[x] ]
    BY DEF With
  <2>4. new \in Nat /\ NewId(l) \in Nat  BY <1>5, <1>6
  <2>5. CASE l = at
    <3>1. ~(NewId(l)' < m'.wbId)  BY <1>5, <2>2, <2>4, <2>5
    <3> QED BY <2>2, <2>3, <2>5, <3>1
  <2>6. CASE l \in Processed /\ NewId(l) < m.wbId  BY <2>1, <2>2, <2>6
  <2>7. CASE l \in Processed /\ ~(NewId(l) < m.wbId)
    <3>1. NewId(l) # new /\ NewId(l) >= m.wbId  BY <1>5, <1>6, <2>4, <2>7
    <3>2. NewId(l) < m.wbId + WindowSize /\ new < m.wbId + WindowSize  BY <2>7
    <3>3. NewId(l) % WindowSize # new % WindowSize
      <4> DEFINE x == NewId(l)
      <4>1. x \in Nat /\ x # new /\ m.wbId <= x /\ x < m.wbId + WindowSize
            /\ new \in Nat /\ m.wbId <= new /\ new < m.wbId + WindowSize
        BY <1>5, <2>4, <3>1, <3>2
      <4> HIDE DEF x, new
      <4>2. x % WindowSize # new % WindowSize  BY <1>5, <4>1, SameSlot
      <4> QED BY <4>2 DEF x, new
    <3> QED BY <2>1, <2>2, <2>3, <2>7, <3>3
  <2> QED BY <2>5, <2>6, <2>7
<1> QED BY <1>9, <1>10

LEMMA WindowTyped ==
    HalfWindow \in Nat \ {0} /\ WindowSize \in Nat \ {0} /\ WindowSize = 2 * HalfWindow
<1>1. MergeSectors \in Nat \ {0} /\ NodesPerSector \in Nat \ {0}  BY MergeAssumption
<1>2. 1 * NodesPerSector <= MergeSectors * NodesPerSector /\ MergeSectors * NodesPerSector \in Nat
  BY <1>1, MulMono
<1>3. HalfWindow \in Nat \ {0}  BY <1>1, <1>2 DEF HalfWindow
<1> QED BY <1>3 DEF WindowSize

(* A chunk of the second pass: at most half a window, between two edges. *)
LEMMA ChunkEdges ==
    ASSUME IndexInv, NEW sector \in Nat, sector % MergeSectors = 0,
           NEW lo, lo = sector * NodesPerSector, lo <= Cardinality(Locs),
           NEW hi, ChunkFrom(sector, MergeSectors, lo, hi)
    PROVE  /\ lo \in Nat /\ hi \in Nat /\ lo <= hi /\ hi <= lo + HalfWindow
           /\ Edge(lo) /\ Edge(hi)
<1>1. Cardinality(Locs) \in Nat  BY DEF IndexInv, LocsInv
<1>2. MergeSectors \in Nat \ {0}  BY MergeAssumption
<1>3. lo \in Nat /\ hi \in Nat /\ lo <= hi /\ hi <= lo + HalfWindow /\ hi <= Cardinality(Locs)
  BY DEF ChunkFrom, HalfWindow
<1>4. Edge(lo)  BY <1>1, EdgeOfChunk
<1>5. Edge(hi)
  <2>1. CASE hi = Cardinality(Locs)  BY <1>1, <2>1 DEF Edge
  <2>2. CASE hi = (sector + MergeSectors) * NodesPerSector
    <3> DEFINE next == sector + MergeSectors
    <3>1. next \in Nat  BY <1>2
    <3>2. next % MergeSectors = 0
      <4>1. (sector + MergeSectors) % MergeSectors = 0 /\ 0 % MergeSectors = 0
        BY <1>2, NextMultiple
      <4> QED BY <4>1
    <3>3. next * NodesPerSector <= Cardinality(Locs)  BY <1>3, <2>2
    <3> HIDE DEF next
    <3>4. Edge(next * NodesPerSector)  BY <1>1, <3>1, <3>2, <3>3, EdgeOfChunk
    <3> QED BY <2>2, <3>4 DEF next
  <2> QED BY <2>1, <2>2 DEF ChunkFrom
<1> QED BY <1>3, <1>4, <1>5

(* The second pass leaves the first one's results alone. *)
LEMMA ProcessSame ==
    ASSUME MergeInv, m.pc = "process", ProcessFields, SameReads, m'.used \in Nat, Base' = Base,
           nextTag' = nextTag
    PROVE  /\ NumbersInv' /\ NhoodsInv' /\ UnwrittenInv' /\ HeaderInv' /\ HalvesInv'
           /\ MergeShape' /\ Writing' /\ Merging'
<1> USE DEF MergeInv
<1>1. Merging /\ m'.pc = "process"  BY DEF Merging, ProcessFields
<1>2. Numbered' = Numbered /\ Collected' = Collected  BY <1>1, PartsSame
<1>3. NumbersInv' /\ NhoodsInv'  BY <1>1, <1>2, NumbersStay, NhoodsStay DEF ProcessFields
<1>4. UnwrittenInv' /\ HeaderInv'  BY <1>1 DEF UnwrittenInv, HeaderInv
<1>5. HalvesInv'
  <2>1. Early(Base)' = Early(Base)
    <3>1. LiveLocs' = LiveLocs /\ layout' = layout /\ \A x : Dead(x)' <=> Dead(x)  BY DEF SameReads
    <3>2. \A l : Dead(layout[l])' <=> Dead(layout[l])  BY <3>1
    <3>3. \A l : l \in Early(Base)' <=> l \in Early(Base)  BY <3>1, <3>2 DEF Early
    <3> QED BY <3>3, SetExtensionality
  <2> QED BY <1>1, <2>1 DEF HalvesInv, ProcessFields
<1>6. MergeShape' /\ Writing' /\ Merging'
  <2>1. /\ m.kind \in {"final", "stream"} /\ m.dels \subseteq 0 .. nextTag - 1
        /\ m.npoints \in Nat /\ m.wbId \in Nat /\ m.used \in Nat
    BY <1>1, FieldSet
  <2> QED BY <1>1, <2>1 DEF MergeShape, Merging, Writing, ProcessFields
<1> QED BY <1>3, <1>4, <1>5, <1>6

LEMMA ProcessKeeps ==
    ASSUME MergeInv, Process
    PROVE  MergeInv'
<1> USE DEF MergeInv
<1>1. /\ m.pc = "process" /\ Merging /\ ProcessFields
      /\ UNCHANGED <<indexVars, nextTag, deleted, dropped>>
      /\ \E w \in 1 .. Workers :
            /\ m.todo[w].from < m.todo[w].to /\ m'.todo = Advance(w)
            /\ LET at == m.todo[w].from IN
               \/ /\ at \notin { l \in LiveLocs : ~Dead(layout[l]) }
                  /\ m'.used = m.used /\ m'.wbuf = m.wbuf
                  /\ m'.newTags = m.newTags /\ m'.newData = m.newData
               \/ /\ at \in LiveLocs /\ ~Dead(layout[at])
                  /\ m'.used = m.used + 1
                  /\ m'.wbuf = With(m.wbuf, NewId(at) % WindowSize, NewRec(layout[at]))
                  /\ m'.newTags = With(m.newTags, NewId(at), tags[layout[at]])
                  /\ m'.newData = With(m.newData, NewId(at), data[layout[at]])
  BY ProcessCases
<1>2. PICK w \in 1 .. Workers :
            /\ m.todo[w].from < m.todo[w].to /\ m'.todo = Advance(w)
            /\ LET at == m.todo[w].from IN
               \/ /\ at \notin { l \in LiveLocs : ~Dead(layout[l]) }
                  /\ m'.used = m.used /\ m'.wbuf = m.wbuf
                  /\ m'.newTags = m.newTags /\ m'.newData = m.newData
               \/ /\ at \in LiveLocs /\ ~Dead(layout[at])
                  /\ m'.used = m.used + 1
                  /\ m'.wbuf = With(m.wbuf, NewId(at) % WindowSize, NewRec(layout[at]))
                  /\ m'.newTags = With(m.newTags, NewId(at), tags[layout[at]])
                  /\ m'.newData = With(m.newData, NewId(at), data[layout[at]])
  BY <1>1
<1> DEFINE at == m.todo[w].from
           lo == Base
           hi == ChunkEnd(m.sector, MergeSectors)
<1>3. Step = MergeSectors  BY <1>1 DEF Step
<1>4. /\ at \in Locs /\ at \notin Passed /\ lo <= at /\ at < hi
      /\ m.sector \in Nat /\ m.sector % MergeSectors = 0
      /\ lo = m.sector * NodesPerSector /\ lo <= Cardinality(Locs)
      /\ ChunkFrom(m.sector, MergeSectors, lo, hi)
      /\ Passed' = Passed \cup {at} /\ Passed \subseteq 0 .. hi - 1
      /\ ChunkInv' /\ SameReads /\ IndexInv' /\ Base' = Base
  <2>1. m.todo[w].from < m.todo[w].to /\ m'.todo = Advance(w)  BY <1>2
  <2>2. m'.sector = m.sector /\ m'.pc = m.pc /\ m'.dels = m.dels  BY <1>1 DEF ProcessFields
  <2>3. at = m.todo[w].from  OBVIOUS
  <2> HIDE DEF at
  <2> QED BY <1>1, <1>3, <2>1, <2>2, <2>3, ChunkAdvances
<1>5. m.npoints \in Nat /\ m.wbId \in Nat /\ m.used \in Nat  BY <1>1, FieldSet
<1>6. m'.used \in Nat  BY <1>2, <1>5
<1>7. /\ NumbersInv' /\ NhoodsInv' /\ UnwrittenInv' /\ HeaderInv' /\ HalvesInv'
      /\ MergeShape' /\ Writing' /\ Merging'
  BY <1>1, <1>4, <1>6, ProcessSame
<1>8. Writing /\ m'.pc = "process"  BY <1>1 DEF Writing, ProcessFields
<1>9. \A l : l \in Processed <=> l \in LiveLocs /\ ~Dead(layout[l]) /\ l \in Passed
  BY <1>1 DEF Processed
<1>10. \A l : l \in Processed' <=> l \in LiveLocs /\ ~Dead(layout[l]) /\ (l \in Passed \/ l = at)
  <2>1. LiveLocs' = LiveLocs /\ layout' = layout /\ \A x : Dead(x)' <=> Dead(x)
    BY <1>4 DEF SameReads
  <2>2. \A l : Dead(layout[l])' <=> Dead(layout[l])  BY <2>1
  <2> QED BY <1>4, <1>8, <2>1, <2>2 DEF Processed
<1>11. CASE at \notin { l \in LiveLocs : ~Dead(layout[l]) }
  <2>1. m'.used = m.used /\ m'.wbuf = m.wbuf /\ m'.newTags = m.newTags /\ m'.newData = m.newData
    BY <1>2, <1>11
  <2>2. Processed' = Processed
    <3>1. \A l : l \in Processed' <=> l \in Processed  BY <1>9, <1>10, <1>11
    <3> QED BY <3>1, SetExtensionality
  <2>3. TagsInv' /\ WindowInv'
    BY <1>1, <1>4, <1>7, <1>8, <2>1, <2>2, WrittenStays DEF ProcessFields
  <2> QED BY <1>4, <1>7, <2>3
<1>12. CASE at \in LiveLocs /\ ~Dead(layout[at])
  <2>1. /\ m'.used = m.used + 1
        /\ m'.wbuf = With(m.wbuf, NewId(at) % WindowSize, NewRec(layout[at]))
        /\ m'.newTags = With(m.newTags, NewId(at), tags[layout[at]])
        /\ m'.newData = With(m.newData, NewId(at), data[layout[at]])
    BY <1>2, <1>12
  <2>2. at \notin Processed /\ Processed' = Processed \cup {at}
    <3>1. \A l : l \in Processed' <=> l \in Processed \cup {at}  BY <1>9, <1>10, <1>12
    <3> QED BY <1>4, <1>9, <3>1, SetExtensionality
  <2>3. /\ lo \in Nat /\ hi \in Nat /\ lo <= hi /\ hi <= lo + HalfWindow
        /\ Edge(lo) /\ Edge(hi)
    <3> HIDE DEF lo, hi
    <3> QED BY <1>4, ChunkEdges
  <2>4. m.wbId <= Cardinality(Early(lo)) /\ Cardinality(Early(lo)) - m.wbId < HalfWindow
    BY <1>1 DEF HalvesInv
  <2>5. HalfWindow \in Nat \ {0} /\ WindowSize \in Nat \ {0} /\ WindowSize = 2 * HalfWindow
    BY WindowTyped
  <2>6. \A l \in Processed \cup {at} : l \in LiveLocs /\ ~Dead(layout[l]) /\ l < hi
    <3>1. hi \in Nat /\ Passed \subseteq 0 .. hi - 1 /\ at < hi  BY <1>4, <2>3
    <3> HIDE DEF at, hi
    <3>2. \A l \in Passed : l < hi  BY <3>1
    <3> QED BY <1>9, <1>12, <3>1, <3>2
  <2>7. \A l \in LiveLocs : l \in Nat  BY IdsAndLocs
  <2>8. \A l \in Processed \cup {at} : NewId(l) \in 0 .. m.npoints - 1
    <3>1. \A l : l \in Numbered <=> l \in LiveLocs /\ ~Dead(layout[l])  BY <1>1, AllPassed
    <3>2. m.idMap \in [{ layout[l] : l \in Numbered } -> 0 .. m.npoints - 1]
      BY <1>1 DEF NumbersInv
    <3>3. \A l \in Processed \cup {at} : l \in Numbered  BY <2>6, <3>1
    <3>4. \A l \in Numbered : layout[l] \in { layout[i] : i \in Numbered }  OBVIOUS
    <3> QED BY <3>2, <3>3, <3>4 DEF NewId
  <2> HIDE DEF at, lo, hi
  <2>9. /\ Cardinality(Early(lo)) \in Nat
        /\ \A l \in LiveLocs : ~Dead(layout[l]) /\ NewId(l) < Cardinality(Early(lo)) => l < lo
    BY <1>1, <2>3, EarlyNumbered
  <2>10. /\ Cardinality(Early(hi)) \in Nat
         /\ \A l \in Early(hi) : NewId(l) \in 0 .. Cardinality(Early(hi)) - 1
    BY <1>1, <2>3, EarlyNumbered
  <2>11. Cardinality(Early(hi)) <= Cardinality(Early(lo)) + HalfWindow
    BY <2>3, <2>5, EarlyGrows
  <2>12. NewId(at) >= m.wbId
    <3>1. ~(NewId(at) < Cardinality(Early(lo)))
      <4>1. ~(at < lo)  BY <1>4, <1>12, <2>3, <2>7
      <4> QED BY <1>12, <2>9, <4>1
    <3> QED BY <1>5, <2>4, <2>8, <2>9, <3>1
  <2>13. \A l \in Processed \cup {at} : NewId(l) < m.wbId + WindowSize
    <3> SUFFICES ASSUME NEW l \in Processed \cup {at} PROVE NewId(l) < m.wbId + WindowSize
      OBVIOUS
    <3>1. l \in Early(hi)  BY <2>6 DEF Early
    <3>2. NewId(l) \in 0 .. Cardinality(Early(hi)) - 1  BY <2>10, <3>1
    <3> QED BY <1>5, <2>4, <2>5, <2>9, <2>10, <2>11, <3>2
  <2>14. TagsInv' /\ WindowInv'
    BY <1>1, <1>4, <1>7, <1>8, <1>12, <2>1, <2>2, <2>5, <2>12, <2>13, WrittenGrows DEF ProcessFields
  <2> QED BY <1>4, <1>7, <2>14
<1> QED BY <1>11, <1>12

-----------------------------------------------------------------------------
(* Writing the window back. *)

(* f is the merge with more of the new file written, and every processed    *)
(* record still in the file or in the window.                               *)
Flushed(f) ==
    /\ f = [ x \in MergeFields |-> f[x] ] /\ f.pc = m.pc /\ f.kind = m.kind /\ f.dels = m.dels
    /\ f.sector = m.sector /\ f.todo = m.todo
    /\ f.idMap = m.idMap /\ f.nhoods = m.nhoods /\ f.npoints = m.npoints
    /\ f.used = m.used /\ f.wbuf = m.wbuf
    /\ f.newTags = m.newTags /\ f.newData = m.newData /\ f.header = m.header
    /\ f.wbId \in Nat
    /\ \A l \in Processed :
          IF NewId(l) < f.wbId
          THEN NewId(l) \in DOMAIN f.out /\ f.out[NewId(l)] = NewRec(layout[l])
          ELSE /\ NewId(l) % WindowSize \in DOMAIN m.wbuf
               /\ m.wbuf[NewId(l) % WindowSize] = NewRec(layout[l])

LEMMA NotFlushed ==
    ASSUME MergeInv, Writing
    PROVE  Flushed(m)
<1>1. Merging  BY DEF Writing, Merging
<1>2. m = [ f \in MergeFields |-> m[f] ] /\ m.wbId \in Nat  BY <1>1, FieldSet DEF MergeInv
<1> QED BY <1>2 DEF Flushed, MergeInv, WindowInv

(* The sectors of n records stay within the half of the window. *)
LEMMA HalfHolds ==
    ASSUME NEW n \in Nat, n <= HalfWindow
    PROVE  /\ DivUp(n, NodesPerSector) * NodesPerSector \in Nat
           /\ n <= DivUp(n, NodesPerSector) * NodesPerSector
           /\ DivUp(n, NodesPerSector) * NodesPerSector <= HalfWindow
<1> DEFINE s == NodesPerSector
           d == DivUp(n, s)
<1>1. s \in Nat \ {0} /\ MergeSectors \in Nat \ {0} /\ HalfWindow = MergeSectors * s
  BY MergeAssumption DEF HalfWindow
<1> HIDE DEF s
<1>2. d \in Nat /\ d * s >= n /\ (d > 0 => (d - 1) * s < n)  BY <1>1, DivUpCovers
<1> HIDE DEF d
<1>3. d * s \in Nat /\ n <= d * s  BY <1>1, <1>2
<1>4. HalfWindow \in Nat  BY WindowTyped
<1>5. d * s <= HalfWindow
  <2>1. CASE d = 0
    <3>1. d * s = 0  BY <1>1, <2>1
    <3> QED BY <1>4, <3>1
  <2>2. CASE d # 0
    <3> DEFINE e == d - 1
    <3>1. e \in Nat /\ d = e + 1 /\ e * s < n  BY <1>2, <2>2
    <3> HIDE DEF e
    <3>2. e * s \in Nat  BY <1>1, <3>1
    <3>3. e * s < MergeSectors * s  BY <1>1, <1>4, <3>1, <3>2
    <3>4. e < MergeSectors  BY <1>1, <3>1, <3>3, MulStrict
    <3>5. d <= MergeSectors  BY <1>1, <3>1, <3>4
    <3> QED BY <1>1, <1>2, <3>5, MulMono
  <2> QED BY <1>2, <2>1, <2>2
<1> QED BY <1>3, <1>5 DEF d, s

LEMMA WriteBackWrites ==
    ASSUME MergeInv, Writing, m.wbId % HalfWindow = 0, m.wbId <= m.used,
           NEW n, n = IF m.used - m.wbId < HalfWindow THEN m.used - m.wbId ELSE HalfWindow
    PROVE  Flushed(WriteBack) /\ WriteBack.wbId = m.wbId + n /\ n \in Nat
<1> USE DEF MergeInv
<1> DEFINE h == HalfWindow
           base == ((m.wbId % WindowSize) \div h) * h
           size == DivUp(n, NodesPerSector) * NodesPerSector
           slots == { i \in 0 .. size - 1 : base + i \in DOMAIN m.wbuf }
           written == { m.wbId + i : i \in slots }
           out == [ l \in written \cup DOMAIN m.out |->
                      IF l \in written THEN m.wbuf[base + l - m.wbId] ELSE m.out[l] ]
<1>1. Merging  BY DEF Writing, Merging
<1>2. /\ DOMAIN m = MergeFields /\ m = [ f \in MergeFields |-> m[f] ]
      /\ m.npoints \in Nat /\ m.wbId \in Nat /\ m.used \in Nat
  BY <1>1, FieldSet
<1>3. h \in Nat \ {0} /\ WindowSize \in Nat \ {0} /\ WindowSize = 2 * h  BY WindowTyped
<1>4. WriteBack = [m EXCEPT !.wbId = m.wbId + n, !.out = out]
  <2>1. WriteBack = [m EXCEPT !.wbId = @ + n,
                       !.out = [ l \in written \cup DOMAIN @ |->
                                IF l \in written THEN m.wbuf[base + l - m.wbId] ELSE @[l] ]]
    BY DEF WriteBack
  <2> HIDE DEF written, base
  <2> QED BY <2>1
<1>5. n \in Nat /\ n <= h /\ m.wbId + n <= m.used  BY <1>2, <1>3
<1>6. size \in Nat /\ n <= size /\ size <= h  BY <1>5, HalfHolds
<1>7. PICK k \in Nat : m.wbId = k * h
  <2>1. m.wbId \in Nat /\ h \in Nat \ {0}  BY <1>2, <1>3
  <2> HIDE DEF h
  <2>2. PICK q \in Nat, r \in 0 .. h - 1 : q = m.wbId \div h /\ r = m.wbId % h /\ m.wbId = h * q + r
    BY <2>1, DivMod, Zenon
  <2>3. r = 0  BY <2>2 DEF h
  <2>4. m.wbId = q * h  BY <2>1, <2>2, <2>3
  <2> QED BY <2>4
<1>8. \A i \in 0 .. h - 1 : base + i = (m.wbId + i) % WindowSize
  <2> SUFFICES ASSUME NEW i \in 0 .. h - 1 PROVE base + i = (m.wbId + i) % WindowSize
    OBVIOUS
  <2> HIDE DEF h
  <2>1. (((k * h) % (2 * h)) \div h) * h + i = (k * h + i) % (2 * h)  BY <1>3, HalfStands
  <2> QED BY <1>3, <1>7, <2>1
<1>9. base \in Int
  <2>1. m.wbId % WindowSize \in Nat  BY <1>2, <1>3
  <2>2. (m.wbId % WindowSize) \div h \in Int  BY <1>3, <2>1
  <2> QED BY <1>3, <2>2
<1> HIDE DEF base, size, h
<1>10. \A x \in written : x >= m.wbId
  <2>1. \A i \in slots : i \in Nat  BY <1>6
  <2> QED BY <1>2, <2>1
<1>11. \A l \in Processed :
          IF NewId(l) < m.wbId + n
          THEN NewId(l) \in DOMAIN out /\ out[NewId(l)] = NewRec(layout[l])
          ELSE /\ NewId(l) % WindowSize \in DOMAIN m.wbuf
               /\ m.wbuf[NewId(l) % WindowSize] = NewRec(layout[l])
  <2> SUFFICES ASSUME NEW l \in Processed
               PROVE  IF NewId(l) < m.wbId + n
                      THEN NewId(l) \in DOMAIN out /\ out[NewId(l)] = NewRec(layout[l])
                      ELSE /\ NewId(l) % WindowSize \in DOMAIN m.wbuf
                           /\ m.wbuf[NewId(l) % WindowSize] = NewRec(layout[l])
    OBVIOUS
  <2> DEFINE x == NewId(l)
  <2>1. IF x < m.wbId
        THEN x \in DOMAIN m.out /\ m.out[x] = NewRec(layout[l])
        ELSE /\ x % WindowSize \in DOMAIN m.wbuf
             /\ m.wbuf[x % WindowSize] = NewRec(layout[l])
    BY DEF WindowInv
  <2>2. x \in Nat
    <3>1. l \in Numbered  BY <1>1 DEF Writing, Processed, Numbered, Passed
    <3>2. m.idMap \in [{ layout[i] : i \in Numbered } -> 0 .. m.npoints - 1]
      BY <1>1 DEF NumbersInv
    <3>3. layout[l] \in { layout[i] : i \in Numbered }  BY <3>1
    <3>4. x \in 0 .. m.npoints - 1  BY <3>2, <3>3 DEF NewId
    <3> QED BY <1>2, <3>4
  <2> HIDE DEF x
  <2>3. CASE x < m.wbId
    <3>1. x \notin written
      <4>1. ~(x >= m.wbId)  BY <1>2, <2>2, <2>3
      <4> QED BY <1>10, <4>1
    <3>2. x < m.wbId + n  BY <1>2, <1>5, <2>2, <2>3
    <3> HIDE DEF written
    <3>3. x \in DOMAIN out /\ out[x] = m.out[x]  BY <2>1, <2>3, <3>1
    <3> QED BY <2>1, <2>3, <3>2, <3>3 DEF x
  <2>4. CASE ~(x < m.wbId) /\ x < m.wbId + n
    <3> DEFINE i == x - m.wbId
    <3>1. i \in 0 .. n - 1 /\ x = m.wbId + i  BY <1>2, <1>5, <2>2, <2>4
    <3>2. i \in 0 .. h - 1 /\ i \in 0 .. size - 1  BY <1>3, <1>5, <1>6, <3>1
    <3>3. base + i = x % WindowSize  BY <1>8, <3>1, <3>2
    <3>4. i \in slots  BY <2>1, <2>4, <3>2, <3>3
    <3>5. x \in written  BY <3>1, <3>4
    <3>6. base + x - m.wbId = base + i  BY <1>2, <1>9, <2>2
    <3> HIDE DEF written, i
    <3>7. x \in DOMAIN out /\ out[x] = m.wbuf[base + x - m.wbId]  BY <3>5
    <3> QED BY <2>1, <2>4, <3>3, <3>6, <3>7 DEF x
  <2>5. CASE ~(x < m.wbId) /\ ~(x < m.wbId + n)  BY <2>1, <2>5 DEF x
  <2> QED BY <2>3, <2>4, <2>5
<1> HIDE DEF out
<1>12. m.wbId + n \in Nat  BY <1>2, <1>5
<1>13. /\ WriteBack = [ x \in MergeFields |-> WriteBack[x] ] /\ WriteBack.pc = m.pc
       /\ WriteBack.kind = m.kind /\ WriteBack.dels = m.dels
       /\ WriteBack.sector = m.sector /\ WriteBack.todo = m.todo
       /\ WriteBack.idMap = m.idMap /\ WriteBack.nhoods = m.nhoods /\ WriteBack.npoints = m.npoints
       /\ WriteBack.used = m.used /\ WriteBack.wbuf = m.wbuf
       /\ WriteBack.newTags = m.newTags /\ WriteBack.newData = m.newData
       /\ WriteBack.header = m.header
       /\ WriteBack.wbId = m.wbId + n /\ WriteBack.out = out
  BY <1>2, <1>4 DEF MergeFields
<1> QED BY <1>5, <1>11, <1>12, <1>13 DEF Flushed

(* What is written stays true of more of the file. *)
LEMMA WrittenFlushed ==
    ASSUME MergeInv, Writing, Writing', SameReads, Processed' = Processed, ChunkFields,
           NEW f, Flushed(f), m'.wbId = f.wbId, m'.out = f.out
    PROVE  TagsInv' /\ WindowInv'
<1>1. layout' = layout /\ tags' = tags  BY DEF SameReads
<1>2. \A l : NewId(l)' = NewId(l)  BY <1>1 DEF NewId, ChunkFields
<1>3. \A id : NewRec(id)' = NewRec(id)  BY NewRecsSame DEF ChunkFields
<1>4. { NewId(l) : l \in Processed }' = { NewId(l) : l \in Processed }  BY <1>2
<1>5. TagsInv'
  <2>1. /\ m.newTags \in [{ NewId(l) : l \in Processed } -> Points] /\ m.newData = m.newTags
        /\ \A l \in Processed : m.newTags[NewId(l)] = tags[layout[l]]
        /\ m.used = Cardinality({ NewId(l) : l \in Processed })
    BY DEF MergeInv, TagsInv
  <2>2. m'.newTags = m.newTags /\ m'.newData = m.newData /\ m'.used = m.used  BY DEF ChunkFields
  <2>3. \A l \in Processed' : m'.newTags[NewId(l)'] = tags'[layout'[l]]  BY <1>1, <1>2, <2>1, <2>2
  <2> QED BY <1>4, <2>1, <2>2, <2>3 DEF TagsInv
<1>6. WindowInv'
  <2>1. \A l \in Processed :
          IF NewId(l) < f.wbId
          THEN NewId(l) \in DOMAIN f.out /\ f.out[NewId(l)] = NewRec(layout[l])
          ELSE /\ NewId(l) % WindowSize \in DOMAIN m.wbuf
               /\ m.wbuf[NewId(l) % WindowSize] = NewRec(layout[l])
    BY DEF Flushed
  <2>2. m'.wbuf = m.wbuf  BY DEF ChunkFields
  <2> SUFFICES ASSUME NEW l \in Processed
               PROVE  IF NewId(l)' < m'.wbId
                      THEN NewId(l)' \in DOMAIN m'.out /\ m'.out[NewId(l)'] = NewRec(layout[l])'
                      ELSE /\ NewId(l)' % WindowSize \in DOMAIN m'.wbuf
                           /\ m'.wbuf[NewId(l)' % WindowSize] = NewRec(layout[l])'
    BY DEF WindowInv
  <2>3. NewId(l)' = NewId(l) /\ NewRec(layout[l])' = NewRec(layout[l])  BY <1>1, <1>2, <1>3
  <2> QED BY <2>1, <2>2, <2>3
<1> QED BY <1>5, <1>6

(* What a chunk of the second pass leaves. *)
LEMMA ProcessOver ==
    ASSUME MergeInv, m.pc = "process", ChunkDone, NEW hi, hi = ChunkEnd(m.sector, MergeSectors)
    PROVE  /\ hi \in Nat /\ Edge(hi)
           /\ m.used = Cardinality(Early(hi)) /\ m.used \in Nat
           /\ m.wbId \in Nat /\ m.wbId % HalfWindow = 0 /\ m.wbId <= m.used
           /\ m.used - m.wbId < WindowSize
           /\ \A l \in LiveLocs : l < hi => (~Dead(layout[l]) <=> l \in Processed)
           /\ LastChunk(MergeSectors) => hi = Cardinality(Locs)
<1> USE DEF MergeInv
<1>1. Merging /\ Writing /\ Step = MergeSectors  BY DEF Merging, Writing, Step
<1>2. m.wbId \in Nat /\ m.used \in Nat /\ m.npoints \in Nat  BY <1>1, FieldSet
<1>3. ChunkLeft(m.sector, MergeSectors)  BY <1>1, ChunkOver
<1> DEFINE lo == Base
<1>4. /\ m.sector \in Nat /\ m.sector % MergeSectors = 0
      /\ lo = m.sector * NodesPerSector /\ lo <= Cardinality(Locs)
      /\ ChunkFrom(m.sector, MergeSectors, lo, hi)
      /\ Passed = 0 .. hi - 1
  BY <1>3 DEF ChunkLeft
<1>5. m.wbId % HalfWindow = 0 /\ m.wbId <= Cardinality(Early(lo))
      /\ Cardinality(Early(lo)) - m.wbId < HalfWindow
  BY DEF HalvesInv
<1> HIDE DEF lo
<1>6. lo \in Nat /\ hi \in Nat /\ lo <= hi /\ hi <= lo + HalfWindow /\ Edge(lo) /\ Edge(hi)
  BY <1>4, ChunkEdges
<1>7. \A l \in LiveLocs : l \in Nat  BY IdsAndLocs
<1>8. \A l : l \in Processed <=> l \in LiveLocs /\ ~Dead(layout[l]) /\ l < hi
  <2>1. \A l : l \in Processed <=> l \in LiveLocs /\ ~Dead(layout[l]) /\ l \in Passed
    BY DEF Processed
  <2>2. \A l \in LiveLocs : l \in Passed <=> l < hi  BY <1>4, <1>6, <1>7
  <2> QED BY <2>1, <2>2
<1>9. Processed = Early(hi)
  <2>1. \A l : l \in Processed <=> l \in Early(hi)  BY <1>8 DEF Early
  <2> QED BY <2>1, SetExtensionality
<1>10. m.used = Cardinality(Early(hi))
  <2>1. Cardinality({ NewId(l) : l \in Early(hi) }) = Cardinality(Early(hi))
    BY <1>1, <1>6, EarlyNumbered
  <2>2. m.used = Cardinality({ NewId(l) : l \in Processed })  BY <1>1 DEF TagsInv
  <2> QED BY <1>9, <2>1, <2>2
<1>11. HalfWindow \in Nat \ {0} /\ WindowSize \in Nat \ {0} /\ WindowSize = 2 * HalfWindow
  BY WindowTyped
<1>12. /\ Cardinality(Early(lo)) \in Nat /\ Cardinality(Early(hi)) \in Nat
       /\ Cardinality(Early(lo)) <= Cardinality(Early(hi))
       /\ Cardinality(Early(hi)) <= Cardinality(Early(lo)) + HalfWindow
  BY <1>6, <1>11, EarlyGrows
<1>13. m.wbId <= m.used /\ m.used - m.wbId < WindowSize
  BY <1>2, <1>5, <1>10, <1>11, <1>12
<1>14. LastChunk(MergeSectors) => hi = Cardinality(Locs)  BY <1>4 DEF LastChunk, ChunkFrom
<1> QED BY <1>2, <1>5, <1>6, <1>8, <1>10, <1>13, <1>14

(* The window is written back when half of it is full, and never overfull. *)
LEMMA WindowLeft ==
    ASSUME MergeInv, m.pc = "process", ChunkDone,
           NEW f, f = IF m.used - m.wbId >= HalfWindow THEN WriteBack ELSE m
    PROVE  /\ Flushed(f) /\ f.wbId \in Nat /\ f.wbId % HalfWindow = 0
           /\ f.wbId <= m.used /\ m.used - f.wbId < HalfWindow
<1>1. Writing  BY DEF Writing
<1> DEFINE hi == ChunkEnd(m.sector, MergeSectors)
           h == HalfWindow
<1>2. /\ m.used \in Nat /\ m.wbId \in Nat /\ m.wbId % h = 0 /\ m.wbId <= m.used
      /\ m.used - m.wbId < WindowSize
  BY ProcessOver
<1>3. h \in Nat \ {0} /\ WindowSize = 2 * h  BY WindowTyped
<1>4. CASE m.used - m.wbId >= h
  <2> DEFINE n == IF m.used - m.wbId < h THEN m.used - m.wbId ELSE h
  <2>1. Flushed(WriteBack) /\ WriteBack.wbId = m.wbId + n
    <3>1. n = IF m.used - m.wbId < HalfWindow THEN m.used - m.wbId ELSE HalfWindow  OBVIOUS
    <3> HIDE DEF n
    <3> QED BY <1>1, <1>2, <3>1, WriteBackWrites
  <2>2. n = h  BY <1>2, <1>3, <1>4
  <2> HIDE DEF n, h
  <2>3. f.wbId = m.wbId + h /\ Flushed(f)  BY <1>4, <2>1, <2>2 DEF h
  <2>4. (m.wbId + h) % h = 0 /\ 0 % h = 0  BY <1>2, <1>3, NextMultiple
  <2>5. m.wbId + h \in Nat /\ m.wbId + h <= m.used /\ m.used - (m.wbId + h) < h
    BY <1>2, <1>3, <1>4
  <2> QED BY <2>3, <2>4, <2>5 DEF h
<1>5. CASE ~(m.used - m.wbId >= h)
  <2>1. f = m /\ Flushed(m)  BY <1>1, <1>5, NotFlushed
  <2>2. m.used - m.wbId < h  BY <1>2, <1>3, <1>5
  <2> QED BY <1>2, <2>1, <2>2
<1> QED BY <1>4, <1>5

(* What the window's way to the file leaves alone. *)
LEMMA FlushSame ==
    ASSUME MergeInv, m.pc \in {"process", "flush"}, UNCHANGED <<indexVars, nextTag, deleted, dropped>>,
           ChunkFields, m'.pc \in {"process", "flush"}, m'.wbId \in Nat
    PROVE  /\ SameReads /\ IndexInv' /\ NumbersInv' /\ NhoodsInv' /\ UnwrittenInv' /\ HeaderInv'
           /\ MergeShape' /\ Writing' /\ Merging'
<1> USE DEF MergeInv
<1>1. Merging /\ Writing  BY DEF Merging, Writing
<1>2. SameReads  BY ReadsSame DEF ChunkFields
<1>3. IndexInv'
  <2>1. deleted' \subseteq 0 .. nextTag - 1  BY DEF IndexInv, IdsInv
  <2> QED BY <2>1, IndexKept
<1>4. Numbered' = Numbered /\ Collected' = Collected  BY <1>1, <1>2, PartsSame
<1>5. NumbersInv' /\ NhoodsInv'  BY <1>1, <1>2, <1>4, NumbersStay, NhoodsStay DEF ChunkFields
<1>6. UnwrittenInv' /\ HeaderInv' /\ Writing'  BY DEF UnwrittenInv, HeaderInv, Writing
<1>7. MergeShape' /\ Merging'  BY <1>1, ShapeStays
<1> QED BY <1>2, <1>3, <1>5, <1>6, <1>7

LEMMA ProcessNextKeeps ==
    ASSUME MergeInv, ProcessNext
    PROVE  MergeInv'
<1> USE DEF MergeInv
<1> DEFINE f == IF m.used - m.wbId >= HalfWindow THEN WriteBack ELSE m
           hi == ChunkEnd(m.sector, MergeSectors)
<1>1. m.pc = "process" /\ ChunkDone /\ UNCHANGED <<indexVars, nextTag, deleted, dropped>>
  BY Zenon DEF ProcessNext
<1>2. m' = IF LastChunk(MergeSectors) THEN [f EXCEPT !.pc = "flush"]
           ELSE StartChunk(f, MergeSectors, m.sector + MergeSectors)
  BY Zenon DEF ProcessNext
<1>3. Merging /\ Writing /\ Step = MergeSectors  BY <1>1 DEF Merging, Writing, Step
<1>4. /\ hi \in Nat /\ Edge(hi)
      /\ m.used = Cardinality(Early(hi)) /\ m.used \in Nat
      /\ \A l \in LiveLocs : l < hi => (~Dead(layout[l]) <=> l \in Processed)
      /\ LastChunk(MergeSectors) => hi = Cardinality(Locs)
  BY <1>1, ProcessOver
<1>5. /\ Flushed(f) /\ f.wbId \in Nat /\ f.wbId % HalfWindow = 0
      /\ f.wbId <= m.used /\ m.used - f.wbId < HalfWindow
  BY <1>1, WindowLeft
<1>6. HalfWindow \in Nat \ {0} /\ WindowSize \in Nat \ {0} /\ WindowSize = 2 * HalfWindow
  BY WindowTyped
<1> HIDE DEF f, hi
<1>7. DOMAIN f = MergeFields  BY <1>5 DEF Flushed
<1>8. CASE LastChunk(MergeSectors)
  <2>1. m' = [f EXCEPT !.pc = "flush"]  BY <1>2, <1>8
  <2>2. ChunkFields /\ m'.pc = "flush" /\ m'.wbId = f.wbId /\ m'.out = f.out
    BY <1>5, <1>7, <2>1 DEF MergeFields, Flushed, ChunkFields
  <2>3. /\ SameReads /\ IndexInv' /\ NumbersInv' /\ NhoodsInv' /\ UnwrittenInv' /\ HeaderInv'
        /\ MergeShape' /\ Writing' /\ Merging'
    BY <1>1, <1>5, <2>2, FlushSame
  <2>4. Processed' = Processed
    <3>1. LiveLocs' = LiveLocs /\ layout' = layout /\ \A x : Dead(x)' <=> Dead(x)
      BY <2>3 DEF SameReads
    <3>2. \A l : Dead(layout[l])' <=> Dead(layout[l])  BY <3>1
    <3>3. \A l \in LiveLocs : l < hi  BY <1>4, <1>8, IdsAndLocs
    <3>4. \A l : l \in Processed' <=> l \in LiveLocs /\ ~Dead(layout[l])
      BY <2>2, <3>1, <3>2 DEF Processed
    <3>5. \A l : l \in Processed <=> l \in LiveLocs /\ ~Dead(layout[l])
      <4>1. \A l \in Processed : l \in LiveLocs  BY DEF Processed
      <4> QED BY <1>4, <3>3, <4>1
    <3> QED BY <3>4, <3>5, SetExtensionality
  <2>5. TagsInv' /\ WindowInv'  BY <1>3, <1>5, <2>2, <2>3, <2>4, WrittenFlushed
  <2>6. HalvesInv'
    <3>1. m'.used = m.used  BY <2>2 DEF ChunkFields
    <3>2. m.used - f.wbId < WindowSize  BY <1>4, <1>5, <1>6
    <3> QED BY <1>5, <2>2, <3>1, <3>2 DEF HalvesInv
  <2>7. ChunkInv'  BY <2>2 DEF ChunkInv
  <2> QED BY <2>3, <2>5, <2>6, <2>7
<1>9. CASE ~LastChunk(MergeSectors)
  <2> DEFINE todo == Blocks((m.sector + MergeSectors) * NodesPerSector,
                            ChunkEnd(m.sector + MergeSectors, MergeSectors))
  <2>1. m' = [f EXCEPT !.sector = m.sector + MergeSectors, !.todo = todo]
    BY <1>2, <1>9 DEF StartChunk
  <2>2. /\ ChunkFields /\ m'.pc = "process" /\ m'.wbId = f.wbId /\ m'.out = f.out
        /\ m'.sector = m.sector + MergeSectors /\ m'.todo = todo
    <3> HIDE DEF todo
    <3> QED BY <1>1, <1>5, <1>7, <2>1 DEF MergeFields, Flushed, ChunkFields
  <2>3. /\ SameReads /\ IndexInv' /\ NumbersInv' /\ NhoodsInv' /\ UnwrittenInv' /\ HeaderInv'
        /\ MergeShape' /\ Writing' /\ Merging'
    BY <1>1, <1>5, <2>2, FlushSame
  <2>4. Locs' = Locs /\ LiveLocs' = LiveLocs /\ layout' = layout /\ \A x : Dead(x)' <=> Dead(x)
    BY <2>3 DEF SameReads
  <2>5. ChunkInv' /\ Passed' = Passed /\ Base' = hi
    BY <1>1, <1>3, <1>9, <2>2, <2>4, ChunkFollows DEF hi
  <2>6. \A l : Dead(layout[l])' <=> Dead(layout[l])  BY <2>4
  <2>7. Processed' = Processed
    <3>1. \A l : l \in Processed' <=> l \in Processed  BY <1>1, <2>2, <2>4, <2>5, <2>6 DEF Processed
    <3> QED BY <3>1, SetExtensionality
  <2>8. TagsInv' /\ WindowInv'  BY <1>3, <1>5, <2>2, <2>3, <2>7, WrittenFlushed
  <2>9. HalvesInv'
    <3>1. Early(Base)' = Early(hi)
      <4>1. \A l : l \in Early(Base)' <=> l \in Early(hi)  BY <2>4, <2>5, <2>6 DEF Early
      <4> QED BY <4>1, SetExtensionality
    <3> QED BY <1>4, <1>5, <2>2, <3>1 DEF HalvesInv
  <2> QED BY <2>3, <2>5, <2>8, <2>9
<1> QED BY <1>8, <1>9

LEMMA FlushKeeps ==
    ASSUME MergeInv, Flush
    PROVE  MergeInv'
<1> USE DEF MergeInv
<1>1. /\ m.pc = "flush" /\ m.wbId < m.used /\ m' = WriteBack
      /\ UNCHANGED <<indexVars, nextTag, deleted, dropped>>
  BY Zenon DEF Flush
<1>2. Merging /\ Writing  BY <1>1 DEF Merging, Writing
<1>3. m.wbId \in Nat /\ m.used \in Nat  BY <1>2, FieldSet
<1> DEFINE h == HalfWindow
           n == IF m.used - m.wbId < h THEN m.used - m.wbId ELSE h
<1>4. h \in Nat \ {0} /\ WindowSize = 2 * h  BY WindowTyped
<1>5. m.wbId % h = 0 /\ m.used - m.wbId < WindowSize
  <2>1. m.wbId # m.used  BY <1>1, <1>3
  <2> QED BY <1>1, <2>1 DEF HalvesInv
<1>6. Flushed(WriteBack) /\ WriteBack.wbId = m.wbId + n /\ n \in Nat
  <2>1. n = IF m.used - m.wbId < HalfWindow THEN m.used - m.wbId ELSE HalfWindow  OBVIOUS
  <2>2. m.wbId <= m.used  BY <1>1, <1>3
  <2> HIDE DEF n
  <2> QED BY <1>2, <1>5, <2>1, <2>2, WriteBackWrites
<1> HIDE DEF h
<1>7. ChunkFields /\ m'.pc = "flush" /\ m'.wbId = m.wbId + n /\ m'.wbId \in Nat /\ m'.out = WriteBack.out
  BY <1>1, <1>3, <1>6 DEF Flushed, ChunkFields
<1>8. /\ SameReads /\ IndexInv' /\ NumbersInv' /\ NhoodsInv' /\ UnwrittenInv' /\ HeaderInv'
      /\ MergeShape' /\ Writing' /\ Merging'
  BY <1>1, <1>7, FlushSame
<1>9. Processed' = Processed
  <2>1. LiveLocs' = LiveLocs /\ layout' = layout /\ \A x : Dead(x)' <=> Dead(x)
    BY <1>8 DEF SameReads
  <2>2. \A l : Dead(layout[l])' <=> Dead(layout[l])  BY <2>1
  <2>3. \A l : l \in Processed' <=> l \in Processed  BY <1>1, <1>7, <2>1, <2>2 DEF Processed
  <2> QED BY <2>3, SetExtensionality
<1>10. TagsInv' /\ WindowInv'
  BY <1>1, <1>2, <1>6, <1>7, <1>8, <1>9, WrittenFlushed
<1>11. HalvesInv'
  <2>1. m'.used = m.used  BY <1>7 DEF ChunkFields
  <2>2. m.wbId + n <= m.used /\ m.used - (m.wbId + n) < WindowSize
    BY <1>1, <1>3, <1>4, <1>5, <1>6
  <2>3. (m.wbId + n) % h = 0 \/ m.wbId + n = m.used
    <3>1. CASE m.used - m.wbId < h  BY <1>3, <3>1
    <3>2. CASE ~(m.used - m.wbId < h)
      <4>1. (m.wbId + h) % h = 0 /\ 0 % h = 0  BY <1>3, <1>4, <1>5, NextMultiple
      <4> QED BY <3>2, <4>1
    <3> QED BY <3>1, <3>2
  <2> HIDE DEF n
  <2> QED BY <1>7, <2>1, <2>2, <2>3 DEF HalvesInv, h
<1>12. ChunkInv'  BY <1>7 DEF ChunkInv
<1> QED BY <1>8, <1>10, <1>11, <1>12

-----------------------------------------------------------------------------
(* The new file. *)

Alive == { id \in DOMAIN tags : ~Dead(id) }

(* Every survivor has one new id, and under it its tag and its record. *)
NewFile ==
    /\ m.npoints \in Nat /\ m.used = m.npoints
    /\ m.idMap \in [Alive -> 0 .. m.npoints - 1]
    /\ \A a, b \in Alive : m.idMap[a] = m.idMap[b] => a = b
    /\ \A x \in 0 .. m.npoints - 1 : \E id \in Alive : m.idMap[id] = x
    /\ m.newTags \in [0 .. m.npoints - 1 -> Points] /\ m.newData = m.newTags
    /\ \A id \in Alive :
          /\ m.newTags[m.idMap[id]] = tags[id]
          /\ m.wbId = m.used => m.idMap[id] \in DOMAIN m.out /\ m.out[m.idMap[id]] = NewRec(id)

LEMMA NewFileExact ==
    ASSUME MergeInv, m.pc \in {"flush", "install"}
    PROVE  NewFile /\ AllCollected
<1> USE DEF MergeInv
<1> DEFINE np == m.npoints
<1>1. Merging /\ Writing  BY DEF Merging, Writing
<1>2. np \in Nat /\ m.wbId \in Nat /\ m.used \in Nat  BY <1>1, FieldSet
<1>3. /\ \A l : l \in Numbered <=> l \in LiveLocs /\ ~Dead(layout[l])
      /\ AllCollected
  BY <1>1, AllPassed
<1>4. /\ m.idMap \in [{ layout[l] : l \in Numbered } -> 0 .. np - 1]
      /\ \A a, b \in Numbered : NewId(a) = NewId(b) => a = b
      /\ \A x \in 0 .. np - 1 : \E l \in Numbered : NewId(l) = x
  BY <1>1 DEF NumbersInv
<1>5. \A l : l \in Processed <=> l \in Numbered  BY <1>3 DEF Processed
<1>6. \A l \in Numbered : layout[l] \in Alive
  <2>1. \A l \in LiveLocs : layout[l] \in DOMAIN tags  BY IdsAndLocs
  <2> QED BY <1>3, <2>1 DEF Alive
<1>7. \A id \in Alive : \E l \in Numbered : layout[l] = id
  <2>1. \A id \in DOMAIN tags : \E l \in LiveLocs : layout[l] = id  BY DEF IndexInv, LocsInv
  <2> QED BY <1>3, <2>1 DEF Alive
<1>8. { layout[l] : l \in Numbered } = Alive  BY <1>6, <1>7
<1>9. m.idMap \in [Alive -> 0 .. np - 1]  BY <1>4, <1>8
<1>10. \A a, b \in Alive : m.idMap[a] = m.idMap[b] => a = b
  <2> SUFFICES ASSUME NEW a \in Alive, NEW b \in Alive, m.idMap[a] = m.idMap[b] PROVE a = b
    OBVIOUS
  <2>1. PICK i \in Numbered : layout[i] = a  BY <1>7
  <2>2. PICK j \in Numbered : layout[j] = b  BY <1>7
  <2>3. NewId(i) = NewId(j)  BY <2>1, <2>2 DEF NewId
  <2> QED BY <1>4, <2>1, <2>2, <2>3
<1>11. \A x \in 0 .. np - 1 : \E id \in Alive : m.idMap[id] = x
  <2> SUFFICES ASSUME NEW x \in 0 .. np - 1 PROVE \E id \in Alive : m.idMap[id] = x
    OBVIOUS
  <2>1. PICK l \in Numbered : NewId(l) = x  BY <1>4
  <2> QED BY <1>6, <2>1 DEF NewId
<1> DEFINE Ids == { NewId(l) : l \in Processed }
<1>12. Ids = 0 .. np - 1
  <2>1. \A l \in Numbered : NewId(l) \in 0 .. np - 1  BY <1>6, <1>9 DEF NewId
  <2>2. \A x : x \in Ids => x \in 0 .. np - 1  BY <1>5, <2>1
  <2>3. \A x \in 0 .. np - 1 : x \in Ids  BY <1>4, <1>5
  <2> HIDE DEF Ids
  <2>4. \A x : x \in Ids <=> x \in 0 .. np - 1  BY <2>2, <2>3
  <2> QED BY <2>4, SetExtensionality
<1>13. /\ m.newTags \in [Ids -> Points] /\ m.newData = m.newTags
       /\ \A l \in Processed : m.newTags[NewId(l)] = tags[layout[l]]
       /\ m.used = Cardinality(Ids)
  BY <1>1 DEF TagsInv
<1>14. m.used = np
  <2>1. 0 \in Int /\ np - 1 \in Int  BY <1>2
  <2>2. Cardinality(0 .. np - 1) = IF 0 > np - 1 THEN 0 ELSE np - 1 - 0 + 1  BY <2>1, FS_Interval
  <2>3. m.used = Cardinality(Ids)  BY <1>13
  <2> HIDE DEF Ids, np
  <2>4. m.used = Cardinality(0 .. np - 1)  BY <1>12, <2>3
  <2> QED BY <1>2, <2>2, <2>4 DEF np
<1>15. \A id \in Alive :
          /\ m.newTags[m.idMap[id]] = tags[id]
          /\ m.wbId = m.used => m.idMap[id] \in DOMAIN m.out /\ m.out[m.idMap[id]] = NewRec(id)
  <2> SUFFICES ASSUME NEW id \in Alive
               PROVE  /\ m.newTags[m.idMap[id]] = tags[id]
                      /\ m.wbId = m.used =>
                           m.idMap[id] \in DOMAIN m.out /\ m.out[m.idMap[id]] = NewRec(id)
    OBVIOUS
  <2>1. PICK l \in Numbered : layout[l] = id  BY <1>7
  <2>2. l \in Processed /\ NewId(l) = m.idMap[id]  BY <1>5, <2>1 DEF NewId
  <2>3. m.newTags[m.idMap[id]] = tags[id]  BY <1>13, <2>1, <2>2
  <2>4. ASSUME m.wbId = m.used
        PROVE  m.idMap[id] \in DOMAIN m.out /\ m.out[m.idMap[id]] = NewRec(id)
    <3>1. m.idMap[id] \in 0 .. np - 1  BY <1>9
    <3>2. NewId(l) < m.wbId  BY <1>2, <1>14, <2>2, <2>4, <3>1
    <3> QED BY <1>1, <2>1, <2>2, <3>2 DEF WindowInv
  <2> QED BY <2>3, <2>4
<1> QED BY <1>2, <1>3, <1>9, <1>10, <1>11, <1>12, <1>13, <1>14, <1>15 DEF NewFile

(* The list a merge writes for a survivor. *)
LEMMA NewRecExact ==
    ASSUME IndexInv, NewFile, AllCollected, NEW id \in Alive,
           NEW nhood, nhood = Pruned(id, Repaired(id)),
           NEW list, list = NewRec(id).nbrs
    PROVE  /\ NewRec(id) = [point |-> tags[id], nbrs |-> list]
           /\ PrunedTo(nhood, id, Bridged(id)) /\ Bridged(id) \subseteq Alive \ {id}
           /\ nhood \in Seq(Bridged(id)) /\ nhood \in Seq(Alive)
           /\ list = [ i \in 1 .. Len(nhood) |-> m.idMap[nhood[i]] ]
           /\ list \in Seq(0 .. m.npoints - 1) /\ Len(list) = Len(nhood)
           /\ list \in Seq((0 .. m.npoints - 1) \ {m.idMap[id]})
           /\ IsInjective(list) /\ Len(list) <= R
           /\ Range(list) = { m.idMap[n] : n \in Range(nhood) }
<1>1. id \in DOMAIN tags  BY DEF Alive
<1>2. PrunedTo(nhood, id, Bridged(id))  BY <1>1, NewListExact
<1>3. Bridged(id) \subseteq Alive \ {id}
  <2>1. Bridged(id) \subseteq { n \in DOMAIN tags : ~Dead(n) } \ {id}  BY <1>1, RepairedExact
  <2> QED BY <2>1 DEF Alive
<1>4. nhood \in Seq(Bridged(id)) /\ IsInjective(nhood) /\ Len(nhood) <= R  BY <1>2 DEF PrunedTo
<1>5. nhood \in Seq(Alive \ {id})
  <2>1. \A i \in 1 .. Len(nhood) : nhood[i] \in Alive \ {id}  BY <1>3, <1>4
  <2> QED BY <1>4, <2>1
<1>6. Rec(id).point = tags[id]
  <2>1. Rec(id) = [point |-> tags[id], nbrs |-> Rec(id).nbrs]  BY <1>1, IdsAndLocs
  <2> QED BY <2>1
<1>7. NewRec(id) = [point |-> Rec(id).point, nbrs |-> [ i \in DOMAIN nhood |-> m.idMap[nhood[i]] ]]
  BY DEF NewRec
<1>8. list = [ i \in 1 .. Len(nhood) |-> m.idMap[nhood[i]] ]  BY <1>4, <1>7
<1>9. \A i \in 1 .. Len(nhood) : nhood[i] \in Alive /\ nhood[i] # id  BY <1>5
<1>10. /\ m.idMap \in [Alive -> 0 .. m.npoints - 1]
       /\ \A a, b \in Alive : m.idMap[a] = m.idMap[b] => a = b
  BY DEF NewFile
<1>11. \A i \in 1 .. Len(nhood) : m.idMap[nhood[i]] \in (0 .. m.npoints - 1) \ {m.idMap[id]}
  BY <1>9, <1>10
<1>12. Len(nhood) \in Nat  BY <1>4
<1>13. list \in Seq((0 .. m.npoints - 1) \ {m.idMap[id]}) /\ Len(list) = Len(nhood)
  BY <1>8, <1>11, <1>12, IsASeq
<1>14. list \in Seq(0 .. m.npoints - 1)
  <2>1. \A i \in 1 .. Len(nhood) : m.idMap[nhood[i]] \in 0 .. m.npoints - 1  BY <1>11
  <2> QED BY <1>8, <1>12, <2>1, IsASeq
<1>15. IsInjective(list)
  <2>1. \A i, j \in 1 .. Len(nhood) : nhood[i] = nhood[j] => i = j  BY <1>4 DEF IsInjective
  <2>2. \A i, j \in 1 .. Len(nhood) : list[i] = list[j] => i = j  BY <1>8, <1>9, <1>10, <2>1
  <2>3. DOMAIN list = 1 .. Len(nhood)  BY <1>8
  <2> QED BY <2>2, <2>3 DEF IsInjective
<1>16. Range(list) = { m.idMap[n] : n \in Range(nhood) }
  <2>1. DOMAIN nhood = 1 .. Len(nhood) /\ DOMAIN list = 1 .. Len(nhood)  BY <1>4, <1>8
  <2>2. \A x : x \in Range(list) <=> \E i \in 1 .. Len(nhood) : x = m.idMap[nhood[i]]
    BY <1>8, <2>1 DEF Range
  <2>3. \A x : x \in { m.idMap[n] : n \in Range(nhood) } <=> \E i \in 1 .. Len(nhood) : x = m.idMap[nhood[i]]
    BY <2>1 DEF Range
  <2> QED BY <2>2, <2>3, SetExtensionality
<1>17. nhood \in Seq(Alive)
  <2>1. \A i \in 1 .. Len(nhood) : nhood[i] \in Alive  BY <1>9
  <2> QED BY <1>4, <2>1
<1> QED BY <1>2, <1>3, <1>4, <1>6, <1>7, <1>8, <1>13, <1>14, <1>15, <1>16, <1>17

(* Where searches of the new file may start. *)
LEMMA EntryChosen ==
    ASSUME IndexInv, AllCollected, NEW entry,
           entry = IF Dead(medoid) THEN m.nhoods[medoid][1] ELSE medoid
    PROVE  /\ Dead(medoid) /\ m.nhoods[medoid] = << >> => EntryPoints = {}
           /\ ~(Dead(medoid) /\ m.nhoods[medoid] = << >>) => entry \in EntryPoints
<1>1. medoid \in DOMAIN tags  BY DEF IndexInv, IdsInv
<1>2. CASE Dead(medoid)
  <2> DEFINE s == Sampled(medoid)
  <2>1. m.nhoods[medoid] = s
    <3>1. medoid \in { d \in DOMAIN tags : Dead(d) }  BY <1>1, <1>2
    <3> QED BY <3>1 DEF AllCollected
  <2>2. /\ \A n \in Range(s) : n \in Range(Rec(medoid).nbrs) /\ n \in DOMAIN tags \ {medoid} /\ ~Dead(n)
        /\ (\E n \in Range(Rec(medoid).nbrs) : ~Dead(n)) => s # << >>
        /\ s # << >> => s[1] \in Range(s)
    <3>1. s = Sampled(medoid)  OBVIOUS
    <3> HIDE DEF s
    <3> QED BY <1>1, <3>1, SampledExact
  <2>3. EntryPoints = { n \in Range(Rec(medoid).nbrs) : ~Dead(n) }  BY <1>2 DEF EntryPoints
  <2> HIDE DEF s
  <2>4. s = << >> => EntryPoints = {}  BY <2>2, <2>3
  <2>5. s # << >> => s[1] \in EntryPoints  BY <2>2, <2>3
  <2> QED BY <1>2, <2>1, <2>4, <2>5
<1>3. CASE ~Dead(medoid)  BY <1>3 DEF EntryPoints
<1> QED BY <1>2, <1>3

(* The header. *)
LEMMA EntryPointKeeps ==
    ASSUME MergeInv, EntryPoint
    PROVE  MergeInv'
<1> USE DEF MergeInv
<1> DEFINE alone == Dead(medoid) /\ m.nhoods[medoid] = << >>
           entry == IF Dead(medoid) THEN m.nhoods[medoid][1] ELSE medoid
<1>1. /\ m.pc = "flush" /\ m.wbId = m.used
      /\ UNCHANGED <<indexVars, nextTag, deleted, dropped>>
      /\ m' = IF alone THEN [m EXCEPT !.pc = "stopped"]
              ELSE [m EXCEPT !.pc = "install", !.header = NewEntry(entry)]
  BY Zenon DEF EntryPoint
<1>2. Merging /\ Writing  BY <1>1 DEF Merging, Writing
<1>3. /\ m = [ f \in MergeFields |-> m[f] ] /\ DOMAIN m = MergeFields
      /\ m.kind \in {"final", "stream"} /\ m.dels \subseteq 0 .. nextTag - 1
      /\ m.npoints \in Nat /\ m.wbId \in Nat /\ m.used \in Nat
  BY <1>2, FieldSet
<1>4. AllCollected  BY <1>1, NewFileExact
<1>5. /\ alone => EntryPoints = {}
      /\ ~alone => entry \in EntryPoints
  <2>1. entry = IF Dead(medoid) THEN m.nhoods[medoid][1] ELSE medoid  OBVIOUS
  <2> HIDE DEF entry
  <2> QED BY <1>4, <2>1, EntryChosen
<1>6. NewEntry(entry) = IF m.kind = "final" THEN m.idMap[entry] ELSE entry  BY DEF NewEntry
<1> HIDE DEF alone, entry
<1>7. /\ m' = [ f \in MergeFields |-> m'[f] ] /\ m'.kind = m.kind /\ m'.dels = m.dels
      /\ m'.idMap = m.idMap /\ m'.nhoods = m.nhoods /\ m'.npoints = m.npoints
      /\ m'.used = m.used /\ m'.wbId = m.wbId /\ m'.wbuf = m.wbuf /\ m'.out = m.out
      /\ m'.newTags = m.newTags /\ m'.newData = m.newData
      /\ \/ alone /\ m'.pc = "stopped"
         \/ ~alone /\ m'.pc = "install" /\ m'.header = NewEntry(entry)
  <2>1. CASE alone
    <3>1. m' = [m EXCEPT !.pc = "stopped"]  BY <1>1, <2>1
    <3> QED BY <1>3, <2>1, <3>1 DEF MergeFields
  <2>2. CASE ~alone
    <3>1. m' = [m EXCEPT !.pc = "install", !.header = NewEntry(entry)]  BY <1>1, <2>2
    <3> QED BY <1>3, <2>2, <3>1 DEF MergeFields
  <2> QED BY <2>1, <2>2
<1>8. Merging' /\ Writing' /\ m'.pc \notin {"populate", "process", "flush"}
  BY <1>7 DEF Merging, Writing
<1>9. SameReads  BY <1>1, <1>7, ReadsSame
<1>10. IndexInv'
  <2>1. deleted' \subseteq 0 .. nextTag - 1  BY <1>1 DEF IndexInv, IdsInv
  <2> QED BY <1>1, <2>1, IndexKept
<1>11. Numbered' = Numbered /\ Collected' = Collected  BY <1>1, <1>2, <1>8, <1>9, PartsSame
<1>12. NumbersInv' /\ NhoodsInv'  BY <1>2, <1>7, <1>9, <1>11, NumbersStay, NhoodsStay
<1>13. Processed' = Processed
  <2>1. LiveLocs' = LiveLocs /\ layout' = layout /\ \A x : Dead(x)' <=> Dead(x)
    BY <1>9 DEF SameReads
  <2>2. \A l : Dead(layout[l])' <=> Dead(layout[l])  BY <2>1
  <2>3. \A l : l \in Processed' <=> l \in Processed  BY <1>1, <1>8, <2>1, <2>2 DEF Processed
  <2> QED BY <2>3, SetExtensionality
<1>14. TagsInv' /\ WindowInv'  BY <1>2, <1>7, <1>8, <1>9, <1>13, WrittenStays
<1>15. MergeShape'
  <2>1. m'.pc # "idle" /\ m'.pc # "rebuild"  BY <1>7
  <2>2. nextTag' = nextTag  BY <1>1
  <2> QED BY <1>3, <1>7, <1>8, <2>1, <2>2 DEF MergeShape
<1>16. ChunkInv' /\ UnwrittenInv'  BY <1>8 DEF ChunkInv, UnwrittenInv
<1>17. HalvesInv'  BY <1>1, <1>7, <1>8 DEF HalvesInv
<1>18. HeaderInv'
  <2>1. EntryPoints' = EntryPoints  BY <1>9 DEF SameReads
  <2>2. CASE alone  BY <1>5, <1>7, <2>1, <2>2 DEF HeaderInv
  <2>3. CASE ~alone
    <3>1. entry \in EntryPoints'  BY <1>5, <2>1, <2>3
    <3>2. m'.header = IF m'.kind = "final" THEN m'.idMap[entry] ELSE entry
      BY <1>6, <1>7, <2>3
    <3>3. m'.pc = "install"  BY <1>7, <2>3
    <3> QED BY <3>1, <3>2, <3>3 DEF HeaderInv
  <2> QED BY <2>2, <2>3
<1> QED BY <1>10, <1>12, <1>14, <1>15, <1>16, <1>17, <1>18

(* While no merge runs the index is all that there is to be said. *)
LEMMA BetweenKeeps ==
    ASSUME IndexInv',
           \/ m' = Idle
           \/ m' = [pc |-> "rebuild", sector |-> m'.sector, dels |-> {}] /\ m'.sector \in Nat
    PROVE  MergeInv' /\ Between'
<1>1. m'.pc \in {"idle", "rebuild"}  BY DEF Idle
<1>2. MergeShape'
  <2>1. CASE m' = Idle  BY <2>1 DEF MergeShape, Merging, Between, Idle
  <2>2. CASE m' = [pc |-> "rebuild", sector |-> m'.sector, dels |-> {}] /\ m'.sector \in Nat
    <3>1. m'.pc = "rebuild"  BY <2>2
    <3> QED BY <2>2, <3>1 DEF MergeShape, Merging, Between
  <2> QED BY <2>1, <2>2
<1>3. ~Merging' /\ ~Writing' /\ Between'  BY <1>1 DEF Merging, Writing, Between
<1>4. ChunkInv' /\ UnwrittenInv' /\ HalvesInv' /\ HeaderInv'
  BY <1>1 DEF ChunkInv, UnwrittenInv, HalvesInv, HeaderInv
<1>5. NumbersInv' /\ NhoodsInv' /\ TagsInv' /\ WindowInv'
  BY <1>3 DEF NumbersInv, NhoodsInv, TagsInv, WindowInv
<1> QED BY <1>2, <1>3, <1>4, <1>5 DEF MergeInv

(* The new file becomes the index. *)
LEMMA InstallKeeps ==
    ASSUME MergeInv, Install
    PROVE  MergeInv'
<1> USE DEF MergeInv
<1> DEFINE np == m.npoints
           ids == 0 .. np - 1
           N == DivUp(np, NodesPerSector) * NodesPerSector
<1>1. /\ m.pc = "install" /\ m.kind = "final"
      /\ layout' = [ l \in 0 .. N - 1 |-> IF l \in ids THEN l ELSE None ]
      /\ file' = [ l \in 0 .. N - 1 |-> IF l \in DOMAIN m.out THEN m.out[l] ELSE None ]
      /\ tags' = [ i \in ids |-> m.newTags[i] ]
      /\ data' = [ i \in ids |-> m.newData[i] ]
      /\ medoid' = m.header /\ dropped' = dropped \cup m.dels /\ m' = Idle
      /\ UNCHANGED <<nextTag, deleted>>
  BY Zenon DEF Install
<1>2. Merging  BY <1>1 DEF Merging
<1>3. m.dels \subseteq 0 .. nextTag - 1 /\ np \in Nat  BY <1>2, FieldSet
<1>4. NewFile /\ AllCollected  BY <1>1, NewFileExact
<1>5. m.wbId = m.used  BY <1>1 DEF HalvesInv
<1>6. /\ m.idMap \in [Alive -> ids]
      /\ \A a, b \in Alive : m.idMap[a] = m.idMap[b] => a = b
      /\ \A x \in ids : \E id \in Alive : m.idMap[id] = x
      /\ m.newTags \in [ids -> Points] /\ m.newData = m.newTags
      /\ \A id \in Alive :
            /\ m.newTags[m.idMap[id]] = tags[id]
            /\ m.idMap[id] \in DOMAIN m.out /\ m.out[m.idMap[id]] = NewRec(id)
  BY <1>4, <1>5 DEF NewFile
<1>7. N \in Nat /\ np <= N
  <2>1. NodesPerSector \in Nat \ {0}  BY MergeAssumption
  <2>2. DivUp(np, NodesPerSector) \in Nat /\ N >= np  BY <1>3, <2>1, DivUpCovers
  <2>3. N \in Nat  BY <2>1, <2>2
  <2> HIDE DEF N
  <2> QED BY <1>3, <2>2, <2>3
<1>8. None \notin Nat  BY MergeAssumption
<1> HIDE DEF N
<1>9. Locs' = 0 .. N - 1 /\ Cardinality(Locs') = N
  <2>1. Locs' = 0 .. N - 1  BY <1>1 DEF Locs
  <2>2. 0 \in Int /\ N - 1 \in Int  BY <1>7
  <2>3. Cardinality(0 .. N - 1) = IF 0 > N - 1 THEN 0 ELSE N - 1 - 0 + 1  BY <2>2, FS_Interval
  <2> QED BY <1>7, <2>1, <2>3
<1>10. ids \subseteq 0 .. N - 1 /\ ids \subseteq Nat  BY <1>3, <1>7
<1>11. DOMAIN tags' = ids /\ Cardinality(ids) = np
  <2>1. 0 \in Int /\ np - 1 \in Int  BY <1>3
  <2>2. Cardinality(0 .. np - 1) = IF 0 > np - 1 THEN 0 ELSE np - 1 - 0 + 1  BY <2>1, FS_Interval
  <2> QED BY <1>1, <1>3, <2>2
<1>12. \A l : l \in LiveLocs' <=> l \in ids
  <2>1. \A l : l \in LiveLocs' <=> l \in Locs' /\ layout'[l] # None  BY DEF LiveLocs
  <2>2. \A l \in 0 .. N - 1 : layout'[l] # None <=> l \in ids
    <3> HIDE DEF ids
    <3> QED BY <1>1, <1>8, <1>10
  <2> HIDE DEF ids
  <2> QED BY <1>9, <1>10, <2>1, <2>2
<1>13. \A l \in ids : layout'[l] = l
  <2> HIDE DEF ids
  <2> QED BY <1>1, <1>10
<1>14. LocsInv'
  <2>1. Cardinality(Locs') \in Nat /\ Locs' = 0 .. Cardinality(Locs') - 1  BY <1>7, <1>9
  <2>2. layout' \in [Locs' -> DOMAIN tags' \cup {None}]
    <3> HIDE DEF ids
    <3> QED BY <1>1, <1>9, <1>11
  <2>3. \A l, k \in LiveLocs' : layout'[l] = layout'[k] => l = k  BY <1>12, <1>13
  <2>4. \A id \in DOMAIN tags' : \E l \in LiveLocs' : layout'[l] = id
    BY <1>11, <1>12, <1>13
  <2> QED BY <2>1, <2>2, <2>3, <2>4 DEF LocsInv
<1>15. \A x \in ids : \E id \in Alive : m.idMap[id] = x /\ tags'[x] = tags[id]
  <2> HIDE DEF ids
  <2> SUFFICES ASSUME NEW x \in ids PROVE \E id \in Alive : m.idMap[id] = x /\ tags'[x] = tags[id]
    OBVIOUS
  <2>1. PICK id \in Alive : m.idMap[id] = x  BY <1>6
  <2> QED BY <1>1, <1>6, <2>1
<1>16. \A id \in Alive : m.idMap[id] \in ids /\ tags'[m.idMap[id]] = tags[id]
  <2> HIDE DEF ids
  <2> QED BY <1>1, <1>6
<1> HIDE DEF ids
<1>17. /\ tags \in [DOMAIN tags -> 0 .. nextTag - 1]
       /\ \A a, b \in DOMAIN tags : tags[a] = tags[b] => a = b
       /\ Range(tags) = (0 .. nextTag - 1) \ dropped
       /\ nextTag \in Nat /\ 0 .. nextTag - 1 \subseteq Points
       /\ medoid \in DOMAIN tags /\ deleted \subseteq 0 .. nextTag - 1 /\ dropped \subseteq 0 .. nextTag - 1
  BY DEF IndexInv, IdsInv
<1>18. \A id : id \in Alive <=> id \in DOMAIN tags /\ tags[id] \notin m.dels  BY DEF Alive, Dead
<1>19. IdsInv'
  <2>1. Cardinality(DOMAIN tags') \in Nat /\ DOMAIN tags' = 0 .. Cardinality(DOMAIN tags') - 1
    BY <1>3, <1>11 DEF ids
  <2>2. tags' \in [DOMAIN tags' -> 0 .. nextTag' - 1]
    <3>1. \A x \in ids : tags'[x] \in 0 .. nextTag - 1  BY <1>15, <1>17, <1>18
    <3>2. tags' = [ x \in ids |-> tags'[x] ]  BY <1>1
    <3> QED BY <1>1, <1>11, <3>1, <3>2
  <2>3. data' = tags'  BY <1>1, <1>6
  <2>4. \A a, b \in DOMAIN tags' : tags'[a] = tags'[b] => a = b
    <3> SUFFICES ASSUME NEW a \in ids, NEW b \in ids, tags'[a] = tags'[b] PROVE a = b
      BY <1>11
    <3>1. PICK c \in Alive : m.idMap[c] = a /\ tags'[a] = tags[c]  BY <1>15
    <3>2. PICK d \in Alive : m.idMap[d] = b /\ tags'[b] = tags[d]  BY <1>15
    <3>3. c = d  BY <1>17, <1>18, <3>1, <3>2
    <3> QED BY <3>1, <3>2, <3>3
  <2>5. Range(tags') = (0 .. nextTag' - 1) \ dropped'
    <3>1. \A t : t \in Range(tags) <=> t \in (0 .. nextTag - 1) \ dropped  BY <1>17
    <3>2. \A t : t \in Range(tags') => t \in (0 .. nextTag - 1) \ dropped'
      <4> SUFFICES ASSUME NEW x \in ids PROVE tags'[x] \in (0 .. nextTag - 1) \ dropped'
        BY <1>11 DEF Range
      <4>1. PICK id \in Alive : m.idMap[id] = x /\ tags'[x] = tags[id]  BY <1>15
      <4>2. tags[id] \in Range(tags) /\ tags[id] \notin m.dels  BY <1>18 DEF Range
      <4> QED BY <1>1, <3>1, <4>1, <4>2
    <3>3. \A t : t \in (0 .. nextTag - 1) \ dropped' => t \in Range(tags')
      <4> SUFFICES ASSUME NEW t \in (0 .. nextTag - 1) \ dropped' PROVE t \in Range(tags')
        OBVIOUS
      <4>1. t \in Range(tags) /\ t \notin m.dels  BY <1>1, <3>1
      <4>2. PICK id \in DOMAIN tags : tags[id] = t  BY <4>1 DEF Range
      <4>3. id \in Alive  BY <1>18, <4>1, <4>2
      <4>4. m.idMap[id] \in DOMAIN tags' /\ tags'[m.idMap[id]] = t  BY <1>11, <1>16, <4>2, <4>3
      <4> QED BY <4>4 DEF Range
    <3>4. \A t : t \in Range(tags') <=> t \in (0 .. nextTag - 1) \ dropped'  BY <3>2, <3>3
    <3> QED BY <1>1, <3>4, SetExtensionality
  <2>6. medoid' \in DOMAIN tags'
    <3>1. PICK n \in EntryPoints : m.header = m.idMap[n]  BY <1>1 DEF HeaderInv
    <3>2. n \in Alive
      <4>1. CASE Dead(medoid)
        <5>1. n \in Range(Rec(medoid).nbrs) /\ ~Dead(n)  BY <4>1 DEF EntryPoints
        <5>2. GoodList(medoid, Rec(medoid).nbrs)  BY <1>17, IdsAndLocs
        <5>3. n \in DOMAIN tags  BY <5>1, <5>2 DEF GoodList, Range
        <5> QED BY <5>1, <5>3 DEF Alive
      <4>2. CASE ~Dead(medoid)  BY <1>17, <4>2 DEF EntryPoints, Alive
      <4> QED BY <4>1, <4>2
    <3> QED BY <1>1, <1>11, <1>16, <3>1, <3>2
  <2>7. deleted' \subseteq 0 .. nextTag - 1 /\ dropped' \subseteq 0 .. nextTag - 1  BY <1>1, <1>3, <1>17
  <2>9. deleted' \subseteq 0 .. nextTag' - 1 /\ dropped' \subseteq 0 .. nextTag' - 1
    BY <1>1, <2>7
  <2>8. nextTag' \in Nat /\ 0 .. nextTag' - 1 \subseteq Points  BY <1>1, <1>17
  <2> QED BY <2>1, <2>2, <2>3, <2>4, <2>5, <2>6, <2>9, <2>8 DEF IdsInv
<1>20. FileInv'
  <2>1. file' = [ l \in Locs' |-> file'[l] ]  BY <1>1, <1>9
  <2>2. ASSUME NEW l \in LiveLocs'
        PROVE  /\ file'[l] = [point |-> tags'[layout'[l]], nbrs |-> file'[l].nbrs]
               /\ file'[l].nbrs \in Seq(DOMAIN tags' \ {layout'[l]}) /\ Len(file'[l].nbrs) <= R
               /\ IsInjective(file'[l].nbrs)
    <3>1. l \in ids /\ layout'[l] = l  BY <1>12, <1>13
    <3>2. PICK id \in Alive : m.idMap[id] = l /\ tags'[l] = tags[id]  BY <1>15, <3>1
    <3>3. l \in DOMAIN m.out /\ m.out[l] = NewRec(id)  BY <1>6, <3>2
    <3>4. file'[l] = NewRec(id)  BY <1>1, <1>10, <3>1, <3>3
    <3> DEFINE list == NewRec(id).nbrs
               nhood == Pruned(id, Repaired(id))
    <3>5. /\ NewRec(id) = [point |-> tags[id], nbrs |-> list]
          /\ list \in Seq(ids \ {m.idMap[id]})
          /\ IsInjective(list) /\ Len(list) <= R
      <4>1. nhood = Pruned(id, Repaired(id)) /\ list = NewRec(id).nbrs  OBVIOUS
      <4> HIDE DEF nhood, list
      <4> QED BY <1>4, <4>1, NewRecExact DEF ids
    <3> HIDE DEF list
    <3>6. file'[l].nbrs = list /\ file'[l].point = tags[id]  BY <3>4, <3>5
    <3> QED BY <1>11, <3>1, <3>2, <3>4, <3>5, <3>6
  <2> QED BY <2>1, <2>2 DEF FileInv, GoodList
<1> QED BY <1>1, <1>14, <1>19, <1>20, BetweenKeeps DEF IndexInv

-----------------------------------------------------------------------------
(* What the invariant says of the properties. *)

LEMMA OutputFollows ==
    ASSUME MergeInv
    PROVE  OutputExact
<1> SUFFICES ASSUME m.pc = "install" PROVE OutputExact  BY DEF OutputExact
<1> USE DEF MergeInv
<1>1. NewFile /\ AllCollected /\ IndexInv  BY NewFileExact
<1>2. m.wbId = m.used  BY DEF HalvesInv
<1> DEFINE new == m.idMap
           np == m.npoints
<1>3. /\ np \in Nat /\ new \in [Alive -> 0 .. np - 1]
      /\ \A a, b \in Alive : new[a] = new[b] => a = b
      /\ \A x \in 0 .. np - 1 : \E id \in Alive : new[id] = x
      /\ m.newData = m.newTags
      /\ \A id \in Alive : /\ m.newTags[new[id]] = tags[id]
                           /\ new[id] \in DOMAIN m.out /\ m.out[new[id]] = NewRec(id)
  BY <1>1, <1>2 DEF NewFile
<1> HIDE DEF new, np
<1>4. DOMAIN new = Alive /\ IsInjective(new)  BY <1>3 DEF IsInjective
<1>5. Range(new) = 0 .. np - 1 /\ Range(new) \subseteq DOMAIN m.out
  <2>1. \A x : x \in Range(new) <=> \E id \in Alive : new[id] = x  BY <1>4 DEF Range
  <2>2. \A x : x \in Range(new) <=> x \in 0 .. np - 1  BY <1>3, <2>1
  <2>3. Range(new) = 0 .. np - 1  BY <2>2, SetExtensionality
  <2>4. \A x \in Range(new) : x \in DOMAIN m.out
    <3> SUFFICES ASSUME NEW x \in Range(new) PROVE x \in DOMAIN m.out
      OBVIOUS
    <3>1. PICK id \in Alive : new[id] = x  BY <2>1
    <3> QED BY <1>3, <3>1
  <2> QED BY <2>3, <2>4
<1>6. \A id \in Alive :
        LET rec == m.out[new[id]]
            all == { new[n] : n \in Bridged(id) }
            gap(k) == Dist[tags[id], m.newTags[k]]
        IN  /\ rec.point = tags[id]
            /\ m.newTags[new[id]] = tags[id] /\ m.newData[new[id]] = tags[id]
            /\ Range(rec.nbrs) \subseteq all
            /\ Cardinality(all) <= R => Range(rec.nbrs) = all
            /\ Cardinality(all) > R =>
                  /\ Filling => Len(rec.nbrs) = IF MaxC < R THEN MaxC ELSE R
                  /\ \E k \in Range(rec.nbrs) : \A j \in all : gap(k) <= gap(j)
  <2> TAKE id \in Alive
  <2> DEFINE rec == m.out[new[id]]
             all == { new[n] : n \in Bridged(id) }
  <2>0. rec = m.out[new[id]] /\ all = { new[n] : n \in Bridged(id) }  OBVIOUS
  <2> HIDE DEF rec, all
  <2> DEFINE nhood == Pruned(id, Repaired(id))
             list == NewRec(id).nbrs
  <2>1. /\ NewRec(id) = [point |-> tags[id], nbrs |-> list]
        /\ PrunedTo(nhood, id, Bridged(id)) /\ Bridged(id) \subseteq Alive \ {id}
        /\ nhood \in Seq(Bridged(id)) /\ Len(list) = Len(nhood)
        /\ Range(list) = { new[n] : n \in Range(nhood) }
    <3>1. nhood = Pruned(id, Repaired(id)) /\ list = NewRec(id).nbrs  OBVIOUS
    <3> HIDE DEF nhood, list
    <3> QED BY <1>1, <3>1, NewRecExact DEF new
  <2> HIDE DEF nhood, list
  <2>2. rec = NewRec(id)  BY <1>3, <2>0
  <2>3. rec.point = tags[id] /\ rec.nbrs = list  BY <2>1, <2>2
  <2>4. id \in DOMAIN tags /\ \A n \in Bridged(id) : n \in Alive /\ n \in DOMAIN tags
    BY <2>1 DEF Alive
  <2>5. IsFiniteSet(Bridged(id))  BY <1>1, <2>4, RepairedExact
  <2>6. Cardinality(all) = Cardinality(Bridged(id)) /\ Cardinality(all) \in Nat
    <3> DEFINE f == [ n \in Bridged(id) |-> new[n] ]
               T == 0 .. np - 1
    <3>1. f \in [Bridged(id) -> T]  BY <1>3, <2>4
    <3>2. \A a, b \in Bridged(id) : f[a] = f[b] => a = b  BY <1>3, <2>4
    <3>3. all = { f[n] : n \in Bridged(id) }  BY <2>0
    <3> HIDE DEF f, T
    <3>4. IsFiniteSet({ f[n] : n \in Bridged(id) })
          /\ Cardinality({ f[n] : n \in Bridged(id) }) = Cardinality(Bridged(id))
      BY <2>5, <3>1, <3>2, AsMany
    <3>5. Cardinality(Bridged(id)) \in Nat  BY <2>5, FS_CardinalityType
    <3> QED BY <3>3, <3>4, <3>5
  <2>7. Range(nhood) \subseteq Bridged(id)  BY <2>1 DEF Range
  <2>8. Range(rec.nbrs) \subseteq all  BY <2>0, <2>1, <2>3, <2>7
  <2>9. ASSUME Cardinality(all) <= R PROVE Range(rec.nbrs) = all
    <3>1. Range(nhood) = Bridged(id)  BY <2>1, <2>6, <2>9 DEF PrunedTo
    <3> QED BY <2>0, <2>1, <2>3, <3>1
  <2>10. ASSUME Cardinality(all) > R, Filling
         PROVE  Len(rec.nbrs) = IF MaxC < R THEN MaxC ELSE R
    BY <2>1, <2>3, <2>6, <2>10 DEF PrunedTo
  <2>11. ASSUME Cardinality(all) > R
         PROVE  \E k \in Range(rec.nbrs) : \A j \in all :
                    Dist[tags[id], m.newTags[k]] <= Dist[tags[id], m.newTags[j]]
    <3>1. Bridged(id) # {}
      <4>1. Cardinality({}) = 0  BY FS_EmptySet
      <4>2. R \in Nat  BY PruneAssumption
      <4> QED BY <2>6, <2>11, <4>1, <4>2
    <3>2. PICK k \in Range(nhood) : \A j \in Bridged(id) : Gap(data, id, k) <= Gap(data, id, j)
      BY <2>1, <3>1 DEF PrunedTo
    <3>3. \A n \in Bridged(id) : Gap(data, id, n) = Dist[tags[id], tags[n]]
      BY <1>1, <2>4, GapTyped
    <3>4. k \in Bridged(id)  BY <2>7, <3>2
    <3>5. \A n \in Bridged(id) : m.newTags[new[n]] = tags[n]  BY <1>3, <2>4
    <3>6. new[k] \in Range(rec.nbrs)  BY <2>1, <2>3, <3>2
    <3>7. \A j \in all : Dist[tags[id], m.newTags[new[k]]] <= Dist[tags[id], m.newTags[j]]
      BY <2>0, <3>2, <3>3, <3>4, <3>5
    <3> QED BY <3>6, <3>7
  <2>13. m.newTags[new[id]] = tags[id] /\ m.newData[new[id]] = tags[id]  BY <1>3
  <2> QED BY <2>3, <2>8, <2>9, <2>10, <2>11, <2>13, Zenon DEF rec, all
<1> QED BY <1>4, <1>5, <1>6, Zenon DEF OutputExact, Alive, new, np

LEMMA EntryFollows ==
    ASSUME MergeInv
    PROVE  EntryKept
  BY DEF MergeInv, HeaderInv, EntryKept

(* The window's marks while a chunk is written. *)
LEMMA WindowBounds ==
    ASSUME MergeInv, m.pc \in {"populate", "process", "flush"}
    PROVE  m.wbId <= m.used /\ m.used <= m.npoints /\ m.used - m.wbId <= WindowSize
<1> USE DEF MergeInv
<1> DEFINE np == m.npoints
<1>1. Merging  BY DEF Merging
<1>2. np \in Nat /\ m.wbId \in Nat /\ m.used \in Nat  BY <1>1, FieldSet
<1>3. HalfWindow \in Nat \ {0} /\ WindowSize \in Nat \ {0} /\ WindowSize = 2 * HalfWindow
  BY WindowTyped
<1>4. CASE m.pc = "populate"  BY <1>2, <1>3, <1>4 DEF UnwrittenInv
<1>5. CASE m.pc = "flush"
  <2>1. m.used = np  BY <1>5, NewFileExact DEF NewFile
  <2>2. m.wbId <= m.used /\ m.used - m.wbId < WindowSize  BY <1>5 DEF HalvesInv
  <2> QED BY <1>2, <1>3, <2>1, <2>2
<1>6. CASE m.pc = "process"
  <2> DEFINE lo == Base
             hi == ChunkEnd(m.sector, MergeSectors)
             Ids == { NewId(l) : l \in Processed }
  <2>1. Writing /\ Step = MergeSectors /\ MergeSectors \in Nat \ {0}
    BY <1>6, MergeAssumption DEF Writing, Step
  <2>2. /\ m.sector \in Nat /\ m.sector % MergeSectors = 0 /\ lo <= Cardinality(Locs)
        /\ GoodBlocks(m.todo, lo, hi) /\ lo = m.sector * NodesPerSector
    BY <1>6, <2>1 DEF ChunkInv, Base
  <2>3. Cardinality(Locs) \in Nat  BY DEF IndexInv, LocsInv
  <2>4. hi = ChunkEnd(m.sector, MergeSectors)  OBVIOUS
  <2>5. m.wbId <= Cardinality(Early(lo)) /\ Cardinality(Early(lo)) - m.wbId < HalfWindow
    BY <1>6 DEF HalvesInv
  <2>6. Passed = PassedBy(m.todo, hi)  BY <2>1 DEF Passed
  <2> HIDE DEF lo, hi
  <2>7. ChunkFrom(m.sector, MergeSectors, lo, hi)  BY <2>1, <2>2, <2>3, <2>4, ChunkBounds
  <2>8. lo \in Nat /\ hi \in Nat /\ lo <= hi /\ hi <= lo + HalfWindow /\ Edge(lo) /\ Edge(hi)
    BY <2>2, <2>7, ChunkEdges
  <2>9. /\ Cardinality(Early(lo)) \in Nat /\ Cardinality(Early(hi)) \in Nat
        /\ Cardinality(Early(hi)) <= Cardinality(Early(lo)) + HalfWindow
    BY <1>3, <2>8, EarlyGrows
  <2>10. Cardinality({ NewId(l) : l \in Early(lo) }) = Cardinality(Early(lo))
    BY <1>1, <1>6, <2>8, EarlyNumbered
  <2>11. /\ \A l \in Early(hi) : NewId(l) \in 0 .. Cardinality(Early(hi)) - 1
         /\ Cardinality(Early(hi)) <= np
    BY <1>1, <1>6, <2>8, EarlyNumbered
  <2>12. \A l \in LiveLocs : l \in Nat  BY IdsAndLocs
  <2>13. \A l : l \in Processed <=> l \in LiveLocs /\ ~Dead(layout[l]) /\ l \in Passed
    BY <1>6 DEF Processed
  <2>14. \A l \in LiveLocs : (l < lo => l \in Passed) /\ (l \in Passed => l < hi)
    <3> SUFFICES ASSUME NEW l \in LiveLocs
                 PROVE  (l < lo => l \in Passed) /\ (l \in Passed => l < hi)
      OBVIOUS
    <3>1. l \in Nat  BY <2>12
    <3>2. \A w \in 1 .. Workers : m.todo[w].from \in Nat /\ lo <= m.todo[w].from
      BY <2>2 DEF GoodBlocks
    <3>3. l < lo => \A w \in 1 .. Workers : l < m.todo[w].from  BY <2>8, <3>1, <3>2
    <3>4. l < lo => l \in 0 .. hi - 1  BY <2>8, <3>1
    <3> QED BY <2>6, <2>8, <3>3, <3>4 DEF PassedBy
  <2>15. { NewId(l) : l \in Early(lo) } \subseteq Ids  BY <2>13, <2>14 DEF Early
  <2>16. Ids \subseteq 0 .. Cardinality(Early(hi)) - 1  BY <2>11, <2>13, <2>14 DEF Early
  <2>17. m.used = Cardinality(Ids)  BY <2>1 DEF TagsInv
  <2> DEFINE E == { NewId(l) : l \in Early(lo) }
             c == Cardinality(Early(hi))
  <2>18. E \in SUBSET Ids /\ Ids \in SUBSET (0 .. c - 1)  BY <2>15, <2>16
  <2>19. Cardinality(E) = Cardinality(Early(lo)) /\ c \in Nat  BY <2>9, <2>10
  <2> HIDE DEF E, Ids, c
  <2>20. IsFiniteSet(0 .. c - 1) /\ Cardinality(0 .. c - 1) = c
    <3>1. 0 \in Int /\ c - 1 \in Int  BY <2>19
    <3>2. IsFiniteSet(0 .. c - 1) /\ Cardinality(0 .. c - 1) = IF 0 > c - 1 THEN 0 ELSE c - 1 - 0 + 1
      BY <3>1, FS_Interval
    <3> QED BY <2>19, <3>2
  <2>21. IsFiniteSet(Ids) /\ Cardinality(Ids) <= c  BY <2>18, <2>20, FS_Subset
  <2>22. Cardinality(E) <= Cardinality(Ids)  BY <2>18, <2>21, FS_Subset
  <2>23. Cardinality(Early(lo)) <= m.used /\ m.used <= c  BY <2>17, <2>19, <2>21, <2>22
  <2> QED BY <1>2, <1>3, <2>5, <2>9, <2>11, <2>23 DEF c
<1> QED BY <1>4, <1>5, <1>6

LEMMA TypeFollows ==
    ASSUME MergeInv
    PROVE  MergeTypeOK
<1> USE DEF MergeInv
<1>1. /\ tags \in [DOMAIN tags -> 0 .. nextTag - 1] /\ data = tags
      /\ \A a, b \in DOMAIN tags : tags[a] = tags[b] => a = b
      /\ nextTag \in Nat /\ 0 .. nextTag - 1 \subseteq Points
      /\ Cardinality(DOMAIN tags) \in Nat /\ DOMAIN tags = 0 .. Cardinality(DOMAIN tags) - 1
      /\ medoid \in DOMAIN tags /\ deleted \subseteq 0 .. nextTag - 1 /\ dropped \subseteq 0 .. nextTag - 1
  BY DEF IndexInv, IdsInv
<1>2. Cardinality(DOMAIN tags) <= nextTag
  <2> DEFINE T == 0 .. nextTag - 1
  <2>1. IsFiniteSet(T) /\ Cardinality(T) = nextTag
    <3>1. 0 \in Int /\ nextTag - 1 \in Int  BY <1>1
    <3>2. IsFiniteSet(0 .. nextTag - 1)
          /\ Cardinality(0 .. nextTag - 1) = IF 0 > nextTag - 1 THEN 0 ELSE nextTag - 1 - 0 + 1
      BY <3>1, FS_Interval
    <3> QED BY <1>1, <3>2
  <2>2. tags \in [DOMAIN tags -> T]  BY <1>1
  <2> HIDE DEF T
  <2>3. tags \in Injection(DOMAIN tags, T)
    <3>1. IsInjective(tags)  BY <1>1 DEF IsInjective
    <3> QED BY <2>2, <3>1 DEF Injection
  <2>4. Cardinality(DOMAIN tags) <= Cardinality(T)  BY <2>1, <2>3, FS_Injection
  <2> QED BY <2>1, <2>4
<1>3. DOMAIN tags \subseteq Points
  <2>1. \A i \in 0 .. Cardinality(DOMAIN tags) - 1 : i \in 0 .. nextTag - 1  BY <1>1, <1>2
  <2> QED BY <1>1, <2>1
<1>4. layout \in [Locs -> Points \cup {None}]
  <2>1. layout \in [Locs -> DOMAIN tags \cup {None}]  BY DEF IndexInv, LocsInv
  <2> QED BY <1>3, <2>1
<1>5. DOMAIN file = Locs
  <2>1. file = [ l \in Locs |-> file[l] ]  BY DEF IndexInv, FileInv
  <2> QED BY <2>1
<1>6. \A l \in LiveLocs : file[l].point \in Points /\ file[l].nbrs \in Seq(Points)
  <2> SUFFICES ASSUME NEW l \in LiveLocs
               PROVE  file[l].point \in Points /\ file[l].nbrs \in Seq(Points)
    OBVIOUS
  <2>1. layout[l] \in DOMAIN tags  BY IdsAndLocs
  <2>2. /\ file[l] = [point |-> tags[layout[l]], nbrs |-> file[l].nbrs]
        /\ GoodList(layout[l], file[l].nbrs)
    BY DEF IndexInv, FileInv
  <2>3. file[l].point = tags[layout[l]]  BY <2>2
  <2>4. file[l].nbrs \in Seq(DOMAIN tags)  BY <2>2 DEF GoodList
  <2> QED BY <1>1, <1>3, <2>1, <2>3, <2>4
<1>7. tags \in [DOMAIN data -> Points] /\ data \in [DOMAIN tags -> Points]
  <2>1. tags \in [DOMAIN tags -> Points]  BY <1>1
  <2> QED BY <1>1, <2>1
<1>8. m.pc \in {"idle", "populate", "process", "flush", "install", "rebuild", "stopped"}
  BY DEF MergeShape, Merging, Between
<1>9. m.pc \in {"populate", "process", "flush"} =>
        m.wbId <= m.used /\ m.used <= m.npoints /\ m.used - m.wbId <= WindowSize
  BY WindowBounds
<1> QED BY <1>1, <1>4, <1>5, <1>6, <1>7, <1>8, <1>9 DEF MergeTypeOK

-----------------------------------------------------------------------------
(* Deletes, and what starts and ends. *)

(* A step that neither changes the index nor the merge. *)
LEMMA AsBefore ==
    ASSUME MergeInv, UNCHANGED <<indexVars, nextTag, dropped, m>>, deleted' \subseteq 0 .. nextTag - 1
    PROVE  MergeInv'
<1> USE DEF MergeInv
<1>1. IndexInv'  BY IndexKept
<1>2. SameReads  BY ReadsSame
<1>3. Locs' = Locs /\ LiveLocs' = LiveLocs /\ layout' = layout /\ tags' = tags
      /\ EntryPoints' = EntryPoints
  BY <1>2 DEF SameReads
<1>4. MergeShape' /\ (Merging' <=> Merging) /\ (Writing' <=> Writing)
  BY DEF MergeShape, Merging, Between, Writing
<1>5. Base' = Base /\ Step' = Step /\ ChunkEnd(m.sector, Step)' = ChunkEnd(m.sector, Step)
  BY <1>3 DEF Base, Step, ChunkEnd
<1>6. ChunkInv'  BY <1>3, <1>5 DEF ChunkInv, GoodBlocks
<1>7. Passed' = Passed  BY <1>5 DEF Passed, PassedBy
<1>8. UnwrittenInv' /\ HeaderInv'  BY <1>3 DEF UnwrittenInv, HeaderInv
<1>9. NumbersInv' /\ NhoodsInv'
  <2>1. CASE Merging
    <3>1. Numbered' = Numbered /\ Collected' = Collected  BY <1>2, <1>7, <2>1, PartsSame
    <3> QED BY <1>2, <2>1, <3>1, NumbersStay, NhoodsStay
  <2>2. CASE ~Merging  BY <1>4, <2>2 DEF NumbersInv, NhoodsInv
  <2> QED BY <2>1, <2>2
<1>10. TagsInv' /\ WindowInv'
  <2>1. CASE Writing
    <3>1. Processed' = Processed
      <4>1. LiveLocs' = LiveLocs /\ layout' = layout /\ \A x : Dead(x)' <=> Dead(x)
        BY <1>2 DEF SameReads
      <4>2. \A l : Dead(layout[l])' <=> Dead(layout[l])  BY <4>1
      <4>3. \A l : l \in Processed' <=> l \in Processed  BY <1>7, <4>1, <4>2 DEF Processed
      <4> QED BY <4>3, SetExtensionality
    <3> QED BY <1>2, <1>4, <2>1, <3>1, WrittenStays
  <2>2. CASE ~Writing  BY <1>4, <2>2 DEF TagsInv, WindowInv
  <2> QED BY <2>1, <2>2
<1>11. HalvesInv'
  <2>1. Early(Base)' = Early(Base)
    <3>1. LiveLocs' = LiveLocs /\ layout' = layout /\ \A x : Dead(x)' <=> Dead(x)
      BY <1>2 DEF SameReads
    <3>2. \A l : Dead(layout[l])' <=> Dead(layout[l])  BY <3>1
    <3>3. \A l : l \in Early(Base)' <=> l \in Early(Base)  BY <1>5, <3>1, <3>2 DEF Early
    <3> QED BY <3>3, SetExtensionality
  <2> QED BY <2>1 DEF HalvesInv
<1> QED BY <1>1, <1>4, <1>6, <1>8, <1>9, <1>10, <1>11

LEMMA LazyDeleteKeeps ==
    ASSUME MergeInv, NEW t \in Points, LazyDelete(t)
    PROVE  MergeInv'
<1>1. deleted' = deleted \cup {t} /\ UNCHANGED <<indexVars, nextTag, dropped, m>>
  BY Zenon DEF LazyDelete
<1>0. t \in 1 .. nextTag - 1  BY Zenon DEF LazyDelete
<1>2. deleted' \subseteq 0 .. nextTag - 1  BY <1>1, <1>0 DEF MergeInv, IndexInv, IdsInv
<1> QED BY <1>1, <1>2, AsBefore

LEMMA RestfulKeeps ==
    ASSUME MergeInv, UNCHANGED mergeVars
    PROVE  MergeInv'
<1>1. UNCHANGED <<indexVars, nextTag, dropped, m>> /\ deleted' = deleted  BY Zenon DEF mergeVars
<1>2. deleted' \subseteq 0 .. nextTag - 1  BY <1>1 DEF MergeInv, IndexInv, IdsInv
<1> QED BY <1>1, <1>2, AsBefore

LEMMA RebuildBeginKeeps ==
    ASSUME MergeInv, RebuildBegin
    PROVE  MergeInv'
<1>1. /\ m' = [pc |-> "rebuild", sector |-> 0, dels |-> {}]
      /\ UNCHANGED <<indexVars, nextTag, deleted, dropped>>
  BY Zenon DEF RebuildBegin
<1>2. IndexInv'
  <2>1. deleted' \subseteq 0 .. nextTag - 1  BY <1>1 DEF MergeInv, IndexInv, IdsInv
  <2> QED BY <1>1, <2>1, IndexKept DEF MergeInv
<1>3. m' = [pc |-> "rebuild", sector |-> m'.sector, dels |-> {}] /\ m'.sector \in Nat
  <2>1. m'.sector = 0  BY <1>1
  <2> QED BY <1>1, <2>1
<1> QED BY <1>2, <1>3, BetweenKeeps

LEMMA MergeBeginKeeps ==
    ASSUME MergeInv, NEW kind \in {"final", "stream"}, MergeBegin(kind)
    PROVE  MergeInv'
<1> DEFINE todo == Blocks(0 * NodesPerSector, ChunkEnd(0, PopulateSectors))
           start == [pc |-> "populate", kind |-> kind, dels |-> deleted, sector |-> 0,
                        todo |-> << >>, idMap |-> << >>, nhoods |-> << >>, npoints |-> 0,
                        wbuf |-> << >>, wbId |-> 0, used |-> 0, out |-> << >>,
                        newTags |-> << >>, newData |-> << >>, header |-> None]
<1>1. /\ m.pc = "idle" /\ deleted' = {}
      /\ m' = StartChunk(start, PopulateSectors, 0)
      /\ UNCHANGED <<indexVars, nextTag, dropped>>
  BY Zenon DEF MergeBegin
<1>2. m' = [start EXCEPT !.sector = 0, !.todo = todo]  BY <1>1 DEF StartChunk
<1>3. /\ m' = [ f \in MergeFields |-> m'[f] ] /\ m'.pc = "populate" /\ m'.kind = kind
      /\ m'.dels = deleted /\ m'.sector = 0 /\ m'.todo = todo
      /\ m'.idMap = << >> /\ m'.nhoods = << >> /\ m'.npoints = 0
      /\ m'.wbId = 0 /\ m'.used = 0 /\ m'.wbuf = << >> /\ m'.out = << >>
      /\ m'.newTags = << >> /\ m'.newData = << >>
  <2> HIDE DEF todo
  <2> QED BY <1>2 DEF MergeFields
<1>4. IndexInv /\ IndexInv'
  <2>1. deleted' \subseteq 0 .. nextTag - 1  BY <1>1
  <2> QED BY <1>1, <2>1, IndexKept DEF MergeInv
<1>5. Merging' /\ MergeShape'
  <2>1. deleted \subseteq 0 .. nextTag - 1  BY <1>4 DEF IndexInv, IdsInv
  <2> QED BY <1>1, <1>3, <2>1 DEF Merging, MergeShape
<1>6. Locs' = Locs  BY <1>1 DEF Locs, indexVars
<1>7. ChunkInv' /\ Passed' = {}
  <2>1. 0 \in Nat /\ PopulateSectors \in Nat \ {0} /\ NodesPerSector \in Nat \ {0}
    BY MergeAssumption
  <2>2. 0 % PopulateSectors = 0  BY <2>1
  <2>3. 0 * NodesPerSector = 0 /\ 0 <= Cardinality(Locs)
    BY <1>4, <2>1 DEF IndexInv, LocsInv
  <2>4. PopulateSectors = IF m'.pc = "populate" THEN PopulateSectors ELSE MergeSectors  BY <1>3
  <2>5. /\ ChunkInv' /\ Passed' = 0 .. 0 * NodesPerSector - 1
        /\ Base' = 0 * NodesPerSector /\ Base' \in Nat
    BY <1>3, <1>4, <1>6, <2>1, <2>2, <2>3, <2>4, ChunkStarted
  <2>6. 0 .. 0 - 1 = {}  OBVIOUS
  <2> QED BY <2>3, <2>5, <2>6
<1>8. Numbered' = {} /\ Collected' = {}  BY <1>3, <1>7 DEF Numbered, Collected
<1>9. NumbersInv'
  <2>1. { layout[l] : l \in Numbered }' = {}  BY <1>8
  <2>2. << >> \in [{} -> 0 .. 0 - 1]  OBVIOUS
  <2>3. 0 .. 0 - 1 = {}  OBVIOUS
  <2>4. m'.idMap \in [{ layout[l] : l \in Numbered }' -> 0 .. m'.npoints - 1]
    BY <1>3, <2>1, <2>2
  <2>5. 0 .. m'.npoints - 1 = {}  BY <1>3, <2>3
  <2> QED BY <1>8, <2>4, <2>5 DEF NumbersInv
<1>10. NhoodsInv'
  <2>1. { layout[l] : l \in Collected }' = {}  BY <1>8
  <2>2. << >> = [ id \in {} |-> Sampled(id)' ]  OBVIOUS
  <2> QED BY <1>3, <2>1, <2>2 DEF NhoodsInv
<1>11. UnwrittenInv'  BY <1>3 DEF UnwrittenInv
<1>12. TagsInv' /\ WindowInv' /\ HalvesInv' /\ HeaderInv'
  BY <1>3 DEF TagsInv, WindowInv, HalvesInv, HeaderInv, Writing
<1> QED BY <1>4, <1>5, <1>7, <1>9, <1>10, <1>11, <1>12 DEF MergeInv

LEMMA InitHolds ==
    ASSUME Init
    PROVE  MergeInv
<1>1. PICK s \in Starts :
        LET n == Cardinality(DOMAIN s.nbrs) IN
        /\ layout = [ l \in 0 .. n - 1 |-> l ]
        /\ file = [ l \in 0 .. n - 1 |-> [point |-> l, nbrs |-> s.nbrs[l]] ]
        /\ tags = [ l \in 0 .. n - 1 |-> l ]
        /\ data = [ l \in 0 .. n - 1 |-> l ]
        /\ medoid = s.medoid
        /\ nextTag = n
        /\ deleted = {} /\ dropped = {}
        /\ m = Idle
  BY Zenon DEF Init
<1>2. PICK k \in Points : DOMAIN s.nbrs = 0 .. k  BY IndexAssumption
<1>3. k \in Nat /\ 0 .. k \subseteq Points  BY IndexAssumption
<1>4. /\ s.medoid \in DOMAIN s.nbrs
      /\ \A i \in DOMAIN s.nbrs :
            /\ s.nbrs[i] \in Seq(DOMAIN s.nbrs \ {i})
            /\ Len(s.nbrs[i]) <= R /\ IsInjective(s.nbrs[i])
  BY IndexAssumption
<1> DEFINE n == Cardinality(DOMAIN s.nbrs)
<1>5. n = k + 1 /\ n \in Nat
  <2>1. 0 \in Int /\ k \in Int  BY <1>3
  <2>2. Cardinality(0 .. k) = IF 0 > k THEN 0 ELSE k - 0 + 1  BY <2>1, FS_Interval
  <2> QED BY <1>2, <1>3, <2>2
<1>6. /\ layout = [ l \in 0 .. n - 1 |-> l ]
      /\ file = [ l \in 0 .. n - 1 |-> [point |-> l, nbrs |-> s.nbrs[l]] ]
      /\ tags = [ l \in 0 .. n - 1 |-> l ] /\ data = [ l \in 0 .. n - 1 |-> l ]
      /\ medoid = s.medoid /\ nextTag = n
      /\ deleted = {} /\ dropped = {} /\ m = Idle
  BY <1>1
<1>7. 0 .. n - 1 = 0 .. k /\ DOMAIN s.nbrs = 0 .. n - 1 /\ Cardinality(0 .. n - 1) = n
  <2>1. n - 1 = k  BY <1>3, <1>5
  <2>2. 0 .. n - 1 = 0 .. k  BY <2>1
  <2> HIDE DEF n
  <2>3. DOMAIN s.nbrs = 0 .. n - 1  BY <1>2, <2>2
  <2> QED BY <2>2, <2>3 DEF n
<1> HIDE DEF n
<1>8. None \notin 0 .. n - 1  BY <1>5, MergeAssumption
<1>9. Locs = 0 .. n - 1 /\ LiveLocs = 0 .. n - 1 /\ DOMAIN tags = 0 .. n - 1
  <2>1. Locs = 0 .. n - 1 /\ DOMAIN tags = 0 .. n - 1  BY <1>6 DEF Locs
  <2>2. \A l : l \in LiveLocs <=> l \in 0 .. n - 1  BY <1>6, <1>8, <2>1 DEF LiveLocs
  <2> QED BY <2>1, <2>2, SetExtensionality
<1>10. LocsInv
  <2>1. layout \in [Locs -> DOMAIN tags \cup {None}]  BY <1>6, <1>9
  <2> QED BY <1>5, <1>6, <1>7, <1>9, <2>1 DEF LocsInv
<1>11. IdsInv
  <2>1. tags \in [DOMAIN tags -> 0 .. nextTag - 1] /\ data = tags  BY <1>6, <1>9
  <2>2. Range(tags) = (0 .. nextTag - 1) \ dropped
    <3>1. \A t : t \in Range(tags) <=> t \in 0 .. n - 1  BY <1>6, <1>9 DEF Range
    <3>2. \A t : t \in Range(tags) <=> t \in (0 .. nextTag - 1) \ dropped  BY <1>6, <3>1
    <3> QED BY <3>2, SetExtensionality
  <2>3. medoid \in DOMAIN tags  BY <1>4, <1>6, <1>7, <1>9
  <2>4. nextTag \in Nat /\ 0 .. nextTag - 1 \subseteq Points  BY <1>3, <1>5, <1>6, <1>7
  <2>5. Cardinality(DOMAIN tags) = n  BY <1>7, <1>9
  <2>6. \A a, b \in DOMAIN tags : tags[a] = tags[b] => a = b  BY <1>6, <1>9
  <2> QED BY <1>5, <1>6, <1>9, <2>1, <2>2, <2>3, <2>4, <2>5, <2>6 DEF IdsInv
<1>12. FileInv
  <2>1. file = [ l \in Locs |-> file[l] ]  BY <1>6, <1>9
  <2>2. ASSUME NEW l \in LiveLocs
        PROVE  /\ file[l] = [point |-> tags[layout[l]], nbrs |-> file[l].nbrs]
               /\ GoodList(layout[l], file[l].nbrs)
    <3>1. l \in 0 .. n - 1 /\ layout[l] = l /\ tags[l] = l  BY <1>6, <1>9
    <3>2. file[l] = [point |-> l, nbrs |-> s.nbrs[l]]  BY <1>6, <3>1
    <3>3. /\ s.nbrs[l] \in Seq((0 .. n - 1) \ {l})
          /\ Len(s.nbrs[l]) <= R /\ IsInjective(s.nbrs[l])
      BY <1>4, <1>7, <3>1
    <3>4. file[l].nbrs = s.nbrs[l]  BY <3>2
    <3> QED BY <1>9, <3>1, <3>2, <3>3, <3>4 DEF GoodList
  <2> QED BY <2>1, <2>2 DEF FileInv
<1>13. m.pc = "idle"  BY <1>6 DEF Idle
<1>14. MergeShape /\ ~Merging /\ ~Writing  BY <1>6, <1>13 DEF MergeShape, Merging, Between, Writing
<1>15. ChunkInv /\ UnwrittenInv /\ HalvesInv /\ HeaderInv
  BY <1>13 DEF ChunkInv, UnwrittenInv, HalvesInv, HeaderInv
<1>16. NumbersInv /\ NhoodsInv /\ TagsInv /\ WindowInv
  BY <1>14 DEF NumbersInv, NhoodsInv, TagsInv, WindowInv
<1> QED BY <1>10, <1>11, <1>12, <1>14, <1>15, <1>16 DEF MergeInv, IndexInv

-----------------------------------------------------------------------------
(* The nearest neighbour. *)

(* An entry of list that is nearest. *)
LEMMA NearestFound ==
    ASSUME NEW list, Range(list) # {}, NEW points, NEW id,
           \A n \in Range(list) : Dist[points[id], points[n]] \in Nat
    PROVE  \E k \in Range(list) :
              /\ Nearest(points, id, list) = Dist[points[id], points[k]]
              /\ \A n \in Range(list) : Dist[points[id], points[k]] <= Dist[points[id], points[n]]
<1> DEFINE gaps == { Dist[points[id], points[n]] : n \in Range(list) }
<1>1. gaps \in SUBSET Nat /\ gaps # {}  OBVIOUS
<1> HIDE DEF gaps
<1>2. PICK d \in gaps : \A e \in gaps : d <= e  BY <1>1, LeastNatural
<1> USE DEF gaps
<1>3. PICK k \in Range(list) : d = Dist[points[id], points[k]]  BY <1>2
<1>4. \A n \in Range(list) : d <= Dist[points[id], points[n]]  BY <1>2
<1> DEFINE least == CHOOSE e \in gaps : \A n \in Range(list) : e <= Dist[points[id], points[n]]
<1>5. least \in gaps /\ \A n \in Range(list) : least <= Dist[points[id], points[n]]
  BY <1>2, <1>4
<1>6. PICK n \in Range(list) : least = Dist[points[id], points[n]]  BY <1>5
<1>7. Nearest(points, id, list) = least  BY DEF Nearest
<1> QED BY <1>5, <1>6, <1>7

(* Every list keeps an entry as near as any that it had. *)
StaysNear ==
    \A id \in DOMAIN tags : Rec(id).nbrs # << >> =>
        \E k \in Range(Rec(id)'.nbrs) : \A n \in Range(Rec(id).nbrs) :
            Dist[data'[id], data'[k]] <= Dist[data[id], data[n]]

(* The lists name ids, and the distances of these are numbers. *)
ListsNumbered ==
    \A id \in DOMAIN tags :
        /\ Rec(id).nbrs \in Seq(DOMAIN tags) /\ Range(Rec(id).nbrs) \subseteq DOMAIN tags
        /\ \A n \in Range(Rec(id).nbrs) : Dist[data[id], data[n]] \in Nat

LEMMA IndexNumbered == IndexInv => ListsNumbered
<1> SUFFICES ASSUME IndexInv, NEW id \in DOMAIN tags
             PROVE  /\ Rec(id).nbrs \in Seq(DOMAIN tags) /\ Range(Rec(id).nbrs) \subseteq DOMAIN tags
                    /\ \A n \in Range(Rec(id).nbrs) : Dist[data[id], data[n]] \in Nat
  BY DEF ListsNumbered
<1>1. GoodList(id, Rec(id).nbrs)  BY IdsAndLocs
<1> DEFINE old == Rec(id).nbrs
<1>2. old \in Seq(DOMAIN tags \ {id})  BY <1>1 DEF GoodList
<1> HIDE DEF old
<1>3. old \in Seq(DOMAIN tags)  BY <1>2
<1>4. Range(old) \subseteq DOMAIN tags  BY <1>3 DEF Range
<1>5. \A n \in DOMAIN tags : data[n] \in Points
  BY DEF IndexInv, IdsInv
<1>6. \A n \in Range(old) : Dist[data[id], data[n]] \in Nat
  BY <1>4, <1>5, IndexAssumption
<1> QED BY <1>3, <1>4, <1>6 DEF old

LEMMA NearestKept ==
    ASSUME IndexInv, IndexInv', DOMAIN tags \subseteq DOMAIN tags', StaysNear,
           NEW id \in DOMAIN tags, Rec(id).nbrs # << >>
    PROVE  /\ Rec(id)'.nbrs # << >>
           /\ Nearest(data', id, Rec(id)'.nbrs) <= Nearest(data, id, Rec(id).nbrs)
<1> DEFINE old == Rec(id).nbrs
           new == Rec(id)'.nbrs
<1>1. ListsNumbered /\ ListsNumbered'
  <2>1. IndexInv' => ListsNumbered'  BY IndexNumbered, PTL
  <2> QED BY <2>1, IndexNumbered
<1>2. old \in Seq(DOMAIN tags) /\ \A n \in Range(old) : Dist[data[id], data[n]] \in Nat
  BY <1>1 DEF ListsNumbered
<1>3. new \in Seq(DOMAIN tags') /\ \A n \in Range(new) : Dist[data'[id], data'[n]] \in Nat
  BY <1>1 DEF ListsNumbered
<1>4. PICK k \in Range(new) : \A n \in Range(old) : Dist[data'[id], data'[k]] <= Dist[data[id], data[n]]
  BY DEF StaysNear
<1>5. old # << >>  OBVIOUS
<1> DEFINE pts == data
           npts == data'
<1> HIDE DEF old, new, pts, npts
<1>6. new # << >>
  <2>1. ASSUME new = << >> PROVE FALSE
    <3>1. DOMAIN new = {}  BY <2>1
    <3>2. Range(new) = {}  BY <3>1 DEF Range
    <3> QED BY <1>4, <3>2
  <2> QED BY <2>1
<1>7. Range(old) # {}
  <2>1. Len(old) # 0 /\ Len(old) \in Nat /\ DOMAIN old = 1 .. Len(old)
    BY <1>2, <1>5, EmptySeq, LenProperties
  <2>2. 1 \in DOMAIN old  BY <2>1
  <2>3. old[1] \in Range(old)  BY <2>2 DEF Range
  <2> QED BY <2>3
<1>8. PICK a \in Range(old) : Nearest(data, id, old) = Dist[data[id], data[a]]
  <2>1. \A n \in Range(old) : Dist[pts[id], pts[n]] \in Nat  BY <1>2 DEF pts
  <2>2. \E a \in Range(old) :
           /\ Nearest(pts, id, old) = Dist[pts[id], pts[a]]
           /\ \A n \in Range(old) : Dist[pts[id], pts[a]] <= Dist[pts[id], pts[n]]
    BY <1>7, <2>1, NearestFound
  <2> QED BY <2>2 DEF pts
<1>9. PICK b \in Range(new) :
          /\ Nearest(data', id, new) = Dist[data'[id], data'[b]]
          /\ \A n \in Range(new) : Dist[data'[id], data'[b]] <= Dist[data'[id], data'[n]]
  <2>1. \A n \in Range(new) : Dist[npts[id], npts[n]] \in Nat  BY <1>3 DEF npts
  <2>2. \E b \in Range(new) :
           /\ Nearest(npts, id, new) = Dist[npts[id], npts[b]]
           /\ \A n \in Range(new) : Dist[npts[id], npts[b]] <= Dist[npts[id], npts[n]]
    BY <1>4, <2>1, NearestFound
  <2> QED BY <2>2 DEF npts
<1>10. Nearest(data', id, new) <= Nearest(data, id, old)
  <2> DEFINE x == Dist[data'[id], data'[b]]
             y == Dist[data'[id], data'[k]]
             z == Dist[data[id], data[a]]
  <2>1. x <= y /\ y <= z  BY <1>4, <1>8, <1>9
  <2>2. x \in Nat /\ y \in Nat /\ z \in Nat  BY <1>2, <1>3, <1>4, <1>8, <1>9
  <2>3. Nearest(data', id, new) = x /\ Nearest(data, id, old) = z  BY <1>8, <1>9
  <2> HIDE DEF x, y, z
  <2> QED BY <2>1, <2>2, <2>3
<1> QED BY <1>6, <1>10 DEF old, new

-----------------------------------------------------------------------------
(* A chunk of the rebuild in place. *)

(* The list that a rebuild leaves is a good one, and has the nearest.       *)
LEMMA RebuiltList ==
    ASSUME IndexInv, NEW id \in DOMAIN tags,
           NEW list, list = Pruned(id, Range(Rec(id).nbrs) \ {id})
    PROVE  /\ GoodList(id, list)
           /\ Rec(id).nbrs # << >> =>
                \E k \in Range(list) : \A n \in Range(Rec(id).nbrs) : Gap(data, id, k) <= Gap(data, id, n)
<1> DEFINE old == Rec(id).nbrs
           ids == Range(old) \ {id}
<1>1. old \in Seq(DOMAIN tags \ {id}) /\ IsInjective(old)
  <2>1. GoodList(id, Rec(id).nbrs)  BY IdsAndLocs
  <2> QED BY <2>1 DEF GoodList
<1>2. DOMAIN tags \subseteq Int  BY IdsAndLocs
<1>3. old # << >> => ids # {}
  <2>1. ASSUME old # << >> PROVE ids # {}
    <3>1. old # << >>  BY <2>1
    <3> HIDE DEF old
    <3>2. Len(old) # 0 /\ Len(old) \in Nat /\ DOMAIN old = 1 .. Len(old)
      BY <1>1, <3>1, EmptySeq, LenProperties
    <3>3. 1 \in DOMAIN old  BY <3>2
    <3>4. old[1] \in Range(old) /\ old[1] # id  BY <1>1, <3>3, ElementOfSeq, LenProperties DEF Range
    <3> QED BY <3>4
  <2> QED BY <2>1
<1>4. ids = Range(old) /\ ids \subseteq DOMAIN tags \ {id}
  <2> HIDE DEF old
  <2>1. \A n \in Range(old) : n \in DOMAIN tags \ {id}
    <3>1. DOMAIN old = 1 .. Len(old)  BY <1>1, LenProperties
    <3> QED BY <1>1, <3>1, ElementOfSeq DEF Range
  <2>2. \A n : n \in ids <=> n \in Range(old)  BY <2>1
  <2>3. ids = Range(old)  BY <2>2, SetExtensionality
  <2> QED BY <2>1, <2>3
<1>5. IsFiniteSet(Range(old))
  <2> HIDE DEF old
  <2> QED BY <1>1, DistinctLen
<1>6. IsFiniteSet(ids) /\ ids \subseteq Int
  <2>1. IsFiniteSet(ids)  BY <1>4, <1>5
  <2> HIDE DEF ids
  <2> QED BY <1>2, <1>4, <2>1
<1>7. \A n \in ids : Gap(data, id, n) \in Int
  <2>1. \A n \in DOMAIN tags : data[n] \in Points  BY DEF IndexInv, IdsInv
  <2> HIDE DEF ids
  <2>2. \A n \in ids : Dist[data[id], data[n]] \in Nat  BY <1>4, <2>1, IndexAssumption
  <2>3. \A x \in Nat : x \in Int  OBVIOUS
  <2>4. \A n \in ids : Dist[data[id], data[n]] \in Int  BY Zenon, <2>2, <2>3
  <2> QED BY Zenon, <2>4 DEF Gap
<1>8. list = Pruned(id, ids)  OBVIOUS
<1>9. PrunedTo(list, id, ids)
  <2> HIDE DEF ids
  <2> QED BY <1>6, <1>7, <1>8, PrunedExact
<1>10. GoodList(id, list)
  <2> HIDE DEF ids
  <2>1. list \in Seq(ids) /\ IsInjective(list) /\ Len(list) <= R  BY <1>9 DEF PrunedTo
  <2>2. list \in Seq(DOMAIN tags \ {id})  BY <1>4, <2>1
  <2> QED BY <2>1, <2>2 DEF GoodList
<1>11. ASSUME old # << >>
       PROVE  \E k \in Range(list) : \A n \in Range(old) : Gap(data, id, k) <= Gap(data, id, n)
  <2>1. ids # {}  BY <1>3, <1>11
  <2> HIDE DEF ids, old
  <2>2. \E k \in Range(list) : \A j \in ids : Gap(data, id, k) <= Gap(data, id, j)
    BY <1>9, <2>1 DEF PrunedTo
  <2> QED BY <1>4, <2>2
<1> QED BY <1>10, <1>11

LEMMA RebuildKeeps ==
    ASSUME MergeInv, RebuildChunk
    PROVE  MergeInv' /\ Between /\ Between' /\ IndexInv' /\ DOMAIN tags' = DOMAIN tags /\ StaysNear
<1> DEFINE now == m.sector * NodesPerSector .. ChunkEnd(m.sector, MergeSectors) - 1
<1>1. IndexInv /\ MergeShape  BY DEF MergeInv
<1>2. /\ m.pc = "rebuild"
      /\ layout' = layout /\ tags' = tags /\ data' = data /\ medoid' = medoid
      /\ nextTag' = nextTag /\ deleted' = deleted /\ dropped' = dropped
      /\ m' = IF LastChunk(MergeSectors) THEN Idle ELSE [m EXCEPT !.sector = RebuildNext]
  BY Zenon DEF RebuildChunk
<1>3. file' = [ l \in Locs |->
                    IF layout[l] # None /\ l \in now
                    THEN [file[l] EXCEPT !.nbrs = Pruned(layout[l], Range(@) \ {layout[l]})]
                    ELSE file[l] ]
  BY Zenon DEF RebuildChunk
<1> HIDE DEF now
<1>4. Locs' = Locs /\ LiveLocs' = LiveLocs  BY <1>2 DEF Locs, LiveLocs
<1>5. \A id : LocOf(id)' = LocOf(id)  BY <1>2, <1>4 DEF LocOf
<1>6. ASSUME NEW l \in LiveLocs
      PROVE  /\ file'[l] = [point |-> tags[layout[l]], nbrs |-> file'[l].nbrs]
             /\ GoodList(layout[l], file'[l].nbrs)
             /\ file[l].nbrs # << >> =>
                  \E k \in Range(file'[l].nbrs) : \A n \in Range(file[l].nbrs) :
                      Gap(data, layout[l], k) <= Gap(data, layout[l], n)
  <2> DEFINE id == layout[l]
             old == file[l].nbrs
             list == Pruned(id, Range(old) \ {id})
  <2>1. l \in Locs /\ id \in DOMAIN tags /\ Rec(id) = file[l]  BY <1>1, IdsAndLocs DEF LiveLocs
  <2>2. file[l] = [point |-> tags[id], nbrs |-> old] /\ GoodList(id, old)
    BY <1>1 DEF IndexInv, FileInv
  <2>3. CASE layout[l] # None /\ l \in now
    <3>1. file'[l] = [file[l] EXCEPT !.nbrs = Pruned(layout[l], Range(@) \ {layout[l]})]
      BY <1>3, <2>1, <2>3
    <3>2. file'[l] = [file[l] EXCEPT !.nbrs = list]  BY <3>1
    <3>3. Rec(id).nbrs = old  BY <2>1
    <3>4. list = Pruned(id, Range(Rec(id).nbrs) \ {id})  BY <3>3
    <3> HIDE DEF list, id, old
    <3>5. /\ GoodList(id, list)
          /\ Rec(id).nbrs # << >> =>
                \E k \in Range(list) : \A n \in Range(Rec(id).nbrs) : Gap(data, id, k) <= Gap(data, id, n)
      BY <1>1, <2>1, <3>4, RebuiltList
    <3>6. file'[l] = [point |-> tags[id], nbrs |-> list]  BY <2>2, <3>2
    <3>7. file'[l].nbrs = list  BY <3>6
    <3> QED BY <3>3, <3>5, <3>6, <3>7 DEF id, old
  <2>4. CASE ~(layout[l] # None /\ l \in now)
    <3>1. file'[l] = file[l]  BY <1>3, <2>1, <2>4
    <3>2. ASSUME old # << >>
          PROVE  \E k \in Range(old) : \A n \in Range(old) : Gap(data, id, k) <= Gap(data, id, n)
      <4>1. old # << >>  BY <3>2
      <4> HIDE DEF old, id
      <4>2. old \in Seq(DOMAIN tags \ {id})  BY <2>2 DEF GoodList
      <4>3. Len(old) # 0 /\ Len(old) \in Nat /\ DOMAIN old = 1 .. Len(old)
        BY <4>1, <4>2, EmptySeq, LenProperties
      <4>4. 1 \in DOMAIN old  BY <4>3
      <4>5. Range(old) # {}  BY <4>4 DEF Range
      <4>6. \A n \in Range(old) : n \in DOMAIN tags  BY <4>2, <4>3, ElementOfSeq DEF Range
      <4>7. \A n \in DOMAIN tags : data[n] \in Points  BY <1>1 DEF IndexInv, IdsInv
      <4> DEFINE points == data
      <4>8. \A n \in Range(old) : Dist[points[id], points[n]] \in Nat
        BY <2>1, <4>6, <4>7, IndexAssumption
      <4> HIDE DEF points
      <4>9. \E k \in Range(old) :
              /\ Nearest(points, id, old) = Dist[points[id], points[k]]
              /\ \A n \in Range(old) : Dist[points[id], points[k]] <= Dist[points[id], points[n]]
        BY <4>5, <4>8, NearestFound
      <4> QED BY <4>9 DEF Gap, points
    <3> QED BY <2>2, <3>1, <3>2
  <2> QED BY <2>3, <2>4
<1>7. LocsInv'
  <2>1. LocsInv  BY <1>1 DEF IndexInv
  <2> QED BY <1>2, <1>4, <2>1 DEF LocsInv
<1>8. IdsInv'
  <2>1. IdsInv  BY <1>1 DEF IndexInv
  <2> QED BY <1>2, <2>1 DEF IdsInv
<1>9. FileInv'
  <2>1. file' = [ l \in Locs |-> file'[l] ]  BY <1>3
  <2>2. \A l \in LiveLocs : GoodList(layout[l], file[l].nbrs)'
    BY <1>2, <1>6 DEF GoodList
  <2>3. \A l \in LiveLocs : file'[l] = [point |-> tags[layout[l]], nbrs |-> file'[l].nbrs]
    BY <1>6
  <2> QED BY <1>2, <1>4, <2>1, <2>2, <2>3 DEF FileInv
<1>10. IndexInv'  BY <1>7, <1>8, <1>9 DEF IndexInv
<1>11. \/ m' = Idle
       \/ m' = [pc |-> "rebuild", sector |-> m'.sector, dels |-> {}] /\ m'.sector \in Nat
  <2>1. m = [pc |-> "rebuild", sector |-> m.sector, dels |-> {}] /\ m.sector \in Nat
    BY <1>1, <1>2 DEF MergeShape
  <2>2. RebuildNext \in Nat  BY <2>1, MergeAssumption DEF RebuildNext
  <2> HIDE DEF RebuildNext
  <2>3. CASE LastChunk(MergeSectors)  BY <1>2, <2>3
  <2>4. CASE ~LastChunk(MergeSectors)
    <3>1. m' = [m EXCEPT !.sector = RebuildNext]  BY <1>2, <2>4
    <3>2. m' = [pc |-> "rebuild", sector |-> RebuildNext, dels |-> {}]  BY <2>1, <3>1
    <3>3. m'.sector = RebuildNext  BY <3>2
    <3> QED BY <2>2, <3>2, <3>3
  <2> QED BY <2>3, <2>4
<1>12. MergeInv' /\ Between'  BY <1>10, <1>11, BetweenKeeps
<1>13. StaysNear
  <2>1. ASSUME NEW id \in DOMAIN tags, Rec(id).nbrs # << >>
        PROVE  \E k \in Range(Rec(id)'.nbrs) : \A n \in Range(Rec(id).nbrs) :
                    Dist[data'[id], data'[k]] <= Dist[data[id], data[n]]
    <3>1. LocOf(id) \in LiveLocs /\ layout[LocOf(id)] = id  BY <1>1, IdsAndLocs
    <3>2. Rec(id) = file[LocOf(id)] /\ Rec(id)' = file'[LocOf(id)]  BY <1>5 DEF Rec
    <3>3. \E k \in Range(file'[LocOf(id)].nbrs) : \A n \in Range(file[LocOf(id)].nbrs) :
              Gap(data, id, k) <= Gap(data, id, n)
      BY <1>6, <2>1, <3>1, <3>2
    <3> QED BY <1>2, <3>2, <3>3 DEF Gap
  <2> QED BY <2>1 DEF StaysNear
<1>14. Between  BY <1>2 DEF Between
<1> QED BY <1>2, <1>10, <1>12, <1>13, <1>14

-----------------------------------------------------------------------------
(* An insert: the candidates and the new list. *)

(* The search reaches ids of the index only. *)
LEMMA ReachedIds ==
    ASSUME IndexInv
    PROVE  Reached \subseteq DOMAIN tags
<1> DEFINE n == Cardinality(LiveLocs)
           S == SUBSET (DOMAIN tags)
           next(before) == before \cup UNION { Range(Rec(x).nbrs) : x \in before }
           body(f) == [ k \in 0 .. n |-> IF k = 0 THEN {medoid} ELSE next(f[k - 1]) ]
           grow == CHOOSE f : f = body(f)
           step == [ kb \in (1 .. n) \X S |-> next(kb[2]) ]
<1>1. Reached = grow[n]  BY DEF Reached
<1>2. n \in Nat
  <2>1. IsFiniteSet(LiveLocs)  BY IdsAndLocs
  <2> QED BY <2>1, FS_CardinalityType
<1>3. {medoid} \in S  BY DEF IndexInv, IdsInv
<1>4. \A b \in S : next(b) \in S
  <2> SUFFICES ASSUME NEW b \in S PROVE next(b) \in S  OBVIOUS
  <2>1. \A x \in DOMAIN tags : Rec(x).nbrs \in Seq(DOMAIN tags)  BY IndexNumbered DEF ListsNumbered
  <2>2. \A x \in DOMAIN tags : Range(Rec(x).nbrs) \subseteq DOMAIN tags
    BY IndexNumbered DEF ListsNumbered
  <2>3. b \subseteq DOMAIN tags  OBVIOUS
  <2> HIDE DEF S
  <2>4. \A y \in next(b) : y \in DOMAIN tags  BY <2>2, <2>3
  <2> USE DEF S
  <2> QED BY <2>4
<1> HIDE DEF n, next
<1>5. step \in [(1 .. n) \X S -> S]  BY <1>4
<1>6. \A i \in 1 .. n, b \in S : step[<<i, b>>] = next(b)  OBVIOUS
<1> HIDE DEF step, S
<1>7. PICK f \in [0 .. n -> S] : Recursion(f, n, {medoid}, step)
  BY <1>2, <1>3, <1>5, RecursionExists
<1>8. f[0] = {medoid} /\ \A i \in 1 .. n : f[i] = next(f[i - 1])
  <2>1. f[0] = {medoid} /\ \A i \in 1 .. n : f[i] = step[<<i, f[i - 1]>>]  BY <1>7 DEF Recursion
  <2>2. \A i \in 1 .. n : i - 1 \in 0 .. n  BY <1>2
  <2> QED BY <1>6, <2>1, <2>2
<1>9. f = body(f)
  <2>1. \A k \in 0 .. n : k # 0 => k \in 1 .. n  BY <1>2
  <2>2. \A k \in 0 .. n : f[k] = IF k = 0 THEN {medoid} ELSE next(f[k - 1])  BY <1>8, <2>1
  <2> QED BY <2>2
<1> HIDE DEF body
<1>10. grow = body(grow)  BY <1>9
<1> HIDE DEF grow
<1>11. grow[0] = {medoid} /\ \A i \in 1 .. n : grow[i] = next(grow[i - 1])
  <2> USE DEF body
  <2>1. \A k \in 0 .. n : grow[k] = IF k = 0 THEN {medoid} ELSE next(grow[k - 1])  BY <1>10
  <2>2. \A k \in 1 .. n : k \in 0 .. n /\ k # 0  BY <1>2
  <2>3. 0 \in 0 .. n  BY <1>2
  <2> HIDE DEF body
  <2> QED BY <2>1, <2>2, <2>3
<1>12. \A k \in 0 .. n : grow[k] \in S
  <2>1. grow[0] \in S  BY <1>3, <1>11
  <2>2. \A i \in 1 .. n : grow[i - 1] \in S => grow[i] \in S  BY <1>4, <1>11
  <2> QED BY <1>2, <2>1, <2>2, KeptToTheEnd
<1> QED BY <1>1, <1>2, <1>12 DEF S

(* The list of the new point names ids of the index. *)
LEMMA NewNhood ==
    ASSUME IndexInv, NEW id, id \notin DOMAIN tags, nextTag \in Points,
           NEW points, points = With(data, id, nextTag),
           NEW nhood,
           nhood = prune_neighbors(id, SortedPool(id, { n \in Reached : tags[n] \notin deleted }, points),
                                   medoid, points)
    PROVE  nhood \in Seq(DOMAIN tags) /\ IsInjective(nhood) /\ Len(nhood) <= R
<1> DEFINE cands == { n \in Reached : tags[n] \notin deleted }
           entry == medoid
<1>1. cands \subseteq DOMAIN tags  BY ReachedIds
<1>2. IsFiniteSet(DOMAIN tags) /\ DOMAIN tags \subseteq Int  BY IdsAndLocs
<1>3. data = tags /\ \A n \in DOMAIN tags : tags[n] \in Points  BY DEF IndexInv, IdsInv
<1>4. nhood = prune_neighbors(id, SortedPool(id, cands, points), entry, points)  OBVIOUS
<1> HIDE DEF cands, entry
<1>6. IsFiniteSet(cands) /\ cands \subseteq Int  BY <1>1, <1>2, FS_Subset
<1>7. \A n \in cands : Gap(points, id, n) \in Int
  <2>1. points[id] = nextTag /\ \A n \in DOMAIN tags : points[n] = tags[n]
    BY <1>3 DEF With
  <2>2. ASSUME NEW n \in cands PROVE Gap(points, id, n) \in Int
    <3>1. Gap(points, id, n) = Dist[nextTag, tags[n]]  BY <1>1, <2>1 DEF Gap
    <3>2. Dist[nextTag, tags[n]] \in Nat  BY <1>1, <1>3, IndexAssumption
    <3>3. \A x \in Nat : x \in Int  OBVIOUS
    <3>4. Dist[nextTag, tags[n]] \in Int  BY <3>2, <3>3, Zenon
    <3> QED BY <3>1, <3>4, Zenon
  <2> QED BY <2>2
<1>8. nhood \in Seq(cands) /\ IsInjective(nhood) /\ Len(nhood) <= R
  BY <1>4, <1>6, <1>7, NhoodPruned
<1>9. nhood \in Seq(DOMAIN tags)  BY <1>1, <1>8
<1> QED BY <1>8, <1>9

(* The list of a neighbour of the new point id: a good one, and with an     *)
(* entry as near as any that it had.                                        *)
LEMMA NeighborList ==
    ASSUME NEW X, X \subseteq Int, NEW id \in Int, id \notin X, NEW p, NEW points,
           \A n \in X \cup {id} : Gap(points, p, n) \in Nat,
           NEW old \in Seq(X), Rec(p).nbrs = old, IsInjective(old), Len(old) <= R,
           NEW list, list = WithNeighbor(p, id, points)
    PROVE  /\ list \in Seq(X \cup {id}) /\ IsInjective(list) /\ Len(list) <= R
           /\ old # << >> => AsNear(list, Range(old), p, points)
<1> DEFINE nhood == Append(old, id)
           ids == Range(nhood)
           pool == SortedPool(p, ids, points)
<1>1. list = IF Len(nhood) <= R THEN nhood
             ELSE IF delta THEN delta_prune_neighbors_pq(p, pool, id, points)
             ELSE prune_neighbors_pq(p, pool, points)
  BY DEF WithNeighbor
<1>2. nhood = Append(old, id)  OBVIOUS
<1>3. ids = Range(nhood) /\ pool = SortedPool(p, ids, points)  OBVIOUS
<1> HIDE DEF nhood, ids, pool
<1>4. /\ nhood \in Seq(X \cup {id}) /\ IsInjective(nhood) /\ Len(nhood) = Len(old) + 1
      /\ \A y : y \in Range(nhood) <=> y \in Range(old) \/ y = id
  <2>1. nhood \in Seq(X \cup {id})  BY <1>2, Longer
  <2>2. IsInjective(nhood)  BY <1>2, Longer
  <2>3. Len(nhood) = Len(old) + 1  BY <1>2, Longer
  <2>4. OneMore(nhood, old, id)  BY <1>2, Longer
  <2> QED BY <2>1, <2>2, <2>3, <2>4 DEF OneMore
<1>5. Len(old) \in Nat /\ DOMAIN old = 1 .. Len(old) /\ R \in Nat  BY LenProperties, PruneAssumption
<1>6. \A n \in Range(old) : n \in X  BY <1>5, ElementOfSeq DEF Range
<1>7. ids \subseteq X \cup {id} /\ ids \subseteq Int
  <2>1. \A n \in ids : n \in Range(old) \/ n = id  BY <1>3, <1>4
  <2> QED BY <1>6, <2>1
<1>8. \A n \in X \cup {id} : Gap(points, p, n) \in Int  OBVIOUS
<1>9. CASE Len(nhood) <= R
  <2>1. list = nhood  BY <1>1, <1>9
  <2>2. ASSUME old # << >>
        PROVE  AsNear(list, Range(old), p, points)
    <3>1. Len(old) # 0  BY <1>5, <2>2, EmptySeq
    <3>2. 1 \in DOMAIN old  BY <1>5, <3>1
    <3>3. Range(old) # {}  BY <3>2 DEF Range
    <3>4. \A n \in Range(old) : Dist[points[p], points[n]] \in Nat  BY <1>6, Zenon DEF Gap
    <3>5. \E k \in Range(old) :
            /\ Nearest(points, p, old) = Dist[points[p], points[k]]
            /\ \A n \in Range(old) : Dist[points[p], points[k]] <= Dist[points[p], points[n]]
      BY <3>3, <3>4, NearestFound
    <3> QED BY <1>4, <2>1, <3>5 DEF Gap, AsNear
  <2> QED BY <1>4, <1>9, <2>1, <2>2
<1>10. CASE ~(Len(nhood) <= R)
  <2>1. Len(nhood) = R + 1
    <3> DEFINE a == Len(nhood)
               b == Len(old)
    <3>1. a = b + 1 /\ b <= R /\ b \in Nat /\ ~(a <= R)  BY <1>4, <1>5, <1>10
    <3> HIDE DEF a, b
    <3>2. a = R + 1  BY <1>5, <3>1
    <3> QED BY <3>2 DEF a
  <2>2. Len(nhood) = Cardinality(ids) /\ IsFiniteSet(ids)  BY <1>3, <1>4, DistinctLen
  <2>3. \A n \in ids : Gap(points, p, n) \in Int  BY <1>7, <1>8
  <2>4. Cardinality(ids) = R + 1 /\ id \in ids  BY <1>3, <1>4, <2>1, <2>2
  <2>5. list = delta_prune_neighbors_pq(p, pool, id, points) \/ list = prune_neighbors_pq(p, pool, points)
    BY <1>1, <1>10
  <2>6. /\ list \in Seq(ids) /\ IsInjective(list) /\ Len(list) <= R
        /\ AsNear(list, ids \ {id}, p, points)
    <3>1. list \in Seq(ids)  BY <1>3, <1>7, <2>2, <2>3, <2>4, <2>5, OneTooMany
    <3>2. IsInjective(list)  BY <1>3, <1>7, <2>2, <2>3, <2>4, <2>5, OneTooMany
    <3>3. Len(list) <= R  BY <1>3, <1>7, <2>2, <2>3, <2>4, <2>5, OneTooMany
    <3>4. AsNear(list, ids \ {id}, p, points)
      BY <1>3, <1>7, <2>2, <2>3, <2>4, <2>5, OneTooMany
    <3> QED BY <3>1, <3>2, <3>3, <3>4
  <2>7. \A n \in Range(old) : n \in ids \ {id}  BY <1>3, <1>4, <1>6
  <2>8. list \in Seq(X \cup {id})
    <3> DEFINE Y == X \cup {id}
    <3>1. ids \subseteq Y  BY <1>7
    <3> HIDE DEF Y
    <3>2. list \in Seq(Y)  BY <2>6, <3>1, SeqMonotonic
    <3> QED BY <3>2 DEF Y
  <2>9. AsNear(list, Range(old), p, points)  BY <2>6, <2>7, Zenon DEF AsNear
  <2> QED BY <2>6, <2>8, <2>9
<1> QED BY <1>9, <1>10

(* Fresh locations for the neighbours and the new point: still one each. *)
LEMMA Moved ==
    ASSUME IndexInv, NEW id, id = Cardinality(DOMAIN tags),
           NEW nhood \in Seq(DOMAIN tags), IsInjective(nhood),
           layout' = Relocated(id, nhood), DOMAIN tags' = DOMAIN tags \cup {id},
           NEW c, c = Cardinality(Locs), NEW n, n = Len(nhood)
    PROVE  /\ c \in Nat /\ n \in Nat /\ Locs = 0 .. c - 1 /\ Locs' = 0 .. c + n
           /\ \A l \in 0 .. c - 1 : layout'[l] = IF layout[l] \in Range(nhood) THEN None ELSE layout[l]
           /\ \A i \in 1 .. n : layout'[c + i - 1] = nhood[i]
           /\ layout'[c + n] = id
           /\ LocsInv'
<1>1. /\ c \in Nat /\ Locs = 0 .. c - 1 /\ layout \in [Locs -> DOMAIN tags \cup {None}]
      /\ \A l, k \in LiveLocs : layout[l] = layout[k] => l = k
      /\ \A x \in DOMAIN tags : \E l \in LiveLocs : layout[l] = x
  BY DEF IndexInv, LocsInv
<1>2. id \in Nat /\ DOMAIN tags = 0 .. id - 1  BY DEF IndexInv, IdsInv
<1>3. n \in Nat /\ DOMAIN nhood = 1 .. n  BY LenProperties
<1>4. \A i \in 1 .. n : nhood[i] \in DOMAIN tags  BY <1>3, ElementOfSeq
<1>5. None \notin DOMAIN tags /\ None # id  BY <1>2, MergeAssumption
<1>6. id \notin DOMAIN tags
  <2>1. \A k \in Nat : k \notin 0 .. k - 1  OBVIOUS
  <2> QED BY <1>2, <2>1, Zenon
<1>7. layout' = [ l \in 0 .. c + n |->
          IF l = c + n THEN id
          ELSE IF l >= c THEN nhood[l - c + 1]
          ELSE IF layout[l] \in Range(nhood) THEN None ELSE layout[l] ]
  BY DEF Relocated
<1>8. Locs' = 0 .. c + n  BY <1>7 DEF Locs
<1>9. ASSUME NEW l \in 0 .. c - 1
      PROVE  layout'[l] = IF layout[l] \in Range(nhood) THEN None ELSE layout[l]
  <2>1. l \in 0 .. c + n /\ l # c + n /\ ~(l >= c)  BY <1>1, <1>3
  <2> QED BY <1>7, <2>1
<1>10. ASSUME NEW i \in 1 .. n PROVE layout'[c + i - 1] = nhood[i]
  <2> DEFINE l == c + i - 1
  <2>1. l \in 0 .. c + n /\ l # c + n /\ l >= c /\ l - c + 1 = i  BY <1>1, <1>3
  <2> HIDE DEF l
  <2>2. layout'[l] = nhood[l - c + 1]  BY <1>7, <2>1
  <2> QED BY <2>1, <2>2 DEF l
<1>11. layout'[c + n] = id
  <2>1. c + n \in 0 .. c + n  BY <1>1, <1>3
  <2> QED BY <1>7, <2>1
<1>12. ASSUME NEW l \in 0 .. c + n
       PROVE  l \in 0 .. c - 1 \/ (\E i \in 1 .. n : l = c + i - 1) \/ l = c + n
  <2>1. CASE l < c  BY <1>1, <2>1
  <2>2. CASE l >= c /\ l # c + n
    <3>1. l - c + 1 \in 1 .. n /\ l = c + (l - c + 1) - 1  BY <1>1, <1>3, <2>2
    <3> QED BY <3>1
  <2> QED BY <1>1, <1>3, <2>1, <2>2
<1> DEFINE Low(l) == l \in 0 .. c - 1 /\ layout[l] # None /\ layout'[l] = layout[l]
                     /\ layout[l] \notin Range(nhood)
           Mid(l) == \E i \in 1 .. n : l = c + i - 1 /\ layout'[l] = nhood[i]
<1>13. ASSUME NEW l \in LiveLocs' PROVE Low(l) \/ Mid(l) \/ (l = c + n /\ layout'[l] = id)
  <2>1. l \in 0 .. c + n /\ layout'[l] # None  BY <1>8 DEF LiveLocs
  <2> QED BY <1>9, <1>10, <1>11, <1>12, <2>1
<1>14. layout' \in [Locs' -> DOMAIN tags' \cup {None}]
  <2>1. ASSUME NEW l \in 0 .. c + n PROVE layout'[l] \in DOMAIN tags' \cup {None}
    <3>1. CASE l \in 0 .. c - 1
      <4>1. layout[l] \in DOMAIN tags \cup {None}  BY <1>1, <3>1
      <4> QED BY <1>9, <3>1, <4>1
    <3>2. CASE \E i \in 1 .. n : l = c + i - 1  BY <1>4, <1>10, <3>2
    <3>3. CASE l = c + n  BY <1>11, <3>3
    <3> QED BY <1>12, <3>1, <3>2, <3>3
  <2>2. layout' = [ l \in 0 .. c + n |-> layout'[l] ]  BY <1>7
  <2> QED BY <1>8, <2>1, <2>2
<1>15. ASSUME NEW l \in LiveLocs', NEW k \in LiveLocs', layout'[l] = layout'[k] PROVE l = k
  <2>1. \A x : Low(x) => x \in LiveLocs /\ layout'[x] \in DOMAIN tags /\ layout'[x] \notin Range(nhood)
    BY <1>1 DEF LiveLocs
  <2>2. \A x : Mid(x) => layout'[x] \in DOMAIN tags /\ layout'[x] \in Range(nhood)
    BY <1>3, <1>4 DEF Range
  <2>3. CASE Low(l) /\ Low(k)
    <3>1. l \in LiveLocs /\ k \in LiveLocs /\ layout[l] = layout[k]  BY <1>15, <2>1, <2>3
    <3> QED BY <1>1, <3>1
  <2>4. CASE Mid(l) /\ Mid(k)
    <3>1. PICK i \in 1 .. n : l = c + i - 1 /\ layout'[l] = nhood[i]  BY <2>4
    <3>2. PICK j \in 1 .. n : k = c + j - 1 /\ layout'[k] = nhood[j]  BY <2>4
    <3>3. nhood[i] = nhood[j]  BY <1>15, <3>1, <3>2
    <3>4. i = j  BY <1>3, <3>3 DEF IsInjective
    <3> QED BY <3>1, <3>2, <3>4
  <2>5. CASE l = c + n /\ k = c + n  BY <2>5
  <2>6. CASE Low(l) /\ Mid(k)  BY <1>15, <2>1, <2>2, <2>6
  <2>7. CASE Mid(l) /\ Low(k)  BY <1>15, <2>1, <2>2, <2>7
  <2>8. CASE (Low(l) \/ Mid(l)) /\ k = c + n
    <3>1. layout'[l] \in DOMAIN tags  BY <2>1, <2>2, <2>8
    <3> QED BY <1>6, <1>11, <1>15, <2>8, <3>1
  <2>9. CASE (Low(k) \/ Mid(k)) /\ l = c + n
    <3>1. layout'[k] \in DOMAIN tags  BY <2>1, <2>2, <2>9
    <3> QED BY <1>6, <1>11, <1>15, <2>9, <3>1
  <2> HIDE DEF Low, Mid
  <2> QED BY <1>13, <2>3, <2>4, <2>5, <2>6, <2>7, <2>8, <2>9
<1>16. ASSUME NEW x \in DOMAIN tags' PROVE \E l \in LiveLocs' : layout'[l] = x
  <2>1. CASE x = id
    <3>0. c + n \in 0 .. c + n  BY <1>1, <1>3
    <3>1. c + n \in Locs'  BY <1>8, <3>0, Zenon
    <3>2. c + n \in LiveLocs'  BY <1>5, <1>11, <3>1 DEF LiveLocs
    <3> QED BY <1>11, <2>1, <3>2
  <2>2. CASE x \in Range(nhood)
    <3>1. PICK i \in 1 .. n : x = nhood[i]  BY <1>3, <2>2 DEF Range
    <3>0. c + i - 1 \in 0 .. c + n  BY <1>1, <1>3
    <3>2. c + i - 1 \in Locs'  BY <1>8, <3>0, Zenon
    <3>3. layout'[c + i - 1] = x /\ x # None  BY <1>4, <1>5, <1>10, <3>1
    <3>4. c + i - 1 \in LiveLocs'  BY <3>2, <3>3 DEF LiveLocs
    <3> QED BY <3>3, <3>4
  <2>3. CASE x # id /\ x \notin Range(nhood)
    <3>1. PICK l \in LiveLocs : layout[l] = x  BY <1>1, <2>3
    <3>2. l \in 0 .. c - 1  BY <1>1, <3>1 DEF LiveLocs
    <3>3. layout'[l] = x /\ x # None  BY <1>9, <2>3, <3>1, <3>2 DEF LiveLocs
    <3>0. l \in 0 .. c + n  BY <1>1, <1>3, <3>2
    <3>4. l \in Locs'  BY <1>8, <3>0, Zenon
    <3>5. l \in LiveLocs'  BY <3>3, <3>4 DEF LiveLocs
    <3> QED BY <3>3, <3>5
  <2> QED BY <2>1, <2>2, <2>3
<1>17. Cardinality(Locs') \in Nat /\ Locs' = 0 .. Cardinality(Locs') - 1
  <2>1. 0 \in Int /\ c + n \in Int  BY <1>1, <1>3
  <2>2. Cardinality(0 .. c + n) = IF 0 > c + n THEN 0 ELSE (c + n) - 0 + 1  BY <2>1, FS_Interval
  <2>0. Cardinality(0 .. c + n) = c + n + 1  BY <1>1, <1>3, <2>2
  <2>3. Cardinality(Locs') = c + n + 1  BY <1>8, <2>0, Zenon
  <2>4. c + n + 1 \in Nat /\ c + n = (c + n + 1) - 1  BY <1>1, <1>3
  <2> QED BY <1>8, <2>3, <2>4
<1>18. LocsInv'  BY <1>14, <1>15, <1>16, <1>17 DEF LocsInv
<1> QED BY <1>1, <1>3, <1>8, <1>9, <1>10, <1>11, <1>18

(* What an insert of nhood's record changes. *)
Inserted(id, points, nhood) ==
    /\ nhood \in Seq(DOMAIN tags) /\ IsInjective(nhood) /\ Len(nhood) <= R
    /\ layout' = Relocated(id, nhood)
    /\ file' = [ l \in DOMAIN layout' |->
            IF l \in Locs THEN file[l]
            ELSE IF layout'[l] = id THEN [point |-> nextTag, nbrs |-> nhood]
            ELSE [point |-> Rec(layout'[l]).point, nbrs |-> WithNeighbor(layout'[l], id, points)] ]
    /\ tags' = With(tags, id, nextTag) /\ data' = points

LEMMA InsertShape ==
    ASSUME IndexInv, Insert, NEW id, id = Cardinality(DOMAIN tags),
           NEW points, points = With(data, id, nextTag)
    PROVE  \E nhood : Inserted(id, points, nhood)
<1>0. nextTag \in Points  BY Zenon DEF Insert
<1>1. \E k \in {Cardinality(DOMAIN tags)}, pts \in {With(data, Cardinality(DOMAIN tags), nextTag)} :
       \E nhood \in { prune_neighbors(k,
                          SortedPool(k, { n \in Reached : tags[n] \notin deleted }, pts),
                          medoid, pts) } :
          /\ layout' = Relocated(k, nhood)
          /\ file' = [ l \in DOMAIN layout' |->
                IF l \in Locs THEN file[l]
                ELSE IF layout'[l] = k THEN [point |-> nextTag, nbrs |-> nhood]
                ELSE [point |-> Rec(layout'[l]).point, nbrs |-> WithNeighbor(layout'[l], k, pts)] ]
          /\ tags' = With(tags, k, nextTag)
          /\ data' = pts
  BY Zenon DEF Insert
<1> DEFINE nhood == prune_neighbors(id,
                          SortedPool(id, { n \in Reached : tags[n] \notin deleted }, points),
                          medoid, points)
<1>2. /\ layout' = Relocated(id, nhood)
      /\ file' = [ l \in DOMAIN layout' |->
            IF l \in Locs THEN file[l]
            ELSE IF layout'[l] = id THEN [point |-> nextTag, nbrs |-> nhood]
            ELSE [point |-> Rec(layout'[l]).point, nbrs |-> WithNeighbor(layout'[l], id, points)] ]
      /\ tags' = With(tags, id, nextTag)
      /\ data' = points
  BY <1>1, Zenon
<1>3. nhood = prune_neighbors(id, SortedPool(id, { n \in Reached : tags[n] \notin deleted }, points),
                                  medoid, points)
  OBVIOUS
<1> HIDE DEF nhood
<1>4. id \notin DOMAIN tags
  <2>1. \A k \in Nat : k \notin 0 .. k - 1  OBVIOUS
  <2>2. id \in Nat /\ DOMAIN tags = 0 .. id - 1  BY DEF IndexInv, IdsInv
  <2> QED BY <2>1, <2>2, Zenon
<1>5. nhood \in Seq(DOMAIN tags) /\ IsInjective(nhood) /\ Len(nhood) <= R
  BY <1>0, <1>3, <1>4, NewNhood
<1> QED BY <1>2, <1>5, Zenon DEF Inserted

(* The lists of an index have an entry as near as any of theirs. *)
LEMMA NearestThere ==
    ASSUME IndexInv, NEW id \in DOMAIN tags, Rec(id).nbrs # << >>
    PROVE  AsNear(Rec(id).nbrs, Range(Rec(id).nbrs), id, data)
<1> DEFINE old == Rec(id).nbrs
           points == data
<1>1. /\ old \in Seq(DOMAIN tags)
      /\ \A n \in Range(old) : Dist[points[id], points[n]] \in Nat
  BY IndexNumbered DEF ListsNumbered
<1>2. old # << >>  OBVIOUS
<1> HIDE DEF old, points
<1>3. Len(old) # 0 /\ Len(old) \in Nat /\ DOMAIN old = 1 .. Len(old)
  <2>1. Len(old) \in Nat /\ DOMAIN old = 1 .. Len(old)  BY <1>1, LenProperties, Zenon
  <2>2. Len(old) \in Nat \ {0}  BY <1>1, <1>2, EmptySeq, Zenon
  <2> QED BY <2>1, <2>2
<1>4. 1 \in DOMAIN old  BY <1>3
<1>5. Range(old) # {}  BY <1>4 DEF Range
<1>6. \E k \in Range(old) :
        /\ Nearest(points, id, old) = Dist[points[id], points[k]]
        /\ \A n \in Range(old) : Dist[points[id], points[k]] <= Dist[points[id], points[n]]
  BY <1>1, <1>5, NearestFound
<1>7. AsNear(old, Range(old), id, points)  BY <1>6, Zenon DEF AsNear, Gap
<1> QED BY <1>7 DEF old, points

(* The record of a neighbour after an insert. *)
LEMMA NeighborRecord ==
    ASSUME IndexInv, nextTag \in Points, NEW id, id = Cardinality(DOMAIN tags),
           NEW points, points = With(data, id, nextTag),
           NEW p \in DOMAIN tags, NEW list, list = WithNeighbor(p, id, points)
    PROVE  /\ list \in Seq((DOMAIN tags \cup {id}) \ {p}) /\ IsInjective(list) /\ Len(list) <= R
           /\ Rec(p).nbrs # << >> => AsNear(list, Range(Rec(p).nbrs), p, points)
<1> DEFINE old == Rec(p).nbrs
           X == DOMAIN tags \ {p}
<1>1. GoodList(p, old)  BY IdsAndLocs
<1>2. old \in Seq(X) /\ Len(old) <= R /\ IsInjective(old)  BY <1>1 DEF GoodList
<1>3. Rec(p).nbrs = old  OBVIOUS
<1> HIDE DEF old
<1>4. id \in Nat /\ DOMAIN tags = 0 .. id - 1 /\ id \notin DOMAIN tags
  <2>1. \A k \in Nat : k \notin 0 .. k - 1  OBVIOUS
  <2>2. id \in Nat /\ DOMAIN tags = 0 .. id - 1  BY DEF IndexInv, IdsInv
  <2> QED BY <2>1, <2>2, Zenon
<1>5. X \subseteq Int /\ id \in Int /\ id \notin X /\ p # id
  <2>1. DOMAIN tags \subseteq Int  BY IdsAndLocs
  <2> QED BY <1>4, <2>1
<1>6. data = tags /\ \A n \in DOMAIN tags : tags[n] \in Points  BY DEF IndexInv, IdsInv
<1>7. \A n \in DOMAIN tags \cup {id} : points[n] \in Points
  <2>1. DOMAIN data = DOMAIN tags  BY <1>6
  <2>2. points = [ x \in DOMAIN tags \cup {id} |-> IF x = id THEN nextTag ELSE data[x] ]
    BY <2>1 DEF With
  <2>3. ASSUME NEW n \in DOMAIN tags \cup {id} PROVE points[n] \in Points
    <3>1. points[n] = IF n = id THEN nextTag ELSE data[n]  BY <2>2
    <3> QED BY <1>6, <3>1
  <2> QED BY <2>3
<1>8. \A n \in X \cup {id} : Gap(points, p, n) \in Nat
  <2>1. p \in DOMAIN tags \cup {id} /\ \A n \in X \cup {id} : n \in DOMAIN tags \cup {id}  OBVIOUS
  <2>2. \A a, b \in Points : Dist[a, b] \in Nat  BY IndexAssumption
  <2> QED BY <1>7, <2>1, <2>2, Zenon DEF Gap
<1>9. X \cup {id} = (DOMAIN tags \cup {id}) \ {p}  BY <1>5
<1> HIDE DEF X
<1>10. /\ list \in Seq(X \cup {id}) /\ IsInjective(list) /\ Len(list) <= R
       /\ old # << >> => AsNear(list, Range(old), p, points)
  <2>1. list \in Seq(X \cup {id})  BY <1>2, <1>3, <1>5, <1>8, NeighborList
  <2>2. IsInjective(list)  BY <1>2, <1>3, <1>5, <1>8, NeighborList
  <2>3. Len(list) <= R  BY <1>2, <1>3, <1>5, <1>8, NeighborList
  <2>4. old # << >> => AsNear(list, Range(old), p, points)
    BY <1>2, <1>3, <1>5, <1>8, NeighborList
  <2> QED BY <2>1, <2>2, <2>3, <2>4
<1> QED BY <1>3, <1>9, <1>10

(* Every id of an index has its record at a live location. *)
RecsFound == \A id \in DOMAIN tags : \E l \in LiveLocs : layout[l] = id /\ Rec(id) = file[l]

LEMMA IndexFound == IndexInv => RecsFound
<1> SUFFICES ASSUME IndexInv, NEW id \in DOMAIN tags
             PROVE  \E l \in LiveLocs : layout[l] = id /\ Rec(id) = file[l]
  BY DEF RecsFound
<1>1. LocOf(id) \in LiveLocs /\ layout[LocOf(id)] = id  BY IdsAndLocs
<1> QED BY <1>1 DEF Rec

(* The records that an insert writes. *)
LEMMA RecordInserted ==
    ASSUME IndexInv, nextTag \in Points, NEW id, id = Cardinality(DOMAIN tags),
           NEW points, points = With(data, id, nextTag),
           NEW nhood, Inserted(id, points, nhood), DOMAIN tags' = DOMAIN tags \cup {id},
           NEW l \in LiveLocs'
    PROVE  /\ file'[l] = [point |-> tags'[layout'[l]], nbrs |-> file'[l].nbrs]
           /\ file'[l].nbrs \in Seq((DOMAIN tags \cup {id}) \ {layout'[l]})
           /\ Len(file'[l].nbrs) <= R /\ IsInjective(file'[l].nbrs)
           /\ layout'[l] \in DOMAIN tags /\ Rec(layout'[l]).nbrs # << >>
                => AsNear(file'[l].nbrs, Range(Rec(layout'[l]).nbrs), layout'[l], points)
<1> DEFINE q == layout'[l]
           list == file'[l].nbrs
           c == Cardinality(Locs)
           n == Len(nhood)
<1>1. /\ nhood \in Seq(DOMAIN tags) /\ IsInjective(nhood) /\ Len(nhood) <= R
      /\ layout' = Relocated(id, nhood) /\ tags' = With(tags, id, nextTag)
      /\ file' = [ x \in DOMAIN layout' |->
            IF x \in Locs THEN file[x]
            ELSE IF layout'[x] = id THEN [point |-> nextTag, nbrs |-> nhood]
            ELSE [point |-> Rec(layout'[x]).point, nbrs |-> WithNeighbor(layout'[x], id, points)] ]
  BY Zenon DEF Inserted
<1>2. /\ c \in Nat /\ n \in Nat /\ Locs = 0 .. c - 1 /\ Locs' = 0 .. c + n
      /\ \A x \in 0 .. c - 1 : layout'[x] = IF layout[x] \in Range(nhood) THEN None ELSE layout[x]
      /\ \A i \in 1 .. n : layout'[c + i - 1] = nhood[i]
      /\ layout'[c + n] = id
      /\ LocsInv'
  <2>1. c = Cardinality(Locs) /\ n = Len(nhood)  OBVIOUS
  <2> HIDE DEF c, n
  <2> QED BY <1>1, <2>1, Moved
<1> HIDE DEF c, n
<1>3. l \in Locs' /\ layout'[l] # None  BY DEF LiveLocs
<1>4. id \notin DOMAIN tags
  <2>1. \A k \in Nat : k \notin 0 .. k - 1  OBVIOUS
  <2>2. id \in Nat /\ DOMAIN tags = 0 .. id - 1  BY DEF IndexInv, IdsInv
  <2> QED BY <2>1, <2>2, Zenon
<1>5. \A x \in DOMAIN tags : tags'[x] = tags[x]
  <2>1. \A x \in DOMAIN tags : x \in DOMAIN tags \cup {id} /\ x # id  BY <1>4
  <2> QED BY <1>1, <2>1 DEF With
<1>6. tags'[id] = nextTag  BY <1>1 DEF With
<1>7. \A x \in DOMAIN tags : points[x] = data[x]
  <2>1. DOMAIN data = DOMAIN tags  BY DEF IndexInv, IdsInv
  <2>2. \A x \in DOMAIN tags : x \in DOMAIN tags \cup {id} /\ x # id  BY <1>4
  <2> QED BY <2>1, <2>2 DEF With
<1>8. file'[l] = IF l \in Locs THEN file[l]
            ELSE IF layout'[l] = id THEN [point |-> nextTag, nbrs |-> nhood]
            ELSE [point |-> Rec(layout'[l]).point, nbrs |-> WithNeighbor(layout'[l], id, points)]
  <2>1. l \in DOMAIN layout'  BY <1>3 DEF Locs
  <2> QED BY <1>1, <2>1, Zenon
<1>9. CASE l \in Locs
  <2>1. file'[l] = file[l]  BY <1>8, <1>9, Zenon
  <2>2. layout'[l] = IF layout[l] \in Range(nhood) THEN None ELSE layout[l]
    BY <1>2, <1>9, Zenon
  <2>3. layout'[l] = layout[l] /\ layout[l] # None  BY <1>3, <2>2, Zenon
  <2>4. l \in LiveLocs  BY <1>9, <2>3 DEF LiveLocs
  <2>5. q \in DOMAIN tags /\ Rec(q) = file[l]  BY <2>3, <2>4, IdsAndLocs
  <2>6. Rec(q) = [point |-> tags[q], nbrs |-> Rec(q).nbrs] /\ GoodList(q, Rec(q).nbrs)
    BY <2>5, IdsAndLocs
  <2>7. file'[l] = Rec(q) /\ list = Rec(q).nbrs  BY <2>1, <2>5
  <2>8. file'[l] = [point |-> tags'[q], nbrs |-> list]  BY <1>5, <2>5, <2>6, <2>7
  <2>9. list \in Seq(DOMAIN tags \ {q}) /\ Len(list) <= R /\ IsInjective(list)
    BY <2>6, <2>7, Zenon DEF GoodList
  <2>10. list \in Seq((DOMAIN tags \cup {id}) \ {q})
    <3> DEFINE A == DOMAIN tags \ {q}
               B == (DOMAIN tags \cup {id}) \ {q}
    <3>1. A \subseteq B  OBVIOUS
    <3>2. list \in Seq(A)  BY <2>9
    <3> HIDE DEF A, B, list, q
    <3>3. list \in Seq(B)  BY <3>1, <3>2, SeqMonotonic
    <3> QED BY <3>3 DEF B
  <2>11. ASSUME Rec(q).nbrs # << >> PROVE AsNear(list, Range(Rec(q).nbrs), q, points)
    <3>1. AsNear(Rec(q).nbrs, Range(Rec(q).nbrs), q, data)  BY <2>5, <2>11, NearestThere
    <3>2. Range(Rec(q).nbrs) \subseteq DOMAIN tags  BY <2>5, IndexNumbered DEF ListsNumbered
    <3>3. AsNear(Rec(q).nbrs, Range(Rec(q).nbrs), q, points)
      <4> DEFINE S == Range(Rec(q).nbrs)
      <4>1. PICK k \in S : \A x \in S : Gap(data, q, k) <= Gap(data, q, x)  BY <3>1 DEF AsNear
      <4>2. \A x \in S : Gap(points, q, x) = Gap(data, q, x)
        <5> HIDE DEF S, q
        <5>1. S \subseteq DOMAIN tags  BY <3>2 DEF S
        <5> QED BY <1>7, <2>5, <5>1 DEF Gap
      <4>3. \A x \in S : Gap(points, q, k) <= Gap(points, q, x)
        <5> HIDE DEF S, q
        <5> QED BY <4>1, <4>2
      <4> QED BY <4>3 DEF AsNear
    <3> QED BY <2>7, <3>3
  <2> QED BY <2>8, <2>9, <2>10, <2>11
<1>10. CASE l \notin Locs /\ layout'[l] = id
  <2>1. file'[l] = [point |-> nextTag, nbrs |-> nhood]  BY <1>8, <1>10, Zenon
  <2>2. list = nhood  BY <2>1
  <2>3. file'[l] = [point |-> tags'[q], nbrs |-> list]  BY <1>6, <1>10, <2>1, <2>2
  <2>4. (DOMAIN tags \cup {id}) \ {q} = DOMAIN tags
    <3>1. q = id  BY <1>10
    <3> QED BY <1>4, <3>1
  <2>5. q \notin DOMAIN tags  BY <1>4, <1>10
  <2> HIDE DEF q, list
  <2>6. list \in Seq((DOMAIN tags \cup {id}) \ {q})  BY <1>1, <2>2, <2>4, Zenon
  <2> QED BY <1>1, <2>2, <2>3, <2>5, <2>6 DEF q, list
<1>11. CASE l \notin Locs /\ layout'[l] # id
  <2>1. file'[l] = [point |-> Rec(q).point, nbrs |-> WithNeighbor(q, id, points)]
    BY <1>8, <1>11, Zenon
  <2>2. q \in DOMAIN tags
    <3>1. layout' \in [Locs' -> DOMAIN tags' \cup {None}]  BY <1>2 DEF LocsInv
    <3>2. q \in DOMAIN tags' \cup {None}  BY <1>3, <3>1
    <3>3. q \in DOMAIN tags' /\ q # id  BY <1>3, <1>11, <3>2
    <3> QED BY <3>3
  <2>3. list = WithNeighbor(q, id, points)  BY <2>1
  <2>4. Rec(q) = [point |-> tags[q], nbrs |-> Rec(q).nbrs]  BY <2>2, IdsAndLocs
  <2>5. Rec(q).point = tags[q]  BY <2>4
  <2>6. file'[l] = [point |-> tags'[q], nbrs |-> list]  BY <1>5, <2>1, <2>2, <2>3, <2>5
  <2> HIDE DEF q, list
  <2>7. /\ list \in Seq((DOMAIN tags \cup {id}) \ {q}) /\ IsInjective(list) /\ Len(list) <= R
        /\ Rec(q).nbrs # << >> => AsNear(list, Range(Rec(q).nbrs), q, points)
    BY <2>2, <2>3, NeighborRecord
  <2> QED BY <2>6, <2>7 DEF q, list
<1> QED BY <1>9, <1>10, <1>11

(* The next tag gets the next id. *)
LEMMA IdGiven ==
    ASSUME IndexInv, nextTag \in Points, NEW id, id = Cardinality(DOMAIN tags),
           tags' = With(tags, id, nextTag), data' = With(data, id, nextTag),
           nextTag' = nextTag + 1, UNCHANGED <<medoid, deleted, dropped>>
    PROVE  IdsInv' /\ DOMAIN tags' = DOMAIN tags \cup {id}
<1>1. /\ id \in Nat /\ DOMAIN tags = 0 .. id - 1
      /\ tags \in [DOMAIN tags -> 0 .. nextTag - 1] /\ data = tags
      /\ \A a, b \in DOMAIN tags : tags[a] = tags[b] => a = b
      /\ Range(tags) = (0 .. nextTag - 1) \ dropped
      /\ nextTag \in Nat /\ medoid \in DOMAIN tags
      /\ deleted \subseteq 0 .. nextTag - 1 /\ dropped \subseteq 0 .. nextTag - 1
  BY DEF IndexInv, IdsInv
<1> DEFINE D == DOMAIN tags
           t == nextTag
           all == 0 .. t
<1>2. tags' = [ x \in D \cup {id} |-> IF x = id THEN t ELSE tags[x] ]  BY DEF With
<1>3. D \cup {id} = 0 .. id
  <2>1. \A x : x \in D \cup {id} <=> x \in 0 .. id  BY <1>1
  <2> QED BY <2>1, SetExtensionality
<1>4. id \notin D /\ D = 0 .. id - 1
  <2>1. \A k \in Nat : k \notin 0 .. k - 1  BY Z3
  <2> QED BY <1>1, <2>1, Zenon
<1>5. t \in Nat /\ all = 0 .. t /\ 0 .. t - 1 \subseteq all /\ t \in all /\ t \notin 0 .. t - 1
  BY <1>1
<1>6. \A x \in D : tags[x] \in 0 .. t - 1  BY <1>1
<1> HIDE DEF D, t, all
<1>7. DOMAIN tags' = D \cup {id} /\ DOMAIN tags' = 0 .. id  BY <1>2, <1>3
<1>8. tags'[id] = t /\ \A x \in D : tags'[x] = tags[x]
  <2>1. id \in D \cup {id} /\ \A x \in D : x \in D \cup {id} /\ x # id  BY <1>4
  <2> QED BY <1>2, <2>1
<1>9. tags' \in [DOMAIN tags' -> all]
  <2>1. \A x \in D \cup {id} : tags'[x] \in all  BY <1>5, <1>6, <1>8
  <2>2. tags' = [ x \in D \cup {id} |-> tags'[x] ]  BY <1>2
  <2> QED BY <1>7, <2>1, <2>2
<1>10. data' = tags'
  <2>1. data = tags  BY <1>1
  <2> QED BY <2>1
<1>11. ASSUME NEW a \in D \cup {id}, NEW b \in D \cup {id}, tags'[a] = tags'[b] PROVE a = b
  <2>1. \A x, y \in D : tags[x] = tags[y] => x = y  BY <1>1 DEF D
  <2>2. CASE a \in D /\ b \in D  BY <1>8, <1>11, <2>1, <2>2
  <2>3. CASE a \in D /\ b = id
    <3>1. tags[a] = t  BY <1>8, <1>11, <2>3
    <3> QED BY <1>5, <1>6, <2>3, <3>1
  <2>4. CASE b \in D /\ a = id
    <3>1. tags[b] = t  BY <1>8, <1>11, <2>4
    <3> QED BY <1>5, <1>6, <2>4, <3>1
  <2>5. CASE a = id /\ b = id  BY <2>5
  <2> QED BY <2>2, <2>3, <2>4, <2>5
<1>12. \A y : y \in Range(tags') <=> y \in all \ dropped
  <2>1. \A y : y \in Range(tags') <=> \E x \in D \cup {id} : y = tags'[x]  BY <1>7 DEF Range
  <2>2. \A y : y \in Range(tags) <=> \E x \in D : y = tags[x]  BY DEF Range, D
  <2>3. \A y : y \in Range(tags) <=> y \in 0 .. t - 1 /\ y \notin dropped  BY <1>1 DEF t
  <2>4. dropped \subseteq 0 .. t - 1  BY <1>1 DEF t
  <2>5. \A y : y \in all <=> y \in 0 .. t - 1 \/ y = t
    <3>1. \A y : y \in 0 .. t <=> y \in 0 .. t - 1 \/ y = t  BY <1>5
    <3> QED BY <1>5, <3>1
  <2>6. t \notin dropped  BY <1>5, <2>4
  <2>7. \A y : y \in Range(tags') <=> y \in Range(tags) \/ y = t
    <3>1. ASSUME NEW y \in Range(tags') PROVE y \in Range(tags) \/ y = t
      <4>1. PICK x \in D \cup {id} : y = tags'[x]  BY <2>1
      <4> QED BY <1>8, <2>2, <4>1
    <3>2. ASSUME NEW y \in Range(tags) PROVE y \in Range(tags')
      <4>1. PICK x \in D : y = tags[x]  BY <2>2
      <4> QED BY <1>8, <2>1, <4>1
    <3>3. t \in Range(tags')
      <4>1. id \in D \cup {id}  OBVIOUS
      <4> QED BY <1>8, <2>1, <4>1
    <3> QED BY <3>1, <3>2, <3>3
  <2> QED BY <2>3, <2>5, <2>6, <2>7
<1>13. Range(tags') = all \ dropped  BY <1>12, SetExtensionality
<1>14. Cardinality(DOMAIN tags') = id + 1
  <2>1. 0 \in Int /\ id \in Int  BY <1>1
  <2>2. Cardinality(0 .. id) = IF 0 > id THEN 0 ELSE id - 0 + 1  BY <2>1, FS_Interval
  <2>3. Cardinality(0 .. id) = id + 1  BY <1>1, <2>2
  <2> QED BY <1>7, <2>3, Zenon
<1>15. nextTag' - 1 = t /\ nextTag' \in Nat
  <2>1. nextTag' = t + 1  BY DEF t
  <2> QED BY <1>5, <2>1
<1>16. 0 .. nextTag' - 1 = all  BY <1>5, <1>15
<1>17. all \subseteq Points
  <2>1. t \in Points  BY DEF t
  <2>2. 0 .. t \subseteq Points  BY <2>1, IndexAssumption
  <2> QED BY <1>5, <2>2
<1>18. medoid' \in DOMAIN tags'
  <2>1. medoid \in D /\ medoid' = medoid  BY <1>1 DEF D
  <2> QED BY <1>7, <2>1
<1>19. deleted' \subseteq all /\ dropped' \subseteq all /\ dropped' = dropped
  <2>1. /\ deleted \subseteq 0 .. t - 1 /\ dropped \subseteq 0 .. t - 1
        /\ deleted' = deleted /\ dropped' = dropped
    BY <1>1 DEF t
  <2> QED BY <1>5, <2>1
<1>20. Cardinality(DOMAIN tags') \in Nat /\ DOMAIN tags' = 0 .. Cardinality(DOMAIN tags') - 1
  <2>1. id + 1 \in Nat /\ id = (id + 1) - 1  BY <1>1
  <2>2. 0 .. id = 0 .. (id + 1) - 1  BY <2>1
  <2> QED BY <1>7, <1>14, <2>1, <2>2, Zenon
<1>21. tags' \in [DOMAIN tags' -> 0 .. nextTag' - 1]  BY <1>9, <1>16, Zenon
<1>22. \A a, b \in DOMAIN tags' : tags'[a] = tags'[b] => a = b  BY <1>7, <1>11, Zenon
<1>23. Range(tags') = (0 .. nextTag' - 1) \ dropped'  BY <1>13, <1>16, <1>19, Zenon
<1>24. 0 .. nextTag' - 1 \subseteq Points  BY <1>16, <1>17, Zenon
<1>25. deleted' \subseteq 0 .. nextTag' - 1 /\ dropped' \subseteq 0 .. nextTag' - 1
  BY <1>16, <1>19, Zenon
<1>26. IdsInv'  BY <1>10, <1>15, <1>18, <1>20, <1>21, <1>22, <1>23, <1>24, <1>25, Zenon DEF IdsInv
<1> QED BY <1>7, <1>26 DEF D

LEMMA InsertKeeps ==
    ASSUME MergeInv, Insert
    PROVE  MergeInv' /\ IndexInv' /\ DOMAIN tags \subseteq DOMAIN tags' /\ StaysNear
<1>1. IndexInv /\ MergeShape  BY DEF MergeInv
<1>2. /\ m.pc = "idle" /\ nextTag \in Points /\ nextTag' = nextTag + 1
      /\ UNCHANGED <<medoid, deleted, dropped, m>>
  BY Zenon DEF Insert
<1> DEFINE id == Cardinality(DOMAIN tags)
           points == With(data, id, nextTag)
<1>3. id = Cardinality(DOMAIN tags) /\ points = With(data, id, nextTag)  OBVIOUS
<1> HIDE DEF id, points
<1>4. PICK nhood : Inserted(id, points, nhood)  BY <1>1, <1>3, InsertShape
<1>5. /\ nhood \in Seq(DOMAIN tags) /\ IsInjective(nhood) /\ Len(nhood) <= R
      /\ layout' = Relocated(id, nhood)
      /\ tags' = With(tags, id, nextTag) /\ data' = points
      /\ file' = [ l \in DOMAIN layout' |->
            IF l \in Locs THEN file[l]
            ELSE IF layout'[l] = id THEN [point |-> nextTag, nbrs |-> nhood]
            ELSE [point |-> Rec(layout'[l]).point, nbrs |-> WithNeighbor(layout'[l], id, points)] ]
  BY <1>4, Zenon DEF Inserted
<1>6. IdsInv' /\ DOMAIN tags' = DOMAIN tags \cup {id}
  <2>1. data' = With(data, id, nextTag)  BY <1>3, <1>5, Zenon
  <2>2. UNCHANGED <<medoid, deleted, dropped>>  BY <1>2
  <2> QED BY <1>1, <1>2, <1>3, <1>5, <2>1, <2>2, IdGiven
<1>7. LocsInv'
  <2> DEFINE c == Cardinality(Locs)
             n == Len(nhood)
  <2>1. c = Cardinality(Locs) /\ n = Len(nhood)  OBVIOUS
  <2> HIDE DEF c, n
  <2>2. /\ c \in Nat /\ n \in Nat /\ Locs = 0 .. c - 1 /\ Locs' = 0 .. c + n
        /\ \A x \in 0 .. c - 1 : layout'[x] = IF layout[x] \in Range(nhood) THEN None ELSE layout[x]
        /\ \A i \in 1 .. n : layout'[c + i - 1] = nhood[i]
        /\ layout'[c + n] = id
        /\ LocsInv'
    BY <1>1, <1>3, <1>5, <1>6, <2>1, Moved
  <2> QED BY <2>2
<1>8. ASSUME NEW l \in LiveLocs'
      PROVE  /\ file'[l] = [point |-> tags'[layout'[l]], nbrs |-> file'[l].nbrs]
             /\ file'[l].nbrs \in Seq((DOMAIN tags \cup {id}) \ {layout'[l]})
             /\ Len(file'[l].nbrs) <= R /\ IsInjective(file'[l].nbrs)
             /\ layout'[l] \in DOMAIN tags /\ Rec(layout'[l]).nbrs # << >>
                  => AsNear(file'[l].nbrs, Range(Rec(layout'[l]).nbrs), layout'[l], points)
  BY <1>1, <1>2, <1>3, <1>4, <1>6, <1>8, RecordInserted
<1>9. FileInv'
  <2>1. file' = [ l \in Locs' |-> file'[l] ]
    <3>1. DOMAIN layout' = Locs'  BY DEF Locs
    <3>2. DOMAIN file' = Locs'  BY <1>5, <3>1
    <3>3. file' = [ l \in DOMAIN file' |-> file'[l] ]  BY <1>5
    <3> QED BY <3>2, <3>3, Zenon
  <2>2. ASSUME NEW l \in LiveLocs'
        PROVE  /\ file'[l] = [point |-> tags'[layout'[l]], nbrs |-> file'[l].nbrs]
               /\ file'[l].nbrs \in Seq(DOMAIN tags' \ {layout'[l]})
               /\ Len(file'[l].nbrs) <= R /\ IsInjective(file'[l].nbrs)
    <3>1. file'[l].nbrs \in Seq(DOMAIN tags' \ {layout'[l]})  BY <1>6, <1>8, Zenon
    <3> QED BY <1>8, <3>1, Zenon
  <2> QED BY <2>1, <2>2, Zenon DEF FileInv, GoodList
<1>10. IndexInv'  BY <1>6, <1>7, <1>9 DEF IndexInv
<1>11. m' = Idle
  <2>1. m = Idle  BY <1>1, <1>2 DEF MergeShape
  <2> QED BY <1>2, <2>1
<1>12. MergeInv'  BY <1>10, <1>11, BetweenKeeps
<1>13. StaysNear
  <2>1. IndexInv' => RecsFound'  BY IndexFound, PTL
  <2>2. ASSUME NEW p \in DOMAIN tags, Rec(p).nbrs # << >>
        PROVE  \E k \in Range(Rec(p)'.nbrs) : \A x \in Range(Rec(p).nbrs) :
                   Dist[data'[p], data'[k]] <= Dist[data[p], data[x]]
    <3>1. p \in DOMAIN tags'  BY <1>6
    <3>2. PICK l \in LiveLocs' : layout'[l] = p /\ Rec(p)' = file'[l]
      BY <1>10, <2>1, <3>1 DEF RecsFound
    <3> DEFINE old == Rec(p).nbrs
               new == file'[l].nbrs
    <3>3. AsNear(new, Range(old), p, points)  BY <1>8, <2>2, <3>2, Zenon
    <3>4. \A x \in DOMAIN tags : points[x] = data[x]
      <4>1. DOMAIN data = DOMAIN tags  BY <1>1 DEF IndexInv, IdsInv
      <4>2. \A x \in DOMAIN tags : x # id
        <5>1. \A k \in Nat : k \notin 0 .. k - 1  BY Z3
        <5>2. id \in Nat /\ DOMAIN tags = 0 .. id - 1  BY <1>1, <1>3 DEF IndexInv, IdsInv
        <5> QED BY <5>1, <5>2, Zenon
      <4> QED BY <1>3, <4>1, <4>2 DEF With
    <3>5. Range(old) \subseteq DOMAIN tags  BY <1>1, IndexNumbered DEF ListsNumbered
    <3> HIDE DEF old, new
    <3>6. PICK k \in Range(new) : \A x \in Range(old) : Gap(points, p, k) <= Gap(points, p, x)
      BY <3>3 DEF AsNear
    <3>7. \A x \in Range(old) : Dist[data'[p], data'[k]] <= Dist[data[p], data[x]]
      <4>1. \A x \in Range(old) : Gap(points, p, x) = Dist[data[p], data[x]]
        BY <3>4, <3>5 DEF Gap
      <4>2. Gap(points, p, k) = Dist[data'[p], data'[k]]  BY <1>5, Zenon DEF Gap
      <4> QED BY <3>6, <4>1, <4>2
    <3>8. Rec(p)'.nbrs = new  BY <3>2 DEF new
    <3> QED BY <3>7, <3>8 DEF old
  <2> QED BY <2>2 DEF StaysNear
<1> QED BY <1>6, <1>10, <1>12, <1>13

-----------------------------------------------------------------------------
(* The theorems. *)

LEMMA NextKeeps ==
    ASSUME MergeInv, [Next]_mergeVars
    PROVE  MergeInv'
<1>1. CASE Insert  BY <1>1, InsertKeeps
<1>2. ASSUME NEW t \in Points, LazyDelete(t) PROVE MergeInv'  BY <1>2, LazyDeleteKeeps
<1>3. CASE MergeBegin("final")  BY <1>3, MergeBeginKeeps
<1>4. CASE MergeBegin("stream")  BY <1>4, MergeBeginKeeps
<1>5. CASE RebuildBegin  BY <1>5, RebuildBeginKeeps
<1>6. CASE MergeStep
  <2>1. ASSUME NEW w \in 1 .. Workers, Populate(w) PROVE MergeInv'  BY <2>1, PopulateKeeps
  <2>2. CASE PopulateNext  BY <2>2, PopulateNextKeeps
  <2>3. CASE Process  BY <2>3, ProcessKeeps
  <2>4. CASE ProcessNext  BY <2>4, ProcessNextKeeps
  <2>5. CASE Flush  BY <2>5, FlushKeeps
  <2>6. CASE EntryPoint  BY <2>6, EntryPointKeeps
  <2>7. CASE Install  BY <2>7, InstallKeeps
  <2>8. CASE RebuildChunk  BY <2>8, RebuildKeeps
  <2> QED BY <1>6, <2>1, <2>2, <2>3, <2>4, <2>5, <2>6, <2>7, <2>8, Zenon DEF MergeStep
<1>7. CASE Restful
  <2>1. UNCHANGED mergeVars  BY <1>7, Zenon DEF Restful
  <2> QED BY <2>1, RestfulKeeps
<1>8. CASE UNCHANGED mergeVars  BY <1>8, RestfulKeeps
<1> QED BY <1>1, <1>2, <1>3, <1>4, <1>5, <1>6, <1>7, <1>8, Zenon DEF Next

LEMMA Inductive == Spec => []MergeInv
<1>1. Init => MergeInv  BY InitHolds
<1>2. MergeInv /\ [Next]_mergeVars => MergeInv'  BY NextKeeps
<1> QED BY <1>1, <1>2, PTL DEF Spec

(* Whatever a step leaves as it is stays as near. *)
LEMMA SameStaysNear ==
    ASSUME IndexInv, UNCHANGED indexVars
    PROVE  DOMAIN tags \subseteq DOMAIN tags' /\ StaysNear
<1>1. layout' = layout /\ file' = file /\ tags' = tags /\ data' = data  BY DEF indexVars
<1>2. \A id : Rec(id)' = Rec(id)
  <2>1. LiveLocs' = LiveLocs  BY <1>1 DEF LiveLocs, Locs
  <2> QED BY <1>1, <2>1 DEF Rec, LocOf
<1>3. ASSUME NEW id \in DOMAIN tags, Rec(id).nbrs # << >>
      PROVE  \E k \in Range(Rec(id)'.nbrs) : \A n \in Range(Rec(id).nbrs) :
                 Dist[data'[id], data'[k]] <= Dist[data[id], data[n]]
  <2> DEFINE old == Rec(id).nbrs
  <2>1. AsNear(old, Range(old), id, data)  BY <1>3, NearestThere
  <2>2. Rec(id)'.nbrs = old  BY <1>2
  <2> HIDE DEF old
  <2>3. PICK k \in Range(old) : \A n \in Range(old) : Gap(data, id, k) <= Gap(data, id, n)
    BY <2>1 DEF AsNear
  <2>4. \A n \in Range(old) : Dist[data'[id], data'[k]] <= Dist[data[id], data[n]]
    BY <1>1, <2>3, Zenon DEF Gap
  <2> QED BY <2>2, <2>4 DEF old
<1> QED BY <1>1, <1>3 DEF StaysNear

LEMMA StepNear ==
    ASSUME MergeInv, [Next]_mergeVars, Between
    PROVE  DOMAIN tags \subseteq DOMAIN tags' /\ StaysNear
<1>0. IndexInv  BY DEF MergeInv
<1>1. CASE Insert  BY <1>1, InsertKeeps
<1>2. CASE RebuildChunk  BY <1>2, RebuildKeeps
<1>3. CASE Install
  <2>1. m.pc = "install"  BY <1>3, Zenon DEF Install
  <2> QED BY <2>1 DEF Between
<1>4. CASE UNCHANGED indexVars  BY <1>0, <1>4, SameStaysNear
<1>5. ASSUME NEW t \in Points, LazyDelete(t) PROVE UNCHANGED indexVars
  BY <1>5, Zenon DEF LazyDelete
<1>6. ASSUME NEW w \in 1 .. Workers, Populate(w) PROVE UNCHANGED indexVars
  BY <1>6, Zenon DEF Populate
<1>7. MergeBegin("final") \/ MergeBegin("stream") => UNCHANGED indexVars  BY Zenon DEF MergeBegin
<1>8. RebuildBegin => UNCHANGED indexVars  BY Zenon DEF RebuildBegin
<1>9. PopulateNext => UNCHANGED indexVars  BY Zenon DEF PopulateNext
<1>10. Process => UNCHANGED indexVars  BY Zenon DEF Process
<1>11. ProcessNext => UNCHANGED indexVars  BY Zenon DEF ProcessNext
<1>12. Flush => UNCHANGED indexVars  BY Zenon DEF Flush
<1>13. EntryPoint => UNCHANGED indexVars  BY Zenon DEF EntryPoint
<1>14. Restful \/ UNCHANGED mergeVars => UNCHANGED indexVars
  <2>1. Restful => UNCHANGED mergeVars  BY Zenon DEF Restful
  <2>2. UNCHANGED mergeVars => UNCHANGED indexVars  BY Zenon DEF mergeVars
  <2> QED BY <2>1, <2>2
<1> QED BY <1>1, <1>2, <1>3, <1>4, <1>5, <1>6, <1>7, <1>8, <1>9, <1>10, <1>11, <1>12, <1>13,
           <1>14, Zenon DEF Next, MergeStep

(* The index is well formed whenever no merge runs: each id's record, tag   *)
(* and PQ code are of one point, every point inserted and not dropped is    *)
(* there once, and the lists name ids of the index, at most range of them.  *)
THEOREM IndexWellFormed == Spec => []GraphInv
<1>1. MergeInv => GraphInv
  BY TypeFollows, IndexExact DEF MergeInv, GraphInv
<1> QED BY <1>1, Inductive, PTL

(* A merge writes every survivor once, under one new id, with a list that   *)
(* holds all it may be linked to when that fits, and else the nearest.      *)
THEOREM MergeOutput == Spec => []OutputExact
<1>1. MergeInv => OutputExact  BY OutputFollows
<1> QED BY <1>1, Inductive, PTL

(* The header of the new file names a survivor that the old entry point     *)
(* leads to; a merge ends the program only when there is none.              *)
THEOREM EntryPointKept == Spec => []EntryKept
<1>1. MergeInv => EntryKept  BY EntryFollows
<1> QED BY <1>1, Inductive, PTL

(* Inserts, with either pruning, and rebuilds keep an entry as near as the  *)
(* nearest in every list.                                                   *)
THEOREM NearestIsKept == Spec => NearestStays
<1>1. MergeInv /\ MergeInv' /\ [Next]_mergeVars =>
        [ (Between /\ Between') =>
            \A id \in DOMAIN tags : Rec(id).nbrs # << >> =>
                /\ Rec(id)'.nbrs # << >>
                /\ Nearest(data', id, Rec(id)'.nbrs) <= Nearest(data, id, Rec(id).nbrs) ]_mergeVars
  <2> SUFFICES ASSUME MergeInv, MergeInv', [Next]_mergeVars, Between,
                      NEW id \in DOMAIN tags, Rec(id).nbrs # << >>
               PROVE  /\ Rec(id)'.nbrs # << >>
                      /\ Nearest(data', id, Rec(id)'.nbrs) <= Nearest(data, id, Rec(id).nbrs)
    OBVIOUS
  <2>1. IndexInv /\ IndexInv'  BY DEF MergeInv
  <2>2. DOMAIN tags \subseteq DOMAIN tags' /\ StaysNear  BY StepNear
  <2> QED BY <2>1, <2>2, NearestKept
<1> QED BY <1>1, Inductive, PTL DEF Spec, NearestStays
=============================================================================
