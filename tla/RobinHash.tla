------------------------------- MODULE RobinHash -------------------------------
(* tsl::robin_hash, under robin_set and robin_map (deletion_sets, visited, _delete_set,
   coord_map): open addressing where an insertion displaces a key closer to its own
   bucket, erasure shifts back, and load or long probes double the table. *)
EXTENDS Integers, FiniteSets, SequencesExt

CONSTANTS Keys, Vals, NoVal, NoKey, NoItem,
          Hash,        \* hash of a key
          Buckets0,    \* bucket_count given to the constructor
          NProbes,     \* REHASH_ON_HIGH_NB_PROBES__NPROBES
          Jobs,        \* the calls to choose from
          MaxBuckets   \* bound on the table: calls that double it further are not made

VARIABLES m_buckets, m_nb_elements, m_grow_on_next_insert,
          job, ret     \* the call in progress, what the last one returned

vars == <<m_buckets, m_nb_elements, m_grow_on_next_insert, job, ret>>

Empty == [key |-> NoKey, val |-> NoVal, dist |-> -1]
EmptyTable(n) == [i \in 0 .. n - 1 |-> Empty]
Count(bs) == Cardinality(DOMAIN bs)
\* m_load_threshold: max_load_factor is DEFAULT_MAX_LOAD_FACTOR, 0.5
Threshold(bs) == Count(bs) \div 2
RoundUp(c) == IF c = 0 THEN 0 ELSE CHOOSE n \in {2 ^ i : i \in 0 .. c} : n >= c /\ n \div 2 < c

\* bucket_for_hash and next_bucket; a table of no buckets is one static empty bucket
Home(bs, k) == IF Count(bs) = 0 THEN 0 ELSE Hash[k] % Count(bs)
NextBucket(bs, i) == (i + 1) % Count(bs)
Probe(bs, k, d) == IF Count(bs) = 0 THEN Empty ELSE bs[(Home(bs, k) + d) % Count(bs)]

\* mutant of Goes: an equal distance ends the search
GoesBelow(bs, k, d) == d < Probe(bs, k, d).dist /\ Probe(bs, k, d).key # k

\* find_impl: go on while the bucket's own distance is not below ours and the key differs
Goes(bs, k, d) == d <= Probe(bs, k, d).dist /\ Probe(bs, k, d).key # k
StopAt(bs, k) == CHOOSE d \in 0 .. Count(bs) : ~Goes(bs, k, d) /\ \A e \in 0 .. d - 1 : Goes(bs, k, e)
FindIn(bs, k) == Probe(bs, k, StopAt(bs, k))
Has(bs, k) == FindIn(bs, k).key = k

\* mutant of PushKey: the key is put into the first free bucket, nothing is displaced
PushLinear(bs, k, v) ==
    LET free == {d \in 0 .. Count(bs) - 1 : Probe(bs, k, d) = Empty}
        d == Min(free)
    IN  [bs |-> [bs EXCEPT ![(Home(bs, k) + d) % Count(bs)] = [key |-> k, val |-> v, dist |-> d]],
         far |-> -1]

\* insert_value and insert_value_on_rehash: take the bucket of a key that is closer to its
\* own and go on with that key; far is the longest distance at which it happened again
RECURSIVE Push(_, _, _, _)
Push(bs, i, x, far) ==
    IF bs[i] = Empty THEN [bs |-> [bs EXCEPT ![i] = x], far |-> far]
    ELSE IF x.dist > bs[i].dist
         THEN Push([bs EXCEPT ![i] = x], NextBucket(bs, i), [bs[i] EXCEPT !.dist = @ + 1],
                   IF far = -1 THEN 0 ELSE Max({far, x.dist}))
         ELSE Push(bs, NextBucket(bs, i), [x EXCEPT !.dist = @ + 1], far)
PushKey(bs, k, v) == Push(bs, Home(bs, k), [key |-> k, val |-> v, dist |-> 0], -1)

\* rehash_impl to at least n buckets, in the order of the old ones
Rehash(bs, n) ==
    FoldLeft(LAMBDA to, i : IF bs[i] = Empty THEN to ELSE PushKey(to, bs[i].key, bs[i].val).bs,
             EmptyTable(RoundUp(n)), [i \in 1 .. Count(bs) |-> i - 1])
\* next_bucket_count of the power of two policy, whose mask is 0 for a table of no buckets
Doubled(bs) == IF Count(bs) = 0 THEN 2 ELSE 2 * Count(bs)

Table == [bs |-> m_buckets, nb |-> m_nb_elements, grow |-> m_grow_on_next_insert]
Become(x) == m_buckets' = x.bs /\ m_nb_elements' = x.nb /\ m_grow_on_next_insert' = x.grow

\* insert_impl of a key that is not there: grow_on_high_load, then insert_value; the load
\* factor at which long probes count is 0.15
Added(x, k, v) ==
    LET grows == x.grow \/ x.nb >= Threshold(x.bs)
        bs == IF grows THEN Rehash(x.bs, Doubled(x.bs)) ELSE x.bs
        pushed == PushKey(bs, k, v)
    IN  [bs |-> pushed.bs, nb |-> x.nb + 1,
         grow |-> (x.grow /\ ~grows) \/ (pushed.far >= NProbes /\ 100 * x.nb >= 15 * Count(bs))]
Inserted(x, k, v) == IF Has(x.bs, k) THEN x ELSE Added(x, k, v)

\* insert(first, last) reserves for as many keys as the range has
Reserved(x, n) ==
    IF Threshold(x.bs) - x.nb >= n THEN x
    ELSE [x EXCEPT !.bs = Rehash(@, 2 * (x.nb + n)), !.grow = FALSE]

\* erase_from_bucket: the bucket at i has just been emptied
RECURSIVE Shift(_, _)
Shift(bs, i) ==
    LET j == NextBucket(bs, i)
    IN  IF bs[j].dist <= 0 THEN bs
        ELSE Shift([bs EXCEPT ![i] = [bs[j] EXCEPT !.dist = @ - 1], ![j] = Empty], j)
Erased(bs, k) ==
    LET i == (Home(bs, k) + StopAt(bs, k)) % Count(bs)
    IN  Shift([bs EXCEPT ![i] = Empty], i)

-----------------------------------------------------------------------------
Yes(b) == IF b THEN "yes" ELSE "no"
Return(r) == ret' = r /\ job' = NoItem

Call ==
    /\ job = NoItem
    /\ \E j \in Jobs : job' = j
    /\ UNCHANGED <<m_buckets, m_nb_elements, m_grow_on_next_insert, ret>>

Find ==
    /\ job # NoItem /\ job.op = "find"
    /\ Return(IF Has(m_buckets, job.key) THEN FindIn(m_buckets, job.key).val ELSE NoVal)
    /\ UNCHANGED <<m_buckets, m_nb_elements, m_grow_on_next_insert>>

Insert ==
    /\ job # NoItem /\ job.op = "insert"
    /\ Become(Inserted(Table, job.key, job.val)) /\ Count(m_buckets') <= MaxBuckets
    /\ Return(Yes(~Has(m_buckets, job.key)))

\* operator[] and insert_or_assign
Assign ==
    /\ job # NoItem /\ job.op = "assign"
    /\ IF Has(m_buckets, job.key)
       THEN /\ m_buckets' = [i \in DOMAIN m_buckets |->
                   IF m_buckets[i].key = job.key THEN [m_buckets[i] EXCEPT !.val = job.val] ELSE m_buckets[i]]
            /\ UNCHANGED <<m_nb_elements, m_grow_on_next_insert>>
       ELSE Become(Added(Table, job.key, job.val)) /\ Count(m_buckets') <= MaxBuckets
    /\ Return(Yes(~Has(m_buckets, job.key)))

\* insert(first, last), also the constructor from a range
InsertRange ==
    /\ job # NoItem /\ job.op = "range"
    /\ Become(FoldLeft(LAMBDA x, k : Inserted(x, k, job.val), Reserved(Table, Len(job.keys)), job.keys))
    /\ Count(m_buckets') <= MaxBuckets
    /\ Return("yes")

Erase ==
    /\ job # NoItem /\ job.op = "erase"
    /\ IF Has(m_buckets, job.key)
       THEN m_buckets' = Erased(m_buckets, job.key) /\ m_nb_elements' = m_nb_elements - 1
       ELSE UNCHANGED <<m_buckets, m_nb_elements>>
    /\ Return(Yes(Has(m_buckets, job.key)))
    /\ UNCHANGED m_grow_on_next_insert

Clear ==
    /\ job # NoItem /\ job.op = "clear"
    /\ Become([bs |-> EmptyTable(Count(m_buckets)), nb |-> 0, grow |-> FALSE])
    /\ Return("yes")

Init ==
    /\ m_buckets = EmptyTable(RoundUp(Buckets0))
    /\ m_nb_elements = 0 /\ m_grow_on_next_insert = FALSE
    /\ job = NoItem /\ ret = "no"

Next == Call \/ Find \/ Insert \/ Assign \/ InsertRange \/ Erase \/ Clear

Spec == Init /\ [][Next]_vars

-----------------------------------------------------------------------------
(* Properties *)

Occupied == {i \in DOMAIN m_buckets : m_buckets[i] # Empty}

\* The types of the table; a bucket is empty (m_dist_from_ideal_bucket is -1) exactly when
\* it holds no key.
RobinTypeOK ==
    /\ m_buckets \in [0 .. Count(m_buckets) - 1 ->
                        [key : Keys \cup {NoKey}, val : Vals \cup {NoVal}, dist : -1 .. Count(m_buckets)]]
    /\ \A i \in DOMAIN m_buckets : (m_buckets[i].dist = -1) = (m_buckets[i].key = NoKey)
    /\ m_grow_on_next_insert \in BOOLEAN

\* Robin Hood order: every key lies its stored distance after its own bucket, and the bucket
\* before it is not empty and at most one closer. find_impl stops at the first bucket with a
\* smaller distance (robin_hash.h:1059), so a broken shift or displacement hides keys.
RobinOrder ==
    \A i \in Occupied :
        LET x == m_buckets[i]
            p == m_buckets[(i - 1) % Count(m_buckets)]
        IN  /\ i = (Home(m_buckets, x.key) + x.dist) % Count(m_buckets)
            /\ x.dist > 0 => p.dist >= x.dist - 1

\* m_nb_elements is the number of keys, each there once, and a table with buckets keeps an
\* empty one: probing and the displacement loop of insert_value end only there
\* (robin_hash.h:1161).
LoadBounded ==
    /\ m_nb_elements = Cardinality(Occupied)
    /\ m_nb_elements = Cardinality({m_buckets[i].key : i \in Occupied})
    /\ m_nb_elements <= Threshold(m_buckets)

\* The table is well formed after every call.
RobinInv == RobinTypeOK /\ RobinOrder /\ LoadBounded

\* The set or map behaves as one: each call has the effect and result of ConcurrentMap's
\* operation, through growth, displacement and back-shifts across the end of the array.
Abstract == INSTANCE ConcurrentMap WITH
    Threads <- {"main"}, Loaded <- <<>>, LoadedVal <- NoVal,
    items <- {[key |-> m_buckets[i].key, val |-> m_buckets[i].val] : i \in Occupied},
    job <- [t \in {"main"} |-> job], ret <- [t \in {"main"} |-> ret]
ImplementsMap == Abstract!MapSpec
==============================================================================
