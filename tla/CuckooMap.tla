------------------------------ MODULE CuckooMap ------------------------------
(* libcuckoo::cuckoohash_map: find, upsert and erase under two bucket locks,
   cuckoo displacement that searches a path without holding locks and validates
   it while moving, doubling under all locks, lazy migration of the old buckets
   by whoever takes their lock next. *)
EXTENDS Integers, Sequences, FiniteSets, SequencesExt, Bitwise

CONSTANTS Threads, Keys, Vals, NoVal,
          Hash,            \* hash of a key
          Mix,             \* (partial + 1) * 0xc6a4a7935bd1e995 of a key
          SlotPerBucket, MaxNumLocks, MaxBfsPathLen,
          InitHp, MaxHp,   \* hashpower at construction, bound on it (the code sets no maximum)
          Loaded, LoadedVal,  \* sequence of keys inserted before other threads start, without displacement
          Jobs,            \* the calls to choose from
          MaxOps,          \* bound on operations started
          NoThread, NoItem

ASSUME CuckooAssumption ==
    /\ Hash \in [Keys -> Nat] /\ Mix \in [Keys -> Nat]
    /\ \A j, k \in Keys : Hash[j] = Hash[k] => Mix[j] = Mix[k]
    /\ SlotPerBucket \in Nat \ {0} /\ MaxNumLocks \in Nat \ {0}
    /\ MaxBfsPathLen \in Nat \ {0} /\ InitHp \in Nat /\ MaxHp \in Nat
    /\ Loaded \in Seq(Keys) /\ LoadedVal \in Vals

VARIABLES
    hp,         \* hashpower of buckets_
    buckets,    \* buckets_: bucket -> slot -> item
    old,        \* old_buckets_, the empty function when deallocated
    remaining,  \* num_remaining_lazy_rehash_locks_
    locks,      \* all_locks_: a sequence of arrays of locks, each with its owner
    migrated,   \* is_migrated of the current locks
    count,      \* elem_counter of the current locks
    pc, job,    \* per thread: label, operation
    snap,       \* per thread: the hashpower it works with
    arr,        \* per thread: the lock array it takes locks from (the first one of lock_all)
    want,       \* per thread: indices of the locks it still has to take, in order
    queue,      \* per thread: b_queue of slot_search
    path,       \* per thread: CuckooRecords
    depth,      \* per thread: position in path
    ret,        \* per thread: what its last operation returned
    ops

table == <<hp, buckets, old, remaining, migrated, count>>
walk == <<queue, path, depth>>
vars == <<table, locks, pc, job, snap, arr, want, walk, ret, ops>>

Size(p) == 2 ^ p
Slots == 0 .. SlotPerBucket - 1
Items == [key : Keys, val : Vals]
EmptyBucket == [s \in Slots |-> NoItem]
Index(p, h) == h % Size(p)
Alt(p, m, i) == (i ^^ m) % Size(p)
First(p, k) == Index(p, Hash[k])
Second(p, k) == Alt(p, Mix[k], First(p, k))
LockInd(i) == i % MaxNumLocks

-----------------------------------------------------------------------------
(* Lazy migration *)

\* doubling a table of hashpower p sends the item of bucket b to b + Size(p)
GoesUp(p, b, k) ==
    \/ b = First(p, k) /\ First(p + 1, k) = b + Size(p)
    \/ b = Second(p, k) /\ Second(p + 1, k) = b + Size(p)

\* move_bucket: items that go up are packed from slot 0, the others keep their slot
Rising(bs, p, b) == {s \in Slots : bs[b][s] # NoItem /\ GoesUp(p, b, bs[b][s].key)}
Upper(bs, p, b) ==
    LET rising == SelectSeq([i \in 1 .. SlotPerBucket |-> i - 1], LAMBDA s : s \in Rising(bs, p, b))
    IN  [s \in Slots |-> IF s < Len(rising) THEN bs[b][rising[s + 1]] ELSE NoItem]
Lower(bs, p, b) == [s \in Slots |-> IF s \in Rising(bs, p, b) THEN NoItem ELSE bs[b][s]]

\* the buckets of the doubled table; those of the locks ls are moved into it
Moved(to, from, p, ls) ==
    [i \in 0 .. Size(p + 1) - 1 |->
        LET b == i % Size(p)
        IN  IF LockInd(b) \notin ls THEN to[i]
            ELSE IF i = b THEN Lower(from, p, b) ELSE Upper(from, p, b)]

Unmigrated == {l \in DOMAIN migrated : ~migrated[l]}
Drain(ls) == IF ls = {} THEN buckets ELSE Moved(buckets, old, hp - 1, ls)

\* rehash_lock of the locks ls, all held
RehashLocks(ls) ==
    LET due == ls \cap Unmigrated
    IN  /\ buckets' = Drain(due)
        /\ migrated' = [l \in DOMAIN migrated |-> migrated[l] \/ l \in due]
        /\ remaining' = remaining - Cardinality(due)
        /\ old' = IF due # {} /\ remaining = Cardinality(due) THEN <<>> ELSE old
        /\ UNCHANGED <<hp, count>>

-----------------------------------------------------------------------------
(* Locks *)

Held(t) == {l \in DOMAIN locks[arr[t]] : locks[arr[t]][l] = t}
Unlocked(t) == [a \in DOMAIN locks |-> [l \in DOMAIN locks[a] |->
                   IF locks[a][l] = t THEN NoThread ELSE locks[a][l]]]

Goto(t, l) == pc' = [pc EXCEPT ![t] = l]
Key(t) == job[t].key
\* b.i1 and b.i2 of a thread's TwoBuckets
B1(t) == First(snap[t], Key(t))
B2(t) == Second(snap[t], Key(t))
\* the distinct lock indices of some buckets, ascending
InOrder(bs) == SelectSeq([i \in 1 .. MaxNumLocks |-> i - 1],
                         LAMBDA l : \E b \in bs : LockInd(b) = l)

\* the buckets a thread is about to lock: lock_two or lock_three
Target(t, l) ==
    CASE l = "op" \/ (l = "shift" /\ depth[t] = 0) -> {B1(t), B2(t)}
      [] l = "shift" /\ depth[t] = 1 -> {B1(t), B2(t), path[t][2].bucket}
      [] OTHER -> {path[t][depth[t]].bucket, path[t][depth[t] + 1].bucket}

\* hashpower_changed is caught: start again from the hashpower
Retry(t) ==
    /\ Goto(t, "snap")
    /\ queue' = [queue EXCEPT ![t] = <<>>]
    /\ path' = [path EXCEPT ![t] = <<>>]
    /\ depth' = [depth EXCEPT ![t] = 0]

JobType == [op : {"find", "erase"}, key : Keys, val : {NoVal}]
           \cup [op : {"insert", "assign"}, key : Keys, val : Vals]
           \cup [op : {"clear"}, key : {NoVal}, val : {NoVal}]

ASSUME JobsAssumption == Jobs \subseteq JobType

\* an operation is called
Call(t) ==
    /\ pc[t] = "idle" /\ ops < MaxOps
    /\ \E j \in Jobs :
          /\ job' = [job EXCEPT ![t] = j]
          /\ Goto(t, IF j.op = "clear" THEN "lockall" ELSE "snap")
    /\ ops' = ops + 1
    /\ UNCHANGED <<table, locks, snap, arr, want, walk, ret>>

\* snapshot_and_lock_two reads the hashpower
Snapshot(t) ==
    /\ pc[t] = "snap"
    /\ snap' = [snap EXCEPT ![t] = hp]
    /\ Goto(t, "op")
    /\ UNCHANGED <<table, locks, job, arr, want, walk, ret, ops>>

\* mutant of Begin: the first lock array, whatever the current one is
BeginFirst(t) ==
    /\ pc[t] \in {"op", "shift"} /\ want[t] = <<>> /\ Held(t) = {}
    /\ arr' = [arr EXCEPT ![t] = 1]
    /\ want' = [want EXCEPT ![t] = InOrder(Target(t, pc[t]))]
    /\ UNCHANGED <<table, locks, pc, job, snap, walk, ret, ops>>

\* lock_two and lock_three: get_current_locks and the order of the locks
Begin(t) ==
    /\ pc[t] \in {"op", "shift"} /\ want[t] = <<>> /\ Held(t) = {}
    /\ arr' = [arr EXCEPT ![t] = Len(locks)]
    /\ want' = [want EXCEPT ![t] = InOrder(Target(t, pc[t]))]
    /\ UNCHANGED <<table, locks, pc, job, snap, walk, ret, ops>>

\* take the next lock; check_hashpower after the first, rehash_lock after the last
LockNext(t) ==
    /\ pc[t] \in {"op", "shift"} /\ want[t] # <<>>
    /\ locks[arr[t]][Head(want[t])] = NoThread
    /\ IF Held(t) = {} /\ hp # snap[t]
       THEN /\ want' = [want EXCEPT ![t] = <<>>]
            /\ Retry(t)
            /\ UNCHANGED <<table, locks>>
       ELSE /\ locks' = [locks EXCEPT ![arr[t]][Head(want[t])] = t]
            /\ want' = [want EXCEPT ![t] = Tail(@)]
            /\ UNCHANGED <<pc, walk>>
            /\ IF Len(want[t]) = 1 THEN RehashLocks(Held(t) \cup {Head(want[t])})
                                   ELSE UNCHANGED table
    /\ UNCHANGED <<job, snap, arr, ret, ops>>

Ready(t, l) == pc[t] = l /\ want[t] = <<>> /\ Held(t) # {}

-----------------------------------------------------------------------------
(* Operations under the two locks *)

At(i, s) == buckets[i][s]
Free(i) == {s \in Slots : At(i, s) = NoItem}
\* cuckoo_find
Spots(k, i, j) == {x \in {i, j} \X Slots : At(x[1], x[2]) # NoItem /\ At(x[1], x[2]).key = k}
Found(t) == Spots(Key(t), B1(t), B2(t))
Spot(t) == CHOOSE x \in Found(t) : TRUE

Put(x, item) == buckets' = [buckets EXCEPT ![x[1]][x[2]] = item]
AddTo(x, n) == count' = [count EXCEPT ![LockInd(x[1])] = @ + n]

Yes(b) == IF b THEN "yes" ELSE "no"

Return(t, r) ==
    /\ ret' = [ret EXCEPT ![t] = r]
    /\ locks' = Unlocked(t)
    /\ Goto(t, "idle")
    /\ job' = [job EXCEPT ![t] = NoItem]
    /\ snap' = [snap EXCEPT ![t] = 0]
    /\ arr' = [arr EXCEPT ![t] = 1]
    /\ path' = [path EXCEPT ![t] = <<>>]
    /\ depth' = [depth EXCEPT ![t] = 0]
    /\ UNCHANGED <<hp, old, remaining, migrated, want, queue, ops>>

Find(t) ==
    /\ Ready(t, "op") /\ job[t].op = "find"
    /\ Return(t, IF Found(t) = {} THEN NoVal ELSE At(Spot(t)[1], Spot(t)[2]).val)
    /\ UNCHANGED <<buckets, count>>

\* erase_fn with a functor that returns true
Erase(t) ==
    /\ Ready(t, "op") /\ job[t].op = "erase"
    /\ IF Found(t) = {} THEN UNCHANGED <<buckets, count>>
                        ELSE Put(Spot(t), NoItem) /\ AddTo(Spot(t), -1)
    /\ Return(t, Yes(Found(t) # {}))

Upserts(t) == job[t].op \in {"insert", "assign"}
Item(t) == [key |-> Key(t), val |-> job[t].val]

\* mutant of Existing: insert replaces the value too
ExistingOver(t) == Put(Spot(t), Item(t)) /\ Return(t, "no") /\ UNCHANGED count

\* uprase_fn finds the key: insert leaves the value, insert_or_assign replaces it
Existing(t) ==
    /\ IF job[t].op = "assign" THEN Put(Spot(t), Item(t)) ELSE UNCHANGED buckets
    /\ Return(t, "no")
    /\ UNCHANGED count

Add(t, x) == Put(x, Item(t)) /\ AddTo(x, 1) /\ Return(t, "yes")

\* cuckoo_insert finds the key or a free slot; try_find_insert_bucket keeps the last one
InsertDirect(t) ==
    /\ Ready(t, "op") /\ Upserts(t)
    /\ IF Found(t) # {} THEN Existing(t)
       ELSE \E i \in {B1(t), B2(t)} :
              /\ Free(i) # {}
              /\ i = B1(t) \/ Free(B1(t)) = {}
              /\ Add(t, <<i, Max(Free(i))>>)

\* b_slots of the two buckets the search starts from
Starts(t) == <<[bucket |-> B1(t), start |-> 0, slots |-> <<>>],
               [bucket |-> B2(t), start |-> 1, slots |-> <<>>]>>

Search(t) ==
    /\ Goto(t, "search")
    /\ locks' = Unlocked(t)
    /\ queue' = [queue EXCEPT ![t] = Starts(t)]
    /\ path' = [path EXCEPT ![t] = <<>>]
    /\ depth' = [depth EXCEPT ![t] = 0]

\* both buckets are full: run_cuckoo releases them and searches
RunCuckoo(t) ==
    /\ Ready(t, "op") /\ Upserts(t)
    /\ Found(t) = {} /\ Free(B1(t)) = {} /\ Free(B2(t)) = {}
    /\ Search(t)
    /\ UNCHANGED <<table, job, snap, arr, want, ret, ops>>

-----------------------------------------------------------------------------
(* The search for a path, one bucket lock at a time *)

CurrentLock(l) == locks[Len(locks)][l]

\* lock_one, the work W under it, and unlock, in one step
UnderLock(t, b, W) ==
    /\ CurrentLock(LockInd(b)) = NoThread
    /\ IF hp # snap[t]
       THEN Retry(t) /\ UNCHANGED table
       ELSE RehashLocks({LockInd(b)}) /\ W
    /\ UNCHANGED <<locks, job, snap, arr, want, ret, ops>>

\* the order in which slot_search looks at the slots of a bucket
SlotAt(x, i) == ((IF x.slots = <<>> THEN x.start ELSE x.slots[Len(x.slots)]) + i) % SlotPerBucket
FreeAfter(x) == {i \in Slots : buckets'[x.bucket][SlotAt(x, i)] = NoItem}
Child(t, x, i) ==
    LET k == buckets'[x.bucket][SlotAt(x, i)].key
    IN  [bucket |-> Alt(snap[t], Mix[k], x.bucket), start |-> x.start,
         slots |-> Append(x.slots, SlotAt(x, i))]
Children(t, x) == IF Len(x.slots) >= MaxBfsPathLen - 1 THEN <<>>
                  ELSE [i \in 1 .. SlotPerBucket |-> Child(t, x, i - 1)]

SlotSearch(t) ==
    /\ pc[t] = "search" /\ queue[t] # <<>>
    /\ LET x == Head(queue[t])
       IN UnderLock(t, x.bucket,
            IF FreeAfter(x) # {}
            THEN /\ path' = [path EXCEPT ![t] =
                       LET found == Append(x.slots, SlotAt(x, Min(FreeAfter(x))))
                       IN  [i \in 1 .. Len(found) |->
                              [bucket |-> IF x.start = 0 THEN B1(t) ELSE B2(t),
                               slot |-> found[i], hash |-> 0, mix |-> 0]]]
                 /\ queue' = [queue EXCEPT ![t] = <<>>]
                 /\ depth' = [depth EXCEPT ![t] = 0]
                 /\ Goto(t, "fill")
            ELSE /\ queue' = [queue EXCEPT ![t] = Tail(@) \o Children(t, x)]
                 /\ UNCHANGED <<pc, path, depth>>)

\* no path: the table is full
SearchFails(t) ==
    /\ pc[t] = "search" /\ queue[t] = <<>>
    /\ Goto(t, "lockall")
    /\ UNCHANGED <<table, locks, job, snap, arr, want, walk, ret, ops>>

\* cuckoopath_search fills in buckets and hashes; it stops early at a slot that became free
FillPath(t) ==
    /\ pc[t] = "fill"
    /\ LET i == depth[t] + 1
           x == path[t][i]
           k == buckets'[x.bucket][x.slot].key
       IN UnderLock(t, x.bucket,
            IF buckets'[x.bucket][x.slot] = NoItem \/ i = Len(path[t])
            THEN /\ path' = [path EXCEPT ![t] = SubSeq(@, 1, i)]
                 /\ Goto(t, "shift")
                 /\ UNCHANGED <<queue, depth>>
            ELSE /\ path' = [path EXCEPT
                       ![t][i].hash = Hash[k], ![t][i].mix = Mix[k],
                       ![t][i + 1].bucket = Alt(snap[t], Mix[k], x.bucket)]
                 /\ depth' = [depth EXCEPT ![t] = i]
                 /\ UNCHANGED <<pc, queue>>)

-----------------------------------------------------------------------------
(* cuckoopath_move, from the free end of the path to an insert bucket *)

From(t) == path[t][depth[t]]
To(t) == path[t][depth[t] + 1]

\* the path still describes the buckets
Valid(t) ==
    IF depth[t] = 0 THEN At(path[t][1].bucket, path[t][1].slot) = NoItem
    ELSE /\ At(To(t).bucket, To(t).slot) = NoItem
         /\ At(From(t).bucket, From(t).slot) # NoItem
         /\ Hash[At(From(t).bucket, From(t).slot).key] = From(t).hash

MoveFails(t) ==
    /\ Ready(t, "shift") /\ ~Valid(t)
    /\ Search(t)
    /\ UNCHANGED <<table, job, snap, arr, want, ret, ops>>

\* depth 0 or 1 ends the move with the insert buckets still locked
Kept(t) == {LockInd(B1(t)), LockInd(B2(t))}

Move(t) ==
    /\ Ready(t, "shift") /\ Valid(t)
    /\ IF depth[t] = 0 THEN UNCHANGED buckets
       ELSE buckets' = [buckets EXCEPT
              ![To(t).bucket][To(t).slot] = At(From(t).bucket, From(t).slot),
              ![From(t).bucket][From(t).slot] = NoItem]
    /\ locks' = IF depth[t] > 1 THEN Unlocked(t)
                ELSE [locks EXCEPT ![arr[t]] = [l \in DOMAIN @ |->
                        IF @[l] = t /\ l \notin Kept(t) THEN NoThread ELSE @[l]]]
    /\ depth' = [depth EXCEPT ![t] = IF @ = 0 THEN 0 ELSE @ - 1]
    /\ Goto(t, IF depth[t] > 1 THEN "shift" ELSE "place")
    /\ UNCHANGED <<hp, old, remaining, migrated, count, job, snap, arr, want, queue, path, ret, ops>>

\* mutant of Place: the key is not looked for again
PlaceBlind(t) == pc[t] = "place" /\ Add(t, <<path[t][1].bucket, path[t][1].slot>>)

\* another insert of the key may have run while the buckets were unlocked
Place(t) ==
    /\ pc[t] = "place"
    /\ IF Found(t) # {} THEN Existing(t) ELSE Add(t, <<path[t][1].bucket, path[t][1].slot>>)

-----------------------------------------------------------------------------
(* lock_all, cuckoo_fast_double, clear *)

\* first_locked = prev(end)
LockAll(t) ==
    /\ pc[t] = "lockall"
    /\ arr' = [arr EXCEPT ![t] = Len(locks)]
    /\ depth' = [depth EXCEPT ![t] = 0]
    /\ Goto(t, "all")
    /\ UNCHANGED <<table, locks, job, snap, want, queue, path, ret, ops>>

\* the locks of the arrays from arr on, in order, among them arrays added meanwhile
Untaken(t) == {<<a, l>> \in (arr[t] .. Len(locks)) \X (0 .. MaxNumLocks - 1) :
                   l \in DOMAIN locks[a] /\ locks[a][l] # t}
FirstUntaken(t) == CHOOSE x \in Untaken(t) : \A y \in Untaken(t) :
                       x[1] < y[1] \/ (x[1] = y[1] /\ x[2] <= y[2])

LockAllNext(t) ==
    /\ pc[t] = "all" /\ Untaken(t) # {}
    /\ LET x == FirstUntaken(t)
       IN  locks[x[1]][x[2]] = NoThread /\ locks' = [locks EXCEPT ![x[1]][x[2]] = t]
    /\ UNCHANGED <<table, pc, job, snap, arr, want, walk, ret, ops>>

AllTaken(t) == pc[t] = "all" /\ Untaken(t) = {}

\* another thread doubled the table first
DoubleLate(t) ==
    /\ AllTaken(t) /\ Upserts(t) /\ hp # snap[t]
    /\ locks' = Unlocked(t)
    /\ Retry(t)
    /\ UNCHANGED <<table, job, snap, arr, want, ret, ops>>

\* migrate what is left, then maybe_resize_locks, before the hashpower changes
DoubleLocks(t) ==
    /\ AllTaken(t) /\ Upserts(t) /\ hp = snap[t] /\ hp < MaxHp
    /\ LET n == Min({MaxNumLocks, Size(hp + 1)})
           Grow(f, x) == [l \in 0 .. n - 1 |-> IF l \in DOMAIN f THEN f[l] ELSE x]
       IN  /\ locks' = IF Cardinality(DOMAIN count) < n
                       THEN Append(locks, [l \in 0 .. n - 1 |-> t]) ELSE locks
           /\ count' = Grow(count, 0)
           /\ migrated' = [l \in DOMAIN count' |-> TRUE]
    /\ buckets' = Drain(Unmigrated)
    /\ old' = <<>> /\ remaining' = 0
    /\ Goto(t, "double")
    /\ UNCHANGED <<hp, job, snap, arr, want, walk, ret, ops>>

\* the new buckets replace the old ones; a small table is migrated at once
DoubleBuckets(t) ==
    /\ pc[t] = "double"
    /\ hp' = hp + 1
    /\ LET all == DOMAIN migrated
           fresh == [i \in 0 .. Size(hp + 1) - 1 |-> EmptyBucket]
       IN  IF Size(hp) < MaxNumLocks
           THEN buckets' = Moved(fresh, buckets, hp, all) /\ UNCHANGED <<old, migrated, remaining>>
           ELSE /\ buckets' = fresh /\ old' = buckets
                /\ migrated' = [l \in all |-> FALSE] /\ remaining' = Cardinality(all)
    /\ locks' = Unlocked(t)
    /\ Retry(t)
    /\ UNCHANGED <<count, job, snap, arr, want, ret, ops>>

\* mutant of ClearAll: the counters are not reset
ClearAllCounting(t) ==
    /\ AllTaken(t) /\ job[t].op = "clear"
    /\ buckets' = [i \in DOMAIN buckets |-> EmptyBucket]
    /\ migrated' = [l \in DOMAIN migrated |-> TRUE]
    /\ old' = <<>> /\ remaining' = 0
    /\ ret' = [ret EXCEPT ![t] = "yes"]
    /\ locks' = Unlocked(t)
    /\ Goto(t, "idle")
    /\ job' = [job EXCEPT ![t] = NoItem]
    /\ arr' = [arr EXCEPT ![t] = 1]
    /\ UNCHANGED <<hp, count, snap, want, walk, ops>>

\* cuckoo_clear
ClearAll(t) ==
    /\ AllTaken(t) /\ job[t].op = "clear"
    /\ buckets' = [i \in DOMAIN buckets |-> EmptyBucket]
    /\ count' = [l \in DOMAIN count |-> 0]
    /\ migrated' = [l \in DOMAIN migrated |-> TRUE]
    /\ old' = <<>> /\ remaining' = 0
    /\ ret' = [ret EXCEPT ![t] = "yes"]
    /\ locks' = Unlocked(t)
    /\ Goto(t, "idle")
    /\ job' = [job EXCEPT ![t] = NoItem]
    /\ arr' = [arr EXCEPT ![t] = 1]
    /\ UNCHANGED <<hp, snap, want, walk, ops>>

-----------------------------------------------------------------------------
(* Specification *)

\* an insert that finds a free slot in one of the two buckets
Load(bs, k) ==
    LET free(i) == {s \in Slots : bs[i][s] = NoItem}
        i == IF free(First(InitHp, k)) # {} THEN First(InitHp, k) ELSE Second(InitHp, k)
    IN  [bs EXCEPT ![i][Max(free(i))] = [key |-> k, val |-> LoadedVal]]

Init ==
    /\ hp = InitHp
    /\ buckets = FoldLeft(LAMBDA bs, k : Load(bs, k), [i \in 0 .. Size(InitHp) - 1 |-> EmptyBucket], Loaded)
    /\ old = <<>> /\ remaining = 0
    /\ LET ls == 0 .. Min({MaxNumLocks, Size(InitHp)}) - 1
       IN  /\ locks = <<[l \in ls |-> NoThread]>>
           /\ migrated = [l \in ls |-> TRUE]
           /\ count = [l \in ls |-> Cardinality({x \in (DOMAIN buckets) \X Slots :
                                    LockInd(x[1]) = l /\ buckets[x[1]][x[2]] # NoItem})]
    /\ pc = [t \in Threads |-> "idle"]
    /\ job = [t \in Threads |-> NoItem]
    /\ snap = [t \in Threads |-> 0]
    /\ arr = [t \in Threads |-> 1]
    /\ want = [t \in Threads |-> <<>>]
    /\ queue = [t \in Threads |-> <<>>]
    /\ path = [t \in Threads |-> <<>>]
    /\ depth = [t \in Threads |-> 0]
    /\ ret = [t \in Threads |-> "no"]
    /\ ops = 0

Step(t) ==
    \/ Snapshot(t) \/ Begin(t) \/ LockNext(t)
    \/ Find(t) \/ Erase(t) \/ InsertDirect(t) \/ RunCuckoo(t)
    \/ SlotSearch(t) \/ SearchFails(t) \/ FillPath(t)
    \/ Move(t) \/ MoveFails(t) \/ Place(t)
    \/ LockAll(t) \/ LockAllNext(t)
    \/ DoubleLate(t) \/ DoubleLocks(t) \/ DoubleBuckets(t)
    \/ ClearAll(t)

\* every call has returned; MaxOps bounds the behaviour
Finished == ops = MaxOps /\ (\A t \in Threads : pc[t] = "idle") /\ UNCHANGED vars

Next == (\E t \in Threads : Call(t) \/ Step(t)) \/ Finished

Spec == Init /\ [][Next]_vars

-----------------------------------------------------------------------------
(* Properties *)

\* the items a thread can find, with the buckets they may be in: those of the table, and
\* those of old buckets nobody has migrated yet
Stored ==
    {<<i, s, hp>> : i \in DOMAIN buckets, s \in Slots} \cup
    {<<i, s, hp - 1>> : i \in {j \in DOMAIN old : ~migrated[LockInd(j)]}, s \in Slots}
ItemAt(x) == IF x[3] = hp THEN buckets[x[1]][x[2]] ELSE old[x[1]][x[2]]
Occupied == {x \in Stored : ItemAt(x) # NoItem}
Contents == {ItemAt(x) : x \in Occupied}

\* The types of the table and of its locks: one migration flag and one counter for each
\* lock of the current array, and buckets for the hashpower.
CuckooTypeOK ==
    /\ buckets \in [0 .. Size(hp) - 1 -> [Slots -> Items \cup {NoItem}]]
    /\ old = <<>> \/ old \in [0 .. Size(hp - 1) - 1 -> [Slots -> Items \cup {NoItem}]]
    /\ DOMAIN migrated = DOMAIN locks[Len(locks)] /\ DOMAIN count = DOMAIN migrated
    /\ pc \in [Threads -> {"idle", "snap", "op", "search", "fill", "shift", "place",
                           "lockall", "all", "double"}]

\* No key is stored twice, and each is in one of its two buckets: cuckoo_insert searches
\* again after run_cuckoo had released the buckets (cuckoohash_map.hh:1280), and a path is
\* validated before each move (:1527).
KeysInPlace ==
    LET occupied == Occupied
    IN  /\ Cardinality({ItemAt(x).key : x \in occupied}) = Cardinality(occupied)
        /\ \A x \in occupied :
              x[1] \in {First(x[3], ItemAt(x).key), Second(x[3], ItemAt(x).key)}

\* size() adds up elem_counter: displacement moves items between locks without touching the
\* counters, and maybe_resize_locks copies them (cuckoohash_map.hh:1838).
SizeExact == FoldFunction(+, 0, count) = Cardinality(Occupied)

\* old_buckets_ lives exactly as long as some lock is unmigrated (decrement_num_remaining_
\* lazy_rehash_locks), or items would be lost or memory kept.
OldBucketsExact ==
    /\ remaining = Cardinality(Unmigrated)
    /\ (old = <<>>) = (Unmigrated = {})

\* The table is well formed at every step of every thread: its types, where its keys are,
\* and what is left to migrate.
CuckooInv == CuckooTypeOK /\ KeysInPlace /\ OldBucketsExact

\* The comments at cuckoohash_map.hh:1703 and :2085: locks are resized before the hashpower
\* changes, so that nobody indexes an old lock array with a new hashpower.
LockIndexInRange ==
    \A t \in Threads : \A i \in 1 .. Len(want[t]) : want[t][i] \in DOMAIN locks[arr[t]]

\* Linearizability: each operation takes effect at one instant with that instant's result.
Abstract == INSTANCE ConcurrentMap WITH items <- Contents
ImplementsMap == Abstract!MapSpec
==============================================================================
