------------------------------- MODULE Search -------------------------------
(***************************************************************************)
(* Searches of the disk index (SSDIndex::beam_search, filter_beam_search,  *)
(* page_search, pipe_search, coro_search) and the locks and buffers they   *)
(* share with insert_in_place: the sparse lock tables of ids and pages,    *)
(* the pool of query buffers, the kernel that completes reads, and the     *)
(* background thread that gives an insert's buffer back.  The candidate    *)
(* lists are those of CandidateList; an insert is its search, the write    *)
(* locks under which it publishes the new locations, and its buffers       *)
(* (InsertPath has the rest).                                              *)
(***************************************************************************)
EXTENDS CandidateList

CONSTANTS
    Threads,    \* client threads
    Mixes,      \* which calls run together: functions from Threads to sets of kinds
    Entries,    \* what the in-memory index may give as entry points
    Medoid,     \* medoids[0]
    NewId,      \* NewId[t]: the id an insert of thread t draws
    UsePages,   \* use_page_search_
    R,          \* the neighbours pruning keeps at most
    NBuffers,   \* query buffers (init_buffers: two per thread)
    NCoros,     \* queries of one coro_search call (N)
    MaxReads,   \* MAX_N_SECTOR_READS
    StartWidth, \* the pipe's width before it converges
    MaxCalls    \* bound: calls made in a behaviour

Kinds == {"beam", "page", "filter", "insert", "pipe", "coro"}

ASSUME SearchAssumption ==
    /\ IsFiniteSet(Threads)
    /\ Mixes \subseteq [Threads -> SUBSET Kinds]
    /\ Entries \subseteq Seq(Nodes) \ {<<>>} /\ (\A e \in Entries : IsInjective(e))
    /\ Medoid \in Nodes
    /\ NewId \in [Threads -> Nat \ Nodes]
    /\ Page \in [Nodes \union {NewId[t] : t \in Threads} -> Nat]
    /\ UsePages \in BOOLEAN
    /\ {NBuffers, NCoros, MaxReads, StartWidth, R} \subseteq Nat \ {0} /\ MaxCalls \in Nat

VARIABLES
    mix,    \* mix[t]: the kinds of call thread t makes, chosen once
    free,   \* thread_data_queue: buffers in the pool
    bg,     \* bg_tasks: inserts whose buffer the background thread holds
    calls,  \* calls made
    pc,     \* where each thread is
    list,   \* the candidate lists of each thread's call
    want,   \* lock keys still to be taken, in order
    held,   \* lock keys held by each thread
    locks,  \* the sparse lock tables: an entry only for a locked key
    flying, \* reads sent and not harvested (on_flight_ios; coro: their CQEs)
    pipe    \* the rest of a pipe search

vars == <<mix, free, bg, calls, pc, list, want, held, locks, flying, pipe>>

IdKey(n) == <<0, n>>
PageKey(p) == <<1, p>>

(* get_to_lock_idx: ascending and without repetition.                       *)
Ascending(S) == InOrder(S, {nm \in S \X S : nm[1] < nm[2]})

(* lock_idx, then lock_page_idx.                                            *)
LockOrder(ids, pages) ==
    LET sortedIds == Ascending(ids)
        sortedPages == Ascending(pages)
    IN  [i \in DOMAIN sortedIds |-> IdKey(sortedIds[i])]
        \o IF UsePages THEN [i \in DOMAIN sortedPages |-> PageKey(sortedPages[i])] ELSE <<>>

Writes(t) == pc[t] = "link"

(* tryrdlock, trywrlock: upsert an entry, try its lock.                     *)
CanLock(t, key) == key \in DOMAIN locks => ~Writes(t) /\ ~locks[key].write

Locked(t, key) ==
    LET entry == IF key \in DOMAIN locks THEN locks[key] ELSE [count |-> 0, write |-> Writes(t)]
    IN  [k \in DOMAIN locks \union {key} |->
            IF k = key THEN [entry EXCEPT !.count = @ + 1] ELSE locks[k]]

(* Mutant of Unlocked: the entry goes with the first unlock. *)
UnlockedAll(keys) == [key \in DOMAIN locks \ keys |-> locks[key]]

(* unlock of each key in keys: the last holder erases the entry.            *)
Unlocked(keys) ==
    [key \in {key \in DOMAIN locks : key \in keys => locks[key].count > 1}
        |-> IF key \in keys THEN [locks[key] EXCEPT !.count = @ - 1] ELSE locks[key]]

(* rdlock, wrlock: the spin ends when the next key can be taken.            *)
Acquire(t) ==
    /\ want[t] # <<>>
    /\ CanLock(t, Head(want[t]))
    /\ locks' = Locked(t, Head(want[t]))
    /\ held' = [held EXCEPT ![t] = @ \union {Head(want[t])}]
    /\ want' = [want EXCEPT ![t] = Tail(@)]
    /\ UNCHANGED <<mix, free, bg, calls, pc, list, flying, pipe>>

Goto(t, label) == pc' = [pc EXCEPT ![t] = label]
SetList(t, c) == list' = [list EXCEPT ![t] = <<c>>]
UnlockHeld(t) == locks' = Unlocked(held[t]) /\ held' = [held EXCEPT ![t] = {}]

NoPipe == [onPage |-> <<>>, slotOf |-> <<>>, next |-> 0, width |-> 0, quota |-> 0]

(* pop_query_buf: a call waits until the pool has a buffer.                 *)
PopBuffer == free > 0 /\ free' = free - 1

(***************************************************************************)
(* beam_search, filter_beam_search, page_search, and the search of         *)
(* insert_in_place: rounds of select, lock, read, unlock, explore.         *)
(***************************************************************************)
BeginRounds(t) ==
    /\ pc[t] = "idle" /\ calls < MaxCalls
    /\ PopBuffer
    /\ calls' = calls + 1
    /\ \E kind \in mix[t] \ {"pipe", "coro"}, query \in Queries,
          entries \in Entries \union {<<Medoid>>}, dyn \in BOOLEAN :
          \E c \in {SortPool(NewList(kind, dyn, query, entries))} :
          /\ kind = "insert" => entries = <<Medoid>>
          /\ kind \in {"page", "insert"} => ~dyn
          /\ kind # "filter" => SetList(t, c)
          /\ kind = "filter" =>
               \E S \in SUBSET Candidates :
                  /\ Cardinality(S) = IF Cardinality(Candidates) < KSearch
                                      THEN Cardinality(Candidates) ELSE KSearch
                  /\ SetList(t, [c EXCEPT !.batch = Ascending(S), !.computed = S])
          /\ Goto(t, CASE kind = "insert" -> "pop" [] kind = "filter" -> "prefill"
                       [] OTHER -> "search")
    /\ UNCHANGED <<mix, bg, want, held, locks, flying, pipe>>

(* The second buffer of an insert, taken by do_beam_search.                 *)
PopAgain(t) ==
    /\ pc[t] = "pop"
    /\ PopBuffer
    /\ Goto(t, "search")
    /\ UNCHANGED <<mix, bg, calls, list, want, held, locks, flying, pipe>>

LockFront(t, c) ==
    want' = [want EXCEPT ![t] = LockOrder(ToSet(c.front),
                                  IF c.kind = "page" THEN {Page[n] : n \in ToSet(c.front)}
                                  ELSE {})]

(* A round: choose the beam, then lock its ids.  A round with nothing to    *)
(* read explores at once.                                                   *)
Select(t) ==
    /\ pc[t] = "search" /\ ~SearchEnds(list[t][1])
    /\ \E c \in {PickBeam(list[t][1])} :
       IF c.front = <<>>
       THEN SetList(t, Explore(c)) /\ UNCHANGED <<pc, want>>
       ELSE SetList(t, c) /\ LockFront(t, c) /\ Goto(t, "explore")
    /\ UNCHANGED <<mix, free, bg, calls, held, locks, flying, pipe>>

(* The reads are done: unlock, then work on them.                           *)
ReadAndExplore(t) ==
    /\ pc[t] = "explore" /\ want[t] = <<>>
    /\ SetList(t, Explore(list[t][1]))
    /\ UnlockHeld(t)
    /\ Goto(t, "search")
    /\ UNCHANGED <<mix, free, bg, calls, want, flying, pipe>>

(* do_filter_beam_search reads the ids it prefills, and later those it      *)
(* refines, in batches of beam_width ...                                    *)
NextBatch(t) ==
    /\ pc[t] \in {"prefill", "refine"} /\ list[t][1].batch # <<>>
    /\ LET c == list[t][1]
           n == IF Len(c.batch) < Beam THEN Len(c.batch) ELSE Beam
           d == [c EXCEPT !.front = SubSeq(c.batch, 1, n),
                          !.batch = SubSeq(c.batch, n + 1, Len(c.batch))]
       IN  SetList(t, d) /\ LockFront(t, d)
    /\ Goto(t, IF pc[t] = "prefill" THEN "prefill_read" ELSE "refine_read")
    /\ UNCHANGED <<mix, free, bg, calls, held, locks, flying, pipe>>

(* ... and pushes each into the heap of results.                            *)
ReadBatch(t) ==
    /\ pc[t] \in {"prefill_read", "refine_read"} /\ want[t] = <<>>
    /\ LET c == list[t][1]
           push(heap, n) == PushHeap(c.query.exact, heap, n, KSearch)
       IN  SetList(t, [c EXCEPT !.heap = Through(push, @, c.front)])
    /\ UnlockHeld(t)
    /\ Goto(t, IF pc[t] = "prefill_read" THEN "prefill" ELSE "refine")
    /\ UNCHANGED <<mix, free, bg, calls, want, flying, pipe>>

Prefilled(t) ==
    /\ pc[t] = "prefill" /\ list[t][1].batch = <<>>
    /\ Goto(t, "search")
    /\ UNCHANGED <<mix, free, bg, calls, list, want, held, locks, flying, pipe>>

(* Mutant of ToRefine: ids that were met as neighbours count as computed. *)
RefineUnmet(c) == Kept(Reverse(c.cands), Nodes \ (c.computed \union c.seen))

(* What is left to refine: the candidates by PQ distance, farthest first,   *)
(* whose exact distance is not known.                                       *)
ToRefine(c) == Kept(Reverse(c.cands), Nodes \ c.computed)

Refine(t) ==
    /\ pc[t] = "search" /\ SearchEnds(list[t][1]) /\ list[t][1].kind = "filter"
    /\ LET c == list[t][1] IN
       SetList(t, [c EXCEPT !.batch = ToRefine(c), !.cands = <<>>,
                            !.computed = @ \union ToSet(ToRefine(c))])
    /\ Goto(t, "refine")
    /\ UNCHANGED <<mix, free, bg, calls, want, held, locks, flying, pipe>>

RoundsEnded(t) ==
    \/ pc[t] = "search" /\ SearchEnds(list[t][1]) /\ list[t][1].kind # "filter"
    \/ pc[t] = "refine" /\ list[t][1].batch = <<>>

(* push_query_buf: the search returns; an insert goes on with its links.    *)
EndRounds(t) ==
    /\ RoundsEnded(t)
    /\ free' = free + 1
    /\ IF list[t][1].kind # "insert"
       THEN Goto(t, "idle") /\ list' = [list EXCEPT ![t] = <<>>] /\ UNCHANGED want
       ELSE \E nhood \in SUBSET Expanded(list[t][1]) :
              LET ids == nhood \union {NewId[t]} IN
              /\ Cardinality(nhood) \in 1 .. R
              /\ want' = [want EXCEPT ![t] = LockOrder(ids, {Page[n] : n \in ids})]
              /\ Goto(t, "link") /\ UNCHANGED list
    /\ UNCHANGED <<mix, bg, calls, held, locks, flying, pipe>>

(* Under the write locks the new locations are published; then the locks    *)
(* go, and the buffer goes with the writes to the background thread ...     *)
Publish(t) ==
    /\ pc[t] = "link" /\ want[t] = <<>>
    /\ UnlockHeld(t)
    /\ bg' = bg + 1
    /\ Goto(t, "idle") /\ list' = [list EXCEPT ![t] = <<>>]
    /\ UNCHANGED <<mix, free, calls, want, flying, pipe>>

(* ... which returns it when they are on disk (bg_io_thread).               *)
BgReturn ==
    /\ bg > 0
    /\ bg' = bg - 1
    /\ free' = free + 1
    /\ UNCHANGED <<mix, calls, pc, list, want, held, locks, flying, pipe>>

Rounds(t) ==
    \/ BeginRounds(t) \/ PopAgain(t) \/ Select(t) \/ ReadAndExplore(t)
    \/ NextBatch(t) \/ ReadBatch(t) \/ Prefilled(t) \/ Refine(t)
    \/ EndRounds(t) \/ Publish(t)

(***************************************************************************)
(* The kernel completes the reads in flight in any order.                  *)
(***************************************************************************)
Complete(t) ==
    \E i \in DOMAIN flying[t] :
        /\ ~flying[t][i].fin
        /\ flying' = [flying EXCEPT ![t][i].fin = TRUE]
        /\ pipe' = IF pc[t] = "coro" THEN pipe
                   ELSE [pipe EXCEPT ![t].onPage[flying[t][i].slot] = Page[flying[t][i].id]]
        /\ UNCHANGED <<mix, free, bg, calls, pc, list, want, held, locks>>

(***************************************************************************)
(* pipe_search.                                                            *)
(***************************************************************************)
BeginPipe(t) ==
    /\ pc[t] = "idle" /\ calls < MaxCalls /\ "pipe" \in mix[t]
    /\ PopBuffer
    /\ calls' = calls + 1
    /\ \E query \in Queries, entries \in Entries \union {<<Medoid>>} :
          SetList(t, NewList("pipe", FALSE, query, entries))
    /\ pipe' = [pipe EXCEPT ![t] =
                  [onPage |-> [slot \in 0 .. MaxReads - 1 |-> 0], slotOf |-> <<>>,
                   next |-> 0, width |-> StartWidth, quota |-> StartWidth]]
    /\ Goto(t, "first_send")
    /\ UNCHANGED <<mix, bg, want, held, locks, flying>>

(* The entries send_best_read_req may read: not on flight, not yet read.    *)
Unread(t) ==
    LET pool == list[t][1].pool
    IN  {i \in DOMAIN pool : pool[i].flag /\ pool[i].id \notin DOMAIN pipe[t].slotOf}

First(S) == CHOOSE i \in S : \A j \in S : i <= j

(* send_best_read_req: take the read lock of the first such entry.          *)
PipeSelect(t) ==
    /\ pc[t] \in {"first_send", "send"}
    /\ pipe[t].quota > 0 /\ Unread(t) # {}
    /\ LET i == First(Unread(t))
           id == list[t][1].pool[i].id
       IN  /\ SetList(t, [list[t][1] EXCEPT !.front = <<id>>,
                            !.pool = [j \in DOMAIN @ |->
                               IF j <= i THEN [@[j] EXCEPT !.flag = FALSE] ELSE @[j]]])
           /\ want' = [want EXCEPT ![t] = <<IdKey(id)>>]
    /\ Goto(t, IF pc[t] = "send" THEN "submit" ELSE "first_submit")
    /\ UNCHANGED <<mix, free, bg, calls, held, locks, flying, pipe>>

(* Under the lock the read is sent into the next buffer of the ring.        *)
PipeSubmit(t) ==
    /\ pc[t] \in {"first_submit", "submit"} /\ want[t] = <<>>
    /\ flying' = [flying EXCEPT ![t] = Append(@,
                    [id |-> list[t][1].front[1], slot |-> pipe[t].next, fin |-> FALSE])]
    /\ pipe' = [pipe EXCEPT ![t].next = (@ + 1) % MaxReads, ![t].quota = @ - 1]
    /\ Goto(t, IF pc[t] = "submit" THEN "send" ELSE "first_send")
    /\ UNCHANGED <<mix, free, bg, calls, list, want, held, locks>>

(* Nothing more to send.  The first reads were chosen in the order of the   *)
(* in-memory index; now the list is sorted by PQ distance.                  *)
PipeSent(t) ==
    /\ pc[t] \in {"first_send", "send"}
    /\ pipe[t].quota <= 0 \/ Unread(t) = {}
    /\ IF pc[t] = "send" THEN Goto(t, "calc") /\ UNCHANGED list
       ELSE Goto(t, "poll") /\ SetList(t, SortPool(list[t][1]))
    /\ UNCHANGED <<mix, free, bg, calls, want, held, locks, flying, pipe>>

AllVisited(t) == \A i \in DOMAIN list[t][1].pool : list[t][1].pool[i].done

(* Mutant of Harvest: reads that have not finished as well. *)
HarvestAll(t) == flying[t]

(* poll_all: the reads at the front of the queue that have finished.        *)
Harvest(t) ==
    LET fly == flying[t]
        prefix == {n \in 0 .. Len(fly) : \A i \in 1 .. n : fly[i].fin}
    IN  SubSeq(fly, 1, CHOOSE n \in prefix : \A m \in prefix : m <= n)

(* Harvest, unlock, and let the width grow once the search has converged    *)
(* (the share of useful reads decides, here either may happen).             *)
PipePoll(t) ==
    /\ pc[t] = "poll" /\ ~AllVisited(t)
    /\ LET in == Harvest(t)
           rest == SubSeq(flying[t], Len(in) + 1, Len(flying[t]))
           keys == {IdKey(in[i].id) : i \in DOMAIN in}
       IN  /\ flying' = [flying EXCEPT ![t] = rest]
           /\ locks' = Unlocked(keys)
           /\ held' = [held EXCEPT ![t] = @ \ keys]
           /\ \E width \in IF in = <<>> \/ pipe[t].width >= Beam THEN {pipe[t].width}
                           ELSE {pipe[t].width, pipe[t].width + 1} :
                pipe' = [pipe EXCEPT
                    ![t].slotOf = [id \in DOMAIN @ \union {in[i].id : i \in DOMAIN in} |->
                        IF id \in DOMAIN @ THEN @[id]
                        ELSE in[CHOOSE i \in DOMAIN in : in[i].id = id].slot],
                    ![t].width = width,
                    ![t].quota = IF Len(rest) < width THEN 1 ELSE 0]
    /\ Goto(t, "send")
    /\ UNCHANGED <<mix, free, bg, calls, list, want>>

(* calc_best_node: expand the first unvisited entry whose page is read.     *)
PipeCalc(t) ==
    /\ pc[t] = "calc"
    /\ LET c == list[t][1]
           ready == {i \in DOMAIN c.pool :
                        ~c.pool[i].done /\ c.pool[i].id \in DOMAIN pipe[t].slotOf}
           i == First(ready)
           id == c.pool[i].id
       IN  IF ready = {} THEN UNCHANGED list
           ELSE SetList(t, Expand([c EXCEPT !.pool[i] = [@ EXCEPT !.flag = FALSE, !.done = TRUE]],
                                  id, pipe[t].onPage[pipe[t].slotOf[id]]))
    /\ Goto(t, "poll")
    /\ UNCHANGED <<mix, free, bg, calls, want, held, locks, flying, pipe>>

(* The queue of reads is a local of the search: what is still in it at the  *)
(* return is never harvested, and its locks are never released.             *)
PipeEnded(t) == pc[t] = "poll" /\ AllVisited(t)

EndPipe(t) ==
    /\ PipeEnded(t)
    /\ free' = free + 1
    /\ flying' = [flying EXCEPT ![t] = <<>>]
    /\ pipe' = [pipe EXCEPT ![t] = NoPipe]
    /\ list' = [list EXCEPT ![t] = <<>>]
    /\ Goto(t, "idle")
    /\ UNCHANGED <<mix, bg, calls, want, held, locks>>

Pipe(t) ==
    \/ BeginPipe(t) \/ PipeSelect(t) \/ PipeSubmit(t) \/ PipeSent(t)
    \/ PipePoll(t) \/ PipeCalc(t) \/ EndPipe(t)

(***************************************************************************)
(* coro_search: NCoros queries in one thread, each with its own list and   *)
(* its own batch of reads; no locks, and ids stand for locations and tags. *)
(***************************************************************************)
Batch(c, i) == [j \in DOMAIN c.front |-> [id |-> c.front[j], slot |-> i, fin |-> FALSE]]

(* issue_next_io_batch.                                                     *)
Issue(c) == IF SearchEnds(c) THEN [c EXCEPT !.front = <<>>] ELSE PickBeam(c)

BeginCoro(t) ==
    /\ pc[t] = "idle" /\ calls < MaxCalls /\ "coro" \in mix[t]
    /\ PopBuffer
    /\ calls' = calls + 1
    /\ \E query \in [1 .. NCoros -> Queries], entries \in Entries \union {<<Medoid>>} :
          \E new \in {[i \in 1 .. NCoros |-> NewList("coro", FALSE, query[i], entries)]} :
          \E sorted \in {[i \in 1 .. NCoros |-> SortPool(new[i])]} :
          \E cs \in {[i \in 1 .. NCoros |-> Issue(sorted[i])]} :
              /\ list' = [list EXCEPT ![t] = cs]
              /\ flying' = [flying EXCEPT ![t] =
                              FlattenSeq([i \in DOMAIN cs |-> Batch(cs[i], i)])]
    /\ Goto(t, "coro")
    /\ UNCHANGED <<mix, bg, want, held, locks, pipe>>

(* A query whose reads have all finished explores and sends the next.       *)
StepCoro(t) ==
    /\ pc[t] = "coro"
    /\ \E i \in 1 .. NCoros :
        /\ ~SearchEnds(list[t][i])
        /\ \A j \in DOMAIN flying[t] : flying[t][j].slot = i => flying[t][j].fin
        /\ \E explored \in {Explore(list[t][i])} : \E c \in {Issue(explored)} :
           /\ list' = [list EXCEPT ![t][i] = c]
           /\ flying' = [flying EXCEPT ![t] =
                            SelectSeq(@, LAMBDA io : io.slot # i) \o Batch(c, i)]
    /\ UNCHANGED <<mix, free, bg, calls, pc, want, held, locks, pipe>>

CoroEnded(t) == pc[t] = "coro" /\ \A i \in 1 .. NCoros : SearchEnds(list[t][i])

EndCoro(t) ==
    /\ CoroEnded(t)
    /\ free' = free + 1
    /\ list' = [list EXCEPT ![t] = <<>>]
    /\ flying' = [flying EXCEPT ![t] = <<>>]
    /\ Goto(t, "idle")
    /\ UNCHANGED <<mix, bg, calls, want, held, locks, pipe>>

Coro(t) == BeginCoro(t) \/ StepCoro(t) \/ EndCoro(t)

Init ==
    /\ mix \in Mixes
    /\ free = NBuffers /\ bg = 0 /\ calls = 0
    /\ pc = [t \in Threads |-> "idle"]
    /\ list = [t \in Threads |-> <<>>]
    /\ want = [t \in Threads |-> <<>>]
    /\ held = [t \in Threads |-> {}]
    /\ locks = <<>>
    /\ flying = [t \in Threads |-> <<>>]
    /\ pipe = [t \in Threads |-> NoPipe]

Step(t) == Acquire(t) \/ Rounds(t) \/ Pipe(t) \/ Coro(t)

(* Every call has returned: the program is idle.                            *)
Quiet == calls = MaxCalls /\ bg = 0 /\ (\A t \in Threads : pc[t] = "idle")
         /\ UNCHANGED vars

Next == BgReturn \/ Quiet \/ \E t \in Threads : Step(t) \/ Complete(t)

(* A thread in a call keeps running, the kernel completes every read, the   *)
(* background thread runs.                                                  *)
Fairness ==
    /\ WF_vars(BgReturn)
    /\ \A t \in Threads : WF_vars(pc[t] # "idle" /\ Step(t)) /\ WF_vars(Complete(t))

SearchSpec == Init /\ [][Next]_vars /\ Fairness

-----------------------------------------------------------------------------
(* Type invariant of the composition.                                       *)
SearchTypeOK ==
    /\ free \in 0 .. NBuffers /\ bg \in 0 .. MaxCalls /\ calls \in 0 .. MaxCalls
    /\ \A t \in Threads :
        /\ Len(list[t]) \in {0, 1, NCoros}
        /\ \A i \in DOMAIN list[t] :
             LET c == list[t][i] IN
             /\ Ids(c.pool) \subseteq c.seen /\ c.seen \subseteq Nodes
             /\ c.L >= LSearch /\ Len(c.heap) <= KSearch
             /\ c.k \in 0 .. Len(c.pool) /\ ToSet(c.front) \subseteq Nodes
    /\ \A key \in DOMAIN locks : locks[key].count \in 1 .. Cardinality(Threads)

Ended(t) == RoundsEnded(t) \/ PipeEnded(t) \/ CoroEnded(t)

(* The lists stay sorted, without repetition, and - unless deletions moved  *)
(* l_search - the best of all ids met: InsertIntoPool's bisection and the   *)
(* "may be overflow in retset" drop of the last entry lose nothing nearer   *)
(* (neighbor.h:126, pipe_search.cpp:121).                                   *)
ListsBest ==
    \A t \in Threads : \A i \in DOMAIN list[t] :
        pc[t] \notin {"first_send", "first_submit"} => Best(list[t][i])

(* What is true of every list at every step.                                *)
ListsInv == SearchTypeOK /\ ListsBest

(* "iterate to fixed point": when a search ends, every entry of its list    *)
(* has been read and its neighbours met; for page_search that includes the  *)
(* entries it passed over because their page was read for another one, and  *)
(* whose vectors it computes a round later (page_search.cpp:286).           *)
SearchesComplete ==
    \A t \in Threads : Ended(t) => \A i \in DOMAIN list[t] : FixedPoint(list[t][i])

(* A filtered search returns candidates only, and no candidate it met is    *)
(* nearer than the farthest it returns, unless refine_capacity of them were *)
(* nearer by PQ distance (beam_search.cpp:680).                             *)
FilterBest ==
    \A t \in Threads :
        Ended(t) /\ list[t][1].kind = "filter" =>
            LET c == list[t][1]
                met == {n \in c.seen : Tag[n] \in Candidates}
                nearerByPq(n) == {m \in met : c.query.pq[m] <= c.query.pq[n]}
            IN  /\ \A i \in DOMAIN c.heap : Tag[c.heap[i]] \in Candidates
                /\ \A n \in met \ ToSet(c.heap) :
                     \/ /\ Len(c.heap) = KSearch
                        /\ c.query.exact[Last(c.heap)] <= c.query.exact[n]
                     \/ Cardinality(nearerByPq(n)) > RefineCapacity

(* A filtered search returns each id once: prefilled ids are marked in      *)
(* exact_computed_set "to avoid computing them again"                       *)
(* (beam_search.cpp:405), yet the traversal does not ask that set.          *)
FilterDistinct ==
    \A t \in Threads :
        Ended(t) /\ list[t][1].kind = "filter" => IsInjective(list[t][1].heap)

(* When pipe_search returns, no read is in flight into the buffer it gives  *)
(* back and no read lock is left, although reads for entries that fell out  *)
(* of the list are still under way when their successors are computed: the  *)
(* queue is harvested in the order of sending (pipe_search.cpp:225).        *)
PipeDrained ==
    \A t \in Threads : PipeEnded(t) => flying[t] = <<>> /\ held[t] = {}

(* A record is computed from its own page: the ring of MAX_N_SECTOR_READS   *)
(* buffers does not come round while a page in it is still needed           *)
(* (pipe_search.cpp:207).                                                   *)
OwnPage ==
    \A t \in Threads : \A i \in DOMAIN list[t] :
        \A j \in DOMAIN list[t][i].full : list[t][i].full[j][2] = Page[list[t][i].full[j][1]]

(* The query buffers each thread's call holds: an insert takes two.         *)
Buffers ==
    [t \in Threads |->
        IF pc[t] = "idle" THEN 0
        ELSE IF list[t][1].kind = "insert" /\ pc[t] \notin {"pop", "link"} THEN 2 ELSE 1]

(* The sparse tables hold an entry exactly for the keys some thread holds,  *)
(* counted once per holder; a key locked for writing has one holder.  No    *)
(* buffer is lost or shared (lock_table.h:75, ssd_index.h:166).             *)
ResourcesExact ==
    /\ PipeDrained
    /\ \A key \in DOMAIN locks \union UNION {held[t] : t \in Threads} :
        LET holders == {t \in Threads : key \in held[t]} IN
        /\ key \in DOMAIN locks
        /\ locks[key].count = Cardinality(holders)
        /\ locks[key].write => Cardinality(holders) = 1
    /\ free + bg + SumFunction(Buffers) = NBuffers

Blocks(t, u) ==
    want[u] # <<>> /\ Head(want[u]) \in held[t]
    /\ (Writes(u) \/ locks[Head(want[u])].write)

(* No two threads spin for a lock the other holds: every set of locks is    *)
(* sorted before it is taken (ssd_index.h:385) and given back as a whole.   *)
NoLockCycle == \A t, u \in Threads : ~(Blocks(t, u) /\ Blocks(u, t))

(* Every call returns: no search and no insert waits for ever for a buffer, *)
(* a lock or a read.                                                        *)
CallsReturn == \A t \in Threads : pc[t] # "idle" ~> pc[t] = "idle"
=============================================================================
