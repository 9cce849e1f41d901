-------------------------- MODULE SearchInvariants --------------------------
(***************************************************************************)
(* The inductive invariants of Search and what they are built from:        *)
(* SearchIInv (types, locks, buffers, reads and candidate lists), FixInv   *)
(* (what each search has expanded), FilterInv (the heaps of a filtered     *)
(* search) and OwnInv (the ring of pages of a pipe search).  SearchProofs  *)
(* proves them.                                                            *)
(***************************************************************************)
EXTENDS Search, ListProofs

-----------------------------------------------------------------------------
(* The candidate lists of the searches. *)

EntrySet == [id : Nodes, flag : BOOLEAN, done : BOOLEAN]

ListSet ==
    [kind : Kinds, dyn : BOOLEAN, query : Queries, L : Nat, pool : Seq(EntrySet),
     seen : SUBSET Nodes, full : Seq(Nodes \X Nat), k : Nat, nk : Nat,
     front : Seq(Nodes), pages : SUBSET Nat, snap : Seq(Nodes),
     heap : Seq(Nodes), cands : Seq(Nodes), computed : SUBSET Nodes, batch : Seq(Nodes)]

(* No id is in the list twice; the list is sorted. *)
OneEach(pool) == \A i, j \in DOMAIN pool : pool[i].id = pool[j].id => i = j

NearestFirst(d, pool) == \A i, j \in DOMAIN pool : i < j => d[pool[i].id] <= d[pool[j].id]

(* What holds of every list, sorted or not. *)
ListOK(c) ==
    /\ c \in ListSet /\ c.pool # << >> /\ OneEach(c.pool) /\ Ids(c.pool) \subseteq c.seen
    /\ c.L >= LSearch /\ (~c.dyn => c.L = LSearch /\ Len(c.pool) <= LSearch)
    /\ Len(c.heap) <= KSearch
    /\ c.k <= Len(c.pool) /\ c.nk <= Len(c.pool)

(* The sorted list leaves out only what is no nearer than its last entry.   *)
Nearest(c) ==
    /\ NearestFirst(c.query.pq, c.pool)
    /\ ~c.dyn => \A n \in c.seen \ Ids(c.pool) :
                     Len(c.pool) = LSearch /\ c.query.pq[n] >= c.query.pq[Last(c.pool).id]

(* What exploring does to a list: it stays the list of its call, and the    *)
(* ids that enter it were not met before; when l_search stays, an entry      *)
(* leaves only for one of them.                                             *)
Grown(c, x) ==
    /\ x.kind = c.kind /\ x.dyn = c.dyn /\ x.query = c.query /\ c.seen \subseteq x.seen
    /\ \A i \in DOMAIN x.pool :
           \/ \E j \in DOMAIN c.pool : x.pool[i] = c.pool[j]
           \/ x.pool[i] = Entry(x.pool[i].id) /\ x.pool[i].id \notin c.seen
    /\ c.dyn \/ x.pool = c.pool \/ (\E i \in DOMAIN x.pool : x.pool[i].id \notin c.seen)

From(c) == { x \in ListSet : ListOK(x) /\ Nearest(x) /\ Grown(c, x) }

-----------------------------------------------------------------------------
(* What the functions of CandidateList change, and the lists that their     *)
(* folds pass through.                                                      *)

(* The fields that meeting an id leaves alone. *)
Unmet(c, x) ==
    /\ x.kind = c.kind /\ x.dyn = c.dyn /\ x.query = c.query /\ x.L = c.L /\ x.pool = c.pool
    /\ x.full = c.full /\ x.k = c.k /\ x.nk = c.nk /\ x.front = c.front /\ x.pages = c.pages
    /\ x.snap = c.snap /\ x.heap = c.heap /\ x.computed = c.computed /\ x.batch = c.batch

(* The list y with n inserted behind the first r entries. *)
Taken(c, n, r, y, x) ==
    x = [y EXCEPT !.pool = Splice(@, r, Entry(n), IF Len(c.pool) < c.L THEN Len(c.pool) + 1
                                                  ELSE Len(c.pool)),
                  !.nk = IF r < @ THEN r ELSE @]

(* The entries before a place are no farther than n, those behind it no     *)
(* nearer.                                                                  *)
Place(d, pool, n, r) ==
    /\ \A i \in 1 .. r : d[pool[i].id] <= d[n]
    /\ \A i \in r + 1 .. Len(pool) : d[pool[i].id] >= d[n]

(* A list that is well formed and, but for the pipe's first reads, sorted.  *)
Good(c) == ListOK(c) /\ Nearest(c)

(* The lists after each of the neighbours of a record is offered.           *)
Offers(base, seq) ==
    CHOOSE F : F = [ i \in 0 .. Len(seq) |->
        IF i = 0 THEN base
        ELSE CHOOSE y \in {Offer(x, seq[i]) : x \in {F[i - 1]}} : TRUE ]

(* The list once the exact distance of n, read from page, is kept.          *)
Recorded(c, n, page) ==
    IF c.kind # "filter" THEN [c EXCEPT !.full = Append(@, <<n, page>>)]
    ELSE [c EXCEPT !.computed = @ \union {n},
                   !.heap = IF Tag[n] \in Candidates
                            THEN PushHeap(c.query.exact, @, n, KSearch) ELSE @]

(* The lists after each of the records of ids is expanded.                  *)
Expansions(base, ids) ==
    CHOOSE F : F = [ i \in 0 .. Len(ids) |->
        IF i = 0 THEN base
        ELSE CHOOSE y \in {Expand(x, ids[i], Page[ids[i]]) : x \in {F[i - 1]}} : TRUE ]

(* The lists after each of the pages of ids is passed over.                 *)
Passes(base, ids) ==
    CHOOSE F : F = [ i \in 0 .. Len(ids) |->
        IF i = 0 THEN base
        ELSE CHOOSE y \in {ExpandAll(x, RestOfPage(x, ids[i])) : x \in {F[i - 1]}} : TRUE ]

(* A list whose flags, beam and place have changed. *)
Repicked(c, x) ==
    /\ x \in ListSet
    /\ x.kind = c.kind /\ x.dyn = c.dyn /\ x.query = c.query /\ x.L = c.L /\ x.seen = c.seen
    /\ Len(x.pool) = Len(c.pool) /\ \A i \in DOMAIN c.pool : x.pool[i].id = c.pool[i].id
    /\ Len(x.heap) <= KSearch /\ x.k <= Len(c.pool) /\ x.nk <= Len(c.pool)

(* One entry is considered for the beam.                                    *)
Pick(x, c, i) ==
    LET n == c.pool[i].id IN
    IF /\ i > c.k /\ Len(x.front) < Beam
       /\ c.pool[i].flag
       /\ c.kind = "page" => Page[n] \notin x.pages
    THEN [x EXCEPT !.front = Append(@, n), !.pool[i].flag = FALSE,
                   !.pages = @ \union {Page[n]}]
    ELSE x

Picks(c, base, seq) ==
    CHOOSE F : F = [ i \in 0 .. Len(seq) |->
        IF i = 0 THEN base
        ELSE CHOOSE y \in {Pick(x, c, seq[i]) : x \in {F[i - 1]}} : TRUE ]

(* The positions of a list, which the choice of the beam runs over, and the *)
(* list it begins with.                                                     *)
Positions(c) == [i \in DOMAIN c.pool |-> i]

Unpicked(c) == [c EXCEPT !.front = << >>, !.nk = Len(c.pool)]

(* The first list of a search: the ids it starts from, each met.            *)
Start(kind, dyn, query, pool) ==
    [kind |-> kind, dyn |-> dyn, query |-> query, L |-> LSearch, pool |-> pool,
     seen |-> {}, full |-> <<>>, k |-> 0, nk |-> 0, front |-> <<>>,
     pages |-> {}, snap |-> <<>>,
     heap |-> <<>>, cands |-> <<>>, computed |-> {}, batch |-> <<>>]

Meets(base, seq) ==
    CHOOSE F : F = [ i \in 0 .. Len(seq) |->
        IF i = 0 THEN base
        ELSE CHOOSE y \in {Meet(x, seq[i]) : x \in {F[i - 1]}} : TRUE ]

(* The heaps after each id of a batch of a filtered search is pushed.       *)
Pushes(d, base, seq) ==
    CHOOSE F : F = [ i \in 0 .. Len(seq) |->
        IF i = 0 THEN base
        ELSE CHOOSE y \in {PushHeap(d, x, seq[i], KSearch) : x \in {F[i - 1]}} : TRUE ]

(* Each is the one before it with one more id pushed. *)
InTurn(F, d, seq) == \A i \in 1 .. Len(seq) : F[i] = PushHeap(d, F[i - 1], seq[i], KSearch)

-----------------------------------------------------------------------------
(* What holds of every call, its lists, locks, buffers and reads. *)

(* Where a call may be. *)
PipeLabels == {"first_send", "first_submit", "send", "submit", "poll", "calc"}

Submitting == {"first_submit", "submit"}

(* Where locks may be wanted; where they may be held. *)
Locking == {"explore", "prefill_read", "refine_read", "link"} \cup Submitting

RoundLabels == {"pop", "search", "explore", "prefill", "prefill_read", "refine", "refine_read", "link"}

Labels == {"idle", "coro"} \cup RoundLabels \cup PipeLabels

Keys == {0, 1} \X Nat

LockSet == [count : Nat \ {0}, write : BOOLEAN]

Reads == [id : Nodes, slot : 0 .. MaxReads - 1, fin : BOOLEAN]

TypesOK ==
    /\ mix \in [Threads -> SUBSET Kinds]
    /\ free \in Nat /\ bg \in Nat /\ calls \in 0 .. MaxCalls
    /\ pc \in [Threads -> Labels]
    /\ list \in [Threads -> Seq(ListSet)]
    /\ want \in [Threads -> Seq(Keys)]
    /\ held \in [Threads -> SUBSET Keys]
    /\ locks \in [DOMAIN locks -> LockSet]
    /\ flying = [t \in Threads |-> flying[t]]
    /\ pipe = [t \in Threads |-> pipe[t]]

(* The lists a call has, by where it is. *)
ListsAt(label, lists) ==
    /\ label = "idle" => lists = << >>
    /\ label = "coro" => Len(lists) = NCoros /\ lists[1].kind = "coro"
    /\ label \notin {"idle", "coro"} => Len(lists) = 1
    /\ label \in {"first_send", "first_submit"} =>
          ListOK(lists[1]) /\ lists[1].seen = Ids(lists[1].pool)
    /\ label \notin {"first_send", "first_submit"} => \A i \in DOMAIN lists : Good(lists[i])
    /\ label \in PipeLabels => lists[1].kind = "pipe" /\ ~lists[1].dyn
    /\ label \in RoundLabels => lists[1].kind \in {"beam", "page", "filter", "insert"}
    /\ label = "pop" => lists[1].kind = "insert"

Holders(key) == {t \in Threads : key \in held[t]}

LocksExact ==
    \A key \in DOMAIN locks \cup UNION {held[t] : t \in Threads} :
        /\ key \in DOMAIN locks
        /\ locks[key].count = Cardinality(Holders(key))
        /\ locks[key].write => Cardinality(Holders(key)) = 1

(* No key is wanted twice, or again while it is held. *)
WantsAt(label, wants, holds) ==
    /\ IsInjective(wants)
    /\ \A i \in DOMAIN wants : wants[i] \notin holds
    /\ label \notin Locking => wants = << >>
    /\ label \notin Locking \cup PipeLabels => holds = {}

(* The calls under way, and the buffers.                                    *)
Active == {t \in Threads : pc[t] # "idle"}

BuffersExact == free + bg + SumFunction(Buffers) = NBuffers

CallsCounted == bg + Cardinality(Active) <= calls

(* What a pipe search has read, has in flight, and has still to read.       *)
FlyIds(fly) == {fly[i].id : i \in DOMAIN fly}

SentIds(c, fly, label) == FlyIds(fly) \cup IF label \in Submitting THEN {c.front[1]} ELSE {}

RingSet(got) ==
    [onPage : [0 .. MaxReads - 1 -> Nat], slotOf : [got -> 0 .. MaxReads - 1],
     next : 0 .. MaxReads - 1, width : Nat, quota : Int]

PipeAt(c, fly, p, label, wants, holds) ==
    LET got == DOMAIN p.slotOf
        sent == SentIds(c, fly, label)
    IN  /\ fly \in Seq(Reads)
        /\ p \in RingSet(got)
        /\ got \cup sent \subseteq c.seen /\ got \cap sent = {}
        /\ \A i, j \in DOMAIN fly : fly[i].id = fly[j].id => i = j
        /\ \A j \in DOMAIN c.pool :
              /\ c.pool[j].flag => c.pool[j].id \notin sent
              /\ ~c.pool[j].flag => c.pool[j].id \in got \cup sent
              /\ c.pool[j].done => c.pool[j].id \in got
        /\ \A i \in DOMAIN fly : \E j \in DOMAIN c.pool :
              /\ c.pool[j].id \notin got
              /\ \A k \in DOMAIN fly : fly[k].id = c.pool[j].id => k >= i
        /\ label \in Submitting =>
              /\ c.front[1] \in Ids(c.pool) \ FlyIds(fly)
              /\ wants \in {<< >>, <<IdKey(c.front[1])>>}
        /\ holds = {IdKey(n) : n \in FlyIds(fly)}
                   \cup IF label \in Submitting /\ wants = << >> THEN {IdKey(c.front[1])} ELSE {}

FlyingAt(label, lists, wants, holds, fly, p) ==
    /\ label \in PipeLabels => PipeAt(lists[1], fly, p, label, wants, holds)
    /\ label \notin PipeLabels \cup {"coro"} => fly = << >>

InOrderAt(label, lists, wants, holds, fly, p) ==
    /\ ListsAt(label, lists)
    /\ WantsAt(label, wants, holds)
    /\ FlyingAt(label, lists, wants, holds, fly, p)

InOrderOf(t) == InOrderAt(pc[t], list[t], want[t], held[t], flying[t], pipe[t])

SearchIInv ==
    /\ TypesOK
    /\ \A t \in Threads : InOrderOf(t)
    /\ LocksExact
    /\ BuffersExact
    /\ CallsCounted

(* What a step of thread t must do to keep the invariant: change the        *)
(* thread's own part of the state, keep that part in order, and keep the    *)
(* accounts of locks, buffers and calls.                                    *)
Moved(t, label, lists, wants, holds, fly, p) ==
    /\ mix' = mix
    /\ pc' = [pc EXCEPT ![t] = label] /\ list' = [list EXCEPT ![t] = lists]
    /\ want' = [want EXCEPT ![t] = wants] /\ held' = [held EXCEPT ![t] = holds]
    /\ flying' = [flying EXCEPT ![t] = fly] /\ pipe' = [pipe EXCEPT ![t] = p]

Busy(t) == IF pc[t] = "idle" THEN 0 ELSE 1

(* The buffers of a call. *)
Cost(label, lists) ==
    IF label = "idle" THEN 0
    ELSE IF lists[1].kind = "insert" /\ label \notin {"pop", "link"} THEN 2 ELSE 1

Accounts(t, label, lists) ==
    /\ free' \in Nat /\ bg' \in Nat /\ calls' \in 0 .. MaxCalls
    /\ free' + bg' + Cost(label, lists) = free + bg + Cost(pc[t], list[t])
    /\ bg' + (IF label = "idle" THEN 0 ELSE 1) + calls <= bg + Busy(t) + calls'

LocksInOrder == locks \in [DOMAIN locks -> LockSet] /\ LocksExact

(* What the invariant says of thread t.                                     *)
Here(t) ==
    /\ TypesOK /\ LocksInOrder
    /\ ListsAt(pc[t], list[t]) /\ WantsAt(pc[t], want[t], held[t])
    /\ FlyingAt(pc[t], list[t], want[t], held[t], flying[t], pipe[t])
    /\ pc[t] \in Labels /\ list[t] \in Seq(ListSet) /\ want[t] \in Seq(Keys)
    /\ held[t] \in SUBSET Keys
    /\ free \in Nat /\ bg \in Nat /\ calls \in 0 .. MaxCalls

(* A function is unchanged when it keeps its value for t. *)
Same(f, t) == f = [f EXCEPT ![t] = f[t]]

(* The rounds of beam_search, filter_beam_search, page_search and           *)
(* insert_in_place.                                                         *)
RoundKinds == {"beam", "page", "filter", "insert"}

-----------------------------------------------------------------------------
(* The fixed point of a search.  An id is done when its record has been     *)
(* expanded and its neighbours met.                                         *)
Done(c, n) == n \in Expanded(c) /\ ToSet(Graph[n]) \subseteq c.seen

(* What a round leaves alone while it expands records: the entries before   *)
(* nk, and what is done.                                                    *)
Ahead(c, x) ==
    /\ x.k = c.k /\ x.front = c.front /\ x.pages = c.pages /\ x.snap = c.snap
    /\ x.nk <= c.nk /\ \A i \in 1 .. x.nk : x.pool[i] = c.pool[i]
    /\ c.seen \subseteq x.seen /\ Expanded(c) \subseteq Expanded(x)

Along(c) == { x \in From(c) : Ahead(c, x) }

(* The records on the pages of ids. *)
OnPages(ids) == {m \in Nodes : \E j \in DOMAIN ids : Page[m] = Page[ids[j]]}

(* Between two rounds: what lies before k is done, and so is every entry    *)
(* that has been read; a page search still owes the rest of the pages it    *)
(* read last.                                                               *)
Rest(c) ==
    /\ \A i \in 1 .. c.k : Done(c, c.pool[i].id)
    /\ \A i \in DOMAIN c.pool : ~c.pool[i].flag => Done(c, c.pool[i].id)
    /\ c.kind = "page" =>
         /\ \A i \in DOMAIN c.snap : Done(c, c.snap[i])
         /\ \A m \in Nodes : Page[m] \in c.pages => Done(c, m) \/ m \in OnPages(c.snap)

(* While a beam is read: the beam will be done, and with it the entry at k. *)
Picked(c) ==
    /\ \A i \in 1 .. c.k : Done(c, c.pool[i].id)
    /\ \A i \in DOMAIN c.pool :
           ~c.pool[i].flag => Done(c, c.pool[i].id) \/ c.pool[i].id \in ToSet(c.front)
    /\ c.k < Len(c.pool) => \/ Done(c, c.pool[c.k + 1].id)
                            \/ c.pool[c.k + 1].id \in ToSet(c.front)
                            \/ c.kind = "page" /\ c.pool[c.k + 1].id \in OnPages(c.snap)
    /\ c.kind = "page" =>
         /\ \A i \in DOMAIN c.snap : Done(c, c.snap[i])
         /\ \A m \in Nodes : Page[m] \in c.pages =>
              Done(c, m) \/ m \in OnPages(c.snap) \/ m \in OnPages(c.front)

(* The beam as it stands once i entries have been considered.               *)
Picking(c, i, z) ==
    /\ z.k = c.k /\ z.snap = c.snap /\ z.full = c.full /\ z.computed = c.computed
    /\ \A j \in DOMAIN c.pool :
           ~z.pool[j].flag => ~c.pool[j].flag \/ c.pool[j].id \in ToSet(z.front)
    /\ \A p \in z.pages : p \in c.pages \/ \E n \in ToSet(z.front) : Page[n] = p
    /\ i <= c.k => z.front = << >> /\ z.pages = c.pages
    /\ i > c.k => \/ ~c.pool[c.k + 1].flag
                  \/ c.pool[c.k + 1].id \in ToSet(z.front)
                  \/ c.kind = "page" /\ Page[c.pool[c.k + 1].id] \in c.pages

AllDone(c) == \A i \in DOMAIN c.pool : Done(c, c.pool[i].id)

(* In a pipe search, where the entries that were expanded are marked.       *)
Visited(c) == \A i \in DOMAIN c.pool : c.pool[i].done => Done(c, c.pool[i].id)

(* A list as it begins.                                                     *)
Fresh(c) ==
    /\ c.k = 0 /\ c.pages = {} /\ c.snap = << >>
    /\ \A i \in DOMAIN c.pool : c.pool[i].flag /\ ~c.pool[i].done

(* What a search has reached, by where it is. *)
Resting == {"pop", "search", "prefill", "prefill_read"}

FixOf(label, c) ==
    /\ label \in Resting => Rest(c)
    /\ label = "explore" => Picked(c) /\ ~SearchEnds(c)
    /\ label \in {"refine", "refine_read"} => AllDone(c)
    /\ label \in PipeLabels => Visited(c)
    /\ label = "coro" => IF SearchEnds(c) THEN Rest(c) ELSE Picked(c)

FixInv == \A t \in Threads : \A i \in DOMAIN list[t] : FixOf(pc[t], list[t][i])

(* A step that touches neither the entries nor what was met.                *)
Alike(c, x) ==
    /\ x.kind = c.kind /\ x.pool = c.pool /\ x.k = c.k /\ x.pages = c.pages /\ x.snap = c.snap
    /\ x.seen = c.seen /\ Expanded(c) \subseteq Expanded(x)

-----------------------------------------------------------------------------
(* What a filtered search gathers and returns. *)

(* The ids a filtered search has met and may return. *)
Met(c) == { n \in c.seen : Tag[n] \in Candidates }

(* The heap of candidates has the nearest of them by PQ distance, once each. *)
Gathered(c) ==
    /\ Heap(Nodes, c.query.pq, c.cands, RefineCapacity) /\ IsInjective(c.cands)
    /\ ToSet(c.cands) \subseteq Met(c)
    /\ \A n \in Met(c) : Ranks(c.query.pq, c.cands, RefineCapacity, n)

(* The heap of results has the nearest of the candidates whose exact        *)
(* distance is marked as computed, but for those whose reads are due.       *)
Scored(c, due) ==
    /\ Heap(Nodes, c.query.exact, c.heap, KSearch)
    /\ \A n \in ToSet(c.heap) : Tag[n] \in Candidates
    /\ \A n \in c.computed \ due :
          Tag[n] \in Candidates => Ranks(c.query.exact, c.heap, KSearch, n)

Filtered(c) == c.kind = "filter" /\ Gathered(c) /\ Scored(c, {})

(* What filtering looks at is left alone. *)
Aside(c, x) ==
    /\ x.kind = c.kind /\ x.query = c.query /\ x.seen = c.seen /\ x.cands = c.cands
    /\ x.heap = c.heap /\ x.computed = c.computed /\ x.full = c.full

(* A batch is pushed: each of its ids ranks, and what ranked still does.    *)
Merged(d, heap, seq, x) ==
    /\ Heap(Nodes, d, x, KSearch) /\ ToSet(x) \subseteq ToSet(heap) \cup ToSet(seq)
    /\ \A q \in Nodes : q \in ToSet(seq) \/ Ranks(d, heap, KSearch, q) => Ranks(d, x, KSearch, q)

(* The ids to prefill are taken from the candidate tags: each has a tag     *)
(* that is a candidate when the tag of an id can be looked up under itself. *)
CandidateTags == \A n \in Candidates : Tag[n] \in Candidates

(* The reads of the ids in due are still to be made. *)
Due(c, due) == Scored(c, due) /\ \A n \in due : Tag[n] \in Candidates

(* A candidate that was met is marked as computed, or refine_capacity of    *)
(* them are no farther by PQ distance.                                      *)
NearerMet(c, n) == { m \in Met(c) : c.query.pq[m] <= c.query.pq[n] }

Weighed(c) == \A n \in Met(c) : n \in c.computed \/ Cardinality(NearerMet(c, n)) > RefineCapacity

Gathering == {"prefill", "prefill_read", "search", "explore"}

Refining == {"refine", "refine_read"}

DueAt(label, c) ==
    IF label \in {"search", "explore"} THEN {}
    ELSE IF label \in {"prefill", "refine"} THEN ToSet(c.batch)
    ELSE ToSet(c.batch) \cup ToSet(c.front)

FilterAt(label, c) ==
    c.kind = "filter" =>
        /\ label \in Gathering => Gathered(c)
        /\ label \in Gathering \cup Refining => Due(c, DueAt(label, c))
        /\ label \in Refining => Weighed(c)

FilterInv == \A t \in Threads : FilterAt(pc[t], list[t][1])

Elsewhere == {"idle", "coro", "pop", "link"} \cup PipeLabels

(* No other step touches a list of a filtered search.                       *)
Leaves(t) ==
    \E label \in Elsewhere : \E lists : Goto(t, label) /\ list' = [list EXCEPT ![t] = lists]

-----------------------------------------------------------------------------
(* The pages that a pipe search computes its records from.                 *)

(* What lies before an entry of the list and has been expanded. *)
DoneBefore(pool, j) == { pool[k].id : k \in { l \in 1 .. j - 1 : pool[l].done } }

(* An entry of x is one of c with no less before it, or was not met before. *)
Behind(c, x) ==
    \A i \in DOMAIN x.pool :
        \/ x.pool[i].id \notin c.seen
        \/ \E j \in DOMAIN c.pool :
              x.pool[i] = c.pool[j] /\ DoneBefore(c.pool, j) \subseteq DoneBefore(x.pool, i)

(* Each record was computed from its page. *)
OwnFull(c) == \A j \in DOMAIN c.full : c.full[j][2] = Page[c.full[j][1]]

Later(c) == { x \in From(c) : Behind(c, x) /\ x.full = c.full }

(* How many buffers were taken from the ring after slot was.                *)
Age(slot, next) == IF slot < next THEN (next - 1) - slot ELSE ((next - 1) - slot) + MaxReads

After(next) == (next + 1) % MaxReads

Slots == 0 .. MaxReads - 1

(* What keeps the pages in the ring while they are needed: the reads in     *)
(* flight are the last ones sent, in order, and an entry of the list that   *)
(* was read and not yet expanded was read no longer ago than one width, and *)
(* one more for each entry before it that was expanded.                     *)
Room(label, n, p) ==
    /\ LSearch + p.width <= MaxReads
    /\ p.quota >= 0 /\ n + p.quota <= p.width
    /\ label \in Submitting => p.quota >= 1

Aged(fly, p) ==
    \A i \in DOMAIN fly :
        /\ Age(fly[i].slot, p.next) = Len(fly) - i
        /\ fly[i].fin => p.onPage[fly[i].slot] = Page[fly[i].id]

Ready(c, p, j) == c.pool[j].id \in DOMAIN p.slotOf /\ ~c.pool[j].done

LandedAt(pool, id, j, n, p, slack) ==
    /\ p.onPage[p.slotOf[id]] = Page[id]
    /\ n <= Age(p.slotOf[id], p.next)
    /\ Age(p.slotOf[id], p.next) + slack <= p.width + Cardinality(DoneBefore(pool, j))

Landed(c, n, p, slack) ==
    \A j \in DOMAIN c.pool : Ready(c, p, j) => LandedAt(c.pool, c.pool[j].id, j, n, p, slack)

(* The reads that are sent before the next entry is expanded. *)
Slack(label, p) ==
    IF label \in {"send", "submit"} THEN p.quota ELSE IF label = "poll" THEN 1 ELSE 0

RingAt(c, fly, p, label) ==
    /\ Room(label, Len(fly), p) /\ Aged(fly, p)
    /\ label \in {"first_send", "first_submit"} => DOMAIN p.slotOf = {}
    /\ Landed(c, Len(fly), p, Slack(label, p))

(* The queue cut in two: what is harvested, and the rest. *)
Cut(fly, m, in, rest) ==
    /\ DOMAIN in = 1 .. m /\ \A i \in 1 .. m : in[i] = fly[i] /\ fly[i].fin
    /\ DOMAIN rest = 1 .. Len(fly) - m /\ Len(rest) = Len(fly) - m
    /\ \A i \in 1 .. Len(fly) - m : rest[i] = fly[m + i]

(* Where the pages are, with those of the reads harvested. *)
SlotsWith(p, in) ==
    [id \in DOMAIN p.slotOf \cup {in[i].id : i \in DOMAIN in} |->
        IF id \in DOMAIN p.slotOf THEN p.slotOf[id]
        ELSE in[CHOOSE i \in DOMAIN in : in[i].id = id].slot]

(* Every record was computed from its own page, and the ring of a pipe      *)
(* search holds the pages it still needs.                                   *)
OwnAt(label, lists, fly, p) ==
    /\ \A i \in DOMAIN lists : OwnFull(lists[i])
    /\ label \in PipeLabels => RingAt(lists[1], fly, p, label)

OwnInv == \A t \in Threads : OwnAt(pc[t], list[t], flying[t], pipe[t])

(* MAX_N_SECTOR_READS buffers suffice for l_search entries and a width that *)
(* starts at StartWidth and grows up to the beam (query_buf.h:6).           *)
RingSuffices == LSearch + StartWidth <= MaxReads /\ LSearch + Beam <= MaxReads

(* The reads and the ring of the other threads stay as they are. *)
Others(t) == \A u \in Threads \ {t} : flying'[u] = flying[u] /\ pipe'[u] = pipe[u]
=============================================================================
