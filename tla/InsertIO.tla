------------------------------ MODULE InsertIO ------------------------------
(***************************************************************************)
(* InsertPath together with what the pages hold: the index file on disk,   *)
(* the reference-counted user-space page cache between the inserts and the *)
(* file (v2::PageCache, read_alloc, wbc_write, deref), and the buffers the *)
(* inserts build their pages in.                                           *)
(*                                                                         *)
(* A record is the id whose vector it carries and the set of targets that  *)
(* have been linked into its neighbour list since the index was loaded.    *)
(* Garbage is whatever a slot or a buffer holds that no insert put there.  *)
(***************************************************************************)
EXTENDS InsertPath, Functions

CONSTANT Garbage

ASSUME GarbageAssumption == Garbage \notin [id : Ids, links : SUBSET Inserts]

VARIABLES
    disk,      \* the index file: page -> slot -> record
    cache,     \* v2::cache: page -> [buf, ref_cnt], on the cached pages only
    pageRef,   \* page_ref of each insert: page -> number of references
    searchBuf, \* the page a search is reading: page, contents, where from
    readBuf,   \* update_buf: the pages read for the rewrite
    missing,   \* the pages of read_alloc that the cache did not have
    writeBuf   \* update_buf: the pages to write (writes, BgTask.writes)

ioVars  == <<disk, cache, pageRef, searchBuf, readBuf, missing, writeBuf>>
allVars == <<vars, ioVars>>

Rec(id, links) == [id |-> id, links |-> links]

GarbagePage == [ s \in Slots |-> Garbage ]

(* What the file returns for a page: pages past its end are Garbage. *)
OnDisk(p) == IF p \in DOMAIN disk THEN disk[p] ELSE GarbagePage

NoSearch == [page |-> 0, from |-> "none", buf |-> GarbagePage]

-----------------------------------------------------------------------------
(* v2::PageCache on the cache value c; refs says how often each page is     *)
(* asked for.  get takes the references of a cached page; put overwrites    *)
(* the contents, cached or not, and takes them; deref drops the page with   *)
(* its last reference and ignores a page that is not there.                 *)
NoPages == [ p \in {} |-> 0 ]

Get(c, refs) ==
    [ p \in DOMAIN c |->
        IF p \in DOMAIN refs THEN [c[p] EXCEPT !.ref_cnt = @ + refs[p]] ELSE c[p] ]

Put(c, pages, refs) ==
    [ p \in DOMAIN c \cup DOMAIN pages |->
        IF p \notin DOMAIN pages THEN c[p]
        ELSE [ buf |-> pages[p],
               ref_cnt |-> (IF p \in DOMAIN c THEN c[p].ref_cnt ELSE 0) + refs[p] ] ]

Deref(c, refs) ==
    [ p \in { q \in DOMAIN c : q \in DOMAIN refs => c[q].ref_cnt > refs[q] } |->
        IF p \in DOMAIN refs THEN [c[p] EXCEPT !.ref_cnt = @ - refs[p]] ELSE c[p] ]

Once(ps) == [ p \in ps |-> 1 ]

(* page_ref after more pages have been appended to it. *)
AddRefs(a, b) ==
    [ p \in DOMAIN a \cup DOMAIN b |->
        (IF p \in DOMAIN a THEN a[p] ELSE 0) + (IF p \in DOMAIN b THEN b[p] ELSE 0) ]

-----------------------------------------------------------------------------
(* The shadow copy of the index file, freshly opened; the cache is empty. *)
IOInit ==
    /\ Init
    /\ disk = [ p \in DOMAIN layout |->
                  [ s \in Slots |-> IF layout[p][s] \in Ids THEN Rec(layout[p][s], {}) ELSE Garbage ] ]
    /\ cache = NoPages
    /\ pageRef = [ i \in Inserts |-> NoPages ]
    /\ searchBuf = [ i \in Inserts |-> NoSearch ]
    /\ readBuf = [ i \in Inserts |-> NoPages ]
    /\ missing = [ i \in Inserts |-> NoPages ]
    /\ writeBuf = [ i \in Inserts |-> NoPages ]

(* read_alloc of the page of a searched id, first part: look in the cache. *)
IOSearchLock(i, id) ==
    /\ SearchLock(i, id)
    /\ LET p == id2loc[id][1]
       IN  IF p \in DOMAIN cache
           THEN /\ cache' = Get(cache, Once({p}))
                /\ searchBuf' = [searchBuf EXCEPT ![i] =
                                   [page |-> p, from |-> "cache", buf |-> cache[p].buf]]
           ELSE /\ searchBuf' = [searchBuf EXCEPT ![i] =
                                   [page |-> p, from |-> "miss", buf |-> GarbagePage]]
                /\ UNCHANGED cache
    /\ UNCHANGED <<disk, pageRef, readBuf, missing, writeBuf>>

(* Second part, on a miss: the disk read. *)
IOSearchFetch(i) ==
    /\ searchBuf[i].from = "miss"
    /\ searchBuf' = [searchBuf EXCEPT ![i].from = "disk", ![i].buf = OnDisk(searchBuf[i].page)]
    /\ UNCHANGED <<vars, disk, cache, pageRef, readBuf, missing, writeBuf>>

(* Third part: what came from disk is put into the cache; page_ref; unlock. *)
IOSearchUnlock(i) ==
    /\ SearchUnlock(i)
    /\ searchBuf[i].from \in {"cache", "disk"}
    /\ cache' = IF searchBuf[i].from = "disk"
                THEN Put(cache, [ p \in {searchBuf[i].page} |-> searchBuf[i].buf ],
                         Once({searchBuf[i].page}))
                ELSE cache
    /\ pageRef' = [pageRef EXCEPT ![i] = AddRefs(@, Once({searchBuf[i].page}))]
    /\ searchBuf' = [searchBuf EXCEPT ![i] = NoSearch]
    /\ UNCHANGED <<disk, readBuf, missing, writeBuf>>

-----------------------------------------------------------------------------
(* The requests of the insert's read_alloc: one per neighbour and one per   *)
(* page of pages_need_to_read.                                              *)
NbrsOn(i, p) == { k \in DOMAIN nhood[i] : id2loc[nhood[i][k]][1] = p }

ReadReqs(i) ==
    [ p \in needRead[i] \cup { id2loc[nhood[i][k]][1] : k \in DOMAIN nhood[i] } |->
        Cardinality(NbrsOn(i, p)) + (IF p \in needRead[i] THEN 1 ELSE 0) ]

(* read_alloc, first part: the cached pages. *)
IOReadPages(i) ==
    /\ ReadPages(i)
    /\ LET reqs == ReadReqs(i)
       IN  /\ readBuf' = [readBuf EXCEPT ![i] =
                            [ p \in DOMAIN reqs \cap DOMAIN cache |-> cache[p].buf ]]
           /\ missing' = [missing EXCEPT ![i] =
                            [ p \in DOMAIN reqs \ DOMAIN cache |-> reqs[p] ]]
           /\ cache' = Get(cache, reqs)
           /\ pageRef' = [pageRef EXCEPT ![i] = AddRefs(@, reqs)]
    /\ UNCHANGED <<disk, searchBuf, writeBuf>>

(* Second part: the disk reads of the pages that were missing. *)
IOFetch(i) ==
    /\ pc[i] = "write"
    /\ DOMAIN missing[i] \ DOMAIN readBuf[i] # {}
    /\ readBuf' = [readBuf EXCEPT ![i] =
                     [ p \in DOMAIN @ \cup DOMAIN missing[i] |->
                         IF p \in DOMAIN missing[i] THEN OnDisk(p) ELSE @[p] ]]
    /\ UNCHANGED <<vars, disk, cache, pageRef, searchBuf, missing, writeBuf>>

(* Third part: they are put into the cache. *)
IOFill(i) ==
    /\ DOMAIN missing[i] # {}
    /\ DOMAIN missing[i] \subseteq DOMAIN readBuf[i]
    /\ cache' = Put(cache, [ p \in DOMAIN missing[i] |-> readBuf[i][p] ], missing[i])
    /\ missing' = [missing EXCEPT ![i] = NoPages]
    /\ UNCHANGED <<vars, disk, pageRef, searchBuf, readBuf, writeBuf>>

(* page_buf_map: the buffer of a page to write shadows the one a neighbour  *)
(* on it was read into, and is read only for pages_need_to_read.            *)
PageBuf(i, p) ==
    IF p \in DOMAIN readBuf[i] /\ (p \in PagesOf(locs[i]) => p \in needRead[i])
    THEN readBuf[i][p] ELSE GarbagePage

(* The neighbour's record with the target appended (pruning drops links for *)
(* reasons of distance only, so it is left out).                            *)
Linked(i, k) ==
    LET r == PageBuf(i, nbrLoc[i][k][1])[nbrLoc[i][k][2]]
    IN  IF r = Garbage THEN Garbage ELSE [r EXCEPT !.links = @ \cup {i}]

NewRecord(i, k) ==
    IF k <= Len(nhood[i]) THEN Linked(i, k) ELSE Rec(i, {})

NewPages(i) ==
    [ p \in PagesOf(locs[i]) |->
        [ s \in Slots |->
            IF <<p, s>> \in Elems(locs[i])
            THEN NewRecord(i, CHOOSE k \in DOMAIN locs[i] : locs[i][k] = <<p, s>>)
            ELSE PageBuf(i, p)[s] ] ]

(* The rewrite of the records, and wbc_write. *)
IOWritePages(i) ==
    /\ WritePages(i)
    /\ missing[i] = NoPages
    /\ writeBuf' = [writeBuf EXCEPT ![i] = NewPages(i)]
    /\ cache' = Put(cache, NewPages(i), Once(PagesOf(locs[i])))
    /\ readBuf' = [readBuf EXCEPT ![i] = NoPages]
    /\ UNCHANGED <<disk, pageRef, searchBuf, missing>>

(* Mutant of IOReturn: the references are forgotten, not dropped. *)
IOReturnLeaking(i) ==
    /\ Return(i)
    /\ pageRef' = [pageRef EXCEPT ![i] = NoPages]
    /\ UNCHANGED <<disk, cache, searchBuf, readBuf, missing, writeBuf>>

(* deref(page_ref) before the call returns. *)
IOReturn(i) ==
    /\ Return(i)
    /\ cache' = Deref(cache, pageRef[i])
    /\ pageRef' = [pageRef EXCEPT ![i] = NoPages]
    /\ UNCHANGED <<disk, searchBuf, readBuf, missing, writeBuf>>

(* reader->write of the task's pages. *)
IOBgWrite ==
    /\ BgWrite
    /\ disk' = [ p \in DOMAIN disk \cup DOMAIN writeBuf[bgTask'] |->
                   IF p \in DOMAIN writeBuf[bgTask'] THEN writeBuf[bgTask'][p] ELSE disk[p] ]
    /\ UNCHANGED <<cache, pageRef, searchBuf, readBuf, missing, writeBuf>>

(* unlockReqs, deref(pages_to_deref), push_query_buf. *)
IOBgFinish ==
    /\ BgFinish
    /\ cache' = Deref(cache, Once(DOMAIN writeBuf[bgTask]))
    /\ writeBuf' = [writeBuf EXCEPT ![bgTask] = NoPages]
    /\ UNCHANGED <<disk, pageRef, searchBuf, readBuf, missing>>

(* Steps that touch no page. *)
IOLocal(i) ==
    /\ \/ Begin(i)
       \/ AllocLoc(i)
       \/ \E p \in DOMAIN layout : LockPage(i, p)
       \/ \E id \in Ids : LockVec(i, id)
       \/ \E id \in Ids : LockIdx(i, id)
       \/ UpdateId2Loc(i)
       \/ EraseAndSetLoc(i)
       \/ UnlockVec(i)
       \/ Commit(i)
    /\ UNCHANGED ioVars

IOInsert(i) ==
    \/ IOLocal(i)
    \/ \E id \in Ids : IOSearchLock(i, id)
    \/ IOSearchFetch(i)
    \/ IOSearchUnlock(i)
    \/ IOReadPages(i)
    \/ IOFetch(i)
    \/ IOFill(i)
    \/ IOWritePages(i)
    \/ IOReturn(i)

IONext ==
    \/ \E i \in Inserts : IOInsert(i)
    \/ IOBgWrite
    \/ IOBgFinish
    \/ Finished /\ UNCHANGED ioVars

IOSpec == IOInit /\ [][IONext]_allVars

-----------------------------------------------------------------------------
Records == [id : Ids, links : SUBSET Inserts] \cup {Garbage}

PageContents == [Slots -> Records]

(* Type invariant: buffers hold records of their slots, counts are positive. *)
IOTypeOK ==
    /\ \A p \in DOMAIN disk : disk[p] \in PageContents
    /\ \A p \in DOMAIN cache : cache[p] \in [buf : PageContents, ref_cnt : Nat \ {0}]
    /\ DOMAIN pageRef = Inserts /\ DOMAIN searchBuf = Inserts /\ DOMAIN readBuf = Inserts
    /\ DOMAIN missing = Inserts /\ DOMAIN writeBuf = Inserts
    /\ \A i \in Inserts :
         /\ \A p \in DOMAIN pageRef[i] : pageRef[i][p] \in Nat \ {0}
         /\ searchBuf[i] \in [page : Nat, from : {"none", "miss", "disk", "cache"},
                              buf : PageContents]
         /\ \A p \in DOMAIN readBuf[i] : readBuf[i][p] \in PageContents
         /\ \A p \in DOMAIN writeBuf[i] : writeBuf[i][p] \in PageContents

(* When the buffers are in use: a page that read_alloc missed is referenced *)
(* as often as it will be put, before the rewrite; the pages to write stay  *)
(* from wbc_write on; a search holds its page exactly while it holds the    *)
(* mapping.                                                                 *)
BufferPhases ==
    \A i \in Inserts :
        /\ DOMAIN missing[i] # {} => pc[i] = "write"
        /\ \A p \in DOMAIN missing[i] :
              p \in DOMAIN pageRef[i] /\ missing[i][p] \in 1 .. pageRef[i][p]
        /\ DOMAIN writeBuf[i] # {} =>
              pc[i] \in {"locki", "update", "layout", "unlockv", "commit", "deref", "done"}
        /\ searchBuf[i].from = "none" <=> idxRd[i] = {}
        /\ idxRd[i] # {} => pc[i] = "search"
        /\ pc[i] = "write" => Len(nbrLoc[i]) = Len(nhood[i])

(* What a read of the page sees now. *)
Seen(p) == IF p \in DOMAIN cache THEN cache[p].buf ELSE OnDisk(p)

SeenRec(l) == Seen(l[1])[l[2]]

Count(refs, p) == IF p \in DOMAIN refs THEN refs[p] ELSE 0

(* The references to page p that insert i still has to drop: those of      *)
(* page_ref that were taken, of its search when it has not recorded its own *)
(* yet, and of its write.                                                   *)
Holds(i, p) ==
    Count(pageRef[i], p) - Count(missing[i], p) + Count(Once(DOMAIN writeBuf[i]), p)
        + (IF searchBuf[i].from = "cache" /\ searchBuf[i].page = p THEN 1 ELSE 0)

Outstanding(p) == SumFunction([ i \in Inserts |-> Holds(i, p) ])

(* ref_cnt counts exactly the references that are still to be dropped: a    *)
(* page never leaves the cache before its last user (the background write   *)
(* included) is done, and none stays for ever.                              *)
RefCountsExact ==
    /\ \A p \in DOMAIN cache : cache[p].ref_cnt = Outstanding(p)
    /\ \A p \in (DOMAIN layout) \ DOMAIN cache : Outstanding(p) = 0

(* The buffers are typed and in use when they should be, and the references *)
(* to cached pages are exact.                                               *)
IOInv == IOTypeOK /\ BufferPhases /\ RefCountsExact

(* The targets that have relocated the record of id. *)
LinksOf(id) ==
    { i \in Inserts : id \in Elems(nhood[i])
                        /\ pc[i] \in {"layout", "unlockv", "commit", "deref", "done"} }

(* What the index promises of a record: a search that looks it up finds the *)
(* vector of that id, linked to every target it became a neighbour of.      *)
RecordsReadable ==
    \A id \in PlacedIds :
        (\A j \in Inserts : ~Moving(j, id)) => SeenRec(id2loc[id]) = Rec(id, LinksOf(id))

(* "ensure that disk has a consistent state": when all inserts are done and *)
(* written back, the file holds every record.                               *)
DiskConsistent ==
    Quiescent => \A id \in PlacedIds :
        OnDisk(id2loc[id][1])[id2loc[id][2]] = Rec(id, LinksOf(id))
=============================================================================
