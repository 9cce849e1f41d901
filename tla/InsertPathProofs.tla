-------------------------- MODULE InsertPathProofs --------------------------
(***************************************************************************)
(* Proofs about InsertPath and InsertIO, for any number of points,         *)
(* inserts, threads and slots per sector.                                  *)
(***************************************************************************)
EXTENDS MCInsertIO, ListProofs, TLAPS

-----------------------------------------------------------------------------
(* Steps that leave the maps alone. *)

(* The step changes neither the maps nor the neighbour and slot lists, and  *)
(* crosses none of the program points at which the map invariants change    *)
(* their reading of an insert.                                              *)
MapFrame ==
    /\ UNCHANGED <<id2loc, layout, emptyPages, curPage, nhood, locs>>
    /\ \A i \in Inserts :
         /\ Reserving(i)' <=> Reserving(i)
         /\ i \in PlacedIds' <=> i \in PlacedIds
         /\ pc'[i] = "layout" <=> pc[i] = "layout"
         /\ pc'[i] \in {"locki", "update"} => pc[i] \in {"locki", "update"}
         /\ pc[i] = "layout" => nbrLoc'[i] = nbrLoc[i]
         /\ visited'[i] \cup idxRd'[i] \subseteq PlacedIds

(* Such a step keeps IInv when it keeps the types and the index locks.      *)
LEMMA FrameKeepsIInv ==
    ASSUME IInv, MapFrame, TypeOK', IdxLocked'
    PROVE  IInv'
<1> USE DEF IInv
<1>1. PlacedIds' = PlacedIds
  BY DEF MapFrame, PlacedIds
<1>2. \A j \in Inserts : \A id : Moving(j, id)' <=> Moving(j, id)
  BY DEF MapFrame, Moving
<1>3. Id2LocConsistent'
  BY <1>1, <1>2 DEF MapFrame, Id2LocConsistent, loc2id
<1>4. Loc2IdExact'
  BY <1>1, <1>2 DEF MapFrame, Loc2IdExact, loc2id
<1>5. EmptyPagesExact'
  BY DEF MapFrame, EmptyPagesExact, IsEmptyPage
<1>6. ReservationsExact'
  BY DEF MapFrame, ReservationsExact, loc2id
<1>7. WorkShape'
  BY <1>1 DEF MapFrame, WorkShape
<1>8. HalfMoved'
  BY DEF MapFrame, HalfMoved, loc2id
<1>9. QED
  BY <1>3, <1>4, <1>5, <1>6, <1>7, <1>8

(* A placed id always has a location in id2loc_, even while it is moved.    *)
LEMMA PlacedHasLoc ==
    ASSUME IInv, NEW id \in PlacedIds
    PROVE  id \in Ids /\ id2loc[id] \in Locs
<1>1. id \in Ids
  BY NumAssumption DEF PlacedIds, Inserts, Ids
<1>2. CASE \A j \in Inserts : ~Moving(j, id)
  BY <1>1, <1>2 DEF IInv, Id2LocConsistent, TypeOK
<1>3. ASSUME NEW j \in Inserts, Moving(j, id)
      PROVE  id2loc[id] \in Locs
  <2>1. PICK k \in DOMAIN nhood[j] : nhood[j][k] = id
    BY <1>3 DEF Moving, Elems
  <2>2. pc[j] = "layout" /\ Reserving(j)
    BY <1>3 DEF Moving, Reserving
  <2>3. nhood[j] \in Seq(Ids) /\ locs[j] \in Seq(Locs) /\ Len(locs[j]) = Len(nhood[j]) + 1
    BY <2>2 DEF IInv, TypeOK, WorkShape
  <2>4. locs[j][k] \in Locs
    BY <2>1, <2>3
  <2>5. QED
    BY <2>1, <2>2, <2>4 DEF IInv, HalfMoved
<1>4. QED
  BY <1>1, <1>2, <1>3

(* IInv is kept when cur_id is drawn. *)
LEMMA BeginKeeps ==
    ASSUME IInv, NEW i \in Inserts, Begin(i)
    PROVE  IInv'
<1> USE DEF IInv, mapVars, workVars, lockVars, bgVars
<1>1. /\ pc \in [Inserts -> Labels] /\ pc' \in [Inserts -> Labels]
      /\ \A j \in Inserts : j # i => pc'[j] = pc[j]
      /\ pc[i] = "idle" /\ pc'[i] = "search"
  BY DEF Begin, Goto, TypeOK, Labels
<1>2. UNCHANGED <<id2loc, layout, emptyPages, curPage, workVars, lockVars, bgVars>>
  BY DEF Begin
<1>3. MapFrame
  BY <1>1, <1>2 DEF MapFrame, Reserving, PlacedIds, WorkShape
<1>4. TypeOK'
  <2>1. curId' \in NumPoints .. NumPoints + NumInserts
    BY NumAssumption DEF Begin, Inserts
  <2>2. QED
    BY <1>1, <1>2, <2>1 DEF TypeOK
<1>5. IdxLocked'
  BY <1>1, <1>2 DEF IdxLocked, ToLock
<1>6. QED
  BY <1>3, <1>4, <1>5, FrameKeepsIInv

(* An id that a search can reach and that no insert has write-locked is     *)
(* placed, and id2loc_ has its location.                                    *)
LEMMA UnlockedIsPlaced ==
    ASSUME IInv, NEW id \in LinkedIds, \A j \in Inserts : id \notin idxWr[j]
    PROVE  id \in PlacedIds /\ id2loc[id] \in Locs
<1>1. \A j \in Inserts : pc[j] = "layout" => id # j
  BY DEF IInv, IdxLocked, ToLock
<1>2. id \in PlacedIds
  BY <1>1 DEF LinkedIds, PlacedIds
<1>3. QED
  BY <1>2, PlacedHasLoc

(* IInv is kept when a search read-locks an id. *)
LEMMA SearchLockKeeps ==
    ASSUME IInv, NEW i \in Inserts, NEW id \in Ids, SearchLock(i, id)
    PROVE  IInv'
<1> USE DEF IInv, mapVars, workVars, lockVars, bgVars
<1>1. pc \in [Inserts -> Labels] /\ pc' = pc /\ pc[i] = "search"
  BY DEF SearchLock, TypeOK
<1>2. UNCHANGED <<mapVars, nhood, locs, nbrLoc, needRead, pageHeld, vecGot, vecLock,
                  unlocked, idxWr, bgVars>>
  BY DEF SearchLock
<1>a. id \in PlacedIds /\ id2loc[id] \in Locs
  BY UnlockedIsPlaced DEF SearchLock
<1>b. /\ \A j \in Inserts : j # i => visited'[j] = visited[j] /\ idxRd'[j] = idxRd[j]
      /\ visited'[i] = visited[i] \cup {id} /\ idxRd'[i] = {id}
      /\ \A j \in Inserts : id \notin idxWr[j]
  BY DEF SearchLock, TypeOK
<1>3. MapFrame
  <2>1. \A j \in Inserts : visited'[j] \cup idxRd'[j] \subseteq PlacedIds
    BY <1>a, <1>b DEF WorkShape
  <2>2. QED
    BY <1>1, <1>2, <2>1 DEF MapFrame, Reserving, PlacedIds
<1>4. TypeOK'
  <2>1. hints' \in [Inserts -> Seq(Nat)]
    <3>1. id2loc[id][1] \in Nat /\ hints[i] \in Seq(Nat)
      BY <1>a DEF TypeOK, Locs
    <3>2. Append(hints[i], id2loc[id][1]) \in Seq(Nat)
      BY <3>1
    <3>3. QED
      BY <3>1, <3>2 DEF SearchLock, TypeOK
  <2>2. visited' \in [Inserts -> SUBSET Ids] /\ idxRd' \in [Inserts -> SUBSET Ids]
    BY DEF SearchLock, TypeOK
  <2>3. QED
    BY <1>1, <1>2, <2>1, <2>2 DEF TypeOK
<1>5. IdxLocked'
  <2>1. \A j, k \in Inserts : idxRd'[j] \cap idxWr[k] = {}
    BY <1>b DEF IdxLocked
  <2>2. QED
    BY <1>1, <1>2, <2>1 DEF IdxLocked, ToLock
<1>6. QED
  BY <1>3, <1>4, <1>5, FrameKeepsIInv

(* IInv is kept when the search lets go of it. *)
LEMMA SearchUnlockKeeps ==
    ASSUME IInv, NEW i \in Inserts, SearchUnlock(i)
    PROVE  IInv'
<1> USE DEF IInv, mapVars, workVars, lockVars, bgVars
<1>1. pc \in [Inserts -> Labels] /\ pc' = pc
  BY DEF SearchUnlock, TypeOK
<1>2. UNCHANGED <<mapVars, workVars, pageHeld, vecGot, vecLock, unlocked, idxWr, bgVars>>
  BY DEF SearchUnlock
<1>b. \A j \in Inserts : idxRd'[j] \subseteq idxRd[j]
  BY DEF SearchUnlock, TypeOK
<1>3. MapFrame
  BY <1>1, <1>2, <1>b DEF MapFrame, Reserving, PlacedIds, WorkShape
<1>4. TypeOK'
  <2>1. idxRd' \in [Inserts -> SUBSET Ids]
    BY DEF SearchUnlock, TypeOK
  <2>2. QED
    BY <1>1, <1>2, <2>1 DEF TypeOK
<1>5. IdxLocked'
  BY <1>1, <1>2, <1>b DEF IdxLocked, ToLock
<1>6. QED
  BY <1>3, <1>4, <1>5, FrameKeepsIInv

(* IInv is kept when lockReqs takes a page lock. *)
LEMMA LockPageKeeps ==
    ASSUME IInv, NEW i \in Inserts, NEW p \in DOMAIN layout, LockPage(i, p)
    PROVE  IInv'
<1> USE DEF IInv, mapVars, workVars, lockVars, bgVars
<1>1. /\ pc \in [Inserts -> Labels] /\ pc' \in [Inserts -> Labels]
      /\ \A j \in Inserts : j # i => pc'[j] = pc[j]
      /\ pc[i] = "lockp" /\ pc'[i] \in {"lockp", "lockv"}
  BY DEF LockPage, Goto, TypeOK, Labels
<1>2. UNCHANGED <<mapVars, workVars, vecGot, vecLock, unlocked, idxRd, idxWr, bgVars>>
  BY DEF LockPage
<1>3. MapFrame
  BY <1>1, <1>2 DEF MapFrame, Reserving, PlacedIds, WorkShape
<1>4. TypeOK'
  <2>1. pageHeld' \in [Inserts -> SUBSET Nat]
    BY DEF LockPage, TypeOK
  <2>2. QED
    BY <1>1, <1>2, <2>1 DEF TypeOK
<1>5. IdxLocked'
  BY <1>1, <1>2 DEF IdxLocked, ToLock
<1>6. QED
  BY <1>3, <1>4, <1>5, FrameKeepsIInv

(* IInv is kept when lock_vec takes a vector lock. *)
LEMMA LockVecKeeps ==
    ASSUME IInv, NEW i \in Inserts, NEW id \in Ids, LockVec(i, id)
    PROVE  IInv'
<1> USE DEF IInv, mapVars, workVars, lockVars, bgVars
<1>1. /\ pc \in [Inserts -> Labels] /\ pc' \in [Inserts -> Labels]
      /\ \A j \in Inserts : j # i => pc'[j] = pc[j]
      /\ pc[i] = "lockv" /\ pc'[i] \in {"lockv", "read"}
  BY DEF LockVec, Goto, TypeOK, Labels
<1>2. UNCHANGED <<mapVars, workVars, pageHeld, unlocked, idxRd, idxWr, bgVars>>
  BY DEF LockVec
<1>3. MapFrame
  BY <1>1, <1>2 DEF MapFrame, Reserving, PlacedIds, WorkShape
<1>4. TypeOK'
  <2>1. vecLock' \in [Ids -> Inserts \cup {None}] /\ vecGot' \in [Inserts -> SUBSET Ids]
    BY DEF LockVec, TypeOK
  <2>2. QED
    BY <1>1, <1>2, <2>1 DEF TypeOK
<1>5. IdxLocked'
  BY <1>1, <1>2 DEF IdxLocked, ToLock
<1>6. QED
  BY <1>3, <1>4, <1>5, FrameKeepsIInv

(* IInv is kept when the neighbours' pages are read. *)
LEMMA ReadPagesKeeps ==
    ASSUME IInv, NEW i \in Inserts, ReadPages(i)
    PROVE  IInv'
<1> USE DEF IInv, mapVars, workVars, lockVars, bgVars
<1>1. /\ pc \in [Inserts -> Labels] /\ pc' \in [Inserts -> Labels]
      /\ \A j \in Inserts : j # i => pc'[j] = pc[j]
      /\ pc[i] = "read" /\ pc'[i] = "write"
  BY DEF ReadPages, Goto, TypeOK, Labels
<1>2. UNCHANGED <<mapVars, visited, hints, nhood, locs, needRead, lockVars, bgVars>>
  BY DEF ReadPages
<1>b. \A j \in Inserts : j # i => nbrLoc'[j] = nbrLoc[j]
  BY DEF ReadPages, TypeOK
<1>3. MapFrame
  BY <1>1, <1>2, <1>b DEF MapFrame, Reserving, PlacedIds, WorkShape
<1>4. TypeOK'
  <2>1. nhood[i] \in Seq(Ids) /\ Elems(nhood[i]) \subseteq PlacedIds
    BY <1>1 DEF TypeOK, WorkShape, Reserving
  <2>2. \A k \in 1 .. Len(nhood[i]) : id2loc[nhood[i][k]] \in Locs
    BY <2>1, PlacedHasLoc DEF Elems
  <2>3. [ k \in DOMAIN nhood[i] |-> id2loc[nhood[i][k]] ] \in Seq(Locs)
    BY <2>1, <2>2
  <2>4. nbrLoc' \in [Inserts -> Seq(Locs)]
    BY <2>3 DEF ReadPages, TypeOK
  <2>5. QED
    BY <1>1, <1>2, <2>4 DEF TypeOK
<1>5. IdxLocked'
  BY <1>1, <1>2 DEF IdxLocked, ToLock
<1>6. QED
  BY <1>3, <1>4, <1>5, FrameKeepsIInv

(* IInv is kept when lock_idx takes a mapping lock. *)
LEMMA LockIdxKeeps ==
    ASSUME IInv, NEW i \in Inserts, NEW id \in Ids, LockIdx(i, id)
    PROVE  IInv'
<1> USE DEF IInv, mapVars, workVars, lockVars, bgVars
<1>1. /\ pc \in [Inserts -> Labels] /\ pc' \in [Inserts -> Labels]
      /\ \A j \in Inserts : j # i => pc'[j] = pc[j]
      /\ pc[i] = "locki" /\ pc'[i] \in {"locki", "update"}
      /\ pc'[i] = "update" => ToLock(i) = idxWr[i] \cup {id}
  BY DEF LockIdx, Goto, TypeOK, Labels
<1>2. UNCHANGED <<mapVars, workVars, pageHeld, vecGot, vecLock, unlocked, idxRd, bgVars>>
  BY DEF LockIdx
<1>b. /\ idxWr' \in [Inserts -> SUBSET Ids]
      /\ idxWr'[i] = idxWr[i] \cup {id}
      /\ \A j \in Inserts : j # i => idxWr'[j] = idxWr[j]
      /\ \A j \in Inserts : id \notin idxWr[j] /\ id \notin idxRd[j]
  BY DEF LockIdx, TypeOK
<1>3. MapFrame
  BY <1>1, <1>2 DEF MapFrame, Reserving, PlacedIds, WorkShape
<1>4. TypeOK'
  BY <1>1, <1>2, <1>b DEF TypeOK
<1>5. IdxLocked'
  <2>1. \A j \in Inserts : /\ idxWr'[j] # {} => pc'[j] \in {"locki", "update", "layout"}
                           /\ pc'[j] \in {"update", "layout"} => idxWr'[j] = ToLock(j)'
    BY <1>1, <1>2, <1>b DEF IdxLocked, ToLock
  <2>2. \A j, k \in Inserts : j # k => idxWr'[j] \cap idxWr'[k] = {}
    BY <1>b DEF IdxLocked
  <2>3. \A j, k \in Inserts : idxRd'[j] \cap idxWr'[k] = {}
    BY <1>2, <1>b DEF IdxLocked
  <2>4. QED
    BY <2>1, <2>2, <2>3 DEF IdxLocked
<1>6. QED
  BY <1>3, <1>4, <1>5, FrameKeepsIInv

(* IInv is kept when unlock_vec makes one call. *)
LEMMA UnlockVecKeeps ==
    ASSUME IInv, NEW i \in Inserts, UnlockVec(i)
    PROVE  IInv'
<1> USE DEF IInv, mapVars, workVars, lockVars, bgVars
<1>1. /\ pc \in [Inserts -> Labels] /\ pc' \in [Inserts -> Labels]
      /\ \A j \in Inserts : j # i => pc'[j] = pc[j]
      /\ pc[i] = "unlockv" /\ pc'[i] \in {"unlockv", "commit"}
  <2>1. pc' = pc \/ Goto(i, "commit")
    BY DEF UnlockVec
  <2>2. pc \in [Inserts -> Labels] /\ pc[i] = "unlockv"
    BY DEF UnlockVec, TypeOK
  <2>3. QED
    BY <2>1, <2>2 DEF Goto, Labels
<1>2. UNCHANGED <<mapVars, workVars, pageHeld, idxRd, idxWr, bgVars>>
  BY DEF UnlockVec
<1>3. MapFrame
  BY <1>1, <1>2 DEF MapFrame, Reserving, PlacedIds, WorkShape
<1>4. TypeOK'
  <2>1. vecLock' \in [Ids -> Inserts \cup {None}]
    <3>1. PICK x : vecLock' = [vecLock EXCEPT ![x] = None]
      BY DEF UnlockVec
    <3>2. QED
      BY <3>1 DEF TypeOK
  <2>2. unlocked' \in [Inserts -> Nat]
    BY DEF UnlockVec, TypeOK
  <2>3. vecGot' \in [Inserts -> SUBSET Ids]
    BY DEF UnlockVec, TypeOK
  <2>4. QED
    BY <1>1, <1>2, <2>1, <2>2, <2>3 DEF TypeOK
<1>5. IdxLocked'
  BY <1>1, <1>2 DEF IdxLocked, ToLock
<1>6. QED
  BY <1>3, <1>4, <1>5, FrameKeepsIInv

(* IInv is kept when the background task is queued. *)
LEMMA CommitKeeps ==
    ASSUME IInv, NEW i \in Inserts, Commit(i)
    PROVE  IInv'
<1> USE DEF IInv, mapVars, workVars, lockVars, bgVars
<1>1. /\ pc \in [Inserts -> Labels] /\ pc' \in [Inserts -> Labels]
      /\ \A j \in Inserts : j # i => pc'[j] = pc[j]
      /\ pc[i] = "commit" /\ pc'[i] = "deref"
  BY DEF Commit, Goto, TypeOK, Labels
<1>2. UNCHANGED <<mapVars, workVars, lockVars, bgTask>>
  BY DEF Commit
<1>3. MapFrame
  BY <1>1, <1>2 DEF MapFrame, Reserving, PlacedIds, WorkShape
<1>4. TypeOK'
  <2>1. bgTasks' \in Seq(Inserts)
    BY DEF Commit, TypeOK
  <2>2. QED
    BY <1>1, <1>2, <2>1 DEF TypeOK
<1>5. IdxLocked'
  BY <1>1, <1>2 DEF IdxLocked, ToLock
<1>6. QED
  BY <1>3, <1>4, <1>5, FrameKeepsIInv

(* IInv is kept when insert_in_place returns. *)
LEMMA ReturnKeeps ==
    ASSUME IInv, NEW i \in Inserts, Return(i)
    PROVE  IInv'
<1> USE DEF IInv, mapVars, workVars, lockVars, bgVars
<1>1. /\ pc \in [Inserts -> Labels] /\ pc' \in [Inserts -> Labels]
      /\ \A j \in Inserts : j # i => pc'[j] = pc[j]
      /\ pc[i] = "deref" /\ pc'[i] = "done"
  BY DEF Return, Goto, TypeOK, Labels
<1>2. UNCHANGED <<mapVars, visited, nhood, locs, nbrLoc, needRead, lockVars, bgVars>>
  BY DEF Return
<1>3. MapFrame
  BY <1>1, <1>2 DEF MapFrame, Reserving, PlacedIds, WorkShape
<1>4. TypeOK'
  <2>1. hints' \in [Inserts -> Seq(Nat)]
    BY DEF Return, TypeOK
  <2>2. QED
    BY <1>1, <1>2, <2>1 DEF TypeOK
<1>5. IdxLocked'
  BY <1>1, <1>2 DEF IdxLocked, ToLock
<1>6. QED
  BY <1>3, <1>4, <1>5, FrameKeepsIInv

(* IInv is kept when the background thread takes a task. *)
LEMMA BgWriteKeeps ==
    ASSUME IInv, BgWrite
    PROVE  IInv'
<1> USE DEF IInv, mapVars, workVars, lockVars, bgVars
<1>1. pc \in [Inserts -> Labels] /\ pc' = pc
  BY DEF BgWrite, TypeOK
<1>2. UNCHANGED <<mapVars, workVars, lockVars>>
  BY DEF BgWrite
<1>3. MapFrame
  BY <1>1, <1>2 DEF MapFrame, Reserving, PlacedIds, WorkShape
<1>4. TypeOK'
  <2>1. Head(bgTasks) \in Inserts /\ Tail(bgTasks) \in Seq(Inserts)
    BY DEF BgWrite, TypeOK
  <2>2. bgTask' \in Inserts \cup {None} /\ bgTasks' \in Seq(Inserts)
    BY <2>1 DEF BgWrite
  <2>3. QED
    BY <1>1, <1>2, <2>2 DEF TypeOK
<1>5. IdxLocked'
  BY <1>1, <1>2 DEF IdxLocked, ToLock
<1>6. QED
  BY <1>3, <1>4, <1>5, FrameKeepsIInv

(* IInv is kept when the background thread unlocks the pages. *)
LEMMA BgFinishKeeps ==
    ASSUME IInv, BgFinish
    PROVE  IInv'
<1> USE DEF IInv, mapVars, workVars, lockVars, bgVars
<1>1. pc \in [Inserts -> Labels] /\ pc' = pc
  BY DEF BgFinish, TypeOK
<1>2. UNCHANGED <<mapVars, workVars, vecGot, vecLock, unlocked, idxRd, idxWr, bgTasks>>
  BY DEF BgFinish
<1>3. MapFrame
  BY <1>1, <1>2 DEF MapFrame, Reserving, PlacedIds, WorkShape
<1>4. TypeOK'
  <2>1. pageHeld' \in [Inserts -> SUBSET Nat] /\ bgTask' = None
    BY DEF BgFinish, TypeOK
  <2>2. QED
    BY <1>1, <1>2, <2>1 DEF TypeOK
<1>5. IdxLocked'
  BY <1>1, <1>2 DEF IdxLocked, ToLock
<1>6. QED
  BY <1>3, <1>4, <1>5, FrameKeepsIInv

-----------------------------------------------------------------------------
(* Steps that change the maps. *)

(* IInv is kept when the target gets its location: nothing names it yet.    *)
LEMMA WritePagesKeeps ==
    ASSUME IInv, NEW i \in Inserts, WritePages(i)
    PROVE  IInv'
<1> USE DEF IInv, workVars, lockVars, bgVars
<1>1. /\ pc \in [Inserts -> Labels] /\ pc' \in [Inserts -> Labels]
      /\ \A j \in Inserts : j # i => pc'[j] = pc[j]
      /\ pc[i] = "write" /\ pc'[i] = "locki"
  BY DEF WritePages, Goto, TypeOK, Labels
<1>2. UNCHANGED <<curId, layout, emptyPages, curPage, workVars, lockVars, bgVars>>
  BY DEF WritePages
<1>3. i \in Ids /\ i \notin PlacedIds /\ PlacedIds' = PlacedIds
  BY <1>1, NumAssumption DEF PlacedIds, Inserts, Ids
<1>4. /\ \A id \in Ids : id # i => id2loc'[id] = id2loc[id]
      /\ id2loc'[i] = locs[i][Len(nhood[i]) + 1]
  BY <1>3 DEF WritePages, TypeOK
<1>5. \A j \in Inserts : Reserving(j)' <=> Reserving(j)
  BY <1>1 DEF Reserving
<1>6. \A j \in Inserts : \A id : Moving(j, id)' <=> Moving(j, id)
  BY <1>1, <1>2 DEF Moving
<1>7. TypeOK'
  <2>1. Reserving(i) /\ nhood[i] \in Seq(Ids) /\ locs[i] \in Seq(Locs)
    BY <1>1 DEF Reserving, TypeOK
  <2>2. locs[i][Len(nhood[i]) + 1] \in Locs
    BY <2>1 DEF WorkShape
  <2>3. id2loc' \in [Ids -> Locs \cup {None}]
    BY <2>2 DEF WritePages, TypeOK
  <2>4. QED
    BY <1>1, <1>2, <2>3 DEF TypeOK
<1>8. WorkShape'
  BY <1>1, <1>2, <1>3, <1>5 DEF WorkShape
<1>9. IdxLocked'
  BY <1>1, <1>2 DEF IdxLocked, ToLock
<1>10. HalfMoved'
  <2>1. \A j \in Inserts : pc[j] = "layout" =>
          \A k \in DOMAIN nhood[j] : id2loc'[nhood[j][k]] = id2loc[nhood[j][k]]
    <3>1. SUFFICES ASSUME NEW j \in Inserts, pc[j] = "layout", NEW k \in DOMAIN nhood[j]
                   PROVE  id2loc'[nhood[j][k]] = id2loc[nhood[j][k]]
      OBVIOUS
    <3>2. nhood[j][k] \in PlacedIds
      BY <3>1 DEF WorkShape, Reserving, Elems
    <3>3. QED
      BY <1>3, <1>4, <3>2, PlacedHasLoc
  <2>2. \A j \in Inserts : j # i => id2loc'[j] = id2loc[j]
    BY <1>4, NumAssumption DEF Inserts, Ids
  <2>3. QED
    BY <1>1, <1>2, <1>4, <2>1, <2>2 DEF HalfMoved, loc2id
<1>11. Id2LocConsistent'
  <2>1. \A id \in PlacedIds : id2loc'[id] = id2loc[id]
    BY <1>3, <1>4, PlacedHasLoc
  <2>2. QED
    BY <1>2, <1>3, <1>6, <2>1 DEF Id2LocConsistent, loc2id
<1>12. Loc2IdExact'
  BY <1>1, <1>2, <1>3, <1>4, <1>6 DEF Loc2IdExact, loc2id
<1>13. EmptyPagesExact'
  BY <1>2 DEF EmptyPagesExact, IsEmptyPage
<1>14. ReservationsExact'
  BY <1>2, <1>5 DEF ReservationsExact, loc2id
<1>15. QED
  BY <1>7, <1>8, <1>9, <1>10, <1>11, <1>12, <1>13, <1>14

(* IInv is kept when the neighbours' id2loc_ entries change: the index      *)
(* locks keep every other insert away from them.                            *)
LEMMA UpdateId2LocKeeps ==
    ASSUME IInv, NEW i \in Inserts, UpdateId2Loc(i)
    PROVE  IInv'
<1> USE DEF IInv, workVars, lockVars, bgVars
<1>1. /\ pc \in [Inserts -> Labels] /\ pc' \in [Inserts -> Labels]
      /\ \A j \in Inserts : j # i => pc'[j] = pc[j]
      /\ pc[i] = "update" /\ pc'[i] = "layout"
  BY DEF UpdateId2Loc, Goto, TypeOK, Labels
<1>2. UNCHANGED <<curId, layout, emptyPages, curPage, visited, hints, nhood, locs, needRead,
                  lockVars, bgVars>>
  BY DEF UpdateId2Loc
<1>3. i \in Ids /\ i \notin PlacedIds /\ PlacedIds' = PlacedIds
  BY <1>1, NumAssumption DEF PlacedIds, Inserts, Ids
<1>4. /\ nhood[i] \in Seq(Ids) /\ locs[i] \in Seq(Locs)
      /\ Len(locs[i]) = Len(nhood[i]) + 1
      /\ Elems(nhood[i]) \subseteq PlacedIds
      /\ \A j, k \in DOMAIN nhood[i] : nhood[i][j] = nhood[i][k] => j = k
  BY <1>1 DEF TypeOK, WorkShape, Reserving
<1>5. \A k \in DOMAIN nhood[i] : id2loc'[nhood[i][k]] = locs[i][k] /\ locs[i][k] \in Locs
  BY <1>4 DEF UpdateId2Loc, Elems
<1>6. \A id \in Ids : id \notin Elems(nhood[i]) => id2loc'[id] = id2loc[id]
  BY DEF UpdateId2Loc
<1>7. /\ \A j \in Inserts : j # i => nbrLoc'[j] = nbrLoc[j]
      /\ nbrLoc'[i] = [ k \in DOMAIN nhood[i] |-> id2loc[nhood[i][k]] ]
  BY DEF UpdateId2Loc, TypeOK
<1>8. \A j \in Inserts : Reserving(j)' <=> Reserving(j)
  BY <1>1 DEF Reserving
<1>9. /\ \A j \in Inserts : \A id : j # i => (Moving(j, id)' <=> Moving(j, id))
      /\ \A id : Moving(i, id)' <=> id \in Elems(nhood[i])
  BY <1>1, <1>2 DEF Moving
(* Nobody else is moving a neighbour of i. *)
<1>10. \A id \in Elems(nhood[i]), j \in Inserts : ~Moving(j, id)
  BY <1>1 DEF IdxLocked, ToLock, Moving
<1>11. TypeOK'
  <2>1. id2loc' \in [Ids -> Locs \cup {None}]
    <3>1. \A id \in Ids : id2loc'[id] \in Locs \cup {None}
      <4>1. \A id \in Elems(nhood[i]) : id2loc'[id] \in Locs
        BY <1>5 DEF Elems
      <4>2. QED
        BY <1>6, <4>1 DEF TypeOK
    <3>2. QED
      BY <3>1 DEF UpdateId2Loc
  <2>2. nbrLoc' \in [Inserts -> Seq(Locs)]
    <3>1. \A k \in 1 .. Len(nhood[i]) : id2loc[nhood[i][k]] \in Locs
      BY <1>4, PlacedHasLoc DEF Elems
    <3>2. [ k \in DOMAIN nhood[i] |-> id2loc[nhood[i][k]] ] \in Seq(Locs)
      BY <1>4, <3>1
    <3>3. QED
      BY <3>2 DEF UpdateId2Loc, TypeOK
  <2>3. QED
    BY <1>1, <1>2, <2>1, <2>2 DEF TypeOK
<1>12. WorkShape'
  BY <1>1, <1>2, <1>3, <1>4, <1>7, <1>8 DEF WorkShape
<1>13. IdxLocked'
  BY <1>1, <1>2 DEF IdxLocked, ToLock
<1>14. HalfMoved'
  <2>1. id2loc'[i] = id2loc[i]
    BY <1>3, <1>4, <1>6
  <2>2. \A j \in Inserts : j # i => id2loc'[j] = id2loc[j] \/ j \in PlacedIds
    BY <1>4, <1>6, NumAssumption DEF Inserts, Ids
  <2>3. \A j \in Inserts : j # i /\ pc[j] = "layout" =>
          \A k \in DOMAIN nhood[j] : id2loc'[nhood[j][k]] = id2loc[nhood[j][k]]
    <3>1. SUFFICES ASSUME NEW j \in Inserts, j # i, pc[j] = "layout", NEW k \in DOMAIN nhood[j]
                   PROVE  id2loc'[nhood[j][k]] = id2loc[nhood[j][k]]
      OBVIOUS
    <3>2. nhood[j][k] \in Ids /\ Moving(j, nhood[j][k])
      BY <3>1 DEF TypeOK, Moving, Elems
    <3>3. QED
      BY <1>6, <1>10, <3>2
  <2>4. \A k \in DOMAIN nhood[i] :
          /\ nbrLoc'[i][k] = id2loc[nhood[i][k]]
          /\ nbrLoc'[i][k][1] \in DOMAIN layout
          /\ loc2id(layout, nbrLoc'[i][k]) = nhood[i][k]
    <3>1. SUFFICES ASSUME NEW k \in DOMAIN nhood[i]
                   PROVE  /\ nbrLoc'[i][k] = id2loc[nhood[i][k]]
                          /\ nbrLoc'[i][k][1] \in DOMAIN layout
                          /\ loc2id(layout, nbrLoc'[i][k]) = nhood[i][k]
      OBVIOUS
    <3>2. nbrLoc'[i][k] = id2loc[nhood[i][k]]
      BY <1>7
    <3>3. nhood[i][k] \in PlacedIds /\ \A j \in Inserts : ~Moving(j, nhood[i][k])
      BY <1>4, <1>10 DEF Elems
    <3>4. QED
      BY <3>2, <3>3 DEF Id2LocConsistent
  <2>5. \A j \in Inserts : pc[j] \in {"locki", "update", "layout"} => j \notin PlacedIds
    BY NumAssumption DEF PlacedIds, Inserts
  <2>6. QED
    <3>1. \A j \in Inserts : pc'[j] \in {"locki", "update", "layout"} =>
            id2loc'[j] = locs[j][Len(nhood[j]) + 1]
      BY <1>1, <2>1, <2>2, <2>5 DEF HalfMoved
    <3>2. \A j \in Inserts : pc'[j] = "layout" =>
            \A k \in DOMAIN nhood[j] :
               /\ id2loc'[nhood[j][k]] = locs[j][k]
               /\ nbrLoc'[j][k][1] \in DOMAIN layout
               /\ loc2id(layout, nbrLoc'[j][k]) = nhood[j][k]
      <4>1. SUFFICES ASSUME NEW j \in Inserts, pc'[j] = "layout", NEW k \in DOMAIN nhood[j]
                     PROVE  /\ id2loc'[nhood[j][k]] = locs[j][k]
                            /\ nbrLoc'[j][k][1] \in DOMAIN layout
                            /\ loc2id(layout, nbrLoc'[j][k]) = nhood[j][k]
        OBVIOUS
      <4>2. CASE j = i
        BY <1>5, <2>4, <4>2
      <4>3. CASE j # i
        BY <1>1, <1>7, <2>3, <4>1, <4>3 DEF HalfMoved
      <4>4. QED
        BY <4>2, <4>3
    <3>3. QED
      BY <1>2, <3>1, <3>2 DEF HalfMoved, loc2id
<1>15. Id2LocConsistent'
  <2>1. \A id \in PlacedIds : id \notin Elems(nhood[i]) => id2loc'[id] = id2loc[id]
    BY <1>6, PlacedHasLoc
  <2>2. QED
    <3>1. SUFFICES ASSUME NEW id \in PlacedIds, \A j \in Inserts : ~Moving(j, id)'
                   PROVE  /\ id2loc'[id] # None
                          /\ id2loc'[id][1] \in DOMAIN layout
                          /\ loc2id(layout, id2loc'[id]) = id
      BY <1>2, <1>3 DEF Id2LocConsistent, loc2id
    <3>2. id \notin Elems(nhood[i])
      BY <1>9, <3>1
    <3>3. \A j \in Inserts : ~Moving(j, id)
      BY <1>1, <1>9, <3>1 DEF Moving
    <3>4. QED
      BY <2>1, <3>2, <3>3 DEF Id2LocConsistent
<1>16. Loc2IdExact'
  <2>1. SUFFICES ASSUME NEW l \in (DOMAIN layout) \X Slots,
                        NEW id \in Ids, loc2id(layout, l) = id
                 PROVE  /\ id \in PlacedIds
                        /\ \/ id2loc'[id] = l /\ \A j \in Inserts : ~Moving(j, id)'
                           \/ \E j \in Inserts : \E k \in DOMAIN nhood[j] :
                                 pc'[j] = "layout" /\ nhood[j][k] = id /\ nbrLoc'[j][k] = l
    BY <1>2, <1>3 DEF Loc2IdExact, loc2id, Moving
  <2>3. id \in PlacedIds
    BY <2>1 DEF Loc2IdExact
  <2>4. CASE id \in Elems(nhood[i])
    <3>1. id2loc[id] = l
      BY <1>10, <2>1, <2>4 DEF Loc2IdExact, Moving, Elems
    <3>2. PICK k \in DOMAIN nhood[i] : nhood[i][k] = id
      BY <2>4 DEF Elems
    <3>3. QED
      BY <1>1, <1>7, <2>3, <3>1, <3>2
  <2>5. CASE id \notin Elems(nhood[i])
    <3>1. id2loc'[id] = id2loc[id]
      BY <1>6, <2>1, <2>5
    <3>a. \A j \in Inserts : Moving(j, id)' <=> Moving(j, id)
      <4>1. ~Moving(i, id) /\ ~Moving(i, id)'
        BY <1>1, <1>9, <2>5 DEF Moving
      <4>2. QED
        BY <1>9, <4>1
    <3>2. \A j \in Inserts : pc[j] = "layout" => j # i
      BY <1>1
    <3>3. QED
      BY <1>1, <1>7, <2>1, <2>3, <3>1, <3>a, <3>2 DEF Loc2IdExact
  <2>6. QED
    BY <2>4, <2>5
<1>17. EmptyPagesExact'
  BY <1>2 DEF EmptyPagesExact, IsEmptyPage
<1>18. ReservationsExact'
  BY <1>2, <1>8 DEF ReservationsExact, loc2id
<1>19. QED
  BY <1>11, <1>12, <1>13, <1>14, <1>15, <1>16, <1>17, <1>18

(* The last of the erasures on one page: a nonempty set of numbers up to n  *)
(* has a greatest member.                                                   *)
LEMMA HasGreatest ==
    ASSUME NEW n \in Nat, NEW S \in SUBSET (1 .. n), S # {}
    PROVE  \E x \in S : \A y \in S : y <= x
<1> DEFINE T == { n - x : x \in S }
<1>1. T \subseteq Nat /\ T # {}
  <2>1. \A x \in S : n - x \in Nat
    OBVIOUS
  <2>2. QED
    BY <2>1
<1>2. IsWellFoundedOn(OpToRel(<, Nat), Nat)
  BY NatLessThanWellFounded
<1>3. PICK d \in T : \A y \in T : ~(<<y, d>> \in OpToRel(<, Nat))
  <2> HIDE DEF T
  <2> QED BY <1>1, <1>2, WFMin
<1>4. \A y \in T : ~(y < d)
  BY <1>1, <1>3 DEF OpToRel
<1>5. PICK x \in S : d = n - x
  OBVIOUS
<1>a. \A y \in S : n - y \in T
  OBVIOUS
<1>b. S \subseteq Int
  OBVIOUS
<1>6. \A y \in S : n - y \in T /\ y \in Int /\ x \in Int
  BY <1>a, <1>b
<1>7. QED
  <2> HIDE DEF T
  <2> QED BY <1>4, <1>5, <1>6

(* What erase_and_set_loc leaves behind, slot by slot, when the old and the *)
(* new slots are apart: after all the erasures, and after the first m.      *)
LEMMA EraseAndSet ==
    ASSUME NEW lay, NEW old, NEW new, NEW ids, NEW m \in 0 .. Len(old),
           Len(old) \in Nat, DOMAIN new = 1 .. Len(new), DOMAIN old = 1 .. Len(old),
           \A k \in DOMAIN old : old[k] \in (DOMAIN lay) \X Slots,
           \A k \in DOMAIN new : new[k] \in (DOMAIN lay) \X Slots,
           \A k \in DOMAIN old, j \in DOMAIN new : old[k] # new[j],
           \A j, k \in DOMAIN new : new[j] = new[k] => j = k
    PROVE  LET res == erase_and_set_loc(lay, old, new, ids, m)
           IN  /\ DOMAIN res = DOMAIN lay
               /\ \A p \in DOMAIN lay : DOMAIN res[p] = Slots
               /\ \A k \in 1 .. m : loc2id(res, old[k]) = kInvalidID
               /\ \A k \in DOMAIN new : loc2id(res, new[k]) = ids[k]
               /\ \A l \in (DOMAIN lay) \X Slots :
                    l \notin Elems(new) /\ (\A k \in 1 .. m : old[k] # l)
                      => loc2id(res, l) = loc2id(lay, l)
<1> DEFINE res == erase_and_set_loc(lay, old, new, ids, m)
           ent(p, s) == IF \E k \in 1 .. m : old[k] = <<p, s>> THEN kInvalidID
                        ELSE IF <<p, s>> \in Elems(new)
                             THEN ids[CHOOSE k \in DOMAIN new : new[k] = <<p, s>>]
                        ELSE lay[p][s]
<1>1. /\ DOMAIN res = DOMAIN lay
      /\ \A p \in DOMAIN lay : DOMAIN res[p] = Slots
      /\ \A p \in DOMAIN lay, s \in Slots : res[p][s] = ent(p, s)
  BY DEF erase_and_set_loc
<1> HIDE DEF res
<1>2. \A l \in (DOMAIN lay) \X Slots : loc2id(res, l) = ent(l[1], l[2]) /\ l = <<l[1], l[2]>>
  <2>1. TAKE l \in (DOMAIN lay) \X Slots
  <2>2. l = <<l[1], l[2]>> /\ l[1] \in DOMAIN lay /\ l[2] \in Slots
    OBVIOUS
  <2>3. res[l[1]][l[2]] = ent(l[1], l[2])
    BY <1>1, <2>2
  <2> HIDE DEF ent
  <2>4. QED
    BY <2>2, <2>3 DEF loc2id
<1>3. \A k \in 1 .. m : loc2id(res, old[k]) = kInvalidID
  <2>1. TAKE k \in 1 .. m
  <2>2. k \in DOMAIN old
    OBVIOUS
  <2>3. loc2id(res, old[k]) = ent(old[k][1], old[k][2]) /\ old[k] = <<old[k][1], old[k][2]>>
    BY <1>2, <2>2
  <2>4. QED
    BY <2>3
<1>4. \A k \in DOMAIN new : loc2id(res, new[k]) = ids[k]
  <2>1. TAKE k \in DOMAIN new
  <2>2. loc2id(res, new[k]) = ent(new[k][1], new[k][2]) /\ new[k] = <<new[k][1], new[k][2]>>
    BY <1>2
  <2>3. ~ \E j \in 1 .. m : old[j] = new[k]
    OBVIOUS
  <2>4. new[k] \in Elems(new) /\ (CHOOSE j \in DOMAIN new : new[j] = new[k]) = k
    BY DEF Elems
  <2>5. QED
    BY <2>2, <2>3, <2>4
<1>5. \A l \in (DOMAIN lay) \X Slots :
        l \notin Elems(new) /\ (\A k \in 1 .. m : old[k] # l) => loc2id(res, l) = loc2id(lay, l)
  <2>1. TAKE l \in (DOMAIN lay) \X Slots
  <2>2. HAVE l \notin Elems(new) /\ (\A k \in 1 .. m : old[k] # l)
  <2>3. loc2id(res, l) = ent(l[1], l[2]) /\ l = <<l[1], l[2]>>
    BY <1>2
  <2>4. ent(l[1], l[2]) = lay[l[1]][l[2]]
    BY <2>2, <2>3
  <2> HIDE DEF ent
  <2>5. QED
    BY <2>3, <2>4 DEF loc2id
<1>6. QED
  BY <1>1, <1>3, <1>4, <1>5 DEF res

(* The sectors erase_and_set_loc pushes: each one is empty in the end and   *)
(* held one of the old slots, none is pushed twice, and none that became    *)
(* empty is forgotten.                                                      *)
LEMMA PushedExact ==
    ASSUME NEW lay, NEW old, NEW new, NEW ids,
           Len(old) \in Nat, DOMAIN new = 1 .. Len(new), DOMAIN old = 1 .. Len(old),
           \A k \in DOMAIN old : old[k] \in (DOMAIN lay) \X Slots,
           \A k \in DOMAIN new : new[k] \in (DOMAIN lay) \X Slots,
           \A k \in DOMAIN old, j \in DOMAIN new : old[k] # new[j],
           \A j, k \in DOMAIN new : new[j] = new[k] => j = k,
           \A j, k \in DOMAIN old : old[j] = old[k] => j = k,
           \A k \in DOMAIN old : loc2id(lay, old[k]) # kInvalidID,
           \A k \in DOMAIN new : ids[k] # kInvalidID,
           NEW q \in PushedPages(lay, old, new, ids)
    PROVE  LET res == erase_and_set_loc(lay, old, new, ids, Len(old))
           IN  /\ q \in Seq(DOMAIN lay)
               /\ \A j \in 1 .. Len(q) : IsEmptyPage(res, q[j]) /\ ~IsEmptyPage(lay, q[j])
               /\ \A j, k \in 1 .. Len(q) : q[j] = q[k] => j = k
               /\ \A p \in DOMAIN lay :
                    IsEmptyPage(res, p) => IsEmptyPage(lay, p) \/ p \in Elems(q)
<1> DEFINE n == Len(old)
           after(m) == erase_and_set_loc(lay, old, new, ids, m)
           erased(m, l) == \E k \in 1 .. m : old[k] = l
           emptying == { m \in 1 .. n : IsEmptyPage(after(m), old[m][1]) }
<1>1. \A m \in 0 .. n, l \in (DOMAIN lay) \X Slots :
        loc2id(after(m), l) = kInvalidID
          <=> erased(m, l) \/ (l \notin Elems(new) /\ loc2id(lay, l) = kInvalidID)
  <2>1. TAKE m \in 0 .. n, l \in (DOMAIN lay) \X Slots
  <2>2. /\ \A k \in 1 .. m : loc2id(after(m), old[k]) = kInvalidID
        /\ \A k \in DOMAIN new : loc2id(after(m), new[k]) = ids[k]
        /\ l \notin Elems(new) /\ (\A k \in 1 .. m : old[k] # l)
             => loc2id(after(m), l) = loc2id(lay, l)
    BY EraseAndSet
  <2> HIDE DEF after
  <2>3. CASE l \in Elems(new)
    BY <2>2, <2>3 DEF Elems
  <2>4. CASE l \notin Elems(new) /\ erased(m, l)
    BY <2>2, <2>4
  <2>5. CASE l \notin Elems(new) /\ ~erased(m, l)
    BY <2>2, <2>5
  <2>6. QED
    BY <2>3, <2>4, <2>5
<1>2. PICK c \in 0 .. n : \E ix \in [1 .. c -> emptying] :
        /\ Elems(ix) = emptying
        /\ \A j, k \in DOMAIN ix : j < k => ix[j] < ix[k]
        /\ q = [ j \in DOMAIN ix |-> old[ix[j]][1] ]
  <2> DEFINE seqs == UNION { [1 .. d -> emptying] : d \in 0 .. n }
             good(ix) == /\ Elems(ix) = emptying
                         /\ \A j, k \in DOMAIN ix : j < k => ix[j] < ix[k]
  <2>1. q \in { [ j \in DOMAIN ix |-> old[ix[j]][1] ] : ix \in { iy \in seqs : good(iy) } }
    BY DEF PushedPages
  <2>2. PICK ix \in seqs : good(ix) /\ q = [ j \in DOMAIN ix |-> old[ix[j]][1] ]
    <3> HIDE DEF seqs, good
    <3> QED BY <2>1
  <2>3. PICK d \in 0 .. n : ix \in [1 .. d -> emptying]
    <3> HIDE DEF emptying, n
    <3> QED OBVIOUS
  <2>4. QED
    <3>1. WITNESS d \in 0 .. n
    <3>2. WITNESS ix \in [1 .. d -> emptying]
    <3> HIDE DEF emptying, n
    <3>3. QED
      BY <2>2
<1>b. PICK idx \in [1 .. c -> emptying] :
        /\ Elems(idx) = emptying
        /\ \A j, k \in DOMAIN idx : j < k => idx[j] < idx[k]
        /\ q = [ j \in DOMAIN idx |-> old[idx[j]][1] ]
  BY <1>2
<1>3. /\ Len(q) = c /\ DOMAIN q = 1 .. c
      /\ \A j \in 1 .. c : idx[j] \in emptying /\ q[j] = old[idx[j]][1]
  <2> HIDE DEF emptying
  <2> QED BY <1>b
<1>4. \A m \in 0 .. n, p \in DOMAIN lay :
        IsEmptyPage(after(m), p) <=>
          \A s \in Slots : erased(m, <<p, s>>)
                           \/ (<<p, s>> \notin Elems(new) /\ lay[p][s] = kInvalidID)
  <2>1. TAKE m \in 0 .. n, p \in DOMAIN lay
  <2>2. \A s \in Slots : <<p, s>> \in (DOMAIN lay) \X Slots
    OBVIOUS
  <2>3. \A s \in Slots : after(m)[p][s] = kInvalidID <=>
          erased(m, <<p, s>>) \/ (<<p, s>> \notin Elems(new) /\ lay[p][s] = kInvalidID)
    <3> HIDE DEF after, erased
    <3> QED BY <1>1, <2>2 DEF loc2id
  <2> HIDE DEF after, erased
  <2>4. QED
    BY <2>3 DEF IsEmptyPage
<1> HIDE DEF after
<1>5. \A m \in 1 .. n : old[m][1] \in DOMAIN lay /\ old[m][2] \in Slots
                        /\ old[m] = <<old[m][1], old[m][2]>>
                        /\ lay[old[m][1]][old[m][2]] # kInvalidID
  BY DEF loc2id
<1>6. \A m \in emptying : m \in 1 .. n
  OBVIOUS
<1>7. q \in Seq(DOMAIN lay)
  BY <1>b, <1>3, <1>5, <1>6
<1>8. \A m \in emptying : IsEmptyPage(after(n), old[m][1])
  <2>1. TAKE m \in emptying
  <2>2. \A l : erased(m, l) => erased(n, l)
    OBVIOUS
  <2>3. IsEmptyPage(after(m), old[m][1]) /\ old[m][1] \in DOMAIN lay /\ m \in 0 .. n /\ n \in 0 .. n
    BY <1>5
  <2> HIDE DEF erased, emptying
  <2>4. QED
    BY <1>4, <2>2, <2>3
<1>9. \A m1, m2 \in emptying : m1 < m2 => old[m1][1] # old[m2][1]
  <2>1. SUFFICES ASSUME NEW m1 \in emptying, NEW m2 \in emptying, m1 < m2,
                        old[m1][1] = old[m2][1]
                 PROVE  FALSE
    OBVIOUS
  <2>2. m1 \in 0 .. n /\ IsEmptyPage(after(m1), old[m1][1]) /\ m2 \in 1 .. n
    OBVIOUS
  <2>3. erased(m1, old[m2])
    <3> HIDE DEF erased, emptying
    <3> QED BY <1>4, <1>5, <2>1, <2>2
  <2>4. PICK k \in 1 .. m1 : old[k] = old[m2]
    BY <2>3
  <2>5. k \in DOMAIN old /\ m2 \in DOMAIN old /\ k # m2
    BY <2>1, <2>2
  <2>6. QED
    BY <2>4, <2>5
<1>10. \A j \in 1 .. Len(q) : IsEmptyPage(after(n), q[j]) /\ ~IsEmptyPage(lay, q[j])
  <2>1. TAKE j \in 1 .. Len(q)
  <2>2. idx[j] \in emptying /\ idx[j] \in 1 .. n /\ q[j] = old[idx[j]][1]
    BY <1>3, <1>6
  <2> HIDE DEF emptying
  <2>3. QED
    BY <1>5, <1>8, <2>2 DEF IsEmptyPage
<1>11. \A j, k \in 1 .. Len(q) : q[j] = q[k] => j = k
  <2> HIDE DEF emptying
  <2>1. TAKE j, k \in 1 .. Len(q)
  <2>2. HAVE q[j] = q[k]
  <2>3. idx[j] \in emptying /\ idx[k] \in emptying /\ idx[j] \in Int /\ idx[k] \in Int
    BY <1>3, <1>6
  <2>4. ~(idx[j] < idx[k]) /\ ~(idx[k] < idx[j])
    BY <1>3, <1>9, <2>2, <2>3
  <2>5. QED
    BY <1>b, <1>3, <2>4
<1>12. ASSUME NEW p \in DOMAIN lay, IsEmptyPage(after(n), p), ~IsEmptyPage(lay, p)
       PROVE  p \in Elems(q)
  <2> DEFINE on == { k \in 1 .. n : old[k][1] = p }
  <2>1. PICK s \in Slots : lay[p][s] # kInvalidID
    BY <1>12 DEF IsEmptyPage
  <2>2. n \in 0 .. n /\ erased(n, <<p, s>>)
    <3> HIDE DEF erased
    <3> QED BY <1>4, <1>12, <2>1
  <2>3. on # {} /\ on \in SUBSET (1 .. n)
    BY <2>2
  <2>4. PICK m \in on : \A k \in on : k <= m
    <3>1. n \in Nat
      OBVIOUS
    <3> HIDE DEF on, n
    <3>2. QED
      BY <2>3, <3>1, HasGreatest, Zenon
  <2>a. ASSUME NEW t \in Slots, erased(n, <<p, t>>)
        PROVE  erased(m, <<p, t>>)
    <3>1. PICK k \in 1 .. n : old[k] = <<p, t>>
      BY <2>a
    <3>2. k \in on
      BY <3>1
    <3>3. k \in 1 .. m
      BY <2>4, <3>2
    <3>4. QED
      BY <3>1, <3>3
  <2>5. m \in 1 .. n /\ old[m][1] = p /\ \A t \in Slots : erased(n, <<p, t>>) => erased(m, <<p, t>>)
    <3>1. m \in 1 .. n /\ old[m][1] = p
      OBVIOUS
    <3> HIDE DEF erased, on
    <3>2. QED
      BY <3>1, <2>a
  <2>6. IsEmptyPage(after(m), p)
    <3> HIDE DEF erased
    <3> QED BY <1>4, <1>12, <2>2, <2>5
  <2>7. m \in emptying
    BY <2>5, <2>6
  <2>8. PICK j \in 1 .. c : idx[j] = m
    <3> HIDE DEF emptying
    <3> QED BY <1>b, <2>7 DEF Elems
  <2>9. QED
    <3> HIDE DEF emptying, on
    <3> QED BY <1>3, <2>5, <2>8 DEF Elems
<1>13. QED
  BY <1>7, <1>10, <1>11, <1>12 DEF after

(* IInv is kept by erase_and_set_loc: the reserved slots get their ids, the *)
(* old slots become holes, and what becomes empty is queued.                *)
LEMMA EraseAndSetLocKeeps ==
    ASSUME IInv, NEW i \in Inserts, EraseAndSetLoc(i)
    PROVE  IInv'
<1> USE DEF IInv, workVars, lockVars, bgVars
<1> DEFINE ids == Append(nhood[i], i)
<1>1. /\ pc \in [Inserts -> Labels] /\ pc' \in [Inserts -> Labels]
      /\ \A j \in Inserts : j # i => pc'[j] = pc[j]
      /\ pc[i] = "layout" /\ pc'[i] = "unlockv"
  BY DEF EraseAndSetLoc, Goto, TypeOK, Labels
<1>2. UNCHANGED <<curId, id2loc, curPage, workVars, pageHeld, vecGot, vecLock, unlocked,
                  idxRd, bgVars>>
  BY DEF EraseAndSetLoc
<1>3. i \in Ids /\ i \notin PlacedIds /\ PlacedIds' = PlacedIds \cup {i}
  BY <1>1, NumAssumption DEF PlacedIds, Inserts, Ids
<1>4. /\ nhood[i] \in Seq(Ids) /\ locs[i] \in Seq(Locs) /\ nbrLoc[i] \in Seq(Locs)
      /\ Len(locs[i]) = Len(nhood[i]) + 1 /\ Len(nbrLoc[i]) = Len(nhood[i])
      /\ \A j, k \in DOMAIN nhood[i] : nhood[i][j] = nhood[i][k] => j = k
  BY <1>1 DEF TypeOK, WorkShape, Reserving
<1>5. /\ DOMAIN nhood[i] = 1 .. Len(nhood[i]) /\ Len(nhood[i]) \in Nat
      /\ DOMAIN nbrLoc[i] = 1 .. Len(nhood[i])
      /\ DOMAIN locs[i] = 1 .. Len(nhood[i]) + 1
  BY <1>4
<1>6. /\ ids[Len(nhood[i]) + 1] = i
      /\ \A k \in DOMAIN nhood[i] : ids[k] = nhood[i][k] /\ nhood[i][k] \in Ids
      /\ \A k \in DOMAIN locs[i] : ids[k] \in Ids
  BY <1>3, <1>4, <1>5
<1> HIDE DEF ids
<1>7. \A k \in DOMAIN nbrLoc[i] :
        /\ nbrLoc[i][k] \in (DOMAIN layout) \X Slots
        /\ loc2id(layout, nbrLoc[i][k]) = nhood[i][k]
        /\ id2loc[nhood[i][k]] = locs[i][k]
  <2>1. \A k \in DOMAIN nbrLoc[i] : nbrLoc[i][k] \in Locs
    BY <1>4
  <2>2. QED
    BY <1>1, <1>5, <2>1 DEF HalfMoved, Locs
<1>8. \A k \in DOMAIN locs[i] :
        /\ locs[i][k] \in (DOMAIN layout) \X Slots
        /\ loc2id(layout, locs[i][k]) = kAllocatedID
  <2>1. \A k \in DOMAIN locs[i] : locs[i][k] \in Locs
    BY <1>4
  <2>2. QED
    BY <1>1, <2>1 DEF ReservationsExact, Reserving, Locs
<1>9. /\ \A j, k \in DOMAIN locs[i] : locs[i][j] = locs[i][k] => j = k
      /\ \A j, k \in DOMAIN nbrLoc[i] : nbrLoc[i][j] = nbrLoc[i][k] => j = k
      /\ \A k \in DOMAIN nbrLoc[i], j \in DOMAIN locs[i] : nbrLoc[i][k] # locs[i][j]
  <2>1. \A j, k \in DOMAIN locs[i] : locs[i][j] = locs[i][k] => j = k
    BY <1>1 DEF ReservationsExact, Reserving
  <2>2. \A j, k \in DOMAIN nbrLoc[i] : nbrLoc[i][j] = nbrLoc[i][k] => j = k
    BY <1>4, <1>5, <1>7
  <2>3. \A k \in DOMAIN nbrLoc[i], j \in DOMAIN locs[i] : nbrLoc[i][k] # locs[i][j]
    BY <1>5, <1>6, <1>7, <1>8, SentinelAssumption
  <2>4. QED
    BY <2>1, <2>2, <2>3
(* page_layout afterwards, slot by slot. *)
<1>10. layout' = erase_and_set_loc(layout, nbrLoc[i], locs[i], ids, Len(nbrLoc[i]))
  BY DEF EraseAndSetLoc, ids
<1>11. /\ DOMAIN layout' = DOMAIN layout
       /\ \A p \in DOMAIN layout : DOMAIN layout'[p] = Slots
       /\ \A k \in DOMAIN nbrLoc[i] : loc2id(layout', nbrLoc[i][k]) = kInvalidID
       /\ \A k \in DOMAIN locs[i] : loc2id(layout', locs[i][k]) = ids[k]
       /\ \A l \in (DOMAIN layout) \X Slots :
            l \notin Elems(locs[i]) /\ l \notin Elems(nbrLoc[i])
              => loc2id(layout', l) = loc2id(layout, l)
  <2> DEFINE n == Len(nbrLoc[i])
  <2>1. n \in 0 .. n /\ n \in Nat /\ DOMAIN locs[i] = 1 .. Len(locs[i])
        /\ DOMAIN nbrLoc[i] = 1 .. n
    BY <1>4
  <2> DEFINE res == erase_and_set_loc(layout, nbrLoc[i], locs[i], ids, n)
  <2>2. /\ DOMAIN res = DOMAIN layout
        /\ \A p \in DOMAIN layout : DOMAIN res[p] = Slots
        /\ \A k \in 1 .. n : loc2id(res, nbrLoc[i][k]) = kInvalidID
        /\ \A k \in DOMAIN locs[i] : loc2id(res, locs[i][k]) = ids[k]
        /\ \A l \in (DOMAIN layout) \X Slots :
             l \notin Elems(locs[i]) /\ (\A k \in 1 .. n : nbrLoc[i][k] # l)
               => loc2id(res, l) = loc2id(layout, l)
    BY <1>7, <1>8, <1>9, <2>1, EraseAndSet
  <2>3. layout' = res
    BY <1>10
  <2> HIDE DEF res
  <2>4. QED
    BY <2>1, <2>2, <2>3 DEF Elems
(* What the slots that an id or a reservation names become. *)
<1>12. \A l \in (DOMAIN layout) \X Slots :
         \/ l \in Elems(nbrLoc[i]) /\ loc2id(layout', l) = kInvalidID
         \/ \E k \in DOMAIN locs[i] : l = locs[i][k] /\ loc2id(layout', l) = ids[k]
         \/ /\ l \notin Elems(nbrLoc[i]) /\ l \notin Elems(locs[i])
            /\ loc2id(layout', l) = loc2id(layout, l)
  BY <1>11 DEF Elems
(* Nobody else moves i or a neighbour of i, or is a neighbour of i. *)
<1>13. \A j \in Inserts : j # i => \A id \in ToLock(i) : ~Moving(j, id)
  BY <1>1 DEF IdxLocked, ToLock, Moving
<1>14. \A j \in Inserts : Reserving(j)' <=> Reserving(j) /\ j # i
  BY <1>1 DEF Reserving
<1>15. \A j \in Inserts : \A id : Moving(j, id)' <=> Moving(j, id) /\ j # i
  BY <1>1, <1>2 DEF Moving
<1>16. \A j \in Inserts : j # i => \A k \in DOMAIN nhood[j] :
          pc[j] = "layout" => /\ nhood[j][k] \notin ToLock(i)
                              /\ nbrLoc[j][k] \in (DOMAIN layout) \X Slots
                              /\ loc2id(layout, nbrLoc[j][k]) = nhood[j][k]
                              /\ nhood[j][k] \in Ids
  <2>1. SUFFICES ASSUME NEW j \in Inserts, j # i, NEW k \in DOMAIN nhood[j], pc[j] = "layout"
                 PROVE  /\ nhood[j][k] \notin ToLock(i)
                        /\ nbrLoc[j][k] \in (DOMAIN layout) \X Slots
                        /\ loc2id(layout, nbrLoc[j][k]) = nhood[j][k]
                        /\ nhood[j][k] \in Ids
    OBVIOUS
  <2>2. Moving(j, nhood[j][k]) /\ nhood[j][k] \in Ids
    BY <2>1 DEF Moving, Elems, TypeOK
  <2>3. nbrLoc[j][k] \in Locs
    <3>1. nbrLoc[j] \in Seq(Locs) /\ nhood[j] \in Seq(Ids) /\ Len(nbrLoc[j]) = Len(nhood[j])
      BY <2>1 DEF TypeOK, WorkShape
    <3>2. QED
      BY <3>1
  <2>4. QED
    BY <1>13, <2>1, <2>2, <2>3 DEF HalfMoved, Locs
(* The pushed sectors. *)
<1>a. PICK q : /\ emptyPages' = emptyPages \o q
               /\ q \in Seq(DOMAIN layout)
               /\ \A j \in 1 .. Len(q) : IsEmptyPage(layout', q[j]) /\ ~IsEmptyPage(layout, q[j])
               /\ \A j, k \in 1 .. Len(q) : q[j] = q[k] => j = k
               /\ \A p \in DOMAIN layout :
                    IsEmptyPage(layout', p) => IsEmptyPage(layout, p) \/ p \in Elems(q)
  <2> DEFINE res == erase_and_set_loc(layout, nbrLoc[i], locs[i], ids, Len(nbrLoc[i]))
  <2>1. PICK q \in PushedPages(layout, nbrLoc[i], locs[i], ids) : emptyPages' = emptyPages \o q
    BY DEF EraseAndSetLoc, ids
  <2>2. /\ Len(nbrLoc[i]) \in Nat /\ DOMAIN locs[i] = 1 .. Len(locs[i])
        /\ DOMAIN nbrLoc[i] = 1 .. Len(nbrLoc[i])
    BY <1>4
  <2>3. /\ \A k \in DOMAIN nbrLoc[i] : loc2id(layout, nbrLoc[i][k]) # kInvalidID
        /\ \A k \in DOMAIN locs[i] : ids[k] # kInvalidID
    BY <1>5, <1>6, <1>7, SentinelAssumption
  <2>4. /\ q \in Seq(DOMAIN layout)
        /\ \A j \in 1 .. Len(q) : IsEmptyPage(res, q[j]) /\ ~IsEmptyPage(layout, q[j])
        /\ \A j, k \in 1 .. Len(q) : q[j] = q[k] => j = k
        /\ \A p \in DOMAIN layout :
             IsEmptyPage(res, p) => IsEmptyPage(layout, p) \/ p \in Elems(q)
    BY <1>7, <1>8, <1>9, <2>1, <2>2, <2>3, PushedExact
  <2>5. layout' = res
    BY <1>10
  <2> HIDE DEF res
  <2>6. QED
    BY <2>1, <2>4, <2>5
<1>17. TypeOK'
  <2>1. layout' \in [1 .. curPage' - 1 -> [Slots -> Ids \cup {kInvalidID, kAllocatedID}]]
    <3>1. DOMAIN layout = 1 .. curPage - 1
      BY DEF TypeOK
    <3>2. ASSUME NEW p \in DOMAIN layout, NEW s \in Slots
          PROVE  layout'[p][s] \in Ids \cup {kInvalidID, kAllocatedID}
      <4>1. <<p, s>> \in (DOMAIN layout) \X Slots
        OBVIOUS
      <4>2. loc2id(layout', <<p, s>>) \in Ids \cup {kInvalidID, loc2id(layout, <<p, s>>)}
        BY <1>6, <1>12, <4>1
      <4>3. layout[p][s] \in Ids \cup {kInvalidID, kAllocatedID}
        BY <3>1 DEF TypeOK
      <4>4. QED
        BY <4>2, <4>3 DEF loc2id
    <3>3. layout' = [ p \in DOMAIN layout |-> layout'[p] ]
      BY <1>10, <1>11 DEF erase_and_set_loc
    <3>4. \A p \in DOMAIN layout : layout'[p] = [ s \in Slots |-> layout'[p][s] ]
      BY <1>10 DEF erase_and_set_loc
    <3>5. \A p \in DOMAIN layout : layout'[p] \in [Slots -> Ids \cup {kInvalidID, kAllocatedID}]
      BY <3>2, <3>4
    <3>6. QED
      BY <1>2, <3>1, <3>3, <3>5
  <2>2. emptyPages' \in Seq(1 .. curPage' - 1)
    <3>1. emptyPages \in Seq(1 .. curPage - 1) /\ q \in Seq(1 .. curPage - 1)
      BY <1>a DEF TypeOK
    <3>2. emptyPages \o q \in Seq(1 .. curPage - 1)
      BY <3>1
    <3>3. QED
      BY <1>2, <1>a, <3>2
  <2>3. idxWr' \in [Inserts -> SUBSET Ids]
    BY DEF EraseAndSetLoc, TypeOK
  <2>4. QED
    BY <1>1, <1>2, <2>1, <2>2, <2>3 DEF TypeOK
<1>18. WorkShape'
  BY <1>1, <1>2, <1>3, <1>14 DEF WorkShape
<1>19. IdxLocked'
  <2>1. idxWr'[i] = {} /\ \A j \in Inserts : j # i => idxWr'[j] = idxWr[j]
    BY DEF EraseAndSetLoc, TypeOK
  <2>2. QED
    BY <1>1, <1>2, <2>1 DEF IdxLocked, ToLock
<1>20. HalfMoved'
  <2>1. ASSUME NEW j \in Inserts, j # i, pc[j] = "layout", NEW k \in DOMAIN nhood[j]
        PROVE  loc2id(layout', nbrLoc[j][k]) = nhood[j][k]
    <3>1. nbrLoc[j][k] \in (DOMAIN layout) \X Slots
          /\ loc2id(layout, nbrLoc[j][k]) = nhood[j][k]
          /\ nhood[j][k] \in Ids /\ nhood[j][k] \notin ToLock(i)
      BY <1>16, <2>1
    <3>2. nbrLoc[j][k] \notin Elems(nbrLoc[i])
      BY <1>5, <1>7, <3>1 DEF Elems, ToLock
    <3>3. nbrLoc[j][k] \notin Elems(locs[i])
      BY <1>8, <3>1, SentinelAssumption DEF Elems
    <3>4. QED
      BY <1>11, <3>1, <3>2, <3>3
  <2>2. \A j \in Inserts : pc'[j] \in {"locki", "update", "layout"} => j # i /\ pc'[j] = pc[j]
    BY <1>1
  <2>3. QED
    BY <1>2, <1>11, <2>1, <2>2 DEF HalfMoved
<1>21. Id2LocConsistent'
  <2>1. SUFFICES ASSUME NEW id \in PlacedIds \cup {i}, \A j \in Inserts : ~Moving(j, id)'
                 PROVE  /\ id2loc[id] # None
                        /\ id2loc[id][1] \in DOMAIN layout
                        /\ loc2id(layout', id2loc[id]) = id
    BY <1>2, <1>3, <1>11 DEF Id2LocConsistent, loc2id
  <2>2. id \in Ids
    BY <1>3, PlacedHasLoc
  <2>3. ASSUME NEW k \in DOMAIN locs[i], id2loc[id] = locs[i][k], ids[k] = id
        PROVE  /\ id2loc[id] # None
               /\ id2loc[id][1] \in DOMAIN layout
               /\ loc2id(layout', id2loc[id]) = id
    <3>1. locs[i][k] \in Locs /\ locs[i][k][1] \in DOMAIN layout
      BY <1>4, <1>8
    <3>2. locs[i][k] # None
      BY <3>1, SentinelAssumption DEF Locs
    <3>3. QED
      BY <1>11, <2>3, <3>1, <3>2
  <2>4. CASE id = i
    <3>1. id2loc[i] = locs[i][Len(nhood[i]) + 1] /\ Len(nhood[i]) + 1 \in DOMAIN locs[i]
      BY <1>1, <1>5 DEF HalfMoved
    <3>2. QED
      BY <1>6, <2>3, <2>4, <3>1
  <2>5. CASE id \in Elems(nhood[i])
    <3>1. PICK k \in DOMAIN nhood[i] : nhood[i][k] = id
      BY <2>5 DEF Elems
    <3>2. k \in DOMAIN locs[i] /\ k \in DOMAIN nbrLoc[i]
      BY <1>5
    <3>3. QED
      BY <1>6, <1>7, <2>3, <3>1, <3>2
  <2>6. CASE id # i /\ id \notin Elems(nhood[i])
    <3>1. \A j \in Inserts : ~Moving(j, id)
      BY <1>15, <2>1, <2>6 DEF Moving
    <3>2. /\ id2loc[id] # None /\ id2loc[id][1] \in DOMAIN layout
          /\ loc2id(layout, id2loc[id]) = id /\ id2loc[id] \in Locs
      BY <2>6, <3>1, PlacedHasLoc DEF Id2LocConsistent
    <3>3. id2loc[id] \in (DOMAIN layout) \X Slots
      BY <3>2 DEF Locs
    <3>4. id2loc[id] \notin Elems(nbrLoc[i])
      BY <1>5, <1>7, <2>6, <3>2 DEF Elems
    <3>5. id2loc[id] \notin Elems(locs[i])
      BY <1>8, <2>2, <3>2, SentinelAssumption DEF Elems
    <3>6. QED
      BY <1>11, <3>2, <3>3, <3>4, <3>5
  <2>7. QED
    BY <2>4, <2>5, <2>6
<1>22. Loc2IdExact'
  <2>1. SUFFICES ASSUME NEW l \in (DOMAIN layout) \X Slots,
                        NEW id \in Ids, loc2id(layout', l) = id
                 PROVE  /\ id \in PlacedIds'
                        /\ \/ id2loc[id] = l /\ \A j \in Inserts : ~Moving(j, id)'
                           \/ \E j \in Inserts : \E k \in DOMAIN nhood[j] :
                                 pc'[j] = "layout" /\ nhood[j][k] = id /\ nbrLoc[j][k] = l
    BY <1>2, <1>11 DEF Loc2IdExact, loc2id, Moving
  <2>2. l \notin Elems(nbrLoc[i])
    BY <1>11, <2>1, SentinelAssumption DEF Elems
  <2>3. ASSUME NEW k \in DOMAIN locs[i], l = locs[i][k], ids[k] = id
        PROVE  id \in PlacedIds' /\ id2loc[id] = l /\ \A j \in Inserts : ~Moving(j, id)'
    <3>1. id \in ToLock(i) => \A j \in Inserts : ~Moving(j, id)'
      BY <1>13, <1>15
    <3>2. CASE k = Len(nhood[i]) + 1
      BY <1>1, <1>3, <1>6, <2>3, <3>1, <3>2 DEF HalfMoved, ToLock
    <3>3. CASE k # Len(nhood[i]) + 1
      <4>1. k \in DOMAIN nhood[i] /\ k \in DOMAIN nbrLoc[i]
        BY <1>5, <3>3
      <4>2. id = nhood[i][k] /\ id \in Elems(nhood[i]) /\ id2loc[id] = l
        BY <1>6, <1>7, <2>3, <4>1 DEF Elems
      <4>3. id \in PlacedIds
        BY <1>1, <4>2 DEF WorkShape, Reserving
      <4>4. QED
        BY <1>3, <3>1, <4>2, <4>3 DEF ToLock
    <3>4. QED
      BY <3>2, <3>3
  <2>4. CASE l \notin Elems(locs[i])
    <3>1. loc2id(layout, l) = id
      BY <1>11, <2>1, <2>2, <2>4
    <3>2. id \in PlacedIds
      BY <2>1, <3>1 DEF Loc2IdExact
    <3>3. CASE id2loc[id] = l /\ \A j \in Inserts : ~Moving(j, id)
      BY <1>3, <1>15, <3>2, <3>3
    <3>4. CASE \E j \in Inserts : \E k \in DOMAIN nhood[j] :
                 pc[j] = "layout" /\ nhood[j][k] = id /\ nbrLoc[j][k] = l
      <4>1. PICK j \in Inserts : \E k \in DOMAIN nhood[j] :
                 pc[j] = "layout" /\ nhood[j][k] = id /\ nbrLoc[j][k] = l
        BY <3>4
      <4>2. j # i
        BY <1>5, <2>2, <4>1 DEF Elems
      <4>3. QED
        BY <1>1, <1>3, <3>2, <4>1, <4>2
    <3>5. QED
      BY <2>1, <3>1, <3>3, <3>4 DEF Loc2IdExact
  <2>5. QED
    BY <1>12, <2>1, <2>2, <2>3, <2>4
<1>23. EmptyPagesExact'
  <2> DEFINE e == Len(emptyPages)
  <2>1. /\ e \in Nat /\ Len(q) \in Nat /\ Len(emptyPages') = e + Len(q)
        /\ \A k \in 1 .. e : emptyPages'[k] = emptyPages[k] /\ emptyPages[k] \in DOMAIN layout
        /\ \A k \in e + 1 .. e + Len(q) : emptyPages'[k] = q[k - e] /\ k - e \in 1 .. Len(q)
        /\ DOMAIN emptyPages' = 1 .. e + Len(q) /\ DOMAIN q = 1 .. Len(q)
        /\ DOMAIN emptyPages = 1 .. e
    <3>1. emptyPages \in Seq(DOMAIN layout) /\ q \in Seq(DOMAIN layout)
      BY <1>a DEF TypeOK
    <3>2. QED
      BY <1>a, <3>1
  <2>2. ASSUME NEW p \in DOMAIN layout, IsEmptyPage(layout, p)
        PROVE  IsEmptyPage(layout', p)
    <3>1. ASSUME NEW s \in Slots PROVE layout'[p][s] = kInvalidID
      <4>1. <<p, s>> \in (DOMAIN layout) \X Slots /\ loc2id(layout, <<p, s>>) = kInvalidID
        BY <2>2 DEF IsEmptyPage, loc2id
      <4>2. loc2id(layout', <<p, s>>) = kInvalidID
        BY <1>8, <1>12, <4>1, SentinelAssumption
      <4>3. QED
        BY <4>2 DEF loc2id
    <3>2. QED
      BY <3>1 DEF IsEmptyPage
  <2>3. \A k \in 1 .. Len(emptyPages') : IsEmptyPage(layout', emptyPages'[k])
    <3>1. \A k \in 1 .. e : IsEmptyPage(layout', emptyPages'[k])
      BY <2>1, <2>2 DEF EmptyPagesExact
    <3>2. \A k \in e + 1 .. e + Len(q) : IsEmptyPage(layout', emptyPages'[k])
      BY <1>a, <2>1
    <3>3. QED
      BY <2>1, <3>1, <3>2
  <2>4. \A j, k \in 1 .. Len(emptyPages') : emptyPages'[j] = emptyPages'[k] => j = k
    <3>1. \A j, k \in 1 .. e : emptyPages'[j] = emptyPages'[k] => j = k
      BY <2>1 DEF EmptyPagesExact
    <3>2. \A j \in 1 .. e, k \in e + 1 .. e + Len(q) : emptyPages'[j] # emptyPages'[k]
      BY <1>a, <2>1 DEF EmptyPagesExact
    <3>3. \A j, k \in e + 1 .. e + Len(q) : emptyPages'[j] = emptyPages'[k] => j = k
      <4>1. TAKE j, k \in e + 1 .. e + Len(q)
      <4>2. HAVE emptyPages'[j] = emptyPages'[k]
      <4>3. j - e = k - e
        BY <1>a, <2>1, <4>2
      <4>4. QED
        BY <2>1, <4>3
    <3>4. \A j \in 1 .. Len(emptyPages') : j \in 1 .. e \/ j \in e + 1 .. e + Len(q)
      BY <2>1
    <3> HIDE DEF e
    <3>5. QED
      BY <3>1, <3>2, <3>3, <3>4
  <2>5. \A p \in DOMAIN layout : IsEmptyPage(layout', p) => p \in Elems(emptyPages')
    <3>1. Elems(emptyPages) \subseteq Elems(emptyPages')
      BY <2>1 DEF Elems
    <3>2. Elems(q) \subseteq Elems(emptyPages')
      <4>1. ASSUME NEW k \in 1 .. Len(q) PROVE q[k] \in Elems(emptyPages')
        <5>1. k + e \in e + 1 .. e + Len(q) /\ (k + e) - e = k /\ k + e \in DOMAIN emptyPages'
          BY <2>1
        <5>2. q[k] = emptyPages'[k + e]
          BY <2>1, <5>1
        <5>3. QED
          BY <5>1, <5>2 DEF Elems
      <4>2. QED
        BY <2>1, <4>1 DEF Elems
    <3>3. QED
      BY <1>a, <3>1, <3>2 DEF EmptyPagesExact
  <2>6. QED
    BY <1>11, <2>3, <2>4, <2>5 DEF EmptyPagesExact, IsEmptyPage
<1>24. ReservationsExact'
  <2>1. ASSUME NEW j \in Inserts, Reserving(j), j # i, NEW k \in DOMAIN locs[j]
        PROVE  locs[j][k][1] \in DOMAIN layout /\ loc2id(layout', locs[j][k]) = kAllocatedID
    <3>1. locs[j][k][1] \in DOMAIN layout /\ loc2id(layout, locs[j][k]) = kAllocatedID
      BY <2>1 DEF ReservationsExact
    <3>a. locs[j][k] \in Locs
      <4>1. locs[j] \in Seq(Locs)
        BY DEF TypeOK
      <4>2. QED
        BY <4>1
    <3>2. locs[j][k] \in (DOMAIN layout) \X Slots
      BY <3>1, <3>a DEF Locs
    <3>3. locs[j][k] \notin Elems(locs[i])
      BY <1>1, <2>1 DEF ReservationsExact, Reserving, Elems
    <3>4. locs[j][k] \notin Elems(nbrLoc[i])
      BY <1>5, <1>6, <1>7, <3>1, SentinelAssumption DEF Elems
    <3>5. QED
      BY <1>11, <3>1, <3>2, <3>3, <3>4
  <2>2. \A j, k \in Inserts : Reserving(j)' /\ Reserving(k)' =>
          \A m \in DOMAIN locs[j], n \in DOMAIN locs[k] :
             locs[j][m] = locs[k][n] => j = k /\ m = n
    BY <1>14 DEF ReservationsExact
  <2>3. ASSUME NEW l \in (DOMAIN layout) \X Slots, loc2id(layout', l) = kAllocatedID
        PROVE  \E j \in Inserts : Reserving(j)' /\ l \in Elems(locs[j])
    <3>1. l \notin Elems(locs[i]) /\ loc2id(layout, l) = kAllocatedID
      BY <1>6, <1>12, <2>3, SentinelAssumption
    <3>2. PICK j \in Inserts : Reserving(j) /\ l \in Elems(locs[j])
      BY <3>1 DEF ReservationsExact
    <3>3. QED
      BY <1>14, <3>1, <3>2
  <2>4. QED
    <3>1. \A j \in Inserts : Reserving(j)' => \A k \in DOMAIN locs[j] :
            locs[j][k][1] \in DOMAIN layout /\ loc2id(layout', locs[j][k]) = kAllocatedID
      BY <1>14, <2>1
    <3>2. QED
      BY <1>2, <1>11, <2>2, <2>3, <3>1 DEF ReservationsExact, loc2id
<1>25. QED
  BY <1>17, <1>18, <1>19, <1>20, <1>21, <1>22, <1>23, <1>24

(* A nonempty set of numbers has a least member. *)
LEMMA HasLeast ==
    ASSUME NEW S \in SUBSET Nat, S # {}
    PROVE  \E x \in S : \A y \in S : x <= y
<1>1. IsWellFoundedOn(OpToRel(<, Nat), Nat)
  BY NatLessThanWellFounded
<1>2. PICK x \in S : \A y \in S : ~(<<y, x>> \in OpToRel(<, Nat))
  BY <1>1, WFMin
<1>3. \A y \in S : ~(y < x) /\ y \in Nat /\ x \in Nat
  BY <1>2 DEF OpToRel
<1>4. QED
  BY <1>3

(* FirstIn finds the first occurrence. *)
LEMMA FirstInType ==
    ASSUME NEW s, Len(s) \in Nat, DOMAIN s = 1 .. Len(s), NEW p \in Elems(s)
    PROVE  FirstIn(s, p) \in 1 .. Len(s)
<1> DEFINE at == { k \in 1 .. Len(s) : s[k] = p }
<1>1. at # {} /\ at \in SUBSET Nat
  BY DEF Elems
<1>2. PICK k \in at : \A j \in at : k <= j
  <2> HIDE DEF at
  <2> QED BY <1>1, HasLeast
<1>3. k \in DOMAIN s /\ s[k] = p /\ \A j \in 1 .. k - 1 : s[j] # p
  <2>1. k \in 1 .. Len(s) /\ s[k] = p
    OBVIOUS
  <2>2. ASSUME NEW j \in 1 .. k - 1, s[j] = p PROVE FALSE
    <3>1. j \in at
      BY <2>1, <2>2
    <3>2. k <= j
      BY <1>2, <3>1
    <3>3. QED
      BY <2>1, <3>2
  <2>3. QED
    BY <2>1, <2>2
<1>4. QED
  BY <1>3 DEF FirstIn

(* What alloc_loc hands out: n different free slots, and when they reach a  *)
(* fresh sector, every fresh sector before it.                              *)
LEMMA AllocExact ==
    ASSUME NEW lay, NEW empty, NEW cur \in Nat \ {0}, NEW hint, NEW n \in Nat \ {0},
           DOMAIN lay = 1 .. cur - 1,
           empty \in Seq(1 .. cur - 1), hint \in Seq(Nat),
           NEW l \in alloc_loc(lay, empty, cur, hint, n)
    PROVE  /\ l \in Seq(FreeLocs(lay, empty, cur, hint, n)) /\ Len(l) = n
           /\ \A j, k \in 1 .. n : l[j] = l[k] => j = k
           /\ \A p, r \in Nat : r \in PagesOf(l) /\ cur <= p /\ p <= r => p \in PagesOf(l)
<1> DEFINE free == FreeLocs(lay, empty, cur, hint, n)
           rank(p) == PageRank(empty, cur, hint, p)
           ranked == { [rank |-> rank(f[1]), loc |-> f] : f \in free }
           before(a, b) == a.rank < b.rank \/ (a.rank = b.rank /\ a.loc[2] < b.loc[2])
           near == { f \in ranked : Cardinality({ g \in ranked : before(g, f) }) < n }
<1>1. PICK r \in [1 .. n -> near] :
        /\ \A j, k \in 1 .. n : j < k => before(r[j], r[k])
        /\ \A f \in ranked : before(f, r[n]) => \E k \in 1 .. n : r[k] = f
        /\ l = [ k \in 1 .. n |-> r[k].loc ]
  BY DEF alloc_loc
<1>2. \A k \in 1 .. n : r[k] \in ranked
  <2>1. near \subseteq ranked
    OBVIOUS
  <2> HIDE DEF near, ranked
  <2> QED BY <1>1, <2>1
<1> HIDE DEF near
<1>3. free \subseteq Nat \X Slots
  <2>1. QueueLocs(empty) \subseteq Nat \X Slots
    BY DEF QueueLocs, Elems
  <2>2. HintLocs(lay, empty, hint) \subseteq Nat \X Slots
    BY DEF HintLocs, HintPages
  <2>3. FreshLocs(cur, n) \subseteq Nat \X Slots
    BY NnodesAssumption DEF FreshLocs
  <2>4. QED
    BY <2>1, <2>2, <2>3 DEF FreeLocs
<1>a. /\ Len(empty) \in Nat /\ DOMAIN empty = 1 .. Len(empty)
      /\ Len(hint) \in Nat /\ DOMAIN hint = 1 .. Len(hint)
      /\ Elems(empty) \subseteq 1 .. cur - 1
  BY DEF Elems
<1>b. \A p \in Nat : cur <= p => rank(p) = Len(empty) + Len(hint) + p
  BY <1>a DEF PageRank
<1>4. \A f \in free : rank(f[1]) \in Int /\ f[2] \in Int
  <2>1. TAKE f \in free
  <2>2. f[1] \in Nat /\ f[2] \in Int
    BY <1>3, NnodesAssumption DEF Slots
  <2>3. CASE f[1] \in Elems(empty)
    <3>1. FirstIn(empty, f[1]) \in Int
      BY <1>a, <2>3, FirstInType
    <3>2. QED
      BY <2>2, <2>3, <3>1 DEF PageRank
  <2>4. CASE f[1] \notin Elems(empty) /\ f[1] < cur
    <3>1. f \notin QueueLocs(empty) /\ f \notin FreshLocs(cur, n)
      BY <2>2, <2>4 DEF QueueLocs, FreshLocs
    <3>2. f[1] \in Elems(hint)
      BY <3>1 DEF FreeLocs, HintLocs, HintPages
    <3>3. FirstIn(hint, f[1]) \in Int
      BY <1>a, <3>2, FirstInType
    <3>4. QED
      BY <1>a, <2>2, <2>4, <3>3 DEF PageRank
  <2>5. CASE f[1] \notin Elems(empty) /\ ~(f[1] < cur)
    BY <1>a, <1>b, <2>2, <2>5
  <2>6. QED
    BY <2>2, <2>3, <2>4, <2>5
<1>5. \A k \in 1 .. n : /\ r[k] = [rank |-> rank(l[k][1]), loc |-> l[k]] /\ l[k] \in free
                        /\ r[k].rank \in Int /\ r[k].loc[2] \in Int
                        /\ r[k].rank = rank(l[k][1]) /\ r[k].loc = l[k]
  <2>1. TAKE k \in 1 .. n
  <2>2. l[k] = r[k].loc
    BY <1>1
  <2>3. PICK f \in free : r[k] = [rank |-> rank(f[1]), loc |-> f]
    BY <1>2
  <2> HIDE DEF free, rank
  <2>4. QED
    BY <1>4, <2>2, <2>3
<1> HIDE DEF free, rank
<1>6. \A j, k \in 1 .. n : j < k => l[j] # l[k]
  <2>1. SUFFICES ASSUME NEW j \in 1 .. n, NEW k \in 1 .. n, j < k, l[j] = l[k]
                 PROVE  FALSE
    OBVIOUS
  <2>2. before(r[j], r[k])
    <3> HIDE DEF before
    <3> QED BY <1>1, <2>1
  <2>3. r[j].rank = r[k].rank /\ r[j].loc[2] = r[k].loc[2] /\ r[j].rank \in Int /\ r[j].loc[2] \in Int
    <3>1. r[j].rank = rank(l[j][1]) /\ r[j].loc = l[j] /\ r[j].rank \in Int /\ r[j].loc[2] \in Int
      BY <1>5
    <3>2. r[k].rank = rank(l[k][1]) /\ r[k].loc = l[k]
      BY <1>5
    <3>3. QED
      BY <2>1, <3>1, <3>2
  <2>4. QED
    BY <2>2, <2>3
<1>7. \A j, k \in 1 .. n : l[j] = l[k] => j = k
  BY <1>6
<1>8. l \in Seq(free) /\ Len(l) = n /\ DOMAIN l = 1 .. n
  <2>1. l = [ k \in 1 .. n |-> l[k] ] /\ \A k \in 1 .. n : l[k] \in free
    BY <1>1, <1>5
  <2>2. l \in [1 .. n -> free]
    BY <2>1
  <2>3. QED
    BY <2>2
<1>9. ASSUME NEW p \in Nat, NEW q \in Nat, q \in PagesOf(l), cur <= p, p <= q
      PROVE  p \in PagesOf(l)
  <2>1. PICK k \in 1 .. n : l[k][1] = q
    BY <1>8, <1>9 DEF PagesOf
  <2>2. CASE p = q
    BY <1>9, <2>2
  <2>3. CASE p < q
    <3> DEFINE f == <<p, 0>>
               g == [rank |-> rank(p), loc |-> f]
    <3>1. f \in free
      <4>1. l[k] \in free /\ l[k][1] = q /\ q > cur
        BY <1>5, <1>9, <2>1, <2>3
      <4>2. l[k] \in FreshLocs(cur, n)
        <5>1. l[k] \notin QueueLocs(empty)
          BY <1>a, <4>1 DEF QueueLocs
        <5>2. l[k] \notin HintLocs(lay, empty, hint)
          BY <4>1 DEF HintLocs, HintPages
        <5>3. QED
          BY <4>1, <5>1, <5>2 DEF free, FreeLocs
      <4>3. q \in cur .. cur + (n - 1) \div nnodes_per_sector
        BY <4>1, <4>2 DEF FreshLocs
      <4>4. p \in cur .. cur + (n - 1) \div nnodes_per_sector /\ 0 \in Slots
        BY <1>9, <4>3, NnodesAssumption DEF Slots
      <4>5. QED
        BY <4>4 DEF free, FreeLocs, FreshLocs
    <3>2. g \in ranked /\ g.rank = rank(p) /\ g.loc = f
      BY <3>1
    <3>3. rank(p) < rank(q) /\ rank(p) \in Int /\ rank(q) \in Int
      BY <1>a, <1>b, <1>9, <2>3
    <3>4. rank(q) <= r[n].rank /\ r[n].rank \in Int
      <4>1. CASE k = n
        BY <1>5, <2>1, <4>1
      <4>2. CASE k < n
        <5>0. n \in 1 .. n
          OBVIOUS
        <5>1. before(r[k], r[n]) /\ n \in 1 .. n
          <6> HIDE DEF before
          <6> QED BY <1>1, <4>2, <5>0
        <5>2. r[k].rank = rank(q)
          BY <1>5, <2>1
        <5>3. QED
          BY <1>5, <5>1, <5>2
      <4>3. QED
        BY <4>1, <4>2
    <3>5. before(g, r[n])
      BY <3>2, <3>3, <3>4
    <3>6. PICK j \in 1 .. n : r[j] = g
      <4> HIDE DEF before, g, ranked
      <4> QED BY <1>1, <3>2, <3>5
    <3>7. l[j] = f
      BY <1>5, <3>2, <3>6
    <3>8. l[j][1] = p /\ j \in DOMAIN l
      BY <1>8, <3>7
    <3>9. QED
      BY <3>8 DEF PagesOf
  <2>4. QED
    BY <1>9, <2>2, <2>3
<1>10. QED
  BY <1>7, <1>8, <1>9 DEF free

(* IInv is kept when alloc_loc reserves slots: it takes holes only, so it   *)
(* touches no record and no other reservation.                              *)
LEMMA AllocLocKeeps ==
    ASSUME IInv, NEW i \in Inserts, AllocLoc(i)
    PROVE  IInv'
<1> USE DEF IInv, lockVars, bgVars
<1>1. /\ pc \in [Inserts -> Labels] /\ pc' \in [Inserts -> Labels]
      /\ \A j \in Inserts : j # i => pc'[j] = pc[j]
      /\ pc[i] = "search" /\ pc'[i] = "lockp"
  BY DEF AllocLoc, Goto, TypeOK, Labels
<1>2. UNCHANGED <<curId, id2loc, hints, nbrLoc, lockVars, bgVars>>
  BY DEF AllocLoc
<1>3. PICK m \in NhoodSizes(visited[i]) :
         \E l \in alloc_loc(layout, emptyPages, curPage, hints[i], m + 1),
            n \in Nhoods(visited[i], m),
            last \in curPage - 1 .. curPage + m, popped \in 0 .. Len(emptyPages) :
           /\ \A p \in PagesOf(l) : p <= last
           /\ last >= curPage => last \in PagesOf(l)
           /\ \A k \in 1 .. Len(emptyPages) :
                (emptyPages[k] \in PagesOf(l)) <=> (k <= popped)
           /\ nhood' = [nhood EXCEPT ![i] = n]
           /\ locs' = [locs EXCEPT ![i] = l]
           /\ needRead' = [needRead EXCEPT ![i] =
                             page_need_to_read(layout, emptyPages, hints[i], l)]
           /\ layout' = Reserve(layout, l, last)
           /\ curPage' = last + 1
           /\ emptyPages' = SubSeq(emptyPages, popped + 1, Len(emptyPages))
  BY DEF AllocLoc
<1>4. PICK l \in alloc_loc(layout, emptyPages, curPage, hints[i], m + 1),
           n \in Nhoods(visited[i], m),
           last \in curPage - 1 .. curPage + m, popped \in 0 .. Len(emptyPages) :
           /\ \A p \in PagesOf(l) : p <= last
           /\ last >= curPage => last \in PagesOf(l)
           /\ \A k \in 1 .. Len(emptyPages) :
                (emptyPages[k] \in PagesOf(l)) <=> (k <= popped)
           /\ nhood' = [nhood EXCEPT ![i] = n]
           /\ locs' = [locs EXCEPT ![i] = l]
           /\ needRead' = [needRead EXCEPT ![i] =
                             page_need_to_read(layout, emptyPages, hints[i], l)]
           /\ layout' = Reserve(layout, l, last)
           /\ curPage' = last + 1
           /\ emptyPages' = SubSeq(emptyPages, popped + 1, Len(emptyPages))
  BY <1>3
<1>5. /\ curPage \in Nat \ {0} /\ DOMAIN layout = 1 .. curPage - 1
      /\ emptyPages \in Seq(1 .. curPage - 1) /\ hints[i] \in Seq(Nat)
      /\ m \in Nat /\ m + 1 \in Nat \ {0} /\ last \in Nat /\ curPage - 1 <= last
  BY DEF TypeOK, NhoodSizes
<1>6. /\ l \in Seq(FreeLocs(layout, emptyPages, curPage, hints[i], m + 1)) /\ Len(l) = m + 1
      /\ \A j, k \in 1 .. m + 1 : l[j] = l[k] => j = k
      /\ \A p, r \in Nat : r \in PagesOf(l) /\ curPage <= p /\ p <= r => p \in PagesOf(l)
  BY <1>5, AllocExact
<1>7. DOMAIN l = 1 .. m + 1
  BY <1>6
(* The slots handed out are holes of page_layout or lie on fresh sectors. *)
<1>8. \A k \in 1 .. m + 1 :
        /\ l[k] \in (1 .. last) \X Slots
        /\ l[k][1] \in DOMAIN layout => loc2id(layout, l[k]) = kInvalidID
  <2>1. TAKE k \in 1 .. m + 1
  <2>2. l[k] \in FreeLocs(layout, emptyPages, curPage, hints[i], m + 1)
    BY <1>6, <1>7
  <2>3. l[k][1] <= last
    BY <1>4, <1>7 DEF PagesOf
  <2>4. CASE l[k] \in QueueLocs(emptyPages)
    <3>0. l[k][1] \in Elems(emptyPages) /\ DOMAIN emptyPages = 1 .. Len(emptyPages)
      BY <1>5, <2>4 DEF QueueLocs
    <3>1. PICK j \in 1 .. Len(emptyPages) : l[k][1] = emptyPages[j]
      BY <3>0 DEF Elems
    <3>a. emptyPages[j] \in 1 .. curPage - 1
      BY <1>5, <3>1, ElementOfSeq
    <3>b. l[k][2] \in Slots /\ l[k] = <<l[k][1], l[k][2]>>
      BY <2>4 DEF QueueLocs
    <3>2. l[k][1] \in 1 .. curPage - 1 /\ l[k][2] \in Slots /\ l[k] = <<l[k][1], l[k][2]>>
      BY <3>1, <3>a, <3>b
    <3>3. layout[l[k][1]][l[k][2]] = kInvalidID
      BY <3>1, <3>2 DEF EmptyPagesExact, IsEmptyPage
    <3>4. l[k] \in (1 .. last) \X Slots
      <4>1. l[k][1] \in 1 .. last
        BY <1>5, <2>3, <3>2
      <4>2. QED
        BY <4>1, <3>2
    <3>5. QED
      BY <3>3, <3>4 DEF loc2id
  <2>5. CASE l[k] \in HintLocs(layout, emptyPages, hints[i])
    <3>1. /\ l[k][1] \in 1 .. curPage - 1 /\ l[k][2] \in Slots /\ l[k] = <<l[k][1], l[k][2]>>
          /\ loc2id(layout, l[k]) = kInvalidID
      BY <1>5, <2>5 DEF HintLocs, HintPages
    <3>2. l[k] \in (1 .. last) \X Slots
      <4>1. l[k][1] \in 1 .. last
        BY <1>5, <2>3, <3>1
      <4>2. QED
        BY <4>1, <3>1
    <3>3. QED
      BY <3>1, <3>2
  <2>6. CASE l[k] \in FreshLocs(curPage, m + 1)
    <3>1. /\ l[k][1] >= curPage /\ l[k][1] \in Int
          /\ l[k][2] \in Slots /\ l[k] = <<l[k][1], l[k][2]>>
      BY <1>5, <2>6 DEF FreshLocs
    <3>2. l[k] \in (1 .. last) \X Slots
      <4>1. l[k][1] \in 1 .. last
        BY <1>5, <2>3, <3>1
      <4>2. QED
        BY <4>1, <3>1
    <3>3. QED
      BY <1>5, <3>1, <3>2
  <2>7. QED
    BY <2>2, <2>4, <2>5, <2>6 DEF FreeLocs
(* page_layout afterwards, slot by slot. *)
<1>9. /\ DOMAIN layout' = 1 .. last /\ DOMAIN layout \subseteq 1 .. last
      /\ \A p \in 1 .. last, s \in Slots :
           layout'[p][s] = IF <<p, s>> \in Elems(l) THEN kAllocatedID
                           ELSE IF p \in DOMAIN layout THEN layout[p][s]
                           ELSE kInvalidID
  BY <1>4, <1>5 DEF Reserve
<1>10. \A x \in Elems(l) : x \in (1 .. last) \X Slots /\ loc2id(layout', x) = kAllocatedID
  <2>1. TAKE x \in Elems(l)
  <2>2. x \in (1 .. last) \X Slots
    BY <1>7, <1>8 DEF Elems
  <2>3. x = <<x[1], x[2]>> /\ x[1] \in 1 .. last /\ x[2] \in Slots
    BY <2>2
  <2>4. QED
    BY <1>9, <2>2, <2>3 DEF loc2id
<1>11. \A x \in (DOMAIN layout) \X Slots :
         /\ loc2id(layout, x) # kInvalidID => x \notin Elems(l)
         /\ x \notin Elems(l) => loc2id(layout', x) = loc2id(layout, x)
  <2>1. TAKE x \in (DOMAIN layout) \X Slots
  <2>2. x = <<x[1], x[2]>> /\ x[1] \in 1 .. last /\ x[2] \in Slots /\ x[1] \in DOMAIN layout
    BY <1>9
  <2>3. loc2id(layout, x) # kInvalidID => x \notin Elems(l)
    BY <1>7, <1>8, <2>2 DEF Elems
  <2>4. x \notin Elems(l) => loc2id(layout', x) = loc2id(layout, x)
    BY <1>9, <2>2 DEF loc2id
  <2>5. QED
    BY <2>3, <2>4
<1>12. \A x \in (1 .. last) \X Slots :
         \/ x \in Elems(l) /\ loc2id(layout', x) = kAllocatedID
         \/ x \in (DOMAIN layout) \X Slots /\ loc2id(layout', x) = loc2id(layout, x)
         \/ loc2id(layout', x) = kInvalidID
  <2>1. TAKE x \in (1 .. last) \X Slots
  <2>2. x = <<x[1], x[2]>> /\ x[1] \in 1 .. last /\ x[2] \in Slots
    OBVIOUS
  <2>3. QED
    BY <1>9, <1>10, <2>2 DEF loc2id
<1>13. \A j \in Inserts : Reserving(j)' <=> Reserving(j) \/ j = i
  BY <1>1 DEF Reserving
<1>14. ~Reserving(i) /\ i \notin PlacedIds /\ PlacedIds' = PlacedIds
  BY <1>1, NumAssumption DEF Reserving, PlacedIds, Inserts
<1>15. /\ \A j \in Inserts : j # i => nhood'[j] = nhood[j] /\ locs'[j] = locs[j]
                                      /\ visited'[j] = visited[j]
       /\ nhood'[i] = n /\ locs'[i] = l /\ visited'[i] = {}
  <2>1. nhood \in [Inserts -> Seq(Ids)] /\ locs \in [Inserts -> Seq(Locs)]
        /\ visited \in [Inserts -> SUBSET Ids]
    BY DEF TypeOK
  <2>2. visited' = [visited EXCEPT ![i] = {}]
    BY DEF AllocLoc
  <2>3. QED
    BY <1>4, <2>1, <2>2
<1>16. /\ n \in Seq(Ids) /\ Len(n) = m /\ DOMAIN n = 1 .. m
       /\ Elems(n) \subseteq visited[i]
       /\ \A j, k \in 1 .. m : n[j] = n[k] => j = k
  <2>1. visited[i] \subseteq Ids
    BY DEF TypeOK
  <2>2. n \in [1 .. m -> visited[i]] /\ \A j, k \in 1 .. m : n[j] = n[k] => j = k
    BY DEF Nhoods
  <2>3. n \in Seq(Ids) /\ Len(n) = m /\ DOMAIN n = 1 .. m
    <3>1. n \in [1 .. m -> Ids] /\ m \in Nat
      BY <1>5, <2>1, <2>2
    <3>2. QED
      BY <3>1, IsASeq
  <2>4. QED
    BY <2>2, <2>3 DEF Elems
<1>17. \A j \in Inserts : \A id : Moving(j, id)' <=> Moving(j, id)
  BY <1>1, <1>15 DEF Moving
<1>18. TypeOK'
  <2>1. layout' \in [1 .. curPage' - 1 -> [Slots -> Ids \cup {kInvalidID, kAllocatedID}]]
    <3>1. curPage' - 1 = last
      BY <1>4, <1>5
    <3>2. layout' \in [1 .. last -> [Slots -> Ids \cup {kInvalidID, kAllocatedID}]]
      <4>1. \A p \in DOMAIN layout, s \in Slots :
              layout[p][s] \in Ids \cup {kInvalidID, kAllocatedID}
        BY <1>5 DEF TypeOK
      <4>2. QED
        BY <1>4, <4>1 DEF Reserve
    <3>3. QED
      BY <3>1, <3>2
  <2>2. emptyPages' \in Seq(1 .. curPage' - 1)
    <3>1. 1 .. curPage - 1 \subseteq 1 .. curPage' - 1
      BY <1>4, <1>5
    <3>2. emptyPages \in Seq(1 .. curPage' - 1)
      <4>1. emptyPages \in Seq(1 .. curPage - 1)
        BY <1>5
      <4>2. QED
        BY <3>1, <4>1, SeqMonotonic, Zenon
    <3>3. QED
      BY <1>4, <3>2
  <2>3. locs' \in [Inserts -> Seq(Locs)]
    <3>1. \A k \in 1 .. m + 1 : l[k] \in Locs
      BY <1>8 DEF Locs
    <3>2. l \in Seq(Locs)
      BY <1>5, <1>6, <1>7, <3>1
    <3>3. QED
      BY <1>4, <3>2 DEF TypeOK
  <2>4. nhood' \in [Inserts -> Seq(Ids)] /\ visited' \in [Inserts -> SUBSET Ids]
    BY <1>4, <1>16 DEF AllocLoc, TypeOK
  <2>5. needRead' \in [Inserts -> SUBSET Nat]
    <3>1. page_need_to_read(layout, emptyPages, hints[i], l) \subseteq Nat
      BY <1>5 DEF page_need_to_read, HintPages
    <3>2. QED
      BY <1>4, <3>1 DEF TypeOK
  <2>6. curPage' \in Nat \ {0}
    BY <1>4, <1>5
  <2>7. QED
    BY <1>1, <1>2, <2>1, <2>2, <2>3, <2>4, <2>5, <2>6 DEF TypeOK
<1>19. WorkShape'
  <2>1. Elems(n) \subseteq PlacedIds
    BY <1>16 DEF WorkShape
  <2>2. \A j \in Inserts : pc'[j] = "layout" => j # i /\ pc[j] = "layout"
    BY <1>1
  <2>3. ASSUME NEW j \in Inserts, Reserving(j)'
        PROVE  /\ Len(locs'[j]) = Len(nhood'[j]) + 1
               /\ Elems(nhood'[j]) \subseteq PlacedIds'
               /\ \A a, b \in DOMAIN nhood'[j] : nhood'[j][a] = nhood'[j][b] => a = b
    <3>1. CASE j = i
      BY <1>6, <1>14, <1>15, <1>16, <2>1, <3>1
    <3>2. CASE j # i
      BY <1>13, <1>14, <1>15, <2>3, <3>2 DEF WorkShape
    <3>3. QED
      BY <3>1, <3>2
  <2>4. \A j \in Inserts : visited'[j] \cup idxRd'[j] \subseteq PlacedIds'
    BY <1>2, <1>14, <1>15 DEF WorkShape
  <2>5. \A j \in Inserts : pc'[j] = "layout" => Len(nbrLoc'[j]) = Len(nhood'[j])
    BY <1>2, <1>15, <2>2 DEF WorkShape
  <2>6. QED
    BY <2>3, <2>4, <2>5 DEF WorkShape
<1>20. IdxLocked'
  <2>1. \A j \in Inserts : j # i => ToLock(j)' = ToLock(j)
    BY <1>15 DEF ToLock
  <2>2. QED
    BY <1>1, <1>2, <2>1 DEF IdxLocked
<1>21. HalfMoved'
  <2>1. ASSUME NEW j \in Inserts, j # i, pc[j] = "layout", NEW k \in DOMAIN nhood[j]
        PROVE  /\ nbrLoc[j][k][1] \in DOMAIN layout'
               /\ loc2id(layout', nbrLoc[j][k]) = nhood[j][k]
    <3>1. /\ nbrLoc[j] \in Seq(Locs) /\ nhood[j] \in Seq(Ids)
          /\ Len(nbrLoc[j]) = Len(nhood[j])
      BY <2>1 DEF TypeOK, WorkShape
    <3>2. nbrLoc[j][k] \in Locs /\ nhood[j][k] \in Ids
      BY <3>1
    <3>3. nbrLoc[j][k] \in (DOMAIN layout) \X Slots /\ loc2id(layout, nbrLoc[j][k]) = nhood[j][k]
      BY <2>1, <3>2 DEF HalfMoved, Locs
    <3>4. QED
      BY <1>9, <1>11, <3>2, <3>3, SentinelAssumption
  <2>2. \A j \in Inserts : pc'[j] \in {"locki", "update", "layout"} => j # i /\ pc'[j] = pc[j]
    BY <1>1
  <2>3. QED
    BY <1>2, <1>15, <2>1, <2>2 DEF HalfMoved
<1>22. Id2LocConsistent'
  <2>1. SUFFICES ASSUME NEW id \in PlacedIds, \A j \in Inserts : ~Moving(j, id)
                 PROVE  /\ id2loc[id] # None
                        /\ id2loc[id][1] \in DOMAIN layout'
                        /\ loc2id(layout', id2loc[id]) = id
    BY <1>2, <1>14, <1>17 DEF Id2LocConsistent
  <2>2. id \in Ids /\ id2loc[id] \in Locs
    BY PlacedHasLoc
  <2>3. /\ id2loc[id] # None /\ id2loc[id][1] \in DOMAIN layout
        /\ loc2id(layout, id2loc[id]) = id
    BY <2>1 DEF Id2LocConsistent
  <2>4. id2loc[id] \in (DOMAIN layout) \X Slots
    BY <2>2, <2>3 DEF Locs
  <2>5. QED
    BY <1>9, <1>11, <2>2, <2>3, <2>4, SentinelAssumption
<1>23. Loc2IdExact'
  <2>1. SUFFICES ASSUME NEW x \in (1 .. last) \X Slots,
                        NEW id \in Ids, loc2id(layout', x) = id
                 PROVE  /\ id \in PlacedIds
                        /\ \/ id2loc[id] = x /\ \A j \in Inserts : ~Moving(j, id)
                           \/ \E j \in Inserts : \E k \in DOMAIN nhood'[j] :
                                 pc'[j] = "layout" /\ nhood'[j][k] = id /\ nbrLoc[j][k] = x
    BY <1>2, <1>9, <1>14, <1>17 DEF Loc2IdExact
  <2>2. x \in (DOMAIN layout) \X Slots /\ loc2id(layout, x) = id
    BY <1>12, <2>1, SentinelAssumption
  <2>3. \A j \in Inserts : pc[j] = "layout" => nhood'[j] = nhood[j] /\ pc'[j] = pc[j]
    BY <1>1, <1>15
  <2>4. QED
    BY <2>1, <2>2, <2>3 DEF Loc2IdExact
<1>24. EmptyPagesExact'
  <2> DEFINE e == Len(emptyPages)
  <2>1. /\ e \in Nat /\ popped \in 0 .. e /\ Len(emptyPages') = e - popped
        /\ DOMAIN emptyPages' = 1 .. e - popped /\ DOMAIN emptyPages = 1 .. e
        /\ \A k \in 1 .. e - popped : emptyPages'[k] = emptyPages[popped + k]
                                      /\ popped + k \in 1 .. e /\ popped + k > popped
    <3>1. emptyPages' = SubSeq(emptyPages, popped + 1, e)
      BY <1>4
    <3>2. e \in Nat /\ DOMAIN emptyPages = 1 .. e
      BY <1>5
    <3>3. popped \in 0 .. e /\ popped \in Nat
      BY <3>2
    <3> HIDE DEF e
    <3>4. /\ Len(emptyPages') = e - popped /\ DOMAIN emptyPages' = 1 .. e - popped
          /\ \A k \in 1 .. e - popped : emptyPages'[k] = emptyPages[popped + k]
      <4>1. \A k \in popped + 1 .. e : emptyPages[k] \in Nat
        BY <1>5, <3>2, <3>3 DEF e
      <4>2. /\ emptyPages' \in Seq(Nat)
            /\ Len(emptyPages') = IF popped + 1 <= e THEN e - (popped + 1) + 1 ELSE 0
            /\ \A k \in 1 .. e - (popped + 1) + 1 : emptyPages'[k] = emptyPages[(popped + 1) + k - 1]
        <5>1. popped + 1 \in Int /\ e \in Int
          BY <3>2, <3>3
        <5>2. QED
          BY <3>1, <4>1, <5>1, SubSeqProperties
      <4>3. QED
        BY <3>2, <3>3, <4>2
    <3>5. \A k \in 1 .. e - popped : popped + k \in 1 .. e /\ popped + k > popped
      BY <3>2, <3>3
    <3>6. QED
      BY <3>2, <3>3, <3>4, <3>5
  <2>2. \A p \in DOMAIN layout : p \notin PagesOf(l) =>
          (IsEmptyPage(layout', p) <=> IsEmptyPage(layout, p))
    <3>1. TAKE p \in DOMAIN layout
    <3>2. HAVE p \notin PagesOf(l)
    <3>3. \A s \in Slots : <<p, s>> \notin Elems(l)
      BY <3>2 DEF PagesOf, Elems
    <3>4. \A s \in Slots : layout'[p][s] = layout[p][s]
      BY <1>9, <3>3
    <3>5. QED
      BY <3>4 DEF IsEmptyPage
  <2>3. \A p \in PagesOf(l) : ~IsEmptyPage(layout', p)
    <3>1. TAKE p \in PagesOf(l)
    <3>2. PICK k \in DOMAIN l : l[k][1] = p
      BY DEF PagesOf
    <3>3. l[k] \in Elems(l) /\ l[k][2] \in Slots
      BY <1>7, <1>8 DEF Elems
    <3>4. layout'[p][l[k][2]] = kAllocatedID
      BY <1>10, <3>2, <3>3 DEF loc2id
    <3>5. QED
      BY <3>3, <3>4, SentinelAssumption DEF IsEmptyPage
  <2>4. \A k \in 1 .. Len(emptyPages') : IsEmptyPage(layout', emptyPages'[k])
    <3>1. TAKE k \in 1 .. Len(emptyPages')
    <3>2. /\ emptyPages'[k] = emptyPages[popped + k] /\ popped + k \in 1 .. e
          /\ ~(popped + k <= popped)
      BY <2>1
    <3>3. emptyPages[popped + k] \notin PagesOf(l) /\ emptyPages[popped + k] \in DOMAIN layout
      <4>1. emptyPages[popped + k] \in 1 .. curPage - 1
        BY <1>5, <3>2, ElementOfSeq
      <4>2. emptyPages[popped + k] \notin PagesOf(l)
        BY <1>4, <3>2
      <4>3. QED
        BY <1>5, <4>1, <4>2
    <3>4. QED
      BY <2>2, <3>2, <3>3 DEF EmptyPagesExact
  <2>5. \A j, k \in 1 .. Len(emptyPages') : emptyPages'[j] = emptyPages'[k] => j = k
    <3>1. TAKE j, k \in 1 .. Len(emptyPages')
    <3>2. HAVE emptyPages'[j] = emptyPages'[k]
    <3>3. popped + j = popped + k
      BY <2>1, <3>2 DEF EmptyPagesExact
    <3>4. QED
      BY <2>1, <3>3
  <2>6. ASSUME NEW p \in 1 .. last, IsEmptyPage(layout', p)
        PROVE  p \in Elems(emptyPages')
    <3>1. p \notin PagesOf(l)
      BY <2>3, <2>6
    <3>2. p < curPage
      BY <1>4, <1>5, <1>6, <3>1
    <3>3. p \in DOMAIN layout /\ IsEmptyPage(layout, p)
      <4>1. p \in DOMAIN layout
        BY <1>5, <2>6, <3>2
      <4>2. QED
        BY <2>2, <2>6, <3>1, <4>1
    <3>4. p \in Elems(emptyPages)
      BY <3>3 DEF EmptyPagesExact
    <3>5. PICK k \in 1 .. e : emptyPages[k] = p
      BY <2>1, <3>4 DEF Elems
    <3>6. ~(k <= popped)
      BY <1>4, <3>1, <3>5
    <3>7. k - popped \in 1 .. e - popped /\ popped + (k - popped) = k
      BY <2>1, <3>6
    <3>8. emptyPages'[k - popped] = p /\ k - popped \in DOMAIN emptyPages'
      BY <2>1, <3>5, <3>7
    <3>9. QED
      BY <3>8 DEF Elems
  <2>7. QED
    BY <1>9, <2>4, <2>5, <2>6 DEF EmptyPagesExact
<1>25. ReservationsExact'
  <2>1. ASSUME NEW j \in Inserts, Reserving(j), NEW k \in DOMAIN locs[j]
        PROVE  /\ locs[j][k][1] \in 1 .. last /\ loc2id(layout', locs[j][k]) = kAllocatedID
               /\ locs[j][k] \notin Elems(l)
    <3>1. locs[j][k][1] \in DOMAIN layout /\ loc2id(layout, locs[j][k]) = kAllocatedID
      BY <2>1 DEF ReservationsExact
    <3>a. locs[j][k] \in Locs
      <4>1. locs[j] \in Seq(Locs)
        BY DEF TypeOK
      <4>2. QED
        BY <4>1
    <3>2. locs[j][k] \in (DOMAIN layout) \X Slots
      BY <3>1, <3>a DEF Locs
    <3>3. QED
      BY <1>9, <1>11, <3>1, <3>2, SentinelAssumption
  <2>2. ASSUME NEW j \in Inserts, Reserving(j)', NEW k \in DOMAIN locs'[j]
        PROVE  locs'[j][k][1] \in 1 .. last /\ loc2id(layout', locs'[j][k]) = kAllocatedID
    <3>1. CASE j = i
      <4>1. locs'[j][k] \in Elems(l)
        BY <1>15, <2>2, <3>1 DEF Elems
      <4>2. QED
        BY <1>10, <4>1
    <3>2. CASE j # i
      BY <1>13, <1>15, <2>1, <2>2, <3>2
    <3>3. QED
      BY <3>1, <3>2
  <2>3. ASSUME NEW j \in Inserts, NEW k \in Inserts, Reserving(j)', Reserving(k)',
               NEW a \in DOMAIN locs'[j], NEW b \in DOMAIN locs'[k], locs'[j][a] = locs'[k][b]
        PROVE  j = k /\ a = b
    <3>1. CASE j = i /\ k = i
      BY <1>6, <1>7, <1>15, <2>3, <3>1
    <3>2. CASE j # i /\ k # i
      BY <1>13, <1>15, <2>3, <3>2 DEF ReservationsExact
    <3>3. CASE j = i /\ k # i
      <4>1. locs'[j][a] \in Elems(l)
        BY <1>15, <2>3, <3>3 DEF Elems
      <4>2. locs'[k][b] \notin Elems(l)
        BY <1>13, <1>15, <2>1, <2>3, <3>3
      <4>3. QED
        BY <2>3, <4>1, <4>2
    <3>4. CASE j # i /\ k = i
      <4>1. locs'[k][b] \in Elems(l)
        BY <1>15, <2>3, <3>4 DEF Elems
      <4>2. locs'[j][a] \notin Elems(l)
        BY <1>13, <1>15, <2>1, <2>3, <3>4
      <4>3. QED
        BY <2>3, <4>1, <4>2
    <3>5. QED
      BY <3>1, <3>2, <3>3, <3>4
  <2>4. ASSUME NEW x \in (1 .. last) \X Slots, loc2id(layout', x) = kAllocatedID
        PROVE  \E j \in Inserts : Reserving(j)' /\ x \in Elems(locs'[j])
    <3>1. CASE x \in Elems(l)
      BY <1>13, <1>15, <3>1
    <3>2. CASE x \in (DOMAIN layout) \X Slots /\ loc2id(layout, x) = kAllocatedID
      <4>1. PICK j \in Inserts : Reserving(j) /\ x \in Elems(locs[j])
        BY <3>2 DEF ReservationsExact
      <4>2. QED
        BY <1>13, <1>14, <1>15, <4>1
    <3>3. QED
      BY <1>12, <2>4, <3>1, <3>2, SentinelAssumption
  <2>5. QED
    BY <1>9, <2>2, <2>3, <2>4 DEF ReservationsExact
<1>26. QED
  BY <1>18, <1>19, <1>20, <1>21, <1>22, <1>23, <1>24, <1>25

-----------------------------------------------------------------------------
(* The loaded index. *)

(* load_page_layout fills as many sectors as the points need: every point   *)
(* has its slot, every slot below NumPoints its point, no sector is empty.  *)
LEMMA LoadedExact ==
    /\ InitPages \in Nat
    /\ \A id \in 0 .. NumPoints - 1 :
         InitLoc(id) \in (1 .. InitPages) \X Slots /\ loc2id(load_page_layout, InitLoc(id)) = id
    /\ \A p \in 1 .. InitPages, s \in Slots :
         \/ load_page_layout[p][s] = kInvalidID
         \/ /\ load_page_layout[p][s] \in 0 .. NumPoints - 1
            /\ InitLoc(load_page_layout[p][s]) = <<p, s>>
    /\ \A p \in 1 .. InitPages : load_page_layout[p][0] \in 0 .. NumPoints - 1
<1> DEFINE n == nnodes_per_sector
<1>1. n \in Nat \ {0} /\ NumPoints \in Nat \ {0} /\ Slots = 0 .. n - 1
  BY NnodesAssumption, NumAssumption DEF Slots
<1> HIDE DEF n
<1>2. /\ InitPages \in Nat
      /\ NumPoints <= n * InitPages /\ n * InitPages <= NumPoints + n - 1
  <2> DEFINE a == NumPoints + n - 1
  <2>1. a \in Nat
    BY <1>1
  <2>2. InitPages = a \div n
    BY DEF InitPages, n
  <2> HIDE DEF a
  <2>b. \E q \in Nat, r \in 0 .. n - 1 : q = a \div n /\ r = a % n /\ a = n * q + r
    BY <1>1, <2>1, DivMod, Zenon
  <2>3. PICK r \in 0 .. n - 1 : InitPages \in Nat /\ a = n * InitPages + r
    BY <2>2, <2>b, Zenon
  <2>a. n * InitPages \in Int
    BY <1>1, <2>3
  <2>4. QED
    BY <1>1, <2>3, <2>a DEF a
<1>3. \A p \in 1 .. InitPages, s \in Slots :
        load_page_layout[p][s] = IF n * (p - 1) + s < NumPoints THEN n * (p - 1) + s
                                 ELSE kInvalidID
  <2>1. \A p \in 1 .. InitPages : (p - 1) * n = n * (p - 1)
    BY <1>1, <1>2
  <2>2. QED
    BY <2>1 DEF load_page_layout, n
<1>4. ASSUME NEW id \in 0 .. NumPoints - 1
      PROVE  InitLoc(id) \in (1 .. InitPages) \X Slots /\ loc2id(load_page_layout, InitLoc(id)) = id
  <2>a. id \in Nat
    BY <1>1
  <2>0. PICK q \in Nat, r \in 0 .. n - 1 : q = id \div n /\ r = id % n /\ id = n * q + r
    BY <1>1, <2>a, DivMod, Zenon
  <2>1. q \in Nat /\ r \in 0 .. n - 1 /\ id = n * q + r /\ InitLoc(id) = <<1 + q, r>>
    BY <2>0 DEF InitLoc, n
  <2>2. n * q < n * InitPages
    <3>1. n * q \in Int /\ n * InitPages \in Int
      BY <1>1, <1>2, <2>1
    <3>2. QED
      BY <1>1, <1>2, <2>1, <3>1
  <2>3. q < InitPages
    BY <1>1, <1>2, <2>1, <2>2, FactorOrder
  <2>4. 1 + q \in 1 .. InitPages /\ r \in Slots /\ (1 + q) - 1 = q
    BY <1>1, <1>2, <2>1, <2>3
  <2>5. load_page_layout[1 + q][r] = IF n * ((1 + q) - 1) + r < NumPoints
                                     THEN n * ((1 + q) - 1) + r ELSE kInvalidID
    BY <1>3, <2>4
  <2>6. load_page_layout[1 + q][r] = id
    <3>1. n * ((1 + q) - 1) + r = id
      BY <2>1, <2>4
    <3>2. id < NumPoints
      BY <1>1
    <3>3. QED
      BY <2>5, <3>1, <3>2
  <2>7. QED
    BY <2>1, <2>4, <2>6 DEF loc2id
<1>5. ASSUME NEW p \in 1 .. InitPages, NEW s \in Slots, load_page_layout[p][s] # kInvalidID
      PROVE  /\ load_page_layout[p][s] \in 0 .. NumPoints - 1
             /\ InitLoc(load_page_layout[p][s]) = <<p, s>>
  <2> DEFINE q == p - 1
  <2>1. q \in Nat /\ p = 1 + q /\ s \in 0 .. n - 1 /\ n * q \in Nat
    BY <1>1, <1>2
  <2>2. load_page_layout[p][s] = n * q + s /\ n * q + s < NumPoints
    BY <1>3, <1>5
  <2> HIDE DEF q
  <2>3. (n * q + s) \div n = q /\ (n * q + s) % n = s
    BY <1>1, <2>1, DivModUnique
  <2>4. QED
    BY <1>1, <2>1, <2>2, <2>3 DEF InitLoc, n
<1>6. ASSUME NEW p \in 1 .. InitPages
      PROVE  load_page_layout[p][0] \in 0 .. NumPoints - 1
  <2> DEFINE q == p - 1
  <2>1. q \in Nat /\ q < InitPages /\ 0 \in Slots
    BY <1>1, <1>2
  <2>2. load_page_layout[p][0] = IF n * q + 0 < NumPoints THEN n * q + 0 ELSE kInvalidID
    BY <1>3, <2>1
  <2> HIDE DEF q
  <2>3. n * q + n <= n * InitPages /\ n * q \in Nat /\ n * InitPages \in Nat
    BY <1>1, <1>2, <2>1, FactorStep
  <2>4. n * q + 0 < NumPoints
    BY <1>1, <1>2, <2>3
  <2>5. QED
    BY <1>1, <2>2, <2>3, <2>4
<1>7. QED
  BY <1>2, <1>4, <1>5, <1>6

(* IInv holds when the index has been loaded. *)
LEMMA InitIInv ==
    ASSUME Init
    PROVE  IInv
<1> USE DEF IInv
<1>1. PlacedIds = 0 .. NumPoints - 1 /\ PlacedIds \subseteq Ids /\ NumPoints \in Nat \ {0}
  BY NumAssumption DEF Init, PlacedIds, Ids
<1>2. \A j \in Inserts : pc[j] = "idle" /\ ~Reserving(j) /\ \A id : ~Moving(j, id)
  BY DEF Init, Reserving, Moving
<1>3. InitPages \in Nat /\ curPage = InitPages + 1 /\ curPage - 1 = InitPages
      /\ layout = load_page_layout /\ DOMAIN layout = 1 .. InitPages
  BY LoadedExact DEF Init, load_page_layout
<1>4. \A id \in PlacedIds :
        /\ id2loc[id] = InitLoc(id)
        /\ id2loc[id] \in (DOMAIN layout) \X Slots /\ loc2id(layout, id2loc[id]) = id
  <2>1. \A id \in PlacedIds : id2loc[id] = InitLoc(id)
    BY <1>1 DEF Init
  <2>2. QED
    BY <1>1, <1>3, <2>1, LoadedExact
<1>5. \A p \in DOMAIN layout, s \in Slots :
        \/ layout[p][s] = kInvalidID
        \/ layout[p][s] \in PlacedIds /\ id2loc[layout[p][s]] = <<p, s>>
  BY <1>1, <1>3, <1>4, LoadedExact
<1>6. TypeOK
  <2>1. layout \in [1 .. curPage - 1 -> [Slots -> Ids \cup {kInvalidID, kAllocatedID}]]
    <3>1. \A p \in DOMAIN layout, s \in Slots : layout[p][s] \in Ids \cup {kInvalidID, kAllocatedID}
      BY <1>1, <1>5
    <3>2. layout = [ p \in 1 .. InitPages |-> [ s \in Slots |-> layout[p][s] ] ]
      BY <1>3 DEF load_page_layout
    <3>3. QED
      BY <1>3, <3>1, <3>2
  <2>2. id2loc \in [Ids -> Locs \cup {None}]
    <3>1. \A id \in PlacedIds : id2loc[id] \in Locs
      BY <1>3, <1>4 DEF Locs
    <3>2. \A id \in Ids : id \in PlacedIds \/ id2loc[id] = None
      BY <1>1, NumAssumption DEF Init, Ids
    <3>3. id2loc = [ id \in Ids |-> id2loc[id] ]
      BY DEF Init
    <3>4. QED
      BY <3>1, <3>2, <3>3
  <2>3. curPage \in Nat \ {0} /\ curId \in NumPoints .. NumPoints + NumInserts
    BY <1>3, NumAssumption DEF Init
  <2>4. QED
    BY <2>1, <2>2, <2>3 DEF Init, TypeOK, Labels
<1>7. WorkShape
  BY <1>2 DEF WorkShape, Init
<1>8. IdxLocked
  BY <1>2 DEF IdxLocked, Init
<1>9. HalfMoved
  BY <1>2 DEF HalfMoved
<1>10. Id2LocConsistent
  <2>1. \A id \in PlacedIds : id2loc[id] # None /\ id2loc[id][1] \in DOMAIN layout
    BY <1>3, <1>4, SentinelAssumption
  <2>2. QED
    BY <1>4, <2>1 DEF Id2LocConsistent
<1>11. Loc2IdExact
  <2>1. SUFFICES ASSUME NEW l \in (DOMAIN layout) \X Slots, loc2id(layout, l) \in Ids
                 PROVE  /\ loc2id(layout, l) \in PlacedIds
                        /\ id2loc[loc2id(layout, l)] = l
    BY <1>2 DEF Loc2IdExact
  <2>2. l = <<l[1], l[2]>> /\ l[1] \in DOMAIN layout /\ l[2] \in Slots
    OBVIOUS
  <2>3. QED
    BY <1>5, <2>1, <2>2, SentinelAssumption DEF loc2id
<1>12. EmptyPagesExact
  <2>1. \A p \in DOMAIN layout : ~IsEmptyPage(layout, p)
    <3>1. TAKE p \in DOMAIN layout
    <3>2. layout[p][0] \in Ids /\ 0 \in Slots
      BY <1>1, <1>3, LoadedExact, NnodesAssumption DEF Slots
    <3>3. QED
      BY <3>2, SentinelAssumption DEF IsEmptyPage
  <2>2. QED
    BY <2>1 DEF EmptyPagesExact, Init
<1>13. ReservationsExact
  <2>1. \A l \in (DOMAIN layout) \X Slots : loc2id(layout, l) # kAllocatedID
    <3>1. TAKE l \in (DOMAIN layout) \X Slots
    <3>2. l[1] \in DOMAIN layout /\ l[2] \in Slots
      OBVIOUS
    <3>3. QED
      BY <1>1, <1>5, <3>2, SentinelAssumption DEF loc2id
  <2>2. QED
    BY <1>2, <2>1 DEF ReservationsExact
<1>14. QED
  BY <1>6, <1>7, <1>8, <1>9, <1>10, <1>11, <1>12, <1>13

-----------------------------------------------------------------------------
(* The theorems. *)

(* Every step of the index keeps IInv. *)
LEMMA NextIInv ==
    ASSUME IInv, [Next]_vars
    PROVE  IInv'
<1>1. CASE UNCHANGED vars
  <2>1. UNCHANGED <<curId, id2loc, layout, emptyPages, curPage, pc, visited, hints, nhood, locs,
                    nbrLoc, needRead, pageHeld, vecGot, vecLock, unlocked, idxRd, idxWr,
                    bgTasks, bgTask>>
    BY <1>1 DEF vars, mapVars, workVars, lockVars, bgVars
  <2>2. MapFrame
    BY <2>1 DEF IInv, WorkShape, MapFrame, Reserving, PlacedIds
  <2>3. TypeOK'
    BY <2>1 DEF IInv, TypeOK
  <2>4. IdxLocked'
    BY <2>1 DEF IInv, IdxLocked, ToLock
  <2>5. QED
    BY <2>2, <2>3, <2>4, FrameKeepsIInv
<1>2. ASSUME NEW i \in Inserts, Insert(i)
      PROVE  IInv'
  <2>1. CASE Begin(i)
    BY <2>1, BeginKeeps
  <2>2. CASE \E id \in Ids : SearchLock(i, id)
    BY <2>2, SearchLockKeeps
  <2>3. CASE SearchUnlock(i)
    BY <2>3, SearchUnlockKeeps
  <2>4. CASE AllocLoc(i)
    BY <2>4, AllocLocKeeps
  <2>5. CASE \E p \in DOMAIN layout : LockPage(i, p)
    BY <2>5, LockPageKeeps
  <2>6. CASE \E id \in Ids : LockVec(i, id)
    BY <2>6, LockVecKeeps
  <2>7. CASE ReadPages(i)
    BY <2>7, ReadPagesKeeps
  <2>8. CASE WritePages(i)
    BY <2>8, WritePagesKeeps
  <2>9. CASE \E id \in Ids : LockIdx(i, id)
    BY <2>9, LockIdxKeeps
  <2>10. CASE UpdateId2Loc(i)
    BY <2>10, UpdateId2LocKeeps
  <2>11. CASE EraseAndSetLoc(i)
    BY <2>11, EraseAndSetLocKeeps
  <2>12. CASE UnlockVec(i)
    BY <2>12, UnlockVecKeeps
  <2>13. CASE Commit(i)
    BY <2>13, CommitKeeps
  <2>14. CASE Return(i)
    BY <2>14, ReturnKeeps
  <2>15. QED
    BY <1>2, <2>1, <2>2, <2>3, <2>4, <2>5, <2>6, <2>7, <2>8, <2>9, <2>10, <2>11, <2>12,
       <2>13, <2>14 DEF Insert
<1>3. CASE BgWrite
  BY <1>3, BgWriteKeeps
<1>4. CASE BgFinish
  BY <1>4, BgFinishKeeps
<1>5. QED
  BY <1>1, <1>2, <1>3, <1>4 DEF Next, Finished

(* IInv is an invariant of the insert path: for any number of points,       *)
(* concurrent inserts and slots per sector, and any choice of neighbours.   *)
THEOREM IInvInvariant == Spec => []IInv
<1>1. Init => IInv
  BY InitIInv
<1>2. IInv /\ [Next]_vars => IInv'
  BY NextIInv
<1>3. QED
  BY <1>1, <1>2, PTL DEF Spec

(* The state of insert_in_place and of the maps always has its type; in     *)
(* particular page_layout covers exactly the sectors below cur_loc.         *)
THEOREM TypeCorrect == Spec => []TypeOK
<1>1. IInv => TypeOK
  BY DEF IInv
<1>2. QED
  BY <1>1, IInvInvariant, PTL

(* verify_id2loc, both loops, would succeed between any two steps of any    *)
(* number of concurrent inserts, up to the ids an insert is just moving.    *)
THEOREM MapsAgree == Spec => [](Id2LocConsistent /\ Loc2IdConsistent)
<1>1. IInv => Id2LocConsistent
  BY DEF IInv
<1>2. IInv => Loc2IdConsistent
  <2>1. SUFFICES ASSUME IInv, NEW l \in (DOMAIN layout) \X Slots, loc2id(layout, l) \in Ids
                 PROVE  LET id == loc2id(layout, l)
                        IN  /\ id \in PlacedIds
                            /\ \/ id2loc[id] = l
                               \/ \E j \in Inserts : Moving(j, id) /\ l \in Elems(nbrLoc[j])
    BY DEF Loc2IdConsistent
  <2>2. \A j \in Inserts : pc[j] = "layout" => DOMAIN nbrLoc[j] = DOMAIN nhood[j]
    <3>1. TAKE j \in Inserts
    <3>2. HAVE pc[j] = "layout"
    <3>3. /\ nbrLoc[j] \in Seq(Locs) /\ nhood[j] \in Seq(Ids)
          /\ Len(nbrLoc[j]) = Len(nhood[j])
      BY <2>1, <3>2 DEF IInv, TypeOK, WorkShape
    <3>4. QED
      BY <3>3
  <2>3. QED
    BY <2>1, <2>2 DEF IInv, Loc2IdExact, Moving, Elems
<1>3. QED
  BY <1>1, <1>2, IInvInvariant, PTL

(* empty_pages holds exactly the empty sectors, each once: alloc_loc never  *)
(* meets the page that is not empty, and no empty sector is lost.           *)
THEOREM EmptyQueueExact == Spec => []EmptyPagesExact
<1>1. IInv => EmptyPagesExact
  BY DEF IInv
<1>2. QED
  BY <1>1, IInvInvariant, PTL

(* alloc_loc hands every slot to one insert at a time, and every reserved   *)
(* slot has an insert that will fill it.                                    *)
THEOREM ReservationsDisjoint == Spec => []ReservationsExact
<1>1. IInv => ReservationsExact
  BY DEF IInv
<1>2. QED
  BY <1>1, IInvInvariant, PTL

(* The location a search looked up under lock_idx stays valid until it      *)
(* calls unlock_idx: no insert moves an id whose mapping is read-locked.    *)
THEOREM LookupStability == Spec => LookupsStable
<1> DEFINE Keeps == \A i \in Inserts : \A id \in idxRd[i] \cap idxRd'[i] : id2loc'[id] = id2loc[id]
<1>1. ASSUME IInv, [Next]_vars
      PROVE  [Keeps]_vars
  <2>1. CASE id2loc' = id2loc
    BY <2>1
  <2>2. CASE id2loc' # id2loc
    <3>a. ~(UNCHANGED vars) /\ ~BgWrite /\ ~BgFinish /\ ~Finished
      BY <2>2 DEF BgWrite, BgFinish, Finished, vars, mapVars
    <3>b. ASSUME NEW i \in Inserts
          PROVE  /\ ~Begin(i) /\ ~SearchUnlock(i) /\ ~AllocLoc(i) /\ ~ReadPages(i)
                 /\ ~EraseAndSetLoc(i) /\ ~UnlockVec(i) /\ ~Commit(i) /\ ~Return(i)
      BY <2>2 DEF Begin, SearchUnlock, AllocLoc, ReadPages, EraseAndSetLoc, UnlockVec, Commit,
         Return, mapVars
    <3>c. ASSUME NEW i \in Inserts, NEW x
          PROVE  ~SearchLock(i, x) /\ ~LockPage(i, x) /\ ~LockVec(i, x) /\ ~LockIdx(i, x)
      BY <2>2 DEF SearchLock, LockPage, LockVec, LockIdx, mapVars
    <3>1. PICK i \in Inserts : WritePages(i) \/ UpdateId2Loc(i)
      BY <1>1, <3>a, <3>b, <3>c, Zenon DEF Next, Insert
    <3>2. ASSUME NEW j \in Inserts, NEW id \in idxRd[j]
          PROVE  id2loc'[id] = id2loc[id]
      <4>1. id \in PlacedIds /\ id \in Ids /\ id \notin idxWr[i]
        <5>1. id \in PlacedIds /\ id \notin idxWr[i]
          BY <1>1, <3>2 DEF IInv, WorkShape, IdxLocked
        <5>2. QED
          BY <1>1, <5>1, PlacedHasLoc
      <4>2. CASE WritePages(i)
        <5>1. i \notin PlacedIds
          BY <4>2, NumAssumption DEF WritePages, PlacedIds, Inserts
        <5>2. QED
          BY <1>1, <4>1, <4>2, <5>1 DEF WritePages, IInv, TypeOK
      <4>3. CASE UpdateId2Loc(i)
        <5>1. id \notin Elems(nhood[i])
          BY <1>1, <4>1, <4>3 DEF UpdateId2Loc, IInv, IdxLocked, ToLock
        <5>2. QED
          BY <4>1, <4>3, <5>1 DEF UpdateId2Loc
      <4>4. QED
        BY <3>1, <4>2, <4>3
    <3>3. QED
      BY <3>2
  <2>3. QED
    BY <2>1, <2>2
<1>2. QED
  BY <1>1, IInvInvariant, PTL DEF Spec, LookupsStable

-----------------------------------------------------------------------------
(* InsertIO: the reference counts of the page cache. *)

(* The references that the cache counts for p. *)
Counted(p) == IF p \in DOMAIN cache THEN cache[p].ref_cnt ELSE 0

(* RefCountsExact, for every page.                                          *)
CountsExact == \A p : Counted(p) = Outstanding(p)

IOIInv == IInv /\ IOTypeOK /\ BufferPhases /\ CountsExact

(* The inserts are finitely many. *)
LEMMA InsertsFinite == IsFiniteSet(Inserts) /\ Inserts \subseteq Nat
<1>1. NumPoints \in Nat /\ NumPoints + NumInserts - 1 \in Int  BY NumAssumption
<1> QED BY <1>1, FS_Interval DEF Inserts

LEMMA CountsType ==
    ASSUME IOTypeOK, BufferPhases, NEW i \in Inserts, NEW p
    PROVE  /\ Count(pageRef[i], p) \in Nat /\ Count(missing[i], p) \in Nat
           /\ Count(missing[i], p) <= Count(pageRef[i], p)
           /\ Count(Once(DOMAIN writeBuf[i]), p) \in Nat
<1>1. CASE p \in DOMAIN missing[i]
  <2>1. p \in DOMAIN pageRef[i] /\ missing[i][p] \in 1 .. pageRef[i][p]  BY <1>1 DEF BufferPhases
  <2>2. pageRef[i][p] \in Nat  BY <2>1 DEF IOTypeOK
  <2> QED BY <1>1, <2>1, <2>2 DEF Count, Once
<1>2. CASE p \notin DOMAIN missing[i]
  <2>1. p \in DOMAIN pageRef[i] => pageRef[i][p] \in Nat  BY DEF IOTypeOK
  <2> QED BY <1>2, <2>1 DEF Count, Once
<1> QED BY <1>1, <1>2

(* What an insert has still to drop is never negative.                      *)
LEMMA HoldsType ==
    ASSUME IOTypeOK, BufferPhases, NEW i \in Inserts, NEW p
    PROVE  Holds(i, p) \in Nat
<1>1. /\ Count(pageRef[i], p) \in Nat /\ Count(missing[i], p) \in Nat
      /\ Count(missing[i], p) <= Count(pageRef[i], p)
      /\ Count(Once(DOMAIN writeBuf[i]), p) \in Nat
  BY CountsType
<1> QED BY <1>1 DEF Holds

(* One insert and the cache change what they hold and count by the same.    *)
LEMMA CountsMove ==
    ASSUME IOTypeOK, BufferPhases, IOTypeOK', BufferPhases', CountsExact, NEW i \in Inserts,
           \A j \in Inserts : j # i => \A p : Holds(j, p)' = Holds(j, p),
           \A p : Counted(p)' = Counted(p) + Holds(i, p)' - Holds(i, p)
    PROVE  CountsExact'
<1> SUFFICES ASSUME NEW p PROVE Counted(p)' = Outstanding(p)'
  BY DEF CountsExact
<1> DEFINE f == [ j \in Inserts |-> Holds(j, p) ]
           g == [ j \in Inserts |-> Holds(j, p)' ]
           v == Holds(i, p)'
<1>1. \A j \in Inserts : Holds(j, p) \in Nat  BY HoldsType
<1>2. \A j \in Inserts : Holds(j, p)' \in Nat
  <2> SUFFICES ASSUME NEW j \in Inserts PROVE Holds(j, p)' \in Nat
    OBVIOUS
  <2>1. Count(pageRef[j], p)' \in Nat /\ Count(missing[j], p)' \in Nat
        /\ Count(missing[j], p)' <= Count(pageRef[j], p)'
    <3>1. CASE p \in DOMAIN missing'[j]
      <4>1. p \in DOMAIN pageRef'[j] /\ missing'[j][p] \in 1 .. pageRef'[j][p]
        BY <3>1 DEF BufferPhases
      <4>2. pageRef'[j][p] \in Nat  BY <4>1 DEF IOTypeOK
      <4> QED BY <3>1, <4>1, <4>2 DEF Count
    <3>2. CASE p \notin DOMAIN missing'[j]
      <4>1. p \in DOMAIN pageRef'[j] => pageRef'[j][p] \in Nat  BY DEF IOTypeOK
      <4> QED BY <3>2, <4>1 DEF Count
    <3> QED BY <3>1, <3>2
  <2>2. Count(Once(DOMAIN writeBuf[j]), p)' \in Nat  BY DEF Count, Once
  <2> QED BY <2>1, <2>2 DEF Holds
<1>3. Outstanding(p) = SumFunction(f)  BY DEF Outstanding
<1>4. Outstanding(p)' = SumFunction(g)  BY DEF Outstanding
<1>5. f \in [Inserts -> Int] /\ f[i] = Holds(i, p)  BY <1>1
<1>6. v \in Int  BY <1>2
<1>7. g = [f EXCEPT ![i] = v]
  <2>1. \A j \in Inserts : g[j] = IF j = i THEN v ELSE f[j]  OBVIOUS
  <2>2. [f EXCEPT ![i] = v] = [ j \in Inserts |-> IF j = i THEN v ELSE f[j] ]  OBVIOUS
  <2>3. g = [ j \in Inserts |-> g[j] ]  OBVIOUS
  <2> HIDE DEF f, g, v
  <2> QED BY <2>1, <2>2, <2>3
<1>8. Holds(i, p) \in Nat /\ v \in Nat /\ Counted(p)' = Counted(p) + v - Holds(i, p)  BY <1>1, <1>2
<1>9. Counted(p) = SumFunction(f)  BY <1>3 DEF CountsExact
<1> HIDE DEF f, g, v
<1>10. Changed(Inserts, f, i, v, g)  BY <1>5, <1>6, <1>7 DEF Changed
<1>11. SumFunction(f) \in Int /\ SumFunction(g) = SumFunction(f) - f[i] + v
  <2>1. SumMoves(f, i, v, g)  BY <1>10, InsertsFinite, SumChanged
  <2> QED BY <2>1 DEF SumMoves
<1>12. Holds(i, p) = f[i]  BY <1>5
<1> QED BY <1>4, <1>5, <1>6, <1>8, <1>9, <1>11, <1>12

(* A step that neither the cache nor the references notice.                 *)
LEMMA CountsStay ==
    ASSUME CountsExact, cache' = cache, \A j \in Inserts : \A p : Holds(j, p)' = Holds(j, p)
    PROVE  CountsExact'
<1> SUFFICES ASSUME NEW p PROVE Counted(p)' = Outstanding(p)'
  BY DEF CountsExact
<1>1. Counted(p)' = Counted(p)  BY DEF Counted
<1>2. Outstanding(p)' = Outstanding(p)  BY DEF Outstanding
<1> QED BY <1>1, <1>2 DEF CountsExact

(* What a page read returns is a page. *)
LEMMA ReadsType ==
    ASSUME IOTypeOK, NEW p
    PROVE  GarbagePage \in PageContents /\ OnDisk(p) \in PageContents
<1>1. GarbagePage \in PageContents  BY DEF GarbagePage, PageContents, Records
<1> QED BY <1>1 DEF OnDisk, IOTypeOK

(* The pages that wbc_write puts: those of the insert's slots, with a       *)
(* record or Garbage in each.                                               *)
LEMMA NewPagesType ==
    ASSUME IOIInv, NEW i \in Inserts, pc[i] = "write", NEW pages, pages = NewPages(i)
    PROVE  /\ DOMAIN pages = PagesOf(locs[i])
           /\ \A p \in DOMAIN pages : pages[p] \in PageContents
<1>1. \A p : PageBuf(i, p) \in PageContents
  BY ReadsType DEF PageBuf, IOIInv, IOTypeOK
<1>2. /\ Len(nhood[i]) \in Nat /\ DOMAIN nhood[i] = 1 .. Len(nhood[i])
      /\ DOMAIN nbrLoc[i] = 1 .. Len(nhood[i])
      /\ DOMAIN locs[i] = 1 .. Len(locs[i]) /\ Len(locs[i]) \in Nat
  <2>1. nhood[i] \in Seq(Ids) /\ nbrLoc[i] \in Seq(Locs) /\ locs[i] \in Seq(Locs)
    BY DEF IOIInv, IInv, TypeOK
  <2>2. Len(nbrLoc[i]) = Len(nhood[i])  BY DEF IOIInv, BufferPhases
  <2> QED BY <2>1, <2>2, LenProperties
<1>3. i \in Ids  BY NumAssumption DEF Inserts, Ids
<1>4. ASSUME NEW k \in DOMAIN locs[i] PROVE NewRecord(i, k) \in Records
  <2>1. CASE k <= Len(nhood[i])
    <3>1. k \in DOMAIN nbrLoc[i]  BY <1>2, <1>4, <2>1
    <3>2. nbrLoc[i][k] \in Locs  BY <3>1, ElementOfSeq DEF IOIInv, IInv, TypeOK
    <3>3. nbrLoc[i][k][2] \in Slots  BY <3>2 DEF Locs
    <3> DEFINE r == PageBuf(i, nbrLoc[i][k][1])[nbrLoc[i][k][2]]
    <3>4. r \in Records  BY <1>1, <3>3 DEF PageContents
    <3>5. NewRecord(i, k) = IF r = Garbage THEN Garbage ELSE [r EXCEPT !.links = @ \cup {i}]
      BY <2>1 DEF NewRecord, Linked
    <3> HIDE DEF r
    <3>6. CASE r = Garbage  BY <3>5, <3>6 DEF Records
    <3>7. CASE r # Garbage
      <4>1. r \in [id : Ids, links : SUBSET Inserts]  BY <3>4, <3>7 DEF Records
      <4>2. [r EXCEPT !.links = @ \cup {i}] \in [id : Ids, links : SUBSET Inserts]  BY <4>1
      <4> QED BY <3>5, <3>7, <4>2 DEF Records
    <3> QED BY <3>6, <3>7
  <2>2. CASE ~(k <= Len(nhood[i]))
    BY <1>3, <2>2 DEF NewRecord, Rec, Records
  <2> QED BY <2>1, <2>2
<1>5. DOMAIN pages = PagesOf(locs[i])  BY DEF NewPages
<1>6. ASSUME NEW p \in DOMAIN pages PROVE pages[p] \in PageContents
  <2> DEFINE at(s) == CHOOSE k \in DOMAIN locs[i] : locs[i][k] = <<p, s>>
             new(s) == IF <<p, s>> \in Elems(locs[i]) THEN NewRecord(i, at(s)) ELSE PageBuf(i, p)[s]
  <2>1. pages[p] = [ s \in Slots |-> new(s) ]  BY <1>5, <1>6 DEF NewPages
  <2>2. ASSUME NEW s \in Slots PROVE new(s) \in Records
    <3>1. CASE <<p, s>> \in Elems(locs[i])
      <4>1. \E k \in DOMAIN locs[i] : locs[i][k] = <<p, s>>  BY <3>1 DEF Elems
      <4>2. at(s) \in DOMAIN locs[i]  BY <4>1
      <4> HIDE DEF at
      <4> QED BY <1>4, <3>1, <4>2
    <3>2. CASE <<p, s>> \notin Elems(locs[i])  BY <1>1, <3>2 DEF PageContents
    <3> QED BY <3>1, <3>2
  <2> HIDE DEF new
  <2> QED BY <2>1, <2>2 DEF PageContents
<1> QED BY <1>5, <1>6

(* How such steps move an insert: none enters or leaves the rewrite. *)
LatePc == {"locki", "update", "layout", "unlockv", "commit", "deref", "done"}

LocalPhases(i) ==
    /\ idxRd' = idxRd /\ bgTask' = bgTask
    /\ \A j \in Inserts : j # i => pc'[j] = pc[j] /\ nbrLoc'[j] = nbrLoc[j] /\ nhood'[j] = nhood[j]
    /\ pc[i] # "write" /\ pc'[i] # "write"
    /\ pc[i] \in LatePc => pc'[i] \in LatePc
    /\ idxRd[i] # {} => pc'[i] = "search"

LEMMA LocalPhase ==
    ASSUME IInv, BufferPhases, NEW i \in Inserts, IOLocal(i)
    PROVE  LocalPhases(i)
<1> USE DEF LocalPhases
<1>0. pc \in [Inserts -> Labels] /\ nbrLoc \in [Inserts -> Seq(Locs)] /\ nhood \in [Inserts -> Seq(Ids)]
      /\ (idxRd[i] # {} => pc[i] = "search")
  BY DEF IInv, TypeOK, BufferPhases
<1> USE <1>0 DEF Goto, lockVars, workVars, bgVars, LatePc
<1>1. CASE Begin(i)  BY <1>1 DEF Begin
<1>2. CASE AllocLoc(i)
  <2>1. /\ pc[i] = "search" /\ idxRd[i] = {} /\ Goto(i, "lockp") /\ idxRd' = idxRd /\ nbrLoc' = nbrLoc
        /\ bgTask' = bgTask
    BY <1>2, Zenon DEF AllocLoc, lockVars, bgVars
  <2>2. PICK n : nhood' = [nhood EXCEPT ![i] = n]  BY <1>2, Zenon DEF AllocLoc
  <2> QED BY <2>1, <2>2
<1>3. CASE \E p \in DOMAIN layout : LockPage(i, p)  BY <1>3 DEF LockPage
<1>4. CASE \E id \in Ids : LockVec(i, id)  BY <1>4 DEF LockVec
<1>5. CASE \E id \in Ids : LockIdx(i, id)  BY <1>5 DEF LockIdx
<1>6. CASE UpdateId2Loc(i)  BY <1>6 DEF UpdateId2Loc
<1>7. CASE EraseAndSetLoc(i)  BY <1>7 DEF EraseAndSetLoc
<1>8. CASE UnlockVec(i)  BY <1>8 DEF UnlockVec
<1>9. CASE Commit(i)  BY <1>9 DEF Commit
<1> QED BY <1>1, <1>2, <1>3, <1>4, <1>5, <1>6, <1>7, <1>8, <1>9 DEF IOLocal

(* Steps that touch no page. *)
LEMMA LocalKeepsIO ==
    ASSUME IOIInv, IInv', NEW i \in Inserts, IOLocal(i)
    PROVE  IOIInv'
<1> USE DEF IOIInv
<1>1. UNCHANGED <<disk, cache, pageRef, searchBuf, readBuf, missing, writeBuf>>
  BY DEF IOLocal, ioVars
<1>2. IOTypeOK'  BY <1>1 DEF IOTypeOK
<1>3. CountsExact'
  <2>1. \A j \in Inserts : \A p : Holds(j, p)' = Holds(j, p)  BY <1>1 DEF Holds, Count, Once
  <2> QED BY <1>1, <2>1, CountsStay
<1>4. LocalPhases(i)  BY LocalPhase
<1>5. BufferPhases'
  <2> SUFFICES ASSUME NEW j \in Inserts
               PROVE  /\ DOMAIN missing[j] # {} => pc'[j] = "write"
                      /\ DOMAIN writeBuf[j] # {} => pc'[j] \in LatePc
                      /\ idxRd'[j] # {} => pc'[j] = "search"
                      /\ pc'[j] = "write" => Len(nbrLoc'[j]) = Len(nhood'[j])
    BY <1>1, <1>4 DEF BufferPhases, LocalPhases, LatePc
  <2>1. CASE j = i  BY <1>4, <2>1 DEF BufferPhases, LocalPhases, LatePc
  <2>2. CASE j # i  BY <1>4, <2>2 DEF BufferPhases, LocalPhases, LatePc
  <2> QED BY <2>1, <2>2
<1> QED BY <1>2, <1>3, <1>5

(* read_alloc of a searched page, first part. *)
LEMMA SearchLockKeepsIO ==
    ASSUME IOIInv, IInv', NEW i \in Inserts, NEW id \in Ids, IOSearchLock(i, id)
    PROVE  IOIInv'
<1> USE DEF IOIInv
<1> DEFINE q == id2loc[id][1]
<1>1. q \in Nat
  <2>1. id2loc[id] \in Locs  BY UnlockedIsPlaced DEF IOSearchLock, SearchLock
  <2> QED BY <2>1 DEF Locs
<1>2. /\ UNCHANGED <<disk, pageRef, readBuf, missing, writeBuf, pc, nbrLoc, nhood>>
      /\ pc[i] = "search" /\ idxRd[i] = {} /\ idxRd' = [idxRd EXCEPT ![i] = {id}]
      /\ IF q \in DOMAIN cache
         THEN /\ cache' = Get(cache, Once({q}))
              /\ searchBuf' = [searchBuf EXCEPT ![i] =
                                 [page |-> q, from |-> "cache", buf |-> cache[q].buf]]
         ELSE /\ searchBuf' = [searchBuf EXCEPT ![i] =
                                 [page |-> q, from |-> "miss", buf |-> GarbagePage]]
              /\ cache' = cache
  BY DEF IOSearchLock, SearchLock
<1>3. searchBuf[i].from = "none"  BY <1>2 DEF BufferPhases
<1> HIDE DEF q
<1>4. /\ DOMAIN cache' = DOMAIN cache
      /\ \A p \in DOMAIN cache : p # q => cache'[p] = cache[p]
      /\ q \in DOMAIN cache => cache'[q] = [cache[q] EXCEPT !.ref_cnt = @ + 1]
  BY <1>2 DEF Get, Once
<1>5. /\ searchBuf'[i].page = q
      /\ searchBuf'[i].from = IF q \in DOMAIN cache THEN "cache" ELSE "miss"
      /\ \A j \in Inserts : j # i => searchBuf'[j] = searchBuf[j]
      /\ DOMAIN searchBuf' = Inserts
      /\ searchBuf'[i] \in [page : Nat, from : {"none", "miss", "disk", "cache"}, buf : PageContents]
  <2>1. GarbagePage \in PageContents  BY ReadsType
  <2>2. q \in DOMAIN cache => cache[q].buf \in PageContents  BY DEF IOTypeOK
  <2> QED BY <1>1, <1>2, <2>1, <2>2 DEF IOTypeOK
<1>6. IOTypeOK'
  <2>1. q \in DOMAIN cache => cache'[q] \in [buf : PageContents, ref_cnt : Nat \ {0}]
    BY <1>4 DEF IOTypeOK
  <2> QED BY <1>2, <1>4, <1>5, <2>1 DEF IOTypeOK
<1>7. BufferPhases'
  <2>1. DOMAIN idxRd = Inserts  BY DEF IInv, TypeOK
  <2> QED BY <1>2, <1>5, <2>1 DEF BufferPhases
<1>8. \A j \in Inserts : j # i => \A p : Holds(j, p)' = Holds(j, p)
  BY <1>2, <1>5 DEF Holds, Count, Once
<1>9. ASSUME NEW p PROVE Counted(p)' = Counted(p) + Holds(i, p)' - Holds(i, p)
  <2> DEFINE a == Count(pageRef[i], p) - Count(missing[i], p) + Count(Once(DOMAIN writeBuf[i]), p)
  <2>1. Holds(i, p) = a + 0  BY <1>3 DEF Holds
  <2>2. Holds(i, p)' = a + (IF q \in DOMAIN cache /\ q = p THEN 1 ELSE 0)
    BY <1>2, <1>5 DEF Holds, Count, Once
  <2>3. Holds(i, p) \in Nat  BY HoldsType
  <2>4. Counted(p)' = Counted(p) + (IF q \in DOMAIN cache /\ q = p THEN 1 ELSE 0) /\ Counted(p) \in Nat
    <3>1. p \in DOMAIN cache => cache[p] \in [buf : PageContents, ref_cnt : Nat \ {0}]  BY DEF IOTypeOK
    <3> QED BY <1>4, <3>1 DEF Counted
  <2>5. a \in Int
    <3>1. Count(pageRef[i], p) \in Nat /\ Count(missing[i], p) \in Nat /\ Count(Once(DOMAIN writeBuf[i]), p) \in Nat
      BY CountsType
    <3> QED BY <3>1
  <2> HIDE DEF a
  <2> QED BY <2>1, <2>2, <2>4, <2>5
<1>10. CountsExact'  BY <1>6, <1>7, <1>8, <1>9, CountsMove
<1> QED BY <1>6, <1>7, <1>10

(* ... the disk read, on a miss. *)
LEMMA SearchFetchKeepsIO ==
    ASSUME IOIInv, IInv', NEW i \in Inserts, IOSearchFetch(i)
    PROVE  IOIInv'
<1> USE DEF IOIInv
<1>1. /\ UNCHANGED <<disk, cache, pageRef, readBuf, missing, writeBuf, pc, nbrLoc, nhood, idxRd>>
      /\ searchBuf[i].from = "miss"
      /\ searchBuf' = [searchBuf EXCEPT ![i].from = "disk", ![i].buf = OnDisk(searchBuf[i].page)]
  BY DEF IOSearchFetch, vars, mapVars, workVars, lockVars
<1>2. searchBuf[i] \in [page : Nat, from : {"none", "miss", "disk", "cache"}, buf : PageContents]
      /\ DOMAIN searchBuf = Inserts
  BY DEF IOTypeOK
<1>3. OnDisk(searchBuf[i].page) \in PageContents  BY ReadsType
<1>4. searchBuf'[i] \in [page : Nat, from : {"none", "miss", "disk", "cache"}, buf : PageContents]
      /\ searchBuf'[i].from = "disk" /\ DOMAIN searchBuf' = Inserts
      /\ \A j \in Inserts : j # i => searchBuf'[j] = searchBuf[j]
  BY <1>1, <1>2, <1>3
<1>5. IOTypeOK'  BY <1>1, <1>4 DEF IOTypeOK
<1>6. BufferPhases'  BY <1>1, <1>4 DEF BufferPhases
<1>7. \A j \in Inserts : \A p : Holds(j, p)' = Holds(j, p)
  BY <1>1, <1>4 DEF Holds, Count, Once
<1>8. CountsExact'  BY <1>1, <1>7, CountsStay
<1> QED BY <1>5, <1>6, <1>8

(* A cached page's count and contents after get, put and deref. *)
LEMMA PutCounts ==
    ASSUME NEW c, NEW pages, NEW refs, NEW d, d = Put(c, pages, refs),
           DOMAIN refs = DOMAIN pages,
           \A p \in DOMAIN c : c[p] \in [buf : PageContents, ref_cnt : Nat \ {0}],
           \A p \in DOMAIN pages : pages[p] \in PageContents /\ refs[p] \in Nat \ {0}
    PROVE  /\ \A p \in DOMAIN d : d[p] \in [buf : PageContents, ref_cnt : Nat \ {0}]
           /\ \A p : (IF p \in DOMAIN d THEN d[p].ref_cnt ELSE 0)
                        = (IF p \in DOMAIN c THEN c[p].ref_cnt ELSE 0) + Count(refs, p)
<1>1. /\ DOMAIN d = DOMAIN c \cup DOMAIN pages
      /\ \A p \in DOMAIN d : d[p] = IF p \notin DOMAIN pages THEN c[p]
                                   ELSE [ buf |-> pages[p],
                                          ref_cnt |-> (IF p \in DOMAIN c THEN c[p].ref_cnt ELSE 0) + refs[p] ]
  BY DEF Put
<1>2. ASSUME NEW p \in DOMAIN d PROVE d[p] \in [buf : PageContents, ref_cnt : Nat \ {0}]
  <2>1. CASE p \notin DOMAIN pages  BY <1>1, <2>1
  <2>2. CASE p \in DOMAIN pages
    <3> DEFINE n == (IF p \in DOMAIN c THEN c[p].ref_cnt ELSE 0) + refs[p]
    <3>1. n \in Nat \ {0} /\ pages[p] \in PageContents  BY <2>2
    <3>2. d[p] = [buf |-> pages[p], ref_cnt |-> n]  BY <1>1, <2>2
    <3> HIDE DEF n
    <3> QED BY <3>1, <3>2
  <2> QED BY <2>1, <2>2
<1>3. ASSUME NEW p
      PROVE  (IF p \in DOMAIN d THEN d[p].ref_cnt ELSE 0)
                = (IF p \in DOMAIN c THEN c[p].ref_cnt ELSE 0) + Count(refs, p)
  <2>1. p \in DOMAIN c => c[p].ref_cnt \in Nat  OBVIOUS
  <2>2. CASE p \in DOMAIN pages
    <3>1. /\ p \in DOMAIN d /\ p \in DOMAIN refs
          /\ d[p].ref_cnt = (IF p \in DOMAIN c THEN c[p].ref_cnt ELSE 0) + refs[p]
      <4>1. p \in DOMAIN d /\ p \in DOMAIN refs  BY <1>1, <2>2
      <4>2. d[p] = [ buf |-> pages[p],
                     ref_cnt |-> (IF p \in DOMAIN c THEN c[p].ref_cnt ELSE 0) + refs[p] ]
        BY <1>1, <2>2, <4>1
      <4> QED BY <4>1, <4>2
    <3> QED BY <3>1 DEF Count
  <2>3. CASE p \notin DOMAIN pages
    <3>1. p \notin DOMAIN refs /\ (p \in DOMAIN d <=> p \in DOMAIN c)
          /\ (p \in DOMAIN c => d[p] = c[p])
      BY <1>1, <2>3
    <3> QED BY <2>1, <3>1 DEF Count
  <2> QED BY <2>2, <2>3
<1> QED BY <1>2, <1>3

LEMMA GetCounts ==
    ASSUME NEW c, NEW refs, NEW d, d = Get(c, refs),
           \A p \in DOMAIN c : c[p] \in [buf : PageContents, ref_cnt : Nat \ {0}],
           \A p \in DOMAIN refs : refs[p] \in Nat \ {0}
    PROVE  /\ \A p \in DOMAIN d : d[p] \in [buf : PageContents, ref_cnt : Nat \ {0}]
           /\ \A p : (IF p \in DOMAIN d THEN d[p].ref_cnt ELSE 0)
                        = (IF p \in DOMAIN c THEN c[p].ref_cnt + Count(refs, p) ELSE 0)
<1>1. /\ DOMAIN d = DOMAIN c
      /\ \A p \in DOMAIN c : d[p] = IF p \in DOMAIN refs THEN [c[p] EXCEPT !.ref_cnt = @ + refs[p]] ELSE c[p]
  BY DEF Get
<1>2. ASSUME NEW p \in DOMAIN c
      PROVE  d[p] \in [buf : PageContents, ref_cnt : Nat \ {0}] /\ d[p].ref_cnt = c[p].ref_cnt + Count(refs, p)
  <2>1. c[p] \in [buf : PageContents, ref_cnt : Nat \ {0}] /\ c[p].ref_cnt \in Nat \ {0}  OBVIOUS
  <2>2. CASE p \notin DOMAIN refs  BY <1>1, <2>1, <2>2 DEF Count
  <2>3. CASE p \in DOMAIN refs
    <3>1. c[p].ref_cnt + refs[p] \in Nat \ {0}  BY <2>1, <2>3
    <3>2. d[p] = [c[p] EXCEPT !.ref_cnt = @ + refs[p]]  BY <1>1, <2>3
    <3> QED BY <2>1, <2>3, <3>1, <3>2 DEF Count
  <2> QED BY <2>2, <2>3
<1> QED BY <1>1, <1>2

LEMMA DerefCounts ==
    ASSUME NEW c, NEW refs, NEW d, d = Deref(c, refs),
           \A p \in DOMAIN c : c[p] \in [buf : PageContents, ref_cnt : Nat \ {0}],
           \A p \in DOMAIN refs : refs[p] \in Nat,
           \A p \in DOMAIN refs : refs[p] <= (IF p \in DOMAIN c THEN c[p].ref_cnt ELSE 0)
    PROVE  /\ \A p \in DOMAIN d : d[p] \in [buf : PageContents, ref_cnt : Nat \ {0}]
           /\ \A p : (IF p \in DOMAIN d THEN d[p].ref_cnt ELSE 0)
                        = (IF p \in DOMAIN c THEN c[p].ref_cnt ELSE 0) - Count(refs, p)
<1>1. /\ DOMAIN d = { q \in DOMAIN c : q \in DOMAIN refs => c[q].ref_cnt > refs[q] }
      /\ \A p \in DOMAIN d : d[p] = IF p \in DOMAIN refs THEN [c[p] EXCEPT !.ref_cnt = @ - refs[p]] ELSE c[p]
  BY DEF Deref
<1>2. \A p \in DOMAIN c : c[p].ref_cnt \in Nat \ {0}  OBVIOUS
<1>3. ASSUME NEW p \in DOMAIN d
      PROVE  d[p] \in [buf : PageContents, ref_cnt : Nat \ {0}] /\ d[p].ref_cnt = c[p].ref_cnt - Count(refs, p)
  <2>1. c[p] \in [buf : PageContents, ref_cnt : Nat \ {0}] /\ c[p].ref_cnt \in Nat \ {0}  BY <1>1
  <2>2. CASE p \notin DOMAIN refs
    <3>1. d[p] = c[p] /\ Count(refs, p) = 0  BY <1>1, <2>2 DEF Count
    <3> QED BY <2>1, <3>1
  <2>3. CASE p \in DOMAIN refs
    <3>1. c[p].ref_cnt - refs[p] \in Nat \ {0}  BY <1>1, <2>1, <2>3
    <3>2. d[p] = [c[p] EXCEPT !.ref_cnt = @ - refs[p]]  BY <1>1, <2>3
    <3> QED BY <2>1, <2>3, <3>1, <3>2 DEF Count
  <2> QED BY <2>2, <2>3
<1>4. ASSUME NEW p
      PROVE  (IF p \in DOMAIN d THEN d[p].ref_cnt ELSE 0)
                = (IF p \in DOMAIN c THEN c[p].ref_cnt ELSE 0) - Count(refs, p)
  <2>1. CASE p \in DOMAIN d  BY <1>1, <1>3, <2>1
  <2>2. CASE p \notin DOMAIN d /\ p \in DOMAIN c
    <3>1. p \in DOMAIN refs /\ ~(c[p].ref_cnt > refs[p])  BY <1>1, <2>2
    <3>2. refs[p] <= c[p].ref_cnt /\ refs[p] \in Nat  BY <2>2, <3>1
    <3> QED BY <1>2, <2>2, <3>1, <3>2 DEF Count
  <2>3. CASE p \notin DOMAIN d /\ p \notin DOMAIN c
    <3>1. p \in DOMAIN refs => refs[p] = 0  BY <2>3
    <3> QED BY <2>3, <3>1 DEF Count
  <2> QED BY <2>1, <2>2, <2>3
<1> QED BY <1>3, <1>4

(* ... and the page goes into the cache and page_ref. *)
LEMMA SearchUnlockKeepsIO ==
    ASSUME IOIInv, IInv', NEW i \in Inserts, IOSearchUnlock(i)
    PROVE  IOIInv'
<1> USE DEF IOIInv
<1> DEFINE q == searchBuf[i].page
           miss == searchBuf[i].from = "disk"
<1>1. /\ UNCHANGED <<disk, readBuf, missing, writeBuf, pc, nbrLoc, nhood>>
      /\ idxRd' = [idxRd EXCEPT ![i] = {}]
      /\ searchBuf[i].from \in {"cache", "disk"}
      /\ cache' = IF miss THEN Put(cache, [ p \in {q} |-> searchBuf[i].buf ], Once({q})) ELSE cache
      /\ pageRef' = [pageRef EXCEPT ![i] = AddRefs(@, Once({q}))]
      /\ searchBuf' = [searchBuf EXCEPT ![i] = NoSearch]
  BY DEF IOSearchUnlock, SearchUnlock, workVars
<1>2. q \in Nat /\ searchBuf[i].buf \in PageContents  BY DEF IOTypeOK
<1>3. /\ \A p \in DOMAIN cache' : cache'[p] \in [buf : PageContents, ref_cnt : Nat \ {0}]
      /\ \A p : Counted(p)' = Counted(p) + (IF miss /\ p = q THEN 1 ELSE 0)
  <2>0. /\ \A p \in DOMAIN cache : cache[p] \in [buf : PageContents, ref_cnt : Nat \ {0}]
        /\ \A p : Counted(p) \in Nat
    BY DEF IOTypeOK, Counted
  <2>1. CASE miss
    <3> DEFINE pages == [ p \in {q} |-> searchBuf[i].buf ]
               refs == Once({q})
    <3>1. cache' = Put(cache, pages, refs)  BY <1>1, <2>1
    <3>2. /\ DOMAIN refs = DOMAIN pages
          /\ \A p \in DOMAIN pages : pages[p] \in PageContents /\ refs[p] \in Nat \ {0}
          /\ \A p : Count(refs, p) = IF p = q THEN 1 ELSE 0
      BY <1>2 DEF Once, Count
    <3> HIDE DEF pages, refs, q, miss
    <3>3. /\ \A p \in DOMAIN cache' : cache'[p] \in [buf : PageContents, ref_cnt : Nat \ {0}]
          /\ \A p : (IF p \in DOMAIN cache' THEN cache'[p].ref_cnt ELSE 0)
                        = (IF p \in DOMAIN cache THEN cache[p].ref_cnt ELSE 0) + Count(refs, p)
      BY <2>0, <3>1, <3>2, PutCounts
    <3> QED BY <2>1, <3>2, <3>3 DEF Counted
  <2>2. CASE ~miss  BY <1>1, <2>0, <2>2 DEF Counted
  <2> QED BY <2>1, <2>2
<1>4. /\ \A j \in Inserts : j # i => pageRef'[j] = pageRef[j] /\ searchBuf'[j] = searchBuf[j]
      /\ DOMAIN pageRef' = Inserts /\ DOMAIN searchBuf' = Inserts
      /\ searchBuf'[i] = NoSearch /\ pageRef'[i] = AddRefs(pageRef[i], Once({q}))
  BY <1>1 DEF IOTypeOK
<1>5. /\ DOMAIN pageRef'[i] = DOMAIN pageRef[i] \cup {q}
      /\ \A p \in DOMAIN pageRef[i] : p # q => pageRef'[i][p] = pageRef[i][p]
      /\ pageRef'[i][q] = (IF q \in DOMAIN pageRef[i] THEN pageRef[i][q] ELSE 0) + 1
      /\ \A p \in DOMAIN pageRef[i] : pageRef[i][p] \in Nat \ {0}
  BY <1>4 DEF AddRefs, Once, IOTypeOK
<1>6. searchBuf'[i] \in [page : Nat, from : {"none", "miss", "disk", "cache"}, buf : PageContents]
      /\ searchBuf'[i].from = "none"
  <2>1. GarbagePage \in PageContents  BY ReadsType
  <2> QED BY <1>4, <2>1 DEF NoSearch
<1>7. idxRd[i] # {} /\ idxRd'[i] = {} /\ (\A j \in Inserts : j # i => idxRd'[j] = idxRd[j]) /\ pc[i] = "search"
  BY <1>1 DEF IOSearchUnlock, SearchUnlock, IInv, TypeOK
<1>8. \A p \in DOMAIN missing[i] : FALSE  BY <1>7 DEF BufferPhases
<1>9. ASSUME NEW p
      PROVE  /\ Count(pageRef[i], p)' = Count(pageRef[i], p) + (IF p = q THEN 1 ELSE 0)
             /\ Count(missing[i], p) = 0 /\ Count(missing[i], p)' = 0
  <2>1. Count(missing[i], p) = 0 /\ Count(missing[i], p)' = 0  BY <1>1, <1>8 DEF Count
  <2>2. CASE p = q
    <3>1. Count(pageRef[i], p)' = Count(pageRef[i], p) + 1  BY <1>5, <2>2 DEF Count
    <3> QED BY <2>1, <2>2, <3>1
  <2>3. CASE p # q
    <3>1. Count(pageRef[i], p) \in Nat  BY CountsType
    <3>2. Count(pageRef[i], p)' = Count(pageRef[i], p)  BY <1>5, <2>3 DEF Count
    <3> QED BY <2>1, <2>3, <3>1, <3>2
  <2> QED BY <2>1, <2>2, <2>3
<1> HIDE DEF q, miss
<1>10. IOTypeOK'
  <2>1. \A p \in DOMAIN pageRef'[i] : pageRef'[i][p] \in Nat \ {0}  BY <1>5
  <2> QED BY <1>1, <1>3, <1>4, <1>6, <2>1 DEF IOTypeOK
<1>11. BufferPhases'
  <2>1. \A j \in Inserts : \A p \in DOMAIN missing'[j] :
            p \in DOMAIN pageRef'[j] /\ missing'[j][p] \in 1 .. pageRef'[j][p]
    BY <1>1, <1>4, <1>8 DEF BufferPhases
  <2> QED BY <1>1, <1>4, <1>6, <1>7, <2>1 DEF BufferPhases
<1>12. \A j \in Inserts : j # i => \A p : Holds(j, p)' = Holds(j, p)
  BY <1>1, <1>4 DEF Holds, Count, Once
<1>13. ASSUME NEW p PROVE Counted(p)' = Counted(p) + Holds(i, p)' - Holds(i, p)
  <2> DEFINE a == Count(pageRef[i], p)
             b == Count(Once(DOMAIN writeBuf[i]), p)
  <2>1. a \in Nat /\ b \in Nat  BY CountsType
  <2>2. Count(Once(DOMAIN writeBuf[i]), p)' = b  BY <1>1 DEF Count, Once
  <2>3. Holds(i, p) = a - 0 + b + (IF ~miss /\ q = p THEN 1 ELSE 0)
    BY <1>1, <1>9 DEF Holds, q, miss
  <2>4. Holds(i, p)' = a + (IF p = q THEN 1 ELSE 0) - 0 + b + 0
    <3>1. Holds(i, p)' = Count(pageRef[i], p)' - Count(missing[i], p)'
                            + Count(Once(DOMAIN writeBuf[i]), p)' + 0
      BY <1>6 DEF Holds
    <3>2. Count(pageRef[i], p)' = a + (IF p = q THEN 1 ELSE 0)  BY <1>9
    <3>3. Count(missing[i], p)' = 0  BY <1>9
    <3> DEFINE d == IF p = q THEN 1 ELSE 0
    <3>4. d \in Nat  OBVIOUS
    <3>5. Count(pageRef[i], p)' = a + d  BY <3>2
    <3>6. Holds(i, p)' = a + d - 0 + b + 0
      <4> HIDE DEF a, b, d
      <4> QED BY <2>1, <2>2, <3>1, <3>3, <3>4, <3>5
    <3> QED BY <3>6
  <2>5. Counted(p)' = Counted(p) + (IF miss /\ p = q THEN 1 ELSE 0) /\ Counted(p) \in Nat
    BY <1>3 DEF Counted, IOTypeOK
  <2> HIDE DEF a, b
  <2> QED BY <2>1, <2>3, <2>4, <2>5
<1>14. CountsExact'  BY <1>10, <1>11, <1>12, <1>13, CountsMove
<1> QED BY <1>10, <1>11, <1>14

(* Every page of the insert's read_alloc is asked for at least once. *)
LEMMA ReadReqsType ==
    ASSUME IInv, NEW i \in Inserts, NEW reqs, reqs = ReadReqs(i)
    PROVE  \A p \in DOMAIN reqs : reqs[p] \in Nat \ {0}
<1>1. DOMAIN nhood[i] = 1 .. Len(nhood[i]) /\ Len(nhood[i]) \in Nat
  BY LenProperties DEF IInv, TypeOK
<1> DEFINE pages == needRead[i] \cup { id2loc[nhood[i][k]][1] : k \in DOMAIN nhood[i] }
           n(p) == Cardinality(NbrsOn(i, p)) + (IF p \in needRead[i] THEN 1 ELSE 0)
<1>2. reqs = [ p \in pages |-> n(p) ]  BY DEF ReadReqs
<1>3. ASSUME NEW p \in pages PROVE n(p) \in Nat \ {0}
  <2>1. IsFiniteSet(NbrsOn(i, p))
    <3>1. IsFiniteSet(1 .. Len(nhood[i]))  BY <1>1, FS_Interval
    <3>2. NbrsOn(i, p) \subseteq 1 .. Len(nhood[i])  BY <1>1 DEF NbrsOn
    <3> QED BY <3>1, <3>2, FS_Subset
  <2>2. Cardinality(NbrsOn(i, p)) \in Nat  BY <2>1, FS_CardinalityType
  <2>3. p \notin needRead[i] => Cardinality(NbrsOn(i, p)) # 0
    <3>1. p \notin needRead[i] => NbrsOn(i, p) # {}  BY DEF NbrsOn
    <3> QED BY <2>1, <3>1, FS_EmptySet
  <2> QED BY <2>2, <2>3
<1> HIDE DEF n, pages
<1> QED BY <1>2, <1>3

(* page_ref after more references: the counts add up. *)
AddedUp(a, b, s) ==
    /\ DOMAIN s = DOMAIN a \cup DOMAIN b
    /\ \A p \in DOMAIN s : s[p] \in Nat \ {0}
    /\ \A p : Count(a, p) \in Nat /\ Count(b, p) \in Nat /\ Count(s, p) = Count(a, p) + Count(b, p)

LEMMA AddRefsCounts ==
    ASSUME NEW a, NEW b, NEW s, s = AddRefs(a, b),
           \A p \in DOMAIN a : a[p] \in Nat \ {0}, \A p \in DOMAIN b : b[p] \in Nat \ {0}
    PROVE  AddedUp(a, b, s)
<1> DEFINE n(p) == (IF p \in DOMAIN a THEN a[p] ELSE 0) + (IF p \in DOMAIN b THEN b[p] ELSE 0)
<1>1. s = [ p \in DOMAIN a \cup DOMAIN b |-> n(p) ]  BY DEF AddRefs
<1>2. \A p \in DOMAIN a \cup DOMAIN b : n(p) \in Nat \ {0}  OBVIOUS
<1>3. \A p : n(p) = Count(a, p) + Count(b, p)  BY DEF Count
<1>4. \A p : Count(a, p) \in Nat /\ Count(b, p) \in Nat  BY DEF Count
<1>5. \A p : p \notin DOMAIN a \cup DOMAIN b => Count(a, p) = 0 /\ Count(b, p) = 0  BY DEF Count
<1> HIDE DEF n
<1>6. \A p : Count(s, p) = Count(a, p) + Count(b, p)
  <2> SUFFICES ASSUME NEW p PROVE Count(s, p) = Count(a, p) + Count(b, p)
    OBVIOUS
  <2>1. CASE p \in DOMAIN a \cup DOMAIN b
    <3>1. Count(s, p) = n(p)  BY <1>1, <2>1 DEF Count
    <3> QED BY <1>3, <3>1
  <2>2. CASE p \notin DOMAIN a \cup DOMAIN b
    <3>1. Count(s, p) = 0  BY <1>1, <2>2 DEF Count
    <3> QED BY <1>5, <2>2, <3>1
  <2> QED BY <2>1, <2>2
<1> QED BY <1>1, <1>2, <1>4, <1>6 DEF AddedUp

(* read_alloc of the pages to change, first part. *)
LEMMA ReadPagesKeepsIO ==
    ASSUME IOIInv, IInv', NEW i \in Inserts, IOReadPages(i)
    PROVE  IOIInv'
<1> USE DEF IOIInv
<1> DEFINE reqs == ReadReqs(i)
<1>1. /\ UNCHANGED <<disk, searchBuf, writeBuf, nhood, idxRd>>
      /\ nbrLoc' = [nbrLoc EXCEPT ![i] = [ k \in DOMAIN nhood[i] |-> id2loc[nhood[i][k]] ]]
      /\ pc[i] = "read" /\ pc' = [pc EXCEPT ![i] = "write"]
      /\ readBuf' = [readBuf EXCEPT ![i] = [ p \in DOMAIN reqs \cap DOMAIN cache |-> cache[p].buf ]]
      /\ missing' = [missing EXCEPT ![i] = [ p \in DOMAIN reqs \ DOMAIN cache |-> reqs[p] ]]
      /\ cache' = Get(cache, reqs)
      /\ pageRef' = [pageRef EXCEPT ![i] = AddRefs(@, reqs)]
  BY DEF IOReadPages, ReadPages, Goto, lockVars
<1>2. \A p \in DOMAIN reqs : reqs[p] \in Nat \ {0}  BY ReadReqsType
<1> HIDE DEF reqs
<1>3. /\ \A p \in DOMAIN cache' : cache'[p] \in [buf : PageContents, ref_cnt : Nat \ {0}]
      /\ \A p : (IF p \in DOMAIN cache' THEN cache'[p].ref_cnt ELSE 0)
                   = (IF p \in DOMAIN cache THEN cache[p].ref_cnt + Count(reqs, p) ELSE 0)
  <2>1. \A p \in DOMAIN cache : cache[p] \in [buf : PageContents, ref_cnt : Nat \ {0}]  BY DEF IOTypeOK
  <2> QED BY <1>1, <1>2, <2>1, GetCounts
<1>4. /\ \A j \in Inserts : j # i => pageRef'[j] = pageRef[j] /\ missing'[j] = missing[j]
                                     /\ readBuf'[j] = readBuf[j]
      /\ DOMAIN pageRef' = Inserts /\ DOMAIN missing' = Inserts /\ DOMAIN readBuf' = Inserts
      /\ pageRef'[i] = AddRefs(pageRef[i], reqs)
      /\ missing'[i] = [ p \in DOMAIN reqs \ DOMAIN cache |-> reqs[p] ]
      /\ readBuf'[i] = [ p \in DOMAIN reqs \cap DOMAIN cache |-> cache[p].buf ]
  BY <1>1 DEF IOTypeOK
<1>5. /\ DOMAIN pageRef'[i] = DOMAIN pageRef[i] \cup DOMAIN reqs
      /\ \A p \in DOMAIN pageRef'[i] : pageRef'[i][p] \in Nat \ {0}
      /\ \A p : Count(pageRef[i], p) \in Nat /\ Count(reqs, p) \in Nat
                /\ Count(pageRef'[i], p) = Count(pageRef[i], p) + Count(reqs, p)
  <2>1. \A p \in DOMAIN pageRef[i] : pageRef[i][p] \in Nat \ {0}  BY DEF IOTypeOK
  <2> DEFINE a == pageRef[i]
             s == pageRef'[i]
  <2>2. s = AddRefs(a, reqs) /\ \A p \in DOMAIN a : a[p] \in Nat \ {0}  BY <1>4, <2>1
  <2>3. AddedUp(a, reqs, s)
    <3> HIDE DEF a, s
    <3> QED BY <1>2, <2>2, AddRefsCounts
  <2> QED BY <2>3 DEF AddedUp
<1>6. DOMAIN missing[i] = {}  BY <1>1 DEF BufferPhases
<1>7. IOTypeOK'
  <2>1. \A p \in DOMAIN readBuf'[i] : readBuf'[i][p] \in PageContents  BY <1>4 DEF IOTypeOK
  <2> QED BY <1>1, <1>3, <1>4, <1>5, <2>1 DEF IOTypeOK
<1>8. BufferPhases'
  <2>1. pc \in [Inserts -> Labels] /\ nbrLoc \in [Inserts -> Seq(Locs)] /\ nhood[i] \in Seq(Ids)
    BY DEF IInv, TypeOK
  <2>2. pc'[i] = "write" /\ \A j \in Inserts : j # i => pc'[j] = pc[j] /\ nbrLoc'[j] = nbrLoc[j]
    BY <1>1, <2>1
  <2>3. Len(nbrLoc'[i]) = Len(nhood'[i])
    <3>1. DOMAIN nhood[i] = 1 .. Len(nhood[i]) /\ Len(nhood[i]) \in Nat  BY <2>1, LenProperties
    <3>2. nbrLoc'[i] = [ k \in 1 .. Len(nhood[i]) |-> id2loc[nhood[i][k]] ]  BY <1>1, <2>1, <3>1
    <3> QED BY <1>1, <3>1, <3>2
  <2>4. \A p \in DOMAIN missing'[i] : p \in DOMAIN pageRef'[i] /\ missing'[i][p] \in 1 .. pageRef'[i][p]
    <3> SUFFICES ASSUME NEW p \in DOMAIN missing'[i]
                 PROVE  p \in DOMAIN pageRef'[i] /\ missing'[i][p] \in 1 .. pageRef'[i][p]
      OBVIOUS
    <3>1. p \in DOMAIN reqs /\ missing'[i][p] = reqs[p]  BY <1>4
    <3>2. p \in DOMAIN pageRef'[i] /\ Count(reqs, p) = reqs[p] /\ Count(pageRef'[i], p) = pageRef'[i][p]
      BY <1>5, <3>1 DEF Count
    <3>3. Count(pageRef[i], p) \in Nat /\ Count(pageRef'[i], p) = Count(pageRef[i], p) + Count(reqs, p)
          /\ reqs[p] \in Nat \ {0}
      BY <1>2, <1>5, <3>1
    <3> QED BY <3>1, <3>2, <3>3
  <2>5. idxRd[i] = {} /\ DOMAIN writeBuf[i] = {}  BY <1>1 DEF BufferPhases
  <2>6. \A j \in Inserts : j # i =>
            \A p \in DOMAIN missing'[j] : p \in DOMAIN pageRef'[j] /\ missing'[j][p] \in 1 .. pageRef'[j][p]
    BY <1>4 DEF BufferPhases
  <2>7. \A j \in Inserts : \A p \in DOMAIN missing'[j] :
            p \in DOMAIN pageRef'[j] /\ missing'[j][p] \in 1 .. pageRef'[j][p]
    BY <2>4, <2>6
  <2> DEFINE Late == {"locki", "update", "layout", "unlockv", "commit", "deref", "done"}
  <2>8. \A j \in Inserts : /\ DOMAIN missing'[j] # {} => pc'[j] = "write"
                           /\ DOMAIN writeBuf[j] # {} => pc'[j] \in Late
    BY <1>4, <2>2, <2>5 DEF BufferPhases
  <2>9. \A j \in Inserts : /\ searchBuf[j].from = "none" <=> idxRd[j] = {}
                           /\ idxRd[j] # {} => pc'[j] = "search"
    BY <2>2, <2>5 DEF BufferPhases
  <2>10. \A j \in Inserts : pc'[j] = "write" => Len(nbrLoc'[j]) = Len(nhood'[j])
    BY <1>1, <2>2, <2>3 DEF BufferPhases
  <2> QED BY <1>1, <2>7, <2>8, <2>9, <2>10 DEF BufferPhases
<1>9. \A j \in Inserts : j # i => \A p : Holds(j, p)' = Holds(j, p)
  BY <1>1, <1>4 DEF Holds, Count, Once
<1>10. ASSUME NEW p PROVE Counted(p)' = Counted(p) + Holds(i, p)' - Holds(i, p)
  <2> DEFINE a == Count(pageRef[i], p)
             b == Count(Once(DOMAIN writeBuf[i]), p)
             c == IF searchBuf[i].from = "cache" /\ searchBuf[i].page = p THEN 1 ELSE 0
             r == Count(reqs, p)
             in == p \in DOMAIN cache
  <2>1. a \in Nat /\ b \in Nat /\ c \in Nat /\ r \in Nat /\ Counted(p) \in Nat
    BY <1>5, CountsType DEF Counted, IOTypeOK
  <2>2. Count(missing[i], p) = 0  BY <1>6 DEF Count
  <2>3. Count(missing'[i], p) = IF in THEN 0 ELSE r  BY <1>4 DEF Count
  <2>4. Count(pageRef'[i], p) = a + r  BY <1>5
  <2>5. Holds(i, p) = a - Count(missing[i], p) + b + c  BY DEF Holds
  <2>6. Holds(i, p)' = Count(pageRef'[i], p) - Count(missing'[i], p) + b + c
    BY <1>1 DEF Holds, Count, Once
  <2>7. Counted(p)' = IF in THEN Counted(p) + r ELSE 0
    BY <1>3 DEF Counted
  <2>8. ~in => Counted(p) = 0  BY DEF Counted
  <2> HIDE DEF a, b, c, r, in
  <2>9. CASE in  BY <2>1, <2>2, <2>3, <2>4, <2>5, <2>6, <2>7, <2>9
  <2>10. CASE ~in  BY <2>1, <2>2, <2>3, <2>4, <2>5, <2>6, <2>7, <2>8, <2>10
  <2> QED BY <2>9, <2>10
<1>11. CountsExact'  BY <1>7, <1>8, <1>9, <1>10, CountsMove
<1> QED BY <1>7, <1>8, <1>11

(* ... the disk reads of what was missing. *)
LEMMA FetchKeepsIO ==
    ASSUME IOIInv, IInv', NEW i \in Inserts, IOFetch(i)
    PROVE  IOIInv'
<1> USE DEF IOIInv
<1>1. /\ UNCHANGED <<disk, cache, pageRef, searchBuf, missing, writeBuf, pc, nbrLoc, nhood, idxRd>>
      /\ readBuf' = [readBuf EXCEPT ![i] =
                       [ p \in DOMAIN @ \cup DOMAIN missing[i] |->
                           IF p \in DOMAIN missing[i] THEN OnDisk(p) ELSE @[p] ]]
  BY DEF IOFetch, vars, mapVars, workVars, lockVars
<1>2. \A p : OnDisk(p) \in PageContents  BY ReadsType
<1>3. /\ \A j \in Inserts : j # i => readBuf'[j] = readBuf[j]
      /\ DOMAIN readBuf' = Inserts
      /\ \A p \in DOMAIN readBuf'[i] : readBuf'[i][p] \in PageContents
  BY <1>1, <1>2 DEF IOTypeOK
<1>4. IOTypeOK'  BY <1>1, <1>3 DEF IOTypeOK
<1>5. BufferPhases'  BY <1>1 DEF BufferPhases
<1>6. \A j \in Inserts : \A p : Holds(j, p)' = Holds(j, p)  BY <1>1 DEF Holds, Count, Once
<1>7. CountsExact'  BY <1>1, <1>6, CountsStay
<1> QED BY <1>4, <1>5, <1>7

(* ... and what was missing is put into the cache. *)
LEMMA FillKeepsIO ==
    ASSUME IOIInv, IInv', NEW i \in Inserts, IOFill(i)
    PROVE  IOIInv'
<1> USE DEF IOIInv
<1> DEFINE refs == missing[i]
           pages == [ p \in DOMAIN missing[i] |-> readBuf[i][p] ]
<1>1. /\ UNCHANGED <<disk, pageRef, searchBuf, readBuf, writeBuf, pc, nbrLoc, nhood, idxRd>>
      /\ DOMAIN refs \subseteq DOMAIN readBuf[i]
      /\ cache' = Put(cache, pages, refs)
      /\ missing' = [missing EXCEPT ![i] = NoPages]
  BY DEF IOFill, vars, mapVars, workVars, lockVars
<1>2. /\ DOMAIN refs = DOMAIN pages
      /\ \A p \in DOMAIN pages : pages[p] \in PageContents /\ refs[p] \in Nat \ {0}
  <2>1. \A p \in DOMAIN refs : pageRef[i][p] \in Nat /\ refs[p] \in 1 .. pageRef[i][p]
    BY DEF IOTypeOK, BufferPhases
  <2> QED BY <1>1, <2>1 DEF IOTypeOK
<1>3. /\ \A p \in DOMAIN cache' : cache'[p] \in [buf : PageContents, ref_cnt : Nat \ {0}]
      /\ \A p : (IF p \in DOMAIN cache' THEN cache'[p].ref_cnt ELSE 0)
                   = (IF p \in DOMAIN cache THEN cache[p].ref_cnt ELSE 0) + Count(refs, p)
  <2>1. \A p \in DOMAIN cache : cache[p] \in [buf : PageContents, ref_cnt : Nat \ {0}]  BY DEF IOTypeOK
  <2> HIDE DEF refs, pages
  <2> QED BY <1>1, <1>2, <2>1, PutCounts
<1>4. /\ \A j \in Inserts : j # i => missing'[j] = missing[j]
      /\ DOMAIN missing' = Inserts /\ missing'[i] = NoPages /\ DOMAIN missing'[i] = {}
  BY <1>1 DEF IOTypeOK, NoPages
<1>5. IOTypeOK'  BY <1>1, <1>3, <1>4 DEF IOTypeOK
<1>6. BufferPhases'  BY <1>1, <1>4 DEF BufferPhases
<1>7. \A j \in Inserts : j # i => \A p : Holds(j, p)' = Holds(j, p)
  BY <1>1, <1>4 DEF Holds, Count, Once
<1>8. ASSUME NEW p PROVE Counted(p)' = Counted(p) + Holds(i, p)' - Holds(i, p)
  <2> DEFINE a == Count(pageRef[i], p)
             b == Count(Once(DOMAIN writeBuf[i]), p)
             c == IF searchBuf[i].from = "cache" /\ searchBuf[i].page = p THEN 1 ELSE 0
             r == Count(missing[i], p)
  <2>1. a \in Nat /\ b \in Nat /\ c \in Nat /\ r \in Nat /\ Counted(p) \in Nat
    BY CountsType DEF Counted, IOTypeOK
  <2>2. Count(missing'[i], p) = 0  BY <1>4 DEF Count
  <2>3. Holds(i, p) = a - r + b + c  BY DEF Holds
  <2>4. Holds(i, p)' = a - Count(missing'[i], p) + b + c  BY <1>1 DEF Holds, Count, Once
  <2>5. Counted(p)' = Counted(p) + r  BY <1>3 DEF Counted
  <2> HIDE DEF a, b, c, r
  <2> QED BY <2>1, <2>2, <2>3, <2>4, <2>5
<1>9. CountsExact'  BY <1>5, <1>6, <1>7, <1>8, CountsMove
<1> QED BY <1>5, <1>6, <1>9

(* wbc_write: the write holds a reference to each of its pages. *)
LEMMA WritePagesKeepsIO ==
    ASSUME IOIInv, IInv', NEW i \in Inserts, IOWritePages(i)
    PROVE  IOIInv'
<1> USE DEF IOIInv
<1> DEFINE pages == NewPages(i)
           refs == Once(PagesOf(locs[i]))
<1>1. /\ UNCHANGED <<disk, pageRef, searchBuf, missing, nbrLoc, nhood, idxRd>>
      /\ pc[i] = "write" /\ pc' = [pc EXCEPT ![i] = "locki"]
      /\ writeBuf' = [writeBuf EXCEPT ![i] = pages]
      /\ cache' = Put(cache, pages, refs)
      /\ readBuf' = [readBuf EXCEPT ![i] = NoPages]
      /\ DOMAIN missing[i] = {}
  BY DEF IOWritePages, WritePages, Goto, workVars, lockVars, NoPages
<1>2. DOMAIN pages = PagesOf(locs[i]) /\ \A p \in DOMAIN pages : pages[p] \in PageContents
  BY <1>1, NewPagesType
<1>3. DOMAIN refs = DOMAIN pages /\ \A p \in DOMAIN pages : refs[p] \in Nat \ {0}
  BY <1>2 DEF Once
<1>4. \A p : Count(refs, p) = IF p \in DOMAIN pages THEN 1 ELSE 0
  BY <1>3, <1>2 DEF Once, Count
<1> HIDE DEF pages, refs
<1>5. /\ \A p \in DOMAIN cache' : cache'[p] \in [buf : PageContents, ref_cnt : Nat \ {0}]
      /\ \A p : (IF p \in DOMAIN cache' THEN cache'[p].ref_cnt ELSE 0)
                   = (IF p \in DOMAIN cache THEN cache[p].ref_cnt ELSE 0) + Count(refs, p)
  <2>1. \A p \in DOMAIN cache : cache[p] \in [buf : PageContents, ref_cnt : Nat \ {0}]  BY DEF IOTypeOK
  <2> QED BY <1>1, <1>2, <1>3, <2>1, PutCounts
<1>6. /\ \A j \in Inserts : j # i => writeBuf'[j] = writeBuf[j] /\ readBuf'[j] = readBuf[j]
      /\ DOMAIN writeBuf' = Inserts /\ DOMAIN readBuf' = Inserts
      /\ writeBuf'[i] = pages /\ DOMAIN readBuf'[i] = {}
  BY <1>1 DEF IOTypeOK, NoPages
<1>7. IOTypeOK'  BY <1>1, <1>2, <1>5, <1>6 DEF IOTypeOK
<1>8. pc'[i] = "locki" /\ \A j \in Inserts : j # i => pc'[j] = pc[j]
  BY <1>1 DEF IInv, TypeOK
<1>9. BufferPhases'
  <2> DEFINE Late == {"locki", "update", "layout", "unlockv", "commit", "deref", "done"}
  <2>1. idxRd[i] = {} /\ DOMAIN writeBuf[i] = {}  BY <1>1 DEF BufferPhases
  <2>2. \A j \in Inserts : /\ DOMAIN missing[j] # {} => pc'[j] = "write"
                           /\ DOMAIN writeBuf'[j] # {} => pc'[j] \in Late
    BY <1>1, <1>6, <1>8 DEF BufferPhases
  <2>3. \A j \in Inserts : /\ searchBuf[j].from = "none" <=> idxRd[j] = {}
                           /\ idxRd[j] # {} => pc'[j] = "search"
                           /\ pc'[j] = "write" => Len(nbrLoc[j]) = Len(nhood[j])
    BY <1>8, <2>1 DEF BufferPhases
  <2> QED BY <1>1, <2>2, <2>3 DEF BufferPhases
<1>10. \A j \in Inserts : j # i => \A p : Holds(j, p)' = Holds(j, p)
  BY <1>1, <1>6 DEF Holds, Count, Once
<1>11. ASSUME NEW p PROVE Counted(p)' = Counted(p) + Holds(i, p)' - Holds(i, p)
  <2> DEFINE a == Count(pageRef[i], p)
             b == Count(missing[i], p)
             c == IF searchBuf[i].from = "cache" /\ searchBuf[i].page = p THEN 1 ELSE 0
             r == Count(refs, p)
  <2>1. a \in Nat /\ b \in Nat /\ c \in Nat /\ r \in Nat /\ Counted(p) \in Nat
    BY <1>4, CountsType DEF Counted, IOTypeOK
  <2>2. DOMAIN writeBuf[i] = {}  BY <1>1 DEF BufferPhases
  <2>3. Count(Once(DOMAIN writeBuf[i]), p) = 0 /\ Count(Once(DOMAIN writeBuf'[i]), p) = r
    BY <1>4, <1>6, <2>2 DEF Count, Once
  <2>4. Holds(i, p) = a - b + Count(Once(DOMAIN writeBuf[i]), p) + c  BY DEF Holds
  <2>5. Holds(i, p)' = a - b + Count(Once(DOMAIN writeBuf'[i]), p) + c
    BY <1>1 DEF Holds, Count, Once
  <2>6. Counted(p)' = Counted(p) + r  BY <1>5 DEF Counted
  <2> HIDE DEF a, b, c, r
  <2> QED BY <2>1, <2>3, <2>4, <2>5, <2>6
<1>12. CountsExact'  BY <1>7, <1>9, <1>10, <1>11, CountsMove
<1> QED BY <1>7, <1>9, <1>12

(* The cache counts no less than one insert holds. *)
LEMMA HeldIsCounted ==
    ASSUME IOTypeOK, BufferPhases, CountsExact, NEW i \in Inserts, NEW p
    PROVE  Holds(i, p) <= Counted(p)
<1> DEFINE f == [ j \in Inserts |-> Holds(j, p) ]
           g == [f EXCEPT ![i] = 0]
<1>1. \A j \in Inserts : Holds(j, p) \in Nat  BY HoldsType
<1>2. f \in [Inserts -> Nat] /\ f[i] = Holds(i, p) /\ f \in [Inserts -> Int]  BY <1>1
<1>3. g \in [Inserts -> Nat]  BY <1>2
<1>4. Counted(p) = SumFunction(f)  BY DEF CountsExact, Outstanding
<1>5. g = [f EXCEPT ![i] = 0]  OBVIOUS
<1> HIDE DEF f, g
<1>6. Changed(Inserts, f, i, 0, g)  BY <1>2, <1>5 DEF Changed
<1>7. SumMoves(f, i, 0, g)  BY <1>6, InsertsFinite, SumChanged
<1>8. SumFunction(g) \in Nat  BY <1>3, InsertsFinite, SumNotNegative
<1>9. SumFunction(f) \in Int /\ SumFunction(g) = SumFunction(f) - f[i] + 0  BY <1>7 DEF SumMoves
<1>10. f[i] \in Nat  BY <1>2
<1> QED BY <1>2, <1>4, <1>8, <1>9, <1>10

(* The call drops the references of page_ref. *)
LEMMA ReturnKeepsIO ==
    ASSUME IOIInv, IInv', NEW i \in Inserts, IOReturn(i)
    PROVE  IOIInv'
<1> USE DEF IOIInv
<1> DEFINE refs == pageRef[i]
<1>1. /\ UNCHANGED <<disk, searchBuf, readBuf, missing, writeBuf, nbrLoc, nhood, idxRd>>
      /\ pc[i] = "deref" /\ pc' = [pc EXCEPT ![i] = "done"]
      /\ cache' = Deref(cache, refs)
      /\ pageRef' = [pageRef EXCEPT ![i] = NoPages]
  BY DEF IOReturn, Return, Goto, lockVars
<1>2. DOMAIN missing[i] = {} /\ idxRd[i] = {} /\ searchBuf[i].from = "none"
  BY <1>1 DEF BufferPhases
<1>3. \A p : Holds(i, p) = Count(refs, p) + Count(Once(DOMAIN writeBuf[i]), p)
             /\ Count(refs, p) \in Nat /\ Count(Once(DOMAIN writeBuf[i]), p) \in Nat
  <2> SUFFICES ASSUME NEW p
               PROVE  Holds(i, p) = Count(refs, p) + Count(Once(DOMAIN writeBuf[i]), p)
                      /\ Count(refs, p) \in Nat /\ Count(Once(DOMAIN writeBuf[i]), p) \in Nat
    OBVIOUS
  <2>1. Count(missing[i], p) = 0  BY <1>2 DEF Count
  <2>2. Count(refs, p) \in Nat /\ Count(Once(DOMAIN writeBuf[i]), p) \in Nat  BY CountsType
  <2>3. Holds(i, p) = Count(refs, p) - Count(missing[i], p) + Count(Once(DOMAIN writeBuf[i]), p) + 0
    BY <1>2 DEF Holds
  <2> QED BY <2>1, <2>2, <2>3
<1>4. \A p \in DOMAIN refs : refs[p] \in Nat /\ refs[p] <= (IF p \in DOMAIN cache THEN cache[p].ref_cnt ELSE 0)
  <2> SUFFICES ASSUME NEW p \in DOMAIN refs
               PROVE  refs[p] \in Nat /\ refs[p] <= (IF p \in DOMAIN cache THEN cache[p].ref_cnt ELSE 0)
    OBVIOUS
  <2>1. Holds(i, p) <= Counted(p)  BY HeldIsCounted
  <2>2. Count(refs, p) = refs[p]  BY DEF Count
  <2>3. refs[p] <= Counted(p)
    <3>1. Counted(p) \in Nat  BY DEF Counted, IOTypeOK
    <3> HIDE DEF refs
    <3> QED BY <1>3, <2>1, <2>2, <3>1
  <2>4. refs[p] \in Nat  BY DEF IOTypeOK
  <2> QED BY <2>3, <2>4 DEF Counted
<1> HIDE DEF refs
<1>5. /\ \A p \in DOMAIN cache' : cache'[p] \in [buf : PageContents, ref_cnt : Nat \ {0}]
      /\ \A p : (IF p \in DOMAIN cache' THEN cache'[p].ref_cnt ELSE 0)
                   = (IF p \in DOMAIN cache THEN cache[p].ref_cnt ELSE 0) - Count(refs, p)
  <2>1. \A p \in DOMAIN cache : cache[p] \in [buf : PageContents, ref_cnt : Nat \ {0}]  BY DEF IOTypeOK
  <2>2. \A p \in DOMAIN refs : refs[p] \in Nat  BY <1>4
  <2>3. \A p \in DOMAIN refs : refs[p] <= (IF p \in DOMAIN cache THEN cache[p].ref_cnt ELSE 0)  BY <1>4
  <2> QED BY <1>1, <2>1, <2>2, <2>3, DerefCounts
<1>6. /\ \A j \in Inserts : j # i => pageRef'[j] = pageRef[j]
      /\ DOMAIN pageRef' = Inserts /\ DOMAIN pageRef'[i] = {}
  BY <1>1 DEF IOTypeOK, NoPages
<1>7. IOTypeOK'  BY <1>1, <1>5, <1>6 DEF IOTypeOK
<1>8. pc'[i] = "done" /\ \A j \in Inserts : j # i => pc'[j] = pc[j]
  BY <1>1 DEF IInv, TypeOK
<1>9. BufferPhases'
  <2>1. \A j \in Inserts : \A p \in DOMAIN missing[j] :
            p \in DOMAIN pageRef'[j] /\ missing[j][p] \in 1 .. pageRef'[j][p]
    BY <1>2, <1>6 DEF BufferPhases
  <2> QED BY <1>1, <1>2, <1>8, <2>1 DEF BufferPhases
<1>10. \A j \in Inserts : j # i => \A p : Holds(j, p)' = Holds(j, p)
  BY <1>1, <1>6 DEF Holds, Count, Once
<1>11. ASSUME NEW p PROVE Counted(p)' = Counted(p) + Holds(i, p)' - Holds(i, p)
  <2> DEFINE a == Count(refs, p)
             b == Count(Once(DOMAIN writeBuf[i]), p)
  <2>1. a \in Nat /\ b \in Nat /\ Counted(p) \in Nat /\ Holds(i, p) = a + b
    BY <1>3 DEF Counted, IOTypeOK
  <2>2. Count(pageRef'[i], p) = 0 /\ Count(missing'[i], p) = 0  BY <1>1, <1>2, <1>6 DEF Count
  <2>3. Holds(i, p)' = Count(pageRef'[i], p) - Count(missing'[i], p) + b + 0
    BY <1>1, <1>2 DEF Holds, Count, Once
  <2>4. Counted(p)' = Counted(p) - a  BY <1>5 DEF Counted
  <2> HIDE DEF a, b
  <2> QED BY <2>1, <2>2, <2>3, <2>4
<1>12. CountsExact'  BY <1>7, <1>9, <1>10, <1>11, CountsMove
<1> QED BY <1>7, <1>9, <1>12

(* The background write. *)
LEMMA BgWriteKeepsIO ==
    ASSUME IOIInv, IInv', IOBgWrite
    PROVE  IOIInv'
<1> USE DEF IOIInv
<1>1. /\ UNCHANGED <<cache, pageRef, searchBuf, readBuf, missing, writeBuf, pc, nbrLoc, nhood, idxRd>>
      /\ disk' = [ p \in DOMAIN disk \cup DOMAIN writeBuf[bgTask'] |->
                     IF p \in DOMAIN writeBuf[bgTask'] THEN writeBuf[bgTask'][p] ELSE disk[p] ]
      /\ bgTask' # None
  <2>1. bgTask' = Head(bgTasks) /\ bgTasks # << >> /\ bgTasks \in Seq(Inserts)
    BY DEF IOBgWrite, BgWrite, IInv, TypeOK
  <2>2. bgTask' \in Inserts
    <3> DEFINE n == Len(bgTasks)
    <3>1. n \in Nat /\ n # 0  BY <2>1, EmptySeq, LenProperties
    <3>2. 1 \in 1 .. n  BY <3>1
    <3> QED BY <2>1, <3>2, ElementOfSeq, HeadTailProperties
  <2>3. None \notin Inserts  BY SentinelAssumption, NumAssumption DEF Inserts, Ids
  <2> QED BY <2>2, <2>3 DEF IOBgWrite, BgWrite, workVars, lockVars
<1>2. bgTask' \in Inserts  BY <1>1 DEF IInv, TypeOK
<1>3. \A p \in DOMAIN disk' : disk'[p] \in PageContents  BY <1>1, <1>2 DEF IOTypeOK
<1>4. IOTypeOK'  BY <1>1, <1>3 DEF IOTypeOK
<1>5. BufferPhases'  BY <1>1 DEF BufferPhases
<1>6. \A j \in Inserts : \A p : Holds(j, p)' = Holds(j, p)  BY <1>1 DEF Holds, Count, Once
<1>7. CountsExact'  BY <1>1, <1>6, CountsStay
<1> QED BY <1>4, <1>5, <1>7

(* ... and its references are dropped. *)
LEMMA BgFinishKeepsIO ==
    ASSUME IOIInv, IInv', NEW i \in Inserts, i = bgTask, IOBgFinish
    PROVE  IOIInv'
<1> USE DEF IOIInv
<1> DEFINE refs == Once(DOMAIN writeBuf[i])
<1>1. /\ UNCHANGED <<disk, pageRef, searchBuf, readBuf, missing, pc, nbrLoc, nhood, idxRd>>
      /\ cache' = Deref(cache, refs)
      /\ writeBuf' = [writeBuf EXCEPT ![i] = NoPages]
  BY DEF IOBgFinish, BgFinish, workVars
<1>2. \A p : Count(refs, p) \in Nat /\ Count(refs, p) <= Holds(i, p)
  <2> SUFFICES ASSUME NEW p PROVE Count(refs, p) \in Nat /\ Count(refs, p) <= Holds(i, p)
    OBVIOUS
  <2> DEFINE c == IF searchBuf[i].from = "cache" /\ searchBuf[i].page = p THEN 1 ELSE 0
  <2>1. /\ Count(pageRef[i], p) \in Nat /\ Count(missing[i], p) \in Nat
        /\ Count(missing[i], p) <= Count(pageRef[i], p)
        /\ Count(refs, p) \in Nat
    BY <1>1, CountsType
  <2>2. Holds(i, p) = Count(pageRef[i], p) - Count(missing[i], p) + Count(refs, p) + c  BY DEF Holds
  <2>3. c \in Nat  OBVIOUS
  <2> HIDE DEF c, refs
  <2> QED BY <2>1, <2>2, <2>3
<1>4. \A p \in DOMAIN refs : refs[p] \in Nat /\ refs[p] <= (IF p \in DOMAIN cache THEN cache[p].ref_cnt ELSE 0)
  <2> SUFFICES ASSUME NEW p \in DOMAIN refs
               PROVE  refs[p] \in Nat /\ refs[p] <= (IF p \in DOMAIN cache THEN cache[p].ref_cnt ELSE 0)
    OBVIOUS
  <2>1. Holds(i, p) <= Counted(p) /\ Holds(i, p) \in Nat  BY <1>1, HeldIsCounted, HoldsType
  <2>2. Count(refs, p) = refs[p]  BY DEF Count
  <2>3. refs[p] \in Nat /\ refs[p] <= Counted(p)
    <3>1. Counted(p) \in Nat  BY DEF Counted, IOTypeOK
    <3>2. Count(refs, p) \in Nat /\ Count(refs, p) <= Holds(i, p)  BY <1>2
    <3> HIDE DEF refs
    <3> QED BY <2>1, <2>2, <3>1, <3>2
  <2> QED BY <2>3 DEF Counted
<1>5. /\ \A p \in DOMAIN cache' : cache'[p] \in [buf : PageContents, ref_cnt : Nat \ {0}]
      /\ \A p : (IF p \in DOMAIN cache' THEN cache'[p].ref_cnt ELSE 0)
                   = (IF p \in DOMAIN cache THEN cache[p].ref_cnt ELSE 0) - Count(refs, p)
  <2>1. \A p \in DOMAIN cache : cache[p] \in [buf : PageContents, ref_cnt : Nat \ {0}]  BY DEF IOTypeOK
  <2>2. \A p \in DOMAIN refs : refs[p] \in Nat  BY <1>4
  <2>3. \A p \in DOMAIN refs : refs[p] <= (IF p \in DOMAIN cache THEN cache[p].ref_cnt ELSE 0)  BY <1>4
  <2> HIDE DEF refs
  <2> QED BY <1>1, <2>1, <2>2, <2>3, DerefCounts
<1>6. /\ \A j \in Inserts : j # i => writeBuf'[j] = writeBuf[j]
      /\ DOMAIN writeBuf' = Inserts /\ DOMAIN writeBuf'[i] = {}
  BY <1>1 DEF IOTypeOK, NoPages
<1>7. IOTypeOK'  BY <1>1, <1>5, <1>6 DEF IOTypeOK
<1>8. BufferPhases'  BY <1>1, <1>6 DEF BufferPhases
<1>9. \A j \in Inserts : j # i => \A p : Holds(j, p)' = Holds(j, p)
  BY <1>1, <1>6 DEF Holds, Count, Once
<1>10. ASSUME NEW p PROVE Counted(p)' = Counted(p) + Holds(i, p)' - Holds(i, p)
  <2> DEFINE a == Count(pageRef[i], p) - Count(missing[i], p)
             b == Count(refs, p)
             c == IF searchBuf[i].from = "cache" /\ searchBuf[i].page = p THEN 1 ELSE 0
  <2>1. a \in Int /\ b \in Nat /\ c \in Nat /\ Counted(p) \in Nat
    <3>1. Count(pageRef[i], p) \in Nat /\ Count(missing[i], p) \in Nat  BY <1>1, CountsType
    <3>2. Counted(p) \in Nat  BY DEF Counted, IOTypeOK
    <3> QED BY <1>2, <3>1, <3>2
  <2>2. Count(Once(DOMAIN writeBuf'[i]), p) = 0  BY <1>6 DEF Count, Once
  <2>3. Holds(i, p) = a + b + c  BY DEF Holds
  <2>4. Holds(i, p)' = a + Count(Once(DOMAIN writeBuf'[i]), p) + c
    BY <1>1 DEF Holds, Count, Once
  <2>5. Counted(p)' = Counted(p) - b  BY <1>5 DEF Counted
  <2> HIDE DEF a, b, c
  <2> QED BY <2>1, <2>2, <2>3, <2>4, <2>5
<1>11. CountsExact'  BY <1>1, <1>7, <1>8, <1>9, <1>10, CountsMove
<1> QED BY <1>7, <1>8, <1>11

(* The freshly loaded index, with an empty cache. *)
LEMMA InitIO ==
    ASSUME IOInit
    PROVE  IOIInv
<1>1. IInv  BY InitIInv DEF IOInit
<1>2. /\ DOMAIN pageRef = Inserts /\ DOMAIN searchBuf = Inserts /\ DOMAIN readBuf = Inserts
      /\ DOMAIN missing = Inserts /\ DOMAIN writeBuf = Inserts /\ DOMAIN cache = {}
      /\ \A i \in Inserts : /\ DOMAIN pageRef[i] = {} /\ DOMAIN readBuf[i] = {} /\ DOMAIN missing[i] = {}
                            /\ DOMAIN writeBuf[i] = {} /\ searchBuf[i] = NoSearch
                            /\ pc[i] = "idle" /\ idxRd[i] = {}
  BY DEF IOInit, Init, NoPages
<1>3. GarbagePage \in PageContents  BY DEF GarbagePage, PageContents, Records
<1>4. NoSearch \in [page : Nat, from : {"none", "miss", "disk", "cache"}, buf : PageContents]
      /\ NoSearch.from = "none"
  BY <1>3 DEF NoSearch
<1>5. \A p \in DOMAIN disk : disk[p] \in PageContents
  BY DEF IOInit, PageContents, Records, Rec
<1>6. IOTypeOK  BY <1>2, <1>4, <1>5 DEF IOTypeOK
<1>7. BufferPhases  BY <1>2, <1>4 DEF BufferPhases
<1>8. CountsExact
  <2> SUFFICES ASSUME NEW p PROVE Counted(p) = Outstanding(p)
    BY DEF CountsExact
  <2> DEFINE f == [ i \in Inserts |-> Holds(i, p) ]
  <2>1. ASSUME NEW i \in Inserts PROVE Holds(i, p) = 0
    <3>1. Count(pageRef[i], p) = 0 /\ Count(missing[i], p) = 0 /\ Count(Once(DOMAIN writeBuf[i]), p) = 0
      BY <1>2 DEF Count, Once
    <3> QED BY <1>2, <1>4, <3>1 DEF Holds
  <2>2. f = [ i \in Inserts |-> 0 ]  BY <2>1
  <2>3. SumFunction(f) = 0
    <3> HIDE DEF f
    <3> QED BY <2>2, InsertsFinite, SumOfZeroes
  <2> QED BY <1>2, <2>3 DEF Counted, Outstanding
<1> QED BY <1>1, <1>6, <1>7, <1>8 DEF IOIInv

(* A step of InsertIO is a step of InsertPath or leaves it alone. *)
LEMMA IOStepIsStep ==
    ASSUME [IONext]_allVars
    PROVE  [Next]_vars
<1>1. CASE UNCHANGED allVars  BY <1>1 DEF allVars
<1>2. ASSUME NEW i \in Inserts, IOInsert(i) PROVE [Next]_vars
  <2>1. CASE IOSearchFetch(i) \/ IOFetch(i) \/ IOFill(i)
    BY <2>1, Zenon DEF IOSearchFetch, IOFetch, IOFill
  <2>2. CASE ~(IOSearchFetch(i) \/ IOFetch(i) \/ IOFill(i))
    <3>1. Insert(i)
      BY <1>2, <2>2, Zenon DEF IOInsert, IOLocal, IOSearchLock, IOSearchUnlock, IOReadPages, IOWritePages,
                        IOReturn, Insert
    <3> QED BY <3>1 DEF Next
  <2> QED BY <2>1, <2>2
<1>3. CASE IOBgWrite \/ IOBgFinish \/ Finished
  BY <1>3 DEF IOBgWrite, IOBgFinish, Next
<1> QED BY <1>1, <1>2, <1>3 DEF IONext

(* Every step keeps the invariant. *)
LEMMA NextIO ==
    ASSUME IOIInv, [IONext]_allVars
    PROVE  IOIInv'
<1>0. IInv'  BY IOStepIsStep, NextIInv DEF IOIInv
<1>1. CASE UNCHANGED allVars
  <2>1. /\ UNCHANGED <<disk, cache, pageRef, searchBuf, readBuf, missing, writeBuf>>
        /\ UNCHANGED <<pc, nbrLoc, nhood, idxRd>>
    BY <1>1 DEF allVars, ioVars, vars, workVars, lockVars
  <2>2. IOTypeOK' /\ BufferPhases'  BY <2>1 DEF IOIInv, IOTypeOK, BufferPhases
  <2>3. CountsExact'
    <3>1. \A j \in Inserts : \A p : Holds(j, p)' = Holds(j, p)  BY <2>1 DEF Holds, Count, Once
    <3> QED BY <2>1, <3>1, CountsStay DEF IOIInv
  <2> QED BY <1>0, <2>2, <2>3 DEF IOIInv
<1>2. ASSUME NEW i \in Inserts, IOInsert(i) PROVE IOIInv'
  <2>1. CASE IOLocal(i)  BY <1>0, <2>1, LocalKeepsIO
  <2>2. CASE \E id \in Ids : IOSearchLock(i, id)  BY <1>0, <2>2, SearchLockKeepsIO
  <2>3. CASE IOSearchFetch(i)  BY <1>0, <2>3, SearchFetchKeepsIO
  <2>4. CASE IOSearchUnlock(i)  BY <1>0, <2>4, SearchUnlockKeepsIO
  <2>5. CASE IOReadPages(i)  BY <1>0, <2>5, ReadPagesKeepsIO
  <2>6. CASE IOFetch(i)  BY <1>0, <2>6, FetchKeepsIO
  <2>7. CASE IOFill(i)  BY <1>0, <2>7, FillKeepsIO
  <2>8. CASE IOWritePages(i)  BY <1>0, <2>8, WritePagesKeepsIO
  <2>9. CASE IOReturn(i)  BY <1>0, <2>9, ReturnKeepsIO
  <2> QED BY <1>2, <2>1, <2>2, <2>3, <2>4, <2>5, <2>6, <2>7, <2>8, <2>9 DEF IOInsert
<1>3. CASE IOBgWrite  BY <1>0, <1>3, BgWriteKeepsIO
<1>4. CASE IOBgFinish
  <2>1. bgTask \in Inserts  BY <1>4 DEF IOBgFinish, BgFinish, IOIInv, IInv, TypeOK
  <2> QED BY <1>0, <1>4, <2>1, BgFinishKeepsIO
<1>5. CASE Finished /\ UNCHANGED ioVars
  <2>1. UNCHANGED allVars  BY <1>5 DEF Finished, allVars
  <2> QED BY <1>1, <2>1
<1> QED BY <1>1, <1>2, <1>3, <1>4, <1>5 DEF IONext

(* The page cache, for any number of inserts, pages and readers: ref_cnt    *)
(* counts exactly the references that searches, read_alloc and writes have  *)
(* still to drop, so no page leaves the cache before its last user, and     *)
(* none stays when there is no user left (IOInv).                           *)
THEOREM CacheCountsExact == IOSpec => []IOInv
<1>1. IOInit => IOIInv  BY InitIO
<1>2. IOIInv /\ [IONext]_allVars => IOIInv'  BY NextIO
<1>3. IOIInv => IOInv
  <2> SUFFICES ASSUME IOIInv PROVE RefCountsExact
    BY DEF IOIInv, IOInv
  <2> QED BY DEF IOIInv, RefCountsExact, CountsExact, Counted
<1> QED BY <1>1, <1>2, <1>3, PTL DEF IOSpec

-----------------------------------------------------------------------------
(* InsertIO with one client thread: what the pages hold. *)

(* One client thread. *)
OneActive == \A i, j \in Active : i = j

(* A write of page p is on its way to the file.                             *)
Pending(p) == \E i \in Inserts : p \in DOMAIN writeBuf[i]

(* The page locks: held by one insert at a time, from before its pages are  *)
(* read until they are in the file.                                         *)
WritesLocked ==
    /\ \A i, j \in Inserts : i # j => pageHeld[i] \cap pageHeld[j] = {}
    /\ \A i \in Inserts :
         /\ DOMAIN writeBuf[i] \subseteq pageHeld[i]
         /\ pc[i] \in {"lockv", "read", "write"} => PagesOf(locs[i]) \subseteq pageHeld[i]
    /\ \A i \in Elems(bgTasks) : pc[i] \in {"deref", "done"}
    /\ bgTask # None => pc[bgTask] \in {"deref", "done"}

(* A page that is to be written is in the cache as it will be in the file,  *)
(* every other cached page is as it is in the file, and what has been read  *)
(* is what a read would see now.                                            *)
ContentsCurrent ==
    /\ \A i \in Inserts : \A p \in DOMAIN writeBuf[i] : cache[p].buf = writeBuf[i][p]
    /\ \A p \in DOMAIN cache : ~Pending(p) => cache[p].buf = OnDisk(p)
    /\ bgTask # None => \A p \in DOMAIN writeBuf[bgTask] : OnDisk(p) = writeBuf[bgTask][p]
    /\ \A i \in Inserts :
         /\ searchBuf[i].from \in {"miss", "disk"} => ~Pending(searchBuf[i].page)
         /\ searchBuf[i].from = "disk" => searchBuf[i].buf = OnDisk(searchBuf[i].page)
         /\ \A p \in DOMAIN missing[i] : ~Pending(p)
         /\ pc[i] = "write" => \A p \in DOMAIN readBuf[i] : readBuf[i][p] = Seen(p)

(* Before the rewrite: the neighbours are where they were found, and every  *)
(* page that the rewrite needs has been read or is still to be read.        *)
ReadsAll(i) ==
    /\ \A k \in DOMAIN nhood[i] :
          /\ nbrLoc[i][k] = id2loc[nhood[i][k]]
          /\ nbrLoc[i][k][1] \in DOMAIN readBuf[i] \cup DOMAIN missing[i]
    /\ needRead[i] \subseteq DOMAIN readBuf[i] \cup DOMAIN missing[i]

(* A page that is written without having been read holds no record.         *)
UnreadHoldNothing(i) ==
    \A p \in PagesOf(locs[i]) \ needRead[i] : \A s \in Slots : layout[p][s] \notin PlacedIds

PagesReady ==
    \A i \in Inserts :
        /\ pc[i] = "write" => ReadsAll(i)
        /\ pc[i] \in {"lockp", "lockv", "read", "write"} => UnreadHoldNothing(i)
        /\ pc[i] \notin {"idle", "search"} => Elems(nhood[i]) \subseteq PlacedIds

(* The records that an insert has written and not yet named in the maps.    *)
NewRecords ==
    \A i \in Inserts : pc[i] \in {"locki", "update", "layout"} =>
        /\ \A k \in DOMAIN nhood[i] :
              SeenRec(locs[i][k]) = Rec(nhood[i][k], LinksOf(nhood[i][k]) \cup {i})
        /\ SeenRec(locs[i][Len(nhood[i]) + 1]) = Rec(i, {})

SerialInv ==
    /\ OneActive /\ WritesLocked /\ ContentsCurrent
    /\ PagesReady /\ NewRecords /\ RecordsReadable

(* The members of a longer and of a shorter sequence. *)
LEMMA ElemsAppend ==
    ASSUME NEW X, NEW s \in Seq(X), NEW x \in X
    PROVE  Elems(Append(s, x)) = Elems(s) \cup {x}
<1>1. DOMAIN s = 1 .. Len(s) /\ Len(s) \in Nat  BY LenProperties
<1>2. Append(s, x) \in Seq(X) /\ Len(Append(s, x)) = Len(s) + 1
      /\ \A k \in 1 .. Len(s) + 1 : Append(s, x)[k] = IF k <= Len(s) THEN s[k] ELSE x
  BY AppendProperties
<1>3. DOMAIN Append(s, x) = 1 .. Len(s) + 1
      /\ \A k \in 1 .. Len(s) + 1 : Append(s, x)[k] = IF k = Len(s) + 1 THEN x ELSE s[k]
  BY <1>1, <1>2, LenProperties
<1>4. \A k \in 1 .. Len(s) : k \in 1 .. Len(s) + 1 /\ k # Len(s) + 1  BY <1>1
<1>5. Len(s) + 1 \in 1 .. Len(s) + 1 /\ \A k \in 1 .. Len(s) + 1 : k # Len(s) + 1 => k \in 1 .. Len(s)
  BY <1>1
<1>6. \A y : y \in Elems(Append(s, x)) <=> y \in Elems(s) \/ y = x
  <2> SUFFICES ASSUME NEW y PROVE y \in Elems(Append(s, x)) <=> y \in Elems(s) \/ y = x
    OBVIOUS
  <2>1. y \in Elems(s) <=> \E k \in 1 .. Len(s) : s[k] = y  BY <1>1 DEF Elems
  <2>2. y \in Elems(Append(s, x)) <=> \E k \in 1 .. Len(s) + 1 : Append(s, x)[k] = y
    BY <1>3 DEF Elems
  <2> QED BY <1>3, <1>4, <1>5, <2>1, <2>2
<1> QED BY <1>6

LEMMA ElemsTail ==
    ASSUME NEW X, NEW s \in Seq(X), s # << >>
    PROVE  /\ Head(s) \in X /\ Head(s) \in Elems(s) /\ Elems(Tail(s)) \subseteq Elems(s)
<1>1. Len(s) \in Nat /\ DOMAIN s = 1 .. Len(s) /\ Len(s) # 0  BY LenProperties, EmptySeq
<1>2. Head(s) = s[1] /\ Tail(s) \in Seq(X) /\ Len(Tail(s)) = Len(s) - 1
      /\ \A k \in 1 .. Len(Tail(s)) : Tail(s)[k] = s[k + 1]
  BY HeadTailProperties
<1>3. 1 \in DOMAIN s  BY <1>1
<1>4. DOMAIN Tail(s) = 1 .. Len(Tail(s))  BY <1>2, LenProperties
<1>5. \A k \in 1 .. Len(Tail(s)) : k + 1 \in DOMAIN s  BY <1>1, <1>2
<1>6. Elems(Tail(s)) \subseteq Elems(s)  BY <1>2, <1>4, <1>5 DEF Elems
<1> QED BY <1>2, <1>3, <1>6, ElementOfSeq DEF Elems

(* The page locks, step by step. *)
LEMMA LocalKeepsLocks ==
    ASSUME IOIInv, WritesLocked, NEW i \in Inserts, IOLocal(i)
    PROVE  WritesLocked'
<1> USE DEF IOIInv
<1>0. /\ pc \in [Inserts -> Labels] /\ pageHeld \in [Inserts -> SUBSET Nat] /\ locs \in [Inserts -> Seq(Locs)]
      /\ bgTasks \in Seq(Inserts)
  BY DEF IInv, TypeOK
<1>1. writeBuf' = writeBuf  BY DEF IOLocal, ioVars
<1> DEFINE Frame == /\ pageHeld' = pageHeld /\ bgTasks' = bgTasks /\ bgTask' = bgTask
                    /\ \A j \in Inserts : j # i => pc'[j] = pc[j] /\ locs'[j] = locs[j]
                    /\ pc[i] \notin {"deref", "done"}
                    /\ pc'[i] \in {"lockv", "read", "write"} =>
                          pc[i] \in {"lockv", "read", "write"} /\ locs'[i] = locs[i]
<1>2. CASE Frame
  <2>1. \A j \in Inserts : pc'[j] \in {"lockv", "read", "write"} =>
            pc[j] \in {"lockv", "read", "write"} /\ locs'[j] = locs[j]
    BY <1>2
  <2>2. \A j \in Inserts : pc[j] \in {"deref", "done"} => pc'[j] \in {"deref", "done"}
    BY <1>2
  <2>3. Elems(bgTasks) \subseteq Inserts
    <3>1. DOMAIN bgTasks = 1 .. Len(bgTasks)  BY <1>0, LenProperties
    <3> QED BY <1>0, <3>1, ElementOfSeq DEF Elems
  <2>4. bgTask # None => bgTask \in Inserts  BY DEF IInv, TypeOK
  <2>5. \A j \in Elems(bgTasks') : pc'[j] \in {"deref", "done"}
    BY <1>2, <2>2, <2>3 DEF WritesLocked
  <2>6. \A j \in Inserts : pc'[j] \in {"lockv", "read", "write"} => PagesOf(locs'[j]) \subseteq pageHeld'[j]
    BY <1>2, <2>1 DEF WritesLocked
  <2> QED BY <1>1, <1>2, <2>2, <2>4, <2>5, <2>6 DEF WritesLocked
<1>3. CASE Begin(i)  BY <1>0, <1>2, <1>3 DEF Begin, Goto, lockVars, bgVars, workVars
<1>4. CASE AllocLoc(i)
  <2>1. /\ pc[i] = "search" /\ Goto(i, "lockp") /\ UNCHANGED <<lockVars, bgVars>>
    BY <1>4, Zenon DEF AllocLoc
  <2>2. PICK l : locs' = [locs EXCEPT ![i] = l]  BY <1>4, Zenon DEF AllocLoc
  <2> QED BY <1>0, <1>2, <2>1, <2>2 DEF Goto, lockVars, bgVars
<1>5. ASSUME NEW p \in DOMAIN layout, LockPage(i, p) PROVE WritesLocked'
  <2>1. /\ pc[i] = "lockp" /\ \A j \in Inserts : p \notin pageHeld[j]
        /\ pageHeld' = [pageHeld EXCEPT ![i] = @ \cup {p}]
        /\ IF PagesOf(locs[i]) = pageHeld[i] \cup {p} THEN Goto(i, "lockv") ELSE UNCHANGED pc
        /\ UNCHANGED <<locs, bgTasks, bgTask>>
    BY <1>5 DEF LockPage, workVars, bgVars
  <2>2. /\ pageHeld'[i] = pageHeld[i] \cup {p}
        /\ \A j \in Inserts : j # i => pageHeld'[j] = pageHeld[j] /\ pc'[j] = pc[j]
        /\ pc'[i] = "lockp" \/ (pc'[i] = "lockv" /\ PagesOf(locs[i]) \subseteq pageHeld'[i])
    BY <1>0, <2>1 DEF Goto
  <2>3. \A j, k \in Inserts : j # k => pageHeld'[j] \cap pageHeld'[k] = {}
    <3> SUFFICES ASSUME NEW j \in Inserts, NEW k \in Inserts, j # k
                 PROVE  pageHeld'[j] \cap pageHeld'[k] = {}
      OBVIOUS
    <3>1. pageHeld[j] \cap pageHeld[k] = {} /\ p \notin pageHeld[j] /\ p \notin pageHeld[k]
      BY <2>1 DEF WritesLocked
    <3> QED BY <2>2, <3>1
  <2>4. \A j \in Inserts : pc[j] \in {"deref", "done"} => pc'[j] \in {"deref", "done"}
    BY <2>1, <2>2
  <2>5. Elems(bgTasks) \subseteq Inserts
    <3>1. DOMAIN bgTasks = 1 .. Len(bgTasks)  BY <1>0, LenProperties
    <3> QED BY <1>0, <3>1, ElementOfSeq DEF Elems
  <2>6. bgTask # None => bgTask \in Inserts  BY DEF IInv, TypeOK
  <2>7. \A j \in Inserts : DOMAIN writeBuf'[j] \subseteq pageHeld'[j]
    BY <1>1, <2>2 DEF WritesLocked
  <2>8. \A j \in Inserts : pc'[j] \in {"lockv", "read", "write"} => PagesOf(locs'[j]) \subseteq pageHeld'[j]
    BY <2>1, <2>2 DEF WritesLocked
  <2>9. (\A j \in Elems(bgTasks') : pc'[j] \in {"deref", "done"})
        /\ (bgTask' # None => pc'[bgTask'] \in {"deref", "done"})
    BY <2>1, <2>4, <2>5, <2>6 DEF WritesLocked
  <2> QED BY <2>3, <2>7, <2>8, <2>9 DEF WritesLocked
<1>6. CASE \E id \in Ids : LockVec(i, id)
  BY <1>0, <1>2, <1>6 DEF LockVec, Goto, workVars, bgVars
<1>7. CASE \E id \in Ids : LockIdx(i, id)
  BY <1>0, <1>2, <1>7 DEF LockIdx, Goto, workVars, bgVars
<1>8. CASE UpdateId2Loc(i)
  BY <1>0, <1>2, <1>8 DEF UpdateId2Loc, Goto, lockVars, bgVars
<1>9. CASE EraseAndSetLoc(i)
  BY <1>0, <1>2, <1>9 DEF EraseAndSetLoc, Goto, workVars, bgVars
<1>10. CASE UnlockVec(i)
  BY <1>0, <1>2, <1>10 DEF UnlockVec, Goto, workVars, bgVars
<1>11. CASE Commit(i)
  <2>1. /\ pc[i] = "commit" /\ bgTasks' = Append(bgTasks, i) /\ Goto(i, "deref")
        /\ UNCHANGED <<locs, pageHeld, bgTask>>
    BY <1>11 DEF Commit, workVars, lockVars
  <2>2. pc'[i] = "deref" /\ \A j \in Inserts : j # i => pc'[j] = pc[j]  BY <1>0, <2>1 DEF Goto
  <2>3. Elems(bgTasks') = Elems(bgTasks) \cup {i}  BY <1>0, <2>1, ElemsAppend
  <2>4. Elems(bgTasks) \subseteq Inserts
    <3>1. DOMAIN bgTasks = 1 .. Len(bgTasks)  BY <1>0, LenProperties
    <3> QED BY <1>0, <3>1, ElementOfSeq DEF Elems
  <2>5. bgTask # None => bgTask \in Inserts  BY DEF IInv, TypeOK
  <2>6. (\A j \in Elems(bgTasks') : pc'[j] \in {"deref", "done"})
        /\ (bgTask' # None => pc'[bgTask'] \in {"deref", "done"})
    BY <2>1, <2>2, <2>3, <2>4, <2>5 DEF WritesLocked
  <2>7. \A j \in Inserts : pc'[j] \in {"lockv", "read", "write"} => PagesOf(locs'[j]) \subseteq pageHeld'[j]
    BY <2>1, <2>2 DEF WritesLocked
  <2> QED BY <1>1, <2>1, <2>6, <2>7 DEF WritesLocked
<1> QED
  BY <1>3, <1>4, <1>5, <1>6, <1>7, <1>8, <1>9, <1>10, <1>11 DEF IOLocal

(* Steps that leave pc, the lists and the page locks alone. *)
LEMMA SteadyKeepsLocks ==
    ASSUME WritesLocked, UNCHANGED <<pc, locs, pageHeld, writeBuf, bgTasks, bgTask>>
    PROVE  WritesLocked'
BY DEF WritesLocked

LEMMA NextKeepsLocks ==
    ASSUME IOIInv, IOIInv', WritesLocked, [IONext]_allVars
    PROVE  WritesLocked'
<1> USE DEF IOIInv
<1>0. /\ pc \in [Inserts -> Labels] /\ pageHeld \in [Inserts -> SUBSET Nat]
      /\ bgTasks \in Seq(Inserts) /\ bgTask \in Inserts \cup {None}
      /\ DOMAIN writeBuf = Inserts
  BY DEF IInv, TypeOK, IOTypeOK
<1>b. None \notin Inserts  BY SentinelAssumption, NumAssumption DEF Inserts, Ids
<1>a. Elems(bgTasks) \subseteq Inserts
  <2>1. DOMAIN bgTasks = 1 .. Len(bgTasks)  BY <1>0, LenProperties
  <2> QED BY <1>0, <2>1, ElementOfSeq DEF Elems
<1>1. CASE UNCHANGED allVars
  <2>1. UNCHANGED <<pc, locs, pageHeld, writeBuf, bgTasks, bgTask>>
    BY <1>1 DEF allVars, vars, ioVars, workVars, lockVars, bgVars
  <2> QED BY <2>1, SteadyKeepsLocks
<1>2. ASSUME NEW i \in Inserts, IOInsert(i) PROVE WritesLocked'
  <2>1. CASE IOLocal(i)  BY <2>1, LocalKeepsLocks
  <2>2. CASE \E id \in Ids : IOSearchLock(i, id)
    <3>1. UNCHANGED <<pc, locs, pageHeld, writeBuf, bgTasks, bgTask>>
      BY <2>2 DEF IOSearchLock, SearchLock, bgVars
    <3> QED BY <3>1, SteadyKeepsLocks
  <2>3. CASE IOSearchFetch(i) \/ IOFetch(i) \/ IOFill(i)
    <3>1. UNCHANGED <<pc, locs, pageHeld, writeBuf, bgTasks, bgTask>>
      BY <2>3 DEF IOSearchFetch, IOFetch, IOFill, vars, workVars, lockVars, bgVars
    <3> QED BY <3>1, SteadyKeepsLocks
  <2>4. CASE IOSearchUnlock(i)
    <3>1. UNCHANGED <<pc, locs, pageHeld, writeBuf, bgTasks, bgTask>>
      BY <2>4 DEF IOSearchUnlock, SearchUnlock, workVars, bgVars
    <3> QED BY <3>1, SteadyKeepsLocks
  <2>5. CASE IOReadPages(i)
    <3>1. /\ pc[i] = "read" /\ pc' = [pc EXCEPT ![i] = "write"]
          /\ UNCHANGED <<locs, pageHeld, writeBuf, bgTasks, bgTask>>
      BY <2>5 DEF IOReadPages, ReadPages, Goto, lockVars, bgVars
    <3>2. pc'[i] = "write" /\ \A j \in Inserts : j # i => pc'[j] = pc[j]  BY <1>0, <3>1
    <3>3. i \notin Elems(bgTasks) /\ bgTask # i  BY <1>b, <3>1 DEF WritesLocked
    <3>4. \A j \in Inserts : pc'[j] \in {"lockv", "read", "write"} => PagesOf(locs'[j]) \subseteq pageHeld'[j]
      BY <3>1, <3>2 DEF WritesLocked
    <3>5. (\A j \in Elems(bgTasks') : pc'[j] \in {"deref", "done"})
          /\ (bgTask' # None => pc'[bgTask'] \in {"deref", "done"})
      BY <1>0, <1>a, <3>1, <3>2, <3>3 DEF WritesLocked
    <3> QED BY <3>1, <3>4, <3>5 DEF WritesLocked
  <2>6. CASE IOWritePages(i)
    <3>1. /\ pc[i] = "write" /\ pc' = [pc EXCEPT ![i] = "locki"]
          /\ UNCHANGED <<locs, pageHeld, bgTasks, bgTask>>
          /\ writeBuf' = [writeBuf EXCEPT ![i] = NewPages(i)]
      BY <2>6 DEF IOWritePages, WritePages, Goto, workVars, lockVars, bgVars
    <3>2. /\ pc'[i] = "locki" /\ writeBuf'[i] = NewPages(i)
          /\ \A j \in Inserts : j # i => pc'[j] = pc[j] /\ writeBuf'[j] = writeBuf[j]
      BY <1>0, <3>1
    <3>3. i \notin Elems(bgTasks) /\ bgTask # i  BY <1>b, <3>1 DEF WritesLocked
    <3>4. DOMAIN writeBuf'[i] \subseteq pageHeld[i]
      <4> DEFINE pages == NewPages(i)
      <4>0. DOMAIN pages = PagesOf(locs[i])
        <5>1. pages = NewPages(i)  OBVIOUS
        <5> HIDE DEF pages
        <5> QED BY <3>1, <5>1, NewPagesType
      <4>1. DOMAIN writeBuf'[i] = PagesOf(locs[i])  BY <3>2, <4>0
      <4> QED BY <3>1, <4>1 DEF WritesLocked
    <3>5. (\A j \in Elems(bgTasks') : pc'[j] \in {"deref", "done"})
          /\ (bgTask' # None => pc'[bgTask'] \in {"deref", "done"})
      BY <1>0, <1>a, <3>1, <3>2, <3>3 DEF WritesLocked
    <3>6. \A j \in Inserts : DOMAIN writeBuf'[j] \subseteq pageHeld'[j]
      BY <3>1, <3>2, <3>4 DEF WritesLocked
    <3>7. \A j \in Inserts : pc'[j] \in {"lockv", "read", "write"} => PagesOf(locs'[j]) \subseteq pageHeld'[j]
      BY <3>1, <3>2 DEF WritesLocked
    <3> QED BY <3>1, <3>5, <3>6, <3>7 DEF WritesLocked
  <2>7. CASE IOReturn(i)
    <3>1. /\ pc[i] = "deref" /\ pc' = [pc EXCEPT ![i] = "done"]
          /\ UNCHANGED <<locs, pageHeld, writeBuf, bgTasks, bgTask>>
      BY <2>7 DEF IOReturn, Return, Goto, lockVars, bgVars
    <3>2. pc'[i] = "done" /\ \A j \in Inserts : j # i => pc'[j] = pc[j]  BY <1>0, <3>1
    <3>3. (\A j \in Elems(bgTasks') : pc'[j] \in {"deref", "done"})
          /\ (bgTask' # None => pc'[bgTask'] \in {"deref", "done"})
      BY <1>0, <1>a, <3>1, <3>2 DEF WritesLocked
    <3>4. \A j \in Inserts : pc'[j] \in {"lockv", "read", "write"} => PagesOf(locs'[j]) \subseteq pageHeld'[j]
      BY <3>1, <3>2 DEF WritesLocked
    <3> QED BY <3>1, <3>3, <3>4 DEF WritesLocked
  <2> QED BY <1>2, <2>1, <2>2, <2>3, <2>4, <2>5, <2>6, <2>7 DEF IOInsert
<1>3. CASE IOBgWrite
  <2>1. /\ bgTasks # << >> /\ bgTask' = Head(bgTasks) /\ bgTasks' = Tail(bgTasks)
        /\ UNCHANGED <<pc, locs, pageHeld, writeBuf>>
    BY <1>3 DEF IOBgWrite, BgWrite, workVars, lockVars
  <2>2. Head(bgTasks) \in Elems(bgTasks) /\ Elems(Tail(bgTasks)) \subseteq Elems(bgTasks)
    BY <1>0, <2>1, ElemsTail
  <2> QED BY <2>1, <2>2 DEF WritesLocked
<1>4. CASE IOBgFinish
  <2>1. /\ bgTask \in Inserts /\ bgTask' = None /\ pageHeld' = [pageHeld EXCEPT ![bgTask] = {}]
        /\ writeBuf' = [writeBuf EXCEPT ![bgTask] = NoPages]
        /\ UNCHANGED <<pc, locs, bgTasks>> /\ pc[bgTask] \in {"deref", "done"}
    BY <1>0, <1>4 DEF IOBgFinish, BgFinish, workVars, WritesLocked
  <2>2. /\ \A j \in Inserts : pageHeld'[j] = IF j = bgTask THEN {} ELSE pageHeld[j]
        /\ \A j \in Inserts : j # bgTask => writeBuf'[j] = writeBuf[j]
        /\ DOMAIN writeBuf'[bgTask] = {}
    BY <1>0, <2>1 DEF NoPages
  <2>3. \A j \in Inserts : DOMAIN writeBuf'[j] \subseteq pageHeld'[j]  BY <2>1, <2>2 DEF WritesLocked
  <2>4. \A j, k \in Inserts : j # k => pageHeld'[j] \cap pageHeld'[k] = {}  BY <2>2 DEF WritesLocked
  <2>5. \A j \in Inserts : pc'[j] \in {"lockv", "read", "write"} => PagesOf(locs'[j]) \subseteq pageHeld'[j]
    BY <2>1, <2>2 DEF WritesLocked
  <2> QED BY <2>1, <2>3, <2>4, <2>5 DEF WritesLocked
<1>5. CASE Finished /\ UNCHANGED ioVars
  <2>1. UNCHANGED allVars  BY <1>5 DEF Finished, allVars
  <2> QED BY <1>1, <2>1
<1> QED BY <1>1, <1>2, <1>3, <1>4, <1>5 DEF IONext

-----------------------------------------------------------------------------
(* What the pages hold. *)

(* A page that is to be written is in the cache: the write has a reference. *)
PendingInCache == \A i \in Inserts : \A p \in DOMAIN writeBuf[i] : p \in DOMAIN cache

LEMMA PendingCached == IOIInv => PendingInCache
<1> SUFFICES ASSUME IOIInv, NEW i \in Inserts, NEW p \in DOMAIN writeBuf[i] PROVE p \in DOMAIN cache
  BY DEF PendingInCache
<1> USE DEF IOIInv
<1>1. /\ Count(pageRef[i], p) \in Nat /\ Count(missing[i], p) \in Nat
      /\ Count(missing[i], p) <= Count(pageRef[i], p)
  BY CountsType
<1>2. Count(Once(DOMAIN writeBuf[i]), p) = 1  BY DEF Count, Once
<1>3. Holds(i, p) > 0
  <2> DEFINE a == Count(pageRef[i], p)
             b == Count(missing[i], p)
             d == IF searchBuf[i].from = "cache" /\ searchBuf[i].page = p THEN 1 ELSE 0
  <2>1. Holds(i, p) = a - b + 1 + d  BY <1>2 DEF Holds
  <2>2. d \in Nat  OBVIOUS
  <2>3. a \in Nat /\ b \in Nat /\ b <= a  BY <1>1
  <2> HIDE DEF a, b, d
  <2> QED BY <2>1, <2>2, <2>3
<1>4. Holds(i, p) <= Counted(p)  BY HeldIsCounted
<1>5. Holds(i, p) \in Nat  BY HoldsType
<1>6. CASE p \notin DOMAIN cache
  <2>1. Counted(p) = 0  BY <1>6 DEF Counted
  <2> QED BY <1>3, <1>4, <1>5, <2>1
<1> QED BY <1>6

(* A step that changes neither the file nor the writes, and puts into the   *)
(* cache only what a read sees already.                                     *)
LEMMA ContentsStay ==
    ASSUME ContentsCurrent, PendingInCache, PendingInCache',
           UNCHANGED <<disk, writeBuf, bgTask>>,
           \A p \in DOMAIN cache' : cache'[p].buf = Seen(p),
           \A i \in Inserts :
              /\ searchBuf'[i].from \in {"miss", "disk"} => ~Pending(searchBuf'[i].page)
              /\ searchBuf'[i].from = "disk" => searchBuf'[i].buf = OnDisk(searchBuf'[i].page)
              /\ \A p \in DOMAIN missing'[i] : ~Pending(p)
              /\ pc'[i] = "write" => \A p \in DOMAIN readBuf'[i] : readBuf'[i][p] = Seen(p)
    PROVE  ContentsCurrent' /\ \A p : Seen(p)' = Seen(p)
<1>1. \A p : (Pending(p)' <=> Pending(p)) /\ OnDisk(p)' = OnDisk(p)
  BY DEF Pending, OnDisk
<1>2. ASSUME NEW p PROVE Seen(p)' = Seen(p)
  <2>1. CASE p \in DOMAIN cache'  BY <2>1 DEF Seen
  <2>2. CASE p \notin DOMAIN cache'
    <3>1. ~Pending(p)  BY <1>1, <2>2 DEF PendingInCache, Pending
    <3>2. Seen(p) = OnDisk(p)  BY <3>1 DEF ContentsCurrent, Seen
    <3> QED BY <1>1, <2>2, <3>2 DEF Seen
  <2> QED BY <2>1, <2>2
<1>3. ASSUME NEW i \in Inserts, NEW p \in DOMAIN writeBuf'[i] PROVE cache'[p].buf = writeBuf'[i][p]
  <2>1. p \in DOMAIN cache' /\ p \in DOMAIN cache /\ writeBuf' = writeBuf
    BY <1>3 DEF PendingInCache
  <2>2. cache'[p].buf = cache[p].buf  BY <2>1 DEF Seen
  <2> QED BY <1>3, <2>1, <2>2 DEF ContentsCurrent
<1>4. ASSUME NEW p \in DOMAIN cache', ~Pending(p)' PROVE cache'[p].buf = OnDisk(p)'
  BY <1>1, <1>4 DEF ContentsCurrent, Seen
<1>5. bgTask' # None => \A p \in DOMAIN writeBuf'[bgTask'] : OnDisk(p)' = writeBuf'[bgTask'][p]
  BY <1>1 DEF ContentsCurrent
<1>6. ASSUME NEW i \in Inserts
      PROVE  (/\ searchBuf[i].from \in {"miss", "disk"} => ~Pending(searchBuf[i].page)
              /\ searchBuf[i].from = "disk" => searchBuf[i].buf = OnDisk(searchBuf[i].page)
              /\ \A p \in DOMAIN missing[i] : ~Pending(p)
              /\ pc[i] = "write" => \A p \in DOMAIN readBuf[i] : readBuf[i][p] = Seen(p))'
  <2>1. /\ searchBuf'[i].from \in {"miss", "disk"} => ~Pending(searchBuf'[i].page)
        /\ searchBuf'[i].from = "disk" => searchBuf'[i].buf = OnDisk(searchBuf'[i].page)
        /\ \A p \in DOMAIN missing'[i] : ~Pending(p)
        /\ pc'[i] = "write" => \A p \in DOMAIN readBuf'[i] : readBuf'[i][p] = Seen(p)
    OBVIOUS
  <2>2. \A p : (Pending(p) <=> \E j \in Inserts : p \in DOMAIN writeBuf'[j])
               /\ OnDisk(p) = IF p \in DOMAIN disk' THEN disk'[p] ELSE GarbagePage
    BY <1>1 DEF Pending, OnDisk
  <2>3. \A p \in DOMAIN readBuf'[i] : pc'[i] = "write" => readBuf'[i][p] = Seen(p)'
    BY <1>2, <2>1
  <2> QED BY <2>1, <2>2, <2>3 DEF Pending, OnDisk
<1>7. ContentsCurrent'  BY <1>3, <1>4, <1>5, <1>6 DEF ContentsCurrent
<1> QED BY <1>2, <1>7

(* What the operations of the cache do to the contents.                     *)
SameContents(c, d) == DOMAIN d \subseteq DOMAIN c /\ \A p \in DOMAIN d : d[p].buf = c[p].buf

Overwritten(c, pages, d) ==
    /\ DOMAIN d = DOMAIN c \cup DOMAIN pages
    /\ \A p \in DOMAIN d : d[p].buf = IF p \in DOMAIN pages THEN pages[p] ELSE c[p].buf

LEMMA GetContents ==
    ASSUME NEW c, NEW refs, NEW d, d = Get(c, refs),
           \A p \in DOMAIN c : c[p] \in [buf : PageContents, ref_cnt : Nat \ {0}]
    PROVE  SameContents(c, d)
<1>1. DOMAIN d = DOMAIN c
      /\ \A p \in DOMAIN c : d[p] = IF p \in DOMAIN refs THEN [c[p] EXCEPT !.ref_cnt = @ + refs[p]] ELSE c[p]
  BY DEF Get
<1> QED BY <1>1 DEF SameContents

LEMMA DerefContents ==
    ASSUME NEW c, NEW refs, NEW d, d = Deref(c, refs),
           \A p \in DOMAIN c : c[p] \in [buf : PageContents, ref_cnt : Nat \ {0}]
    PROVE  SameContents(c, d)
<1>1. DOMAIN d \subseteq DOMAIN c
      /\ \A p \in DOMAIN d : d[p] = IF p \in DOMAIN refs THEN [c[p] EXCEPT !.ref_cnt = @ - refs[p]] ELSE c[p]
  BY DEF Deref
<1> QED BY <1>1 DEF SameContents

LEMMA PutContents ==
    ASSUME NEW c, NEW pages, NEW refs, NEW d, d = Put(c, pages, refs)
    PROVE  Overwritten(c, pages, d)
<1>1. /\ DOMAIN d = DOMAIN c \cup DOMAIN pages
      /\ \A p \in DOMAIN d : p \in DOMAIN pages => d[p].buf = pages[p]
      /\ \A p \in DOMAIN d : p \notin DOMAIN pages => d[p] = c[p]
  BY DEF Put
<1> QED BY <1>1 DEF Overwritten

(* Only one insert is active: while it steps, the others do nothing and     *)
(* hold no buffer of a read.                                                *)
LEMMA OthersRest ==
    ASSUME IOIInv, OneActive, OneActive', NEW i \in Inserts, IOInsert(i)
    PROVE  \A j \in Inserts : j # i =>
              /\ pc'[j] = pc[j] /\ pc[j] \in {"idle", "done"}
              /\ searchBuf[j].from = "none" /\ DOMAIN missing[j] = {}
<1> USE DEF IOIInv
<1>1. pc \in [Inserts -> Labels]  BY DEF IInv, TypeOK
<1>2. /\ \A j \in Inserts : j # i => pc'[j] = pc[j]
      /\ i \in Active \/ i \in Active'
  <2>1. CASE IOLocal(i)
    <3>1. CASE Begin(i)  BY <1>1, <3>1 DEF Begin, Goto, Active
    <3>2. CASE AllocLoc(i)
      <4>1. pc[i] = "search" /\ Goto(i, "lockp")  BY <3>2, Zenon DEF AllocLoc
      <4> QED BY <1>1, <4>1 DEF Goto, Active
    <3>3. CASE \E p \in DOMAIN layout : LockPage(i, p)
      BY <1>1, <3>3 DEF LockPage, Goto, Active
    <3>4. CASE \E id \in Ids : LockVec(i, id)  BY <1>1, <3>4 DEF LockVec, Goto, Active
    <3>5. CASE \E id \in Ids : LockIdx(i, id)  BY <1>1, <3>5 DEF LockIdx, Goto, Active
    <3>6. CASE UpdateId2Loc(i)  BY <1>1, <3>6 DEF UpdateId2Loc, Goto, Active
    <3>7. CASE EraseAndSetLoc(i)  BY <1>1, <3>7 DEF EraseAndSetLoc, Goto, Active
    <3>8. CASE UnlockVec(i)  BY <1>1, <3>8 DEF UnlockVec, Goto, Active
    <3>9. CASE Commit(i)  BY <1>1, <3>9 DEF Commit, Goto, Active
    <3> QED BY <2>1, <3>1, <3>2, <3>3, <3>4, <3>5, <3>6, <3>7, <3>8, <3>9 DEF IOLocal
  <2>2. CASE \E id \in Ids : IOSearchLock(i, id)
    BY <2>2 DEF IOSearchLock, SearchLock, Active
  <2>3. CASE IOSearchFetch(i)
    <3>1. searchBuf[i].from # "none" /\ pc' = pc  BY <2>3 DEF IOSearchFetch, vars
    <3>2. pc[i] = "search"  BY <3>1 DEF BufferPhases
    <3> QED BY <3>1, <3>2 DEF Active
  <2>4. CASE IOSearchUnlock(i)
    <3>1. searchBuf[i].from # "none" /\ pc' = pc  BY <2>4 DEF IOSearchUnlock, SearchUnlock
    <3>2. pc[i] = "search"  BY <3>1 DEF BufferPhases
    <3> QED BY <3>1, <3>2 DEF Active
  <2>5. CASE IOReadPages(i)  BY <1>1, <2>5 DEF IOReadPages, ReadPages, Goto, Active
  <2>6. CASE IOFetch(i)  BY <2>6 DEF IOFetch, vars, Active
  <2>7. CASE IOFill(i)
    <3>1. DOMAIN missing[i] # {} /\ pc' = pc  BY <2>7 DEF IOFill, vars
    <3>2. pc[i] = "write"  BY <3>1 DEF BufferPhases
    <3> QED BY <3>1, <3>2 DEF Active
  <2>8. CASE IOWritePages(i)  BY <1>1, <2>8 DEF IOWritePages, WritePages, Goto, Active
  <2>9. CASE IOReturn(i)  BY <1>1, <2>9 DEF IOReturn, Return, Goto, Active
  <2> QED BY <2>1, <2>2, <2>3, <2>4, <2>5, <2>6, <2>7, <2>8, <2>9 DEF IOInsert
<1>3. SUFFICES ASSUME NEW j \in Inserts, j # i
               PROVE  pc[j] \in {"idle", "done"} /\ searchBuf[j].from = "none" /\ DOMAIN missing[j] = {}
  BY <1>2
<1>4. j \notin Active
  <2>1. i \in Active => j \notin Active  BY <1>3 DEF OneActive
  <2>2. i \in Active' => j \notin Active'  BY <1>3 DEF OneActive
  <2> QED BY <1>2, <1>3, <2>1, <2>2 DEF Active
<1>5. pc[j] \in {"idle", "done"}  BY <1>4 DEF Active
<1>6. searchBuf[j].from = "none" /\ DOMAIN missing[j] = {}  BY <1>5 DEF BufferPhases
<1> QED BY <1>5, <1>6

(* The steps that leave every page as it is seen.                           *)
LEMMA InsertKeepsContents ==
    ASSUME IOIInv, IOIInv', ContentsCurrent, NEW i \in Inserts, IOInsert(i), ~IOWritePages(i)
    PROVE  ContentsCurrent' /\ \A p : Seen(p)' = Seen(p)
<1> USE DEF IOIInv
<1>0. PendingInCache /\ PendingInCache'
  <2>1. IOIInv' => PendingInCache'  BY PendingCached, PTL
  <2> QED BY <2>1, PendingCached
<1>1. /\ DOMAIN searchBuf = Inserts /\ DOMAIN readBuf = Inserts /\ DOMAIN missing = Inserts
      /\ \A p \in DOMAIN cache : cache[p] \in [buf : PageContents, ref_cnt : Nat \ {0}]
      /\ \A j \in Inserts :
            searchBuf[j] \in [page : Nat, from : {"none", "miss", "disk", "cache"}, buf : PageContents]
      /\ pc \in [Inserts -> Labels]
  BY DEF IOTypeOK, IInv, TypeOK
<1>2. /\ \A p \in DOMAIN cache : Seen(p) = cache[p].buf
      /\ \A p : ~Pending(p) => Seen(p) = OnDisk(p)
      /\ \A p : p \notin DOMAIN cache => ~Pending(p)
  BY <1>0 DEF Seen, ContentsCurrent, PendingInCache, Pending
<1>3. \A j \in Inserts :
         /\ searchBuf[j].from \in {"miss", "disk"} => ~Pending(searchBuf[j].page)
         /\ searchBuf[j].from = "disk" => searchBuf[j].buf = OnDisk(searchBuf[j].page)
         /\ \A p \in DOMAIN missing[j] : ~Pending(p)
         /\ pc[j] = "write" => \A p \in DOMAIN readBuf[j] : readBuf[j][p] = Seen(p)
  BY DEF ContentsCurrent
<1>4. CASE IOLocal(i)
  <2>1. /\ UNCHANGED <<disk, cache, searchBuf, readBuf, missing, writeBuf>>
    BY <1>4 DEF IOLocal, ioVars
  <2>2. bgTask' = bgTask /\ \A j \in Inserts : pc'[j] = "write" => pc[j] = "write"
    <3>1. CASE Begin(i)  BY <1>1, <3>1 DEF Begin, Goto, bgVars
    <3>2. CASE AllocLoc(i)
      <4>1. Goto(i, "lockp") /\ UNCHANGED bgVars  BY <3>2, Zenon DEF AllocLoc
      <4> QED BY <1>1, <4>1 DEF Goto, bgVars
    <3>3. CASE \E p \in DOMAIN layout : LockPage(i, p)  BY <1>1, <3>3 DEF LockPage, Goto, bgVars
    <3>4. CASE \E id \in Ids : LockVec(i, id)  BY <1>1, <3>4 DEF LockVec, Goto, bgVars
    <3>5. CASE \E id \in Ids : LockIdx(i, id)  BY <1>1, <3>5 DEF LockIdx, Goto, bgVars
    <3>6. CASE UpdateId2Loc(i)  BY <1>1, <3>6 DEF UpdateId2Loc, Goto, bgVars
    <3>7. CASE EraseAndSetLoc(i)  BY <1>1, <3>7 DEF EraseAndSetLoc, Goto, bgVars
    <3>8. CASE UnlockVec(i)  BY <1>1, <3>8 DEF UnlockVec, Goto, bgVars
    <3>9. CASE Commit(i)  BY <1>1, <3>9 DEF Commit, Goto
    <3> QED BY <1>4, <3>1, <3>2, <3>3, <3>4, <3>5, <3>6, <3>7, <3>8, <3>9 DEF IOLocal
  <2> QED BY <1>0, <1>2, <1>3, <2>1, <2>2, ContentsStay
<1>5. ASSUME NEW id \in Ids, IOSearchLock(i, id) PROVE ContentsCurrent' /\ \A p : Seen(p)' = Seen(p)
  <2> DEFINE q == id2loc[id][1]
             refs == Once({q})
  <2>1. UNCHANGED <<disk, writeBuf, bgTask, pc, readBuf, missing>>
    BY <1>5 DEF IOSearchLock, SearchLock, bgVars
  <2>2. CASE q \in DOMAIN cache
    <3>1. /\ cache' = Get(cache, refs)
          /\ searchBuf' = [searchBuf EXCEPT ![i] = [page |-> q, from |-> "cache", buf |-> cache[q].buf]]
      BY <1>5, <2>2 DEF IOSearchLock
    <3> HIDE DEF refs, q
    <3>2. \A p \in DOMAIN cache' : p \in DOMAIN cache /\ cache'[p].buf = cache[p].buf
      <4>1. SameContents(cache, cache')  BY <1>1, <3>1, GetContents
      <4> QED BY <4>1 DEF SameContents
    <3>3. searchBuf'[i].from = "cache" /\ \A j \in Inserts : j # i => searchBuf'[j] = searchBuf[j]
      BY <1>1, <3>1
    <3> QED BY <1>0, <1>2, <1>3, <2>1, <3>2, <3>3, ContentsStay
  <2>3. CASE q \notin DOMAIN cache
    <3>1. /\ cache' = cache
          /\ searchBuf' = [searchBuf EXCEPT ![i] = [page |-> q, from |-> "miss", buf |-> GarbagePage]]
      BY <1>5, <2>3 DEF IOSearchLock
    <3> HIDE DEF refs, q
    <3>2. searchBuf'[i].from = "miss" /\ searchBuf'[i].page = q
          /\ \A j \in Inserts : j # i => searchBuf'[j] = searchBuf[j]
      BY <1>1, <3>1
    <3>3. ~Pending(q)  BY <1>2, <2>3
    <3> QED BY <1>0, <1>2, <1>3, <2>1, <3>1, <3>2, <3>3, ContentsStay
  <2> QED BY <2>2, <2>3
<1>6. CASE IOSearchFetch(i)
  <2>1. /\ UNCHANGED <<disk, cache, readBuf, missing, writeBuf, pc, bgTask>>
        /\ searchBuf[i].from = "miss"
        /\ searchBuf' = [searchBuf EXCEPT ![i].from = "disk", ![i].buf = OnDisk(searchBuf[i].page)]
    BY <1>6 DEF IOSearchFetch, vars, bgVars
  <2>2. /\ searchBuf'[i].page = searchBuf[i].page /\ searchBuf'[i].buf = OnDisk(searchBuf[i].page)
        /\ \A j \in Inserts : j # i => searchBuf'[j] = searchBuf[j]
    BY <1>1, <2>1
  <2> QED BY <1>0, <1>2, <1>3, <2>1, <2>2, ContentsStay
<1>7. CASE IOSearchUnlock(i)
  <2> DEFINE q == searchBuf[i].page
             pages == [ p \in {q} |-> searchBuf[i].buf ]
             refs == Once({q})
  <2>1. /\ UNCHANGED <<disk, readBuf, missing, writeBuf, pc, bgTask>>
        /\ cache' = IF searchBuf[i].from = "disk" THEN Put(cache, pages, refs) ELSE cache
        /\ searchBuf' = [searchBuf EXCEPT ![i] = NoSearch]
    BY <1>7 DEF IOSearchUnlock, SearchUnlock, bgVars
  <2>2. searchBuf'[i].from = "none" /\ \A j \in Inserts : j # i => searchBuf'[j] = searchBuf[j]
    BY <1>1, <2>1 DEF NoSearch
  <2>3. DOMAIN pages = {q} /\ pages[q] = searchBuf[i].buf  OBVIOUS
  <2>4. searchBuf[i].from = "disk" => searchBuf[i].buf = Seen(q)  BY <1>2, <1>3
  <2> HIDE DEF q, pages, refs
  <2>5. \A p \in DOMAIN cache' : cache'[p].buf = Seen(p)
    <3>1. CASE searchBuf[i].from = "disk"
      <4>1. cache' = Put(cache, pages, refs)  BY <2>1, <3>1
      <4>2. Overwritten(cache, pages, cache')
        BY <2>3, <4>1, PutContents
      <4> QED BY <1>2, <2>3, <2>4, <3>1, <4>2 DEF Overwritten
    <3>2. CASE searchBuf[i].from # "disk"  BY <1>2, <2>1, <3>2
    <3> QED BY <3>1, <3>2
  <2> QED BY <1>0, <1>2, <1>3, <2>1, <2>2, <2>5, ContentsStay
<1>8. CASE IOReadPages(i)
  <2> DEFINE reqs == ReadReqs(i)
  <2>1. /\ UNCHANGED <<disk, searchBuf, writeBuf, bgTask>>
        /\ pc[i] = "read" /\ pc' = [pc EXCEPT ![i] = "write"]
        /\ readBuf' = [readBuf EXCEPT ![i] = [ p \in DOMAIN reqs \cap DOMAIN cache |-> cache[p].buf ]]
        /\ missing' = [missing EXCEPT ![i] = [ p \in DOMAIN reqs \ DOMAIN cache |-> reqs[p] ]]
        /\ cache' = Get(cache, reqs)
    BY <1>8 DEF IOReadPages, ReadPages, Goto, bgVars
  <2> HIDE DEF reqs
  <2>2. \A p \in DOMAIN cache' : p \in DOMAIN cache /\ cache'[p].buf = cache[p].buf
    <3>1. SameContents(cache, cache')  BY <1>1, <2>1, GetContents
    <3> QED BY <3>1 DEF SameContents
  <2>3. /\ \A p \in DOMAIN readBuf'[i] : p \in DOMAIN cache /\ readBuf'[i][p] = cache[p].buf
        /\ \A p \in DOMAIN missing'[i] : p \notin DOMAIN cache
        /\ \A j \in Inserts : j # i => pc'[j] = pc[j] /\ readBuf'[j] = readBuf[j] /\ missing'[j] = missing[j]
    BY <1>1, <2>1
  <2>4. ASSUME NEW j \in Inserts
        PROVE  /\ searchBuf'[j].from \in {"miss", "disk"} => ~Pending(searchBuf'[j].page)
               /\ searchBuf'[j].from = "disk" => searchBuf'[j].buf = OnDisk(searchBuf'[j].page)
               /\ \A p \in DOMAIN missing'[j] : ~Pending(p)
               /\ pc'[j] = "write" => \A p \in DOMAIN readBuf'[j] : readBuf'[j][p] = Seen(p)
    <3>a. /\ \A p \in DOMAIN readBuf'[i] : readBuf'[i][p] = Seen(p)
          /\ \A p \in DOMAIN missing'[i] : ~Pending(p)
      BY <1>2, <2>3
    <3>1. CASE j = i  BY <1>3, <2>1, <3>a, <3>1
    <3>2. CASE j # i  BY <1>3, <2>1, <2>3, <3>2
    <3> QED BY <3>1, <3>2
  <2>5. \A p \in DOMAIN cache' : cache'[p].buf = Seen(p)  BY <1>2, <2>2
  <2> QED BY <1>0, <2>1, <2>4, <2>5, ContentsStay
<1>9. CASE IOFetch(i)
  <2>1. /\ UNCHANGED <<disk, cache, searchBuf, missing, writeBuf, pc, bgTask>>
        /\ pc[i] = "write"
        /\ readBuf' = [readBuf EXCEPT ![i] = [ p \in DOMAIN @ \cup DOMAIN missing[i] |->
                         IF p \in DOMAIN missing[i] THEN OnDisk(p) ELSE @[p] ]]
    BY <1>9 DEF IOFetch, vars, bgVars
  <2>2. /\ \A p \in DOMAIN readBuf'[i] :
              \/ readBuf'[i][p] = OnDisk(p) /\ p \in DOMAIN missing[i]
              \/ readBuf'[i][p] = readBuf[i][p] /\ p \in DOMAIN readBuf[i]
        /\ \A j \in Inserts : j # i => readBuf'[j] = readBuf[j]
    BY <1>1, <2>1
  <2>3. \A p \in DOMAIN readBuf'[i] : readBuf'[i][p] = Seen(p)  BY <1>2, <1>3, <2>1, <2>2
  <2> QED BY <1>0, <1>2, <1>3, <2>1, <2>2, <2>3, ContentsStay
<1>10. CASE IOFill(i)
  <2> DEFINE pages == [ p \in DOMAIN missing[i] |-> readBuf[i][p] ]
             refs == missing[i]
  <2>1. /\ UNCHANGED <<disk, searchBuf, readBuf, writeBuf, pc, bgTask>>
        /\ DOMAIN missing[i] # {} /\ DOMAIN missing[i] \subseteq DOMAIN readBuf[i]
        /\ cache' = Put(cache, pages, refs)
        /\ missing' = [missing EXCEPT ![i] = NoPages]
    BY <1>10 DEF IOFill, vars, bgVars
  <2>2. DOMAIN missing'[i] = {} /\ \A j \in Inserts : j # i => missing'[j] = missing[j]
    BY <1>1, <2>1 DEF NoPages
  <2>3. pc[i] = "write"  BY <2>1 DEF BufferPhases
  <2>4. DOMAIN pages = DOMAIN missing[i] /\ \A p \in DOMAIN pages : pages[p] = Seen(p)
    BY <1>3, <2>1, <2>3
  <2> HIDE DEF pages, refs
  <2>5. Overwritten(cache, pages, cache')
    BY <2>1, PutContents
  <2>6. \A p \in DOMAIN cache' : cache'[p].buf = Seen(p)  BY <1>2, <2>4, <2>5 DEF Overwritten
  <2> QED BY <1>0, <1>2, <1>3, <2>1, <2>2, <2>6, ContentsStay
<1>11. CASE IOReturn(i)
  <2> DEFINE refs == pageRef[i]
  <2>1. /\ UNCHANGED <<disk, searchBuf, readBuf, missing, writeBuf, bgTask>>
        /\ pc' = [pc EXCEPT ![i] = "done"] /\ cache' = Deref(cache, refs)
    BY <1>11 DEF IOReturn, Return, Goto, bgVars
  <2> HIDE DEF refs
  <2>2. \A p \in DOMAIN cache' : p \in DOMAIN cache /\ cache'[p].buf = cache[p].buf
    <3>1. SameContents(cache, cache')  BY <1>1, <2>1, DerefContents
    <3> QED BY <3>1 DEF SameContents
  <2>3. \A j \in Inserts : pc'[j] = "write" => pc[j] = "write"  BY <1>1, <2>1
  <2> QED BY <1>0, <1>2, <1>3, <2>1, <2>2, <2>3, ContentsStay
<1> QED
  BY <1>4, <1>5, <1>6, <1>7, <1>8, <1>9, <1>10, <1>11 DEF IOInsert

(* wbc_write: the pages it writes are seen as it built them.                *)
LEMMA WriteKeepsContents ==
    ASSUME IOIInv, OneActive, OneActive', WritesLocked, WritesLocked', ContentsCurrent,
           NEW i \in Inserts, IOWritePages(i)
    PROVE  /\ ContentsCurrent'
           /\ \A p : Seen(p)' = IF p \in PagesOf(locs[i]) THEN NewPages(i)[p] ELSE Seen(p)
<1> USE DEF IOIInv
<1> DEFINE pages == NewPages(i)
           refs == Once(PagesOf(locs[i]))
           mine == PagesOf(locs[i])
<1>1. /\ UNCHANGED <<disk, pageRef, searchBuf, missing, locs, pageHeld, bgTask>>
      /\ pc[i] = "write" /\ pc' = [pc EXCEPT ![i] = "locki"] /\ missing[i] = NoPages
      /\ writeBuf' = [writeBuf EXCEPT ![i] = pages]
      /\ cache' = Put(cache, pages, refs)
      /\ readBuf' = [readBuf EXCEPT ![i] = NoPages]
  BY DEF IOWritePages, WritePages, Goto, workVars, lockVars, bgVars
<1>2. DOMAIN writeBuf = Inserts /\ DOMAIN readBuf = Inserts /\ pc \in [Inserts -> Labels]
  BY DEF IOTypeOK, IInv, TypeOK
<1>3. pages = NewPages(i)  OBVIOUS
<1> HIDE DEF pages, refs
<1>4. DOMAIN pages = mine  BY <1>1, <1>3, NewPagesType
<1>5. Overwritten(cache, pages, cache')  BY <1>1, PutContents
<1>6. /\ writeBuf'[i] = pages /\ \A j \in Inserts : j # i => writeBuf'[j] = writeBuf[j]
      /\ DOMAIN writeBuf[i] = {}
  BY <1>1, <1>2 DEF BufferPhases
<1>7. \A j \in Inserts : j # i => \A p \in DOMAIN writeBuf[j] : p \notin mine
  BY <1>1 DEF WritesLocked
<1>8. \A p : Pending(p)' <=> Pending(p) \/ p \in mine
  <2>1. \A p : Pending(p)' <=> \E j \in Inserts : p \in DOMAIN writeBuf'[j]  BY DEF Pending
  <2> QED BY <1>4, <1>6, <2>1 DEF Pending
<1>9. \A p : OnDisk(p)' = OnDisk(p)  BY <1>1 DEF OnDisk
<1>10. \A p : Seen(p)' = IF p \in mine THEN pages[p] ELSE Seen(p)
  BY <1>4, <1>5, <1>9 DEF Seen, Overwritten
<1>11. PendingInCache  BY PendingCached
<1>12. ASSUME NEW j \in Inserts, NEW p \in DOMAIN writeBuf'[j] PROVE cache'[p].buf = writeBuf'[j][p]
  <2>1. CASE j = i  BY <1>4, <1>5, <1>6, <1>12, <2>1 DEF Overwritten
  <2>2. CASE j # i
    <3>1. p \in DOMAIN writeBuf[j] /\ p \notin mine /\ p \in DOMAIN cache
      BY <1>6, <1>7, <1>11, <1>12, <2>2 DEF PendingInCache
    <3>2. cache'[p].buf = cache[p].buf  BY <1>4, <1>5, <3>1 DEF Overwritten
    <3> QED BY <1>6, <2>2, <3>1, <3>2 DEF ContentsCurrent
  <2> QED BY <2>1, <2>2
<1>13. ASSUME NEW p \in DOMAIN cache', ~Pending(p)' PROVE cache'[p].buf = OnDisk(p)'
  <2>1. p \notin mine /\ ~Pending(p) /\ p \in DOMAIN cache  BY <1>4, <1>5, <1>8, <1>13 DEF Overwritten
  <2>2. cache'[p].buf = cache[p].buf  BY <1>4, <1>5, <2>1 DEF Overwritten
  <2> QED BY <1>9, <2>1, <2>2 DEF ContentsCurrent
<1>14. ASSUME bgTask' # None, NEW p \in DOMAIN writeBuf'[bgTask'] PROVE OnDisk(p)' = writeBuf'[bgTask'][p]
  <2>1. bgTask # None /\ bgTask # i /\ bgTask \in Inserts
    BY <1>1, <1>14 DEF WritesLocked, IInv, TypeOK
  <2>2. writeBuf'[bgTask'] = writeBuf[bgTask]  BY <1>1, <1>6, <2>1
  <2> QED BY <1>9, <1>14, <2>1, <2>2 DEF ContentsCurrent
<1>15. ASSUME NEW j \in Inserts
       PROVE  /\ searchBuf'[j].from = "none" /\ DOMAIN missing'[j] = {} /\ pc'[j] # "write"
  <2>1. CASE j = i
    <3>1. searchBuf[i].from = "none"  BY <1>1 DEF BufferPhases
    <3> QED BY <1>1, <1>2, <2>1, <3>1 DEF NoPages
  <2>2. CASE j # i
    <3>1. IOInsert(i)  BY DEF IOInsert
    <3>2. /\ pc'[j] = pc[j] /\ pc[j] \in {"idle", "done"}
          /\ searchBuf[j].from = "none" /\ DOMAIN missing[j] = {}
      BY <2>2, <3>1, OthersRest
    <3> QED BY <1>1, <3>2
  <2> QED BY <2>1, <2>2
<1>16. ContentsCurrent'  BY <1>12, <1>13, <1>14, <1>15 DEF ContentsCurrent
<1> QED BY <1>10, <1>16 DEF pages

(* The background write: the file holds what the cache holds.               *)
LEMMA BgWriteKeepsContents ==
    ASSUME IOIInv, ContentsCurrent, IOBgWrite
    PROVE  ContentsCurrent' /\ \A p : Seen(p)' = Seen(p)
<1> USE DEF IOIInv
<1>1. /\ UNCHANGED <<cache, searchBuf, readBuf, missing, writeBuf, pc>>
      /\ disk' = [ p \in DOMAIN disk \cup DOMAIN writeBuf[bgTask'] |->
                     IF p \in DOMAIN writeBuf[bgTask'] THEN writeBuf[bgTask'][p] ELSE disk[p] ]
      /\ bgTasks # << >> /\ bgTask' = Head(bgTasks)
  BY DEF IOBgWrite, BgWrite
<1>2. bgTask' \in Inserts
  <2>1. bgTasks \in Seq(Inserts)  BY DEF IInv, TypeOK
  <2> QED BY <1>1, <2>1, HeadTailProperties
<1>3. \A p : OnDisk(p)' = IF p \in DOMAIN writeBuf[bgTask'] THEN writeBuf[bgTask'][p] ELSE OnDisk(p)
  <2> DEFINE w == writeBuf[bgTask']
  <2>1. w = writeBuf[bgTask']  OBVIOUS
  <2> HIDE DEF w
  <2>2. /\ DOMAIN disk' = DOMAIN disk \cup DOMAIN w
        /\ \A p \in DOMAIN disk' : disk'[p] = IF p \in DOMAIN w THEN w[p] ELSE disk[p]
    BY <1>1, <2>1
  <2>3. \A p : OnDisk(p)' = IF p \in DOMAIN disk' THEN disk'[p] ELSE GarbagePage  BY DEF OnDisk, GarbagePage
  <2> QED BY <2>1, <2>2, <2>3 DEF OnDisk
<1>4. \A p : ~Pending(p) => OnDisk(p)' = OnDisk(p)  BY <1>2, <1>3 DEF Pending
<1>5. \A p : Pending(p)' <=> Pending(p)  BY <1>1 DEF Pending
<1>6. PendingInCache  BY PendingCached
<1>7. \A p : Seen(p)' = Seen(p)
  <2>1. \A p : p \notin DOMAIN cache => ~Pending(p)  BY <1>6 DEF PendingInCache, Pending
  <2> QED BY <1>1, <1>4, <2>1 DEF Seen
<1>8. \A j \in Inserts : \A p \in DOMAIN writeBuf'[j] : cache'[p].buf = writeBuf'[j][p]
  BY <1>1 DEF ContentsCurrent
<1>9. ASSUME NEW p \in DOMAIN cache', ~Pending(p)' PROVE cache'[p].buf = OnDisk(p)'
  BY <1>1, <1>4, <1>5, <1>9 DEF ContentsCurrent
<1>10. \A p \in DOMAIN writeBuf'[bgTask'] : OnDisk(p)' = writeBuf'[bgTask'][p]  BY <1>1, <1>3
<1>11. ASSUME NEW j \in Inserts
       PROVE  (/\ searchBuf[j].from \in {"miss", "disk"} => ~Pending(searchBuf[j].page)
               /\ searchBuf[j].from = "disk" => searchBuf[j].buf = OnDisk(searchBuf[j].page)
               /\ \A p \in DOMAIN missing[j] : ~Pending(p)
               /\ pc[j] = "write" => \A p \in DOMAIN readBuf[j] : readBuf[j][p] = Seen(p))'
  <2>1. /\ searchBuf[j].from \in {"miss", "disk"} => ~Pending(searchBuf[j].page)
        /\ searchBuf[j].from = "disk" => searchBuf[j].buf = OnDisk(searchBuf[j].page)
        /\ \A p \in DOMAIN missing[j] : ~Pending(p)
        /\ pc[j] = "write" => \A p \in DOMAIN readBuf[j] : readBuf[j][p] = Seen(p)
    BY DEF ContentsCurrent
  <2>2. \A p \in DOMAIN readBuf[j] : pc[j] = "write" => readBuf[j][p] = Seen(p)'  BY <1>7, <2>1
  <2>3. searchBuf[j].from = "disk" => searchBuf[j].buf = OnDisk(searchBuf[j].page)'  BY <1>1, <1>4, <2>1
  <2>4. (\A p \in DOMAIN missing[j] : ~Pending(p)')
        /\ (searchBuf[j].from \in {"miss", "disk"} => ~Pending(searchBuf[j].page)')
    BY <1>1, <1>5, <2>1
  <2> QED BY <1>1, <2>2, <2>3, <2>4
<1>12. ContentsCurrent'  BY <1>8, <1>9, <1>10, <1>11 DEF ContentsCurrent
<1> QED BY <1>7, <1>12

(* The task is done: its pages leave the cache as they are in the file.     *)
LEMMA BgFinishKeepsContents ==
    ASSUME IOIInv, IOIInv', WritesLocked, ContentsCurrent, NEW b \in Inserts, b = bgTask, IOBgFinish
    PROVE  ContentsCurrent' /\ \A p : Seen(p)' = Seen(p)
<1> USE DEF IOIInv
<1> DEFINE refs == Once(DOMAIN writeBuf[bgTask])
<1>1. /\ UNCHANGED <<disk, searchBuf, readBuf, missing, pc>>
      /\ cache' = Deref(cache, refs)
      /\ writeBuf' = [writeBuf EXCEPT ![b] = NoPages]
      /\ bgTask' = None /\ bgTask # None
  BY DEF IOBgFinish, BgFinish
<1> HIDE DEF refs
<1>2. \A p \in DOMAIN cache' : p \in DOMAIN cache /\ cache'[p].buf = cache[p].buf
  <2>1. \A p \in DOMAIN cache : cache[p] \in [buf : PageContents, ref_cnt : Nat \ {0}]  BY DEF IOTypeOK
  <2>2. SameContents(cache, cache')  BY <1>1, <2>1, DerefContents
  <2> QED BY <2>2 DEF SameContents
<1>3. DOMAIN writeBuf'[b] = {} /\ \A j \in Inserts : j # b => writeBuf'[j] = writeBuf[j]
  BY <1>1 DEF IOTypeOK, NoPages
<1>4. \A p : Pending(p) <=> Pending(p)' \/ p \in DOMAIN writeBuf[b]
  <2>1. \A p : Pending(p)' <=> \E j \in Inserts : p \in DOMAIN writeBuf'[j]  BY DEF Pending
  <2> QED BY <1>3, <2>1 DEF Pending
<1>5. \A p : OnDisk(p)' = OnDisk(p)  BY <1>1 DEF OnDisk
<1>6. PendingInCache'
  <2>1. IOIInv' => PendingInCache'  BY PendingCached, PTL
  <2> QED BY <2>1
<1>7. \A p \in DOMAIN cache : ~Pending(p)' => cache[p].buf = OnDisk(p)
  <2> SUFFICES ASSUME NEW p \in DOMAIN cache, ~Pending(p)' PROVE cache[p].buf = OnDisk(p)
    OBVIOUS
  <2>1. CASE Pending(p)
    <3>1. p \in DOMAIN writeBuf[b]  BY <1>4, <2>1
    <3>2. cache[p].buf = writeBuf[b][p] /\ OnDisk(p) = writeBuf[b][p]
      BY <1>1, <3>1 DEF ContentsCurrent
    <3> QED BY <3>2
  <2>2. CASE ~Pending(p)  BY <2>2 DEF ContentsCurrent
  <2> QED BY <2>1, <2>2
<1>8. ASSUME NEW p PROVE Seen(p)' = Seen(p)
  <2>1. CASE p \in DOMAIN cache'  BY <1>2, <2>1 DEF Seen
  <2>2. CASE p \notin DOMAIN cache'
    <3>1. ~Pending(p)'  BY <1>6, <2>2 DEF PendingInCache, Pending
    <3> QED BY <1>5, <1>7, <2>2, <3>1 DEF Seen
  <2> QED BY <2>1, <2>2
<1>9. ASSUME NEW j \in Inserts, NEW p \in DOMAIN writeBuf'[j] PROVE cache'[p].buf = writeBuf'[j][p]
  <2>1. p \in DOMAIN cache' /\ j # b  BY <1>3, <1>6, <1>9 DEF PendingInCache
  <2> QED BY <1>2, <1>3, <1>9, <2>1 DEF ContentsCurrent
<1>10. ASSUME NEW p \in DOMAIN cache', ~Pending(p)' PROVE cache'[p].buf = OnDisk(p)'
  BY <1>2, <1>5, <1>7, <1>10
<1>11. ASSUME NEW j \in Inserts
       PROVE  (/\ searchBuf[j].from \in {"miss", "disk"} => ~Pending(searchBuf[j].page)
               /\ searchBuf[j].from = "disk" => searchBuf[j].buf = OnDisk(searchBuf[j].page)
               /\ \A p \in DOMAIN missing[j] : ~Pending(p)
               /\ pc[j] = "write" => \A p \in DOMAIN readBuf[j] : readBuf[j][p] = Seen(p))'
  <2>1. /\ searchBuf[j].from \in {"miss", "disk"} => ~Pending(searchBuf[j].page)
        /\ searchBuf[j].from = "disk" => searchBuf[j].buf = OnDisk(searchBuf[j].page)
        /\ \A p \in DOMAIN missing[j] : ~Pending(p)
        /\ pc[j] = "write" => \A p \in DOMAIN readBuf[j] : readBuf[j][p] = Seen(p)
    BY DEF ContentsCurrent
  <2>2. \A p \in DOMAIN readBuf[j] : pc[j] = "write" => readBuf[j][p] = Seen(p)'  BY <1>8, <2>1
  <2>3. searchBuf[j].from = "disk" => searchBuf[j].buf = OnDisk(searchBuf[j].page)'  BY <1>1, <1>5, <2>1
  <2>4. (\A p \in DOMAIN missing[j] : ~Pending(p)')
        /\ (searchBuf[j].from \in {"miss", "disk"} => ~Pending(searchBuf[j].page)')
    BY <1>1, <1>4, <2>1
  <2> QED BY <1>1, <2>2, <2>3, <2>4
<1>12. ContentsCurrent'  BY <1>1, <1>9, <1>10, <1>11 DEF ContentsCurrent
<1> QED BY <1>8, <1>12

-----------------------------------------------------------------------------
(* The records, step by step. *)

Late == {"locki", "update", "layout"}

Written == {"unlockv", "commit", "deref", "done"}

(* A step that leaves every page as it is seen, and no insert crosses a     *)
(* point at which its records are read differently.                         *)
LEMMA QuietStep ==
    ASSUME NewRecords, RecordsReadable, id2loc' = id2loc, \A p : Seen(p)' = Seen(p),
           \A i \in Inserts :
              /\ pc'[i] \in {"locki", "update"} <=> pc[i] \in {"locki", "update"}
              /\ pc'[i] = "layout" <=> pc[i] = "layout"
              /\ pc'[i] \in Written <=> pc[i] \in Written
              /\ pc[i] \in Late \cup Written => nhood'[i] = nhood[i] /\ locs'[i] = locs[i]
    PROVE  NewRecords' /\ RecordsReadable'
<1>1. \A id : LinksOf(id)' = LinksOf(id)
  <2> SUFFICES ASSUME NEW id, NEW i \in Inserts
               PROVE  (id \in Elems(nhood'[i]) /\ pc'[i] \in {"layout", "unlockv", "commit", "deref", "done"})
                      <=> (id \in Elems(nhood[i]) /\ pc[i] \in {"layout", "unlockv", "commit", "deref", "done"})
    BY DEF LinksOf
  <2> QED BY DEF Late, Written
<1>2. PlacedIds' = PlacedIds  BY DEF PlacedIds, Written
<1>3. \A l : SeenRec(l)' = SeenRec(l)  BY DEF SeenRec
<1>4. NewRecords'
  <2> SUFFICES ASSUME NEW i \in Inserts, pc'[i] \in Late
               PROVE  /\ \A k \in DOMAIN nhood'[i] :
                            SeenRec(locs[i][k])' = Rec(nhood'[i][k], LinksOf(nhood[i][k])' \cup {i})
                      /\ SeenRec(locs[i][Len(nhood[i]) + 1])' = Rec(i, {})
    BY DEF NewRecords, Late
  <2>1. pc[i] \in Late /\ nhood'[i] = nhood[i] /\ locs'[i] = locs[i]  BY DEF Late
  <2>2. /\ \A k \in DOMAIN nhood[i] : SeenRec(locs[i][k]) = Rec(nhood[i][k], LinksOf(nhood[i][k]) \cup {i})
        /\ SeenRec(locs[i][Len(nhood[i]) + 1]) = Rec(i, {})
    BY <2>1 DEF NewRecords, Late
  <2> QED BY <1>1, <1>3, <2>1, <2>2
<1>5. RecordsReadable'
  <2> SUFFICES ASSUME NEW id \in PlacedIds', \A j \in Inserts : ~Moving(j, id)'
               PROVE  SeenRec(id2loc[id])' = Rec(id, LinksOf(id)')
    BY DEF RecordsReadable
  <2>1. \A j \in Inserts : ~Moving(j, id)  BY DEF Moving, Late
  <2>2. SeenRec(id2loc[id]) = Rec(id, LinksOf(id))  BY <1>2, <2>1 DEF RecordsReadable
  <2>3. SeenRec(id2loc[id])' = SeenRec(id2loc[id])  BY <1>3
  <2> QED BY <1>1, <2>2, <2>3
<1> QED BY <1>4, <1>5

-----------------------------------------------------------------------------
(* The pages that the rewrite reads, step by step. *)
LEMMA ReadyFrame ==
    ASSUME PagesReady, NEW i \in Inserts,
           \A j \in Inserts : j # i =>
              pc'[j] = pc[j] /\ pc[j] \in {"idle", "done"} /\ nhood'[j] = nhood[j],
           PlacedIds \subseteq PlacedIds',
           pc'[i] = "write" => ReadsAll(i)',
           pc'[i] \in {"lockp", "lockv", "read", "write"} => UnreadHoldNothing(i)',
           pc'[i] \notin {"idle", "search"} => Elems(nhood'[i]) \subseteq PlacedIds'
    PROVE  PagesReady'
<1> SUFFICES ASSUME NEW j \in Inserts, j # i
             PROVE  /\ pc'[j] \notin {"lockp", "lockv", "read", "write"}
                    /\ pc'[j] \notin {"idle", "search"} => Elems(nhood'[j]) \subseteq PlacedIds'
  BY DEF PagesReady
<1> QED BY DEF PagesReady

(* Placed ids stay placed. *)
LEMMA PlacedStay ==
    ASSUME NEW i \in Inserts, \A j \in Inserts : j # i => pc'[j] = pc[j],
           pc[i] \in Written => pc'[i] \in Written
    PROVE  PlacedIds \subseteq PlacedIds'
BY DEF PlacedIds, Written

(* Steps that leave the lists, the maps and the layout alone.               *)
LEMMA ReadyStay ==
    ASSUME PagesReady, NEW i \in Inserts,
           \A j \in Inserts : j # i => pc'[j] = pc[j] /\ pc[j] \in {"idle", "done"},
           UNCHANGED <<nhood, locs, layout, needRead>>, PlacedIds' = PlacedIds,
           pc'[i] = "write" => ReadsAll(i)',
           pc'[i] \in {"lockp", "lockv", "read", "write"} => pc[i] \in {"lockp", "lockv", "read", "write"},
           pc'[i] \notin {"idle", "search"} => pc[i] \notin {"idle", "search"}
    PROVE  PagesReady'
<1>1. pc'[i] \in {"lockp", "lockv", "read", "write"} => UnreadHoldNothing(i)'
  BY DEF PagesReady, UnreadHoldNothing
<1>2. pc'[i] \notin {"idle", "search"} => Elems(nhood'[i]) \subseteq PlacedIds'  BY DEF PagesReady
<1>3. PlacedIds \subseteq PlacedIds'  OBVIOUS
<1>4. \A j \in Inserts : j # i => nhood'[j] = nhood[j]  OBVIOUS
<1> QED BY <1>1, <1>2, <1>3, <1>4, ReadyFrame

(* alloc_loc: a queued or fresh page holds no record, and a page of the     *)
(* search's hints that holds one is in pages_need_to_read.                  *)
LEMMA AllocReady ==
    ASSUME IOIInv, IInv', NEW i \in Inserts, AllocLoc(i)
    PROVE  UnreadHoldNothing(i)'
<1> USE DEF IOIInv, IInv
<1>1. /\ pc[i] = "search" /\ pc' = [pc EXCEPT ![i] = "lockp"]
  BY Zenon DEF AllocLoc, Goto
<1>2. PICK m \in NhoodSizes(visited[i]) :
         \E l \in alloc_loc(layout, emptyPages, curPage, hints[i], m + 1),
            n \in Nhoods(visited[i], m),
            last \in curPage - 1 .. curPage + m, popped \in 0 .. Len(emptyPages) :
           /\ \A p \in PagesOf(l) : p <= last
           /\ last >= curPage => last \in PagesOf(l)
           /\ \A k \in 1 .. Len(emptyPages) :
                (emptyPages[k] \in PagesOf(l)) <=> (k <= popped)
           /\ nhood' = [nhood EXCEPT ![i] = n]
           /\ locs' = [locs EXCEPT ![i] = l]
           /\ needRead' = [needRead EXCEPT ![i] =
                             page_need_to_read(layout, emptyPages, hints[i], l)]
           /\ layout' = Reserve(layout, l, last)
           /\ curPage' = last + 1
           /\ emptyPages' = SubSeq(emptyPages, popped + 1, Len(emptyPages))
  BY Zenon DEF AllocLoc
<1>3. PICK l \in alloc_loc(layout, emptyPages, curPage, hints[i], m + 1),
           n \in Nhoods(visited[i], m),
           last \in curPage - 1 .. curPage + m, popped \in 0 .. Len(emptyPages) :
           /\ \A p \in PagesOf(l) : p <= last
           /\ locs' = [locs EXCEPT ![i] = l]
           /\ needRead' = [needRead EXCEPT ![i] =
                             page_need_to_read(layout, emptyPages, hints[i], l)]
           /\ layout' = Reserve(layout, l, last)
  BY <1>2
<1>4. /\ curPage \in Nat \ {0} /\ DOMAIN layout = 1 .. curPage - 1
      /\ layout \in [1 .. curPage - 1 -> [Slots -> Ids \cup {kInvalidID, kAllocatedID}]]
      /\ emptyPages \in Seq(1 .. curPage - 1) /\ hints[i] \in Seq(Nat)
      /\ m \in Nat /\ m + 1 \in Nat \ {0} /\ last \in Nat /\ curPage - 1 <= last
  <2>1. /\ curPage \in Nat \ {0} /\ DOMAIN layout = 1 .. curPage - 1
        /\ layout \in [1 .. curPage - 1 -> [Slots -> Ids \cup {kInvalidID, kAllocatedID}]]
        /\ emptyPages \in Seq(1 .. curPage - 1) /\ hints[i] \in Seq(Nat)
    BY DEF TypeOK
  <2>2. m \in Nat /\ m + 1 \in Nat \ {0}  BY DEF NhoodSizes
  <2>3. last \in Nat /\ curPage - 1 <= last  BY <2>1, <2>2
  <2> QED BY <2>1, <2>2, <2>3
<1>5. /\ l \in Seq(FreeLocs(layout, emptyPages, curPage, hints[i], m + 1)) /\ Len(l) = m + 1
      /\ \A j, k \in 1 .. m + 1 : l[j] = l[k] => j = k
      /\ \A p, r \in Nat : r \in PagesOf(l) /\ curPage <= p /\ p <= r => p \in PagesOf(l)
  BY <1>4, AllocExact
<1>6. /\ locs'[i] = l /\ needRead'[i] = page_need_to_read(layout, emptyPages, hints[i], l)
  BY <1>3 DEF TypeOK
<1>7. PlacedIds' = PlacedIds
  BY <1>1 DEF PlacedIds, TypeOK
<1>8. /\ PlacedIds \subseteq Ids /\ kInvalidID \notin PlacedIds /\ kAllocatedID \notin PlacedIds
  BY SentinelAssumption, NumAssumption DEF PlacedIds, Ids, Inserts
<1>9. \A p \in 1 .. last, s \in Slots :
         layout'[p][s] = IF <<p, s>> \in Elems(l) THEN kAllocatedID
                         ELSE IF p \in DOMAIN layout THEN layout[p][s] ELSE kInvalidID
  BY <1>3, <1>4 DEF Reserve
<1>10. ASSUME NEW p \in PagesOf(l) \ needRead'[i]
       PROVE  p \in 1 .. last
              /\ (p \in DOMAIN layout => \A s \in Slots : layout[p][s] = kInvalidID)
  <2>1. PICK k \in DOMAIN l : p = l[k][1]  BY DEF PagesOf
  <2>2. l[k] \in FreeLocs(layout, emptyPages, curPage, hints[i], m + 1)
    BY <1>5, <2>1, ElementOfSeq, LenProperties
  <2>3. p <= last  BY <1>3, <1>10
  <2>4. CASE l[k] \in QueueLocs(emptyPages)
    <3>1. p \in Elems(emptyPages)  BY <2>1, <2>4 DEF QueueLocs
    <3>2. DOMAIN emptyPages = 1 .. Len(emptyPages)  BY <1>4, LenProperties
    <3>3. PICK j \in 1 .. Len(emptyPages) : p = emptyPages[j]  BY <3>1, <3>2 DEF Elems
    <3>4. p \in 1 .. curPage - 1  BY <1>4, <3>3, ElementOfSeq
    <3>5. IsEmptyPage(layout, p)  BY <3>3 DEF EmptyPagesExact
    <3> QED BY <1>4, <2>3, <3>4, <3>5 DEF IsEmptyPage
  <2>5. CASE l[k] \in HintLocs(layout, emptyPages, hints[i])
    <3>1. p \in HintPages(layout, emptyPages, hints[i])  BY <2>1, <2>5 DEF HintLocs
    <3>2. p \in 1 .. curPage - 1  BY <1>4, <3>1 DEF HintPages
    <3>3. ~(Cardinality(Holes(layout, p)) < nnodes_per_sector)
      BY <1>6, <1>10, <3>1 DEF page_need_to_read
    <3>4. Holes(layout, p) = Slots
      <4> DEFINE H == Holes(layout, p)
      <4>1. IsFiniteSet(Slots) /\ Cardinality(Slots) = nnodes_per_sector /\ nnodes_per_sector \in Nat \ {0}
        <5>1. nnodes_per_sector \in Nat \ {0} /\ 0 \in Int /\ nnodes_per_sector - 1 \in Int /\ 0 <= nnodes_per_sector - 1
          BY NnodesAssumption
        <5>2. IsFiniteSet(0 .. nnodes_per_sector - 1)
              /\ Cardinality(0 .. nnodes_per_sector - 1)
                   = IF 0 > nnodes_per_sector - 1 THEN 0 ELSE (nnodes_per_sector - 1) - 0 + 1
          BY <5>1, FS_Interval
        <5> QED BY <5>1, <5>2 DEF Slots
      <4>2. H \subseteq Slots  BY DEF Holes
      <4>3. IsFiniteSet(H) /\ Cardinality(H) \in Nat /\ Cardinality(H) <= Cardinality(Slots)
            /\ (Cardinality(H) = Cardinality(Slots) => H = Slots)
        BY <4>1, <4>2, FS_Subset, FS_CardinalityType
      <4> HIDE DEF H
      <4>4. ~(Cardinality(H) < nnodes_per_sector)  BY <3>3 DEF H
      <4>5. Cardinality(H) = Cardinality(Slots)  BY <4>1, <4>3, <4>4
      <4> QED BY <4>3, <4>5 DEF H
    <3>5. \A s \in Slots : layout[p][s] = kInvalidID  BY <3>4 DEF Holes
    <3> QED BY <1>4, <2>3, <3>2, <3>5
  <2>6. CASE l[k] \in FreshLocs(curPage, m + 1)
    <3>1. p >= curPage /\ p \in Int
      BY <1>4, <2>1, <2>6 DEF FreshLocs
    <3>2. p \notin DOMAIN layout /\ p \in 1 .. last  BY <1>4, <2>3, <3>1
    <3> QED BY <3>2
  <2> QED BY <2>2, <2>4, <2>5, <2>6 DEF FreeLocs
<1> SUFFICES ASSUME NEW p \in PagesOf(l) \ needRead'[i], NEW s \in Slots
             PROVE  layout'[p][s] \notin PlacedIds
  BY <1>6, <1>7 DEF UnreadHoldNothing
<1> QED BY <1>8, <1>9, <1>10

(* The pages are ready through every step of the insert. *)
LEMMA InsertKeepsReady ==
    ASSUME IOIInv, IOIInv', OneActive, OneActive', PagesReady, NEW i \in Inserts, IOInsert(i)
    PROVE  PagesReady'
<1> USE DEF IOIInv
<1>1. /\ \A j \in Inserts : j # i => pc'[j] = pc[j] /\ pc[j] \in {"idle", "done"}
      /\ pc \in [Inserts -> Labels]
      /\ DOMAIN nhood = Inserts
  BY OthersRest DEF IInv, TypeOK
<1>2. /\ DOMAIN readBuf = Inserts /\ DOMAIN missing = Inserts /\ DOMAIN nbrLoc = Inserts
  BY DEF IOTypeOK, IInv, TypeOK
<1>3. CASE Begin(i)
  <2>1. pc' = [pc EXCEPT ![i] = "search"] /\ pc[i] = "idle" /\ UNCHANGED <<nhood, locs, layout, needRead>>
    BY <1>3 DEF Begin, Goto, workVars
  <2>2. pc'[i] = "search"  BY <1>1, <2>1
  <2>3. PlacedIds' = PlacedIds  BY <1>1, <2>1, <2>2 DEF PlacedIds
  <2> QED BY <1>1, <2>1, <2>2, <2>3, ReadyStay
<1>4. CASE AllocLoc(i)
  <2>1. pc[i] = "search" /\ pc' = [pc EXCEPT ![i] = "lockp"]  BY <1>4, Zenon DEF AllocLoc, Goto
  <2>2. \E n : nhood' = [nhood EXCEPT ![i] = n]  BY <1>4, Zenon DEF AllocLoc
  <2>3. \A j \in Inserts : j # i => nhood'[j] = nhood[j]  BY <1>1, <2>2
  <2>4. pc'[i] = "lockp"  BY <1>1, <2>1
  <2>5. PlacedIds' = PlacedIds  BY <1>1, <2>1, <2>4 DEF PlacedIds
  <2>6. UnreadHoldNothing(i)'  BY <1>4, AllocReady
  <2>7. Elems(nhood'[i]) \subseteq PlacedIds'  BY <2>4 DEF IInv, WorkShape, Reserving
  <2>8. PlacedIds \subseteq PlacedIds'  BY <2>5
  <2> QED BY <1>1, <2>3, <2>4, <2>6, <2>7, <2>8, ReadyFrame
<1>5. CASE \/ \E p \in DOMAIN layout : LockPage(i, p)
           \/ \E id \in Ids : LockVec(i, id)
           \/ \E id \in Ids : LockIdx(i, id)
           \/ Commit(i)
           \/ UnlockVec(i)
  <2>1. UNCHANGED <<nhood, locs, layout, needRead>>
    BY <1>5 DEF LockPage, LockVec, LockIdx, Commit, UnlockVec, workVars, mapVars
  <2>2. \/ pc[i] = "lockp" /\ pc'[i] \in {"lockp", "lockv"}
        \/ pc[i] = "lockv" /\ pc'[i] \in {"lockv", "read"}
        \/ pc[i] = "locki" /\ pc'[i] \in {"locki", "update"}
        \/ pc[i] \in Written /\ pc'[i] \in Written
    BY <1>1, <1>5 DEF LockPage, LockVec, LockIdx, Commit, UnlockVec, Goto, Written
  <2>3. PlacedIds' = PlacedIds  BY <1>1, <2>2 DEF PlacedIds, Written
  <2>4. /\ pc'[i] # "write"
        /\ pc'[i] \in {"lockp", "lockv", "read", "write"} => pc[i] \in {"lockp", "lockv", "read", "write"}
        /\ pc'[i] \notin {"idle", "search"} => pc[i] \notin {"idle", "search"}
    BY <2>2 DEF Written
  <2> QED BY <1>1, <2>1, <2>3, <2>4, ReadyStay
<1>6. CASE UpdateId2Loc(i) \/ EraseAndSetLoc(i) \/ IOWritePages(i) \/ IOReturn(i)
  <2>1. nhood' = nhood
    BY <1>6 DEF UpdateId2Loc, EraseAndSetLoc, IOWritePages, IOReturn, WritePages, Return, workVars
  <2>2. \/ pc[i] = "update" /\ pc'[i] = "layout"
        \/ pc[i] = "layout" /\ pc'[i] = "unlockv"
        \/ pc[i] = "write" /\ pc'[i] = "locki"
        \/ pc[i] = "deref" /\ pc'[i] = "done"
    BY <1>1, <1>6 DEF UpdateId2Loc, EraseAndSetLoc, IOWritePages, IOReturn, WritePages, Return, Goto
  <2>3. PlacedIds \subseteq PlacedIds'
    <3>1. pc[i] \in Written => pc'[i] \in Written  BY <2>2 DEF Written
    <3> QED BY <1>1, <3>1, PlacedStay
  <2>4. Elems(nhood[i]) \subseteq PlacedIds  BY <2>2 DEF PagesReady
  <2>5. Elems(nhood'[i]) \subseteq PlacedIds'  BY <2>1, <2>3, <2>4
  <2>6. \A j \in Inserts : j # i => nhood'[j] = nhood[j]  BY <2>1
  <2> QED BY <1>1, <2>2, <2>3, <2>5, <2>6, ReadyFrame
<1>7. CASE IOReadPages(i)
  <2> DEFINE reqs == ReadReqs(i)
  <2>1. /\ UNCHANGED <<nhood, locs, layout, needRead, id2loc>>
        /\ pc[i] = "read" /\ pc' = [pc EXCEPT ![i] = "write"]
        /\ nbrLoc' = [nbrLoc EXCEPT ![i] = [ k \in DOMAIN nhood[i] |-> id2loc[nhood[i][k]] ]]
        /\ readBuf' = [readBuf EXCEPT ![i] = [ p \in DOMAIN reqs \cap DOMAIN cache |-> cache[p].buf ]]
        /\ missing' = [missing EXCEPT ![i] = [ p \in DOMAIN reqs \ DOMAIN cache |-> reqs[p] ]]
    BY <1>7 DEF IOReadPages, ReadPages, Goto, mapVars
  <2>2. DOMAIN reqs = needRead[i] \cup { id2loc[nhood[i][k]][1] : k \in DOMAIN nhood[i] }
    BY DEF ReadReqs
  <2> HIDE DEF reqs
  <2>3. /\ DOMAIN readBuf'[i] = DOMAIN reqs \cap DOMAIN cache
        /\ DOMAIN missing'[i] = DOMAIN reqs \ DOMAIN cache
        /\ \A k \in DOMAIN nhood[i] : nbrLoc'[i][k] = id2loc[nhood[i][k]]
    BY <1>2, <2>1
  <2>4. DOMAIN readBuf'[i] \cup DOMAIN missing'[i] = DOMAIN reqs  BY <2>3
  <2>5. ReadsAll(i)'  BY <2>1, <2>2, <2>3, <2>4 DEF ReadsAll
  <2>6. pc'[i] = "write"  BY <1>1, <2>1
  <2>7. PlacedIds' = PlacedIds  BY <1>1, <2>1, <2>6 DEF PlacedIds
  <2> QED BY <1>1, <2>1, <2>5, <2>6, <2>7, ReadyStay
<1>8. CASE (\E id \in Ids : IOSearchLock(i, id)) \/ IOSearchFetch(i) \/ IOSearchUnlock(i)
  <2>1. UNCHANGED <<pc, nhood, locs, layout, needRead>>
    BY <1>8 DEF IOSearchLock, IOSearchFetch, IOSearchUnlock, SearchLock, SearchUnlock, vars, mapVars, workVars
  <2>2. pc[i] = "search"
    <3>1. CASE \E id \in Ids : IOSearchLock(i, id)  BY <3>1 DEF IOSearchLock, SearchLock
    <3>2. CASE IOSearchFetch(i) \/ IOSearchUnlock(i)
      BY <3>2 DEF IOSearchFetch, IOSearchUnlock, BufferPhases
    <3> QED BY <1>8, <3>1, <3>2
  <2>3. PlacedIds' = PlacedIds  BY <2>1 DEF PlacedIds
  <2> QED BY <1>1, <2>1, <2>2, <2>3, ReadyStay
<1>9. CASE IOFetch(i) \/ IOFill(i)
  <2>1. UNCHANGED <<pc, nhood, locs, layout, needRead, id2loc, nbrLoc>>
    BY <1>9 DEF IOFetch, IOFill, vars, mapVars, workVars
  <2>2. PlacedIds' = PlacedIds  BY <2>1 DEF PlacedIds
  <2>3. pc[i] = "write"  BY <1>9 DEF IOFetch, IOFill, BufferPhases
  <2>4. DOMAIN readBuf[i] \cup DOMAIN missing[i] \subseteq DOMAIN readBuf'[i] \cup DOMAIN missing'[i]
    <3>1. CASE IOFetch(i)
      <4>1. missing' = missing
            /\ readBuf' = [readBuf EXCEPT ![i] = [ p \in DOMAIN @ \cup DOMAIN missing[i] |->
                             IF p \in DOMAIN missing[i] THEN OnDisk(p) ELSE @[p] ]]
        BY <3>1 DEF IOFetch
      <4>2. DOMAIN readBuf'[i] = DOMAIN readBuf[i] \cup DOMAIN missing[i]  BY <1>2, <4>1
      <4> QED BY <4>1, <4>2
    <3>2. CASE IOFill(i)  BY <3>2 DEF IOFill
    <3> QED BY <1>9, <3>1, <3>2
  <2>5. ReadsAll(i)  BY <2>3 DEF PagesReady
  <2>6. ReadsAll(i)'  BY <2>1, <2>4, <2>5 DEF ReadsAll
  <2> QED BY <1>1, <2>1, <2>2, <2>6, ReadyStay
<1> QED
  BY <1>3, <1>4, <1>5, <1>6, <1>7, <1>8, <1>9 DEF IOInsert, IOLocal

-----------------------------------------------------------------------------
(* The rewrite of the records. *)

(* An insert's slots are its own, and hold no record before it writes.      *)
LEMMA OwnSlots ==
    ASSUME IInv, NEW i \in Inserts, Reserving(i)
    PROVE  /\ DOMAIN locs[i] = 1 .. Len(nhood[i]) + 1 /\ DOMAIN nhood[i] = 1 .. Len(nhood[i])
           /\ Len(nhood[i]) \in Nat
           /\ \A k \in DOMAIN locs[i] :
                 /\ locs[i][k] \in Locs /\ locs[i][k][1] \in PagesOf(locs[i])
                 /\ locs[i][k] \in Elems(locs[i])
                 /\ (CHOOSE m \in DOMAIN locs[i] : locs[i][m] = locs[i][k]) = k
           /\ \A l \in Elems(locs[i]) : loc2id(layout, l) = kAllocatedID
<1> USE DEF IInv
<1>1. /\ locs[i] \in Seq(Locs) /\ nhood[i] \in Seq(Ids) /\ Len(locs[i]) = Len(nhood[i]) + 1
  BY DEF TypeOK, WorkShape
<1>2. DOMAIN locs[i] = 1 .. Len(nhood[i]) + 1 /\ DOMAIN nhood[i] = 1 .. Len(nhood[i]) /\ Len(nhood[i]) \in Nat
  BY <1>1, LenProperties
<1>3. \A k, m \in DOMAIN locs[i] : locs[i][k] = locs[i][m] => k = m  BY DEF ReservationsExact
<1>4. ASSUME NEW k \in DOMAIN locs[i]
      PROVE  /\ locs[i][k] \in Locs /\ locs[i][k][1] \in PagesOf(locs[i])
             /\ locs[i][k] \in Elems(locs[i])
             /\ (CHOOSE m \in DOMAIN locs[i] : locs[i][m] = locs[i][k]) = k
  <2>1. locs[i][k] \in Locs  BY <1>1, <1>2, ElementOfSeq
  <2>2. (CHOOSE m \in DOMAIN locs[i] : locs[i][m] = locs[i][k]) = k  BY <1>3
  <2> QED BY <2>1, <2>2 DEF PagesOf, Elems
<1>5. \A l \in Elems(locs[i]) : loc2id(layout, l) = kAllocatedID
  BY DEF Elems, ReservationsExact
<1> QED BY <1>2, <1>4, <1>5

(* While one insert rewrites, the maps name the record of every placed id.  *)
LEMMA WhereRecordsAre ==
    ASSUME IInv, NEW id \in PlacedIds, \A j \in Inserts : pc[j] # "layout"
    PROVE  /\ id2loc[id] \in (DOMAIN layout) \X Slots /\ id \in Ids
           /\ loc2id(layout, id2loc[id]) = id
           /\ \A j \in Inserts : ~Moving(j, id)
<1> USE DEF IInv
<1>1. \A j \in Inserts : ~Moving(j, id)  BY DEF Moving
<1>2. id \in Ids  BY NumAssumption DEF PlacedIds, Ids, Inserts
<1>3. /\ id2loc[id] # None /\ id2loc[id][1] \in DOMAIN layout /\ loc2id(layout, id2loc[id]) = id
  BY <1>1 DEF Id2LocConsistent
<1>4. id2loc[id] \in Locs  BY <1>2, <1>3 DEF TypeOK
<1> QED BY <1>1, <1>2, <1>3, <1>4 DEF Locs

(* The pages that the rewrite needs are in the buffers as they are seen.    *)
LEMMA BuffersHold ==
    ASSUME IOIInv, ContentsCurrent, PagesReady, NEW i \in Inserts, pc[i] = "write", missing[i] = NoPages,
           \A j \in Inserts : j # i => pc[j] \in {"idle", "done"},
           NEW id \in PlacedIds, NEW p, p = id2loc[id][1],
           p \in PagesOf(locs[i]) \/ \E k \in DOMAIN nhood[i] : id = nhood[i][k]
    PROVE  PageBuf(i, p) = Seen(p)
<1> USE DEF IOIInv
<1>1. DOMAIN missing[i] = {}  BY DEF NoPages
<1>2. ReadsAll(i) /\ UnreadHoldNothing(i)  BY DEF PagesReady
<1>3. /\ id2loc[id] \in (DOMAIN layout) \X Slots /\ loc2id(layout, id2loc[id]) = id
  <2>1. \A j \in Inserts : pc[j] # "layout"  BY DEF IInv
  <2> QED BY <2>1, WhereRecordsAre
<1>4. p \in PagesOf(locs[i]) => p \in needRead[i]
  <2>1. layout[p][id2loc[id][2]] \in PlacedIds /\ id2loc[id][2] \in Slots  BY <1>3 DEF loc2id
  <2> QED BY <1>2, <2>1 DEF UnreadHoldNothing
<1>5. p \in DOMAIN readBuf[i]  BY <1>1, <1>2, <1>4 DEF ReadsAll
<1> QED BY <1>4, <1>5 DEF PageBuf, ContentsCurrent

LEMMA WriteKeepsRecords ==
    ASSUME IOIInv, IOIInv', ContentsCurrent, PagesReady, RecordsReadable,
           NEW i \in Inserts, IOWritePages(i),
           \A j \in Inserts : j # i => pc'[j] = pc[j] /\ pc[j] \in {"idle", "done"},
           \A p : Seen(p)' = IF p \in PagesOf(locs[i]) THEN NewPages(i)[p] ELSE Seen(p)
    PROVE  NewRecords' /\ RecordsReadable'
<1> USE DEF IOIInv
<1>1. /\ pc[i] = "write" /\ pc' = [pc EXCEPT ![i] = "locki"] /\ missing[i] = NoPages
      /\ id2loc' = [id2loc EXCEPT ![i] = locs[i][Len(nhood[i]) + 1]]
      /\ UNCHANGED <<locs, nhood>>
  BY DEF IOWritePages, WritePages, Goto, workVars
<1>2. pc'[i] = "locki"  BY <1>1 DEF IInv, TypeOK
<1>3. \A id : LinksOf(id)' = LinksOf(id)
  <2> SUFFICES ASSUME NEW id, NEW j \in Inserts
               PROVE  (id \in Elems(nhood'[j]) /\ pc'[j] \in {"layout", "unlockv", "commit", "deref", "done"})
                      <=> (id \in Elems(nhood[j]) /\ pc[j] \in {"layout", "unlockv", "commit", "deref", "done"})
    BY DEF LinksOf
  <2>1. CASE j = i  BY <1>1, <1>2, <2>1
  <2>2. CASE j # i  BY <1>1, <2>2
  <2> QED BY <2>1, <2>2
<1>4. PlacedIds' = PlacedIds  BY <1>1, <1>2 DEF PlacedIds
<1>5. \A j \in Inserts : pc[j] # "layout"  BY <1>1
<1>6. /\ DOMAIN locs[i] = 1 .. Len(nhood[i]) + 1 /\ DOMAIN nhood[i] = 1 .. Len(nhood[i])
      /\ Len(nhood[i]) \in Nat
      /\ \A k \in DOMAIN locs[i] :
            /\ locs[i][k] \in Locs /\ locs[i][k][1] \in PagesOf(locs[i])
            /\ locs[i][k] \in Elems(locs[i])
            /\ (CHOOSE m \in DOMAIN locs[i] : locs[i][m] = locs[i][k]) = k
      /\ \A l \in Elems(locs[i]) : loc2id(layout, l) = kAllocatedID
  BY <1>1, OwnSlots DEF Reserving
<1>7. i \notin PlacedIds  BY <1>1, NumAssumption DEF PlacedIds, Inserts
(* The slots of the insert. *)
<1>8. ASSUME NEW k \in DOMAIN locs[i]
      PROVE  SeenRec(locs[i][k])' = NewRecord(i, k)
  <2> DEFINE l == locs[i][k]
  <2>1. l \in Locs /\ l[1] \in PagesOf(locs[i]) /\ l \in Elems(locs[i])
        /\ (CHOOSE m \in DOMAIN locs[i] : locs[i][m] = l) = k
    BY <1>6
  <2>2. l = <<l[1], l[2]>> /\ l[2] \in Slots  BY <2>1 DEF Locs
  <2>3. Seen(l[1])' = NewPages(i)[l[1]]
    <3>1. \A p : p \in PagesOf(locs[i]) => Seen(p)' = NewPages(i)[p]  OBVIOUS
    <3> QED BY <1>1, <2>1, <3>1
  <2> HIDE DEF l
  <2>4. NewPages(i)[l[1]][l[2]]
          = IF <<l[1], l[2]>> \in Elems(locs[i])
            THEN NewRecord(i, CHOOSE m \in DOMAIN locs[i] : locs[i][m] = <<l[1], l[2]>>)
            ELSE PageBuf(i, l[1])[l[2]]
    BY <2>1, <2>2 DEF NewPages
  <2>5. NewPages(i)[l[1]][l[2]] = NewRecord(i, k)  BY <2>1, <2>2, <2>4
  <2>6. SeenRec(locs[i][k])' = Seen(l[1])'[l[2]]  BY <1>1 DEF SeenRec, l
  <2> QED BY <2>3, <2>5, <2>6
<1>9. ASSUME NEW k \in DOMAIN nhood[i]
      PROVE  SeenRec(locs[i][k])' = Rec(nhood[i][k], LinksOf(nhood[i][k]) \cup {i})
  <2> DEFINE id == nhood[i][k]
             l == id2loc[id]
             r == PageBuf(i, l[1])[l[2]]
  <2>1. k \in DOMAIN locs[i] /\ k <= Len(nhood[i])  BY <1>6
  <2>2. id \in PlacedIds  BY <1>1 DEF PagesReady, Elems
  <2>3. nbrLoc[i][k] = l  BY <1>1 DEF PagesReady, ReadsAll
  <2>4. PageBuf(i, l[1]) = Seen(l[1])
    <3>1. \E m \in DOMAIN nhood[i] : id = nhood[i][m]  OBVIOUS
    <3>2. \A j \in Inserts : j # i => pc[j] \in {"idle", "done"}  OBVIOUS
    <3> QED BY <1>1, <2>2, <3>1, <3>2, BuffersHold
  <2>5. \A j \in Inserts : ~Moving(j, id)  BY <1>5 DEF Moving
  <2>6. r = Rec(id, LinksOf(id))  BY <2>2, <2>4, <2>5 DEF RecordsReadable, SeenRec
  <2>7. r \in [id : Ids, links : SUBSET Inserts]
    <3>1. LinksOf(id) \subseteq Inserts  BY DEF LinksOf
    <3>2. id \in Ids  BY <1>5, <2>2, WhereRecordsAre
    <3> QED BY <2>6, <3>1, <3>2 DEF Rec
  <2>8. Linked(i, k) = IF r = Garbage THEN Garbage ELSE [r EXCEPT !.links = @ \cup {i}]
    BY <2>3 DEF Linked
  <2> HIDE DEF r, l
  <2>9. Linked(i, k) = [r EXCEPT !.links = @ \cup {i}]  BY <2>7, <2>8, GarbageAssumption
  <2>10. Linked(i, k) = Rec(id, LinksOf(id) \cup {i})  BY <2>6, <2>9 DEF Rec
  <2>11. NewRecord(i, k) = Linked(i, k)  BY <2>1 DEF NewRecord
  <2> QED BY <1>8, <2>1, <2>10, <2>11
<1>10. SeenRec(locs[i][Len(nhood[i]) + 1])' = Rec(i, {})
  <2>1. Len(nhood[i]) + 1 \in DOMAIN locs[i] /\ ~(Len(nhood[i]) + 1 <= Len(nhood[i]))  BY <1>6
  <2>2. NewRecord(i, Len(nhood[i]) + 1) = Rec(i, {})  BY <2>1 DEF NewRecord
  <2>3. SeenRec(locs[i][Len(nhood[i]) + 1])' = NewRecord(i, Len(nhood[i]) + 1)
    <3> DEFINE k == Len(nhood[i]) + 1
    <3>1. k \in DOMAIN locs[i]  BY <2>1
    <3>2. nhood' = nhood  BY <1>1
    <3> QED BY <1>1, <1>8, <3>1, <3>2
  <2> QED BY <2>2, <2>3
<1>11. NewRecords'
  <2>1. \A j \in Inserts : pc'[j] \in {"locki", "update", "layout"} => j = i  OBVIOUS
  <2>2. /\ \A k \in DOMAIN nhood'[i] :
              SeenRec(locs[i][k])' = Rec(nhood'[i][k], LinksOf(nhood[i][k])' \cup {i})
        /\ SeenRec(locs[i][Len(nhood[i]) + 1])' = Rec(i, {})
    BY <1>1, <1>3, <1>9, <1>10
  <2> QED BY <2>1, <2>2 DEF NewRecords
(* The other slots of its pages. *)
<1>12. ASSUME NEW id \in PlacedIds
       PROVE  SeenRec(id2loc[id])' = SeenRec(id2loc[id])
  <2> DEFINE l == id2loc[id]
  <2>1. l \in (DOMAIN layout) \X Slots /\ id \in Ids /\ loc2id(layout, l) = id
    BY <1>5, WhereRecordsAre
  <2>2. id2loc'[id] = l  BY <1>1, <1>7
  <2>3. SeenRec(id2loc[id])' = Seen(l[1])'[l[2]]  BY <2>2 DEF SeenRec
  <2>4. CASE l[1] \notin PagesOf(locs[i])
    <3>1. Seen(l[1])' = Seen(l[1])  BY <1>1, <1>7, <2>2, <2>4
    <3> QED BY <2>3, <3>1 DEF SeenRec
  <2>5. CASE l[1] \in PagesOf(locs[i])
    <3>1. Seen(l[1])' = NewPages(i)[l[1]]  BY <1>1, <1>7, <2>2, <2>5
    <3>2. l \notin Elems(locs[i])
      BY <1>6, <2>1, SentinelAssumption
    <3>3. <<l[1], l[2]>> = l /\ l[2] \in Slots  BY <2>1
    <3>4. PageBuf(i, l[1]) = Seen(l[1])
      <4>1. \A j \in Inserts : j # i => pc[j] \in {"idle", "done"}  OBVIOUS
      <4> QED BY <1>1, <2>5, <4>1, BuffersHold
    <3> HIDE DEF l
    <3>5. NewPages(i)[l[1]][l[2]] = PageBuf(i, l[1])[l[2]]  BY <2>5, <3>2, <3>3 DEF NewPages
    <3> QED BY <2>3, <3>1, <3>4, <3>5 DEF SeenRec, l
  <2> QED BY <2>4, <2>5
<1>13. RecordsReadable'
  <2> SUFFICES ASSUME NEW id \in PlacedIds', \A j \in Inserts : ~Moving(j, id)'
               PROVE  SeenRec(id2loc[id])' = Rec(id, LinksOf(id)')
    BY DEF RecordsReadable
  <2>1. id \in PlacedIds /\ \A j \in Inserts : ~Moving(j, id)  BY <1>4, <1>5 DEF Moving
  <2>2. SeenRec(id2loc[id]) = Rec(id, LinksOf(id))  BY <2>1 DEF RecordsReadable
  <2> QED BY <1>3, <1>12, <2>1, <2>2
<1> QED BY <1>11, <1>13

(* id2loc_ moves to the new slots, which hold the neighbours' records.      *)
LEMMA UpdateKeepsRecords ==
    ASSUME IInv, NewRecords, RecordsReadable, NEW i \in Inserts, UpdateId2Loc(i),
           \A j \in Inserts : j # i => pc'[j] = pc[j] /\ pc[j] \in {"idle", "done"},
           \A p : Seen(p)' = Seen(p)
    PROVE  NewRecords' /\ RecordsReadable'
<1> USE DEF IInv
<1>1. /\ pc[i] = "update" /\ pc' = [pc EXCEPT ![i] = "layout"]
      /\ UNCHANGED <<locs, nhood>>
      /\ \A id \in Ids : id \notin Elems(nhood[i]) => id2loc'[id] = id2loc[id]
  BY DEF UpdateId2Loc, Goto
<1>2. pc'[i] = "layout"  BY <1>1 DEF TypeOK
<1>3. \A id : LinksOf(id)' = IF id \in Elems(nhood[i]) THEN LinksOf(id) \cup {i} ELSE LinksOf(id)
  <2> SUFFICES ASSUME NEW id, NEW j \in Inserts
               PROVE  (id \in Elems(nhood'[j]) /\ pc'[j] \in {"layout", "unlockv", "commit", "deref", "done"})
                      <=> \/ id \in Elems(nhood[j]) /\ pc[j] \in {"layout", "unlockv", "commit", "deref", "done"}
                          \/ id \in Elems(nhood[i]) /\ j = i
    BY DEF LinksOf
  <2>1. CASE j = i  BY <1>1, <1>2, <2>1
  <2>2. CASE j # i  BY <1>1, <2>2
  <2> QED BY <2>1, <2>2
<1>4. PlacedIds' = PlacedIds  BY <1>1, <1>2 DEF PlacedIds
<1>5. \A l : SeenRec(l)' = SeenRec(l)  BY DEF SeenRec
<1>6. NewRecords'
  <2>1. \A j \in Inserts : pc'[j] \in {"locki", "update", "layout"} => j = i  OBVIOUS
  <2>2. /\ \A k \in DOMAIN nhood[i] : SeenRec(locs[i][k]) = Rec(nhood[i][k], LinksOf(nhood[i][k]) \cup {i})
        /\ SeenRec(locs[i][Len(nhood[i]) + 1]) = Rec(i, {})
    BY <1>1 DEF NewRecords
  <2>3. \A id : LinksOf(id)' \cup {i} = LinksOf(id) \cup {i}  BY <1>3
  <2>4. /\ \A k \in DOMAIN nhood'[i] :
              SeenRec(locs[i][k])' = Rec(nhood'[i][k], LinksOf(nhood[i][k])' \cup {i})
        /\ SeenRec(locs[i][Len(nhood[i]) + 1])' = Rec(i, {})
    BY <1>1, <1>5, <2>2, <2>3
  <2> QED BY <2>1, <2>4 DEF NewRecords
<1>7. RecordsReadable'
  <2> SUFFICES ASSUME NEW id \in PlacedIds', \A j \in Inserts : ~Moving(j, id)'
               PROVE  SeenRec(id2loc[id])' = Rec(id, LinksOf(id)')
    BY DEF RecordsReadable
  <2>1. id \notin Elems(nhood[i])  BY <1>1, <1>2 DEF Moving
  <2>2. id \in PlacedIds /\ \A j \in Inserts : ~Moving(j, id)  BY <1>1, <1>4 DEF Moving
  <2>3. id \in Ids  BY <2>2, NumAssumption DEF PlacedIds, Ids, Inserts
  <2>4. id2loc'[id] = id2loc[id]  BY <1>1, <2>1, <2>3
  <2>5. SeenRec(id2loc[id])' = SeenRec(id2loc[id])  BY <1>5, <2>4
  <2>6. SeenRec(id2loc[id]) = Rec(id, LinksOf(id))  BY <2>2 DEF RecordsReadable
  <2> QED BY <1>3, <2>1, <2>5, <2>6
<1> QED BY <1>6, <1>7

(* page_layout follows: the target is placed, the neighbours have moved.    *)
LEMMA EraseKeepsRecords ==
    ASSUME IInv, NewRecords, RecordsReadable, PagesReady, NEW i \in Inserts, EraseAndSetLoc(i),
           \A j \in Inserts : j # i => pc'[j] = pc[j] /\ pc[j] \in {"idle", "done"},
           \A p : Seen(p)' = Seen(p)
    PROVE  NewRecords' /\ RecordsReadable'
<1> USE DEF IInv
<1>1. /\ pc[i] = "layout" /\ pc' = [pc EXCEPT ![i] = "unlockv"]
      /\ UNCHANGED <<locs, nhood, id2loc>>
  BY DEF EraseAndSetLoc, Goto, workVars
<1>2. pc'[i] = "unlockv"  BY <1>1 DEF TypeOK
<1>3. \A id : LinksOf(id)' = LinksOf(id)
  <2> SUFFICES ASSUME NEW id, NEW j \in Inserts
               PROVE  (id \in Elems(nhood'[j]) /\ pc'[j] \in {"layout", "unlockv", "commit", "deref", "done"})
                      <=> (id \in Elems(nhood[j]) /\ pc[j] \in {"layout", "unlockv", "commit", "deref", "done"})
    BY DEF LinksOf
  <2>1. CASE j = i  BY <1>1, <1>2, <2>1
  <2>2. CASE j # i  BY <1>1, <2>2
  <2> QED BY <2>1, <2>2
<1>4. PlacedIds' = PlacedIds \cup {i} /\ i \notin PlacedIds
  BY <1>1, <1>2, NumAssumption DEF PlacedIds, Inserts
<1>5. \A l : SeenRec(l)' = SeenRec(l)  BY DEF SeenRec
<1>6. NewRecords'
  <2>1. \A j \in Inserts : pc'[j] \notin {"locki", "update", "layout"}  BY <1>2
  <2> QED BY <2>1 DEF NewRecords
<1>7. LinksOf(i) = {}
  <2> SUFFICES ASSUME NEW j \in Inserts, i \in Elems(nhood[j]),
                      pc[j] \in {"layout", "unlockv", "commit", "deref", "done"}
               PROVE  FALSE
    BY DEF LinksOf
  <2>1. Elems(nhood[j]) \subseteq PlacedIds  BY DEF PagesReady
  <2> QED BY <1>4, <2>1
<1>8. RecordsReadable'
  <2> SUFFICES ASSUME NEW id \in PlacedIds'
               PROVE  SeenRec(id2loc[id]) = Rec(id, LinksOf(id))
    <3>1. \A id : SeenRec(id2loc[id])' = SeenRec(id2loc[id])  BY <1>1, <1>5
    <3> QED BY <1>3, <3>1 DEF RecordsReadable
  <2>1. CASE id = i
    <3>1. id2loc[i] = locs[i][Len(nhood[i]) + 1]  BY <1>1 DEF HalfMoved
    <3>2. SeenRec(locs[i][Len(nhood[i]) + 1]) = Rec(i, {})  BY <1>1 DEF NewRecords
    <3> QED BY <1>7, <2>1, <3>1, <3>2
  <2>2. CASE id # i /\ id \in Elems(nhood[i])
    <3>1. PICK k \in DOMAIN nhood[i] : id = nhood[i][k]  BY <2>2 DEF Elems
    <3>2. id2loc[id] = locs[i][k]  BY <1>1, <3>1 DEF HalfMoved
    <3>3. SeenRec(locs[i][k]) = Rec(id, LinksOf(id) \cup {i})  BY <1>1, <3>1 DEF NewRecords
    <3>4. i \in LinksOf(id)  BY <1>1, <2>2 DEF LinksOf
    <3>5. LinksOf(id) \cup {i} = LinksOf(id)  BY <3>4
    <3> QED BY <3>2, <3>3, <3>5
  <2>3. CASE id # i /\ id \notin Elems(nhood[i])
    <3>1. id \in PlacedIds /\ \A j \in Inserts : ~Moving(j, id)  BY <1>4, <2>3 DEF Moving
    <3> QED BY <3>1 DEF RecordsReadable
  <2> QED BY <2>1, <2>2, <2>3
<1> QED BY <1>6, <1>8

(* Every step of an insert. *)
LEMMA InsertKeepsSerial ==
    ASSUME IOIInv, IOIInv', SerialInv, OneActive', WritesLocked', NEW i \in Inserts, IOInsert(i)
    PROVE  SerialInv'
<1> USE DEF IOIInv, SerialInv
<1>1. /\ \A j \in Inserts : j # i => pc'[j] = pc[j] /\ pc[j] \in {"idle", "done"}
      /\ pc \in [Inserts -> Labels]
  BY OthersRest DEF IInv, TypeOK
<1>2. PagesReady'  BY InsertKeepsReady
<1>3. ContentsCurrent'
  <2>1. CASE IOWritePages(i)  BY <2>1, WriteKeepsContents
  <2>2. CASE ~IOWritePages(i)  BY <2>2, InsertKeepsContents
  <2> QED BY <2>1, <2>2
<1>4. NewRecords' /\ RecordsReadable'
  <2>1. CASE IOWritePages(i)
    <3>1. \A p : Seen(p)' = IF p \in PagesOf(locs[i]) THEN NewPages(i)[p] ELSE Seen(p)
      BY <2>1, WriteKeepsContents
    <3> QED BY <1>1, <2>1, <3>1, WriteKeepsRecords
  <2>2. CASE ~IOWritePages(i)
    <3>1. \A p : Seen(p)' = Seen(p)  BY <2>2, InsertKeepsContents
    <3>2. CASE UpdateId2Loc(i)  BY <1>1, <3>1, <3>2, UpdateKeepsRecords
    <3>3. CASE EraseAndSetLoc(i)  BY <1>1, <3>1, <3>3, EraseKeepsRecords
    <3>4. CASE ~UpdateId2Loc(i) /\ ~EraseAndSetLoc(i)
      <4>1. id2loc' = id2loc
            /\ \/ pc'[i] = pc[i]
               \/ pc[i] = "idle" /\ pc'[i] = "search"
               \/ pc[i] = "search" /\ pc'[i] = "lockp"
               \/ pc[i] = "lockp" /\ pc'[i] = "lockv"
               \/ pc[i] = "lockv" /\ pc'[i] = "read"
               \/ pc[i] = "read" /\ pc'[i] = "write"
               \/ pc[i] = "locki" /\ pc'[i] = "update"
               \/ pc[i] \in Written /\ pc'[i] \in Written
        <5>1. CASE Begin(i)  BY <1>1, <5>1 DEF Begin, Goto
        <5>2. CASE AllocLoc(i)
          <6>1. pc[i] = "search" /\ Goto(i, "lockp") /\ id2loc' = id2loc  BY <5>2, Zenon DEF AllocLoc
          <6> QED BY <1>1, <6>1 DEF Goto
        <5>3. CASE \/ \E p \in DOMAIN layout : LockPage(i, p)
                   \/ \E id \in Ids : LockVec(i, id)
                   \/ \E id \in Ids : LockIdx(i, id)
          BY <1>1, <5>3 DEF LockPage, LockVec, LockIdx, Goto, mapVars
        <5>4. CASE UnlockVec(i) \/ Commit(i)
          BY <1>1, <5>4 DEF UnlockVec, Commit, Goto, mapVars, Written
        <5>5. CASE (\E id \in Ids : IOSearchLock(i, id)) \/ IOSearchFetch(i) \/ IOSearchUnlock(i)
          BY <5>5 DEF IOSearchLock, IOSearchFetch, IOSearchUnlock, SearchLock, SearchUnlock, vars, mapVars
        <5>6. CASE IOReadPages(i)  BY <1>1, <5>6 DEF IOReadPages, ReadPages, Goto, mapVars
        <5>7. CASE IOFetch(i) \/ IOFill(i)  BY <5>7 DEF IOFetch, IOFill, vars, mapVars
        <5>8. CASE IOReturn(i)  BY <1>1, <5>8 DEF IOReturn, Return, Goto, mapVars, Written
        <5> QED
          BY <2>2, <3>4, <5>1, <5>2, <5>3, <5>4, <5>5, <5>6, <5>7, <5>8 DEF IOInsert, IOLocal
      <4>2. /\ (nhood' = nhood /\ locs' = locs) \/ pc[i] = "search"
            /\ \A j \in Inserts : j # i => nhood'[j] = nhood[j] /\ locs'[j] = locs[j]
        <5>1. CASE AllocLoc(i)
          <6>1. pc[i] = "search" /\ \E n, l : nhood' = [nhood EXCEPT ![i] = n] /\ locs' = [locs EXCEPT ![i] = l]
            BY <5>1, Zenon DEF AllocLoc
          <6> QED BY <6>1 DEF IInv, TypeOK
        <5>2. CASE ~AllocLoc(i)
          <6>1. UNCHANGED <<nhood, locs>>
            <7>1. CASE IOLocal(i)
              BY <3>4, <5>2, <7>1 DEF IOLocal, Begin, LockPage, LockVec, LockIdx, UnlockVec, Commit, workVars
            <7>2. CASE (\E id \in Ids : IOSearchLock(i, id)) \/ IOSearchFetch(i) \/ IOSearchUnlock(i)
              BY <7>2 DEF IOSearchLock, IOSearchFetch, IOSearchUnlock, SearchLock, SearchUnlock, vars, workVars
            <7>3. CASE IOReadPages(i) \/ IOFetch(i) \/ IOFill(i) \/ IOReturn(i)
              BY <7>3 DEF IOReadPages, IOFetch, IOFill, IOReturn, ReadPages, Return, vars, workVars
            <7> QED BY <2>2, <7>1, <7>2, <7>3 DEF IOInsert
          <6> QED BY <6>1
        <5> QED BY <5>1, <5>2
      <4>3. \A j \in Inserts :
               /\ pc'[j] \in {"locki", "update"} <=> pc[j] \in {"locki", "update"}
               /\ pc'[j] = "layout" <=> pc[j] = "layout"
               /\ pc'[j] \in Written <=> pc[j] \in Written
               /\ pc[j] \in Late \cup Written => nhood'[j] = nhood[j] /\ locs'[j] = locs[j]
        <5> SUFFICES ASSUME NEW j \in Inserts
               PROVE  /\ pc'[j] \in {"locki", "update"} <=> pc[j] \in {"locki", "update"}
                      /\ pc'[j] = "layout" <=> pc[j] = "layout"
                      /\ pc'[j] \in Written <=> pc[j] \in Written
                      /\ pc[j] \in Late \cup Written => nhood'[j] = nhood[j] /\ locs'[j] = locs[j]
          OBVIOUS
        <5>1. CASE j = i  BY <4>1, <4>2, <5>1 DEF Late, Written
        <5>2. CASE j # i  BY <1>1, <4>2, <5>2
        <5> QED BY <5>1, <5>2
      <4> QED BY <3>1, <4>1, <4>3, QuietStep
    <3> QED BY <3>2, <3>3, <3>4
  <2> QED BY <2>1, <2>2
<1> QED BY <1>2, <1>3, <1>4

(* Steps of the background thread, and stuttering. *)
LEMMA SteadyKeepsRecords ==
    ASSUME PagesReady, NewRecords, RecordsReadable,
           UNCHANGED <<pc, nhood, locs, layout, needRead, nbrLoc, id2loc, readBuf, missing>>,
           \A p : Seen(p)' = Seen(p)
    PROVE  PagesReady' /\ NewRecords' /\ RecordsReadable'
<1>1. PlacedIds' = PlacedIds  BY DEF PlacedIds
<1>2. PagesReady'  BY <1>1 DEF PagesReady, ReadsAll, UnreadHoldNothing
<1>3. NewRecords' /\ RecordsReadable'
  <2>1. \A j \in Inserts :
           /\ pc'[j] \in {"locki", "update"} <=> pc[j] \in {"locki", "update"}
           /\ pc'[j] = "layout" <=> pc[j] = "layout"
           /\ pc'[j] \in Written <=> pc[j] \in Written
           /\ pc[j] \in Late \cup Written => nhood'[j] = nhood[j] /\ locs'[j] = locs[j]
    OBVIOUS
  <2> QED BY <2>1, QuietStep
<1> QED BY <1>2, <1>3

LEMMA NextSerial ==
    ASSUME IOIInv, IOIInv', SerialInv, OneActive', [IONext]_allVars
    PROVE  SerialInv'
<1> USE DEF SerialInv
<1>0. WritesLocked'  BY NextKeepsLocks
<1>1. CASE UNCHANGED allVars
  <2>1. UNCHANGED <<pc, nhood, locs, layout, needRead, nbrLoc, id2loc, bgTask>>
        /\ UNCHANGED <<disk, cache, searchBuf, readBuf, missing, writeBuf>>
    BY <1>1 DEF allVars, vars, ioVars, mapVars, workVars, bgVars
  <2>2. \A p : Seen(p)' = Seen(p)  BY <2>1 DEF Seen, OnDisk
  <2>3. ContentsCurrent'  BY <2>1 DEF ContentsCurrent, Seen, OnDisk, Pending
  <2> QED BY <1>0, <2>1, <2>2, <2>3, SteadyKeepsRecords
<1>2. ASSUME NEW i \in Inserts, IOInsert(i) PROVE SerialInv'
  BY <1>0, <1>2, InsertKeepsSerial
<1>3. CASE IOBgWrite
  <2>1. ContentsCurrent' /\ \A p : Seen(p)' = Seen(p)  BY <1>3, BgWriteKeepsContents
  <2>2. UNCHANGED <<pc, nhood, locs, layout, needRead, nbrLoc, id2loc, readBuf, missing>>
    BY <1>3 DEF IOBgWrite, BgWrite, mapVars, workVars
  <2> QED BY <1>0, <2>1, <2>2, SteadyKeepsRecords
<1>4. CASE IOBgFinish
  <2>0. bgTask \in Inserts  BY <1>4 DEF IOBgFinish, BgFinish, IOIInv, IInv, TypeOK
  <2>1. ContentsCurrent' /\ \A p : Seen(p)' = Seen(p)  BY <1>4, <2>0, BgFinishKeepsContents
  <2>2. UNCHANGED <<pc, nhood, locs, layout, needRead, nbrLoc, id2loc, readBuf, missing>>
    BY <1>4 DEF IOBgFinish, BgFinish, mapVars, workVars
  <2> QED BY <1>0, <2>1, <2>2, SteadyKeepsRecords
<1>5. CASE Finished /\ UNCHANGED ioVars
  <2>1. UNCHANGED allVars  BY <1>5 DEF Finished, allVars
  <2> QED BY <1>1, <2>1
<1> QED BY <1>1, <1>2, <1>3, <1>4, <1>5 DEF IONext

(* The file that was loaded holds every point.                              *)
LEMMA InitSerial ==
    ASSUME IOInit
    PROVE  SerialInv
<1> USE DEF SerialInv
<1>0. IInv  BY InitIInv DEF IOInit
<1>1. /\ \A i \in Inserts : pc[i] = "idle" /\ pageHeld[i] = {}
      /\ bgTasks = << >> /\ bgTask = None
      /\ \A i \in Inserts : DOMAIN missing[i] = {} /\ DOMAIN writeBuf[i] = {} /\ searchBuf[i].from = "none"
      /\ DOMAIN cache = {}
  BY DEF IOInit, Init, NoPages, NoSearch
<1>2. OneActive  BY <1>1 DEF OneActive, Active
<1>3. WritesLocked
  <2>1. Elems(bgTasks) = {}  BY <1>1 DEF Elems
  <2> QED BY <1>1, <2>1 DEF WritesLocked
<1>4. ContentsCurrent  BY <1>1 DEF ContentsCurrent
<1>5. PagesReady /\ NewRecords  BY <1>1 DEF PagesReady, NewRecords
<1>6. RecordsReadable
  <2> SUFFICES ASSUME NEW id \in PlacedIds PROVE SeenRec(id2loc[id]) = Rec(id, LinksOf(id))
    BY DEF RecordsReadable
  <2>1. LinksOf(id) = {}  BY <1>1 DEF LinksOf
  <2>2. /\ id2loc[id] \in (DOMAIN layout) \X Slots /\ id \in Ids
        /\ loc2id(layout, id2loc[id]) = id
    BY <1>0, <1>1, WhereRecordsAre
  <2> DEFINE l == id2loc[id]
  <2>3. l[1] \in DOMAIN layout /\ l[2] \in Slots /\ layout[l[1]][l[2]] = id  BY <2>2 DEF loc2id
  <2> HIDE DEF l
  <2>4. disk = [ p \in DOMAIN layout |->
                   [ s \in Slots |-> IF layout[p][s] \in Ids THEN Rec(layout[p][s], {}) ELSE Garbage ] ]
    BY DEF IOInit
  <2>5. l[1] \in DOMAIN disk /\ disk[l[1]][l[2]] = Rec(id, {})  BY <2>2, <2>3, <2>4
  <2>6. Seen(l[1])[l[2]] = Rec(id, {})  BY <1>1, <2>5 DEF Seen, OnDisk
  <2> QED BY <2>1, <2>6 DEF SeenRec, l
<1> QED BY <1>2, <1>3, <1>4, <1>5, <1>6

(* With one client thread, at most one insert is active.                    *)
LEMMA SerialLoad ==
    ASSUME Cardinality(Active) <= 1
    PROVE  OneActive
<1>1. IsFiniteSet(Active)  BY InsertsFinite, FS_Subset DEF Active
<1>2. Cardinality(Active) = 0 => Active = {}  BY <1>1, FS_EmptySet
<1>3. Cardinality(Active) = 1 => \E x : Active = {x}  BY <1>1, FS_Singleton
<1>4. Cardinality(Active) \in Nat  BY <1>1, FS_CardinalityType
<1>5. Cardinality(Active) = 0 \/ Cardinality(Active) = 1  BY <1>4
<1> QED BY <1>2, <1>3, <1>5 DEF OneActive

SerialIInv == IOIInv /\ (load = "serial" => SerialInv)

LEMMA LoadKeepsSerial ==
    ASSUME SerialIInv, [LoadNext]_loadVars
    PROVE  SerialIInv'
<1>1. [IONext]_allVars  BY DEF LoadNext, loadVars
<1>2. IOIInv'  BY <1>1, NextIO DEF SerialIInv
<1>3. ASSUME load' = "serial" PROVE SerialInv'
  <2>1. load' = load  BY DEF LoadNext, loadVars
  <2>2. SerialInv  BY <1>3, <2>1 DEF SerialIInv
  <2>3. CASE LoadNext
    <3>1. Cardinality(Active)' <= 1  BY <1>3, <2>3 DEF LoadNext, WithinLoad
    <3>2. (Cardinality(Active) <= 1 => OneActive)'  BY SerialLoad, PTL
    <3>3. OneActive'  BY <3>1, <3>2
    <3> QED BY <1>1, <1>2, <2>2, <3>3, NextSerial DEF SerialIInv
  <2>4. CASE UNCHANGED loadVars
    <3>1. pc' = pc  BY <2>4 DEF loadVars, allVars, vars
    <3>2. OneActive'  BY <2>2, <3>1 DEF SerialInv, OneActive, Active
    <3> QED BY <1>1, <1>2, <2>2, <3>2, NextSerial DEF SerialIInv
  <2> QED BY <2>3, <2>4
<1> QED BY <1>2, <1>3 DEF SerialIInv

(* Every record is found and linked, for any number of points, inserts and  *)
(* slots, as long as one thread inserts at a time: with the background      *)
(* writer beside it, what a search reads at id2loc_ is the vector of that   *)
(* id, linked to every insert that took it as a neighbour.                  *)
THEOREM RecordsStayReadable == LoadSpec => []SerialRecordsReadable
<1>1. LoadInit => SerialIInv  BY InitIO, InitSerial DEF LoadInit, SerialIInv
<1>2. SerialIInv /\ [LoadNext]_loadVars => SerialIInv'  BY LoadKeepsSerial
<1>3. SerialIInv => SerialRecordsReadable  BY DEF SerialIInv, SerialInv, SerialRecordsReadable
<1> QED BY <1>1, <1>2, <1>3, PTL DEF LoadSpec

-----------------------------------------------------------------------------
(* The file. *)

(* A page that is still to be written belongs to an insert that has not     *)
(* committed, or to a task of the background thread.                        *)
WritesQueued ==
    \A i \in Inserts :
        DOMAIN writeBuf[i] # {} /\ pc[i] \in {"deref", "done"} => i \in Elems(bgTasks) \/ i = bgTask

LEMMA HeadOrTail ==
    ASSUME NEW X, NEW s \in Seq(X), s # << >>, NEW x \in Elems(s)
    PROVE  x = Head(s) \/ x \in Elems(Tail(s))
<1>1. Len(s) \in Nat /\ DOMAIN s = 1 .. Len(s) /\ Len(s) # 0  BY LenProperties, EmptySeq
<1>2. Head(s) = s[1] /\ Tail(s) \in Seq(X) /\ Len(Tail(s)) = Len(s) - 1
      /\ \A k \in 1 .. Len(Tail(s)) : Tail(s)[k] = s[k + 1]
  BY HeadTailProperties
<1>3. PICK k \in 1 .. Len(s) : x = s[k]  BY <1>1 DEF Elems
<1>4. CASE k = 1  BY <1>2, <1>3, <1>4
<1>5. CASE k # 1
  <2>1. k - 1 \in 1 .. Len(Tail(s)) /\ (k - 1) + 1 = k  BY <1>1, <1>2, <1>3, <1>5
  <2>2. DOMAIN Tail(s) = 1 .. Len(Tail(s))  BY <1>2, LenProperties
  <2>3. x = Tail(s)[k - 1]  BY <1>2, <1>3, <2>1
  <2> QED BY <2>1, <2>2, <2>3 DEF Elems
<1> QED BY <1>4, <1>5

LEMMA NextKeepsQueue ==
    ASSUME IOIInv, IOIInv', WritesQueued, [IONext]_allVars
    PROVE  WritesQueued'
<1> USE DEF IOIInv
<1>0. /\ pc \in [Inserts -> Labels] /\ bgTasks \in Seq(Inserts) /\ DOMAIN writeBuf = Inserts
  BY DEF IInv, TypeOK, IOTypeOK
<1>1. CASE /\ UNCHANGED <<writeBuf, bgTasks, bgTask>>
           /\ \A j \in Inserts : pc'[j] \in {"deref", "done"} => pc[j] \in {"deref", "done"}
  BY <1>1 DEF WritesQueued
<1>2. CASE UNCHANGED allVars
  <2>1. UNCHANGED <<pc, writeBuf, bgTasks, bgTask>>
    BY <1>2 DEF allVars, vars, ioVars, bgVars
  <2> QED BY <1>1, <2>1
<1>3. ASSUME NEW i \in Inserts, IOInsert(i) PROVE WritesQueued'
  <2>1. CASE IOLocal(i) /\ ~Commit(i)
    <3>1. UNCHANGED <<writeBuf, bgTasks, bgTask>>
      <4>1. CASE AllocLoc(i)
        <5>1. UNCHANGED bgVars  BY <4>1, Zenon DEF AllocLoc
        <5> QED BY <2>1, <5>1 DEF bgVars, IOLocal, ioVars
      <4>2. CASE ~AllocLoc(i)
        BY <2>1, <4>2 DEF IOLocal, Begin, LockPage, LockVec, LockIdx, UpdateId2Loc, EraseAndSetLoc,
                          UnlockVec, bgVars, ioVars
      <4> QED BY <4>1, <4>2
    <3>2. pc'[i] \notin {"deref", "done"} /\ \A j \in Inserts : j # i => pc'[j] = pc[j]
      <4>1. CASE AllocLoc(i)
        <5>1. Goto(i, "lockp")  BY <4>1, Zenon DEF AllocLoc
        <5> QED BY <1>0, <5>1 DEF Goto
      <4>2. CASE ~AllocLoc(i)
        BY <1>0, <2>1, <4>2 DEF IOLocal, Begin, LockPage, LockVec, LockIdx, UpdateId2Loc, EraseAndSetLoc,
                          UnlockVec, Goto
      <4> QED BY <4>1, <4>2
    <3> QED BY <1>1, <3>1, <3>2
  <2>2. CASE IOLocal(i) /\ Commit(i)
    <3>1. /\ UNCHANGED <<writeBuf, bgTask>> /\ bgTasks' = Append(bgTasks, i)
          /\ pc' = [pc EXCEPT ![i] = "deref"]
      BY <2>2 DEF IOLocal, Commit, Goto, ioVars
    <3>2. Elems(bgTasks') = Elems(bgTasks) \cup {i}  BY <1>0, <3>1, ElemsAppend
    <3>3. \A j \in Inserts : j # i => pc'[j] = pc[j]  BY <1>0, <3>1
    <3> QED BY <3>1, <3>2, <3>3 DEF WritesQueued
  <2>3. CASE (\E id \in Ids : IOSearchLock(i, id)) \/ IOSearchFetch(i) \/ IOSearchUnlock(i)
             \/ IOReadPages(i) \/ IOFetch(i) \/ IOFill(i)
    <3>1. UNCHANGED <<writeBuf, bgTasks, bgTask>>
      BY <2>3 DEF IOSearchLock, IOSearchFetch, IOSearchUnlock, IOReadPages, IOFetch, IOFill,
                  SearchLock, SearchUnlock, ReadPages, vars, bgVars
    <3>2. \A j \in Inserts : pc'[j] = pc[j] \/ pc'[j] = "write"
      BY <1>0, <2>3 DEF IOSearchLock, IOSearchFetch, IOSearchUnlock, IOReadPages, IOFetch, IOFill,
                  SearchLock, SearchUnlock, ReadPages, Goto, vars
    <3> QED BY <1>1, <3>1, <3>2
  <2>4. CASE IOWritePages(i)
    <3>1. /\ UNCHANGED <<bgTasks, bgTask>> /\ pc' = [pc EXCEPT ![i] = "locki"]
          /\ \A j \in Inserts : j # i => writeBuf'[j] = writeBuf[j]
      BY <1>0, <2>4 DEF IOWritePages, WritePages, Goto, bgVars
    <3>2. pc'[i] = "locki" /\ \A j \in Inserts : j # i => pc'[j] = pc[j]  BY <1>0, <3>1
    <3> QED BY <3>1, <3>2 DEF WritesQueued
  <2>5. CASE IOReturn(i)
    <3>1. /\ UNCHANGED <<writeBuf, bgTasks, bgTask>> /\ pc[i] = "deref" /\ pc' = [pc EXCEPT ![i] = "done"]
      BY <2>5 DEF IOReturn, Return, Goto, bgVars
    <3>2. \A j \in Inserts : pc'[j] \in {"deref", "done"} => pc[j] \in {"deref", "done"}
      BY <1>0, <3>1
    <3> QED BY <1>1, <3>1, <3>2
  <2> QED BY <1>3, <2>1, <2>2, <2>3, <2>4, <2>5 DEF IOInsert
<1>4. CASE IOBgWrite
  <2>1. /\ UNCHANGED <<pc, writeBuf>> /\ bgTasks # << >> /\ bgTask = None
        /\ bgTask' = Head(bgTasks) /\ bgTasks' = Tail(bgTasks)
    BY <1>4 DEF IOBgWrite, BgWrite
  <2>2. None \notin Inserts  BY SentinelAssumption, NumAssumption DEF Inserts, Ids
  <2>3. \A j \in Elems(bgTasks) : j = bgTask' \/ j \in Elems(bgTasks')  BY <1>0, <2>1, HeadOrTail
  <2> QED BY <2>1, <2>2, <2>3 DEF WritesQueued
<1>5. CASE IOBgFinish
  <2>1. /\ UNCHANGED <<pc, bgTasks>> /\ bgTask \in Inserts
        /\ writeBuf' = [writeBuf EXCEPT ![bgTask] = NoPages]
    BY <1>5 DEF IOBgFinish, BgFinish, IInv, TypeOK
  <2>2. DOMAIN writeBuf'[bgTask] = {} /\ \A j \in Inserts : j # bgTask => writeBuf'[j] = writeBuf[j]
    BY <1>0, <2>1 DEF NoPages
  <2>3. \A j \in Inserts : j # bgTask /\ DOMAIN writeBuf[j] # {} /\ pc[j] \in {"deref", "done"}
              => j \in Elems(bgTasks)
    BY DEF WritesQueued
  <2> SUFFICES ASSUME NEW j \in Inserts, DOMAIN writeBuf'[j] # {}, pc'[j] \in {"deref", "done"}
               PROVE  j \in Elems(bgTasks')
    BY DEF WritesQueued
  <2> QED BY <2>1, <2>2, <2>3
<1>6. CASE Finished /\ UNCHANGED ioVars
  <2>1. UNCHANGED allVars  BY <1>6 DEF Finished, allVars
  <2> QED BY <1>2, <2>1
<1> QED BY <1>2, <1>3, <1>4, <1>5, <1>6 DEF IONext

(* "ensure that disk has a consistent state": with one client thread, when  *)
(* every insert has returned and the background thread has nothing left to  *)
(* do, the index file holds the record of every point where id2loc_ says.   *)
THEOREM FileStaysConsistent == LoadSpec => [](load = "serial" => DiskConsistent)
<1> DEFINE FileInv == SerialIInv /\ WritesQueued
<1>1. LoadInit => FileInv
  <2> SUFFICES ASSUME LoadInit PROVE FileInv
    OBVIOUS
  <2>1. SerialIInv  BY InitIO, InitSerial DEF LoadInit, SerialIInv
  <2>2. \A i \in Inserts : DOMAIN writeBuf[i] = {}  BY DEF LoadInit, IOInit, NoPages
  <2> QED BY <2>1, <2>2 DEF WritesQueued
<1>2. FileInv /\ [LoadNext]_loadVars => FileInv'
  <2> SUFFICES ASSUME FileInv, [LoadNext]_loadVars PROVE FileInv'
    OBVIOUS
  <2>1. SerialIInv'  BY LoadKeepsSerial
  <2>2. [IONext]_allVars  BY DEF LoadNext, loadVars
  <2> QED BY <2>1, <2>2, NextKeepsQueue DEF SerialIInv
<1>3. FileInv => (load = "serial" => DiskConsistent)
  <2> SUFFICES ASSUME FileInv, load = "serial", Quiescent, NEW id \in PlacedIds
               PROVE  OnDisk(id2loc[id][1])[id2loc[id][2]] = Rec(id, LinksOf(id))
    BY DEF DiskConsistent
  <2> USE DEF SerialIInv, SerialInv
  <2>1. /\ \A j \in Inserts : pc[j] = "done" /\ ~Moving(j, id)
        /\ bgTasks = << >> /\ bgTask = None
    BY DEF Quiescent, Moving
  <2>2. SeenRec(id2loc[id]) = Rec(id, LinksOf(id))  BY <2>1 DEF RecordsReadable
  <2>3. \A p : ~Pending(p)
    <3>1. Elems(bgTasks) = {}  BY <2>1 DEF Elems
    <3>2. None \notin Inserts  BY SentinelAssumption, NumAssumption DEF Inserts, Ids
    <3> QED BY <2>1, <3>1, <3>2 DEF WritesQueued, Pending
  <2>4. \A p : Seen(p) = OnDisk(p)  BY <2>3 DEF Seen, ContentsCurrent
  <2> QED BY <2>2, <2>4 DEF SeenRec
<1> HIDE DEF FileInv
<1> QED BY <1>1, <1>2, <1>3, PTL DEF LoadSpec
=============================================================================
