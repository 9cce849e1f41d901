------------------------ MODULE DynamicIndexProofs -------------------------
(***************************************************************************)
(* DynInv is an inductive invariant of DynamicIndex, and what follows from *)
(* it, for any number of points, tags and merges, any finite set of        *)
(* searches and any kinds of merges.                                       *)
(***************************************************************************)
EXTENDS DynamicIndex, TLAPS, FiniteSetTheorems

-----------------------------------------------------------------------------
(* The types of the records that the steps change. *)

LEMMA SearchUpdated ==
    ASSUME DynTypeOK, NEW s \in Searchers, NEW c \in SearchType
    PROVE  [search EXCEPT ![s] = c] \in [Searchers -> SearchType]
  BY DEF DynTypeOK

LEMMA NoSearchType == NoSearch \in SearchType
  BY DEF NoSearch, SearchCall, SearchType

LEMMA NoMergeType == NoMerge \in MergeType
  <1>1. << >> \in [{} -> Tags] /\ << >> \in [{} -> Ids]
    OBVIOUS
  <1>2. {} \in SUBSET Ids
    OBVIOUS
  <1> QED  BY <1>1, <1>2 DEF NoMerge, MergeType

LEMMA IdentityType == \A n : Identity(n) \in [Ids -> Ids \cup {None}]
  BY DEF Identity

LEMMA TagType == DynTypeOK => \A id \in Ids : id2tag(id) \in Tags
  BY DEF DynTypeOK, id2tag, Ids

LEMMA TaskTypes ==
    DynTypeOK => \A i \in DOMAIN bgTasks :
                    bgTasks[i] \in Task /\ bgTasks[i].loc \in Ids /\ bgTasks[i].tag \in Tags
  <1>1. DynTypeOK => \A i \in DOMAIN bgTasks : bgTasks[i] \in Task
    BY DEF DynTypeOK
  <1> QED  BY <1>1 DEF Task

LEMMA LiveSubset == DynTypeOK => LiveLocs \subseteq 0 .. curLoc - 1 /\ LiveLocs \subseteq Ids
  BY DynAssumption DEF DynTypeOK, LiveLocs, Ids, Tags

LEMMA LiveCount ==
    DynTypeOK => /\ IsFiniteSet(LiveLocs) /\ Cardinality(LiveLocs) \in Nat
                 /\ Cardinality(LiveLocs) <= NumTags
  <1> SUFFICES ASSUME DynTypeOK PROVE /\ IsFiniteSet(LiveLocs) /\ Cardinality(LiveLocs) \in Nat
                                      /\ Cardinality(LiveLocs) <= NumTags
    OBVIOUS
  <1>1. curLoc \in 0 .. NumTags /\ NumTags \in Nat
    BY DynAssumption DEF DynTypeOK
  <1>2. LiveLocs \in SUBSET (0 .. curLoc - 1)
    BY LiveSubset
  <1>3. IsFiniteSet(0 .. curLoc - 1) /\ Cardinality(0 .. curLoc - 1) = curLoc
    BY <1>1, FS_Interval
  <1>4. IsFiniteSet(LiveLocs) /\ Cardinality(LiveLocs) <= curLoc
    BY <1>2, <1>3, FS_Subset
  <1> QED  BY <1>1, <1>4, FS_CardinalityType

(* An injective placement of the survivors uses every new place. *)
LEMMA PlacesUsed ==
    ASSUME NEW S, IsFiniteSet(S), NEW f \in [S -> 0 .. Cardinality(S) - 1],
           \A l, m \in S : f[l] = f[m] => l = m
    PROVE  \A k \in 0 .. Cardinality(S) - 1 : \E l \in S : f[l] = k
  <1>1. Cardinality(S) \in Nat
    BY FS_CardinalityType
  <1>2. /\ IsFiniteSet(0 .. Cardinality(S) - 1)
        /\ Cardinality(0 .. Cardinality(S) - 1) = Cardinality(S)
    BY <1>1, FS_Interval
  <1>3. f \in Injection(S, 0 .. Cardinality(S) - 1)
    BY DEF Injection, IsInjective
  <1>4. f \in Surjection(S, 0 .. Cardinality(S) - 1)
    BY <1>2, <1>3, FS_Injection
  <1> QED  BY <1>4 DEF Surjection

(* The searches that read are finitely many. *)
LEMMA ReadingFinite == IsFiniteSet(Reading) /\ Cardinality(Reading) \in Nat
  <1>1. IsFiniteSet(Reading)
    BY DynAssumption, FS_Subset DEF Reading
  <1> QED  BY <1>1, FS_CardinalityType

-----------------------------------------------------------------------------
(* What a step leaves alone that a part of the invariant does not read. *)

LEMMA LockFrame ==
    LockInv /\ UNCHANGED <<readers, writer, search, merge, kindsDone, freed>> => LockInv'
  BY DEF LockInv, OnlyFinal, Reading, Installed

LEMMA MapFrame ==
    /\ MapInv
    /\ UNCHANGED <<idLoc, layout, idTag, numPoints, curId, merge, delVars, usedTags, deleted,
                   kindsDone>>
    => MapInv'
  BY DEF MapInv, OnlyFinal, Held, Known, Installed, delVars

LEMMA FileFrame ==
    /\ FileInv
    /\ UNCHANGED <<file, cache, idTag, curLoc, bgTasks, bgTask, merge, kindsDone, scannedEarly>>
    => FileInv'
  BY DEF FileInv, Clean, OnlyFinal, Installed, Seen, Pending

LEMMA QuietFrame ==
    QuietInv /\ UNCHANGED <<merge, bgTasks, bgTask, scannedEarly>> => QuietInv'
  BY DEF QuietInv

LEMMA LiveFrame == UNCHANGED <<curLoc, layout, idTag, delVars>> => UNCHANGED LiveLocs
  BY DEF LiveLocs, id2tag, delVars

LEMMA MergeFrame ==
    MergeInv /\ UNCHANGED <<LiveLocs, merge, outFile, numPoints, idTag, kindsDone, scannedEarly>>
    => MergeInv'
  <1> SUFFICES ASSUME MergeInv,
                      UNCHANGED <<LiveLocs, merge, outFile, numPoints, idTag, kindsDone, scannedEarly>>
               PROVE  MergeInv'
    OBVIOUS
  <1>1. UNCHANGED <<OnlyFinal, Clean, Installed>>
    BY DEF OnlyFinal, Clean, Installed
  <1>2. /\ LiveLocs' = LiveLocs /\ merge' = merge /\ outFile' = outFile
        /\ numPoints' = numPoints /\ idTag' = idTag
        /\ OnlyFinal' = OnlyFinal /\ Clean' = Clean /\ Installed' = Installed
    BY <1>1
  <1>3. Placed' <=> Placed
    BY <1>2 DEF Placed
  <1>4. Renamed => Renamed'
    BY <1>2 DEF Renamed
  <1> QED  BY <1>2, <1>3, <1>4 DEF MergeInv

LEMMA HeldFrame == UNCHANGED <<idTag, numPoints, curId, merge>> => UNCHANGED <<Known, Held>>
  BY DEF Held, Known, Installed

LEMMA SearchFrame ==
    SearchInv /\ UNCHANGED <<search, delVars, deleted, idLoc, Held, kindsDone, scannedEarly>>
    => SearchInv'
  BY DEF SearchInv, Faithful, OnlyFinal, Clean, delVars

-----------------------------------------------------------------------------
(* bg_io_thread. *)

LEMMA PopKeeps == DynInv /\ BgPop => DynInv'
  <1> SUFFICES ASSUME DynInv, BgPop PROVE DynInv'
    OBVIOUS
  <1> USE DEF BgPop, DynInv, idxVars, mergeVars, lockVars, ghostVars
  <1>1. /\ Head(bgTasks) \in Task /\ Tail(bgTasks) \in Seq(Task)
        /\ Head(bgTasks) = bgTasks[1] /\ Len(bgTasks) \in Nat \ {0}
        /\ DOMAIN bgTasks = 1 .. Len(bgTasks)
        /\ DOMAIN Tail(bgTasks) = 1 .. Len(bgTasks) - 1
        /\ \A i \in 1 .. Len(bgTasks) - 1 : Tail(bgTasks)[i] = bgTasks[i + 1]
    BY DEF DynTypeOK
  <1>2. DynTypeOK'
    BY <1>1 DEF DynTypeOK, delVars, Running
  <1>3. Pending' = Pending
    <2>1. bgTask' \in Running
      BY <1>1 DEF Running
    <2>2. bgTask = None /\ bgTask' # None /\ bgTask'.task = bgTasks[1]
      BY <1>1, <2>1, NoneAssumption
    <2>3. \A i \in DOMAIN bgTasks' : i + 1 \in DOMAIN bgTasks /\ bgTasks'[i] = bgTasks[i + 1]
      BY <1>1
    <2>4. \A i \in DOMAIN bgTasks : i # 1 => i - 1 \in DOMAIN bgTasks' /\ bgTasks'[i - 1] = bgTasks[i]
      BY <1>1
    <2>5. 1 \in DOMAIN bgTasks
      BY <1>1
    <2>6. \A x : x \in Pending' <=> x = bgTasks[1] \/ \E i \in DOMAIN bgTasks' : x = bgTasks'[i]
      BY <2>2 DEF Pending
    <2>7. \A x : x \in Pending <=> \E i \in DOMAIN bgTasks : x = bgTasks[i]
      BY <2>2 DEF Pending
    <2>8. ASSUME NEW x, x \in Pending' PROVE x \in Pending
      BY ONLY <2>3, <2>5, <2>6, <2>7, <2>8
    <2>9. ASSUME NEW x, x \in Pending PROVE x \in Pending'
      BY ONLY <2>4, <2>6, <2>7, <2>9
    <2> QED  BY <2>8, <2>9
  <1>4. FileInv'
    <2> SUFFICES ASSUME Clean' PROVE FileInv'
      BY DEF FileInv
    <2>1. Clean /\ UNCHANGED <<curLoc, idTag, file, cache, Installed>>
      BY DEF Clean, OnlyFinal, Installed
    <2>2. /\ ~Installed' => \A l \in 0 .. curLoc' - 1 : Seen(l)' = idTag'[l]
          /\ \A l \in Ids : cache'[l] # None => \E task \in Pending' : task.loc = l
          /\ \A task \in Pending' : task.loc < curLoc' /\ cache'[task.loc] = task.tag
      BY <1>3, <2>1 DEF FileInv, Seen
    <2>3. \A i, j \in DOMAIN bgTasks : bgTasks[i].loc = bgTasks[j].loc => i = j
      BY <2>1 DEF FileInv
    <2>4. \A i, j \in DOMAIN bgTasks' : bgTasks'[i].loc = bgTasks'[j].loc => i = j
      BY <1>1, <2>3
    <2>5. /\ \A i \in DOMAIN bgTasks' : bgTasks'[i].loc # bgTask'.task.loc
          /\ ~bgTask'.written
      BY <1>1, <2>3
    <2> QED  BY <2>2, <2>4, <2>5 DEF FileInv
  <1>5. QuietInv'
    BY <1>1 DEF QuietInv
  <1> QED  BY <1>2, <1>4, <1>5, LockFrame, MapFrame, LiveFrame, MergeFrame, HeldFrame, SearchFrame

LEMMA WriteKeeps == DynInv /\ BgWrite => DynInv'
  <1> SUFFICES ASSUME DynInv, BgWrite PROVE DynInv'
    OBVIOUS
  <1> USE DEF BgWrite, DynInv, idxVars, mergeVars, lockVars, ghostVars
  <1>1. bgTask \in Running /\ bgTask.task.loc \in Ids /\ bgTask.task.tag \in Tags
    BY DEF DynTypeOK, Task, Running
  <1>2. bgTask' = [task |-> bgTask.task, written |-> TRUE] /\ bgTask' \in Running
    BY <1>1 DEF Running
  <1>3. bgTask' # None /\ bgTask # None
    BY <1>1, <1>2, NoneAssumption
  <1>4. DynTypeOK'
    BY <1>1, <1>2 DEF DynTypeOK, delVars
  <1>5. Pending' = Pending
    BY <1>2, <1>3 DEF Pending
  <1>6. FileInv'
    <2> SUFFICES ASSUME Clean' PROVE FileInv'
      BY DEF FileInv
    <2>1. Clean /\ UNCHANGED <<curLoc, idTag, cache, bgTasks, Installed>>
      BY DEF Clean, OnlyFinal, Installed
    <2>2. bgTask.task \in Pending /\ cache[bgTask.task.loc] = bgTask.task.tag
      BY <1>3, <2>1 DEF FileInv, Pending
    <2>3. cache[bgTask.task.loc] # None
      BY <1>1, <2>2, DynAssumption DEF Tags
    <2>4. \A l \in Ids : Seen(l)' = Seen(l)
      BY <1>1, <2>1, <2>3 DEF Seen, DynTypeOK
    <2>5. \A l \in 0 .. curLoc - 1 : l \in Ids
      BY DynAssumption DEF DynTypeOK, Ids, Tags
    <2>6. ~Installed' => \A l \in 0 .. curLoc' - 1 : Seen(l)' = idTag'[l]
      BY <2>1, <2>4, <2>5 DEF FileInv
    <2>7. file'[bgTask'.task.loc] = bgTask'.task.tag
      BY <1>1, <1>2 DEF DynTypeOK
    <2>8. /\ \A l \in Ids : cache'[l] # None => \E task \in Pending' : task.loc = l
          /\ \A task \in Pending' : task.loc < curLoc' /\ cache'[task.loc] = task.tag
          /\ \A i, j \in DOMAIN bgTasks' : bgTasks'[i].loc = bgTasks'[j].loc => i = j
          /\ \A i \in DOMAIN bgTasks' : bgTasks'[i].loc # bgTask'.task.loc
      BY <1>2, <1>3, <1>5, <2>1 DEF FileInv
    <2> QED  BY <2>6, <2>7, <2>8 DEF FileInv
  <1>7. QuietInv'
    BY <1>3 DEF QuietInv
  <1> QED  BY <1>4, <1>6, <1>7, LockFrame, MapFrame, LiveFrame, MergeFrame, HeldFrame, SearchFrame

LEMMA FinishKeeps == DynInv /\ BgFinish => DynInv'
  <1> SUFFICES ASSUME DynInv, BgFinish PROVE DynInv'
    OBVIOUS
  <1> USE DEF BgFinish, DynInv, idxVars, mergeVars, lockVars, ghostVars
  <1>1. bgTask \in Running /\ bgTask.task.loc \in Ids /\ bgTask.task.tag \in Tags
    BY DEF DynTypeOK, Task, Running
  <1>2. bgTask # None /\ bgTask' = None
    BY <1>1, NoneAssumption
  <1>3. DynTypeOK'
    BY <1>1 DEF DynTypeOK, delVars
  <1>4. Pending = Pending' \cup {bgTask.task} /\ Pending' = { bgTasks[i] : i \in DOMAIN bgTasks }
    BY <1>2 DEF Pending
  <1>5. FileInv'
    <2> SUFFICES ASSUME Clean' PROVE FileInv'
      BY DEF FileInv
    <2>1. Clean /\ UNCHANGED <<curLoc, idTag, file, bgTasks, Installed>>
      BY DEF Clean, OnlyFinal, Installed
    <2>2. file[bgTask.task.loc] = bgTask.task.tag /\ cache[bgTask.task.loc] = bgTask.task.tag
      BY <1>2, <1>4, <2>1 DEF FileInv
    <2>3. \A l \in Ids : Seen(l)' = Seen(l)
      BY <1>1, <2>1, <2>2 DEF Seen, DynTypeOK
    <2>4. \A l \in 0 .. curLoc - 1 : l \in Ids
      BY DynAssumption DEF DynTypeOK, Ids, Tags
    <2>5. ~Installed' => \A l \in 0 .. curLoc' - 1 : Seen(l)' = idTag'[l]
      BY <2>1, <2>3, <2>4 DEF FileInv
    <2>6. \A task \in Pending' : task.loc # bgTask.task.loc /\ task.loc \in Ids
      <3>1. \A i \in DOMAIN bgTasks : bgTasks[i].loc \in Ids
        BY TaskTypes
      <3>2. \A i \in DOMAIN bgTasks : bgTasks[i].loc # bgTask.task.loc
        BY <1>2, <2>1 DEF FileInv
      <3> QED  BY <1>4, <3>1, <3>2
    <2>7. \A l \in Ids : l # bgTask.task.loc => cache'[l] = cache[l]
      BY <1>1 DEF DynTypeOK
    <2>8. cache'[bgTask.task.loc] = None
      BY <1>1 DEF DynTypeOK
    <2>9. \A l \in Ids : cache'[l] # None => \E task \in Pending' : task.loc = l
      BY <1>4, <2>1, <2>7, <2>8 DEF FileInv
    <2>10. \A task \in Pending' : task.loc < curLoc' /\ cache'[task.loc] = task.tag
      BY <1>4, <2>1, <2>6, <2>7 DEF FileInv
    <2>11. \A i, j \in DOMAIN bgTasks' : bgTasks'[i].loc = bgTasks'[j].loc => i = j
      BY <2>1 DEF FileInv
    <2> QED  BY <1>2, <2>5, <2>9, <2>10, <2>11 DEF FileInv
  <1>6. QuietInv'
    BY <1>2 DEF QuietInv
  <1> QED  BY <1>3, <1>5, <1>6, LockFrame, MapFrame, LiveFrame, MergeFrame, HeldFrame, SearchFrame

-----------------------------------------------------------------------------
(* insert and lazy_delete. *)

LEMMA InsertKeeps == ASSUME NEW t \in Tags PROVE DynInv /\ Insert(t) => DynInv'
  <1> SUFFICES ASSUME DynInv, Insert(t) PROVE DynInv'
    OBVIOUS
  <1> USE DEF Insert, DynInv, mergeVars, lockVars
  <1>1. /\ curId \in Ids /\ curLoc = curId /\ curId' = curId + 1 /\ curLoc' = curId + 1
        /\ curId \in Nat /\ curId + 1 \in 0 .. NumTags
        /\ \A k \in Ids : k \in Nat
        /\ \A k \in 0 .. curId - 1 : k \in Ids /\ k # curId
    BY DynAssumption DEF DynTypeOK, Ids, Tags
  <1>2. [loc |-> curId, tag |-> t] \in Task
    BY <1>1 DEF Task
  <1>3. DynTypeOK'
    <2>1. bgTasks' \in Seq(Task)
      BY <1>1, <1>2 DEF DynTypeOK
    <2> QED  BY <1>1, <2>1 DEF DynTypeOK, delVars
  <1>4. /\ UNCHANGED <<OnlyFinal, Clean, merge, delVars, deleted>>
        /\ ~Installed /\ ~Installed' /\ Known = curId /\ Known' = curId + 1
    BY DEF OnlyFinal, Clean, Installed, Known
  <1>5. /\ \A k \in Ids : k # curId => /\ idTag'[k] = idTag[k] /\ idLoc'[k] = idLoc[k]
                                       /\ layout'[k] = layout[k] /\ cache'[k] = cache[k]
        /\ idTag'[curId] = t /\ idLoc'[curId] = curId
        /\ layout'[curId] = curId /\ cache'[curId] = t
    BY <1>1 DEF DynTypeOK
  <1>6. t # None /\ t \notin usedTags /\ t \notin deleted
    BY DynAssumption DEF Tags, DynTypeOK
  <1>7. ASSUME OnlyFinal PROVE Held' = Held \cup {t}
    <2>1. \A k : k \in 0 .. Known' - 1 <=> k \in 0 .. Known - 1 \/ k = curId
      BY <1>1, <1>4
    <2>2. \A k \in 0 .. Known - 1 : k \in Ids /\ k # curId
      BY <1>1, <1>4
    <2>3. \A k \in 0 .. Known - 1 : idTag'[k] = idTag[k]
      BY <2>2, <1>5
    <2>4. \A x : x \in Held' <=> \E k \in 0 .. Known' - 1 : x = idTag'[k]
      BY DEF Held
    <2>5. \A x : x \in Held <=> \E k \in 0 .. Known - 1 : x = idTag[k]
      BY DEF Held
    <2>6. ASSUME NEW x, x \in Held' PROVE x \in Held \cup {t}
      BY ONLY <1>5, <2>1, <2>3, <2>4, <2>5, <2>6
    <2>7. ASSUME NEW x, x \in Held \cup {t} PROVE x \in Held'
      BY ONLY <1>5, <2>1, <2>3, <2>4, <2>5, <2>7
    <2> QED  BY <2>6, <2>7
  <1>8. MapInv'
    <2> SUFFICES ASSUME OnlyFinal' PROVE MapInv'
      BY DEF MapInv
    <2>1. OnlyFinal
      BY <1>4
    <2>2. idLoc' = Identity(curId + 1) /\ layout' = Identity(curId + 1)
      <3>1. /\ idLoc' \in [Ids -> Ids \cup {None}] /\ layout' \in [Ids -> Ids \cup {None}]
            /\ idLoc = Identity(curId) /\ layout = Identity(curId)
        BY <1>3, <1>4, <2>1 DEF MapInv, DynTypeOK
      <3>2. \A k \in Ids : idLoc'[k] = Identity(curId + 1)[k] /\ layout'[k] = Identity(curId + 1)[k]
        BY <1>1, <1>5, <3>1 DEF Identity
      <3> QED  BY <3>1, <3>2 DEF Identity
    <2>3. \A id \in Ids : idTag'[id] # None <=> id < curId + 1
      BY <1>1, <1>4, <1>5, <1>6, <2>1 DEF MapInv
    <2>4. \A a \in 0 .. curId - 1 : a \in Ids /\ idTag[a] # t /\ idTag'[a] = idTag[a]
      <3>1. \A a \in 0 .. curId - 1 : a \in Ids /\ a # curId
        BY <1>1
      <3>2. \A a \in 0 .. curId - 1 : idTag[a] \in usedTags
        BY <1>4, <2>1 DEF MapInv, Held
      <3> QED  BY <1>5, <1>6, <3>1, <3>2
    <2>5. \A a, b \in 0 .. curId : idTag'[a] = idTag'[b] => a = b
      <3>1. \A a, b \in 0 .. curId - 1 : idTag[a] = idTag[b] => a = b
        BY <1>4, <2>1 DEF MapInv
      <3>2. \A a \in 0 .. curId : a \in 0 .. curId - 1 \/ a = curId
        BY <1>1
      <3> QED  BY <1>5, <2>4, <3>1, <3>2
    <2>6. 0 .. Known' - 1 = 0 .. curId
      BY <1>1, <1>4
    <2>7. /\ Held' \subseteq usedTags' /\ usedTags' \ deleted' \subseteq Held'
          /\ Held' \cap deleted' \subseteq deletionSets'[activeSet']
          /\ \A k \in {0, 1} : deletionSets'[k] \subseteq deleted'
      BY <1>4, <1>6, <1>7, <2>1 DEF MapInv, delVars
    <2> QED  BY <1>4, <2>2, <2>3, <2>5, <2>6, <2>7 DEF MapInv
  <1>9. FileInv'
    <2> SUFFICES ASSUME Clean' PROVE FileInv'
      BY DEF FileInv
    <2>1. Clean /\ OnlyFinal /\ UNCHANGED <<file, bgTask>>
      BY <1>4 DEF Clean
    <2>2. /\ \A i \in DOMAIN bgTasks' : bgTasks'[i] = IF i \in DOMAIN bgTasks THEN bgTasks[i]
                                                      ELSE [loc |-> curId, tag |-> t]
          /\ DOMAIN bgTasks' = DOMAIN bgTasks \cup {Len(bgTasks) + 1}
          /\ Len(bgTasks) + 1 \notin DOMAIN bgTasks
          /\ bgTasks'[Len(bgTasks) + 1] = [loc |-> curId, tag |-> t]
      BY <1>1, <1>2 DEF DynTypeOK
    <2>3. Pending' = Pending \cup {[loc |-> curId, tag |-> t]}
      <3>1. { bgTasks'[i] : i \in DOMAIN bgTasks' } =
               { bgTasks[i] : i \in DOMAIN bgTasks } \cup {[loc |-> curId, tag |-> t]}
        BY <2>2
      <3> QED  BY <2>1, <3>1 DEF Pending
    <2>4. \A task \in Pending : task.loc \in Ids /\ task.loc < curId
      <3>1. \A i \in DOMAIN bgTasks : bgTasks[i].loc \in Ids
        BY TaskTypes
      <3>2. bgTask # None => bgTask.task.loc \in Ids
        BY DEF DynTypeOK, Running, Task
      <3> QED  BY <1>1, <2>1, <3>1, <3>2 DEF FileInv, Pending
    <2>5. \A l \in 0 .. curLoc' - 1 : Seen(l)' = idTag'[l]
      <3>1. \A l \in 0 .. curLoc' - 1 : l = curId \/ (l \in 0 .. curLoc - 1 /\ l \in Ids /\ l # curId)
        BY <1>1
      <3>2. \A l \in 0 .. curLoc - 1 : Seen(l) = idTag[l]
        BY <1>4, <2>1 DEF FileInv
      <3> QED  BY <1>5, <1>6, <2>1, <3>1, <3>2 DEF Seen
    <2>6. \A l \in Ids : cache'[l] # None => \E task \in Pending' : task.loc = l
      BY <1>5, <2>1, <2>3 DEF FileInv
    <2>7. \A task \in Pending' : task.loc < curLoc' /\ cache'[task.loc] = task.tag
      <3>1. \A task \in Pending : task.loc < curLoc /\ cache[task.loc] = task.tag
        BY <2>1 DEF FileInv
      <3>2. \A task \in Pending : task.loc < curLoc' /\ cache'[task.loc] = task.tag
        <4> SUFFICES ASSUME NEW task \in Pending PROVE task.loc < curLoc' /\ cache'[task.loc] = task.tag
          OBVIOUS
        <4>1. task.loc \in Ids /\ task.loc \in Nat /\ task.loc < curId
          BY <1>1, <2>4
        <4>2. task.loc # curId /\ task.loc < curId + 1
          BY <1>1, <4>1
        <4> QED  BY <1>1, <1>5, <3>1, <4>1, <4>2
      <3> QED  BY <1>1, <1>5, <2>3, <3>2
    <2>8. \A i \in DOMAIN bgTasks : bgTasks[i] \in Pending
      BY DEF Pending
    <2>9. \A i, j \in DOMAIN bgTasks' : bgTasks'[i].loc = bgTasks'[j].loc => i = j
      <3>1. \A i, j \in DOMAIN bgTasks : bgTasks[i].loc = bgTasks[j].loc => i = j
        BY <2>1 DEF FileInv
      <3>2. \A i \in DOMAIN bgTasks : bgTasks'[i] = bgTasks[i] /\ bgTasks[i].loc # curId
        BY <1>1, <2>2, <2>4, <2>8
      <3> QED  BY <2>2, <3>1, <3>2
    <2>10. bgTask' # None =>
              /\ \A i \in DOMAIN bgTasks' : bgTasks'[i].loc # bgTask'.task.loc
              /\ bgTask'.written => file'[bgTask'.task.loc] = bgTask'.task.tag
      <3>1. bgTask # None => bgTask.task \in Pending
        BY DEF Pending
      <3>2. bgTask # None => bgTask.task.loc # curId
        BY <1>1, <2>4, <3>1
      <3> QED  BY <2>1, <2>2, <3>2 DEF FileInv
    <2> QED  BY <2>5, <2>6, <2>7, <2>9, <2>10 DEF FileInv
  <1>10. QuietInv'
    BY DEF QuietInv
  <1>11. MergeInv'
    BY <1>4 DEF MergeInv
  <1>12. SearchInv'
    <2>1. UNCHANGED <<search, delVars, deleted>>
      OBVIOUS
    <2>2. ASSUME NEW s \in Searchers, OnlyFinal PROVE Held' \cap search[s].past = Held \cap search[s].past
      BY <1>6, <1>7, <2>2 DEF SearchInv, Faithful
    <2>3. \A id : idLoc[id] # None => idLoc'[id] # None
      BY <1>1, <1>5, DynAssumption DEF DynTypeOK
    <2> QED  BY <1>4, <2>1, <2>2, <2>3 DEF SearchInv, Faithful, delVars
  <1> QED  BY <1>3, <1>8, <1>9, <1>10, <1>11, <1>12, LockFrame

LEMMA DeleteKeeps == ASSUME NEW t \in Tags PROVE DynInv /\ LazyDelete(t) => DynInv'
  <1> SUFFICES ASSUME DynInv, LazyDelete(t) PROVE DynInv'
    OBVIOUS
  <1> USE DEF LazyDelete, DynInv, idxVars, ioVars, mergeVars, lockVars
  <1>1. DynTypeOK'
    BY DEF DynTypeOK
  <1>2. /\ activeSet \in {0, 1} /\ activeSet' = activeSet
        /\ deletionSets'[activeSet] = deletionSets[activeSet] \cup {t}
        /\ deletionSets'[1 - activeSet] = deletionSets[1 - activeSet]
        /\ \A k \in {0, 1} : /\ deletionSets[k] \subseteq deletionSets'[k]
                             /\ deletionSets'[k] \subseteq deletionSets[k] \cup {t}
    BY DEF DynTypeOK
  <1>3. UNCHANGED <<OnlyFinal, Clean, Installed, Known, Held>>
    BY HeldFrame DEF OnlyFinal, Clean, Installed
  <1>4. MapInv'
    <2>1. ASSUME OnlyFinal
          PROVE  /\ Held' \subseteq usedTags' /\ usedTags' \ deleted' \subseteq Held'
                 /\ \A k \in {0, 1} : deletionSets'[k] \subseteq deleted'
                 /\ Held' \cap deleted' \subseteq
                       IF merge'.pc = "idle" \/ Installed' THEN deletionSets'[activeSet']
                       ELSE deletionSets'[0] \cup deletionSets'[1]
      BY <1>2, <1>3, <2>1 DEF MapInv
    <2>2. ASSUME OnlyFinal
          PROVE  /\ idLoc' = Identity(Known') /\ layout' = Identity(Known')
                 /\ \A id \in Ids : idTag'[id] # None <=> id < Known'
                 /\ \A a, b \in 0 .. Known' - 1 : idTag'[a] = idTag'[b] => a = b
      BY <1>3, <2>2 DEF MapInv
    <2> QED  BY <1>3, <2>1, <2>2 DEF MapInv
  <1>5. LiveLocs' = LiveLocs
    BY <1>2 DEF LiveLocs, id2tag
  <1>6. SearchInv'
    <2> SUFFICES ASSUME NEW s \in Searchers PROVE Faithful(s)'
      BY DEF SearchInv
    <2> QED  BY <1>2, <1>3 DEF SearchInv, Faithful
  <1> QED  BY <1>1, <1>4, <1>5, <1>6, LockFrame, FileFrame, QuietFrame, MergeFrame

-----------------------------------------------------------------------------
(* search. *)

(* A step of a search that neither reads nor stops reading. *)
LEMMA SearchLockFrame ==
    LockInv /\ UNCHANGED <<readers, writer, Reading, kindsDone, freed>> /\ (Installed' <=> Installed)
    => LockInv'
  BY DEF LockInv, OnlyFinal

(* A step of one search does not matter to the others. *)
LEMMA OtherFaithful ==
    ASSUME NEW t \in Searchers, SearchInv, search'[t] = search[t],
           UNCHANGED <<OnlyFinal, Clean, Held, delVars, deleted, idLoc>>
    PROVE  Faithful(t)'
  <1>1. Faithful(t)
    BY DEF SearchInv
  <1>2. /\ OnlyFinal' = OnlyFinal /\ Clean' = Clean /\ Held' = Held
        /\ deletionSets' = deletionSets /\ activeSet' = activeSet
        /\ deleted' = deleted /\ idLoc' = idLoc /\ search'[t] = search[t]
    BY DEF delVars
  <1> QED  BY ONLY <1>1, <1>2 DEF Faithful

LEMMA BeginKeeps == ASSUME NEW s \in Searchers PROVE DynInv /\ SearchBegin(s) => DynInv'
  <1> SUFFICES ASSUME DynInv, SearchBegin(s) PROVE DynInv'
    OBVIOUS
  <1> USE DEF SearchBegin, DynInv, idxVars, ioVars, mergeVars, lockVars, ghostVars
  <1> DEFINE new == SearchCall("begun", activeSet, deleted, merge.pc # "idle")
  <1>1. /\ new \in SearchType /\ new.pc = "begun" /\ new.delSet = activeSet /\ new.past = deleted
        /\ (~new.inMerge => merge.pc = "idle") /\ new.switches = 0 /\ new.misread = FALSE
        /\ new.found = {} /\ new.expanded = {}
    <2>1. activeSet \in {0, 1} /\ deleted \in SUBSET Tags
      BY DEF DynTypeOK
    <2>2. CASE merge.pc = "idle"
      <3>1. (merge.pc # "idle") = FALSE
        BY <2>2
      <3>2. new = SearchCall("begun", activeSet, deleted, FALSE)
        BY <3>1, Zenon
      <3> QED  BY <2>1, <2>2, <3>2 DEF SearchCall, SearchType
    <2>3. CASE merge.pc # "idle"
      <3>1. (merge.pc # "idle") = TRUE
        BY <2>3
      <3>2. new = SearchCall("begun", activeSet, deleted, TRUE)
        BY <3>1, Zenon
      <3> QED  BY <2>1, <2>3, <3>2 DEF SearchCall, SearchType
    <2> QED  BY <2>2, <2>3
  <1> HIDE DEF new
  <1>2. search' = [search EXCEPT ![s] = new]
    BY DEF new
  <1>3. /\ search' \in [Searchers -> SearchType] /\ search'[s] = new
        /\ \A t \in Searchers : t # s => search'[t] = search[t]
    BY <1>1, <1>2 DEF DynTypeOK
  <1>4. DynTypeOK'
    BY <1>3 DEF DynTypeOK, delVars
  <1>5. UNCHANGED <<OnlyFinal, Clean, Known, Held, delVars, deleted, idLoc, Installed>>
    BY HeldFrame DEF OnlyFinal, Clean, Installed
  <1>6. UNCHANGED Reading
    BY <1>1, <1>3 DEF Reading
  <1>7. \A t \in Searchers \ {s} : Faithful(t)'
    BY <1>3, <1>5 DEF SearchInv, Faithful, delVars
  <1>8. Faithful(s)'
    <2>1. OnlyFinal /\ merge.pc = "idle" => Held \cap deleted \subseteq deletionSets[activeSet]
      BY DEF MapInv
    <2> QED  BY <1>1, <1>3, <1>5, <2>1 DEF Faithful, delVars
  <1>9. SearchInv'
    BY <1>7, <1>8 DEF SearchInv
  <1> QED  BY <1>4, <1>5, <1>6, <1>9, SearchLockFrame, MapFrame, FileFrame, QuietFrame, LiveFrame,
              MergeFrame

LEMMA LockKeeps == ASSUME NEW s \in Searchers PROVE DynInv /\ SearchLock(s) => DynInv'
  <1> SUFFICES ASSUME DynInv, SearchLock(s) PROVE DynInv'
    OBVIOUS
  <1> USE DEF SearchLock, DynInv, idxVars, ioVars, mergeVars, ghostVars
  <1>1. /\ search'[s] = [search[s] EXCEPT !.pc = "reading"] /\ search'[s] \in SearchType
        /\ search' \in [Searchers -> SearchType]
        /\ \A t \in Searchers : t # s => search'[t] = search[t]
    <2>1. search[s] \in SearchType /\ search \in [Searchers -> SearchType]
      BY DEF DynTypeOK
    <2>2. [search[s] EXCEPT !.pc = "reading"] \in SearchType
      BY <2>1 DEF SearchType
    <2> QED  BY <2>1, <2>2
  <1>2. DynTypeOK'
    BY <1>1, DynAssumption DEF DynTypeOK, delVars
  <1>3. UNCHANGED <<OnlyFinal, Clean, Known, Held, delVars, deleted, idLoc, Installed>>
    BY HeldFrame DEF OnlyFinal, Clean, Installed
  <1>4. Reading' = Reading \cup {s} /\ s \notin Reading
    BY <1>1 DEF Reading, DynTypeOK, SearchType
  <1>5. Cardinality(Reading') = Cardinality(Reading) + 1
    BY <1>4, ReadingFinite, FS_AddElement
  <1>6. LockInv'
    BY <1>3, <1>5, ReadingFinite, DynAssumption DEF LockInv, DynTypeOK
  <1>7. \A t \in Searchers : Faithful(t)'
    <2>1. \A t \in Searchers \ {s} : Faithful(t)'
      BY <1>1, <1>3 DEF SearchInv, Faithful, delVars
    <2>2. OnlyFinal /\ BeamSearch => \A id \in search[s].expanded : idLoc[id] # None
      BY DEF SearchInv, Faithful
    <2> QED  BY <1>1, <1>3, <2>1, <2>2 DEF SearchInv, Faithful, delVars, DynTypeOK, SearchType
  <1> QED  BY <1>2, <1>6, <1>7, MapFrame, FileFrame, QuietFrame, LiveFrame, MergeFrame DEF SearchInv

(* While a search reads under merge_lock, no merge installs its maps. *)
LEMMA ReadingExcludes ==
    ASSUME DynInv, OnlyFinal, BeamSearch, NEW s \in Reading
    PROVE  ~writer /\ ~Installed /\ Cardinality(Reading) # 0
  <1>1. Cardinality(Reading) # 0
    BY ReadingFinite, FS_EmptySet
  <1>2. readers = Cardinality(Reading) /\ Cardinality(Reading) \in Nat
    BY ReadingFinite DEF DynInv, LockInv, DynTypeOK
  <1> QED  BY <1>1, <1>2 DEF DynInv, LockInv

(* The known ids are those below Known; their location is the id, and what  *)
(* they stand for is their tag.                                             *)
LEMMA KnownIds ==
    ASSUME DynInv, OnlyFinal, NEW id \in Ids, idLoc[id] # None
    PROVE  /\ id \in 0 .. Known - 1 /\ idLoc[id] = id
           /\ id2tag(id) = idTag[id] /\ id2tag(id) \in Held
  <1>1. id \in Nat /\ Known \in Nat
    BY DynAssumption DEF DynInv, DynTypeOK, Ids, Tags, Known
  <1>2. id < Known /\ idLoc[id] = id
    BY DEF DynInv, MapInv, Identity
  <1>3. idTag[id] # None
    BY <1>2 DEF DynInv, MapInv
  <1>4. id \in 0 .. Known - 1
    BY <1>1, <1>2
  <1> QED  BY <1>2, <1>3, <1>4 DEF id2tag, Held

LEMMA ExpandKeeps ==
    ASSUME NEW s \in Searchers, NEW id \in Ids PROVE DynInv /\ SearchExpand(s, id) => DynInv'
  <1> SUFFICES ASSUME DynInv, SearchExpand(s, id) PROVE DynInv'
    OBVIOUS
  <1> USE DEF SearchExpand, DynInv, idxVars, ioVars, mergeVars, lockVars, ghostVars
  <1> DEFINE bad == IF Seen(idLoc[id]) = id2tag(id) THEN search[s].misread ELSE TRUE
  <1>1. search[s] \in SearchType /\ search \in [Searchers -> SearchType]
    BY DEF DynTypeOK
  <1>2. /\ search'[s].pc = "reading" /\ search'[s].expanded = search[s].expanded \cup {id}
        /\ search'[s].found = search[s].found /\ search'[s].past = search[s].past
        /\ search'[s].inMerge = search[s].inMerge /\ search'[s].switches = search[s].switches
        /\ search'[s].delSet = search[s].delSet
        /\ search'[s].misread = bad
        /\ \A t \in Searchers : t # s => search'[t] = search[t]
    BY <1>1 DEF SearchType
  <1>3. search' \in [Searchers -> SearchType]
    <2>1. bad \in BOOLEAN
      BY <1>1 DEF SearchType
    <2>2. search' = [search EXCEPT ![s] = [search[s] EXCEPT !.expanded = search[s].expanded \cup {id},
                                                            !.misread = bad]]
      BY <1>1
    <2> HIDE DEF bad
    <2>3. [search[s] EXCEPT !.expanded = search[s].expanded \cup {id}, !.misread = bad] \in SearchType
      BY ONLY <1>1, <2>1, id \in Ids DEF SearchType
    <2> QED  BY <1>1, <2>2, <2>3
  <1> HIDE DEF bad
  <1>4. DynTypeOK'
    BY <1>3 DEF DynTypeOK, delVars
  <1>5. UNCHANGED <<OnlyFinal, Clean, Known, Held, delVars, deleted, idLoc, Installed>>
    BY HeldFrame DEF OnlyFinal, Clean, Installed
  <1>6. UNCHANGED Reading
    BY <1>2 DEF Reading
  <1>7. \A t \in Searchers \ {s} : Faithful(t)'
    BY <1>2, <1>5, OtherFaithful
  <1>8. Faithful(s)'
    <2>1. ASSUME Clean, BeamSearch PROVE ~bad
      <3>1. OnlyFinal /\ s \in Reading
        BY <2>1 DEF Clean, Reading
      <3>2. ~Installed
        BY <2>1, <3>1, ReadingExcludes
      <3>3. id \in 0 .. curId - 1 /\ idLoc[id] = id /\ id2tag(id) = idTag[id]
        BY <3>1, <3>2, KnownIds DEF Known
      <3>4. Seen(id) = idTag[id]
        BY <2>1, <3>2, <3>3 DEF FileInv, DynTypeOK
      <3>5. ~search[s].misread
        BY <2>1 DEF SearchInv, Faithful
      <3> QED  BY <3>3, <3>4, <3>5 DEF bad
    <2>2. Faithful(s)
      BY DEF SearchInv
    <2>3. /\ OnlyFinal' = OnlyFinal /\ Clean' = Clean /\ Held' = Held
          /\ deletionSets' = deletionSets /\ activeSet' = activeSet
          /\ deleted' = deleted /\ idLoc' = idLoc
          /\ search[s].pc = "reading" /\ idLoc[id] # None
      BY <1>5 DEF delVars
    <2> QED  BY ONLY <1>2, <2>1, <2>2, <2>3 DEF Faithful
  <1>9. SearchInv'
    BY <1>7, <1>8 DEF SearchInv
  <1> QED  BY <1>4, <1>5, <1>6, <1>9, SearchLockFrame, MapFrame, FileFrame, QuietFrame, LiveFrame,
              MergeFrame

LEMMA TagsKeeps == ASSUME NEW s \in Searchers PROVE DynInv /\ SearchTags(s) => DynInv'
  <1> SUFFICES ASSUME DynInv, SearchTags(s) PROVE DynInv'
    OBVIOUS
  <1> USE DEF SearchTags, DynInv, idxVars, ioVars, mergeVars, ghostVars
  <1> DEFINE found == { id2tag(id) : id \in search[s].expanded }
  <1>1. search[s] \in SearchType /\ search \in [Searchers -> SearchType]
    BY DEF DynTypeOK
  <1>2. search[s].expanded \subseteq Ids /\ found \in SUBSET Tags
    <2>1. search[s].expanded \subseteq Ids
      BY <1>1 DEF SearchType
    <2> QED  BY <2>1, TagType
  <1>3. /\ search'[s] = [search[s] EXCEPT !.pc = "found", !.found = found, !.expanded = {}]
        /\ \A t \in Searchers : t # s => search'[t] = search[t]
    BY <1>1
  <1> HIDE DEF found
  <1>4. search' \in [Searchers -> SearchType]
    BY <1>1, <1>2, <1>3 DEF SearchType
  <1>5. DynTypeOK'
    <2>1. readers \in Int
      BY DEF DynTypeOK
    <2>2. readers' = readers - 1 \/ readers' = readers
      BY Zenon
    <2>3. readers' \in Int
      BY ONLY <2>1, <2>2
    <2> QED  BY <1>4, <2>3 DEF DynTypeOK, delVars
  <1>6. UNCHANGED <<OnlyFinal, Clean, Known, Held, delVars, deleted, idLoc, Installed>>
    BY HeldFrame DEF OnlyFinal, Clean, Installed
  <1>7. s \in Reading /\ Reading' = Reading \ {s}
    BY <1>1, <1>3 DEF Reading, SearchType
  <1>8. Cardinality(Reading') = Cardinality(Reading) - 1
    BY <1>7, ReadingFinite, FS_RemoveElement
  <1>9. LockInv'
    <2>1. readers' = IF BeamSearch THEN readers - 1 ELSE readers
      BY Zenon
    <2>2. freed' = freed /\ writer' = writer
      OBVIOUS
    <2>3. freed \in Nat /\ readers \in Int /\ Cardinality(Reading) \in Nat
      BY ReadingFinite DEF DynTypeOK
    <2>4. /\ readers = (IF BeamSearch THEN Cardinality(Reading) ELSE 0) - freed
          /\ (writer <=> Installed) /\ (writer => readers <= 0)
          /\ freed = 0 <=> OnlyFinal
      BY DEF LockInv
    <2>5. readers' = (IF BeamSearch THEN Cardinality(Reading') ELSE 0) - freed' /\ readers' <= readers
      <3>1. CASE BeamSearch
        BY ONLY <1>8, <2>1, <2>2, <2>3, <2>4, <3>1
      <3>2. CASE ~BeamSearch
        BY ONLY <2>1, <2>2, <2>3, <2>4, <3>2
      <3> QED  BY <3>1, <3>2
    <2>6. writer => readers' <= 0
      <3> SUFFICES ASSUME writer PROVE readers' <= 0
        OBVIOUS
      <3>1. readers <= 0 /\ readers' \in Int
        BY <2>4, <1>5 DEF DynTypeOK
      <3> QED  BY ONLY <2>3, <2>5, <3>1
    <2>7. /\ (writer' <=> Installed') /\ (writer' => readers' <= 0)
          /\ freed' = 0 <=> OnlyFinal'
      BY ONLY <1>6, <2>2, <2>4, <2>6, Zenon
    <2> QED  BY <2>5, <2>7 DEF LockInv
  <1>10. \A t \in Searchers \ {s} : Faithful(t)'
    BY <1>3, <1>6, OtherFaithful
  <1>11. Faithful(s)'
    <2>1. OnlyFinal /\ BeamSearch => found \subseteq Held
      <3> SUFFICES ASSUME OnlyFinal, BeamSearch, NEW id \in search[s].expanded
                   PROVE  id2tag(id) \in Held
        BY DEF found
      <3>1. id \in Ids /\ idLoc[id] # None
        BY <1>2 DEF SearchInv, Faithful
      <3> QED  BY <3>1, KnownIds
    <2>2. Faithful(s)
      BY DEF SearchInv
    <2>3. /\ OnlyFinal' = OnlyFinal /\ Clean' = Clean /\ Held' = Held
          /\ deletionSets' = deletionSets /\ activeSet' = activeSet
          /\ deleted' = deleted /\ idLoc' = idLoc /\ search[s].pc = "reading"
      BY <1>6 DEF delVars
    <2>4. /\ search'[s].pc = "found" /\ search'[s].found = found /\ search'[s].expanded = {}
          /\ search'[s].past = search[s].past /\ search'[s].delSet = search[s].delSet
          /\ search'[s].inMerge = search[s].inMerge /\ search'[s].switches = search[s].switches
          /\ search'[s].misread = search[s].misread
      BY <1>1, <1>3 DEF SearchType
    <2> QED  BY ONLY <2>1, <2>2, <2>3, <2>4 DEF Faithful
  <1>12. SearchInv'
    BY <1>10, <1>11 DEF SearchInv
  <1> QED  BY <1>5, <1>9, <1>12, MapFrame, FileFrame, QuietFrame, LiveFrame, MergeFrame

LEMMA FilterKeeps == ASSUME NEW s \in Searchers PROVE DynInv /\ SearchFilter(s) => DynInv'
  <1> SUFFICES ASSUME DynInv, SearchFilter(s) PROVE DynInv'
    OBVIOUS
  <1> USE DEF SearchFilter, DynInv, idxVars, ioVars, mergeVars, lockVars, ghostVars
  <1>1. search[s] \in SearchType /\ search \in [Searchers -> SearchType]
    BY DEF DynTypeOK
  <1>2. /\ search'[s] = [search[s] EXCEPT !.pc = "done",
                            !.found = search[s].found \ deletionSets[search[s].delSet]]
        /\ \A t \in Searchers : t # s => search'[t] = search[t]
    BY <1>1
  <1>3. search' \in [Searchers -> SearchType]
    BY <1>1, <1>2 DEF SearchType
  <1>4. DynTypeOK'
    BY <1>3 DEF DynTypeOK, delVars
  <1>5. UNCHANGED <<OnlyFinal, Clean, Known, Held, delVars, deleted, idLoc, Installed>>
    BY HeldFrame DEF OnlyFinal, Clean, Installed
  <1>6. UNCHANGED Reading
    BY <1>1, <1>2 DEF Reading, SearchType
  <1>7. \A t \in Searchers \ {s} : Faithful(t)'
    BY <1>2, <1>5, OtherFaithful
  <1>8. Faithful(s)'
    BY <1>1, <1>2, <1>5 DEF SearchInv, Faithful, delVars, SearchType
  <1>9. SearchInv'
    BY <1>7, <1>8 DEF SearchInv
  <1> QED  BY <1>4, <1>5, <1>6, <1>9, SearchLockFrame, MapFrame, FileFrame, QuietFrame, LiveFrame,
              MergeFrame

-----------------------------------------------------------------------------
(* The steps of a merge that hand nothing on. *)

LEMMA BeginMergeKeeps == ASSUME NEW kind \in Kinds PROVE DynInv /\ MergeBegin(kind) => DynInv'
  <1> SUFFICES ASSUME DynInv, MergeBegin(kind) PROVE DynInv'
    OBVIOUS
  <1> USE DEF MergeBegin, DynInv, idxVars, ioVars, lockVars, ghostVars
  <1>1. /\ merge'.pc = "wait" /\ merge'.kind = kind
        /\ merge' \in MergeType
    <2>1. NoMerge \in MergeType /\ kind \in {"final", "stream", "graph"}
      BY NoMergeType, DynAssumption
    <2>2. merge' = [NoMerge EXCEPT !.pc = "wait", !.kind = kind]
      OBVIOUS
    <2> QED  BY ONLY <2>1, <2>2 DEF MergeType
  <1>2. /\ search' \in [Searchers -> SearchType]
        /\ \A s \in Searchers :
              /\ search'[s].pc = search[s].pc /\ search'[s].delSet = search[s].delSet
              /\ search'[s].expanded = search[s].expanded /\ search'[s].found = search[s].found
              /\ search'[s].misread = search[s].misread /\ search'[s].past = search[s].past
              /\ search'[s].inMerge = search[s].inMerge
              /\ search'[s].switches = IF search[s].switches < 2 THEN search[s].switches + 1
                                       ELSE search[s].switches
    <2>1. search \in [Searchers -> SearchType]
      BY DEF DynTypeOK
    <2>2. search' = [ s \in Searchers |->
                        [search[s] EXCEPT !.switches = IF @ < 2 THEN @ + 1 ELSE @] ]
      OBVIOUS
    <2> QED  BY ONLY <2>1, <2>2 DEF SearchType
  <1>3. /\ activeSet \in {0, 1} /\ activeSet' = 1 - activeSet /\ activeSet' \in {0, 1}
        /\ deletionSets' \in [{0, 1} -> SUBSET Tags]
        /\ deletionSets'[activeSet] = deletionSets[activeSet]
        /\ deletionSets'[1 - activeSet] = {}
    BY DEF DynTypeOK
  <1>4. DynTypeOK'
    BY <1>1, <1>2, <1>3 DEF DynTypeOK
  <1>5. /\ UNCHANGED <<OnlyFinal, Clean, Known, Held, deleted, idLoc>>
        /\ ~Installed /\ ~Installed'
    BY <1>1 DEF OnlyFinal, Clean, Installed, Known, Held
  <1>6. UNCHANGED Reading
    BY <1>2 DEF Reading
  <1>7. LockInv'
    BY <1>5, <1>6, SearchLockFrame
  <1>8. MapInv'
    <2>1. ASSUME OnlyFinal
          PROVE  /\ Held' \subseteq usedTags' /\ usedTags' \ deleted' \subseteq Held'
                 /\ \A k \in {0, 1} : deletionSets'[k] \subseteq deleted'
                 /\ Held' \cap deleted' \subseteq deletionSets'[0] \cup deletionSets'[1]
      BY <1>3, <1>5, <2>1 DEF MapInv
    <2>2. ASSUME OnlyFinal
          PROVE  /\ idLoc' = Identity(Known') /\ layout' = Identity(Known')
                 /\ \A id \in Ids : idTag'[id] # None <=> id < Known'
                 /\ \A a, b \in 0 .. Known' - 1 : idTag'[a] = idTag'[b] => a = b
      BY <1>5, <2>2 DEF MapInv
    <2> QED  BY <1>1, <1>5, <2>1, <2>2 DEF MapInv
  <1>9. FileInv'
    <2>1. UNCHANGED <<file, cache, curLoc, idTag, bgTasks, bgTask, Pending>>
      BY DEF Pending
    <2> QED  BY <1>5, <2>1 DEF FileInv, Seen
  <1>10. QuietInv' /\ MergeInv'
    BY <1>1, <1>5 DEF QuietInv, MergeInv
  <1>11. ASSUME NEW s \in Searchers PROVE Faithful(s)'
    <2>1. Faithful(s) /\ search[s] \in SearchType
      BY DEF SearchInv, DynTypeOK
    <2>2. /\ OnlyFinal' = OnlyFinal /\ Clean' = Clean /\ Held' = Held
          /\ deleted' = deleted /\ idLoc' = idLoc
      BY <1>5
    <2>3. \/ search'[s].switches = 2 \/ ~(search'[s].switches < 2)
          \/ search'[s].switches = 1 /\ search[s].switches = 0
      BY <1>2, <2>1 DEF SearchType
    <2>4. search'[s].switches = 1 /\ search[s].switches = 0 /\ search[s].pc # "idle" =>
             /\ search'[s].delSet = 1 - activeSet' /\ search[s].delSet = activeSet
             /\ deletionSets'[search'[s].delSet] = deletionSets[search[s].delSet]
      BY <1>2, <1>3, <2>1 DEF Faithful
    <2>5. search'[s].switches < 2 =>
             search'[s].switches = 1 /\ search[s].switches = 0 /\ search[s].switches < 2
      BY <2>3
    <2> QED  BY ONLY <1>2, <2>1, <2>2, <2>4, <2>5, s \in Searchers DEF Faithful
  <1> QED  BY <1>4, <1>7, <1>8, <1>9, <1>10, <1>11 DEF SearchInv

LEMMA WaitKeeps == DynInv /\ MergeWait => DynInv'
  <1> SUFFICES ASSUME DynInv, MergeWait PROVE DynInv'
    OBVIOUS
  <1> USE DEF MergeWait, DynInv, idxVars, lockVars, ghostVars
  <1>1. /\ merge \in MergeType /\ merge'.kind = merge.kind /\ merge' \in MergeType
        /\ merge'.pc = IF merge.kind = "graph" THEN "copy" ELSE "scan"
    <2>1. merge \in MergeType
      BY DEF DynTypeOK
    <2>2. merge' = [merge EXCEPT !.pc = IF merge.kind = "graph" THEN "copy" ELSE "scan"]
      OBVIOUS
    <2> QED  BY ONLY <2>1, <2>2 DEF MergeType
  <1>2. /\ \A l \in Ids : Seen(l)' = Seen(l)
        /\ file' \in [Ids -> Tags \cup {None}] /\ cache' \in [Ids -> Tags \cup {None}]
    <2>1. /\ file \in [Ids -> Tags \cup {None}] /\ cache \in [Ids -> Tags \cup {None}]
          /\ Identity(0) = [ l \in Ids |-> None ]
      BY DEF DynTypeOK, Identity, Ids, Tags
    <2>2. CASE merge.kind = "final"
      BY <2>1, <2>2 DEF Seen
    <2>3. CASE merge.kind # "final"
      BY <2>1, <2>3 DEF Seen
    <2> QED  BY <2>2, <2>3
  <1>3. DynTypeOK'
    BY <1>1, <1>2 DEF DynTypeOK, delVars
  <1>4. /\ UNCHANGED <<OnlyFinal, Clean, Known, Held, deleted, idLoc, delVars, Pending, search>>
        /\ ~Installed /\ ~Installed'
    BY <1>1 DEF OnlyFinal, Clean, Installed, Known, Held, Pending
  <1>5. LockInv'
    <2>1. UNCHANGED Reading
      BY DEF Reading
    <2> QED  BY <1>4, <2>1, SearchLockFrame
  <1>6. MapInv'
    BY <1>1, <1>4 DEF MapInv, delVars
  <1>7. FileInv'
    <2> SUFFICES ASSUME Clean' PROVE FileInv'
      BY DEF FileInv
    <2>1. Clean
      BY <1>4
    <2>2. \A l \in 0 .. curLoc - 1 : l \in Ids
      BY DynAssumption DEF DynTypeOK, Ids, Tags
    <2>3. \A l \in 0 .. curLoc' - 1 : Seen(l)' = idTag'[l]
      BY <1>2, <1>4, <2>1, <2>2 DEF FileInv
    <2>4. CASE merge.kind = "final"
      BY <1>4, <2>1, <2>3, <2>4 DEF FileInv
    <2>5. CASE merge.kind # "final"
      <3>1. Pending = {} /\ bgTasks' = << >> /\ bgTask' = None
        BY <2>5 DEF Pending
      <3>2. \A l \in Ids : cache'[l] = None
        BY <2>5 DEF Identity
      <3> QED  BY <1>4, <2>3, <3>1, <3>2 DEF FileInv
    <2> QED  BY <2>4, <2>5
  <1>8. QuietInv'
    BY <1>1 DEF QuietInv
  <1>9. MergeInv'
    BY <1>1, <1>4 DEF MergeInv
  <1> QED  BY <1>3, <1>4, <1>5, <1>6, <1>7, <1>8, <1>9, SearchFrame

(* The new places are ids. *)
LEMMA NewPlaces == DynTypeOK => 0 .. Cardinality(LiveLocs) - 1 \subseteq Ids
  <1> SUFFICES ASSUME DynTypeOK PROVE 0 .. Cardinality(LiveLocs) - 1 \subseteq Ids
    OBVIOUS
  <1>1. Cardinality(LiveLocs) \in Nat /\ Cardinality(LiveLocs) <= NumTags /\ NumTags \in Nat
    BY LiveCount, DynAssumption
  <1> QED  BY <1>1 DEF Ids, Tags

(* A step of a merge that touches neither the maps nor what the searches,   *)
(* the background thread and the locks use.                                 *)
LEMMA InnerStep ==
    ASSUME DynInv, DynTypeOK', UNCHANGED <<idxVars, file, cache, bgTasks, bgTask, delVars, lockVars,
                                           search, usedTags, deleted, kindsDone, freed>>,
           scannedEarly \subseteq scannedEarly',
           merge.pc \notin {"idle", "install", "reload"}, merge'.pc # "idle", ~Installed'
    PROVE  LockInv' /\ MapInv' /\ FileInv' /\ SearchInv'
  <1> USE DEF DynInv, idxVars, lockVars
  <1>1. /\ UNCHANGED <<OnlyFinal, Known, Held, deleted, idLoc, Pending, Reading, LiveLocs>>
        /\ ~Installed /\ (Clean' => Clean)
    BY DEF OnlyFinal, Clean, Installed, Known, Held, Pending, Reading, LiveLocs, id2tag, delVars
  <1>2. LockInv'
    BY <1>1, SearchLockFrame
  <1>3. MapInv'
    BY <1>1 DEF MapInv, delVars
  <1>4. FileInv'
    <2> SUFFICES ASSUME Clean' PROVE FileInv'
      BY DEF FileInv
    <2>1. Clean
      BY <1>1
    <2> QED  BY <1>1, <2>1 DEF FileInv, Seen
  <1>5. ASSUME NEW s \in Searchers PROVE Faithful(s)'
    <2>1. Faithful(s)
      BY DEF SearchInv
    <2>2. /\ OnlyFinal' = OnlyFinal /\ (Clean' => Clean) /\ Held' = Held
          /\ deletionSets' = deletionSets /\ activeSet' = activeSet
          /\ deleted' = deleted /\ idLoc' = idLoc /\ search' = search
      BY <1>1 DEF delVars
    <2> QED  BY ONLY <2>1, <2>2 DEF Faithful
  <1> QED  BY <1>2, <1>3, <1>4, <1>5 DEF SearchInv

LEMMA ScanKeeps == DynInv /\ MergeScan => DynInv'
  <1> SUFFICES ASSUME DynInv, MergeScan PROVE DynInv'
    OBVIOUS
  <1> USE DEF MergeScan, DynInv, ioVars, ghostVars
  <1>1. PICK pos \in [LiveLocs -> 0 .. Cardinality(LiveLocs) - 1] :
          /\ \A l, m \in LiveLocs : pos[l] = pos[m] => l = m
          /\ merge' = [merge EXCEPT !.pc = "write", !.posOf = pos]
    OBVIOUS
  <1>2. /\ merge'.pc = "write" /\ merge'.posOf = pos /\ merge'.kind = merge.kind
        /\ merge' \in MergeType
    <2>1. merge \in MergeType
      BY DEF DynTypeOK
    <2>2. pos \in UNION { [S -> Ids] : S \in SUBSET Ids }
      <3>1. pos \in [LiveLocs -> Ids] /\ LiveLocs \in SUBSET Ids
        BY NewPlaces, LiveSubset
      <3> QED  BY <3>1
    <2> QED  BY ONLY <1>1, <2>1, <2>2 DEF MergeType
  <1>3. DynTypeOK'
    BY <1>2 DEF DynTypeOK, delVars, idxVars, lockVars
  <1>4. LiveLocs' = LiveLocs
    BY LiveFrame DEF idxVars
  <1>5. LockInv' /\ MapInv' /\ FileInv' /\ SearchInv'
    BY <1>2, <1>3, InnerStep DEF Installed
  <1>6. QuietInv'
    BY <1>2 DEF QuietInv
  <1>7. MergeInv'
    BY <1>1, <1>2, <1>4 DEF MergeInv, Placed, Installed
  <1> QED  BY <1>3, <1>5, <1>6, <1>7

LEMMA CopyKeeps == DynInv /\ MergeCopy => DynInv'
  <1> SUFFICES ASSUME DynInv, MergeCopy PROVE DynInv'
    OBVIOUS
  <1> USE DEF MergeCopy, DynInv
  <1>1. merge.kind = "graph"
    BY DEF MergeInv
  <1>2. merge'.pc = "reload" /\ merge'.kind = "graph" /\ merge' \in MergeType
    <2>1. merge \in MergeType
      BY DEF DynTypeOK
    <2>2. merge' = [merge EXCEPT !.pc = "reload"]
      OBVIOUS
    <2> QED  BY ONLY <1>1, <2>1, <2>2 DEF MergeType
  <1>3. DynTypeOK'
    BY <1>2 DEF DynTypeOK, delVars, idxVars, lockVars
  <1>4. bgTask = None /\ scannedEarly' = scannedEarly
    BY <1>1 DEF QuietInv
  <1>5. LockInv' /\ MapInv' /\ FileInv' /\ SearchInv'
    BY <1>2, <1>3, <1>4, InnerStep DEF Installed
  <1>6. QuietInv'
    BY <1>1, <1>2, <1>4 DEF QuietInv
  <1>7. MergeInv'
    BY <1>2 DEF MergeInv, Installed
  <1> QED  BY <1>3, <1>5, <1>6, <1>7

LEMMA WriteOutKeeps == DynInv /\ MergeWrite => DynInv'
  <1> SUFFICES ASSUME DynInv, MergeWrite PROVE DynInv'
    OBVIOUS
  <1> USE DEF MergeWrite, DynInv
  <1> DEFINE n == Cardinality(LiveLocs)
             pos == merge.posOf
             old(k) == CHOOSE l \in LiveLocs : pos[l] = k
             tags == [ k \in 0 .. n - 1 |-> id2tag(layout[old(k)]) ]
  <1>1. /\ pos \in [LiveLocs -> 0 .. n - 1] /\ DOMAIN pos = LiveLocs
        /\ \A l, m \in LiveLocs : pos[l] = pos[m] => l = m
        /\ merge.kind # "graph"
    BY DEF MergeInv, Placed
  <1>2. /\ outFile' = [ k \in Ids |-> IF k < n THEN file[old(k)] ELSE None ]
        /\ merge' = [merge EXCEPT !.pc = IF merge.kind = "final" THEN "install" ELSE "reload",
                                  !.newTags = tags]
    BY <1>1
  <1>3. n \in Nat /\ IsFiniteSet(LiveLocs) /\ n <= NumTags /\ LiveLocs \subseteq Ids
    BY LiveCount, LiveSubset
  <1>4. \A k \in 0 .. n - 1 : old(k) \in LiveLocs /\ pos[old(k)] = k
    <2>1. \A k \in 0 .. n - 1 : \E l \in LiveLocs : pos[l] = k
      BY <1>1, <1>3, PlacesUsed
    <2> QED  BY <2>1
  <1>5. \A l \in LiveLocs : old(pos[l]) = l /\ pos[l] \in 0 .. n - 1
    BY <1>1, <1>4
  <1>6. \A l \in LiveLocs : layout[l] \in Ids /\ id2tag(layout[l]) \in Tags
    BY <1>3, TagType DEF LiveLocs, DynTypeOK
  <1>7. 0 .. n - 1 \subseteq Ids
    BY NewPlaces
  <1>8. tags \in [0 .. n - 1 -> Tags]
    BY <1>4, <1>6
  <1>9. outFile' \in [Ids -> Tags \cup {None}]
    <2>1. \A k \in Ids : k < n => k \in 0 .. n - 1
      BY <1>3, DynAssumption DEF Ids, Tags
    <2>2. \A k \in Ids : k < n => file[old(k)] \in Tags \cup {None}
      BY <1>3, <1>4, <2>1 DEF DynTypeOK
    <2> QED  BY <1>2, <2>2
  <1> HIDE DEF n, pos, old, tags
  <1>10. /\ merge' \in MergeType /\ merge'.kind = merge.kind /\ merge'.newTags = tags
         /\ merge'.pc = IF merge.kind = "final" THEN "install" ELSE "reload"
    <2>1. merge \in MergeType
      BY DEF DynTypeOK
    <2>2. tags \in UNION { [S -> Tags] : S \in SUBSET Ids }
      BY <1>7, <1>8
    <2> QED  BY ONLY <1>2, <2>1, <2>2 DEF MergeType
  <1>11. scannedEarly' \in {scannedEarly, scannedEarly \cup {merge.kind}}
    OBVIOUS
  <1>12. DynTypeOK'
    BY <1>9, <1>10 DEF DynTypeOK, delVars, idxVars, lockVars
  <1>13. LockInv' /\ MapInv' /\ FileInv' /\ SearchInv'
    BY <1>10, <1>11, <1>12, InnerStep DEF Installed
  <1>14. QuietInv'
    BY <1>10 DEF QuietInv
  <1>15. LiveLocs' = LiveLocs /\ Cardinality(LiveLocs)' = n
    BY LiveFrame DEF idxVars, n
  <1>16. ASSUME merge.kind = "final" PROVE Renamed'
    <2>1. ASSUME OnlyFinal
          PROVE  /\ \A l \in LiveLocs : l < curId /\ layout[l] = l /\ id2tag(layout[l]) = idTag[l]
                 /\ \A l, m \in LiveLocs : idTag[l] = idTag[m] => l = m
      <3>1. ~Installed /\ Known = curId
        BY DEF Installed, Known
      <3>2. \A l \in LiveLocs : l \in Ids /\ l \in 0 .. curId - 1 /\ layout[l] # None
        BY LiveSubset DEF LiveLocs, DynTypeOK
      <3>3. \A l \in LiveLocs : l < curId /\ layout[l] = l
        BY <2>1, <3>1, <3>2 DEF MapInv, Identity
      <3>4. \A l \in LiveLocs : idTag[l] # None
        BY <2>1, <3>1, <3>2, <3>3 DEF MapInv
      <3>5. \A l, m \in 0 .. curId - 1 : idTag[l] = idTag[m] => l = m
        BY <2>1, <3>1 DEF MapInv
      <3> QED  BY <3>2, <3>3, <3>4, <3>5 DEF id2tag
    <2>2. ASSUME OnlyFinal
          PROVE  /\ \A k \in 0 .. n - 1 : tags[k] = idTag[old(k)]
                 /\ \A a, b \in 0 .. n - 1 : tags[a] = tags[b] => a = b
                 /\ \A k \in 0 .. n - 1 : \E l \in LiveLocs : tags[k] = idTag[l]
                 /\ \A l \in LiveLocs : \E k \in 0 .. n - 1 : tags[k] = idTag[l]
      <3>1. \A k \in 0 .. n - 1 : tags[k] = idTag[old(k)]
        BY <1>4, <2>1, <2>2 DEF tags
      <3>2. \A a, b \in 0 .. n - 1 : tags[a] = tags[b] => a = b
        BY <1>4, <2>1, <2>2, <3>1
      <3> QED  BY <1>4, <1>5, <3>1, <3>2
    <2>3. ASSUME Clean' PROVE \A k \in 0 .. n - 1 : outFile'[k] = tags[k]
      <3>1. Clean /\ OnlyFinal /\ bgTask = None /\ bgTasks = << >>
        BY <2>3 DEF Clean, OnlyFinal, QuietInv
      <3>2. \A l \in Ids : cache[l] = None
        BY <3>1 DEF FileInv, Pending
      <3>3. \A l \in LiveLocs : l \in 0 .. curLoc - 1 /\ l \in Ids
        BY LiveSubset
      <3>4. \A l \in LiveLocs : file[l] = idTag[l]
        BY <3>1, <3>2, <3>3 DEF FileInv, Installed, Seen
      <3>5. \A k \in 0 .. n - 1 : k \in Ids /\ k < n
        BY <1>3, <1>7
      <3>6. \A k \in 0 .. n - 1 : tags[k] = idTag[old(k)]
        BY <2>2, <3>1
      <3> QED  BY ONLY <1>2, <1>4, <3>4, <3>5, <3>6
    <2>4. OnlyFinal' = OnlyFinal
      BY DEF OnlyFinal
    <2>5. idTag' = idTag /\ merge'.newTags = tags
      BY <1>10 DEF idxVars
    <2> QED  BY ONLY <1>8, <1>15, <2>2, <2>3, <2>4, <2>5 DEF Renamed
  <1>17. MergeInv'
    BY <1>10, <1>16 DEF MergeInv, Installed
  <1> QED  BY <1>12, <1>13, <1>14, <1>17

-----------------------------------------------------------------------------
(* The new maps and the new file. *)

LEMMA InstallKeeps == DynInv /\ MergeInstall => DynInv'
  <1> SUFFICES ASSUME DynInv, MergeInstall PROVE DynInv'
    OBVIOUS
  <1> USE DEF MergeInstall, DynInv
  <1> DEFINE n == Cardinality(LiveLocs)
             tags == merge.newTags
  <1>1. /\ merge.kind = "final" /\ Renamed /\ tags \in [0 .. n - 1 -> Tags]
        /\ DOMAIN tags = 0 .. n - 1
    BY DEF MergeInv, Renamed
  <1>2. n \in Nat /\ n <= NumTags /\ 0 .. n - 1 \subseteq Ids /\ Cardinality(DOMAIN tags) = n
    <2>1. n \in Nat /\ n <= NumTags /\ 0 .. n - 1 \subseteq Ids
      BY LiveCount, NewPlaces
    <2> HIDE DEF n
    <2>2. Cardinality(0 .. n - 1) = n
      BY <2>1, FS_Interval
    <2> QED  BY <1>1, <2>1, <2>2
  <1>3. /\ numPoints' = n
        /\ idTag' = [ k \in Ids |-> IF k < n THEN tags[k] ELSE None ]
        /\ idLoc' = Identity(n) /\ layout' = Identity(n)
    BY <1>2
  <1> HIDE DEF n, tags
  <1>4. /\ merge'.pc = "reload" /\ merge'.kind = "final" /\ merge' \in MergeType
    <2>1. merge \in MergeType
      BY DEF DynTypeOK
    <2>2. merge' = [merge EXCEPT !.pc = "reload"]
      OBVIOUS
    <2> QED  BY ONLY <1>1, <2>1, <2>2 DEF MergeType
  <1>5. /\ \A k \in Ids : k < n => k \in 0 .. n - 1
        /\ \A k \in 0 .. n - 1 : k \in Ids /\ k < n /\ idTag'[k] = tags[k] /\ idTag'[k] \in Tags
    BY <1>1, <1>2, <1>3, DynAssumption DEF Ids, Tags
  <1>6. DynTypeOK'
    <2>1. idTag' \in [Ids -> Tags \cup {None}]
      BY <1>1, <1>3, <1>5
    <2>2. numPoints' \in 0 .. NumTags
      BY <1>2, <1>3, DynAssumption
    <2> QED  BY <1>3, <1>4, <2>1, <2>2, IdentityType DEF DynTypeOK, delVars, ioVars, ghostVars
  <1>7. /\ UNCHANGED <<OnlyFinal, Clean, delVars, deleted, usedTags, Reading>>
        /\ Installed' /\ ~Installed /\ Known' = n /\ Known = curId /\ curLoc = curId
    BY <1>3, <1>4 DEF OnlyFinal, Clean, Installed, Known, Reading, ghostVars, DynTypeOK
  <1>8. LockInv'
    <2>1. readers' = readers /\ writer' = TRUE /\ readers = 0 /\ freed' = freed
      BY DEF ghostVars
    <2> QED  BY <1>7, <2>1 DEF LockInv
  <1>9. ASSUME OnlyFinal
        PROVE  /\ \A x : x \in Held' <=> x \in Held /\ x \notin deletionSets[1 - activeSet]
               /\ \A a, b \in 0 .. n - 1 : idTag'[a] = idTag'[b] => a = b
    <2>1. \A l : l \in LiveLocs <=> l \in 0 .. curId - 1 /\ idTag[l] \notin deletionSets[1 - activeSet]
      <3>1. \A l \in 0 .. curId - 1 : l \in Ids /\ l < curId
        BY DynAssumption DEF DynTypeOK, Ids, Tags
      <3>2. \A l \in 0 .. curId - 1 : layout[l] = l
        BY <1>7, <1>9, <3>1 DEF MapInv, Identity
      <3>3. \A l \in 0 .. curId - 1 : layout[l] # None /\ id2tag(layout[l]) = idTag[l]
        BY <1>7, <1>9, <3>1, <3>2, DynAssumption DEF MapInv, id2tag, Ids, Tags
      <3> QED  BY <1>7, <3>3 DEF LiveLocs
    <2>2. \A x : x \in Held <=> \E l \in 0 .. curId - 1 : x = idTag[l]
      BY <1>7 DEF Held
    <2>3. \A x : x \in Held' <=> \E k \in 0 .. n - 1 : x = idTag'[k]
      BY <1>7 DEF Held
    <2>4. /\ \A a, b \in 0 .. n - 1 : tags[a] = tags[b] => a = b
          /\ \A k \in 0 .. n - 1 : \E l \in LiveLocs : tags[k] = idTag[l]
          /\ \A l \in LiveLocs : \E k \in 0 .. n - 1 : tags[k] = idTag[l]
      BY <1>1, <1>9 DEF Renamed, n, tags
    <2> QED  BY ONLY <1>5, <2>1, <2>2, <2>3, <2>4
  <1>10. MapInv'
    <2> SUFFICES ASSUME OnlyFinal' PROVE MapInv'
      BY DEF MapInv
    <2>1. OnlyFinal
      BY <1>7
    <2>2. \A id \in Ids : idTag'[id] # None <=> id < n
      BY <1>3, <1>5, DynAssumption DEF Tags
    <2>3. /\ Held' \subseteq usedTags' /\ usedTags' \ deleted' \subseteq Held'
          /\ \A k \in {0, 1} : deletionSets'[k] \subseteq deleted'
          /\ Held' \cap deleted' \subseteq deletionSets'[activeSet']
      <3>1. /\ Held \subseteq usedTags /\ usedTags \ deleted \subseteq Held
            /\ \A k \in {0, 1} : deletionSets[k] \subseteq deleted
            /\ Held \cap deleted \subseteq deletionSets[0] \cup deletionSets[1]
        BY <1>7, <2>1 DEF MapInv
      <3>2. activeSet \in {0, 1} /\ deletionSets' = deletionSets /\ activeSet' = activeSet
        BY <1>7 DEF DynTypeOK, delVars
      <3>3. \A x : x \in Held' <=> x \in Held /\ x \notin deletionSets[1 - activeSet]
        BY <1>9, <2>1
      <3>4. deleted' = deleted /\ usedTags' = usedTags
        BY <1>7
      <3> QED  BY ONLY <3>1, <3>2, <3>3, <3>4
    <2> QED  BY <1>3, <1>7, <1>9, <2>1, <2>2, <2>3 DEF MapInv
  <1>11. FileInv'
    <2>1. UNCHANGED <<file, cache, curLoc, bgTasks, bgTask, Pending>>
      BY DEF Pending, ioVars
    <2> QED  BY <1>7, <2>1 DEF FileInv
  <1>12. QuietInv'
    BY <1>4 DEF QuietInv, ioVars, ghostVars
  <1>13. MergeInv'
    <2>1. ASSUME Clean PROVE \A k \in 0 .. n - 1 : outFile[k] = tags[k]
      BY <1>1, <2>1 DEF Renamed, n, tags
    <2>2. outFile' = outFile
      BY DEF ioVars
    <2> QED  BY <1>3, <1>4, <1>5, <1>7, <2>1, <2>2 DEF MergeInv
  <1>14. ASSUME NEW s \in Searchers PROVE Faithful(s)'
    <2>1. Faithful(s) /\ search' = search
      BY DEF SearchInv
    <2>2. ASSUME OnlyFinal, BeamSearch PROVE search[s].expanded = {}
      <3>1. Reading = {}
        BY <2>2, ReadingFinite, FS_EmptySet DEF LockInv
      <3>2. search[s].pc # "reading"
        BY <3>1 DEF Reading
      <3> QED  BY <2>1, <3>2 DEF Faithful
    <2>3. OnlyFinal => Held' \subseteq Held
      BY <1>9
    <2>4. /\ OnlyFinal' = OnlyFinal /\ Clean' = Clean /\ deleted' = deleted
          /\ deletionSets' = deletionSets /\ activeSet' = activeSet
      BY <1>7 DEF delVars
    <2> QED  BY ONLY <2>1, <2>2, <2>3, <2>4 DEF Faithful
  <1> QED  BY <1>6, <1>8, <1>10, <1>11, <1>12, <1>13, <1>14 DEF SearchInv

LEMMA ReloadKeeps == DynInv /\ Reload => DynInv'
  <1> SUFFICES ASSUME DynInv, Reload PROVE DynInv'
    OBVIOUS
  <1> USE DEF Reload, DynInv
  <1>1. merge' = NoMerge /\ merge'.pc = "idle" /\ merge' \in MergeType
    BY NoMergeType DEF NoMerge
  <1>2. outFile' \in [Ids -> Tags \cup {None}] /\ file' \in [Ids -> Tags \cup {None}]
    <2>1. outFile' = [ l \in Ids |-> None ]
      BY DEF Identity, Ids, Tags
    <2> QED  BY <2>1 DEF DynTypeOK
  <1>3. readers' \in Int /\ writer' \in BOOLEAN /\ freed' \in Nat
    <2>1. readers \in Int /\ writer \in BOOLEAN /\ freed \in Nat
      BY DEF DynTypeOK
    <2>2. CASE writer
      BY <2>1, <2>2
    <2>3. CASE ~writer
      BY <2>1, <2>3
    <2> QED  BY <2>2, <2>3
  <1>4. DynTypeOK'
    BY <1>1, <1>2, <1>3 DEF DynTypeOK, delVars
  <1>5. ASSUME OnlyFinal'
        PROVE  /\ OnlyFinal /\ (Clean' <=> Clean) /\ Installed /\ ~Installed'
               /\ Known' = Known /\ Held' = Held /\ Known = numPoints
    <2>1. OnlyFinal /\ merge.kind = "final"
      BY <1>5 DEF OnlyFinal
    <2>2. Installed /\ ~Installed' /\ (Clean' <=> Clean)
      BY <1>1, <1>5, <2>1 DEF Installed, Clean
    <2>3. Known' = numPoints /\ Known = numPoints
      BY <2>2 DEF Known
    <2> QED  BY <2>1, <2>2, <2>3 DEF Held
  <1>6. LockInv'
    <2>1. Reading' = Reading /\ ~Installed' /\ (writer <=> Installed)
      BY <1>1 DEF Reading, Installed, LockInv
    <2>2. freed \in Nat /\ readers \in Int /\ Cardinality(Reading) \in Nat
      BY ReadingFinite DEF DynTypeOK
    <2>3. CASE merge.kind = "final"
      <3>1. Installed /\ (OnlyFinal' <=> OnlyFinal)
        BY <2>3 DEF Installed, OnlyFinal
      <3>2. writer /\ readers' = readers /\ ~writer' /\ freed' = freed
        BY <2>1, <3>1
      <3> QED  BY <2>1, <3>1, <3>2 DEF LockInv
    <2>4. CASE merge.kind # "final"
      <3>1. ~Installed /\ ~OnlyFinal'
        BY <2>4 DEF Installed, OnlyFinal
      <3>2. ~writer /\ readers' = readers - 1 /\ ~writer' /\ freed' = freed + 1
        BY <2>1, <3>1
      <3> QED  BY <2>1, <2>2, <3>1, <3>2 DEF LockInv
    <2> QED  BY <2>3, <2>4
  <1>7. MapInv'
    <2> SUFFICES ASSUME OnlyFinal' PROVE MapInv'
      BY DEF MapInv
    <2>1. /\ OnlyFinal /\ Installed /\ Known' = Known /\ Held' = Held
      BY <1>5
    <2> QED  BY <1>1, <2>1 DEF MapInv, delVars
  <1>8. FileInv'
    <2> SUFFICES ASSUME Clean' PROVE FileInv'
      BY DEF FileInv
    <2>1. OnlyFinal' /\ Clean /\ Installed /\ Known = numPoints
      BY <1>5 DEF Clean
    <2>2. bgTask = None /\ bgTasks = << >>
      BY <2>1 DEF QuietInv, Installed, Clean
    <2>3. Pending = {} /\ Pending' = {}
      BY <2>2 DEF Pending
    <2>4. \A l \in Ids : cache[l] = None
      BY <2>1, <2>3 DEF FileInv
    <2>5. \A l \in 0 .. numPoints - 1 : l \in Ids /\ outFile[l] = idTag[l]
      BY <2>1, DynAssumption DEF MergeInv, DynTypeOK, Ids, Tags
    <2>6. \A l \in 0 .. curLoc' - 1 : Seen(l)' = idTag'[l]
      BY <2>4, <2>5 DEF Seen
    <2> QED  BY <2>2, <2>3, <2>4, <2>6 DEF FileInv
  <1>9. QuietInv' /\ MergeInv'
    BY <1>1 DEF QuietInv, MergeInv, Installed
  <1>10. ASSUME NEW s \in Searchers PROVE Faithful(s)'
    <2>1. Faithful(s) /\ search' = search
      BY DEF SearchInv
    <2>2. /\ OnlyFinal' => OnlyFinal /\ Held' = Held
          /\ Clean' => Clean
      BY <1>5 DEF Clean
    <2>3. /\ deletionSets' = deletionSets /\ activeSet' = activeSet
          /\ deleted' = deleted /\ idLoc' = idLoc
      BY DEF delVars
    <2> QED  BY ONLY <2>1, <2>2, <2>3 DEF Faithful
  <1> QED  BY <1>4, <1>6, <1>7, <1>8, <1>9, <1>10 DEF SearchInv

-----------------------------------------------------------------------------
(* The invariant. *)

LEMMA Start == DynInit => DynInv
  <1> SUFFICES ASSUME DynInit PROVE DynInv
    OBVIOUS
  <1> USE DEF DynInit
  <1>1. NumPoints \in Nat \ {0} /\ NumTags \in Nat /\ NumPoints <= NumTags
    BY DynAssumption
  <1>2. /\ \A k \in Ids : k \in Nat
        /\ \A k \in 0 .. NumPoints - 1 : k \in Ids /\ k < NumPoints
        /\ \A k \in Ids : Identity(0)[k] = None
        /\ \A k \in Ids : Identity(NumPoints)[k] = IF k < NumPoints THEN k ELSE None
    BY <1>1 DEF Ids, Tags, Identity
  <1>3. merge.pc = "idle" /\ merge.kind = "final" /\ ~Installed /\ Known = NumPoints
    BY DEF NoMerge, Installed, Known
  <1>4. \A s \in Searchers : search[s] = NoSearch
    OBVIOUS
  <1>5. DynTypeOK
    <2>1. search \in [Searchers -> SearchType] /\ merge \in MergeType
      BY NoSearchType, NoMergeType
    <2>2. << >> \in Seq(Task)
      OBVIOUS
    <2>3. /\ Identity(0) \in [Ids -> Ids \cup {None}] /\ Identity(NumPoints) \in [Ids -> Ids \cup {None}]
          /\ Ids = Tags
      BY IdentityType DEF Ids
    <2>4. NumPoints \in 0 .. NumTags /\ 0 .. NumPoints - 1 \subseteq Tags
      BY <1>1 DEF Tags
    <2>5. deletionSets \in [{0, 1} -> SUBSET Tags] /\ activeSet \in {0, 1}
      OBVIOUS
    <2>6. /\ idTag \in [Ids -> Tags \cup {None}] /\ file \in [Ids -> Tags \cup {None}]
          /\ outFile \in [Ids -> Tags \cup {None}] /\ cache \in [Ids -> Tags \cup {None}]
          /\ idLoc \in [Ids -> Ids \cup {None}] /\ layout \in [Ids -> Ids \cup {None}]
      BY <2>3
    <2>7. /\ numPoints \in 0 .. NumTags /\ curId \in 0 .. NumTags /\ curLoc = curId
          /\ bgTasks \in Seq(Task) /\ bgTask = None /\ usedTags \subseteq Tags /\ deleted = {}
          /\ writer = FALSE /\ readers \in Int /\ freed \in Nat
      BY <2>2, <2>4
    <2> QED  BY ONLY <2>1, <2>5, <2>6, <2>7 DEF DynTypeOK
  <1>6. Reading = {} /\ Cardinality(Reading) = 0
    <2>1. Reading = {}
      BY <1>4 DEF Reading, NoSearch, SearchCall
    <2> QED  BY <2>1, FS_EmptySet
  <1>7. LockInv
    BY <1>3, <1>6 DEF LockInv, OnlyFinal
  <1>8. Held = 0 .. NumPoints - 1
    BY <1>2, <1>3 DEF Held
  <1>9. MapInv
    BY <1>1, <1>2, <1>3, <1>8, DynAssumption DEF MapInv
  <1>10. FileInv
    <2>1. Pending = {}
      BY DEF Pending
    <2> QED  BY <1>2, <2>1 DEF FileInv, Seen
  <1>11. QuietInv /\ MergeInv
    BY <1>3 DEF QuietInv, MergeInv
  <1>12. SearchInv
    BY <1>4 DEF SearchInv, Faithful, NoSearch, SearchCall
  <1> QED  BY <1>5, <1>7, <1>9, <1>10, <1>11, <1>12 DEF DynInv

LEMMA StutterKeeps == DynInv /\ UNCHANGED dynVars => DynInv'
  <1> SUFFICES ASSUME DynInv, UNCHANGED dynVars PROVE DynInv'
    OBVIOUS
  <1> USE DEF DynInv, dynVars, idxVars, ioVars, mergeVars, lockVars, ghostVars
  <1>1. DynTypeOK'
    BY DEF DynTypeOK, delVars
  <1> QED  BY <1>1, LockFrame, MapFrame, FileFrame, QuietFrame, LiveFrame, MergeFrame, HeldFrame,
              SearchFrame

LEMMA Step == DynInv /\ [DynNext]_dynVars => DynInv'
  <1> SUFFICES ASSUME DynInv, [DynNext]_dynVars PROVE DynInv'
    OBVIOUS
  <1>1. ASSUME NEW t \in Tags, Insert(t) \/ LazyDelete(t) PROVE DynInv'
    BY <1>1, InsertKeeps, DeleteKeeps
  <1>2. CASE BgPop \/ BgWrite \/ BgFinish
    BY <1>2, PopKeeps, WriteKeeps, FinishKeeps
  <1>3. ASSUME NEW s \in Searchers, Search(s) PROVE DynInv'
    BY <1>3, BeginKeeps, LockKeeps, ExpandKeeps, TagsKeeps, FilterKeeps DEF Search
  <1>4. CASE Merge
    BY <1>4, BeginMergeKeeps, WaitKeeps, ScanKeeps, WriteOutKeeps, CopyKeeps, InstallKeeps,
       ReloadKeeps DEF Merge
  <1>5. CASE UNCHANGED dynVars
    BY <1>5, StutterKeeps
  <1> QED  BY <1>1, <1>2, <1>3, <1>4, <1>5 DEF DynNext

(* The inductive invariant of the dynamic index, merges included: where the *)
(* maps, the file, the page cache, the two deletion sets and merge_lock     *)
(* stand to each other at every point of the inserts, deletes, searches and *)
(* merges.                                                                  *)
THEOREM Invariant == DynSpec => []DynInv
  <1>1. DynInit => DynInv
    BY Start
  <1>2. DynInv /\ [DynNext]_dynVars => DynInv'
    BY Step
  <1> QED  BY <1>1, <1>2, PTL DEF DynSpec

(* A merge that holds merge_lock has beside it at most one search for each  *)
(* reload that unlocked merge_lock unheld; none when only merge_deletes has *)
(* run.  For merges of every kind, in any order.                            *)
THEOREM MergeExclusion == DynSpec => []MergeExcludes
  <1>1. DynInv => MergeExcludes
    BY ReadingFinite DEF DynInv, DynTypeOK, LockInv, MergeExcludes
  <1> QED  BY <1>1, Invariant, PTL

(* A beam search that starts outside a merge returns no tag whose           *)
(* lazy_delete had returned before, even when the merge switches the sets   *)
(* while it runs.                                                           *)
THEOREM DeletesAreRespected == ASSUME BeamSearch PROVE DynSpec => []DeletesRespected
  <1>1. DynInv => DeletesRespected
    BY DEF DynInv, SearchInv, Faithful, DeletesRespected
  <1> QED  BY <1>1, Invariant, PTL

(* A merge loses no record and resurrects none, for any place that the      *)
(* threads of the populate pass give to the survivors.                      *)
THEOREM NothingLost == DynSpec => []RecordsKept
  <1>1. DynInv => RecordsKept
    <2> SUFFICES ASSUME DynInv, merge.pc = "idle", Clean PROVE RecordsKept
      BY DEF RecordsKept, Clean
    <2>1. OnlyFinal /\ ~Installed /\ Known = curId /\ curLoc = curId
      BY DEF Clean, Installed, Known, DynInv, DynTypeOK
    <2>2. \A id \in Ids : idLoc[id] # None =>
            /\ id \in 0 .. curId - 1 /\ idLoc[id] = id /\ id2tag(id) = idTag[id]
            /\ id2tag(id) \in Held
      BY <2>1, KnownIds
    <2>3. \A id \in 0 .. curId - 1 :
            /\ id \in Ids /\ idLoc[id] = id /\ idLoc[id] # None /\ layout[id] = id
            /\ Seen(id) = idTag[id]
      <3>1. \A id \in 0 .. curId - 1 : id \in Ids /\ id < curId /\ id # None
        BY DynAssumption DEF DynInv, DynTypeOK, Ids, Tags
      <3> QED  BY <2>1, <3>1 DEF DynInv, MapInv, FileInv, Identity
    <2>4. { id2tag(id) : id \in { k \in Ids : idLoc[k] # None } } = Held
      BY <2>1, <2>2, <2>3 DEF Held
    <2>5. usedTags \ deleted \subseteq Held /\ Held \cap deleted \subseteq deletionSets[activeSet]
      BY <2>1 DEF DynInv, MapInv
    <2> QED  BY <2>2, <2>3, <2>4, <2>5 DEF RecordsKept
  <1> QED  BY <1>1, Invariant, PTL

(* A beam search never reads, at the location the map gives for an id, a    *)
(* record of another one: not while the background thread writes, and not   *)
(* while a merge rewrites the file and renames every id.                    *)
THEOREM ReadsAgree == ASSUME BeamSearch PROVE DynSpec => []ReadsMatch
  <1>1. DynInv => ReadsMatch
    BY DEF DynInv, SearchInv, Faithful, ReadsMatch, Clean
  <1> QED  BY <1>1, Invariant, PTL

(* "we do not reuse IDs", and the merges that must wait for the I/O of the  *)
(* background thread do.                                                    *)
THEOREM FreshIdsQuietReads == DynSpec => [](IdsNotReused /\ ScannedAfterWrites)
  <1>1. DynInv => ScannedAfterWrites
    BY DEF DynInv, QuietInv, ScannedAfterWrites
  <1>2. DynInv => IdsNotReused
    <2> SUFFICES ASSUME DynInv, merge.pc = "idle", OnlyFinal, curId \in Ids, idLoc[curId] # None
                 PROVE  FALSE
      BY DEF IdsNotReused
    <2>1. curId \in 0 .. curId - 1
      BY KnownIds DEF Known, Installed
    <2> QED  BY <2>1
  <1> QED  BY <1>1, <1>2, Invariant, PTL

=============================================================================
