------------------------ MODULE InvertedIndexProofs ------------------------
(***************************************************************************)
(* Recovery of the inverted index is exact, and it implements the abstract *)
(* filter, for any vids, tags, label file and number of operations,        *)
(* removed vids that are inserted again included.                          *)
(***************************************************************************)
EXTENDS InvertedIndex, TLAPS

(* One more record: what it adds to the effect of a log. *)
LEMMA OneMoreRecord ==
    ASSUME NEW log \in Seq(Records), NEW n \in Nat, n + 1 <= Len(log),
           NEW v \in Vids
    PROVE  /\ DeadIn(log, n + 1, v) <=>
                 IF log[n + 1].vid = v THEN log[n + 1].op = "remove" ELSE DeadIn(log, n, v)
           /\ \A t \in Tags :
                 LoggedIn(log, n + 1, v, t) <=>
                     \/ LoggedIn(log, n, v, t)
                     \/ /\ log[n + 1].op = "insert" /\ log[n + 1].vid = v
                        /\ t \in Keys(log[n + 1].tags)
  <1>1. \A k : k \in 1 .. n + 1 <=> k \in 1 .. n \/ k = n + 1
    OBVIOUS
  <1>2. \A k \in 1 .. n : \A j : j \in k + 1 .. n + 1 <=> j \in k + 1 .. n \/ j = n + 1
    OBVIOUS
  <1>3. \A j : j \notin n + 1 + 1 .. n + 1
    OBVIOUS
  <1>4. CASE log[n + 1].vid = v
    <2>1. log[n + 1].op = "remove" => DeadIn(log, n + 1, v)
      BY <1>1, <1>3, <1>4 DEF DeadIn
    <2>2. DeadIn(log, n + 1, v) => log[n + 1].op = "remove"
      BY <1>1, <1>2, <1>4 DEF DeadIn
    <2> QED  BY <1>1, <1>4, <2>1, <2>2 DEF LoggedIn
  <1>5. CASE log[n + 1].vid # v
    <2>1. DeadIn(log, n, v) => DeadIn(log, n + 1, v)
      BY <1>1, <1>2, <1>5 DEF DeadIn
    <2>2. DeadIn(log, n + 1, v) => DeadIn(log, n, v)
      BY <1>1, <1>2, <1>5 DEF DeadIn
    <2> QED  BY <1>1, <1>5, <2>1, <2>2 DEF LoggedIn
  <1> QED  BY <1>4, <1>5

(* No record has no effect. *)
LEMMA NoRecord ==
    ASSUME NEW log, NEW v, NEW t
    PROVE  ~DeadIn(log, 0, v) /\ ~LoggedIn(log, 0, v, t)
  BY DEF DeadIn, LoggedIn

(* The effect of a prefix does not depend on what is appended. *)
LEMMA AppendedPrefix ==
    ASSUME NEW log \in Seq(Records), NEW r \in Records, NEW v, NEW t
    PROVE  /\ Append(log, r) \in Seq(Records)
           /\ Len(Append(log, r)) = Len(log) + 1
           /\ Append(log, r)[Len(log) + 1] = r
           /\ \A k \in 1 .. Len(log) : Append(log, r)[k] = log[k]
           /\ DeadIn(Append(log, r), Len(log), v) <=> DeadIn(log, Len(log), v)
           /\ LoggedIn(Append(log, r), Len(log), v, t) <=> LoggedIn(log, Len(log), v, t)
  <1>1. /\ Append(log, r) \in Seq(Records)
        /\ Len(Append(log, r)) = Len(log) + 1
        /\ Append(log, r)[Len(log) + 1] = r
        /\ \A k \in 1 .. Len(log) : Append(log, r)[k] = log[k]
    OBVIOUS
  <1>2. \A k \in 1 .. Len(log) : \A j \in k + 1 .. Len(log) : j \in 1 .. Len(log)
    OBVIOUS
  <1>3. DeadIn(Append(log, r), Len(log), v) <=> DeadIn(log, Len(log), v)
    BY <1>1, <1>2 DEF DeadIn
  <1>4. LoggedIn(Append(log, r), Len(log), v, t) <=> LoggedIn(log, Len(log), v, t)
    BY <1>1 DEF LoggedIn
  <1> QED  BY <1>1, <1>3, <1>4

(* What a record appended to the log adds to what is stored. *)
LEMMA AppendedStored ==
    ASSUME wal \in Seq(Records), NEW r \in Records, wal' = Append(wal, r), file' = file,
           NEW v \in Vids
    PROVE  /\ Len(wal') = Len(wal) + 1 /\ wal'[Len(wal')] = r
           /\ DeadIn(wal, Len(wal), v)' <=>
                 IF r.vid = v THEN r.op = "remove" ELSE DeadIn(wal, Len(wal), v)
           /\ Stored(Len(wal), v)' =
                 IF r.vid = v /\ r.op = "insert"
                 THEN Stored(Len(wal), v) \cup (Keys(r.tags) \cap Tags)
                 ELSE Stored(Len(wal), v)
           /\ DeadIn(wal', Len(wal), v) <=> DeadIn(wal, Len(wal), v)
           /\ \A t : LoggedIn(wal', Len(wal), v, t) <=> LoggedIn(wal, Len(wal), v, t)
  <1> DEFINE n == Len(wal)
  <1>1. /\ wal' \in Seq(Records) /\ Len(wal') = n + 1 /\ wal'[n + 1] = r /\ n + 1 <= Len(wal')
        /\ n \in Nat
    BY AppendedPrefix
  <1>2. /\ DeadIn(wal', n, v) <=> DeadIn(wal, n, v)
        /\ \A t : LoggedIn(wal', n, v, t) <=> LoggedIn(wal, n, v, t)
    BY AppendedPrefix
  <1>3. /\ DeadIn(wal', n + 1, v) <=>
              IF wal'[n + 1].vid = v THEN wal'[n + 1].op = "remove" ELSE DeadIn(wal', n, v)
        /\ \A t \in Tags : LoggedIn(wal', n + 1, v, t) <=>
              \/ LoggedIn(wal', n, v, t)
              \/ /\ wal'[n + 1].op = "insert" /\ wal'[n + 1].vid = v
                 /\ t \in Keys(wal'[n + 1].tags)
    <2> HIDE DEF n
    <2> QED  BY <1>1, OneMoreRecord
  <1>4. Stored(Len(wal), v)' = { t \in Tags : v \in file[t] \/ LoggedIn(wal', n + 1, v, t) }
    BY <1>1 DEF Stored
  <1>5. Stored(n, v) = { t \in Tags : v \in file[t] \/ LoggedIn(wal, n, v, t) }
    BY DEF Stored
  <1>6. \A t \in Tags : LoggedIn(wal', n + 1, v, t) <=>
           LoggedIn(wal, n, v, t) \/ (r.vid = v /\ r.op = "insert" /\ t \in Keys(r.tags))
    BY <1>1, <1>2, <1>3
  <1> HIDE DEF n
  <1>7. Stored(Len(wal), v)' =
           IF r.vid = v /\ r.op = "insert" THEN Stored(n, v) \cup (Keys(r.tags) \cap Tags)
           ELSE Stored(n, v)
    BY <1>4, <1>5, <1>6
  <1>8. DeadIn(wal, Len(wal), v)' <=> DeadIn(wal', n + 1, v)
    BY <1>1
  <1> QED  BY <1>1, <1>2, <1>3, <1>7, <1>8 DEF n

-----------------------------------------------------------------------------
(* The initial state is well typed. *)
LEMMA TypeStart == InvInit => InvTypeOK
  BY FilterAssumption DEF InvInit, InvTypeOK, Postings, NoPostings, Attributes, NoAttributes, Keys

(* A record waits for Apply only when there is one (GoneExact). *)
LEMMA TypeStep == InvTypeOK /\ GoneExact /\ [InvNext]_invVars => InvTypeOK'
  <1> SUFFICES ASSUME InvTypeOK, GoneExact, [InvNext]_invVars PROVE InvTypeOK'
    OBVIOUS
  <1> USE FilterAssumption DEF InvTypeOK
  <1>0. ASSUME NEW r \in Records, ApplyRecord(r)
        PROVE  mem' \in Postings /\ tombs' \subseteq Vids
    BY <1>0 DEF ApplyRecord, _apply_insert_to_mem, _apply_remove_to_mem, Records, Postings
  <1>1. CASE Load
    BY <1>1 DEF Load, NoPostings, Postings, history
  <1>2. CASE RecoverStep
    <2>1. wal[pos + 1] \in Records
      BY <1>2 DEF RecoverStep
    <2>2. mem' \in Postings /\ tombs' \subseteq Vids
      BY <1>0, <1>2, <2>1 DEF RecoverStep
    <2> QED  BY <1>2, <2>2 DEF RecoverStep, history
  <1>3. CASE OpenWal
    BY <1>3 DEF OpenWal, history
  <1>4. ASSUME NEW r \in Records, Append_wal(r)
        PROVE  /\ file' = file /\ disk' = disk /\ mem' = mem /\ tombs' = tombs /\ pc' = "apply"
               /\ wal' \in Seq(Records) /\ pos' \in 0 .. Len(wal') /\ nOps' \in 0 .. MaxOps
    <2>1. wal' \in Seq(Records) /\ Len(wal') = Len(wal) + 1
      BY <1>4, AppendedPrefix DEF Append_wal
    <2> QED  BY <1>4, <2>1 DEF Append_wal
  <1>5. ASSUME NEW v \in Vids, Remove(v) PROVE InvTypeOK'
    <2>1. gone' \subseteq Vids /\ since' \in Attributes /\ had' \in Attributes /\ dropped' \in Attributes
      BY <1>5 DEF Remove, Attributes
    <2> QED  BY <1>4, <1>5, <2>1 DEF Remove, Records
  <1>6. ASSUME NEW v \in Vids, NEW tags \in SUBSET Tags, Insert(v, tags) PROVE InvTypeOK'
    <2>1. gone' \subseteq Vids /\ since' \in Attributes /\ had' \in Attributes /\ dropped' \in Attributes
      BY <1>6 DEF Insert, Attributes, Keys
    <2> QED  BY <1>4, <1>6, <2>1 DEF Insert, Records
  <1>7. CASE Apply
    <2>1. wal[Len(wal)] \in Records
      BY <1>7 DEF Apply, GoneExact
    <2>2. mem' \in Postings /\ tombs' \subseteq Vids
      BY <1>0, <1>7, <2>1 DEF Apply
    <2> QED  BY <1>7, <2>2 DEF Apply, history
  <1>8. CASE MergeWrite
    BY <1>8 DEF MergeWrite, history
  <1>9. CASE MergeClose
    <2>1. dropped' \in Attributes
      BY <1>9 DEF MergeClose, Attributes
    <2> QED  BY <1>9, <2>1 DEF MergeClose, Postings, Both
  <1>10. CASE TruncateWal
    BY <1>10 DEF TruncateWal, history
  <1>11. CASE Crash
    BY <1>11 DEF Crash, NoPostings, Postings, NoAttributes, Attributes
  <1>12. CASE UNCHANGED invVars
    BY <1>12 DEF invVars, history
  <1> QED  BY <1>1, <1>2, <1>3, <1>5, <1>6, <1>7, <1>8, <1>9, <1>10, <1>11, <1>12 DEF InvNext

-----------------------------------------------------------------------------
(* The parts of the invariant, action by action. *)

(* Steps that leave log, file and history alone leave what was given. *)
LEMMA GivenSame ==
    ASSUME GivenKept, UNCHANGED <<file, wal, history>>
    PROVE  GivenKept'
  BY DEF GivenKept, history, Stored

LEMMA LoadKeeps == RecoveryInv /\ Load => RecoveryInv'
  <1> SUFFICES ASSUME RecoveryInv, Load PROVE RecoveryInv'
    OBVIOUS
  <1>1. InvTypeOK'
    BY TypeStep DEF RecoveryInv, InvNext
  <1>2. Replayed'
    BY NoRecord DEF Load, Replayed, NoPostings, RecoveryInv, history
  <1>3. (Operating /\ Merged)'
    BY DEF Load, Operating, Merged
  <1>4. GoneExact'
    BY DEF Load, GoneExact, RecoveryInv, Durable, Stored, history
  <1>5. GivenKept'
    BY GivenSame DEF Load, RecoveryInv
  <1> QED  BY <1>1, <1>2, <1>3, <1>4, <1>5 DEF RecoveryInv

(* A replayed record has in memory the effect it has in the log. *)
LEMMA RecoverStepKeeps == RecoveryInv /\ RecoverStep => RecoveryInv'
  <1> SUFFICES ASSUME RecoveryInv, RecoverStep PROVE RecoveryInv'
    OBVIOUS
  <1>1. InvTypeOK'
    BY TypeStep DEF RecoveryInv, InvNext
  <1>2. /\ wal \in Seq(Records) /\ pos \in Nat /\ pos + 1 <= Len(wal)
        /\ wal[pos + 1] \in Records
    BY DEF RecoveryInv, InvTypeOK, RecoverStep
  <1>3. /\ pc = "recover" /\ disk = file
        /\ mem = [ t \in Tags |-> { v \in Vids : LoggedIn(wal, pos, v, t) } ]
        /\ tombs = { v \in Vids : DeadIn(wal, pos, v) }
        /\ dropped = NoAttributes /\ dropped' = dropped
    BY DEF RecoveryInv, Replayed, RecoverStep, history
  <1>4. \A v \in Vids : DeadIn(wal, pos + 1, v) <=>
           IF wal[pos + 1].vid = v THEN wal[pos + 1].op = "remove" ELSE DeadIn(wal, pos, v)
    BY <1>2, OneMoreRecord
  <1>5. \A v \in Vids, t \in Tags : LoggedIn(wal, pos + 1, v, t) <=>
           \/ LoggedIn(wal, pos, v, t)
           \/ /\ wal[pos + 1].op = "insert" /\ wal[pos + 1].vid = v
              /\ t \in Keys(wal[pos + 1].tags)
    BY <1>2, OneMoreRecord
  <1>6. Replayed'
    <2>1. CASE wal[pos + 1].op = "insert"
      <3>1. /\ mem' = [ t \in Tags |-> IF t \in Keys(wal[pos + 1].tags)
                                       THEN mem[t] \cup {wal[pos + 1].vid} ELSE mem[t] ]
            /\ tombs' = tombs \ {wal[pos + 1].vid}
        BY <2>1 DEF RecoverStep, ApplyRecord, _apply_insert_to_mem
      <3>2. wal[pos + 1].vid \in Vids
        BY <1>2 DEF Records
      <3>3. tombs' = { v \in Vids : DeadIn(wal, pos + 1, v) }
        BY <1>3, <1>4, <2>1, <3>1
      <3>4. mem' = [ t \in Tags |-> { v \in Vids : LoggedIn(wal, pos + 1, v, t) } ]
        <4>1. ASSUME NEW t \in Tags PROVE mem'[t] = { v \in Vids : LoggedIn(wal, pos + 1, v, t) }
          BY <1>3, <1>5, <2>1, <3>1, <3>2
        <4> QED  BY <3>1, <4>1
      <3> QED  BY <1>3, <3>3, <3>4 DEF RecoverStep, Replayed
    <2>2. CASE wal[pos + 1].op = "remove"
      <3>1. mem' = mem /\ tombs' = tombs \cup {wal[pos + 1].vid}
        BY <2>2 DEF RecoverStep, ApplyRecord, _apply_remove_to_mem
      <3>2. wal[pos + 1].vid \in Vids
        BY <1>2 DEF Records
      <3>3. tombs' = { v \in Vids : DeadIn(wal, pos + 1, v) }
        BY <1>3, <1>4, <2>2, <3>1, <3>2
      <3>4. mem' = [ t \in Tags |-> { v \in Vids : LoggedIn(wal, pos + 1, v, t) } ]
        BY <1>3, <1>5, <2>2, <3>1
      <3> QED  BY <1>3, <3>3, <3>4 DEF RecoverStep, Replayed
    <2> QED  BY <1>2, <2>1, <2>2 DEF Records
  <1>7. (Operating /\ Merged)'
    BY DEF RecoverStep, Operating, Merged
  <1>8. GoneExact'
    BY <1>3 DEF RecoverStep, GoneExact, RecoveryInv, Durable, Stored, history
  <1>9. GivenKept'
    BY GivenSame DEF RecoverStep, RecoveryInv
  <1> QED  BY <1>1, <1>6, <1>7, <1>8, <1>9 DEF RecoveryInv

(* At the end of the log recovery has reached a state of operation. *)
LEMMA OpenWalKeeps == RecoveryInv /\ OpenWal => RecoveryInv'
  <1> SUFFICES ASSUME RecoveryInv, OpenWal PROVE RecoveryInv'
    OBVIOUS
  <1>1. InvTypeOK'
    BY TypeStep DEF RecoveryInv, InvNext
  <1>2. (Replayed /\ Merged)'
    BY DEF OpenWal, Replayed, Merged
  <1>3. /\ pos = Len(wal) /\ pc = "recover" /\ pc' = "ready"
        /\ UNCHANGED <<file, wal, disk, mem, tombs, gone, since, had, dropped>>
    BY DEF OpenWal, history
  <1>4. /\ disk = file
        /\ mem = [ t \in Tags |-> { v \in Vids : LoggedIn(wal, pos, v, t) } ]
        /\ tombs = { v \in Vids : DeadIn(wal, pos, v) }
        /\ dropped = NoAttributes
    BY <1>3 DEF RecoveryInv, Replayed
  <1>5. Applied' = pos
    BY <1>3 DEF Applied
  <1>6. \A v \in Vids : { t \in Tags : v \in Both(t) } = Stored(pos, v)
    BY <1>4 DEF Both, Stored
  <1>7. Operating'
    <2>1. ASSUME NEW v \in Vids
          PROVE  /\ { t \in Tags : v \in Both(t)' } = Stored(Applied, v)' \cup dropped'[v]
                 /\ DeadIn(wal, Applied, v)' => v \in tombs'
                 /\ v \in tombs' => DeadIn(wal, Applied, v)'
      <3>1. /\ { t \in Tags : v \in Both(t)' } = { t \in Tags : v \in Both(t) }
            /\ Stored(Applied, v)' = Stored(pos, v)
        BY <1>3, <1>5 DEF Both, Stored
      <3>2. dropped'[v] = {}
        BY <1>3, <1>4 DEF NoAttributes
      <3> QED  BY <1>3, <1>4, <1>5, <1>6, <3>1, <3>2
    <2> QED  BY <2>1 DEF Operating
  <1>8. GoneExact'
    <2>1. ASSUME NEW v \in Vids
          PROVE  /\ DeadIn(wal, Len(wal), v) => v \in gone
                 /\ v \in gone => Durable[v] = {}
                 /\ v \in tombs => v \in gone
                 /\ v \in gone /\ v \notin tombs => \A t \in Tags : v \notin Both(t)
      <3>1. (DeadIn(wal, Len(wal), v) => v \in gone) /\ (v \in gone => Durable[v] = {})
        BY DEF RecoveryInv, GoneExact
      <3>2. v \notin tombs => Durable[v] = Stored(pos, v)
        BY <1>3, <1>4 DEF Durable
      <3> QED  BY <1>3, <1>4, <1>6, <3>1, <3>2
    <2>2. Durable' = Durable /\ \A t : Both(t)' = Both(t)
      BY <1>3 DEF Durable, Stored, Both
    <2> QED  BY <1>3, <2>1, <2>2 DEF GoneExact
  <1>9. GivenKept'
    BY GivenSame DEF OpenWal, RecoveryInv
  <1> QED  BY <1>1, <1>2, <1>7, <1>8, <1>9 DEF RecoveryInv

(* What an appended record means for the history. *)
Recorded(r) ==
    /\ gone' = IF r.op = "insert" THEN gone \ {r.vid} ELSE gone \cup {r.vid}
    /\ since' = IF r.op = "insert" THEN [since EXCEPT ![r.vid] = @ \cup Keys(r.tags)]
                ELSE [since EXCEPT ![r.vid] = {}]
    /\ had' = IF r.op = "insert" THEN [had EXCEPT ![r.vid] = @ \cup Keys(r.tags)] ELSE had
    /\ dropped' = dropped

(* Appending a record changes nothing in memory and nothing before it in    *)
(* the log.                                                                 *)
LEMMA AppendKeeps ==
    ASSUME RecoveryInv, NEW r \in Records, Append_wal(r), Recorded(r), InvTypeOK'
    PROVE  RecoveryInv'
  <1>1. /\ wal \in Seq(Records) /\ wal' = Append(wal, r) /\ file' = file
        /\ pc = "ready" /\ pc' = "apply" /\ UNCHANGED <<disk, mem, tombs, dropped>>
        /\ r.vid \in Vids /\ r.tags \in SUBSET Tags /\ r.op \in {"insert", "remove"}
    BY DEF RecoveryInv, InvTypeOK, Append_wal, Recorded, Records
  <1>2. Len(wal) \in Nat /\ Len(wal') = Len(wal) + 1 /\ wal'[Len(wal')] = r
    BY <1>1, AppendedPrefix
  <1>3. \A v \in Vids :
           /\ DeadIn(wal, Len(wal), v)' <=>
                 IF r.vid = v THEN r.op = "remove" ELSE DeadIn(wal, Len(wal), v)
           /\ Stored(Len(wal), v)' =
                 IF r.vid = v /\ r.op = "insert"
                 THEN Stored(Len(wal), v) \cup (Keys(r.tags) \cap Tags)
                 ELSE Stored(Len(wal), v)
           /\ DeadIn(wal', Len(wal), v) <=> DeadIn(wal, Len(wal), v)
           /\ \A t : LoggedIn(wal', Len(wal), v, t) <=> LoggedIn(wal, Len(wal), v, t)
    BY <1>1, AppendedStored
  <1>4. (Replayed /\ Merged)'
    BY <1>1 DEF Replayed, Merged
  <1>5. Applied = Len(wal) /\ Applied' = Len(wal)
    BY <1>1, <1>2 DEF Applied
  <1>6. Operating'
    <2>1. ASSUME NEW v \in Vids
          PROVE  /\ { t \in Tags : v \in Both(t)' } = Stored(Applied, v)' \cup dropped'[v]
                 /\ DeadIn(wal, Applied, v)' => v \in tombs'
                 /\ v \in tombs' => DeadIn(wal, Applied, v)' \/ Stored(Applied, v)' = {}
      <3>1. /\ { t \in Tags : v \in Both(t) } = Stored(Len(wal), v) \cup dropped[v]
            /\ DeadIn(wal, Len(wal), v) => v \in tombs
            /\ v \in tombs => DeadIn(wal, Len(wal), v) \/ Stored(Len(wal), v) = {}
        BY <1>1, <1>5 DEF RecoveryInv, Operating
      <3>2. Stored(Applied, v)' = Stored(Len(wal), v)
        BY <1>1, <1>3, <1>5 DEF Stored
      <3>3. DeadIn(wal, Applied, v)' <=> DeadIn(wal, Len(wal), v)
        BY <1>3, <1>5
      <3>4. { t \in Tags : v \in Both(t)' } = { t \in Tags : v \in Both(t) }
        BY <1>1 DEF Both
      <3> QED  BY <1>1, <3>1, <3>2, <3>3, <3>4
    <2> QED  BY <2>1 DEF Operating
  <1>7. GoneExact'
    <2>1. ASSUME NEW v \in Vids
          PROVE  /\ DeadIn(wal, Len(wal), v)' => v \in gone'
                 /\ v \in gone' => Durable'[v] = {}
                 /\ ~Pending(v)' =>
                       /\ v \in tombs' => v \in gone'
                       /\ v \in gone' /\ v \notin tombs' => \A t \in Tags : v \notin Both(t)'
      <3>1. /\ DeadIn(wal, Len(wal), v) => v \in gone
            /\ v \in gone => Durable[v] = {}
            /\ v \in tombs => v \in gone
            /\ v \in gone /\ v \notin tombs => \A t \in Tags : v \notin Both(t)
        BY <1>1 DEF RecoveryInv, GoneExact, Pending
      <3>2. /\ Durable[v] = IF DeadIn(wal, Len(wal), v) THEN {} ELSE Stored(Len(wal), v)
            /\ Durable'[v] = IF DeadIn(wal, Len(wal), v)' THEN {} ELSE Stored(Len(wal), v)'
        BY DEF Durable
      <3>3. CASE r.vid = v
        <4>1. Pending(v)'
          BY <1>1, <1>2, <3>3 DEF Pending
        <4>2. v \in gone' <=> r.op = "remove"
          BY <1>1, <3>3 DEF Recorded
        <4>3. DeadIn(wal, Len(wal), v)' <=> r.op = "remove"
          BY <1>3, <3>3
        <4> QED  BY <3>2, <4>1, <4>2, <4>3
      <3>4. CASE r.vid # v
        <4>1. v \in gone' <=> v \in gone
          BY <3>4 DEF Recorded
        <4>2. /\ DeadIn(wal, Len(wal), v)' <=> DeadIn(wal, Len(wal), v)
              /\ Stored(Len(wal), v)' = Stored(Len(wal), v)
          BY <1>3, <3>4
        <4>3. \A t : Both(t)' = Both(t)
          BY <1>1 DEF Both
        <4> QED  BY <1>1, <3>1, <3>2, <4>1, <4>2, <4>3
      <3> QED  BY <3>3, <3>4
    <2>2. r.op = "insert" => r.vid \notin gone'
      BY DEF Recorded
    <2> QED  BY <1>1, <1>2, <2>1, <2>2 DEF GoneExact
  <1>8. GivenKept'
    <2>1. Keys(r.tags) \cap Tags = Keys(r.tags)
      BY <1>1, FilterAssumption DEF Keys
    <2>2. since \in Attributes /\ had \in Attributes
      BY DEF RecoveryInv, InvTypeOK
    <2>3. ASSUME NEW v \in Vids
          PROVE  /\ v \in gone' => since'[v] = {}
                 /\ since'[v] \subseteq Stored(Len(wal), v)'
                 /\ Stored(Len(wal), v)' \cup dropped'[v] \subseteq had'[v]
      <3>1. /\ v \in gone => since[v] = {}
            /\ since[v] \subseteq Stored(Len(wal), v)
            /\ Stored(Len(wal), v) \cup dropped[v] \subseteq had[v]
        BY DEF RecoveryInv, GivenKept
      <3>2. CASE r.vid = v /\ r.op = "insert"
        <4>1. /\ v \notin gone' /\ since'[v] = since[v] \cup Keys(r.tags)
              /\ had'[v] = had[v] \cup Keys(r.tags)
          BY <2>2, <3>2 DEF Recorded, Attributes
        <4>2. Stored(Len(wal), v)' = Stored(Len(wal), v) \cup Keys(r.tags)
          BY <1>3, <2>1, <3>2
        <4> QED  BY <1>1, <3>1, <4>1, <4>2
      <3>3. CASE r.vid = v /\ r.op = "remove"
        <4>1. since'[v] = {} /\ had'[v] = had[v]
          BY <2>2, <3>3 DEF Recorded, Attributes
        <4>2. Stored(Len(wal), v)' = Stored(Len(wal), v)
          BY <1>3, <3>3
        <4> QED  BY <1>1, <3>1, <4>1, <4>2
      <3>4. CASE r.vid # v
        <4>1. (v \in gone' <=> v \in gone) /\ since'[v] = since[v] /\ had'[v] = had[v]
          BY <2>2, <3>4 DEF Recorded, Attributes
        <4>2. Stored(Len(wal), v)' = Stored(Len(wal), v)
          BY <1>3, <3>4
        <4> QED  BY <1>1, <3>1, <4>1, <4>2
      <3> QED  BY <1>1, <3>2, <3>3, <3>4
    <2> QED  BY <2>3 DEF GivenKept
  <1> QED  BY <1>4, <1>6, <1>7, <1>8 DEF RecoveryInv

(* An insert and a remove each log one record and keep its history. *)
LEMMA InsertRecorded ==
    ASSUME NEW v \in Vids, NEW tags \in SUBSET Tags, Insert(v, tags)
    PROVE  \E r \in Records : /\ r.op = "insert" /\ r.vid = v /\ r.tags = tags
                              /\ Append_wal(r) /\ Recorded(r)
  <1> DEFINE r == [op |-> "insert", vid |-> v, tags |-> tags]
  <1>1. r \in Records /\ r.op = "insert" /\ r.vid = v /\ r.tags = tags
    BY DEF Records
  <1>2. Append_wal(r)
    BY DEF Insert
  <1>3. Recorded(r)
    BY DEF Insert, Recorded
  <1> QED  BY <1>1, <1>2, <1>3

LEMMA RemoveRecorded ==
    ASSUME NEW v \in Vids, Remove(v)
    PROVE  \E r \in Records : r.op = "remove" /\ r.vid = v /\ Append_wal(r) /\ Recorded(r)
  <1> DEFINE r == [op |-> "remove", vid |-> v, tags |-> {}]
  <1>1. r \in Records /\ r.op = "remove" /\ r.vid = v
    BY DEF Records
  <1>2. Append_wal(r)
    BY DEF Remove
  <1>3. Recorded(r)
    BY DEF Remove, Recorded
  <1> QED  BY <1>1, <1>2, <1>3

(* Applying the last record.  An insert takes the tombstone away: what the  *)
(* last merge left out is in memory again, and nowhere else.                *)
LEMMA ApplyKeeps == RecoveryInv /\ Apply => RecoveryInv'
  <1> SUFFICES ASSUME RecoveryInv, Apply PROVE RecoveryInv'
    OBVIOUS
  <1> DEFINE n == Len(wal) - 1
             r == wal[n + 1]
  <1>1. InvTypeOK'
    BY TypeStep DEF RecoveryInv, InvNext
  <1>2. /\ wal \in Seq(Records) /\ n \in Nat /\ n + 1 = Len(wal) /\ n + 1 <= Len(wal)
        /\ r \in Records
        /\ pc = "apply" /\ pc' = "ready"
        /\ UNCHANGED <<file, wal, disk, gone, since, had, dropped>>
    BY DEF RecoveryInv, InvTypeOK, GoneExact, Apply, history
  <1>3. Applied = n /\ Applied' = n + 1
    BY <1>2 DEF Applied
  <1>4. r.vid \in Vids /\ r.op \in {"insert", "remove"}
    BY <1>2 DEF Records
  <1>5. \A v \in Vids : DeadIn(wal, n + 1, v) <=>
           IF r.vid = v THEN r.op = "remove" ELSE DeadIn(wal, n, v)
    BY <1>2, OneMoreRecord
  <1>6. \A v \in Vids, t \in Tags : LoggedIn(wal, n + 1, v, t) <=>
           LoggedIn(wal, n, v, t) \/ (r.op = "insert" /\ r.vid = v /\ t \in Keys(r.tags))
    BY <1>2, OneMoreRecord
  <1>7. ApplyRecord(r)
    BY <1>2 DEF Apply
  <1>8. ASSUME NEW v \in Vids
        PROVE  /\ { t \in Tags : v \in Both(t) } = Stored(n, v) \cup dropped[v]
               /\ DeadIn(wal, n, v) => v \in tombs
               /\ v \in tombs => DeadIn(wal, n, v) \/ Stored(n, v) = {}
    BY <1>2, <1>3 DEF RecoveryInv, Operating
  <1>9. ASSUME NEW v \in Vids
        PROVE  /\ DeadIn(wal, n + 1, v) => v \in gone
               /\ v \in gone => Durable[v] = {}
               /\ r.vid # v => /\ v \in tombs => v \in gone
                               /\ v \in gone /\ v \notin tombs => \A t \in Tags : v \notin Both(t)
    BY <1>2 DEF RecoveryInv, GoneExact, Pending
  <1>10. (Replayed /\ Merged)'
    BY <1>2 DEF Replayed, Merged
  <1>11. GivenKept'
    BY GivenSame DEF Apply, RecoveryInv
  <1>12. /\ Durable' = Durable
         /\ \A v \in Vids : Durable[v] = IF DeadIn(wal, n + 1, v) THEN {} ELSE Stored(n + 1, v)
         /\ \A v \in Vids : Stored(Applied, v)' = Stored(n + 1, v)
    BY <1>2, <1>3 DEF Durable, Stored
  <1> HIDE DEF n, r
  <1>13. \A v \in Vids : Stored(n + 1, v) =
            IF r.op = "insert" /\ r.vid = v THEN Stored(n, v) \cup (Keys(r.tags) \cap Tags)
            ELSE Stored(n, v)
    BY <1>6 DEF Stored
  (* Memory after the record, vector by vector. *)
  <1>14. ASSUME NEW v \in Vids
         PROVE  /\ v \in tombs' <=> IF r.vid = v THEN r.op = "remove" ELSE v \in tombs
                /\ { t \in Tags : v \in Both(t)' } =
                      IF r.op = "insert" /\ r.vid = v
                      THEN { t \in Tags : v \in Both(t) } \cup (Keys(r.tags) \cap Tags)
                      ELSE { t \in Tags : v \in Both(t) }
    <2>1. CASE r.op = "insert"
      <3>1. /\ mem' = [ t \in Tags |-> IF t \in Keys(r.tags) THEN mem[t] \cup {r.vid} ELSE mem[t] ]
            /\ tombs' = tombs \ {r.vid}
        BY <1>7, <2>1 DEF ApplyRecord, _apply_insert_to_mem
      <3>2. \A t \in Tags : v \in Both(t)' <=> v \in Both(t) \/ (v = r.vid /\ t \in Keys(r.tags))
        BY <1>2, <3>1 DEF Both
      <3>3. v \in tombs' <=> IF r.vid = v THEN r.op = "remove" ELSE v \in tombs
        BY <2>1, <3>1
      <3> QED  BY <2>1, <3>2, <3>3
    <2>2. CASE r.op = "remove"
      <3>1. mem' = mem /\ tombs' = tombs \cup {r.vid}
        BY <1>7, <2>2 DEF ApplyRecord, _apply_remove_to_mem
      <3>2. \A t : Both(t)' = Both(t)
        BY <1>2, <3>1 DEF Both
      <3> QED  BY <2>2, <3>1, <3>2
    <2> QED  BY <1>4, <2>1, <2>2
  <1>15. Operating'
    <2>1. ASSUME NEW v \in Vids
          PROVE  /\ { t \in Tags : v \in Both(t)' } = Stored(n + 1, v) \cup dropped[v]
                 /\ DeadIn(wal, n + 1, v) => v \in tombs'
                 /\ v \in tombs' => DeadIn(wal, n + 1, v) \/ Stored(n + 1, v) = {}
      <3>1. { t \in Tags : v \in Both(t)' } = Stored(n + 1, v) \cup dropped[v]
        BY <1>8, <1>13, <1>14
      <3>2. /\ DeadIn(wal, n + 1, v) => v \in tombs'
            /\ v \in tombs' => DeadIn(wal, n + 1, v) \/ Stored(n + 1, v) = {}
        <4>1. CASE r.vid = v
          BY <1>5, <1>14, <4>1
        <4>2. CASE r.vid # v
          BY <1>5, <1>8, <1>13, <1>14, <4>2
        <4> QED  BY <4>1, <4>2
      <3> QED  BY <3>1, <3>2
    <2> QED  BY <1>2, <1>3, <1>12, <2>1 DEF Operating
  <1>16. GoneExact'
    <2>1. ASSUME NEW v \in Vids
          PROVE  /\ v \in tombs' => v \in gone
                 /\ v \in gone /\ v \notin tombs' => \A t \in Tags : v \notin Both(t)'
      <3>1. CASE r.vid = v /\ r.op = "remove"
        BY <1>5, <1>9, <1>14, <3>1
      <3>2. CASE r.vid = v /\ r.op = "insert"
        <4>1. v \notin tombs' /\ ~DeadIn(wal, n + 1, v)
          BY <1>5, <1>14, <3>2
        <4>2. v \notin gone
          BY <1>2, <3>2 DEF RecoveryInv, GoneExact, n, r
        <4> QED  BY <4>1, <4>2
      <3>3. CASE r.vid # v
        <4>1. /\ v \in tombs' <=> v \in tombs
              /\ { t \in Tags : v \in Both(t)' } = { t \in Tags : v \in Both(t) }
          BY <1>14, <3>3
        <4> QED  BY <1>9, <3>3, <4>1
      <3> QED  BY <1>4, <3>1, <3>2, <3>3
    <2>2. ASSUME NEW v \in Vids
          PROVE  (DeadIn(wal, Len(wal), v) => v \in gone) /\ (v \in gone => Durable[v] = {})
      BY <1>2, <1>9, <2>2
    <2> QED  BY <1>2, <1>12, <2>1, <2>2 DEF GoneExact
  <1> QED  BY <1>1, <1>10, <1>11, <1>15, <1>16 DEF RecoveryInv

(* The new file holds what is visible, so the log, still there, adds        *)
(* nothing new to it.                                                       *)
LEMMA MergeCloseKeeps == RecoveryInv /\ MergeClose => RecoveryInv'
  <1> SUFFICES ASSUME RecoveryInv, MergeClose PROVE RecoveryInv'
    OBVIOUS
  <1>1. InvTypeOK'
    BY TypeStep DEF RecoveryInv, InvNext
  <1>2. /\ pc = "writing" /\ pc' = "merged"
        /\ UNCHANGED <<wal, disk, mem, tombs, gone, since, had>>
        /\ file' = [ t \in Tags |-> Both(t) \ tombs ]
        /\ dropped' = [ v \in Vids |-> IF v \in tombs THEN { t \in Tags : v \in Both(t) } ELSE {} ]
    BY DEF MergeClose
  <1>3. Applied = Len(wal) /\ Applied' = Len(wal) /\ \A t : Both(t)' = Both(t)
    BY <1>2 DEF Applied, Both
  <1>4. ASSUME NEW v \in Vids
        PROVE  /\ { t \in Tags : v \in Both(t) } = Stored(Len(wal), v) \cup dropped[v]
               /\ DeadIn(wal, Len(wal), v) => v \in tombs
               /\ v \in tombs => DeadIn(wal, Len(wal), v) \/ Stored(Len(wal), v) = {}
    BY <1>2, <1>3 DEF RecoveryInv, Operating
  <1>5. ASSUME NEW v \in Vids
        PROVE  /\ DeadIn(wal, Len(wal), v) => v \in gone
               /\ v \in gone => Durable[v] = {}
               /\ v \in tombs => v \in gone
               /\ v \in gone /\ v \notin tombs => \A t \in Tags : v \notin Both(t)
    BY <1>2 DEF RecoveryInv, GoneExact, Pending
  <1>6. ASSUME NEW v \in Vids
        PROVE  /\ v \in tombs => /\ Stored(Len(wal), v)' \subseteq Stored(Len(wal), v)
                                 /\ dropped'[v] = { t \in Tags : v \in Both(t) }
               /\ v \notin tombs => /\ Stored(Len(wal), v)' = { t \in Tags : v \in Both(t) }
                                    /\ dropped'[v] = {}
    <2>1. Stored(Len(wal), v)' =
             { t \in Tags : (v \in Both(t) /\ v \notin tombs) \/ LoggedIn(wal, Len(wal), v, t) }
      BY <1>2 DEF Stored
    <2>2. \A t \in Tags : LoggedIn(wal, Len(wal), v, t) => v \in Both(t)
      BY <1>4 DEF Stored
    <2>3. CASE v \in tombs
      BY <1>2, <2>1, <2>3 DEF Stored
    <2>4. CASE v \notin tombs
      BY <1>2, <2>1, <2>2, <2>4
    <2> QED  BY <2>3, <2>4
  <1>7. (Replayed /\ Merged)'
    BY <1>2, <1>3 DEF Replayed, Merged
  <1>8. Operating'
    <2>1. ASSUME NEW v \in Vids
          PROVE  /\ { t \in Tags : v \in Both(t)' } = Stored(Len(wal), v)' \cup dropped'[v]
                 /\ DeadIn(wal, Len(wal), v) => v \in tombs
                 /\ v \in tombs => DeadIn(wal, Len(wal), v) \/ Stored(Len(wal), v)' = {}
      BY <1>3, <1>4, <1>6
    <2>2. \A v : Stored(Applied, v)' = Stored(Len(wal), v)'
      BY <1>2, <1>3
    <2> QED  BY <1>2, <1>3, <2>1, <2>2 DEF Operating
  <1>9. GoneExact'
    <2>1. ASSUME NEW v \in Vids, v \in gone PROVE Durable'[v] = {}
      <3>1. /\ Durable[v] = IF DeadIn(wal, Len(wal), v) THEN {} ELSE Stored(Len(wal), v)
            /\ Durable'[v] = IF DeadIn(wal, Len(wal), v) THEN {} ELSE Stored(Len(wal), v)'
        BY <1>2 DEF Durable
      <3> QED  BY <1>5, <1>6, <2>1, <3>1
    <2> QED  BY <1>2, <1>3, <1>5, <2>1 DEF GoneExact
  <1>10. GivenKept'
    <2>1. ASSUME NEW v \in Vids
          PROVE  /\ v \in gone => since[v] = {}
                 /\ since[v] \subseteq Stored(Len(wal), v)'
                 /\ Stored(Len(wal), v)' \cup dropped'[v] \subseteq had[v]
      <3>1. /\ v \in gone => since[v] = {}
            /\ since[v] \subseteq Stored(Len(wal), v)
            /\ Stored(Len(wal), v) \cup dropped[v] \subseteq had[v]
        BY DEF RecoveryInv, GivenKept
      <3> QED  BY <1>4, <1>5, <1>6, <3>1
    <2> QED  BY <1>2, <2>1 DEF GivenKept
  <1> QED  BY <1>1, <1>7, <1>8, <1>9, <1>10 DEF RecoveryInv

LEMMA TruncateKeeps == RecoveryInv /\ TruncateWal => RecoveryInv'
  <1> SUFFICES ASSUME RecoveryInv, TruncateWal PROVE RecoveryInv'
    OBVIOUS
  <1>1. InvTypeOK'
    BY TypeStep DEF RecoveryInv, InvNext
  <1>2. /\ pc = "merged" /\ pc' = "ready" /\ wal' = << >> /\ Len(wal') = 0
        /\ UNCHANGED <<file, disk, mem, tombs, gone, since, had, dropped>>
    BY DEF TruncateWal, history
  <1>3. /\ file = [ t \in Tags |-> Both(t) \ tombs ]
        /\ dropped = [ v \in Vids |-> IF v \in tombs THEN { t \in Tags : v \in Both(t) } ELSE {} ]
    BY <1>2 DEF RecoveryInv, Merged
  <1>4. Applied = Len(wal) /\ Applied' = 0 /\ \A t : Both(t)' = Both(t)
    BY <1>2 DEF Applied, Both
  <1>5. \A v, t : ~DeadIn(wal', 0, v) /\ ~LoggedIn(wal', 0, v, t)
    BY NoRecord
  <1>6. ASSUME NEW v \in Vids
        PROVE  /\ DeadIn(wal, Len(wal), v) => v \in gone
               /\ v \in gone => Durable[v] = {}
               /\ v \in tombs => v \in gone
               /\ v \in gone /\ v \notin tombs => \A t \in Tags : v \notin Both(t)
    BY <1>2 DEF RecoveryInv, GoneExact, Pending
  <1>7. ASSUME NEW v \in Vids
        PROVE  /\ v \in tombs => /\ Stored(Len(wal), v)' = {}
                                 /\ dropped[v] = { t \in Tags : v \in Both(t) }
               /\ v \notin tombs => /\ Stored(Len(wal), v)' = { t \in Tags : v \in Both(t) }
                                    /\ dropped[v] = {}
    <2>1. Stored(Len(wal), v)' = { t \in Tags : v \in Both(t) /\ v \notin tombs }
      BY <1>2, <1>3, <1>5 DEF Stored
    <2> QED  BY <1>3, <2>1
  <1>8. (Replayed /\ Merged)'
    BY <1>2 DEF Replayed, Merged
  <1>9. Operating'
    <2>1. ASSUME NEW v \in Vids
          PROVE  /\ { t \in Tags : v \in Both(t)' } = Stored(Len(wal), v)' \cup dropped[v]
                 /\ ~DeadIn(wal', 0, v)
                 /\ v \in tombs => Stored(Len(wal), v)' = {}
      BY <1>4, <1>5, <1>7
    <2>2. \A v : Stored(Applied, v)' = Stored(Len(wal), v)'
      BY <1>2, <1>4
    <2> QED  BY <1>2, <1>4, <2>1, <2>2 DEF Operating
  <1>10. GoneExact'
    <2>1. ASSUME NEW v \in Vids, v \in gone PROVE Durable'[v] = {}
      <3>1. Durable'[v] = Stored(Len(wal), v)'
        BY <1>2, <1>5 DEF Durable
      <3> QED  BY <1>6, <1>7, <2>1, <3>1
    <2> QED  BY <1>2, <1>4, <1>5, <1>6, <2>1 DEF GoneExact
  <1>11. GivenKept'
    <2>1. ASSUME NEW v \in Vids
          PROVE  /\ v \in gone => since[v] = {}
                 /\ since[v] \subseteq Stored(Len(wal), v)'
                 /\ Stored(Len(wal), v)' \cup dropped[v] \subseteq had[v]
      <3>1. /\ v \in gone => since[v] = {}
            /\ since[v] \subseteq Stored(Len(wal), v)
            /\ Stored(Len(wal), v) \cup dropped[v] \subseteq had[v]
        BY DEF RecoveryInv, GivenKept
      <3>2. { t \in Tags : v \in Both(t) } = Stored(Len(wal), v) \cup dropped[v]
        BY <1>2, <1>4 DEF RecoveryInv, Operating
      <3> QED  BY <1>6, <1>7, <3>1, <3>2
    <2> QED  BY <1>2, <2>1 DEF GivenKept
  <1> QED  BY <1>1, <1>8, <1>9, <1>10, <1>11 DEF RecoveryInv

(* The process dies: what file and log have is untouched. *)
LEMMA CrashKeeps == RecoveryInv /\ Crash => RecoveryInv'
  <1> SUFFICES ASSUME RecoveryInv, Crash PROVE RecoveryInv'
    OBVIOUS
  <1>1. InvTypeOK'
    BY TypeStep DEF RecoveryInv, InvNext
  <1>2. pc' = "down" /\ dropped' = NoAttributes /\ UNCHANGED <<file, wal, gone, since, had>>
    BY DEF Crash
  <1>3. (Replayed /\ Operating /\ Merged)'
    BY <1>2 DEF Replayed, Operating, Merged
  <1>4. GoneExact'
    BY <1>2 DEF GoneExact, RecoveryInv, Durable, Stored
  <1>5. GivenKept'
    BY <1>2 DEF GivenKept, RecoveryInv, Stored, NoAttributes
  <1> QED  BY <1>1, <1>3, <1>4, <1>5 DEF RecoveryInv

(* The whole invariant, from the beginning and over every step. *)
LEMMA RecoveryInvStart == InvInit => RecoveryInv
  <1> SUFFICES ASSUME InvInit PROVE RecoveryInv
    OBVIOUS
  <1>1. InvTypeOK
    BY TypeStart
  <1>2. Replayed /\ Operating /\ Merged
    BY DEF InvInit, Replayed, Operating, Merged
  <1>3. GoneExact
    BY DEF InvInit, GoneExact, DeadIn
  <1>4. GivenKept
    <2>1. ASSUME NEW v \in Vids PROVE Stored(Len(wal), v) = Keys(InitialTags[v])
      <3>1. Len(wal) = 0 /\ \A t \in Tags : v \in file[t] <=> t \in Keys(InitialTags[v])
        BY DEF InvInit
      <3>2. Stored(0, v) = { t \in Tags : t \in Keys(InitialTags[v]) }
        BY <3>1, NoRecord DEF Stored
      <3> QED  BY <3>1, <3>2, FilterAssumption DEF Keys
    <2> QED  BY <2>1 DEF InvInit, GivenKept, NoAttributes
  <1> QED  BY <1>1, <1>2, <1>3, <1>4 DEF RecoveryInv

LEMMA RecoveryInvStep == RecoveryInv /\ [InvNext]_invVars => RecoveryInv'
  <1> SUFFICES ASSUME RecoveryInv, [InvNext]_invVars PROVE RecoveryInv'
    OBVIOUS
  <1>1. InvTypeOK'
    BY TypeStep DEF RecoveryInv
  <1>2. ASSUME NEW v \in Vids, Remove(v) PROVE RecoveryInv'
    BY <1>1, <1>2, RemoveRecorded, AppendKeeps
  <1>3. ASSUME NEW v \in Vids, NEW tags \in SUBSET Tags, Insert(v, tags) PROVE RecoveryInv'
    BY <1>1, <1>3, InsertRecorded, AppendKeeps
  <1>4. CASE MergeWrite
    <2>1. /\ pc = "ready" /\ pc' = "writing"
          /\ UNCHANGED <<file, wal, disk, mem, tombs, gone, since, had, dropped>>
      BY <1>4 DEF MergeWrite, history
    <2>2. Applied = Applied'
      BY <2>1 DEF Applied
    <2>3. (Replayed /\ Operating /\ Merged)'
      BY <2>1, <2>2 DEF RecoveryInv, Replayed, Operating, Merged, Both, Stored
    <2>4. GoneExact'
      BY <2>1 DEF RecoveryInv, GoneExact, Pending, Both, Durable, Stored
    <2>5. GivenKept'
      BY <2>1, GivenSame DEF RecoveryInv, history
    <2> QED  BY <1>1, <2>3, <2>4, <2>5 DEF RecoveryInv
  <1>5. CASE UNCHANGED invVars
    <2>1. UNCHANGED <<file, wal, disk, mem, tombs, pc, pos, gone, since, had, dropped>>
      BY <1>5 DEF invVars, history
    <2>2. (Replayed /\ Operating /\ Merged)'
      BY <2>1 DEF RecoveryInv, Replayed, Operating, Merged, Both, Stored, Applied
    <2>3. GoneExact'
      BY <2>1 DEF RecoveryInv, GoneExact, Pending, Both, Durable, Stored
    <2>4. GivenKept'
      BY <2>1, GivenSame DEF RecoveryInv, history
    <2> QED  BY <1>1, <2>2, <2>3, <2>4 DEF RecoveryInv
  <1> QED  BY <1>2, <1>3, <1>4, <1>5, LoadKeeps, RecoverStepKeeps, OpenWalKeeps, ApplyKeeps,
              MergeCloseKeeps, TruncateKeeps, CrashKeeps DEF InvNext

(* Under the invariant queries see what is durable and what came back. *)
LEMMA InvGivesRecovery == RecoveryInv => RecoveryExact
  <1> SUFFICES ASSUME RecoveryInv, pc \in {"ready", "writing", "merged"}, NEW v \in Vids
               PROVE  /\ v \in gone => Visible[v] = {} /\ Durable[v] = {}
                      /\ v \notin gone => Visible[v] = Durable[v] \cup dropped[v]
                      /\ since[v] \subseteq Durable[v] /\ Visible[v] \subseteq had[v]
    BY DEF RecoveryExact
  <1>1. Applied = Len(wal)
    BY DEF Applied
  <1>2. { t \in Tags : v \in Both(t) } = Stored(Len(wal), v) \cup dropped[v]
    BY <1>1 DEF RecoveryInv, Operating
  <1>3. /\ DeadIn(wal, Len(wal), v) => v \in gone
        /\ v \in gone => Durable[v] = {}
        /\ v \in tombs => v \in gone
        /\ v \in gone /\ v \notin tombs => \A t \in Tags : v \notin Both(t)
    BY DEF RecoveryInv, GoneExact, Pending
  <1>4. /\ v \in gone => since[v] = {}
        /\ since[v] \subseteq Stored(Len(wal), v)
        /\ Stored(Len(wal), v) \cup dropped[v] \subseteq had[v]
    BY DEF RecoveryInv, GivenKept
  <1>5. /\ Visible[v] = IF v \in tombs THEN {} ELSE { t \in Tags : v \in Both(t) }
        /\ Durable[v] = IF DeadIn(wal, Len(wal), v) THEN {} ELSE Stored(Len(wal), v)
    BY DEF Visible, Durable
  <1> QED  BY <1>2, <1>3, <1>4, <1>5

LEMMA VisibleAnswered ==
    ASSUME RecoveryInv, pc \in {"ready", "writing", "merged"}
    PROVE  Visible = Answered
  <1>1. ASSUME NEW v \in Vids PROVE Visible[v] = Answered[v]
    BY InvGivesRecovery DEF RecoveryExact, Answered
  <1> QED  BY <1>1 DEF Visible, Answered

(* What is visible is what queries are answered from. *)
LEMMA InvGivesQueries == RecoveryInv => QueriesExact
  <1> SUFFICES ASSUME RecoveryInv, pc \in {"ready", "writing", "merged"},
                      NEW tags \in SUBSET Tags
               PROVE  query_bitmap(tags) = Filter!Matching(Answered, tags)
    BY DEF QueriesExact
  <1>1. \A v \in Vids : Answered[v] = IF v \in tombs THEN {} ELSE { t \in Tags : v \in Both(t) }
    BY VisibleAnswered DEF Visible
  <1>2. Both(Universal) \subseteq Vids /\ Universal \in Tags
    BY FilterAssumption DEF RecoveryInv, InvTypeOK, Postings, Both
  <1> DEFINE all(v) == tags # {} /\ \A t \in tags : v \in Both(t)
  <1>3. query_bitmap(tags) = { v \in Vids : v \notin tombs /\ (v \in Both(Universal) \/ all(v)) }
    <2>1. CASE tags = {}
      BY <1>2, <2>1 DEF query_bitmap
    <2>2. CASE tags # {}
      BY <1>2, <2>2 DEF query_bitmap
    <2> QED  BY <2>1, <2>2
  <1>4. ASSUME NEW v \in Vids
        PROVE  /\ Universal \in Answered[v] <=> v \notin tombs /\ v \in Both(Universal)
               /\ tags # {} /\ tags \subseteq Answered[v] <=> v \notin tombs /\ all(v)
    <2>1. CASE v \in tombs
      BY <1>1, <2>1
    <2>2. CASE v \notin tombs
      <3>1. Answered[v] = { t \in Tags : v \in Both(t) }
        BY <1>1, <2>2
      <3> QED  BY <1>2, <2>2, <3>1
    <2> QED  BY <2>1, <2>2
  <1>5. Filter!Matching(Answered, tags) =
          { v \in Vids : Universal \in Answered[v] \/ (tags # {} /\ tags \subseteq Answered[v]) }
    BY DEF Filter!Matching
  <1> HIDE DEF all
  <1>6. \A v \in Vids : (v \notin tombs /\ (v \in Both(Universal) \/ all(v)))
                           <=> (Universal \in Answered[v] \/ (tags # {} /\ tags \subseteq Answered[v]))
    BY <1>4
  <1> QED  BY <1>3, <1>5, <1>6

(* The inductive invariant of recovery holds in every reachable state. *)
THEOREM RecoveryInvariant == InvSpec => []RecoveryInv
  BY RecoveryInvStart, RecoveryInvStep, PTL DEF InvSpec

(* Type correctness of the inverted index. *)
THEOREM FilterTypeCorrect == InvSpec => []InvTypeOK
  <1>1. RecoveryInv => InvTypeOK
    BY DEF RecoveryInv
  <1> QED  BY <1>1, RecoveryInvariant, PTL

(* A crash at any moment between two operations, in a merge too, followed   *)
(* by load and recover_from_wal brings back what was visible, but for what  *)
(* a vector had before it was removed, merged away and inserted again.      *)
THEOREM RecoveryCorrect == InvSpec => []RecoveryExact
  BY RecoveryInvariant, InvGivesRecovery, PTL

(* Every query answered between operations, and during a merge, is answered *)
(* as the abstract filter would answer it.                                  *)
THEOREM QueriesCorrect == InvSpec => []QueriesExact
  BY RecoveryInvariant, InvGivesQueries, PTL

-----------------------------------------------------------------------------
(* A step of the index is a step of the abstract filter or changes nothing  *)
(* that it knows of.                                                        *)
LEMMA AppendImplements ==
    ASSUME RecoveryInv, NEW r \in Records, Append_wal(r), Recorded(r)
    PROVE  \A v \in Vids :
              /\ r.op = "insert" /\ v = r.vid =>
                    /\ Answered'[v] = Stored(Len(wal), v) \cup dropped[v] \cup Keys(r.tags)
                    /\ v \notin gone => Answered[v] = Stored(Len(wal), v) \cup dropped[v]
                    /\ Stored(Len(wal), v) \cup dropped[v] \subseteq had[v]
              /\ r.op = "remove" /\ v = r.vid => Answered'[v] = {}
              /\ v # r.vid => Answered'[v] = Answered[v]
  <1>1. /\ wal \in Seq(Records) /\ wal' = Append(wal, r) /\ file' = file /\ dropped' = dropped
        /\ r.vid \in Vids /\ r.tags \in SUBSET Tags /\ r.op \in {"insert", "remove"}
    BY DEF RecoveryInv, InvTypeOK, Append_wal, Recorded, Records
  <1>2. \A v \in Vids :
           /\ DeadIn(wal, Len(wal), v)' <=>
                 IF r.vid = v THEN r.op = "remove" ELSE DeadIn(wal, Len(wal), v)
           /\ Stored(Len(wal), v)' =
                 IF r.vid = v /\ r.op = "insert"
                 THEN Stored(Len(wal), v) \cup (Keys(r.tags) \cap Tags)
                 ELSE Stored(Len(wal), v)
    BY <1>1, AppendedStored
  <1>3. Keys(r.tags) \cap Tags = Keys(r.tags)
    BY <1>1, FilterAssumption DEF Keys
  <1> TAKE v \in Vids
  <1>4. /\ DeadIn(wal, Len(wal), v) => v \in gone
        /\ Stored(Len(wal), v) \cup dropped[v] \subseteq had[v]
    BY DEF RecoveryInv, GoneExact, GivenKept
  <1>5. /\ Answered[v] = IF v \in gone THEN {} ELSE
              (IF DeadIn(wal, Len(wal), v) THEN {} ELSE Stored(Len(wal), v)) \cup dropped[v]
        /\ Answered'[v] = IF v \in gone' THEN {} ELSE
              (IF DeadIn(wal, Len(wal), v)' THEN {} ELSE Stored(Len(wal), v)') \cup dropped'[v]
    BY DEF Answered, Durable
  <1>6. CASE v # r.vid
    <2>1. v \in gone' <=> v \in gone
      BY <1>6 DEF Recorded
    <2> QED  BY <1>1, <1>2, <1>5, <1>6, <2>1
  <1>7. CASE v = r.vid /\ r.op = "remove"
    <2>1. v \in gone'
      BY <1>7 DEF Recorded
    <2> QED  BY <1>5, <1>7, <2>1
  <1>8. CASE v = r.vid /\ r.op = "insert"
    <2>1. v \notin gone'
      BY <1>8 DEF Recorded
    <2>2. ~DeadIn(wal, Len(wal), v)' /\ Stored(Len(wal), v)' = Stored(Len(wal), v) \cup Keys(r.tags)
      BY <1>2, <1>3, <1>8
    <2>3. Answered'[v] = Stored(Len(wal), v) \cup dropped[v] \cup Keys(r.tags)
      BY <1>1, <1>5, <2>1, <2>2
    <2>4. v \notin gone => Answered[v] = Stored(Len(wal), v) \cup dropped[v]
      BY <1>4, <1>5
    <2> QED  BY <1>4, <1>8, <2>3, <2>4
  <1> QED  BY <1>1, <1>6, <1>7, <1>8

(* Every step of the index maps to a step of the filter or to a stutter.    *)
(* A merge is a stutter; a crash is a restart of the filter.                *)
LEMMA StepImplements ==
    ASSUME RecoveryInv, RecoveryInv', [InvNext]_invVars
    PROVE  [Filter!FilterNext]_<<Answered, since, had, nOps>>
  <1>0. since \in Attributes /\ had \in Attributes
    BY DEF RecoveryInv, InvTypeOK
  <1>1. ASSUME NEW v \in Vids, Remove(v) PROVE Filter!FilterNext
    <2>1. PICK r \in Records : r.op = "remove" /\ r.vid = v /\ Append_wal(r) /\ Recorded(r)
      BY <1>1, RemoveRecorded
    <2>2. \A w \in Vids : Answered'[w] = IF w # v THEN Answered[w] ELSE {}
      BY <2>1, AppendImplements
    <2>3. Answered' = [Answered EXCEPT ![v] = {}]
      BY <2>2 DEF Answered
    <2>4. nOps' = nOps + 1 /\ since' = [since EXCEPT ![v] = {}] /\ had' = had
      BY <1>1 DEF Remove, Append_wal
    <2> QED  BY <2>3, <2>4 DEF Filter!FilterNext, Filter!FilterRemove
  <1>2. ASSUME NEW v \in Vids, NEW tags \in SUBSET Tags, Insert(v, tags) PROVE Filter!FilterNext
    <2>1. PICK r \in Records : /\ r.op = "insert" /\ r.vid = v /\ r.tags = tags
                               /\ Append_wal(r) /\ Recorded(r)
      BY <1>2, InsertRecorded
    <2> DEFINE back == IF v \in gone THEN Stored(Len(wal), v) \cup dropped[v] ELSE {}
    <2>2. Keys(tags) = Filter!Keys(tags)
      BY DEF Keys, Filter!Keys
    <2>3. /\ Answered'[v] = Stored(Len(wal), v) \cup dropped[v] \cup Keys(tags)
          /\ v \notin gone => Answered[v] = Stored(Len(wal), v) \cup dropped[v]
          /\ Stored(Len(wal), v) \cup dropped[v] \subseteq had[v]
          /\ \A w \in Vids : w # v => Answered'[w] = Answered[w]
      BY <2>1, AppendImplements
    <2>4. v \in gone => Answered[v] = {}
      BY DEF Answered
    <2>5. back \in SUBSET had[v] /\ (Answered[v] # {} => back = {})
      BY <2>3, <2>4
    <2>6. Answered'[v] = Answered[v] \cup Filter!Keys(tags) \cup back
      BY <2>2, <2>3, <2>4
    <2> HIDE DEF back
    <2>7. Answered' = [Answered EXCEPT ![v] = @ \cup Filter!Keys(tags) \cup back]
      BY <2>3, <2>6 DEF Answered
    <2>8. /\ nOps' = nOps + 1
          /\ since' = [since EXCEPT ![v] = @ \cup Filter!Keys(tags)]
          /\ had' = [had EXCEPT ![v] = @ \cup Filter!Keys(tags)]
      BY <1>2, <2>2 DEF Insert, Append_wal
    <2>9. Filter!FilterInsert(v, tags)
      BY <2>5, <2>7, <2>8 DEF Filter!FilterInsert
    <2> QED  BY <2>9 DEF Filter!FilterNext
  <1>3. CASE Load \/ RecoverStep \/ OpenWal \/ Apply \/ MergeWrite \/ UNCHANGED invVars
    <2>1. UNCHANGED <<file, wal, nOps, gone, since, had, dropped>>
      BY <1>3 DEF Load, RecoverStep, OpenWal, Apply, MergeWrite, invVars, history
    <2>2. Answered' = Answered
      BY <2>1 DEF Answered, Durable, Stored
    <2> QED  BY <2>1, <2>2
  <1>4. CASE MergeClose \/ TruncateWal
    <2>1. /\ pc \in {"writing", "merged"} /\ pc' \in {"ready", "merged"}
          /\ UNCHANGED <<disk, mem, tombs, nOps, since, had>>
      BY <1>4 DEF MergeClose, TruncateWal, history
    <2>2. Visible' = Visible
      BY <2>1 DEF Visible, Both
    <2>3. Visible = Answered
      BY <2>1, VisibleAnswered
    <2>4. (RecoveryInv /\ pc \in {"ready", "writing", "merged"} => Visible = Answered)'
      BY VisibleAnswered, PTL
    <2>5. Visible' = Answered'
      BY <2>1, <2>4
    <2> QED  BY <2>1, <2>2, <2>3, <2>5
  <1>5. CASE Crash
    <2>1. UNCHANGED <<file, wal, nOps, gone, since, had>> /\ dropped' = NoAttributes
      BY <1>5 DEF Crash
    <2>2. Answered' \in [Vids -> SUBSET Tags]
      BY <2>1 DEF Answered, Durable, Stored, NoAttributes
    <2>3. ASSUME NEW v \in Vids
          PROVE  since[v] \subseteq Answered'[v] /\ Answered'[v] \subseteq Answered[v]
      <3>1. /\ Answered'[v] = IF v \in gone THEN {} ELSE Durable[v]
            /\ Answered[v] = IF v \in gone THEN {} ELSE Durable[v] \cup dropped[v]
        BY <2>1 DEF Answered, Durable, Stored, NoAttributes
      <3>2. /\ v \in gone => since[v] = {}
            /\ since[v] \subseteq Stored(Len(wal), v)
            /\ DeadIn(wal, Len(wal), v) => v \in gone
        BY DEF RecoveryInv, GoneExact, GivenKept
      <3>3. Durable[v] = IF DeadIn(wal, Len(wal), v) THEN {} ELSE Stored(Len(wal), v)
        BY DEF Durable
      <3> QED  BY <3>1, <3>2, <3>3
    <2> QED  BY <2>1, <2>2, <2>3 DEF Filter!FilterNext, Filter!FilterRestart
  <1> QED  BY <1>1, <1>2, <1>3, <1>4, <1>5 DEF InvNext

(* The inverted index with its log, crashes, recoveries and merges          *)
(* implements the abstract filter.                                          *)
THEOREM FilterImplemented == InvSpec => ImplementsFilter
  <1>1. InvInit => Filter!FilterInit
    <2> SUFFICES ASSUME InvInit PROVE Filter!FilterInit
      OBVIOUS
    <2>1. ASSUME NEW v \in Vids PROVE Answered[v] = Keys(InitialTags[v])
      <3>1. /\ Len(wal) = 0 /\ gone = {} /\ dropped[v] = {}
            /\ \A t \in Tags : v \in file[t] <=> t \in Keys(InitialTags[v])
        BY DEF InvInit, NoAttributes
      <3>2. Stored(0, v) = { t \in Tags : t \in Keys(InitialTags[v]) }
        BY <3>1, NoRecord DEF Stored
      <3>3. Answered[v] = Stored(0, v)
        BY <3>1, NoRecord DEF Answered, Durable
      <3> QED  BY <3>2, <3>3, FilterAssumption DEF Keys
    <2>2. Answered = since /\ since \in [Vids -> SUBSET Tags] /\ had = since /\ nOps = 0
      BY <2>1, FilterAssumption DEF InvInit, Answered, Keys
    <2> QED  BY <2>2 DEF Filter!FilterInit
  <1>2. RecoveryInv /\ RecoveryInv' /\ [InvNext]_invVars
           => [Filter!FilterNext]_<<Answered, since, had, nOps>>
    BY StepImplements
  <1> QED  BY <1>1, <1>2, RecoveryInvariant, PTL DEF InvSpec, ImplementsFilter, Filter!FilterSpec
=============================================================================
