--------------------------- MODULE InvertedIndex ---------------------------
(***************************************************************************)
(* InvertedIndexSearcher: postings loaded from the index file, postings    *)
(* and tombstones in memory, a write-ahead log, a merge that writes a new  *)
(* index file and truncates the log, and crashes between any two steps.    *)
(*                                                                         *)
(* The universal bitmaps are the postings of the universal tag.  A crash   *)
(* is the end of the process: what was handed to the operating system      *)
(* stays.  merge writes to a path of its own, so a crash while it writes   *)
(* leaves the previous index file in use.                                  *)
(***************************************************************************)
EXTENDS Integers, Sequences

CONSTANTS
    Vids, Tags, Universal,   \* as in AttributeFilter
    InitialTags,             \* the attributes in the label file
    MaxOps                   \* bound: inserts and removes in a behaviour

ASSUME FilterAssumption ==
    /\ Universal \in Tags
    /\ InitialTags \in [Vids -> SUBSET Tags]
    /\ MaxOps \in Nat

VARIABLES
    file,          \* the newest complete index file
    wal,           \* the log file
    disk,          \* _disk_index, _disk_universal_bitmap
    mem,           \* _mem_index, _mem_universal_bitmap
    tombs,         \* _deleted_bitmap
    pc,            \* where the process is
    pos,           \* records replayed by recover_from_wal
    nOps,          \* operations so far
    \* history of what was asked for, and of what merges took out of the file
    gone,          \* vids whose last operation is a remove
    since, had,    \* attributes given to each vid since its last remove, and ever
    dropped        \* attributes memory has of vids the last merge left out

history == <<gone, since, had, dropped>>

invVars == <<file, wal, disk, mem, tombs, pc, pos, nOps, history>>

Keys(tags) == IF Universal \in tags THEN {Universal} ELSE tags

Postings == [Tags -> SUBSET Vids]

Attributes == [Vids -> SUBSET Tags]

NoAttributes == [ v \in Vids |-> {} ]

NoPostings == [ t \in Tags |-> {} ]

Records == [op : {"insert"}, vid : Vids, tags : SUBSET Tags]
           \cup [op : {"remove"}, vid : Vids, tags : {{}}]

(* InvertedIndexBuilder::build, and an empty log. *)
InvInit ==
    /\ file = [ t \in Tags |-> { v \in Vids : t \in Keys(InitialTags[v]) } ]
    /\ wal = << >>
    /\ disk = NoPostings /\ mem = NoPostings /\ tombs = {}
    /\ pc = "down" /\ pos = 0
    /\ nOps = 0
    /\ gone = {} /\ dropped = NoAttributes
    /\ since = [ v \in Vids |-> Keys(InitialTags[v]) ] /\ had = since

(* query_bitmap *)
Both(t) == disk[t] \cup mem[t]

(* Mutant of query_bitmap: the universal vectors escape the tombstones. *)
QueryUniversalLast(tags) ==
    LET matching == IF tags = {} THEN {} ELSE { v \in Vids : \A t \in tags : v \in Both(t) }
    IN  (matching \ tombs) \cup Both(Universal)

query_bitmap(tags) ==
    LET matching == IF tags = {} THEN {} ELSE { v \in Vids : \A t \in tags : v \in Both(t) }
    IN  (matching \cup Both(Universal)) \ tombs

(* _apply_insert_to_mem, _apply_remove_to_mem *)
_apply_insert_to_mem(vid, tags) ==
    /\ mem' = [ t \in Tags |-> IF t \in Keys(tags) THEN mem[t] \cup {vid} ELSE mem[t] ]
    /\ tombs' = tombs \ {vid}

_apply_remove_to_mem(vid) ==
    /\ tombs' = tombs \cup {vid}
    /\ UNCHANGED mem

ApplyRecord(r) ==
    \/ r.op = "insert" /\ _apply_insert_to_mem(r.vid, r.tags)
    \/ r.op = "remove" /\ _apply_remove_to_mem(r.vid)

-----------------------------------------------------------------------------
(* A restart: load, then recover_from_wal record by record, then open_wal. *)
Load ==
    /\ pc = "down"
    /\ disk' = file
    /\ mem' = NoPostings /\ tombs' = {}
    /\ pc' = "recover" /\ pos' = 0
    /\ UNCHANGED <<file, wal, nOps, history>>

RecoverStep ==
    /\ pc = "recover" /\ pos < Len(wal)
    /\ pos' = pos + 1
    /\ ApplyRecord(wal[pos + 1])
    /\ UNCHANGED <<file, wal, disk, pc, nOps, history>>

(* Mutant of OpenWal: the index is used before the log is replayed. *)
OpenWalEarly ==
    /\ pc = "recover"
    /\ pc' = "ready"
    /\ UNCHANGED <<file, wal, disk, mem, tombs, pos, nOps, history>>

OpenWal ==
    /\ pc = "recover" /\ pos = Len(wal)
    /\ pc' = "ready"
    /\ UNCHANGED <<file, wal, disk, mem, tombs, pos, nOps, history>>

(* insert and remove: the record is appended and flushed, then applied. *)
Append_wal(r) ==
    /\ pc = "ready"
    /\ nOps < MaxOps
    /\ nOps' = nOps + 1
    /\ wal' = Append(wal, r)
    /\ pc' = "apply"
    /\ UNCHANGED <<file, disk, mem, tombs, pos>>

Insert(v, tags) ==
    /\ Append_wal([op |-> "insert", vid |-> v, tags |-> tags])
    /\ gone' = gone \ {v}
    /\ since' = [since EXCEPT ![v] = @ \cup Keys(tags)]
    /\ had' = [had EXCEPT ![v] = @ \cup Keys(tags)]
    /\ UNCHANGED dropped

Remove(v) ==
    /\ Append_wal([op |-> "remove", vid |-> v, tags |-> {}])
    /\ gone' = gone \cup {v}
    /\ since' = [since EXCEPT ![v] = {}]
    /\ UNCHANGED <<had, dropped>>

Apply ==
    /\ pc = "apply"
    /\ pc' = "ready"
    /\ ApplyRecord(wal[Len(wal)])
    /\ UNCHANGED <<file, wal, disk, pos, nOps, history>>

(* Mutant of MergeWrite: the log is truncated before the file is complete. *)
TruncateFirst ==
    /\ pc = "ready"
    /\ pc' = "writing"
    /\ wal' = << >> /\ pos' = 0
    /\ UNCHANGED <<file, disk, mem, tombs, nOps, history>>

(* merge: the new file is written, closed, and the log truncated.  The     *)
(* postings and tombstones in memory stay as they are.                     *)
MergeWrite ==
    /\ pc = "ready"
    /\ pc' = "writing"
    /\ UNCHANGED <<file, wal, disk, mem, tombs, pos, nOps, history>>

(* Mutant of MergeClose: tombstones are not subtracted. *)
MergeCloseRaw ==
    /\ pc = "writing"
    /\ pc' = "merged"
    /\ file' = [ t \in Tags |-> Both(t) ]
    /\ dropped' = NoAttributes
    /\ UNCHANGED <<wal, disk, mem, tombs, pos, nOps, gone, since, had>>

MergeClose ==
    /\ pc = "writing"
    /\ pc' = "merged"
    /\ file' = [ t \in Tags |-> Both(t) \ tombs ]
    /\ dropped' = [ v \in Vids |-> IF v \in tombs THEN { t \in Tags : v \in Both(t) } ELSE {} ]
    /\ UNCHANGED <<wal, disk, mem, tombs, pos, nOps, gone, since, had>>

TruncateWal ==
    /\ pc = "merged"
    /\ pc' = "ready"
    /\ wal' = << >> /\ pos' = 0
    /\ UNCHANGED <<file, disk, mem, tombs, nOps, history>>

(* The process dies. *)
Crash ==
    /\ pc # "down"
    /\ pc' = "down"
    /\ disk' = NoPostings /\ mem' = NoPostings /\ tombs' = {} /\ pos' = 0
    /\ dropped' = NoAttributes
    /\ UNCHANGED <<file, wal, nOps, gone, since, had>>

InvNext ==
    \/ Load
    \/ RecoverStep
    \/ OpenWal
    \/ \E v \in Vids : Remove(v) \/ \E tags \in SUBSET Tags : Insert(v, tags)
    \/ Apply
    \/ MergeWrite
    \/ MergeClose
    \/ TruncateWal
    \/ Crash

InvSpec == InvInit /\ [][InvNext]_invVars

-----------------------------------------------------------------------------
(* Type invariant. *)
InvTypeOK ==
    /\ file \in Postings /\ disk \in Postings /\ mem \in Postings
    /\ wal \in Seq(Records)
    /\ tombs \subseteq Vids /\ gone \subseteq Vids
    /\ pc \in {"down", "recover", "ready", "apply", "writing", "merged"}
    /\ pos \in 0 .. Len(wal)
    /\ nOps \in 0 .. MaxOps
    /\ since \in Attributes /\ had \in Attributes /\ dropped \in Attributes

(* The effect of the first n records of a log. *)
DeadIn(log, n, v) ==
    \E k \in 1 .. n :
        /\ log[k].op = "remove" /\ log[k].vid = v
        /\ \A j \in k + 1 .. n : log[j].vid = v => log[j].op = "remove"

LoggedIn(log, n, v, t) ==
    \E k \in 1 .. n :
        log[k].op = "insert" /\ log[k].vid = v /\ t \in Keys(log[k].tags)

(* What file and the first n records of the log have of a vector. *)
Stored(n, v) == { t \in Tags : v \in file[t] \/ LoggedIn(wal, n, v, t) }

(* What a recovery that starts now would make visible. *)
Durable == [ v \in Vids |-> IF DeadIn(wal, Len(wal), v) THEN {} ELSE Stored(Len(wal), v) ]

(* What queries see. *)
Visible == [ v \in Vids |-> IF v \in tombs THEN {} ELSE { t \in Tags : v \in Both(t) } ]

(* What queries should see: what is durable, and of a vector removed before *)
(* the last merge and inserted after it what memory still has of it.        *)
Answered == [ v \in Vids |-> IF v \in gone THEN {} ELSE Durable[v] \cup dropped[v] ]

(* "State AFTER matches State BEFORE": whenever no operation is half done,  *)
(* in the middle of a merge too, a crash and the recovery after it would    *)
(* give back what queries see now, but for attributes that a vector had     *)
(* before it was removed, merged away and inserted again.  Every attribute  *)
(* given since its last removal comes back, none that it never had, and     *)
(* nothing of a removed vector.                                             *)
RecoveryExact ==
    pc \in {"ready", "writing", "merged"} =>
        \A v \in Vids :
            /\ v \in gone => Visible[v] = {} /\ Durable[v] = {}
            /\ v \notin gone => Visible[v] = Durable[v] \cup dropped[v]
            /\ since[v] \subseteq Durable[v] /\ Visible[v] \subseteq had[v]

(* The index implements the abstract filter: an operation takes effect when *)
(* its record is in the log, and nothing is lost or half done by a crash,   *)
(* by a recovery (itself interrupted or not) or by a merge.                 *)
Filter == INSTANCE AttributeFilter WITH attrs <- Answered, ops <- nOps

ImplementsFilter == Filter!FilterSpec

(* Every query is answered as the abstract filter would answer it. *)
QueriesExact ==
    pc \in {"ready", "writing", "merged"} =>
        \A tags \in SUBSET Tags : query_bitmap(tags) = Filter!Matching(Answered, tags)

(* The records whose effect is in memory. *)
Applied ==
    CASE pc = "recover" -> pos
      [] pc = "apply"   -> Len(wal) - 1
      [] OTHER          -> Len(wal)

(* During a recovery memory is the effect of the records replayed so far. *)
Replayed ==
    /\ pc \in {"down", "recover"} => dropped = NoAttributes
    /\ pc = "recover" =>
        /\ disk = file
        /\ mem = [ t \in Tags |-> { v \in Vids : LoggedIn(wal, pos, v, t) } ]
        /\ tombs = { v \in Vids : DeadIn(wal, pos, v) }

(* In operation memory also holds what the last merge left out: a tombstone *)
(* whose record is gone is for a vector that is in no file.                 *)
Operating ==
    pc \in {"ready", "apply", "writing", "merged"} =>
        \A v \in Vids :
            /\ { t \in Tags : v \in Both(t) } = Stored(Applied, v) \cup dropped[v]
            /\ DeadIn(wal, Applied, v) => v \in tombs
            /\ v \in tombs => DeadIn(wal, Applied, v) \/ Stored(Applied, v) = {}

(* Between the new file and the truncation, the file is what is visible. *)
Merged ==
    pc = "merged" =>
        /\ file = [ t \in Tags |-> Both(t) \ tombs ]
        /\ dropped = [ v \in Vids |-> IF v \in tombs THEN { t \in Tags : v \in Both(t) } ELSE {} ]

(* The record that waits for Apply. *)
Pending(v) == pc = "apply" /\ wal[Len(wal)].vid = v

(* Removed vectors: the log and memory agree with what was asked for, but   *)
(* for a record that waits to be applied.                                   *)
GoneExact ==
    /\ pc = "apply" => /\ Len(wal) > 0
                       /\ wal[Len(wal)].op = "insert" => wal[Len(wal)].vid \notin gone
    /\ \A v \in Vids :
        /\ DeadIn(wal, Len(wal), v) => v \in gone
        /\ v \in gone => Durable[v] = {}
        /\ pc \in {"ready", "apply", "writing", "merged"} /\ ~Pending(v) =>
              /\ v \in tombs => v \in gone
              /\ v \in gone /\ v \notin tombs => \A t \in Tags : v \notin Both(t)

(* What was given since the last removal is stored, and nothing is that was *)
(* never given.                                                             *)
GivenKept ==
    \A v \in Vids :
        /\ v \in gone => since[v] = {}
        /\ since[v] \subseteq Stored(Len(wal), v)
        /\ Stored(Len(wal), v) \cup dropped[v] \subseteq had[v]

(* The inductive invariant. *)
RecoveryInv == InvTypeOK /\ Replayed /\ Operating /\ Merged /\ GoneExact /\ GivenKept
=============================================================================
