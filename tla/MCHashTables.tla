---------------------------- MODULE MCHashTables ----------------------------
(* The two vendored hash tables against the one map they promise: a behaviour uses one
   of them. The cuckoo table has two slots a bucket and one full bucket to start with.
   The first new key doubles the table and its locks, the next ones displace others, the
   last one doubles it again, lazily, since there are at most two locks. Of the keys of
   the robin table three are homed in the last bucket of four, so that runs of displaced
   keys cross the end of the array; it grows from none to eight buckets and more after
   two long probes. *)
EXTENDS CuckooMap, TLC

CONSTANTS t1, t2, k1, k2, k3, k4, k5, v1, v2, NoKey

VARIABLES which,   \* the table in use
          m_buckets, m_nb_elements, m_grow_on_next_insert, robinJob, robinRet

MCHash == k1 :> 0 @@ k2 :> 2 @@ k3 :> 4 @@ k4 :> 1 @@ k5 :> 3
MCMix == k1 :> 1 @@ k2 :> 3 @@ k3 :> 2 @@ k4 :> 1 @@ k5 :> 2
MCLoaded == <<k1, k2>>
MCJobs == [op : {"insert"}, key : {k3, k4, k5}, val : {v1}]
          \cup {[op |-> "assign", key |-> k3, val |-> v2]}
          \cup [op : {"find"}, key : {k1, k3}, val : {NoVal}]
          \cup {[op |-> "erase", key |-> k1, val |-> NoVal],
                [op |-> "clear", key |-> NoVal, val |-> NoVal]}

RobinKeyHash == k1 :> 3 @@ k2 :> 7 @@ k3 :> 11 @@ k4 :> 0 @@ k5 :> 4
RobinJobs == [op : {"insert"}, key : Keys, val : {v1}]
             \cup [op : {"assign"}, key : {k1, k4}, val : {v2}]
             \cup [op : {"find", "erase"}, key : Keys, val : {NoVal}]
             \cup {[op |-> "range", keys |-> <<k3, k1, k5>>, val |-> v1], [op |-> "clear"]}

Robin == INSTANCE RobinHash WITH
    Hash <- RobinKeyHash, Jobs <- RobinJobs, Buckets0 <- 0, NProbes <- 2, MaxBuckets <- 16,
    job <- robinJob, ret <- robinRet

robinVars == <<m_buckets, m_nb_elements, m_grow_on_next_insert, robinJob, robinRet>>

Symmetry == Permutations(Threads)

TablesInit == which \in {"cuckoo", "robin"} /\ Init /\ Robin!Init

TablesNext ==
    \/ which = "cuckoo" /\ Next /\ UNCHANGED <<which, robinVars>>
    \/ which = "robin" /\ Robin!Next /\ UNCHANGED <<which, vars>>

TablesSpec == TablesInit /\ [][TablesNext]_<<which, robinVars, vars>>

(* Robin table: its types; the order find_impl relies on to stop early (insert_value,
   erase_from_bucket); an exact m_nb_elements, and an empty bucket left for the probing
   and displacement loops to end at (insert_impl, grow_on_high_load). *)
RobinInv == Robin!RobinInv

(* Robin table: every call has the effect and result of the map's operation. *)
RobinImplementsMap == Robin!ImplementsMap
==============================================================================
