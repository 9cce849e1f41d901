---------------------------- MODULE ConcurrentMap ----------------------------
(* What cuckoohash_map promises its callers (id2loc_, page_layout, tags, id_map
   and the lock tables): a map whose operations each take effect at one instant
   between call and return, with the result that belongs to that instant. *)
EXTENDS Sequences

CONSTANTS Threads, Keys, Vals, NoVal, NoItem, Jobs, Loaded, LoadedVal

VARIABLES items,  \* the pairs stored
          job,    \* the operation each thread is in
          ret     \* what the last operation of each thread returned

Yes(b) == IF b THEN "yes" ELSE "no"

Having(is, k) == {i \in is : i.key = k}
Item(j) == [key |-> j.key, val |-> j.val]

\* the items after operation j on the items is, and what it returns
After(is, j) ==
    CASE j.op = "find" -> is
      [] j.op = "erase" -> is \ Having(is, j.key)
      [] j.op = "insert" /\ Having(is, j.key) # {} -> is
      [] j.op \in {"insert", "assign"} -> (is \ Having(is, j.key)) \cup {Item(j)}
      [] j.op = "range" -> is \cup {[key |-> k, val |-> j.val] :
                                      k \in {k \in {j.keys[i] : i \in DOMAIN j.keys} : Having(is, k) = {}}}
      [] j.op = "clear" -> {}

Answer(is, j) ==
    CASE j.op = "find" -> IF Having(is, j.key) = {} THEN NoVal
                          ELSE (CHOOSE i \in Having(is, j.key) : TRUE).val
      [] j.op = "erase" -> Yes(Having(is, j.key) # {})
      [] j.op \in {"insert", "assign"} -> Yes(Having(is, j.key) = {})
      [] j.op \in {"range", "clear"} -> "yes"

Start(t) ==
    /\ job[t] = NoItem
    /\ \E j \in Jobs : job' = [job EXCEPT ![t] = j]
    /\ UNCHANGED <<items, ret>>

Finish(t) ==
    /\ job[t] # NoItem
    /\ job' = [job EXCEPT ![t] = NoItem]
    /\ ret' = [ret EXCEPT ![t] = Answer(items, job[t])]
    /\ items' = After(items, job[t])

MapInit ==
    /\ items = {[key |-> Loaded[i], val |-> LoadedVal] : i \in DOMAIN Loaded}
    /\ job = [t \in Threads |-> NoItem]
    /\ ret = [t \in Threads |-> "no"]

MapNext == \E t \in Threads : Start(t) \/ Finish(t)

MapSpec == MapInit /\ [][MapNext]_<<items, job, ret>>
==============================================================================
