----------------------------- MODULE MCInsertIO -----------------------------
(***************************************************************************)
(* Model checking of InsertIO under two client loads, one run for both:    *)
(* one client thread whose inserts search deep, with the background writer *)
(* beside it, and several threads whose inserts expand one record each.    *)
(***************************************************************************)
EXTENDS InsertIO

VARIABLE load    \* "serial" or "concurrent"

loadVars == <<allVars, load>>

Active == { i \in Inserts : pc[i] \notin {"idle", "done"} }

LoadInit == IOInit /\ load \in {"serial", "concurrent"}

(* Bounds of the two loads. *)
WithinLoad ==
    /\ load = "serial" => Cardinality(Active) <= 1
    /\ load = "concurrent" =>
         \A i \in Inserts : /\ Cardinality(visited[i]) <= 1 /\ Len(nhood[i]) <= 1
                            /\ visited[i] \subseteq {0} \cup Inserts

LoadNext == UNCHANGED load /\ IONext /\ WithinLoad'

LoadSpec == LoadInit /\ [][LoadNext]_loadVars

(* One client thread with the background writer: every record is found     *)
(* where id2loc_ says, linked to every insert that took it as a neighbour  *)
(* (insert_in_place, read_alloc, wbc_write, bg_io_thread).  With several   *)
(* threads a search's read can put a stale page over a newer one: that is  *)
(* the run io_stale.                                                       *)
SerialRecordsReadable == load = "serial" => RecordsReadable
=============================================================================
