---------------------------- MODULE MCInsertPath ----------------------------
(***************************************************************************)
(* Model checking of InsertPath.                                           *)
(***************************************************************************)
EXTENDS InsertPath

(* Bound of the run insert_unread: the first insert links to every loaded  *)
(* point, which empties their page; the others expand one record each.     *)
OneBigInsert ==
    /\ nhood[NumPoints] \in {<< >>, [ k \in 1 .. NumPoints |-> k - 1 ]}
    /\ \A i \in Inserts \ {NumPoints} :
         Cardinality(visited[i]) <= 1 /\ Len(hints[i]) <= 1
=============================================================================
