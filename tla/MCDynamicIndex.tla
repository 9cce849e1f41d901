--------------------------- MODULE MCDynamicIndex ---------------------------
EXTENDS DynamicIndex

(* Merges of every kind, in every order: a merge_deletes may follow one     *)
(* that does not lock merge_lock.                                           *)
AllKinds == {"final", "stream", "graph"}
=============================================================================
