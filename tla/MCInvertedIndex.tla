-------------------------- MODULE MCInvertedIndex --------------------------
EXTENDS InvertedIndex, TLC

CONSTANTS v0, v1, a, b, u

(* The label file has one vector, with the attribute a. *)
MCInitialTags == v0 :> {a} @@ v1 :> {}
=============================================================================
