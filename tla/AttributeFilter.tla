-------------------------- MODULE AttributeFilter --------------------------
(***************************************************************************)
(* What the inverted index promises: it maps every vector to its           *)
(* attributes, an operation is all or nothing, and none that has returned  *)
(* is lost.  A vector that was removed and is inserted again has its new   *)
(* attributes for certain; of its old ones some may come back with them,   *)
(* and a restart may lose those again, but never a new one.                *)
(***************************************************************************)
EXTENDS Naturals

CONSTANTS
    Vids,        \* vector ids
    Tags,        \* attribute values, the universal one included
    Universal    \* _universal_tag

VARIABLES
    attrs,       \* the attributes of each vector; none: not in the index
    since, had,  \* attributes given since its last removal, and ever
    ops          \* operations done

(* A universal vector is filed under the universal tag alone. *)
Keys(tags) == IF Universal \in tags THEN {Universal} ELSE tags

(* The vectors that have all the queried attributes, and the universal ones. *)
Matching(of, tags) ==
    { v \in Vids : Universal \in of[v] \/ (tags # {} /\ tags \subseteq of[v]) }

FilterInit ==
    /\ attrs \in [Vids -> SUBSET Tags] /\ since = attrs /\ had = attrs
    /\ ops = 0

(* Old attributes come back only to a vector that is not in the index. *)
FilterInsert(v, tags) ==
    /\ since' = [since EXCEPT ![v] = @ \cup Keys(tags)]
    /\ had' = [had EXCEPT ![v] = @ \cup Keys(tags)]
    /\ \E old \in SUBSET had[v] :
        /\ attrs[v] # {} => old = {}
        /\ attrs' = [attrs EXCEPT ![v] = @ \cup Keys(tags) \cup old]
    /\ ops' = ops + 1

FilterRemove(v) ==
    /\ attrs' = [attrs EXCEPT ![v] = {}]
    /\ since' = [since EXCEPT ![v] = {}]
    /\ ops' = ops + 1
    /\ UNCHANGED had

(* A vector that was never removed, all of whose attributes are in since,   *)
(* comes out of a restart unchanged.                                        *)
FilterRestart ==
    /\ attrs' \in [Vids -> SUBSET Tags]
    /\ \A v \in Vids : since[v] \subseteq attrs'[v] /\ attrs'[v] \subseteq attrs[v]
    /\ UNCHANGED <<since, had, ops>>

FilterNext ==
    \/ \E v \in Vids : FilterRemove(v) \/ \E tags \in SUBSET Tags : FilterInsert(v, tags)
    \/ FilterRestart

FilterSpec == FilterInit /\ [][FilterNext]_<<attrs, since, had, ops>>
=============================================================================
