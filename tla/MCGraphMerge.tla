---------------------------- MODULE MCGraphMerge ----------------------------
EXTENDS GraphMerge

(* Five points of a plane; the distance is the squared one, as for L2. *)
At == << <<0, 0>>, <<2, 0>>, <<0, 2>>, <<3, 3>>, <<5, 0>> >>

MCDist == [ a, b \in 0 .. 4 |->
    (At[a + 1][1] - At[b + 1][1]) * (At[a + 1][1] - At[b + 1][1])
        + (At[a + 1][2] - At[b + 1][2]) * (At[a + 1][2] - At[b + 1][2]) ]

MCPoints == 0 .. 4

MCAlphas == << <<1, 1>>, <<6, 5>> >>

MCStarts ==
    { [nbrs |-> [ i \in 0 .. 3 |-> << <<1, 2>>, <<0, 3>>, <<3, 0>>, <<1>> >>[i + 1] ], medoid |-> 3] }
=============================================================================
