---------------------------- MODULE MCMemIndex ----------------------------
EXTENDS MemIndex

(* Points of a plane by tag; then the frozen point, a copy of one, and an *)
(* unwritten location.                                                    *)
At == << <<0, 0>>, <<2, 0>>, <<0, 2>>, <<3, 3>>, <<2, 0>>, <<0, 0>> >>

MCDist == [ a, b \in 0 .. 5 |->
    (At[a + 1][1] - At[b + 1][1]) * (At[a + 1][1] - At[b + 1][1])
        + (At[a + 1][2] - At[b + 1][2]) * (At[a + 1][2] - At[b + 1][2]) ]

MCAlphas == << <<1, 1>>, <<6, 5>> >>

MCTags == 0 .. 3

MCFrozen == 4

MCNone == 5

MCToLink == <<0, 1, 2>>

(* A full index, where insertions wait for it to grow and may find the one *)
(* new slot taken, and one of whose points only the last is not deleted.   *)
MCStarts ==
    { [max |-> 3, points |-> <<2, 1, 0>>, deleted |-> {},
       graph |-> << <<1, 2>>, <<2, 3>>, <<0, 3>>, <<1, 0>> >>],
      [max |-> 3, points |-> <<2, 1, 0>>, deleted |-> {1, 2},
       graph |-> << <<1, 3>>, <<2, 3>>, <<1, 3>>, <<1, 2>> >>] }

MCQueries == {1}

MCBatches == {{1}, {0, 1}}
=============================================================================
