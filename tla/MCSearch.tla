------------------------------ MODULE MCSearch ------------------------------
(* Instances of Search for TLC: a graph of four or five ids on two pages    *)
(* and queries for which PQ and exact distances disagree.                   *)
EXTENDS Search

MCNodes == 0 .. 4

MCGraph == 0 :> <<1, 2>> @@ 1 :> <<3, 4>> @@ 2 :> <<4, 0>> @@ 3 :> <<0>> @@ 4 :> <<2, 3>>

MCPage == 0 :> 1 @@ 1 :> 1 @@ 2 :> 2 @@ 3 :> 2 @@ 4 :> 3 @@ 5 :> 3 @@ 6 :> 1

MCTag == [n \in MCNodes |-> n]

D(a, b, c, d, e) == 0 :> a @@ 1 :> b @@ 2 :> c @@ 3 :> d @@ 4 :> e

MCQueries == {[pq |-> D(5, 4, 3, 2, 1), exact |-> D(5, 4, 2, 3, 1)],
              [pq |-> D(3, 1, 5, 2, 4), exact |-> D(3, 4, 5, 2, 1)]}

MCEntries == {<<1, 0>>}

MCNewId == "t1" :> 5 @@ "t2" :> 6

(* Searches beside an insert, two inserts, a pipe beside a beam search,     *)
(* and, as they share no more than the beam search does, filtered searches  *)
(* and coroutines on their own.                                             *)
Mix(S, T) == "t1" :> S @@ "t2" :> T

MCMixes ==
    {Mix({"page", "beam"}, {"insert"}), Mix({"insert"}, {"insert"}),
     Mix({"pipe"}, {"beam"}), Mix({"filter"}, {}), Mix({"coro"}, {})}

(* The mix of a dynamic index opened in PIPE_SEARCH mode.                   *)
PipeMixes == {Mix({"pipe"}, {"insert"})}

FilterMixes == {Mix({"filter"}, {"beam"})}
=============================================================================
