---------------------------- MODULE RankedLists ----------------------------
(***************************************************************************)
(* The two list operators that pruning and the searches are built from: a  *)
(* finite set in a given order (std::sort), and the entries of a list that *)
(* are in a set (a filtering loop).                                        *)
(***************************************************************************)
EXTENDS Integers, Sequences, FiniteSets, SequencesExt

(* The member of a singleton.  TLC evaluates an operator's argument anew at *)
(* each use, and a bound variable once.                                     *)
Only(S) == CHOOSE x \in S : TRUE

(* The members of S in the order Before, a set of pairs. *)
RankOf(S, Before) == [ n \in S |-> Cardinality({ m \in S : <<m, n>> \in Before }) ]

AtRanks(S, rank) == << >> \o [ i \in 1 .. Cardinality(S) |-> CHOOSE n \in S : rank[n] = i - 1 ]

InOrder(S, Before) ==
    Only({ AtRanks(S, rank) : rank \in { RankOf(S, before) : before \in {Before} } })

(* The entries of list that are in S, in their order. *)
Where(list, S) == { i \in DOMAIN list : list[i] \in S }

AtOf(list, at) ==
    << >> \o [ k \in 1 .. Cardinality(at) |->
        list[CHOOSE i \in at : Cardinality({ j \in at : j < i }) = k - 1] ]

Kept(list, S) ==
    Only({ AtOf(given, Where(given, s)) : given \in {list}, s \in {S} })
=============================================================================
