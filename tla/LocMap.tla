------------------------------- MODULE LocMap -------------------------------
(***************************************************************************)
(* The location map of an SSDIndex: page_layout, empty_pages and cur_loc,  *)
(* and what alloc_loc and erase_and_set_loc do to them.                    *)
(*                                                                         *)
(* A location is the pair <<sector, slot>> that loc_sector_no and the      *)
(* remainder by nnodes_per_sector make of the code's integer loc;          *)
(* sector_to_loc is its inverse.  Sector 0 holds the metadata.  cur_loc is *)
(* sector aligned after every operation, so it is kept as the sector it    *)
(* points to: curPage stands for cur_loc = sector_to_loc(curPage, 0).      *)
(* page_layout has an entry for exactly the sectors below curPage.         *)
(***************************************************************************)
EXTENDS Integers, Sequences, FiniteSets

CONSTANTS
    nnodes_per_sector,  \* slots of a sector
    kInvalidID,         \* "this slot is a hole"
    kAllocatedID        \* "this slot is reserved by an insert in flight"

ASSUME NnodesAssumption == nnodes_per_sector \in Nat \ {0}

Slots == 0 .. nnodes_per_sector - 1

(* kIndexSizeFactor is 2: hint pages that are at least half empty are reused. *)
Threshold == (nnodes_per_sector + 1) \div 2

Elems(s) == { s[k] : k \in DOMAIN s }

PagesOf(locs) == { locs[k][1] : k \in DOMAIN locs }

loc2id(layout, l) == layout[l[1]][l[2]]

Holes(layout, p) == { s \in Slots : layout[p][s] = kInvalidID }

IsEmptyPage(layout, p) == \A s \in Slots : layout[p][s] = kInvalidID

-----------------------------------------------------------------------------
(* The slots alloc_loc may hand out, class by class: every slot of a queued *)
(* empty page, the holes of the hint pages that have enough of them, and    *)
(* fresh sectors.  Draining the queue fills its pages, so a hint page that  *)
(* is also queued offers nothing more.                                      *)
QueueLocs(empty) == Elems(empty) \X Slots

HintPages(layout, empty, hints) ==
    { p \in (Elems(hints) \cap DOMAIN layout) \ Elems(empty) :
          Cardinality(Holes(layout, p)) >= Threshold }

HintLocs(layout, empty, hints) ==
    { l \in HintPages(layout, empty, hints) \X Slots :
          loc2id(layout, l) = kInvalidID }

FreshLocs(curPage, n) ==
    (curPage .. curPage + (n - 1) \div nnodes_per_sector) \X Slots

FreeLocs(layout, empty, curPage, hints, n) ==
    QueueLocs(empty) \cup HintLocs(layout, empty, hints) \cup FreshLocs(curPage, n)

(* The order of the three loops: queue order, then hint order, then sector  *)
(* number; slots of one sector in ascending order.                          *)
FirstIn(s, p) == CHOOSE k \in DOMAIN s : s[k] = p /\ \A j \in 1 .. k - 1 : s[j] # p

PageRank(empty, curPage, hints, p) ==
    IF p \in Elems(empty) THEN FirstIn(empty, p)
    ELSE IF p < curPage THEN Len(empty) + FirstIn(hints, p)
    ELSE Len(empty) + Len(hints) + p

(* The result of alloc_loc: the first n free slots in that order (one       *)
(* sequence).  Slots with n or more free slots before them need not be      *)
(* considered.                                                              *)
alloc_loc(layout, empty, curPage, hints, n) ==
    LET ranked == { [rank |-> PageRank(empty, curPage, hints, f[1]), loc |-> f] :
                      f \in FreeLocs(layout, empty, curPage, hints, n) }
        before(a, b) == a.rank < b.rank \/ (a.rank = b.rank /\ a.loc[2] < b.loc[2])
        near == { f \in ranked : Cardinality({ g \in ranked : before(g, f) }) < n }
        firsts == { l \in [1 .. n -> near] :
                      /\ \A j, k \in 1 .. n : j < k => before(l[j], l[k])
                      /\ \A f \in ranked : before(f, l[n]) => \E k \in 1 .. n : l[k] = f }
    IN  { [ k \in 1 .. n |-> l[k].loc ] : l \in firsts }

(* Mutant of page_need_to_read: nothing is read before it is written. *)
NothingToRead(layout, empty, hints, locs) == {}

(* page_need_to_read: a hint page that still holds something has to be     *)
(* read before it is written; queued and fresh pages are not.               *)
page_need_to_read(layout, empty, hints, locs) ==
    { p \in PagesOf(locs) \cap HintPages(layout, empty, hints) :
          Cardinality(Holes(layout, p)) < nnodes_per_sector }

(* page_layout after alloc_loc: the slots are reserved, the other slots of  *)
(* a fresh sector are holes.                                                *)
Reserve(layout, locs, lastPage) ==
    [ p \in 1 .. lastPage |->
        [ s \in Slots |->
            IF <<p, s>> \in Elems(locs) THEN kAllocatedID
            ELSE IF p \in DOMAIN layout THEN layout[p][s]
            ELSE kInvalidID ] ]

(* Mutant of erase_and_set_loc: the last new slot, the target's, is left out. *)
SetNeighboursOnly(layout, oldLocs, newLocs, ids, m) ==
    [ p \in DOMAIN layout |->
        [ s \in Slots |->
            IF \E k \in 1 .. m : oldLocs[k] = <<p, s>> THEN kInvalidID
            ELSE IF \E k \in 1 .. Len(newLocs) - 1 : newLocs[k] = <<p, s>>
                 THEN ids[CHOOSE k \in DOMAIN newLocs : newLocs[k] = <<p, s>>]
            ELSE layout[p][s] ] ]

(* page_layout inside erase_and_set_loc: every new slot has got its id and  *)
(* the first m old slots have been erased; m = Len(oldLocs) is the result.  *)
erase_and_set_loc(layout, oldLocs, newLocs, ids, m) ==
    [ p \in DOMAIN layout |->
        [ s \in Slots |->
            IF \E k \in 1 .. m : oldLocs[k] = <<p, s>> THEN kInvalidID
            ELSE IF <<p, s>> \in Elems(newLocs)
                 THEN ids[CHOOSE k \in DOMAIN newLocs : newLocs[k] = <<p, s>>]
            ELSE layout[p][s] ] ]

(* Mutant of PushedPages: every erasure pushes its sector. *)
PushedAlways(layout, oldLocs, newLocs, ids) ==
    { [ j \in DOMAIN oldLocs |-> oldLocs[j][1] ] }

(* erase_loc2id pushes the sector whenever the erasure leaves it empty: the *)
(* sectors pushed by erase_and_set_loc, in order (one sequence).            *)
PushedPages(layout, oldLocs, newLocs, ids) ==
    LET emptying == { m \in 1 .. Len(oldLocs) :
                        IsEmptyPage(erase_and_set_loc(layout, oldLocs, newLocs, ids, m),
                                    oldLocs[m][1]) }
        steps == { idx \in UNION { [1 .. c -> emptying] : c \in 0 .. Len(oldLocs) } :
                     /\ Elems(idx) = emptying
                     /\ \A j, k \in DOMAIN idx : j < k => idx[j] < idx[k] }
    IN  { [ j \in DOMAIN idx |-> oldLocs[idx[j]][1] ] : idx \in steps }
=============================================================================
