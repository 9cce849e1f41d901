--------------------------- MODULE MemIndexProofs ---------------------------
(***************************************************************************)
(* Proofs about MemIndex, for any number of threads, tags, calls and       *)
(* locations: its maps and slots, whatever the lists of the graph hold,    *)
(* then the lists themselves, from what pruning chooses.                   *)
(***************************************************************************)
EXTENDS MemIndex, PruneProofs

-----------------------------------------------------------------------------
(* Steps of a single call. *)

(* Go changes the label of one call and nothing else of it. *)
LEMMA Went ==
    ASSUME MapTypeOK, NEW t \in Threads, NEW p, Go(t, p)
    PROVE  /\ DOMAIN th' = Threads /\ \A u \in Threads \ {t} : th'[u] = th[u]
           /\ th'[t].pc = p /\ DOMAIN th'[t] = DOMAIN th[t]
           /\ \A f \in DOMAIN th[t] : f # "pc" => th'[t][f] = th[t][f]
           /\ th'[t].tag = th[t].tag
  BY DEF Go, MapTypeOK, CallTypeOK

(* A new record for one call. *)
LEMMA Became ==
    ASSUME MapTypeOK, NEW t \in Threads, NEW r, th' = [th EXCEPT ![t] = r]
    PROVE  DOMAIN th' = Threads /\ th'[t] = r /\ \A u \in Threads \ {t} : th'[u] = th[u]
  BY DEF MapTypeOK

(* The record of a call that begins a walk. *)
LEMMA WalkFields ==
    ASSUME NEW tag, NEW loc, NEW q, NEW then
    PROVE  LET r == Walk(tag, loc, q, then)
           IN  /\ r.pc = "walk" /\ r.tag = tag /\ r.loc = loc /\ r.then = then
               /\ {"pc", "tag", "loc", "then"} \subseteq DOMAIN r
  BY DEF Walk

(* A call that neither takes nor leaves a tag or a location. *)
LEMMA CallStep ==
    ASSUME MapsInv, NEW t \in Threads,
           UNCHANGED <<slotVars, mapVars, point, alive>>,
           DOMAIN th' = Threads, \A u \in Threads \ {t} : th'[u] = th[u],
           th[t].pc \notin {"place", "forget"}, th'[t].pc # "place",
           th'[t].tag \in {None, th[t].tag},
           CallTypeOK(t)', CallKnows(t)'
    PROVE  MapsInv'
  <1> USE DEF slotVars, mapVars
  <1>1. MapTypeOK'
    BY DEF MapsInv, MapTypeOK, CallTypeOK
  <1>2. TagsExact'
    BY DEF MapsInv, TagsExact
  <1>3. SlotsCounted'
    BY DEF MapsInv, SlotsCounted
  <1>4. None \notin alive
    BY MemAssumption DEF MapsInv, MapTypeOK
  <1>5. CallsApart'
    BY <1>4 DEF MapsInv, CallsApart
  <1>6. ASSUME NEW u \in Threads PROVE CallKnows(u)'
    BY DEF MapsInv, CallKnows, Linking
  <1> QED  BY <1>1, <1>2, <1>3, <1>5, <1>6 DEF MapsInv

(* iterate_to_fixed_point: a step of the walk, or its end. *)
LEMMA WalkStepKeeps ==
    ASSUME MapsInv, NEW t \in Threads, WalkStep(t)
    PROVE  MapsInv'
  <1>1. UNCHANGED <<slotVars, mapVars, point, alive>> /\ th[t].pc = "walk"
    BY DEF WalkStep, nodeVars, restVars
  <1>2. CallTypeOK(t) /\ CallKnows(t) /\ MapTypeOK
    BY DEF MapsInv, MapTypeOK
  <1>3. th[t].then \in {"assign", "collect"}
    BY <1>1, <1>2 DEF CallTypeOK
  <1>4. CASE Go(t, th[t].then)
    <2>1. /\ DOMAIN th' = Threads /\ \A u \in Threads \ {t} : th'[u] = th[u]
          /\ th'[t].pc = th[t].then /\ DOMAIN th'[t] = DOMAIN th[t] /\ th'[t].tag = th[t].tag
          /\ \A f \in DOMAIN th[t] : f # "pc" => th'[t][f] = th[t][f]
      BY <1>4, <1>2, Went
    <2>2. CallTypeOK(t)'
      BY <1>1, <1>2, <1>3, <2>1 DEF CallTypeOK
    <2>3. "loc" \in DOMAIN th[t] /\ th'[t].loc = th[t].loc
      BY <1>1, <1>2, <2>1 DEF CallTypeOK
    <2>4. CallKnows(t)'
      BY <1>1, <1>2, <1>3, <2>1, <2>3 DEF CallKnows, Linking, slotVars, mapVars
    <2> QED  BY <1>1, <1>3, <2>1, <2>2, <2>4, CallStep
  <1>5. CASE \E S, D : th' = [th EXCEPT ![t].expanded = S, ![t].at = D]
    <2>1. /\ DOMAIN th' = Threads /\ \A u \in Threads \ {t} : th'[u] = th[u]
          /\ DOMAIN th'[t] = DOMAIN th[t]
          /\ \A f \in DOMAIN th[t] : f \notin {"expanded", "at"} => th'[t][f] = th[t][f]
      BY <1>5, <1>2 DEF MapTypeOK
    <2>2. {"pc", "tag", "loc", "then"} \subseteq DOMAIN th[t]
      BY <1>1, <1>2 DEF CallTypeOK
    <2>3. /\ th'[t].pc = th[t].pc /\ th'[t].tag = th[t].tag
          /\ th'[t].loc = th[t].loc /\ th'[t].then = th[t].then
      BY <2>1, <2>2
    <2>4. CallTypeOK(t)'
      BY <1>1, <1>2, <2>1, <2>3 DEF CallTypeOK
    <2>5. CallKnows(t)'
      BY <1>1, <1>2, <2>3 DEF CallKnows, Linking, slotVars, mapVars
    <2> QED  BY <1>1, <2>1, <2>3, <2>4, <2>5, CallStep
  <1>6. CASE Go(t, "crashed")
    <2>1. /\ DOMAIN th' = Threads /\ \A u \in Threads \ {t} : th'[u] = th[u]
          /\ th'[t].pc = "crashed" /\ DOMAIN th'[t] = DOMAIN th[t] /\ th'[t].tag = th[t].tag
      BY <1>6, <1>2, Went
    <2>2. CallTypeOK(t)' /\ CallKnows(t)'
      BY <1>2, <2>1 DEF CallTypeOK, CallKnows, Linking
    <2> QED  BY <1>1, <2>1, <2>2, CallStep
  <1> QED  BY <1>4, <1>5, <1>6 DEF WalkStep

(* A call that links its node goes on to link it. *)
LEMMA GoesOn ==
    ASSUME MapsInv, NEW t \in Threads,
           UNCHANGED <<slotVars, mapVars, point, alive>>,
           th[t].pc \in {"assign", "link", "shrink"},
           DOMAIN th' = Threads, \A u \in Threads \ {t} : th'[u] = th[u],
           th'[t].pc \in {"link", "shrink", "crashed"}, {"pc", "tag", "loc"} \subseteq DOMAIN th'[t],
           th'[t].tag = th[t].tag, th'[t].loc = th[t].loc
    PROVE  MapsInv'
  <1>1. CallTypeOK(t) /\ CallKnows(t)
    BY DEF MapsInv, MapTypeOK
  <1>2. CallTypeOK(t)'
    BY <1>1 DEF CallTypeOK
  <1>3. CallKnows(t)'
    BY <1>1 DEF CallKnows, Linking, slotVars, mapVars
  <1> QED  BY <1>2, <1>3, CallStep

(* prune_neighbors and the assignment of the pruned list. *)
LEMMA AssignKeeps ==
    ASSUME MapsInv, NEW t \in Threads, Assign(t)
    PROVE  MapsInv'
  <1>1. UNCHANGED <<slotVars, mapVars, point, alive>> /\ th[t].pc = "assign"
    BY DEF Assign, restVars
  <1>2. CallTypeOK(t) /\ MapTypeOK
    BY DEF MapsInv, MapTypeOK
  <1>3. {"pc", "tag", "loc"} \subseteq DOMAIN th[t]
    BY <1>1, <1>2 DEF CallTypeOK
  <1>4. CASE Go(t, "crashed")
    BY <1>1, <1>2, <1>3, <1>4, Went, GoesOn
  <1>5. ASSUME NEW list,
               th' = [th EXCEPT ![t] = [pc |-> "link", tag |-> @.tag, loc |-> @.loc, todo |-> list]]
        PROVE  MapsInv'
    <2>1. DOMAIN th' = Threads /\ \A u \in Threads \ {t} : th'[u] = th[u]
      BY <1>2, <1>5 DEF MapTypeOK
    <2>2. th'[t] = [pc |-> "link", tag |-> th[t].tag, loc |-> th[t].loc, todo |-> list]
      BY <1>2, <1>5 DEF MapTypeOK
    <2> QED  BY <1>1, <2>1, <2>2, GoesOn
  <1> QED  BY <1>4, <1>5 DEF Assign

(* inter_insert: a back link. *)
LEMMA BackLinkKeeps ==
    ASSUME MapsInv, NEW t \in Threads, BackLink(t)
    PROVE  MapsInv'
  <1>1. UNCHANGED <<slotVars, mapVars, point, alive>> /\ th[t].pc = "link"
    BY DEF BackLink, restVars
  <1>2. CallTypeOK(t) /\ MapTypeOK
    BY DEF MapsInv, MapTypeOK
  <1>3. {"pc", "tag", "loc"} \subseteq DOMAIN th[t]
    BY <1>1, <1>2 DEF CallTypeOK
  <1>4. ASSUME NEW todo, th' = [th EXCEPT ![t].todo = todo]
        PROVE  MapsInv'
    <2>1. /\ DOMAIN th' = Threads /\ \A u \in Threads \ {t} : th'[u] = th[u]
          /\ DOMAIN th'[t] = DOMAIN th[t]
          /\ \A f \in DOMAIN th[t] : f # "todo" => th'[t][f] = th[t][f]
      BY <1>2, <1>4 DEF MapTypeOK
    <2>2. th'[t].pc = "link" /\ th'[t].tag = th[t].tag /\ th'[t].loc = th[t].loc
      BY <1>1, <1>3, <2>1
    <2> QED  BY <1>1, <1>3, <2>1, <2>2, GoesOn
  <1>5. ASSUME NEW loc, loc = th[t].loc, NEW copy,
               th' = [th EXCEPT ![t] = [pc |-> "shrink", tag |-> @.tag, loc |-> loc,
                                        todo |-> @.todo, copy |-> copy]]
        PROVE  MapsInv'
    <2>1. DOMAIN th' = Threads /\ \A u \in Threads \ {t} : th'[u] = th[u]
      BY <1>2, <1>5 DEF MapTypeOK
    <2>2. th'[t] = [pc |-> "shrink", tag |-> th[t].tag, loc |-> th[t].loc,
                    todo |-> th[t].todo, copy |-> copy]
      BY <1>2, <1>5 DEF MapTypeOK
    <2> QED  BY <1>1, <2>1, <2>2, <1>5, GoesOn
  <1> QED  BY <1>4, <1>5 DEF BackLink

(* inter_insert: a full list is pruned. *)
LEMMA ShrinkKeeps ==
    ASSUME MapsInv, NEW t \in Threads, Shrink(t)
    PROVE  MapsInv'
  <1>1. UNCHANGED <<slotVars, mapVars, point, alive>> /\ th[t].pc = "shrink"
    BY DEF Shrink, restVars
  <1>2. MapTypeOK
    BY DEF MapsInv
  <1>3. PICK todo : th' = [th EXCEPT ![t] = [pc |-> "link", tag |-> @.tag, loc |-> @.loc, todo |-> todo]]
    BY DEF Shrink
  <1>4. DOMAIN th' = Threads /\ \A u \in Threads \ {t} : th'[u] = th[u]
    BY <1>2, <1>3 DEF MapTypeOK
  <1>5. th'[t] = [pc |-> "link", tag |-> th[t].tag, loc |-> th[t].loc, todo |-> todo]
    BY <1>2, <1>3 DEF MapTypeOK
  <1> QED  BY <1>1, <1>4, <1>5, GoesOn

(* A call without a tag goes on without one, or ends. *)
LEMMA Tagless ==
    ASSUME MapsInv, NEW t \in Threads,
           UNCHANGED <<slotVars, mapVars, point, alive>>,
           th[t].pc \in {"idle", "collect", "translate", "found"},
           DOMAIN th' = Threads, \A u \in Threads \ {t} : th'[u] = th[u],
           {"pc", "tag"} \subseteq DOMAIN th'[t], th'[t].tag = None,
           \/ th'[t].pc \in {"idle", "translate", "found"}
           \/ /\ th'[t].pc = "walk" /\ {"loc", "then"} \subseteq DOMAIN th'[t]
              /\ th'[t].then \in {"assign", "collect"}
    PROVE  MapsInv'
  <1>1. CallTypeOK(t)'
    BY DEF CallTypeOK
  <1>2. CallKnows(t)'
    BY DEF CallKnows, Linking
  <1> QED  BY <1>1, <1>2, CallStep

(* The steps of a search, and a node that build begins to link. *)
LEMMA SearchKeeps ==
    ASSUME MapsInv, NEW t \in Threads,
           \/ \E q \in Queries : Search(t, q)
           \/ LinkNode(t) \/ Collect(t) \/ Translate(t) \/ Return(t)
    PROVE  MapsInv'
  <1>1. UNCHANGED <<slotVars, mapVars, point, alive>>
    BY DEF Search, LinkNode, Collect, Translate, Return, nodeVars, restVars
  <1>2. th[t].pc \in {"idle", "collect", "translate", "found"}
    BY DEF Search, LinkNode, Collect, Translate, Return, Called
  <1>3. MapTypeOK
    BY DEF MapsInv
  <1>4. ASSUME DOMAIN th' = Threads, \A u \in Threads \ {t} : th'[u] = th[u],
               {"pc", "tag"} \subseteq DOMAIN th'[t], th'[t].tag = None,
               \/ th'[t].pc \in {"idle", "translate", "found"}
               \/ /\ th'[t].pc = "walk" /\ {"loc", "then"} \subseteq DOMAIN th'[t]
                  /\ th'[t].then \in {"assign", "collect"}
        PROVE  MapsInv'
    BY <1>1, <1>2, <1>4, Tagless
  <1>5. CASE \E q \in Queries : Search(t, q)
    <2>1. PICK q \in Queries : th' = [th EXCEPT ![t] = Walk(None, None, q, "collect")]
      BY <1>5 DEF Search
    <2>2. /\ DOMAIN th' = Threads /\ \A u \in Threads \ {t} : th'[u] = th[u]
          /\ th'[t] = Walk(None, None, q, "collect")
      BY <2>1, <1>3, Became
    <2> QED  BY <2>2, <1>4, WalkFields
  <1>6. CASE LinkNode(t)
    <2>1. th' = [th EXCEPT ![t] = Walk(None, next, point[next], "assign")]
      BY <1>6 DEF LinkNode
    <2>2. /\ DOMAIN th' = Threads /\ \A u \in Threads \ {t} : th'[u] = th[u]
          /\ th'[t] = Walk(None, next, point[next], "assign")
      BY <2>1, <1>3, Became
    <2> QED  BY <2>2, <1>4, WalkFields
  <1>7. CASE Collect(t)
    <2>1. PICK ids : th' = [th EXCEPT ![t] = [pc |-> "translate", tag |-> None, ids |-> ids]]
      BY <1>7 DEF Collect
    <2>2. /\ DOMAIN th' = Threads /\ \A u \in Threads \ {t} : th'[u] = th[u]
          /\ th'[t] = [pc |-> "translate", tag |-> None, ids |-> ids]
      BY <2>1, <1>3, Became
    <2> QED  BY <2>2, <1>4
  <1>8. CASE Translate(t)
    <2>1. PICK results : th' = [th EXCEPT ![t] = [pc |-> "found", tag |-> None, results |-> results]]
      BY <1>8 DEF Translate
    <2>2. /\ DOMAIN th' = Threads /\ \A u \in Threads \ {t} : th'[u] = th[u]
          /\ th'[t] = [pc |-> "found", tag |-> None, results |-> results]
      BY <2>1, <1>3, Became
    <2> QED  BY <2>2, <1>4
  <1>9. CASE Return(t)
    <2>1. th' = [th EXCEPT ![t] = [pc |-> "idle", tag |-> None]]
      BY <1>9 DEF Return, Free
    <2>2. /\ DOMAIN th' = Threads /\ \A u \in Threads \ {t} : th'[u] = th[u]
          /\ th'[t] = [pc |-> "idle", tag |-> None]
      BY <2>1, <1>3, Became
    <2> QED  BY <2>2, <1>4
  <1> QED  BY <1>5, <1>6, <1>7, <1>8, <1>9

(* The return of insert_point: its tag is alive from now on. *)
LEMMA LinkedKeeps ==
    ASSUME MapsInv, NEW t \in Threads, Linked(t)
    PROVE  MapsInv'
  <1>1. UNCHANGED <<slotVars, mapVars, point>> /\ th[t].pc = "link"
    BY DEF Linked, nodeVars
  <1>2. /\ MapTypeOK /\ TagsExact /\ SlotsCounted /\ CallsApart
        /\ \A u \in Threads : CallTypeOK(u) /\ CallKnows(u)
    BY DEF MapsInv, MapTypeOK
  <1>3. th' = [th EXCEPT ![t] = Free] /\ alive' = alive \cup ({th[t].tag} \ {None})
    BY DEF Linked
  <1>4. /\ DOMAIN th' = Threads /\ \A u \in Threads \ {t} : th'[u] = th[u]
        /\ th'[t] = [pc |-> "idle", tag |-> None]
    BY <1>2, <1>3, Became DEF Free
  <1>5. th[t].tag # None => /\ th[t].tag \in DOMAIN tagLoc
                            /\ tagLoc[th[t].tag] \notin deleteSet
                            /\ point[tagLoc[th[t].tag]] = th[t].tag
    BY <1>1, <1>2 DEF CallKnows, Linking
  <1> USE DEF slotVars, mapVars
  <1>6. CallTypeOK(t)' /\ CallKnows(t)'
    BY <1>4 DEF CallTypeOK, CallKnows, Linking
  <1>7. \A u \in Threads : CallTypeOK(u)' /\ CallKnows(u)'
    BY <1>1, <1>2, <1>4, <1>6 DEF CallTypeOK, CallKnows, Linking
  <1>8. MapTypeOK'
    BY <1>1, <1>2, <1>3, <1>4, <1>7 DEF MapTypeOK, CallTypeOK
  <1>9. TagsExact'
    <2>1. \A tag \in DOMAIN tagLoc : tagLoc[tag] \notin emptySlots
      BY <1>2 DEF MapTypeOK, SlotsCounted
    <2> QED  BY <2>1, <1>1, <1>2, <1>3, <1>5 DEF TagsExact
  <1>10. SlotsCounted'
    BY <1>1, <1>2, <1>4 DEF SlotsCounted
  <1>11. CallsApart'
    <2>1. None \notin alive'
      BY <1>2, <1>3, MemAssumption DEF MapTypeOK
    <2>2. \A u \in Threads : th'[u].tag \notin alive'
      BY <2>1, <1>2, <1>3, <1>4 DEF CallsApart
    <2> QED  BY <2>2, <1>1, <1>2, <1>4 DEF CallsApart
  <1> QED  BY <1>7, <1>8, <1>9, <1>10, <1>11 DEF MapsInv

(* link's last pass over the lists. *)
LEMMA CleanupKeeps ==
    ASSUME MapsInv, Cleanup
    PROVE  MapsInv'
  <1>1. UNCHANGED <<slotVars, mapVars, point, th, alive>>
    BY DEF Cleanup
  <1> QED
    BY <1>1 DEF MapsInv, MapTypeOK, CallTypeOK, TagsExact, SlotsCounted, CallsApart, CallKnows,
                Linking, slotVars, mapVars

(* A new call for a tag that no other call works on. *)
LEMMA CallBegins ==
    ASSUME MapsInv, NEW t \in Threads, NEW tag \in Tags, Called(t, tag),
           UNCHANGED <<slotVars, mapVars, point>>,
           NEW p, th' = [th EXCEPT ![t] = [pc |-> p, tag |-> tag]],
           \/ p \in {"unlink", "delete"} /\ tag \in DOMAIN tagLoc
           \/ p = "reserve" /\ tag \notin DOMAIN tagLoc,
           alive' = alive \ {tag}
    PROVE  MapsInv'
  <1>1. /\ MapTypeOK /\ TagsExact /\ SlotsCounted /\ CallsApart
        /\ \A u \in Threads : CallTypeOK(u) /\ CallKnows(u)
    BY DEF MapsInv, MapTypeOK
  <1>2. /\ DOMAIN th' = Threads /\ \A u \in Threads \ {t} : th'[u] = th[u]
        /\ th'[t] = [pc |-> p, tag |-> tag]
    BY <1>1, Became
  <1>3. th[t].pc = "idle" /\ \A u \in Threads : th[u].tag # tag
    BY MemAssumption DEF Called
  <1> USE DEF slotVars, mapVars
  <1>4. CallTypeOK(t)' /\ CallKnows(t)'
    BY <1>2 DEF CallTypeOK, CallKnows, Linking
  <1>5. \A u \in Threads : CallTypeOK(u)' /\ CallKnows(u)'
    BY <1>1, <1>2, <1>4 DEF CallTypeOK, CallKnows, Linking
  <1>6. MapTypeOK'
    BY <1>1, <1>2, <1>5 DEF MapTypeOK, CallTypeOK
  <1>7. TagsExact'
    BY <1>1 DEF TagsExact
  <1>8. SlotsCounted'
    BY <1>1, <1>2, <1>3 DEF SlotsCounted
  <1>9. CallsApart'
    BY <1>1, <1>2, <1>3 DEF CallsApart
  <1> QED  BY <1>5, <1>6, <1>7, <1>8, <1>9 DEF MapsInv

(* insert_point and lazy_delete are called. *)
LEMMA InsertDeleteKeep ==
    ASSUME MapsInv, NEW t \in Threads, NEW tag \in Tags, Insert(t, tag) \/ Delete(t, tag)
    PROVE  MapsInv'
  <1>1. UNCHANGED <<slotVars, mapVars, point>> /\ Called(t, tag) /\ alive' = alive \ {tag}
    BY DEF Insert, Delete, nodeVars
  <1>2. CASE Insert(t, tag)
    <2>1. th' = [th EXCEPT ![t] = [pc |-> IF tag \in DOMAIN tagLoc THEN "unlink" ELSE "reserve",
                                   tag |-> tag]]
      BY <1>2 DEF Insert
    <2> QED  BY <1>1, <2>1, CallBegins
  <1>3. CASE Delete(t, tag)
    <2>1. th' = [th EXCEPT ![t] = [pc |-> "delete", tag |-> tag]] /\ tag \in DOMAIN tagLoc
      BY <1>3 DEF Delete
    <2> QED  BY <1>1, <2>1, CallBegins
  <1> QED  BY <1>2, <1>3

(* The tag of a call is the call's own, and its location no other tag's. *)
LEMMA OwnTag ==
    ASSUME MapsInv, NEW t \in Threads, th[t].tag \in DOMAIN tagLoc
    PROVE  /\ th[t].tag # None /\ th[t].tag \notin alive
           /\ \A u \in Threads \ {t} : th[u].tag # th[t].tag
           /\ tagLoc[th[t].tag] \in DOMAIN locTag /\ tagLoc[th[t].tag] \in 0 .. nd - 1
           /\ locTag[tagLoc[th[t].tag]] = th[t].tag
           /\ \A g \in DOMAIN tagLoc : g # th[t].tag => tagLoc[g] # tagLoc[th[t].tag]
  <1>1. th[t].tag # None
    BY MemAssumption DEF MapsInv, MapTypeOK
  <1> QED  BY <1>1 DEF MapsInv, MapTypeOK, TagsExact, CallsApart

(* lazy_delete: the location enters _delete_set. *)
LEMMA MarkDeletedKeeps ==
    ASSUME MapsInv, NEW t \in Threads, MarkDeleted(t)
    PROVE  MapsInv'
  <1>1. /\ UNCHANGED <<slotVars, tagLoc, locTag, point, alive>> /\ th[t].pc = "delete"
        /\ deleteSet' = deleteSet \cup {tagLoc[th[t].tag]}
    BY DEF MarkDeleted, nodeVars, restVars
  <1>2. /\ MapTypeOK /\ TagsExact /\ SlotsCounted /\ CallsApart
        /\ \A u \in Threads : CallTypeOK(u) /\ CallKnows(u)
    BY DEF MapsInv, MapTypeOK
  <1>3. /\ DOMAIN th' = Threads /\ \A u \in Threads \ {t} : th'[u] = th[u]
        /\ th'[t].pc = "forget" /\ DOMAIN th'[t] = DOMAIN th[t] /\ th'[t].tag = th[t].tag
    BY <1>2, Went DEF MarkDeleted
  <1>4. th[t].tag \in DOMAIN tagLoc
    BY <1>1, <1>2 DEF CallKnows
  <1> USE DEF slotVars
  <1>5. CallTypeOK(t)' /\ CallKnows(t)'
    BY <1>1, <1>2, <1>3, <1>4 DEF CallTypeOK, CallKnows, Linking
  <1>6. \A u \in Threads : CallTypeOK(u)' /\ CallKnows(u)'
    BY <1>1, <1>2, <1>3, <1>4, <1>5, OwnTag DEF CallTypeOK, CallKnows, Linking
  <1>7. MapTypeOK'
    BY <1>1, <1>2, <1>3, <1>4, <1>6 DEF MapTypeOK
  <1>8. TagsExact'
    BY <1>1, <1>2, <1>4, OwnTag DEF TagsExact
  <1>9. SlotsCounted'
    BY <1>1, <1>2, <1>3 DEF SlotsCounted
  <1>10. CallsApart'
    BY <1>1, <1>2, <1>3, <1>4, OwnTag DEF CallsApart
  <1> QED  BY <1>6, <1>7, <1>8, <1>9, <1>10 DEF MapsInv

(* The call's tag is erased; its location is deleted, before or now. *)
LEMMA EraseKeeps ==
    ASSUME MapsInv, NEW t \in Threads, th[t].tag \in DOMAIN tagLoc, EraseTag(th[t].tag),
           UNCHANGED <<slotVars, point, alive>>,
           deleteSet' = deleteSet \cup {tagLoc[th[t].tag]},
           th[t].pc # "place",
           DOMAIN th' = Threads, \A u \in Threads \ {t} : th'[u] = th[u],
           {"pc", "tag"} \subseteq DOMAIN th'[t],
           \/ th'[t].pc = "idle" /\ th'[t].tag = None
           \/ th'[t].pc = "reserve" /\ th'[t].tag = th[t].tag
    PROVE  MapsInv'
  <1> DEFINE tag == th[t].tag
             loc == tagLoc[tag]
  <1>1. /\ MapTypeOK /\ TagsExact /\ SlotsCounted /\ CallsApart
        /\ \A u \in Threads : CallTypeOK(u) /\ CallKnows(u)
    BY DEF MapsInv, MapTypeOK
  <1>2. /\ DOMAIN tagLoc' = DOMAIN tagLoc \ {tag} /\ DOMAIN locTag' = DOMAIN locTag \ {loc}
        /\ \A g \in DOMAIN tagLoc' : tagLoc'[g] = tagLoc[g]
        /\ \A l \in DOMAIN locTag' : locTag'[l] = locTag[l]
        /\ tagLoc' = [g \in DOMAIN tagLoc' |-> tagLoc'[g]]
        /\ locTag' = [l \in DOMAIN locTag' |-> locTag'[l]]
    BY DEF EraseTag
  <1> USE DEF slotVars
  <1>3. CallTypeOK(t)' /\ CallKnows(t)'
    BY <1>1, <1>2, OwnTag DEF CallTypeOK, CallKnows, Linking
  <1>4. ASSUME NEW u \in Threads \ {t} PROVE CallTypeOK(u)' /\ CallKnows(u)'
    BY <1>1, <1>2, OwnTag DEF CallTypeOK, CallKnows, Linking
  <1>5. MapTypeOK'
    BY <1>1, <1>2, <1>3, <1>4, OwnTag DEF MapTypeOK
  <1>6. TagsExact'
    BY <1>1, <1>2, OwnTag DEF TagsExact
  <1>7. SlotsCounted'
    BY <1>1, <1>2, OwnTag DEF SlotsCounted
  <1>8. CallsApart'
    <2>1. None \notin alive
      BY <1>1, MemAssumption DEF MapTypeOK
    <2> QED  BY <2>1, <1>1, <1>2, OwnTag DEF CallsApart
  <1> QED  BY <1>3, <1>4, <1>5, <1>6, <1>7, <1>8 DEF MapsInv

(* insert_point deletes the tag that is there already. *)
LEMMA UnlinkKeeps ==
    ASSUME MapsInv, NEW t \in Threads, Unlink(t)
    PROVE  MapsInv'
  <1>1. MapTypeOK /\ CallTypeOK(t) /\ CallKnows(t)
    BY DEF MapsInv, MapTypeOK
  <1>2. th[t].tag \in DOMAIN tagLoc
    BY <1>1 DEF Unlink, CallKnows
  <1>3. /\ DOMAIN th' = Threads /\ \A u \in Threads \ {t} : th'[u] = th[u]
        /\ th'[t].pc = "reserve" /\ DOMAIN th'[t] = DOMAIN th[t] /\ th'[t].tag = th[t].tag
    BY <1>1, Went DEF Unlink
  <1>4. {"pc", "tag"} \subseteq DOMAIN th'[t]
    BY <1>1, <1>3 DEF CallTypeOK
  <1>5. UNCHANGED <<slotVars, point, alive>> /\ th[t].pc = "unlink" /\ EraseTag(th[t].tag)
        /\ deleteSet' = deleteSet \cup {tagLoc[th[t].tag]}
    BY DEF Unlink, nodeVars, restVars
  <1> QED  BY <1>2, <1>3, <1>4, <1>5, EraseKeeps

(* lazy_delete erases the tag, and returns. *)
LEMMA ForgetKeeps ==
    ASSUME MapsInv, NEW t \in Threads, Forget(t)
    PROVE  MapsInv'
  <1>1. MapTypeOK /\ CallKnows(t)
    BY DEF MapsInv
  <1>2. th[t].tag \in DOMAIN tagLoc /\ tagLoc[th[t].tag] \in deleteSet
    BY <1>1 DEF Forget, CallKnows
  <1>3. th' = [th EXCEPT ![t] = Free]
    BY DEF Forget
  <1>4. /\ DOMAIN th' = Threads /\ \A u \in Threads \ {t} : th'[u] = th[u]
        /\ th'[t] = [pc |-> "idle", tag |-> None]
    BY <1>1, <1>3, Became DEF Free
  <1>5. UNCHANGED <<slotVars, point, alive>> /\ th[t].pc = "forget" /\ EraseTag(th[t].tag)
        /\ deleteSet' = deleteSet \cup {tagLoc[th[t].tag]}
    BY <1>2 DEF Forget, nodeVars, restVars
  <1> QED  BY <1>2, <1>4, <1>5, EraseKeeps

-----------------------------------------------------------------------------
(* The slots. *)

LEMMA TakeKeeps ==
    ASSUME MapsInv, NEW t \in Threads, th[t].pc \in {"reserve", "again"}, nd < max, Take(t),
           UNCHANGED <<max, mapVars, point, alive>>
    PROVE  MapsInv'
  <1>1. /\ MapTypeOK /\ TagsExact /\ SlotsCounted /\ CallsApart
        /\ \A u \in Threads : CallTypeOK(u) /\ CallKnows(u)
    BY DEF MapsInv, MapTypeOK
  <1>2. /\ DOMAIN th' = Threads /\ \A u \in Threads \ {t} : th'[u] = th[u]
        /\ th'[t] = [pc |-> "place", tag |-> th[t].tag, loc |-> nd]
    BY <1>1 DEF Take, MapTypeOK
  <1>3. nd' = nd + 1 /\ emptySlots' = emptySlots \ {nd}
    BY DEF Take
  <1> USE DEF mapVars
  <1>4. th[t].tag \in Tags \ DOMAIN tagLoc
    BY <1>1 DEF CallKnows
  <1>5. nd \notin DOMAIN locTag \cup deleteSet /\ nd \in 0 .. nd' - 1
    BY <1>1, <1>3 DEF MapTypeOK
  <1>6. CallTypeOK(t)' /\ CallKnows(t)'
    BY <1>2, <1>4, <1>5 DEF CallTypeOK, CallKnows, Linking
  <1>7. ASSUME NEW u \in Threads \ {t} PROVE CallTypeOK(u)' /\ CallKnows(u)'
    <2>1. 0 .. nd - 1 \subseteq 0 .. nd' - 1
      BY <1>1, <1>3 DEF MapTypeOK
    <2> QED  BY <1>1, <1>2, <2>1 DEF CallTypeOK, CallKnows, Linking
  <1>8. MapTypeOK'
    <2>1. max' \in Nat /\ nd' \in 0 .. max' /\ 0 .. nd - 1 \subseteq 0 .. nd' - 1
      BY <1>1, <1>3 DEF MapTypeOK
    <2> QED  BY <2>1, <1>1, <1>2, <1>6, <1>7 DEF MapTypeOK
  <1>9. TagsExact'
    BY <1>1, <1>3 DEF TagsExact
  <1>10. SlotsCounted'
    <2>1. emptySlots' = nd' .. max' - 1
      BY <1>1, <1>3 DEF MapTypeOK, SlotsCounted
    <2>2. ASSUME NEW l \in 0 .. nd' - 1
          PROVE  \/ l \in DOMAIN locTag \cup deleteSet
                 \/ \E u \in Threads : th'[u].pc = "place" /\ th'[u].loc = l
      <3>1. l \in 0 .. nd - 1 \/ l = nd
        BY <1>1, <1>3 DEF MapTypeOK
      <3> QED  BY <3>1, <1>1, <1>2 DEF SlotsCounted
    <2>3. ASSUME NEW u \in Threads, th[u].pc = "place" PROVE th[u].loc # nd
      BY <2>3, <1>1 DEF CallKnows, MapTypeOK
    <2>4. ASSUME NEW u \in Threads, NEW v \in Threads, u # v,
                 th'[u].pc = "place", th'[v].pc = "place"
          PROVE  th'[u].loc # th'[v].loc
      BY <2>3, <2>4, <1>1, <1>2 DEF SlotsCounted
    <2> QED  BY <2>1, <2>2, <2>4 DEF SlotsCounted
  <1>11. CallsApart'
    BY <1>1, <1>2 DEF CallsApart
  <1> QED  BY <1>6, <1>7, <1>8, <1>9, <1>10, <1>11 DEF MapsInv

(* A call that waits for a slot goes on to wait, or ends the program. *)
LEMMA WaitKeeps ==
    ASSUME MapsInv, NEW t \in Threads, th[t].pc \in {"reserve", "again"},
           NEW p \in {"grow", "crashed"}, Go(t, p),
           UNCHANGED <<slotVars, mapVars, point, alive>>
    PROVE  MapsInv'
  <1>1. MapTypeOK /\ CallTypeOK(t) /\ CallKnows(t)
    BY DEF MapsInv, MapTypeOK
  <1>2. /\ DOMAIN th' = Threads /\ \A u \in Threads \ {t} : th'[u] = th[u]
        /\ th'[t].pc = p /\ DOMAIN th'[t] = DOMAIN th[t] /\ th'[t].tag = th[t].tag
    BY <1>1, Went
  <1>3. CallTypeOK(t)' /\ CallKnows(t)'
    BY <1>1, <1>2 DEF CallTypeOK, CallKnows, Linking, mapVars
  <1> QED  BY <1>2, <1>3, CallStep

(* Both attempts of insert_point to reserve a location. *)
LEMMA ReserveAgainKeep ==
    ASSUME MapsInv, NEW t \in Threads, Reserve(t) \/ Again(t)
    PROVE  MapsInv'
  <1>1. /\ UNCHANGED <<max, mapVars, point, alive>> /\ th[t].pc \in {"reserve", "again"}
        /\ \/ nd >= max /\ (Go(t, "grow") \/ Go(t, "crashed")) /\ UNCHANGED <<nd, emptySlots>>
           \/ ~(nd >= max) /\ Take(t)
    BY DEF Reserve, Again, nodeVars, restVars
  <1>2. nd \in Nat /\ max \in Nat
    BY DEF MapsInv, MapTypeOK
  <1>3. CASE nd >= max
    BY <1>1, <1>3, WaitKeeps DEF slotVars
  <1>4. CASE nd < max
    BY <1>1, <1>2, <1>4, TakeKeeps
  <1> QED  BY <1>2, <1>3, <1>4

(* The call that released _update_lock, and what it saw under it. *)
LEMMA Relieved ==
    ASSUME MapTypeOK, NEW t \in Threads, Released(t)
    PROVE  /\ DOMAIN th' = Threads /\ \A u \in Threads \ {t} : th'[u] = th[u]
           /\ th'[t].pc = "again" /\ th'[t].tag = th[t].tag
           /\ DOMAIN th'[t] = {"pc", "tag", "since", "room"}
           /\ th'[t].since = nd /\ th'[t].room = max' - nd
  <1> DEFINE r == [pc |-> "again", tag |-> th[t].tag, since |-> nd, room |-> max' - nd]
  <1>1. th' = [th EXCEPT ![t] = r]
    BY DEF Released
  <1>2. /\ r.pc = "again" /\ r.tag = th[t].tag /\ r.since = nd /\ r.room = max' - nd
        /\ DOMAIN r = {"pc", "tag", "since", "room"}
    OBVIOUS
  <1> HIDE DEF r
  <1>3. DOMAIN th' = Threads /\ th'[t] = r /\ \A u \in Threads \ {t} : th'[u] = th[u]
    BY <1>1, Became
  <1> QED  BY <1>2, <1>3

(* resize, under _update_lock: no tagged location moves. *)
LEMMA GrowKeeps ==
    ASSUME MapsInv, NEW t \in Threads, Grow(t)
    PROVE  MapsInv'
  <1>1. /\ MapTypeOK /\ TagsExact /\ SlotsCounted /\ CallsApart
        /\ \A u \in Threads : CallTypeOK(u) /\ CallKnows(u)
    BY DEF MapsInv, MapTypeOK
  <1>2. UNCHANGED <<nd, mapVars, alive>> /\ th[t].pc = "grow" /\ Released(t)
    BY DEF Grow, restVars
  <1>3. /\ DOMAIN th' = Threads /\ \A u \in Threads \ {t} : th'[u] = th[u]
        /\ th'[t].pc = "again" /\ {"pc", "tag"} \subseteq DOMAIN th'[t] /\ th'[t].tag = th[t].tag
    BY <1>1, <1>2, Relieved
  <1>4. /\ max' \in Nat /\ nd \in 0 .. max' /\ DOMAIN point' = 0 .. max'
        /\ emptySlots' = nd .. max' - 1 /\ \A l \in 0 .. nd - 1 : point'[l] = point[l]
    <2>1. nd \in Nat /\ max \in Nat /\ nd <= max /\ emptySlots = nd .. max - 1
      BY <1>1 DEF MapTypeOK, SlotsCounted
    <2>2. CASE nd >= max /\ Resize((max * 3) \div 2)
      <3> DEFINE new == (max * 3) \div 2
      <3>1. new \in Nat /\ new >= max /\ nd = max
        BY <2>1, <2>2
      <3> HIDE DEF new
      <3>2. max' = new /\ DOMAIN point' = 0 .. new /\ emptySlots' = emptySlots \cup nd .. new - 1
        BY <2>2 DEF Resize, new
      <3>3. ASSUME NEW l \in 0 .. nd - 1 PROVE point'[l] = point[l]
        <4>1. point' = [ k \in 0 .. new |-> IF k = new THEN point[max]
                                            ELSE IF k < max THEN point[k] ELSE None ]
          BY <2>2 DEF Resize, new
        <4>2. l \in 0 .. new /\ l # new /\ l < max
          BY <3>1, <2>1
        <4> QED  BY <4>1, <4>2
      <3>4. emptySlots' = nd .. new - 1
        BY <2>1, <3>1, <3>2
      <3>5. nd \in 0 .. new
        BY <2>1, <3>1
      <3> QED  BY <3>1, <3>2, <3>3, <3>4, <3>5
    <2>3. CASE ~(nd >= max) /\ UNCHANGED <<max, point, emptySlots>>
      BY <1>1, <2>1, <2>3 DEF MapTypeOK
    <2> QED  BY <2>2, <2>3 DEF Grow
  <1> USE DEF mapVars
  <1>5. CallTypeOK(t)' /\ CallKnows(t)'
    BY <1>1, <1>2, <1>3 DEF CallTypeOK, CallKnows, Linking
  <1>6. ASSUME NEW u \in Threads \ {t} PROVE CallTypeOK(u)' /\ CallKnows(u)'
    <2>1. Linking(u) /\ th[u].tag # None => th[u].loc \in 0 .. nd - 1
      BY <1>1 DEF CallKnows, MapTypeOK
    <2> QED  BY <2>1, <1>1, <1>2, <1>3, <1>4 DEF CallTypeOK, CallKnows, Linking
  <1>7. MapTypeOK'
    BY <1>1, <1>2, <1>3, <1>4, <1>5, <1>6 DEF MapTypeOK
  <1>8. TagsExact'
    <2>1. ASSUME NEW tag \in DOMAIN tagLoc
          PROVE  tagLoc[tag] \in 0 .. nd - 1 /\ tagLoc[tag] \notin nd .. max' - 1
      BY <1>1, <1>4 DEF MapTypeOK
    <2> QED  BY <2>1, <1>1, <1>2, <1>4 DEF TagsExact
  <1>9. SlotsCounted'
    BY <1>1, <1>2, <1>3, <1>4 DEF SlotsCounted
  <1>10. CallsApart'
    BY <1>1, <1>2, <1>3 DEF CallsApart
  <1> QED  BY <1>5, <1>6, <1>7, <1>8, <1>9, <1>10 DEF MapsInv

(* insert_point enters its tag and location into the maps. *)
LEMMA PlaceKeeps ==
    ASSUME MapsInv, NEW t \in Threads, Place(t)
    PROVE  MapsInv'
  <1> DEFINE tag == th[t].tag
             loc == th[t].loc
  <1>1. /\ MapTypeOK /\ TagsExact /\ SlotsCounted /\ CallsApart
        /\ \A u \in Threads : CallTypeOK(u) /\ CallKnows(u)
    BY DEF MapsInv, MapTypeOK
  <1>2. UNCHANGED <<slotVars, deleteSet, point, alive>> /\ th[t].pc = "place" /\ Go(t, "fill")
    BY DEF Place, nodeVars, restVars
  <1>3. /\ DOMAIN th' = Threads /\ \A u \in Threads \ {t} : th'[u] = th[u]
        /\ th'[t].pc = "fill" /\ DOMAIN th'[t] = DOMAIN th[t] /\ th'[t].tag = tag
        /\ th'[t].loc = loc
    BY <1>1, <1>2, Went DEF CallTypeOK
  <1>4. tag \in Tags \ DOMAIN tagLoc /\ loc \in 0 .. nd - 1 \ (DOMAIN locTag \cup deleteSet)
    BY <1>1, <1>2 DEF CallKnows
  <1>5. /\ DOMAIN tagLoc' = DOMAIN tagLoc \cup {tag} /\ DOMAIN locTag' = DOMAIN locTag \cup {loc}
        /\ tagLoc'[tag] = loc /\ \A g \in DOMAIN tagLoc : tagLoc'[g] = tagLoc[g]
        /\ locTag'[loc] = tag /\ \A l \in DOMAIN locTag : locTag'[l] = locTag[l]
        /\ tagLoc' = [g \in DOMAIN tagLoc' |-> tagLoc'[g]]
        /\ locTag' = [l \in DOMAIN locTag' |-> locTag'[l]]
    BY <1>4 DEF Place, With
  <1>6. tag # None /\ tag \notin alive /\ \A u \in Threads \ {t} : th[u].tag # tag
    BY <1>1, <1>4, MemAssumption DEF CallsApart
  <1>7. \A u \in Threads \ {t} : th[u].pc = "place" => th[u].loc # loc
    BY <1>1, <1>2 DEF SlotsCounted
  <1> USE DEF slotVars
  <1>8. CallTypeOK(t)' /\ CallKnows(t)'
    BY <1>1, <1>2, <1>3, <1>4, <1>5 DEF CallTypeOK, CallKnows, Linking
  <1>9. ASSUME NEW u \in Threads \ {t} PROVE CallTypeOK(u)' /\ CallKnows(u)'
    BY <1>1, <1>2, <1>3, <1>5, <1>6, <1>7 DEF CallTypeOK, CallKnows, Linking
  <1>10. MapTypeOK'
    BY <1>1, <1>2, <1>3, <1>4, <1>5, <1>8, <1>9 DEF MapTypeOK
  <1>11. TagsExact'
    BY <1>1, <1>2, <1>4, <1>5, <1>6 DEF TagsExact
  <1>12. SlotsCounted'
    BY <1>1, <1>2, <1>3, <1>5 DEF SlotsCounted
  <1>13. CallsApart'
    BY <1>1, <1>2, <1>3, <1>4, <1>5 DEF CallsApart
  <1> QED  BY <1>8, <1>9, <1>10, <1>11, <1>12, <1>13 DEF MapsInv

(* insert_point writes the vector of its location. *)
LEMMA FillKeeps ==
    ASSUME MapsInv, NEW t \in Threads, Fill(t)
    PROVE  MapsInv'
  <1> DEFINE tag == th[t].tag
             loc == th[t].loc
  <1>1. /\ MapTypeOK /\ TagsExact /\ SlotsCounted /\ CallsApart
        /\ \A u \in Threads : CallTypeOK(u) /\ CallKnows(u)
    BY DEF MapsInv, MapTypeOK
  <1>2. /\ UNCHANGED <<slotVars, mapVars, alive>> /\ th[t].pc = "fill"
        /\ point' = [point EXCEPT ![loc] = tag]
    BY DEF Fill, restVars
  <1>3. th' = [th EXCEPT ![t] = Walk(tag, loc, tag, "assign")]
    BY DEF Fill
  <1>4. /\ DOMAIN th' = Threads /\ \A u \in Threads \ {t} : th'[u] = th[u]
        /\ th'[t].pc = "walk" /\ th'[t].tag = tag /\ th'[t].loc = loc /\ th'[t].then = "assign"
        /\ {"pc", "tag", "loc", "then"} \subseteq DOMAIN th'[t]
    <2>1. /\ DOMAIN th' = Threads /\ \A u \in Threads \ {t} : th'[u] = th[u]
          /\ th'[t] = Walk(tag, loc, tag, "assign")
      BY <1>1, <1>3, Became
    <2> QED  BY <2>1, WalkFields
  <1>5. tag \in DOMAIN tagLoc /\ tagLoc[tag] = loc /\ loc \notin deleteSet
    BY <1>1, <1>2 DEF CallKnows
  <1>6. /\ DOMAIN point' = DOMAIN point /\ point'[loc] = tag
        /\ \A l \in DOMAIN point \ {loc} : point'[l] = point[l]
    <2>1. loc \in DOMAIN point
      BY <1>1, <1>5 DEF MapTypeOK
    <2> QED  BY <2>1, <1>2
  <1>7. \A g \in DOMAIN tagLoc \ {tag} : tagLoc[g] \in DOMAIN point \ {loc}
    <2>1. 0 .. nd - 1 \subseteq DOMAIN point
      BY <1>1 DEF MapTypeOK
    <2> QED  BY <2>1, <1>1, <1>5, OwnTag DEF MapTypeOK
  <1> USE DEF slotVars, mapVars
  <1>8. CallTypeOK(t)' /\ CallKnows(t)'
    BY <1>1, <1>2, <1>4, <1>5, <1>6 DEF CallTypeOK, CallKnows, Linking
  <1>9. ASSUME NEW u \in Threads \ {t} PROVE CallTypeOK(u)' /\ CallKnows(u)'
    BY <1>1, <1>2, <1>4, <1>5, <1>6, <1>7, OwnTag DEF CallTypeOK, CallKnows, Linking
  <1>10. MapTypeOK'
    BY <1>1, <1>2, <1>4, <1>6, <1>8, <1>9 DEF MapTypeOK
  <1>11. TagsExact'
    BY <1>1, <1>2, <1>5, <1>6, <1>7 DEF TagsExact
  <1>12. SlotsCounted'
    BY <1>1, <1>2, <1>4 DEF SlotsCounted
  <1>13. CallsApart'
    BY <1>1, <1>2, <1>4 DEF CallsApart
  <1> QED  BY <1>8, <1>9, <1>10, <1>11, <1>12, <1>13 DEF MapsInv

-----------------------------------------------------------------------------
(* The steps that run alone. *)

(* Then no call holds a location, and none is erasing a tag. *)
LEMMA Quiet ==
    ASSUME MapsInv, Alone
    PROVE  /\ \A t \in Threads : th[t].pc = "idle" /\ th[t].tag = None
           /\ DOMAIN locTag \cup deleteSet = 0 .. nd - 1 /\ DOMAIN locTag \cap deleteSet = {}
  <1>1. \A t \in Threads : th[t].pc = "idle" /\ CallKnows(t)
    BY DEF MapsInv, Alone
  <1>2. \A t \in Threads : th[t].tag = None
    BY <1>1 DEF CallKnows
  <1>3. DOMAIN locTag \cup deleteSet = 0 .. nd - 1
    BY <1>1 DEF MapsInv, MapTypeOK, SlotsCounted
  <1>4. ASSUME NEW l \in DOMAIN locTag PROVE l \notin deleteSet
    BY <1>1 DEF MapsInv, TagsExact, CallsApart
  <1> QED  BY <1>1, <1>2, <1>3, <1>4

(* lazy_delete of a set of tags. *)
LEMMA DeleteAllKeeps ==
    ASSUME MapsInv, NEW tags, DeleteAll(tags)
    PROVE  MapsInv'
  <1> DEFINE gone == { tagLoc[tag] : tag \in tags \cap DOMAIN tagLoc }
  <1>1. /\ MapTypeOK /\ TagsExact /\ SlotsCounted /\ CallsApart
        /\ \A u \in Threads : CallTypeOK(u) /\ CallKnows(u)
    BY DEF MapsInv, MapTypeOK
  <1>2. /\ UNCHANGED <<slotVars, point, th>> /\ alive' = alive \ tags
        /\ deleteSet' = deleteSet \cup gone
        /\ locTag' = [ l \in DOMAIN locTag \ gone |-> locTag[l] ]
        /\ tagLoc' = [ tag \in DOMAIN tagLoc \ tags |-> tagLoc[tag] ]
    BY DEF DeleteAll, nodeVars
  <1>3. /\ \A t \in Threads : th[t].pc = "idle" /\ th[t].tag = None
        /\ DOMAIN locTag \cup deleteSet = 0 .. nd - 1 /\ DOMAIN locTag \cap deleteSet = {}
    BY Quiet DEF DeleteAll
  <1>4. \A tag \in DOMAIN tagLoc : tagLoc[tag] \in gone <=> tag \in tags
    BY <1>1 DEF TagsExact
  <1>5. \A l \in DOMAIN locTag : l \in gone <=> locTag[l] \in tags
    BY <1>1 DEF TagsExact
  <1>6. gone \subseteq DOMAIN locTag
    BY <1>1 DEF TagsExact
  <1> HIDE DEF gone
  <1> USE DEF slotVars
  <1>7. \A u \in Threads : CallTypeOK(u)' /\ CallKnows(u)'
    BY <1>1, <1>2, <1>3 DEF CallTypeOK, CallKnows, Linking
  <1>8. MapTypeOK'
    BY <1>1, <1>2, <1>3, <1>6, <1>7 DEF MapTypeOK
  <1>9. TagsExact'
    BY <1>1, <1>2, <1>4, <1>5 DEF TagsExact
  <1>10. SlotsCounted'
    BY <1>1, <1>2, <1>3 DEF SlotsCounted
  <1>11. CallsApart'
    <2>1. \A tag \in DOMAIN tagLoc' : tagLoc'[tag] \notin deleteSet'
      BY <1>1, <1>2, <1>3, <1>4 DEF TagsExact
    <2>2. None \notin alive
      BY <1>1, MemAssumption DEF MapTypeOK
    <2> QED  BY <2>1, <2>2, <1>2, <1>3 DEF CallsApart
  <1> QED  BY <1>7, <1>8, <1>9, <1>10, <1>11 DEF MapsInv

(* compact_data renumbers the tagged locations, in order and without gaps. *)
LEMMA ClosedUp ==
    ASSUME NEW n \in Nat, DOMAIN locTag \subseteq 0 .. n - 1
    PROVE  LET kept == Cardinality(DOMAIN locTag)
           IN  /\ kept \in Nat /\ kept <= n
               /\ Cardinality((0 .. n - 1) \ DOMAIN locTag) = n - kept
               /\ \A l \in DOMAIN locTag : NewLocation(l) \in 0 .. kept - 1
               /\ \A l, m \in DOMAIN locTag : NewLocation(l) = NewLocation(m) => l = m
               /\ \A i \in 0 .. kept - 1 : \E l \in DOMAIN locTag : NewLocation(l) = i
  <1> DEFINE D        == DOMAIN locTag
             kept     == Cardinality(D)
             Below(l) == { m \in D : m < l }
  <1>1. IsFiniteSet(0 .. n - 1) /\ Cardinality(0 .. n - 1) = n
    <2>1. IsFiniteSet(0 .. n - 1) /\ Cardinality(0 .. n - 1) = IF 0 > n - 1 THEN 0 ELSE n - 1 - 0 + 1
      BY FS_Interval
    <2> QED  BY <2>1
  <1>2. IsFiniteSet(D) /\ kept <= n
    BY <1>1, FS_Subset
  <1>3. kept \in Nat
    BY <1>2, FS_CardinalityType
  <1>4. Cardinality((0 .. n - 1) \ D) = n - kept
    <2> DEFINE S == 0 .. n - 1
    <2>1. S \cap D = D
      OBVIOUS
    <2>2. IsFiniteSet(S) /\ Cardinality(S) = n
      BY <1>1
    <2> HIDE DEF S, D
    <2>3. Cardinality(S \ D) = Cardinality(S) - Cardinality(S \cap D)
      BY <2>2, FS_Difference
    <2>4. Cardinality(S \ D) = n - Cardinality(D)
      BY <2>1, <2>2, <2>3
    <2> QED  BY <2>4 DEF S
  <1> HIDE DEF D
  <1>5. ASSUME NEW l \in D
        PROVE  /\ NewLocation(l) = Cardinality(Below(l)) /\ IsFiniteSet(Below(l))
               /\ Cardinality(Below(l)) \in Nat
    <2>1. NewLocation(l) = Cardinality(Below(l))
      BY DEF NewLocation, D
    <2>2. IsFiniteSet(Below(l))
      BY <1>2, FS_Subset
    <2> QED  BY <2>1, <2>2, FS_CardinalityType
  <1>6. ASSUME NEW l \in D PROVE NewLocation(l) \in 0 .. kept - 1
    <2>1. IsFiniteSet(D \ {l}) /\ Cardinality(D \ {l}) = kept - 1
      BY <1>2, FS_RemoveElement
    <2>2. Below(l) \subseteq D \ {l}
      BY DEF D
    <2>3. Cardinality(Below(l)) <= kept - 1
      BY <2>1, <2>2, FS_Subset
    <2> QED  BY <2>3, <1>3, <1>5
  <1>7. ASSUME NEW l \in D, NEW m \in D, l < m PROVE NewLocation(l) # NewLocation(m)
    <2>1. IsFiniteSet(Below(m) \ {l}) /\ Cardinality(Below(m) \ {l}) = Cardinality(Below(m)) - 1
      BY <1>5, <1>7, FS_RemoveElement
    <2>2. Below(l) \subseteq Below(m) \ {l}
      BY <1>7 DEF D
    <2>3. Cardinality(Below(l)) <= Cardinality(Below(m)) - 1
      BY <2>1, <2>2, FS_Subset
    <2> QED  BY <2>3, <1>5
  <1>8. ASSUME NEW l \in D, NEW m \in D, NewLocation(l) = NewLocation(m) PROVE l = m
    <2>1. l \in Int /\ m \in Int
      BY DEF D
    <2> QED  BY <2>1, <1>7, <1>8
  <1>9. \A i \in 0 .. kept - 1 : \E l \in D : NewLocation(l) = i
    <2> DEFINE f == [ l \in D |-> NewLocation(l) ]
    <2>1. f \in Injection(D, 0 .. kept - 1)
      BY <1>6, <1>8 DEF Injection, IsInjective
    <2>2. IsFiniteSet(0 .. kept - 1) /\ Cardinality(0 .. kept - 1) = kept
      <3>1. IsFiniteSet(0 .. kept - 1)
            /\ Cardinality(0 .. kept - 1) = IF 0 > kept - 1 THEN 0 ELSE kept - 1 - 0 + 1
        BY <1>3, FS_Interval
      <3> QED  BY <3>1, <1>3
    <2>3. f \in Surjection(D, 0 .. kept - 1)
      BY <2>1, <2>2, FS_Injection
    <2> QED  BY <2>3 DEF Surjection
  <1> QED  BY <1>2, <1>3, <1>4, <1>6, <1>8, <1>9 DEF D

(* consolidate: the tagged locations are renumbered, the deleted ones freed. *)
LEMMA ConsolidateKeeps ==
    ASSUME MapsInv, NEW t \in Threads, Consolidate(t)
    PROVE  MapsInv'
  <1> DEFINE D      == DOMAIN locTag
             kept   == Cardinality(D)
             Old(n) == CHOOSE l \in D : NewLocation(l) = n
  <1>1. /\ MapTypeOK /\ TagsExact /\ SlotsCounted /\ CallsApart
        /\ \A u \in Threads : CallTypeOK(u) /\ CallKnows(u)
    BY DEF MapsInv, MapTypeOK
  <1>2. /\ \A u \in Threads : th[u].pc = "idle" /\ th[u].tag = None
        /\ D \cup deleteSet = 0 .. nd - 1 /\ D \cap deleteSet = {}
    BY Quiet DEF Consolidate
  <1>3. CASE Go(t, "crashed") /\ UNCHANGED <<slotVars, mapVars, nodeVars>>
    <2>1. UNCHANGED <<slotVars, mapVars, point, alive>>
      BY <1>3 DEF Consolidate, nodeVars
    <2>2. /\ DOMAIN th' = Threads /\ \A u \in Threads \ {t} : th'[u] = th[u]
          /\ th'[t].pc = "crashed" /\ DOMAIN th'[t] = DOMAIN th[t] /\ th'[t].tag = th[t].tag
      BY <1>1, <1>3, Went
    <2>3. CallTypeOK(t)' /\ CallKnows(t)'
      BY <1>1, <2>2 DEF CallTypeOK, CallKnows, Linking
    <2> QED  BY <1>2, <2>1, <2>2, <2>3, CallStep
  <1>4. CASE /\ point' = [ n \in DOMAIN point |-> IF n < kept THEN point[Old(n)] ELSE point[n] ]
             /\ tagLoc' = [ tag \in DOMAIN tagLoc |-> NewLocation(tagLoc[tag]) ]
             /\ locTag' = [ n \in 0 .. kept - 1 |-> locTag[Old(n)] ]
             /\ nd' = nd - Cardinality(deleteSet)
             /\ emptySlots' = nd' .. max - 1
             /\ deleteSet' = {}
             /\ UNCHANGED <<max, th>>
    <2>1. nd \in Nat /\ max \in Nat /\ nd <= max /\ D \subseteq 0 .. nd - 1
      BY <1>1 DEF MapTypeOK
    <2>2. /\ kept \in Nat /\ kept <= nd /\ Cardinality((0 .. nd - 1) \ D) = nd - kept
          /\ \A l \in D : NewLocation(l) \in 0 .. kept - 1
          /\ \A l, m \in D : NewLocation(l) = NewLocation(m) => l = m
          /\ \A i \in 0 .. kept - 1 : \E l \in D : NewLocation(l) = i
      BY <2>1, ClosedUp
    <2>3. deleteSet = (0 .. nd - 1) \ D
      BY <1>2
    <2>4. nd' = kept
      BY <1>4, <2>1, <2>2, <2>3
    <2>5. \A i \in 0 .. kept - 1 : Old(i) \in D /\ NewLocation(Old(i)) = i
      BY <2>2
    <2>6. \A l \in D : NewLocation(l) \in 0 .. kept - 1 /\ Old(NewLocation(l)) = l
      BY <2>2, <2>5
    <2> HIDE DEF Old, kept, D
    <2>7. UNCHANGED <<max, th, alive>> /\ deleteSet' = {} /\ emptySlots' = kept .. max - 1
      BY <1>4, <2>4 DEF Consolidate
    <2>8. /\ DOMAIN tagLoc' = DOMAIN tagLoc
          /\ \A tag \in DOMAIN tagLoc : tagLoc[tag] \in D /\ tagLoc'[tag] = NewLocation(tagLoc[tag])
          /\ tagLoc' = [ tag \in DOMAIN tagLoc' |-> tagLoc'[tag] ]
      BY <1>1, <1>4 DEF TagsExact, D
    <2>9. /\ DOMAIN locTag' = 0 .. kept - 1
          /\ \A i \in 0 .. kept - 1 : locTag'[i] = locTag[Old(i)]
          /\ locTag' = [ l \in DOMAIN locTag' |-> locTag'[l] ]
      BY <1>4
    <2>10. DOMAIN point' = DOMAIN point /\ \A l \in D : point'[NewLocation(l)] = point[l]
      <3>1. \A i \in 0 .. kept - 1 : i \in DOMAIN point
        BY <1>1, <2>1, <2>2 DEF MapTypeOK
      <3>2. \A i \in 0 .. kept - 1 : point'[i] = point[Old(i)]
        BY <1>4, <2>2, <3>1
      <3> QED  BY <1>4, <2>6, <3>2
    <2>11. MapTypeOK'
      <3>1. max' \in Nat /\ nd' \in 0 .. max' /\ DOMAIN point' = 0 .. max'
        BY <1>1, <2>1, <2>2, <2>4, <2>7, <2>10 DEF MapTypeOK
      <3>2. locTag' \in [DOMAIN locTag' -> Tags] /\ DOMAIN locTag' \subseteq 0 .. nd' - 1
        BY <1>1, <2>4, <2>5, <2>9 DEF MapTypeOK, D
      <3>3. tagLoc' \in [DOMAIN tagLoc' -> 0 .. nd' - 1] /\ DOMAIN tagLoc' \subseteq Tags
        BY <1>1, <2>4, <2>6, <2>8 DEF MapTypeOK
      <3>4. DOMAIN th' = Threads /\ \A u \in Threads : CallTypeOK(u)'
        BY <1>1, <2>7 DEF MapTypeOK, CallTypeOK
      <3> QED  BY <1>1, <2>7, <3>1, <3>2, <3>3, <3>4 DEF MapTypeOK
    <2>12. TagsExact'
      <3>1. \A tag \in DOMAIN tagLoc' : tagLoc'[tag] \in DOMAIN locTag' /\ locTag'[tagLoc'[tag]] = tag
        BY <1>1, <2>6, <2>8, <2>9 DEF TagsExact
      <3>2. \A l \in DOMAIN locTag' : locTag'[l] \in DOMAIN tagLoc' /\ tagLoc'[locTag'[l]] = l
        BY <1>1, <2>5, <2>8, <2>9 DEF TagsExact, D
      <3>3. ASSUME NEW tag \in alive'
            PROVE  /\ tag \in DOMAIN tagLoc' /\ point'[tagLoc'[tag]] = tag
                   /\ tagLoc'[tag] \notin deleteSet' \cup emptySlots'
        <4>1. tag \in DOMAIN tagLoc /\ point[tagLoc[tag]] = tag
          BY <1>1, <2>7 DEF TagsExact
        <4>2. tagLoc'[tag] \in 0 .. kept - 1
          BY <4>1, <2>6, <2>8
        <4> QED  BY <4>1, <4>2, <2>2, <2>7, <2>8, <2>10
      <3> QED  BY <3>1, <3>2, <3>3 DEF TagsExact
    <2>13. SlotsCounted'
      BY <1>2, <2>4, <2>7, <2>9 DEF SlotsCounted
    <2>14. CallsApart'
      BY <1>1, <2>7 DEF CallsApart
    <2>15. \A u \in Threads : CallKnows(u)'
      BY <1>2, <2>7 DEF CallKnows, Linking
    <2> QED  BY <2>11, <2>12, <2>13, <2>14, <2>15 DEF MapsInv
  <1> QED  BY <1>3, <1>4 DEF Consolidate

(* save and load: every tag comes back to its location. *)
LEMMA SaveAndLoadKeeps ==
    ASSUME MapsInv, NEW size \in LoadSizes, SaveAndLoad(size)
    PROVE  MapsInv'
  <1>1. /\ MapTypeOK /\ TagsExact /\ SlotsCounted /\ CallsApart
        /\ \A u \in Threads : CallTypeOK(u) /\ CallKnows(u)
    BY DEF MapsInv, MapTypeOK
  <1>2. /\ \A u \in Threads : th[u].pc = "idle" /\ th[u].tag = None
        /\ DOMAIN locTag \cup deleteSet = 0 .. nd - 1 /\ DOMAIN locTag \cap deleteSet = {}
    BY Quiet DEF SaveAndLoad
  <1>3. /\ UNCHANGED <<nd, deleteSet, th, alive>> /\ max' = LoadedMax(size)
        /\ emptySlots' = nd .. max' - 1 /\ locTag' = LoadedTags
    BY DEF SaveAndLoad
  <1>4. nd \in Nat /\ max' \in Nat /\ nd <= max'
    BY <1>1, <1>3, MemAssumption DEF MapTypeOK, LoadedMax
  <1>5. LoadedTags = locTag
    <2>1. (0 .. nd - 1) \ deleteSet = DOMAIN locTag
      BY <1>2
    <2>2. LoadedTags = [ l \in DOMAIN locTag |-> locTag[l] ]
      BY <2>1, <1>1 DEF LoadedTags, SavedTags, MapTypeOK
    <2> QED  BY <2>2, <1>1 DEF MapTypeOK
  <1>6. tagLoc' = tagLoc
    <2>1. Range(locTag) = DOMAIN tagLoc
      BY <1>1 DEF TagsExact, Range
    <2>2. tagLoc' = [ tag \in DOMAIN tagLoc |->
                        CHOOSE l \in DOMAIN locTag :
                            locTag[l] = tag /\ \A m \in DOMAIN locTag : locTag[m] = tag => m <= l ]
      BY <1>5, <2>1 DEF SaveAndLoad
    <2>3. ASSUME NEW tag \in DOMAIN tagLoc
          PROVE  tagLoc[tag] = CHOOSE l \in DOMAIN locTag :
                     locTag[l] = tag /\ \A m \in DOMAIN locTag : locTag[m] = tag => m <= l
      <3>1. tagLoc[tag] \in DOMAIN locTag /\ locTag[tagLoc[tag]] = tag
        BY <1>1 DEF TagsExact
      <3>2. \A m \in DOMAIN locTag : locTag[m] = tag => m = tagLoc[tag] /\ m <= m
        BY <1>1 DEF TagsExact, MapTypeOK
      <3> QED  BY <3>1, <3>2
    <2>4. tagLoc = [ tag \in DOMAIN tagLoc |-> tagLoc[tag] ]
      BY <1>1 DEF MapTypeOK
    <2> QED  BY <2>2, <2>3, <2>4
  <1>7. /\ DOMAIN point' = 0 .. max' /\ \A l \in 0 .. nd - 1 : point'[l] = point[l]
    <2> DEFINE data == LoadedData(max')
    <2>1. point' = [ l \in 0 .. max' |-> IF l = max' THEN data[nd]
                                         ELSE IF l < nd THEN data[l] ELSE None ]
      BY DEF SaveAndLoad, MovedToEnd
    <2>2. ASSUME NEW l \in 0 .. nd - 1 PROVE data[l] = point[l] /\ l \in 0 .. max' /\ l # max'
      BY <1>4 DEF LoadedData, SavedData
    <2> HIDE DEF data
    <2> QED  BY <1>4, <2>1, <2>2
  <1>8. MapTypeOK'
    <2>1. DOMAIN th' = Threads /\ \A u \in Threads : CallTypeOK(u)'
      BY <1>1, <1>3 DEF MapTypeOK, CallTypeOK
    <2> QED  BY <1>1, <1>3, <1>4, <1>5, <1>6, <1>7, <2>1 DEF MapTypeOK
  <1>9. TagsExact'
    <2>1. \A tag \in DOMAIN tagLoc : tagLoc[tag] \in 0 .. nd - 1
      BY <1>1 DEF MapTypeOK
    <2>2. \A l \in 0 .. nd - 1 : l \notin emptySlots'
      BY <1>3, <1>4
    <2> QED  BY <1>1, <1>3, <1>5, <1>6, <1>7, <2>1, <2>2 DEF TagsExact
  <1>10. SlotsCounted'
    BY <1>1, <1>3, <1>5 DEF SlotsCounted
  <1>11. CallsApart'
    BY <1>1, <1>3, <1>6 DEF CallsApart
  <1>12. \A u \in Threads : CallKnows(u)'
    BY <1>2, <1>3 DEF CallKnows, Linking
  <1> QED  BY <1>8, <1>9, <1>10, <1>11, <1>12 DEF MapsInv

-----------------------------------------------------------------------------
(* An index just loaded, or the points of one to be built. *)
LEMMA InitKeeps ==
    ASSUME Init
    PROVE  MapsInv
  <1> DEFINE Filled ==
               /\ max \in Nat /\ nd \in 0 .. max /\ DOMAIN point = 0 .. max
               /\ deleteSet \subseteq 0 .. nd - 1
               /\ DOMAIN locTag = (0 .. nd - 1) \ deleteSet /\ locTag \in [DOMAIN locTag -> Tags]
               /\ \A l, m \in DOMAIN locTag : locTag[l] = locTag[m] => l = m
               /\ \A l \in DOMAIN locTag : point[l] = locTag[l]
               /\ emptySlots = nd .. max - 1
  <1>1. Filled
    <2>1. ASSUME NEW points, points \in Seq(Tags), IsInjective(points),
                 NEW S, S \subseteq 0 .. Len(points) - 1, locTag = [ l \in S |-> points[l + 1] ]
          PROVE  /\ Len(points) \in Nat /\ DOMAIN locTag = S /\ locTag \in [S -> Tags]
                 /\ \A l, m \in S : locTag[l] = locTag[m] => l = m
      <3>1. Len(points) \in Nat /\ DOMAIN points = 1 .. Len(points)
            /\ \A i \in 1 .. Len(points) : points[i] \in Tags
        BY <2>1
      <3>2. \A l \in S : l \in Int /\ l + 1 \in 1 .. Len(points)
        BY <2>1, <3>1
      <3>3. \A i, j \in 1 .. Len(points) : points[i] = points[j] => i = j
        BY <2>1, <3>1 DEF IsInjective
      <3> QED  BY <2>1, <3>1, <3>2, <3>3
    <2>2. CASE Building
      <3>1. ToLink \in Seq(Tags) /\ IsInjective(ToLink)
        BY MemAssumption
      <3>2. /\ max = Len(ToLink) /\ nd = Len(ToLink) /\ emptySlots = {} /\ deleteSet = {}
            /\ locTag = [ l \in 0 .. Len(ToLink) - 1 |-> ToLink[l + 1] ]
            /\ point = [ l \in 0 .. max |-> IF l < nd THEN ToLink[l + 1] ELSE Frozen ]
        BY <2>2 DEF Building
      <3> DEFINE S == 0 .. Len(ToLink) - 1
      <3>3. /\ Len(ToLink) \in Nat /\ DOMAIN locTag = S /\ locTag \in [S -> Tags]
            /\ \A l, m \in S : locTag[l] = locTag[m] => l = m
        <4>1. S \subseteq 0 .. Len(ToLink) - 1 /\ locTag = [ l \in S |-> ToLink[l + 1] ]
          BY <3>2
        <4> HIDE DEF S
        <4> QED  BY <2>1, <3>1, <4>1
      <3> QED  BY <3>2, <3>3
    <2>3. ASSUME NEW start \in Starts, Loaded(start) PROVE Filled
      <3>1. /\ start.points \in Seq(Tags) /\ IsInjective(start.points)
            /\ start.max \in Nat /\ Len(start.points) <= start.max
        BY MemAssumption
      <3> DEFINE S == (0 .. Len(start.points) - 1) \ deleteSet
      <3>2. /\ max = start.max /\ nd = Len(start.points) /\ emptySlots = nd .. max - 1
            /\ deleteSet \subseteq 0 .. nd - 1 /\ locTag = [ l \in S |-> start.points[l + 1] ]
            /\ point = [ l \in 0 .. max |-> IF l < nd THEN start.points[l + 1]
                                            ELSE IF l = max THEN Frozen ELSE None ]
        BY <2>3, MemAssumption DEF Loaded
      <3>3. /\ Len(start.points) \in Nat /\ DOMAIN locTag = S /\ locTag \in [S -> Tags]
            /\ \A l, m \in S : locTag[l] = locTag[m] => l = m
        <4>1. S \subseteq 0 .. Len(start.points) - 1 /\ locTag = [ l \in S |-> start.points[l + 1] ]
          BY <3>2
        <4> DEFINE p == start.points
        <4>2. p \in Seq(Tags) /\ IsInjective(p) /\ S \subseteq 0 .. Len(p) - 1
              /\ locTag = [ l \in S |-> p[l + 1] ]
          BY <3>1, <4>1
        <4> HIDE DEF S, p
        <4>3. /\ Len(p) \in Nat /\ DOMAIN locTag = S /\ locTag \in [S -> Tags]
              /\ \A l, m \in S : locTag[l] = locTag[m] => l = m
          BY <2>1, <4>2
        <4> QED  BY <4>3 DEF p
      <3>4. max \in Nat /\ nd \in 0 .. max
        BY <3>1, <3>2, <3>3
      <3>5. \A l \in 0 .. nd - 1 : l \in 0 .. max /\ l < nd
        BY <3>4
      <3>6. \A l \in S : point[l] = locTag[l]
        BY <3>2, <3>5
      <3> QED  BY <3>2, <3>3, <3>4, <3>6
    <2> QED  BY <2>2, <2>3 DEF Init
  <1>2. /\ DOMAIN tagLoc = Range(locTag) /\ alive = Range(locTag)
        /\ \A tag \in Range(locTag) : tagLoc[tag] = CHOOSE l \in DOMAIN locTag : locTag[l] = tag
        /\ tagLoc = [ tag \in DOMAIN tagLoc |-> tagLoc[tag] ]
    BY DEF Init
  <1>3. \A tag \in Range(locTag) : tagLoc[tag] \in DOMAIN locTag /\ locTag[tagLoc[tag]] = tag
    BY <1>1, <1>2 DEF Range
  <1>4. Range(locTag) \subseteq Tags /\ \A l \in DOMAIN locTag : locTag[l] \in Range(locTag)
    BY <1>1 DEF Range
  <1>5. DOMAIN th = Threads /\ \A t \in Threads : th[t] = [pc |-> "idle", tag |-> None]
    BY DEF Init, Free
  <1>6. \A t \in Threads : CallTypeOK(t) /\ CallKnows(t)
    BY <1>5 DEF CallTypeOK, CallKnows, Linking
  <1>7. MapTypeOK
    BY <1>1, <1>2, <1>3, <1>4, <1>5, <1>6 DEF MapTypeOK
  <1>8. TagsExact
    <2>1. \A l \in DOMAIN locTag : l \notin deleteSet \cup emptySlots
      BY <1>1
    <2> QED  BY <1>1, <1>2, <1>3, <1>4, <2>1 DEF TagsExact
  <1>9. SlotsCounted
    BY <1>1, <1>5 DEF SlotsCounted
  <1>10. CallsApart
    BY <1>1, <1>2, <1>3, <1>4, <1>5, MemAssumption DEF CallsApart
  <1> QED  BY <1>6, <1>7, <1>8, <1>9, <1>10 DEF MapsInv

(* Every step keeps the inductive invariant. *)
LEMMA NextKeeps ==
    ASSUME MapsInv, [Next]_memVars
    PROVE  MapsInv'
  <1>1. CASE UNCHANGED memVars
    BY <1>1 DEF MapsInv, MapTypeOK, CallTypeOK, TagsExact, SlotsCounted, CallsApart, CallKnows,
                Linking, memVars, mapVars, slotVars, nodeVars, restVars
  <1>2. ASSUME NEW t \in Threads, Begin(t)
        PROVE  MapsInv'
    BY <1>2, InsertDeleteKeep, SearchKeeps DEF Begin
  <1>3. ASSUME NEW t \in Threads, Finish(t)
        PROVE  MapsInv'
    BY <1>3, WalkStepKeeps, AssignKeeps, BackLinkKeeps, ShrinkKeeps, LinkedKeeps, UnlinkKeeps,
       ReserveAgainKeep, GrowKeeps, PlaceKeeps, FillKeeps, MarkDeletedKeeps, ForgetKeeps, SearchKeeps
       DEF Finish
  <1>4. ASSUME NEW t \in Threads, LinkNode(t) \/ Consolidate(t)
        PROVE  MapsInv'
    BY <1>4, SearchKeeps, ConsolidateKeeps
  <1> QED
    BY <1>1, <1>2, <1>3, <1>4, CleanupKeeps, DeleteAllKeeps, SaveAndLoadKeeps DEF Next

(* The maps, the slots and what each call knows of its tag stay consistent  *)
(* in every interleaving of insert_point, lazy_delete, search and growth.   *)
THEOREM MapsInvariant == Spec => []MapsInv
  <1>1. Init => MapsInv
    BY InitKeeps
  <1>2. MapsInv /\ [Next]_memVars => MapsInv'
    BY NextKeeps
  <1> QED  BY <1>1, <1>2, PTL DEF Spec

(* _tag_to_location and _location_to_tag stay inverse to each other, and a  *)
(* tag that was inserted and not deleted leads to a live location that      *)
(* holds its vector, whatever insert_point, lazy_delete, resize,            *)
(* compact_data, save and load did since.                                   *)
THEOREM TagsStayExact == Spec => []TagsExact
  <1>1. MapsInv => TagsExact
    BY DEF MapsInv
  <1> QED  BY <1>1, MapsInvariant, PTL

(* The assertion of consolidate_deletes holds in every state: the free      *)
(* slots are those behind _nd, and every other location is tagged, deleted  *)
(* or held by one insertion.                                                *)
THEOREM SlotsStayCounted == Spec => []SlotsCounted
  <1>1. MapsInv => SlotsCounted
    BY DEF MapsInv
  <1> QED  BY <1>1, MapsInvariant, PTL

-----------------------------------------------------------------------------
(* The frozen point. *)

(* Only these steps write a vector or move the entry, and only a save may   *)
(* leave the frozen point behind.                                           *)
LEMMA EntryMoves ==
    ASSUME [Next]_memVars
    PROVE  \/ UNCHANGED <<max, point, lost>>
           \/ lost' = lost /\ \E t \in Threads : Fill(t) \/ Grow(t) \/ Consolidate(t)
           \/ \E size \in LoadSizes : SaveAndLoad(size)
  <1> USE DEF slotVars, nodeVars, restVars
  <1>1. CASE UNCHANGED memVars
    BY <1>1 DEF memVars
  <1>2. ASSUME NEW t \in Threads, LinkNode(t) \/ Begin(t)
        PROVE  UNCHANGED <<max, point, lost>>
    BY <1>2 DEF LinkNode, Begin, Insert, Delete, Search
  <1>3. ASSUME NEW t \in Threads, Finish(t), ~Fill(t), ~Grow(t)
        PROVE  UNCHANGED <<max, point, lost>>
    BY <1>3 DEF Finish, WalkStep, Assign, BackLink, Shrink, Linked, Unlink, Reserve, Again, Place,
                MarkDeleted, Forget, Collect, Translate, Return
  <1>4. ASSUME NEW t \in Threads, Fill(t) \/ Grow(t) \/ Consolidate(t)
        PROVE  lost' = lost
    BY <1>4 DEF Fill, Grow, Consolidate
  <1>5. Cleanup \/ (\E tags \in Batches : DeleteAll(tags)) => UNCHANGED <<max, point, lost>>
    BY DEF Cleanup, DeleteAll
  <1> QED  BY <1>1, <1>2, <1>3, <1>4, <1>5 DEF Next

(* A frozen point that was left behind stays lost. *)
LEMMA LostStays ==
    ASSUME [Next]_memVars, lost
    PROVE  lost'
  <1>1. ASSUME NEW size \in LoadSizes, SaveAndLoad(size) PROVE lost'
    BY <1>1 DEF SaveAndLoad
  <1> QED  BY <1>1, EntryMoves

(* The frozen point's vector is at the entry or nowhere.                    *)
FrozenApart == EntryFrozen /\ \A l \in 0 .. max : l # max => point[l] # Frozen

(* Every step keeps it. *)
LEMMA EntryKept ==
    ASSUME MapsInv, FrozenApart, [Next]_memVars
    PROVE  FrozenApart'
  <1> USE DEF FrozenApart, EntryFrozen, Ep
  <1>1. max \in Nat /\ nd \in 0 .. max /\ DOMAIN point = 0 .. max
    BY DEF MapsInv, MapTypeOK
  <1>2. Frozen \notin Tags /\ Frozen # None
    BY MemAssumption
  <1>3. ASSUME NEW t \in Threads, Fill(t), lost' = lost PROVE FrozenApart'
    <2>1. th[t].loc \in 0 .. nd - 1 /\ th[t].tag \in Tags
      BY <1>3 DEF Fill, MapsInv, MapTypeOK, CallKnows, TagsExact
    <2>2. max' = max /\ point' = [point EXCEPT ![th[t].loc] = th[t].tag]
      BY <1>3 DEF Fill, slotVars
    <2> QED  BY <1>1, <1>2, <1>3, <2>1, <2>2
  <1>4. ASSUME NEW t \in Threads, Grow(t), lost' = lost PROVE FrozenApart'
    <2>1. CASE Resize((max * 3) \div 2)
      <3> DEFINE new == (max * 3) \div 2
      <3>1. new \in Nat /\ max <= new
        BY <1>1
      <3>2. /\ max' = new
            /\ point' = [ l \in 0 .. new |-> IF l = new THEN point[max]
                                             ELSE IF l < max THEN point[l] ELSE None ]
        BY <2>1 DEF Resize
      <3> HIDE DEF new
      <3>3. point'[max'] = point[max]
        BY <3>1, <3>2
      <3>4. ASSUME NEW l \in 0 .. max', l # max' PROVE point'[l] # Frozen
        BY <1>1, <1>2, <3>1, <3>2, <3>4
      <3> QED  BY <1>4, <3>3, <3>4
    <2> QED  BY <1>4, <2>1 DEF Grow
  <1>5. ASSUME NEW t \in Threads, Consolidate(t), lost' = lost PROVE FrozenApart'
    <2> DEFINE kept   == Cardinality(DOMAIN locTag)
               Old(n) == CHOOSE l \in DOMAIN locTag : NewLocation(l) = n
    <2>1. CASE UNCHANGED <<slotVars, nodeVars>>
      BY <1>5, <2>1 DEF slotVars, nodeVars
    <2>2. CASE /\ point' = [ n \in DOMAIN point |-> IF n < kept THEN point[Old(n)] ELSE point[n] ]
               /\ max' = max
      <3>1. /\ kept \in Nat /\ kept <= nd /\ DOMAIN locTag \subseteq 0 .. nd - 1
            /\ \A i \in 0 .. kept - 1 : \E l \in DOMAIN locTag : NewLocation(l) = i
        <4>1. nd \in Nat /\ DOMAIN locTag \subseteq 0 .. nd - 1
          BY <1>1 DEF MapsInv, MapTypeOK
        <4> QED  BY <4>1, ClosedUp
      <3>2. \A i \in 0 .. kept - 1 : Old(i) \in DOMAIN locTag
        BY <3>1
      <3> HIDE DEF kept, Old
      <3>3. max \in DOMAIN point /\ ~(max < kept)
        BY <1>1, <3>1
      <3>4. point'[max] = point[max]
        BY <2>2, <3>3
      <3>5. ASSUME NEW l \in 0 .. max, l # max PROVE point'[l] # Frozen
        <4>1. l < kept => Old(l) \in 0 .. max /\ Old(l) # max
          BY <1>1, <3>1, <3>2
        <4>2. point'[l] = IF l < kept THEN point[Old(l)] ELSE point[l]
          BY <1>1, <2>2
        <4> QED  BY <3>5, <4>1, <4>2
      <3> QED  BY <1>5, <2>2, <3>4, <3>5
    <2> QED  BY <1>5, <2>1, <2>2 DEF Consolidate
  <1>6. ASSUME NEW size \in LoadSizes, SaveAndLoad(size) PROVE FrozenApart'
    <2> DEFINE data == LoadedData(max')
    <2>1. max' = LoadedMax(size) /\ lost' = (lost \/ (nd < max /\ ~FrozenMoves))
      BY <1>6 DEF SaveAndLoad
    <2>2. max' \in Nat /\ nd \in 0 .. max'
      BY <1>1, <2>1, MemAssumption DEF LoadedMax
    <2>3. point' = [ l \in 0 .. max' |-> IF l = max' THEN data[nd]
                                         ELSE IF l < nd THEN data[l] ELSE None ]
      BY <1>6 DEF SaveAndLoad, MovedToEnd
    <2>4. /\ data[nd] = IF FrozenMoves THEN point[max] ELSE point[nd]
          /\ \A l \in 0 .. nd - 1 : data[l] = point[l]
      BY <1>1, <2>2 DEF LoadedData, SavedData
    <2> HIDE DEF data
    <2>5. point'[max'] = data[nd]
      BY <2>2, <2>3
    <2>6. (data[nd] = Frozen) <=> ~lost'
      <3>1. CASE FrozenMoves
        BY <2>1, <2>4, <3>1
      <3>2. CASE ~FrozenMoves /\ nd = max
        <4>1. ~(nd < max) /\ point[nd] = point[max]
          BY <1>1, <3>2
        <4>2. lost' <=> lost
          BY <2>1, <4>1
        <4>3. data[nd] = point[max]
          BY <2>4, <3>2, <4>1
        <4> QED  BY <4>2, <4>3
      <3>3. CASE ~FrozenMoves /\ nd < max
        <4>1. point[nd] # Frozen
          BY <1>1, <3>3
        <4> QED  BY <2>1, <2>4, <3>3, <4>1
      <3> QED  BY <1>1, <3>1, <3>2, <3>3
    <2>7. ASSUME NEW l \in 0 .. max', l # max' PROVE point'[l] # Frozen
      <3>1. l < nd => l \in 0 .. nd - 1 /\ l \in 0 .. max /\ l # max
        BY <1>1, <2>2
      <3>2. point'[l] = IF l < nd THEN data[l] ELSE None
        BY <2>3, <2>7
      <3> QED  BY <1>2, <2>4, <3>1, <3>2
    <2> QED  BY <2>5, <2>6, <2>7
  <1>7. CASE UNCHANGED <<max, point, lost>>
    BY <1>7
  <1> QED  BY <1>3, <1>4, <1>5, <1>6, <1>7, EntryMoves

(* Walks start from the frozen point through growth, compaction and loads   *)
(* (the comment of compact_frozen_point, "set new _ep to be frozen point")  *)
(* exactly until an index with room is saved whose frozen point has no      *)
(* neighbour; from then on they start from another vector.                  *)
THEOREM EntryStaysFrozen == Spec => []EntryFrozen
  <1>1. Init => FrozenApart
    <2> USE DEF FrozenApart, EntryFrozen, Ep
    <2>1. Frozen \notin Tags /\ Frozen # None
      BY MemAssumption
    <2>2. ASSUME Init, Building PROVE FrozenApart
      <3>1. /\ max = Len(ToLink) /\ nd = max /\ ~lost
            /\ point = [ l \in 0 .. max |-> IF l < nd THEN ToLink[l + 1] ELSE Frozen ]
        BY <2>2 DEF Init, Building
      <3>2. ToLink \in Seq(Tags)
        BY MemAssumption
      <3>3. max \in Nat /\ \A i \in 1 .. max : ToLink[i] \in Tags
        BY <3>1, <3>2, ElementOfSeq, LenProperties
      <3>4. ASSUME NEW l \in 0 .. max, l # max PROVE point[l] # Frozen
        <4>1. l < nd /\ l + 1 \in 1 .. max
          BY <3>1, <3>3, <3>4
        <4> QED  BY <2>1, <3>1, <3>3, <4>1
      <3>5. point[max] = Frozen
        BY <3>1, <3>3
      <3> QED  BY <3>1, <3>4, <3>5
    <2>3. ASSUME Init, NEW start \in Starts, Loaded(start) PROVE FrozenApart
      <3> DEFINE p == start.points
      <3>1. /\ max = start.max /\ nd = Len(p) /\ ~lost
            /\ point = [ l \in 0 .. max |-> IF l < nd THEN p[l + 1]
                                            ELSE IF l = max THEN Frozen ELSE None ]
        BY <2>3 DEF Init, Loaded
      <3>2. p \in Seq(Tags) /\ max \in Nat /\ nd <= max
        BY <3>1, MemAssumption
      <3> HIDE DEF p
      <3>3. nd \in Nat /\ \A i \in 1 .. nd : p[i] \in Tags
        BY <3>1, <3>2, ElementOfSeq, LenProperties
      <3>4. ASSUME NEW l \in 0 .. max, l # max PROVE point[l] # Frozen
        <4>1. l < nd => l + 1 \in 1 .. nd
          BY <3>2, <3>3
        <4> QED  BY <2>1, <3>1, <3>3, <3>4, <4>1
      <3>5. point[max] = Frozen
        BY <3>1, <3>2, <3>3
      <3> QED  BY <3>1, <3>4, <3>5
    <2> QED  BY <2>2, <2>3 DEF Init
  <1>2. MapsInv /\ FrozenApart /\ [Next]_memVars => FrozenApart'
    BY EntryKept
  <1>3. FrozenApart => EntryFrozen
    BY DEF FrozenApart
  <1> QED  BY <1>1, <1>2, <1>3, MapsInvariant, PTL DEF Spec

-----------------------------------------------------------------------------
(* The lists of the graph. *)

(* Locations are integers and nodes finitely many. *)
LEMMA NodeTypes ==
    ASSUME MapsInv
    PROVE  /\ max \in Nat /\ nd \in Nat /\ nd <= max /\ max \in Nodes
           /\ Nodes \subseteq 0 .. max /\ IsFiniteSet(Nodes) /\ Nodes \subseteq Int
           /\ \A t \in Threads : th[t].pc \in {"place", "fill"} => th[t].loc \in 0 .. nd - 1
<1>1. max \in Nat /\ nd \in Nat /\ nd <= max  BY DEF MapsInv, MapTypeOK
<1>2. ASSUME NEW t \in Threads, th[t].pc \in {"place", "fill"} PROVE th[t].loc \in 0 .. nd - 1
  <2>1. CallKnows(t) /\ TagsExact /\ MapTypeOK  BY DEF MapsInv
  <2> QED BY <2>1, <1>2 DEF CallKnows, TagsExact, MapTypeOK
<1>3. Nodes \subseteq 0 .. max  BY <1>1 DEF Nodes
<1>4. IsFiniteSet(0 .. max)  BY <1>1, FS_Interval
<1>5. IsFiniteSet(Nodes)  BY <1>3, <1>4, FS_Subset
<1>6. max \in Nodes
  <2>1. max \notin Pending  BY <1>1, <1>2 DEF Pending
  <2> QED BY <2>1 DEF Nodes
<1> QED BY <1>1, <1>2, <1>3, <1>5, <1>6

(* A distance of two points or queries is a natural number. *)
LEMMA Distances ==
    ASSUME NEW a \in Points \cup Queries, NEW b \in Points \cup Queries
    PROVE  Dist[a, b] \in Int
<1> DEFINE S == Points \cup Queries
<1>1. \A x, y \in S : Dist[x, y] \in Nat  BY DataAssumption
<1>2. a \in S /\ b \in S  OBVIOUS
<1> HIDE DEF S
<1> DEFINE d == Dist[a, b]
<1>3. d \in Nat  BY Zenon, <1>1, <1>2
<1> HIDE DEF d
<1>4. d \in Int  BY <1>3
<1> QED BY Zenon, <1>4 DEF d

(* The distances that a walk, or the pruning of a node's list, compares. *)
LEMMA NodeDistances ==
    ASSUME MapsInv, VectorsInPlace, NEW p \in Nodes
    PROVE  \A n \in Nodes : Gap(point, p, n) \in Int
<1> SUFFICES ASSUME NEW n \in Nodes PROVE Gap(point, p, n) \in Int
  OBVIOUS
<1>1. point[p] \in Points \cup Queries /\ point[n] \in Points \cup Queries  BY DEF VectorsInPlace
<1> QED BY <1>1, Distances DEF Gap

(* iterate_to_fixed_point's list: the nearest of what was measured, each    *)
(* once; while nothing but the entry is measured it is the entry.           *)
LEMMA BestList ==
    ASSUME MapsInv, VectorsInPlace, NEW t \in Threads, WalkHolds(t), NEW best, best = Best(t)
    PROVE  /\ best \in Seq(DOMAIN th[t].at) /\ IsInjective(best) /\ best # << >>
           /\ Cardinality(DOMAIN th[t].at) \in Nat
           /\ Len(best) = IF Cardinality(DOMAIN th[t].at) < L
                          THEN Cardinality(DOMAIN th[t].at) ELSE L
<1> DEFINE at == th[t].at
           D  == DOMAIN at
           q  == -1
           of == With(at, q, th[t].query)
           pool == SortedPool(q, D, of)
<1>1. best = Nearest(pool)
  <2> DEFINE T == { Nearest(p) : p \in {pool} }
  <2>1. best = Only(T)  BY DEF Best
  <2> HIDE DEF pool
  <2>2. T = {Nearest(pool)}  OBVIOUS
  <2> HIDE DEF T
  <2> QED BY <2>1, <2>2, OnlyOne
<1>2. D \subseteq Nodes /\ max \in D /\ th[t].query \in Points \cup Queries
      /\ \A n \in D : at[n] = point[n]
  BY DEF WalkHolds, Ep
<1>3. IsFiniteSet(D) /\ D \subseteq Int /\ q \notin D
  <2>1. IsFiniteSet(Nodes) /\ Nodes \subseteq 0 .. max /\ max \in Nat  BY NodeTypes
  <2>2. IsFiniteSet(D)
    <3> HIDE DEF D
    <3> QED BY <1>2, <2>1, FS_Subset
  <2> HIDE DEF D
  <2> QED BY <1>2, <2>1, <2>2
<1>4. \A n \in D : Gap(of, q, n) \in Int
  <2>1. of[q] = th[t].query /\ \A n \in D : of[n] = point[n]  BY <1>2, <1>3 DEF With
  <2>2. \A n \in D : point[n] \in Points  BY <1>2 DEF VectorsInPlace
  <2> HIDE DEF of, D, q
  <2> SUFFICES ASSUME NEW n \in D PROVE Gap(of, q, n) \in Int
    OBVIOUS
  <2>3. of[q] \in Points \cup Queries /\ of[n] \in Points \cup Queries  BY <2>1, <2>2, <1>2
  <2> QED BY <2>3, Distances DEF Gap
<1> HIDE DEF of, D, at, q
<1>5. /\ Cardinality(D) \in Nat /\ pool \in Seq(D) /\ Len(pool) = Cardinality(D)
      /\ IsInjective(pool)
  <2>1. pool = SortedPool(q, D, of)  OBVIOUS
  <2> HIDE DEF pool
  <2>2. Cardinality(D) \in Nat /\ pool \in Seq(D) /\ Len(pool) = Cardinality(D)
    BY <1>3, <1>4, <2>1, SortedPoolParts
  <2>3. pool \in Seq(D) /\ IsInjective(pool)  BY <1>3, <1>4, <2>1, SortedPoolParts
  <2> QED BY <2>2, <2>3
<1>6. Cardinality(D) # 0  BY <1>2, <1>3, FS_EmptySet
<1> HIDE DEF pool
<1> DEFINE n == IF Len(pool) < L THEN Len(pool) ELSE L
<1>7. n \in 1 .. Len(pool)  BY <1>5, <1>6, MemAssumption
<1>8. best = SubSeq(pool, 1, n)  BY <1>1 DEF Nearest
<1>9. n = IF Cardinality(D) < L THEN Cardinality(D) ELSE L  BY <1>5
<1> HIDE DEF n
<1>10. /\ best \in Seq(D) /\ Len(best) = n /\ \A i \in 1 .. n : best[i] = pool[i]
  BY <1>5, <1>7, <1>8, SubSeqProperties
<1>11. IsInjective(best) /\ best # << >>
  <2>1. DOMAIN best = 1 .. n /\ DOMAIN pool = 1 .. Len(pool)  BY <1>5, <1>10, LenProperties
  <2>2. \A i \in 1 .. n : i \in DOMAIN pool  BY <1>5, <1>7, <2>1
  <2>3. best # << >>  BY <1>5, <1>7, <1>10, EmptySeq
  <2> QED BY <2>1, <2>2, <2>3, <1>5, <1>10 DEF IsInjective
<1> QED BY <1>5, <1>9, <1>10, <1>11 DEF D, at

(* What the walk expands next: the first of the list that is not expanded.  *)
LEMMA NextToExpand ==
    ASSUME MapsInv, VectorsInPlace, NEW t \in Threads, WalkHolds(t),
           NEW rest, rest = Kept(Best(t), DOMAIN th[t].at \ th[t].expanded)
    PROVE  /\ rest # << >> => rest[1] \in DOMAIN th[t].at \ th[t].expanded
           /\ rest = << >> => th[t].expanded # {} /\ Range(Best(t)) \subseteq th[t].expanded
<1> DEFINE D == DOMAIN th[t].at
           best == Best(t)
           S == D \ th[t].expanded
<1>1. best \in Seq(D) /\ best # << >>  BY BestList
<1>0. rest = Kept(best, S)  OBVIOUS
<1> HIDE DEF best, D, S
<1>2. rest \in Seq(D \cap S) /\ Range(rest) = Range(best) \cap S
  <2>1. rest \in Seq(D \cap S)  BY <1>0, <1>1, KeptLists
  <2>2. Range(rest) = Range(best) \cap S  BY <1>0, <1>1, KeptEntries
  <2> QED BY <2>1, <2>2
<1>3. rest # << >> => rest[1] \in S  BY <1>2
<1>4. best[1] \in Range(best) /\ Range(best) \subseteq D
  <2>1. DOMAIN best = 1 .. Len(best) /\ Len(best) \in Nat /\ Len(best) # 0
    BY <1>1, LenProperties, EmptySeq
  <2>2. 1 \in DOMAIN best /\ \A i \in DOMAIN best : best[i] \in D  BY <1>1, <2>1, ElementOfSeq
  <2>3. \A x : x \in Range(best) <=> \E i \in DOMAIN best : x = best[i]  BY DEF Range
  <2>4. best[1] \in Range(best)  BY <2>2, <2>3
  <2>5. Range(best) \subseteq D  BY <2>2, <2>3
  <2> QED BY <2>4, <2>5
<1>5. rest = << >> => Range(best) \cap S = {}
  <2>1. Range(<< >>) = {}  BY DEF Range
  <2> QED BY <1>2, <2>1
<1>6. rest = << >> => Range(best) \subseteq th[t].expanded  BY <1>4, <1>5 DEF S
<1> QED BY <1>3, <1>4, <1>6 DEF best, S, D

(* A node's list is pruned to range distinct nodes, none of them itself; it *)
(* is not empty when there is a candidate.                                  *)
LEMMA PruneList ==
    ASSUME MapsInv, VectorsInPlace, NEW loc \in Nodes, NEW ids, ids \subseteq Nodes \ {loc},
           NEW list, list = Prune(loc, ids)
    PROVE  /\ list \in Seq(Nodes \ {loc}) /\ IsInjective(list) /\ Len(list) <= R
           /\ Range(list) \subseteq ids /\ (ids # {} => list # << >>)
<1> DEFINE pool == SortedPool(loc, ids, point)
           others == Kept(pool, Range(pool) \ {loc})
           chosen == OccludeList(loc, pool, point)
           kept == Kept(others, chosen)
<1>1. list = kept \/ list = Saturate(kept, others)
  <2> DEFINE T == { PrunedPool(loc, p) : p \in {pool} }
  <2>1. list = Only(T)  BY DEF Prune
  <2>2. T = {PrunedPool(loc, pool)}
    <3> HIDE DEF pool
    <3> QED OBVIOUS
  <2>3. list = PrunedPool(loc, pool)
    <3> HIDE DEF T
    <3>1. list = Only({PrunedPool(loc, pool)})  BY <2>1, <2>2
    <3> DEFINE x == PrunedPool(loc, pool)
    <3> HIDE DEF x
    <3>2. list = Only({x})  BY <3>1 DEF x
    <3>3. Only({x}) = x  BY OnlyOne
    <3>4. list = x  BY <3>2, <3>3
    <3> QED BY <3>4 DEF x
  <2> HIDE DEF pool
  <2> QED BY Zenon, <2>3 DEF PrunedPool
<1>2. pool \in Seq(ids) /\ IsInjective(pool) /\ Range(pool) = ids
  <2>1. IsFiniteSet(ids) /\ ids \subseteq Int  BY NodeTypes, FS_Subset
  <2>2. \A n \in ids : Gap(point, loc, n) \in Int  BY NodeDistances
  <2> DEFINE of == point
  <2>3. pool = SortedPool(loc, ids, of)  OBVIOUS
  <2>4. \A n \in ids : Gap(of, loc, n) \in Int  BY <2>2
  <2> HIDE DEF pool, of
  <2> QED BY <2>1, <2>3, <2>4, SortedPoolParts
<1> HIDE DEF pool
<1>3. others \in Seq(ids) /\ IsInjective(others) /\ Range(others) = ids
  <2> DEFINE S == Range(pool) \ {loc}
  <2>1. others = Kept(pool, S)  OBVIOUS
  <2> HIDE DEF S, others
  <2>2. others \in Seq(ids \cap S)  BY <1>2, <2>1, KeptLists
  <2>3. Range(others) = Range(pool) \cap S  BY <1>2, <2>1, KeptEntries
  <2>4. IsInjective(others)  BY <1>2, <2>1, KeptInjective
  <2>5. ids \cap S = ids /\ Range(pool) \cap S = ids  BY <1>2 DEF S
  <2> QED BY <2>2, <2>3, <2>4, <2>5
<1> HIDE DEF others
<1> DEFINE N == Nodes \ {loc}
<1>4. others \in Seq(N)
  <2>1. ids \subseteq N  OBVIOUS
  <2> HIDE DEF N
  <2> QED BY <1>3, <2>1, SeqMonotonic
<1>5. IsFiniteSet(chosen) /\ Cardinality(chosen) <= R /\ (pool # << >> => pool[1] \in chosen)
  BY <1>2, OccludeListChooses
<1> HIDE DEF chosen
<1> HIDE DEF N
<1>6. /\ kept \in Seq(N \cap chosen) /\ Range(kept) = Range(others) \cap chosen
      /\ IsInjective(kept)
  <2>1. kept \in Seq(N \cap chosen)  BY <1>4, KeptLists
  <2>2. Range(kept) = Range(others) \cap chosen  BY <1>4, KeptEntries
  <2>3. IsInjective(kept)  BY <1>3, <1>4, KeptInjective
  <2> QED BY <2>1, <2>2, <2>3
<1>7. Len(kept) <= R /\ kept \in Seq(N)
  <2>1. Len(kept) <= Cardinality(chosen)  BY <1>3, <1>4, <1>5, KeptLen
  <2> HIDE DEF kept
  <2>2. kept \in Seq(N)  BY <1>6, SeqMonotonic
  <2>3. Len(kept) \in Nat /\ Cardinality(chosen) \in Nat  BY <1>5, <2>2, LenProperties, FS_CardinalityType
  <2> QED BY <1>5, <2>1, <2>2, <2>3, PruneAssumption
<1> HIDE DEF kept
<1>8. ids # {} => kept # << >>
  <2>1. Range(<< >>) = {}  BY DEF Range
  <2>2. ids # {} => pool # << >>  BY <1>2, <2>1
  <2>3. pool # << >> => pool[1] \in ids  BY <1>2
  <2> QED BY <1>3, <1>5, <1>6, <2>1, <2>2, <2>3
<1>9. CASE list = kept
  <2>1. Range(kept) \subseteq ids  BY <1>3, <1>6
  <2> QED BY <1>6, <1>7, <1>8, <1>9, <2>1 DEF N
<1>10. CASE list = Saturate(kept, others)
  <2>1. Range(kept) \subseteq Range(others)  BY <1>6
  <2>2. /\ list \in Seq(N) /\ IsInjective(list) /\ Len(list) <= R
        /\ Range(list) \subseteq Range(others) /\ (kept # << >> => list # << >>)
    BY <1>3, <1>4, <1>6, <1>7, <1>10, <2>1, SaturateFills
  <2> QED BY <2>2, <1>3, <1>6, <1>8 DEF N
<1> QED BY <1>1, <1>9, <1>10

-----------------------------------------------------------------------------
(* What one call's step leaves of the others'. *)

(* The labels of an insertion before it links.                              *)
Inserting == {"unlink", "reserve", "grow", "again", "place", "fill"}

(* The others go on as they were. *)
OthersWait(t) == DOMAIN th' = Threads /\ \A u \in Threads \ {t} : th'[u] = th[u]

(* A step that neither takes a location nor writes a vector. *)
LEMMA NodesStay ==
    ASSUME NEW t \in Threads, OthersWait(t), UNCHANGED <<max, nd>>,
           \/ th[t].pc \notin {"place", "fill"} /\ th'[t].pc \notin {"place", "fill"}
           \/ th[t].pc = "place" /\ th'[t].pc = "fill" /\ th'[t].loc = th[t].loc
    PROVE  Pending' = Pending /\ Nodes' = Nodes
<1> DEFINE W  == { u \in Threads : th[u].pc \in {"place", "fill"} }
           W1 == { u \in Threads : th'[u].pc \in {"place", "fill"} }
<1>1. W1 = W  BY DEF OthersWait
<1>2. \A u \in W : th'[u].loc = th[u].loc  BY DEF OthersWait
<1>3. Pending = { th[u].loc : u \in W } /\ Pending' = { th'[u].loc : u \in W1 }  BY DEF Pending
<1> HIDE DEF W, W1
<1>4. Pending' = Pending  BY <1>1, <1>2, <1>3
<1> QED BY <1>4 DEF Nodes

(* What a call remembers of the graph stays true when nodes only come.      *)
LEMMA CallHoldsOn ==
    ASSUME NEW u \in Threads, CallHolds(u), th'[u] = th[u], max' = max, Nodes \subseteq Nodes',
           \A n \in Nodes : point'[n] = point[n], Nodes \subseteq Int, nd \in Int, nd' \in Int, nd <= nd'
    PROVE  CallHolds(u)'
<1>1. WalkHolds(u) => WalkHolds(u)'
  <2> SUFFICES ASSUME WalkHolds(u) PROVE WalkHolds(u)'
    OBVIOUS
  <2>1. th[u].at = [ n \in DOMAIN th[u].at |-> point'[n] ]  BY DEF WalkHolds
  <2> QED BY <2>1 DEF WalkHolds, Ep
<1>2. Linking(u)' <=> Linking(u)  BY DEF Linking
<1>3. \A l : Nodes \ {l} \subseteq Nodes' \ {l}  OBVIOUS
<1>4. \A l, s : s \in Seq(Nodes \ {l}) => s \in Seq(Nodes' \ {l})  BY <1>3, SeqMonotonic
<1>5. th[u].pc \in {"walk", "assign", "collect"} => WalkHolds(u)'  BY <1>1 DEF CallHolds
<1>6. Linking(u) => th[u].loc \in Nodes'  BY DEF CallHolds
<1>7. th[u].pc \in {"link", "shrink"} =>
          "todo" \in DOMAIN th[u] /\ th[u].todo \in Seq(Nodes' \ {th[u].loc})
  BY <1>4 DEF CallHolds
<1>8. th[u].pc = "shrink" =>
          /\ th[u].todo # << >> /\ "copy" \in DOMAIN th[u]
          /\ th[u].copy \subseteq Nodes' /\ th[u].loc \in th[u].copy
  BY DEF CallHolds
<1>9. th[u].pc = "translate" =>
          /\ "ids" \in DOMAIN th[u] /\ th[u].ids \in Seq(Range(th[u].ids))
          /\ \A e \in Range(th[u].ids) :
                e[2] # None => e[1] \in Nodes /\ e[1] < nd /\ e[2] = point[e[1]]
  BY DEF CallHolds
<1>10. ASSUME th[u].pc = "translate", NEW e \in Range(th[u].ids), e[2] # None
       PROVE  e[1] \in Nodes' /\ e[1] < nd' /\ e[2] = point'[e[1]]
  <2>1. e[1] \in Nodes /\ e[1] < nd /\ e[2] = point[e[1]]  BY <1>9, <1>10
  <2>2. e[1] \in Int  BY <2>1
  <2> QED BY <2>1, <2>2
<1>11. th[u].pc = "found" => \A r \in th[u].results : r[2] \in {r[1], None}  BY DEF CallHolds
<1> QED BY <1>2, <1>5, <1>6, <1>7, <1>8, <1>9, <1>10, <1>11 DEF CallHolds

(* Nor when the others do not hold _update_lock, the frozen point moves and *)
(* the locations in front of it keep their vectors.                         *)
LEMMA UnlockedHoldsOn ==
    ASSUME NEW u \in Threads, CallHolds(u), th'[u].pc = th[u].pc, th[u].pc \in Unlocked,
           th[u].pc \in {"translate", "found"} => th'[u] = th[u], nd' = nd,
           \A n \in Nodes : n < nd => n \in Nodes' /\ point'[n] = point[n]
    PROVE  CallHolds(u)'
<1>1. ~Linking(u)'  BY DEF Linking, Unlocked
<1>2. CASE th[u].pc = "translate"
  <2>1. \A e \in Range(th'[u].ids) :
            e[2] # None => e[1] \in Nodes' /\ e[1] < nd' /\ e[2] = point'[e[1]]
    BY <1>2 DEF CallHolds
  <2>2. "ids" \in DOMAIN th'[u] /\ th'[u].ids \in Seq(Range(th'[u].ids))  BY <1>2 DEF CallHolds
  <2> QED BY <1>1, <1>2, <2>1, <2>2 DEF CallHolds
<1>3. CASE th[u].pc = "found"
  <2>1. \A r \in th'[u].results : r[2] \in {r[1], None}  BY <1>3 DEF CallHolds
  <2> QED BY <1>1, <1>3, <2>1 DEF CallHolds
<1>4. CASE th[u].pc \in {"idle", "grow", "again", "crashed"}  BY <1>1, <1>4 DEF CallHolds
<1> QED BY <1>2, <1>3, <1>4 DEF Unlocked

(* A call that is not walking, linking, translating or returning remembers  *)
(* nothing.                                                                 *)
LEMMA NothingHeld ==
    ASSUME NEW u \in Threads,
           th'[u].pc \notin {"walk", "assign", "collect", "link", "shrink", "translate", "found"}
    PROVE  CallHolds(u)'
  BY DEF CallHolds, Linking

(* What the phase allows one call to do next. *)
LEMMA PhaseStep ==
    ASSUME PhaseKnown, NEW t \in Threads, OthersWait(t), UNCHANGED <<max, nd, phase, inserts>>,
           next' \in Nat \/ next' = next,
           \/ Linking(t) /\ (Linking(t)' \/ th'[t].pc \in {"idle", "crashed"})
           \/ phase = "link" /\ Linking(t)'
           \/ phase # "link" /\ ~Linking(t)' /\ th'[t].pc \notin Inserting
           \/ th[t].pc \in Inserting
    PROVE  PhaseKnown'
<1>1. phase = "link" => nd' = max' /\ next' \in Nat  BY DEF PhaseKnown
<1>2. ASSUME phase = "link", NEW u \in Threads
      PROVE  th'[u].pc \in {"idle", "crashed"} \/ Linking(u)'
  <2>1. th[u].pc \in {"idle", "crashed"} \/ Linking(u)  BY <1>2 DEF PhaseKnown
  <2>2. CASE u # t  BY <2>1, <2>2 DEF Linking, OthersWait
  <2>3. CASE u = t  BY <1>2, <2>1, <2>3 DEF Inserting, Linking
  <2> QED BY <2>2, <2>3
<1>3. ASSUME phase = "built", inserts = 0, NEW u \in Threads
      PROVE  ~Linking(u)' /\ th'[u].pc \notin Inserting
  <2>1. ~Linking(u) /\ th[u].pc \notin Inserting  BY <1>3 DEF PhaseKnown, Inserting
  <2>2. CASE u # t  BY <2>1, <2>2 DEF Linking, OthersWait
  <2>3. CASE u = t  BY <1>3, <2>1, <2>3
  <2> QED BY <2>2, <2>3
<1>4. inserts' \in Nat  BY DEF PhaseKnown
<1> QED BY <1>1, <1>2, <1>3, <1>4 DEF PhaseKnown, Inserting

(* The lists and the vectors, when neither is written. *)
LEMMA ListsStay ==
    ASSUME ListsInv, Nodes' = Nodes, UNCHANGED <<max, point, graph>>,
           \A l \in DOMAIN locTag' \cap Nodes : l \in DOMAIN locTag /\ locTag'[l] = locTag[l],
           phase' = "built" /\ inserts' = 0 => phase = "built" /\ inserts = 0
    PROVE  GraphClosed' /\ VectorsInPlace' /\ DegreeBounded'
<1>1. GraphClosed /\ VectorsInPlace /\ DegreeBounded  BY DEF ListsInv
<1>2. GraphClosed'  BY <1>1 DEF GraphClosed
<1>3. VectorsInPlace'  BY <1>1 DEF VectorsInPlace
<1>4. DegreeBounded'  BY <1>1 DEF DegreeBounded
<1> QED BY <1>2, <1>3, <1>4

(* One call's step that writes no list and no vector. *)
LEMMA LocalStep ==
    ASSUME MapsInv, ListsInv, NEW t \in Threads, OthersWait(t), UNCHANGED <<slotVars, nodeVars>>,
           \/ th[t].pc \notin {"place", "fill"} /\ th'[t].pc \notin {"place", "fill"}
           \/ th[t].pc = "place" /\ th'[t].pc = "fill" /\ th'[t].loc = th[t].loc,
           \A l \in DOMAIN locTag' \cap Nodes : l \in DOMAIN locTag /\ locTag'[l] = locTag[l],
           phase' = "built" /\ inserts' = 0 => phase = "built" /\ inserts = 0,
           CallHolds(t)', PhaseKnown'
    PROVE  ListsInv'
<1>1. UNCHANGED <<max, nd, point, graph>>  BY DEF slotVars, nodeVars
<1>2. Nodes' = Nodes  BY <1>1, NodesStay
<1>3. GraphClosed' /\ VectorsInPlace' /\ DegreeBounded'  BY <1>1, <1>2, ListsStay
<1>4. Nodes \subseteq Int /\ nd \in Int  BY NodeTypes
<1>5. ASSUME NEW u \in Threads PROVE CallHolds(u)'
  <2>1. CASE u = t  BY <2>1
  <2>2. CASE u # t
    <3>1. CallHolds(u) /\ th'[u] = th[u]  BY <2>2 DEF ListsInv, OthersWait
    <3> QED BY <1>1, <1>2, <1>4, <3>1, CallHoldsOn
  <2> QED BY <2>1, <2>2
<1> QED BY <1>3, <1>5 DEF ListsInv

-----------------------------------------------------------------------------
(* The steps of a walk and of a search. *)

(* An edge leads to a location. *)
LEMMA EdgesInside ==
    ASSUME MapsInv, GraphClosed, NEW l \in 0 .. max
    PROVE  Range(graph[l]) \subseteq Nodes /\ Range(graph[l]) \subseteq DOMAIN graph
<1>1. graph[l] \in Seq(Nodes \ {l}) /\ DOMAIN graph = 0 .. max  BY DEF GraphClosed
<1>2. Range(graph[l]) \subseteq Nodes
  <2> DEFINE A == Nodes \ {l}
  <2>1. \A i \in DOMAIN graph[l] : graph[l][i] \in A  BY <1>1, LenProperties, ElementOfSeq
  <2> QED BY <2>1 DEF Range
<1> QED BY <1>1, <1>2, NodeTypes

(* A walk finds no edge behind the last location. *)
LEMMA WalkGoesOn ==
    ASSUME MapsInv, ListsInv, NEW t \in Threads, WalkStep(t)
    PROVE  LET rest == Kept(Best(t), DOMAIN th[t].at \ th[t].expanded)
           IN  \/ rest = << >> /\ Go(t, th[t].then)
               \/ /\ rest # << >>
                  /\ th' = [th EXCEPT ![t].expanded = @ \cup {rest[1]}, ![t].at = Measured(@, rest[1])]
<1> DEFINE rest == Kept(Best(t), DOMAIN th[t].at \ th[t].expanded)
<1>1. CallTypeOK(t) /\ WalkHolds(t) /\ VectorsInPlace /\ GraphClosed /\ th[t].pc = "walk"
  BY DEF WalkStep, MapsInv, MapTypeOK, ListsInv, CallHolds
<1>2. ASSUME rest # << >> PROVE Range(graph[rest[1]]) \subseteq DOMAIN graph
  <2>1. rest[1] \in DOMAIN th[t].at  BY <1>1, <1>2, NextToExpand
  <2> HIDE DEF rest
  <2>2. rest[1] \in 0 .. max  BY <1>1, <2>1, NodeTypes DEF WalkHolds
  <2> QED BY <1>1, <2>2, EdgesInside
<1>3. IF rest = << >> THEN Go(t, th[t].then)
      ELSE IF Range(graph[rest[1]]) \subseteq DOMAIN graph
      THEN th' = [th EXCEPT ![t].expanded = @ \cup {rest[1]}, ![t].at = Measured(@, rest[1])]
      ELSE Go(t, "crashed")
  BY DEF WalkStep
<1> HIDE DEF rest
<1> QED BY <1>2, <1>3 DEF rest

(* iterate_to_fixed_point measures nodes only: edges lead to nodes.         *)
LEMMA WalkLists ==
    ASSUME MapsInv, ListsInv, NEW t \in Threads, WalkStep(t)
    PROVE  ListsInv'
<1> DEFINE D    == DOMAIN th[t].at
           rest == Kept(Best(t), D \ th[t].expanded)
<1>1. /\ UNCHANGED <<slotVars, nodeVars>> /\ UNCHANGED <<mapVars, next, restVars>>
      /\ th[t].pc = "walk"
  BY DEF WalkStep
<1>2. /\ MapTypeOK /\ CallTypeOK(t) /\ WalkHolds(t) /\ VectorsInPlace /\ GraphClosed /\ PhaseKnown
      /\ CallHolds(t)
  BY <1>1 DEF MapsInv, MapTypeOK, ListsInv, CallHolds
<1>3. \/ rest = << >> /\ Go(t, th[t].then)
      \/ /\ rest # << >>
         /\ th' = [th EXCEPT ![t].expanded = @ \cup {rest[1]}, ![t].at = Measured(@, rest[1])]
  BY WalkGoesOn DEF WalkStep
<1>4. /\ rest # << >> => rest[1] \in D \ th[t].expanded
      /\ rest = << >> => th[t].expanded # {} /\ Range(Best(t)) \subseteq th[t].expanded
  BY <1>2, NextToExpand
<1> HIDE DEF rest
<1>5. th[t].then \in {"assign", "collect"} /\ {"pc", "tag", "loc", "then"} \subseteq DOMAIN th[t]
  BY <1>1, <1>2 DEF CallTypeOK
<1>6. /\ OthersWait(t) /\ CallHolds(t)' /\ th'[t].pc \in {"walk", th[t].then}
      /\ Linking(t)' = Linking(t)
  <2>1. CASE rest = << >>
    <3>1. Go(t, th[t].then)  BY <1>3, <2>1
    <3>2. /\ OthersWait(t) /\ th'[t].pc = th[t].then /\ DOMAIN th'[t] = DOMAIN th[t]
          /\ \A f \in DOMAIN th[t] : f # "pc" => th'[t][f] = th[t][f]
      BY <1>2, <3>1, Went DEF OthersWait
    <3>3. {"query", "at", "expanded", "loc", "then"} \subseteq DOMAIN th[t]  BY <1>2 DEF WalkHolds
    <3>4. /\ th'[t].query = th[t].query /\ th'[t].at = th[t].at /\ th'[t].loc = th[t].loc
          /\ th'[t].expanded = th[t].expanded /\ th'[t].then = th[t].then
      BY <3>2, <3>3
    <3>5. UNCHANGED <<max, nd, point>>  BY <1>1 DEF slotVars, nodeVars
    <3>6. Nodes' = Nodes  BY <1>1, <1>5, <3>2, <3>5, NodesStay
    <3>7. WalkHolds(t)'
      BY <1>2, <1>4, <2>1, <3>2, <3>3, <3>4, <3>5, <3>6 DEF WalkHolds, Ep
    <3>8. Linking(t)' = Linking(t)  BY <1>1, <1>5, <3>2, <3>4 DEF Linking
    <3>9. Linking(t)' => th'[t].loc \in Nodes'  BY <1>2, <3>4, <3>6, <3>8 DEF CallHolds
    <3>10. CallHolds(t)'  BY <1>5, <3>2, <3>7, <3>9 DEF CallHolds
    <3> QED BY <3>2, <3>8, <3>10
  <2>2. CASE rest # << >>
    <3> DEFINE n == rest[1]
    <3>1. th' = [th EXCEPT ![t].expanded = @ \cup {n}, ![t].at = Measured(@, n)]  BY <1>3, <2>2
    <3>2. n \in D \ th[t].expanded  BY <1>4, <2>2
    <3> HIDE DEF n
    <3>3. {"query", "at", "expanded", "loc", "then"} \subseteq DOMAIN th[t]  BY <1>2 DEF WalkHolds
    <3>4. /\ OthersWait(t) /\ DOMAIN th'[t] = DOMAIN th[t]
          /\ th'[t].expanded = th[t].expanded \cup {n} /\ th'[t].at = Measured(th[t].at, n)
          /\ th'[t].query = th[t].query /\ th'[t].loc = th[t].loc /\ th'[t].then = th[t].then
          /\ th'[t].pc = "walk"
      BY <1>1, <1>2, <1>5, <3>1, <3>3 DEF OthersWait, MapTypeOK
    <3>5. UNCHANGED <<max, nd, point>>  BY <1>1 DEF slotVars, nodeVars
    <3>6. Nodes' = Nodes  BY <1>1, <3>4, <3>5, NodesStay
    <3>7. n \in Nodes /\ n \in D  BY <1>2, <3>2 DEF WalkHolds
    <3>8. Range(graph[n]) \subseteq Nodes
      <4>1. n \in 0 .. max  BY <3>7, NodeTypes
      <4>2. graph[n] \in Seq(Nodes \ {n})  BY <1>2, <4>1 DEF GraphClosed
      <4> QED BY <4>2 DEF Range
    <3>9. /\ DOMAIN th'[t].at = D \cup Range(graph[n])
          /\ th'[t].at = [ k \in DOMAIN th'[t].at |-> point[k] ]
      <4>1. th[t].at = [ k \in D |-> point[k] ]  BY <1>2 DEF WalkHolds
      <4>2. th'[t].at = [ k \in D \cup Range(graph[n]) |-> IF k \in D THEN th[t].at[k] ELSE point[k] ]
        BY <3>4 DEF Measured
      <4>3. \A k \in D : th[t].at[k] = point[k]  BY <4>1
      <4> HIDE DEF D
      <4>4. DOMAIN th'[t].at = D \cup Range(graph[n])  BY <4>2
      <4>5. [ k \in D \cup Range(graph[n]) |-> IF k \in D THEN th[t].at[k] ELSE point[k] ]
              = [ k \in D \cup Range(graph[n]) |-> point[k] ]
        BY <4>3
      <4> QED BY <4>2, <4>4, <4>5
    <3>10. Ep \in D /\ Ep \in th'[t].expanded
      <4>1. Ep \in D  BY <1>2 DEF WalkHolds
      <4>2. th[t].expanded = {} => n = Ep  BY <1>2, <3>7 DEF WalkHolds
      <4>3. th[t].expanded # {} => Ep \in th[t].expanded  BY <1>2 DEF WalkHolds
      <4> QED BY <3>4, <4>1, <4>2, <4>3
    <3>11. th[t].expanded \subseteq D /\ D \subseteq Nodes /\ th[t].query \in Points \cup Queries
      BY <1>2 DEF WalkHolds
    <3>12. WalkHolds(t)'
      <4>1. {"query", "at", "expanded", "loc", "then"} \subseteq DOMAIN th'[t]  BY <3>3, <3>4
      <4>2. th'[t].query \in Points \cup Queries /\ th'[t].expanded # {}  BY <3>4, <3>11
      <4>3. DOMAIN th'[t].at \subseteq Nodes' /\ th'[t].expanded \subseteq DOMAIN th'[t].at
        BY <3>4, <3>6, <3>7, <3>8, <3>9, <3>11
      <4>4. Ep' = Ep  BY <3>5 DEF Ep
      <4>5. Ep' \in DOMAIN th'[t].at /\ Ep' \in th'[t].expanded  BY <3>9, <3>10, <4>4
      <4>6. th'[t].at = [ k \in DOMAIN th'[t].at |-> point'[k] ]  BY <3>5, <3>9
      <4> QED BY <4>1, <4>2, <4>3, <4>5, <4>6 DEF WalkHolds
    <3>13. Linking(t)' = Linking(t)  BY <1>1, <3>4 DEF Linking
    <3>14. Linking(t)' => th'[t].loc \in Nodes'  BY <1>2, <3>4, <3>6, <3>13 DEF CallHolds
    <3>15. CallHolds(t)'  BY <3>4, <3>12, <3>14 DEF CallHolds
    <3> QED BY <3>4, <3>13, <3>15
  <2> QED BY <2>1, <2>2
<1>7. PhaseKnown'
  <2>1. UNCHANGED <<max, nd, phase, inserts, next>>  BY <1>1 DEF slotVars, restVars
  <2>2. CASE Linking(t)  BY <1>2, <1>6, <2>1, <2>2, PhaseStep
  <2>3. CASE ~Linking(t)
    <3>1. phase # "link"  BY <1>1, <1>2, <2>3 DEF PhaseKnown
    <3>2. th'[t].pc \notin Inserting  BY <1>5, <1>6 DEF Inserting
    <3> QED BY <1>2, <1>6, <2>1, <2>3, <3>1, <3>2, PhaseStep
  <2> QED BY <2>2, <2>3
<1> QED
  <2>1. th'[t].pc \notin {"place", "fill"}  BY <1>5, <1>6
  <2>2. UNCHANGED <<locTag, phase, inserts>>  BY <1>1 DEF mapVars, restVars
  <2> QED BY <1>1, <1>6, <1>7, <2>1, <2>2, LocalStep

-----------------------------------------------------------------------------
(* The steps that write one list. *)

(* One call's step that writes the list of node l. *)
LEMMA ListStep ==
    ASSUME MapsInv, ListsInv, NEW t \in Threads, OthersWait(t), UNCHANGED <<slotVars, mapVars, point>>,
           Linking(t), th'[t].pc \in {"link", "shrink"},
           UNCHANGED <<phase, inserts, next>>,
           NEW l \in Nodes, NEW list \in Seq(Nodes \ {l}), IsInjective(list), Len(list) <= Slack,
           graph' = [graph EXCEPT ![l] = list],
           Nodes' = Nodes => CallHolds(t)'
    PROVE  ListsInv'
<1>1. UNCHANGED <<max, nd, point, locTag>>  BY DEF slotVars, mapVars
<1>2. th[t].pc \notin {"place", "fill"} /\ th'[t].pc \notin {"place", "fill"} /\ Linking(t)'
  BY DEF Linking
<1>3. Nodes' = Nodes  BY <1>1, <1>2, NodesStay
<1>4. GraphClosed /\ VectorsInPlace /\ DegreeBounded /\ PhaseKnown  BY DEF ListsInv
<1>5. l \in 0 .. max /\ max \in Nat /\ Nodes \subseteq Int /\ nd \in Int  BY NodeTypes
<1>6. GraphClosed'
  <2>1. DOMAIN graph' = 0 .. max'  BY <1>1, <1>4 DEF GraphClosed
  <2>2. graph'[l] = list /\ \A k \in 0 .. max : k # l => graph'[k] = graph[k]
    BY <1>4, <1>5 DEF GraphClosed
  <2>3. ASSUME NEW k \in 0 .. max
        PROVE  /\ graph'[k] \in Seq(Nodes \ {k}) /\ IsInjective(graph'[k])
               /\ k \notin Nodes => graph'[k] = << >>
    <3>1. CASE k = l  BY <2>2, <3>1
    <3>2. CASE k # l  BY <2>2, <1>4, <3>2 DEF GraphClosed
    <3> QED BY <3>1, <3>2
  <2> QED BY <1>1, <1>3, <2>1, <2>3 DEF GraphClosed
<1>7. VectorsInPlace'  BY <1>1, <1>3, <1>4 DEF VectorsInPlace
<1>8. ~(phase = "built" /\ inserts = 0)  BY <1>4 DEF PhaseKnown
<1>9. DegreeBounded'
  <2>1. ASSUME NEW k \in 0 .. max PROVE Len(graph'[k]) <= Slack
    <3>1. CASE k = l  BY <1>4, <1>5, <3>1 DEF GraphClosed
    <3>2. CASE k # l  BY <1>4, <3>2 DEF GraphClosed, DegreeBounded
    <3> QED BY <3>1, <3>2
  <2> QED BY <1>1, <1>8, <2>1 DEF DegreeBounded
<1>10. PhaseKnown'  BY <1>1, <1>2, <1>4, PhaseStep
<1>11. ASSUME NEW u \in Threads PROVE CallHolds(u)'
  <2>1. CASE u = t  BY <1>3, <2>1
  <2>2. CASE u # t
    <3>1. CallHolds(u) /\ th'[u] = th[u]  BY <2>2 DEF ListsInv, OthersWait
    <3> QED BY <1>1, <1>3, <1>5, <3>1, CallHoldsOn
  <2> QED BY <2>1, <2>2
<1> QED BY <1>6, <1>7, <1>9, <1>10, <1>11 DEF ListsInv

(* A call whose todo list shrinks or is new. *)
LEMMA LinkHolds ==
    ASSUME NEW t \in Threads, th'[t].pc = "link", "todo" \in DOMAIN th'[t],
           th'[t].loc \in Nodes', th'[t].todo \in Seq(Nodes' \ {th'[t].loc})
    PROVE  CallHolds(t)'
  BY DEF CallHolds

(* What Linking gives of the call. *)
LEMMA LinkingKnows ==
    ASSUME MapsInv, ListsInv, NEW t \in Threads, Linking(t)
    PROVE  /\ MapTypeOK /\ CallHolds(t) /\ CallTypeOK(t) /\ VectorsInPlace /\ GraphClosed /\ DegreeBounded
           /\ PhaseKnown /\ th[t].loc \in Nodes /\ {"pc", "tag", "loc"} \subseteq DOMAIN th[t]
           /\ ~(phase = "built" /\ inserts = 0)
<1>1. /\ MapTypeOK /\ CallHolds(t) /\ CallTypeOK(t) /\ VectorsInPlace /\ GraphClosed /\ DegreeBounded
      /\ PhaseKnown
  BY DEF MapsInv, ListsInv, MapTypeOK
<1>2. th[t].loc \in Nodes  BY <1>1 DEF CallHolds
<1>3. th[t].pc \in {"assign", "link", "shrink", "walk"}  BY DEF Linking
<1>4. ~(phase = "built" /\ inserts = 0)  BY <1>1 DEF PhaseKnown
<1>5. /\ {"pc", "tag"} \subseteq DOMAIN th[t]
      /\ th[t].pc \in {"place", "fill", "walk", "assign", "link", "shrink"} => "loc" \in DOMAIN th[t]
  BY <1>1 DEF CallTypeOK
<1> QED BY <1>1, <1>2, <1>3, <1>4, <1>5

(* insert_point and link: the pruned list of the node is stored.            *)
LEMMA AssignLists ==
    ASSUME MapsInv, ListsInv, NEW t \in Threads, Assign(t)
    PROVE  ListsInv'
<1> DEFINE loc == th[t].loc
           ids == th[t].expanded \ {loc}
<1>1. th[t].pc = "assign" /\ UNCHANGED <<slotVars, mapVars, point, next, restVars>>  BY DEF Assign
<1>2. Linking(t)  BY <1>1 DEF Linking
<1>3. /\ MapTypeOK /\ CallHolds(t) /\ CallTypeOK(t) /\ VectorsInPlace /\ GraphClosed /\ DegreeBounded
      /\ PhaseKnown /\ loc \in Nodes /\ {"pc", "tag", "loc"} \subseteq DOMAIN th[t]
  BY <1>2, LinkingKnows
<1>4. ids \subseteq Nodes \ {loc}
  <2>1. WalkHolds(t)  BY <1>1, <1>3 DEF CallHolds
  <2> QED BY <2>1 DEF WalkHolds
<1>5. UNCHANGED <<max, nd, point, locTag, phase, inserts, next>>  BY <1>1 DEF slotVars, mapVars, restVars
<1>6. CASE ids = {}
  <2>1. Go(t, "crashed") /\ UNCHANGED graph  BY <1>6 DEF Assign
  <2>2. OthersWait(t) /\ th'[t].pc = "crashed"  BY <1>3, <2>1, Went DEF OthersWait
  <2>3. CallHolds(t)'  BY <2>2, NothingHeld
  <2>4. PhaseKnown'  BY <1>2, <1>3, <1>5, <2>2, PhaseStep
  <2>5. UNCHANGED nodeVars  BY <1>5, <2>1 DEF nodeVars
  <2> QED BY <1>1, <1>5, <2>2, <2>3, <2>4, <2>5, LocalStep
<1>7. CASE ids # {}
  <2> DEFINE list == Prune(loc, ids)
  <2>1. /\ graph' = [graph EXCEPT ![loc] = list]
        /\ th' = [th EXCEPT ![t] = [pc |-> "link", tag |-> @.tag, loc |-> @.loc, todo |-> list]]
    BY <1>7 DEF Assign
  <2>2. list \in Seq(Nodes \ {loc}) /\ IsInjective(list) /\ Len(list) <= R
    BY <1>3, <1>4, PruneList
  <2> HIDE DEF list, ids
  <2>3. OthersWait(t) /\ th'[t] = [pc |-> "link", tag |-> th[t].tag, loc |-> loc, todo |-> list]
    BY <1>3, <2>1 DEF MapTypeOK, OthersWait
  <2> HIDE DEF loc
  <2>4. Len(list) <= Slack
    <3>1. Len(list) \in Nat  BY <2>2, LenProperties
    <3> QED BY <2>2, <3>1, MemAssumption, PruneAssumption
  <2>5. /\ th'[t].pc = "link" /\ "todo" \in DOMAIN th'[t] /\ th'[t].loc = loc /\ th'[t].todo = list
    BY <2>3
  <2>6. Nodes' = Nodes => CallHolds(t)'  BY <1>3, <2>2, <2>5, LinkHolds
  <2>7. th'[t].pc \in {"link", "shrink"} /\ UNCHANGED <<phase, inserts, next>>  BY <1>5, <2>5
  <2> QED BY <1>1, <1>2, <1>3, <2>1, <2>2, <2>3, <2>4, <2>6, <2>7, ListStep
<1> QED BY <1>6, <1>7

(* A back link is added to a list that it is not in. *)
LEMMA Appended ==
    ASSUME NEW S, NEW s \in Seq(S), IsInjective(s), NEW x \in S, x \notin Range(s)
    PROVE  Append(s, x) \in Seq(S) /\ IsInjective(Append(s, x)) /\ Len(Append(s, x)) = Len(s) + 1
<1> DEFINE a == Append(s, x)
<1>1. /\ a \in Seq(S) /\ Len(a) = Len(s) + 1 /\ Len(s) \in Nat
      /\ \A i \in 1 .. Len(s) : a[i] = s[i]
      /\ a[Len(s) + 1] = x
  BY AppendProperties, LenProperties
<1>2. DOMAIN a = 1 .. Len(s) + 1 /\ DOMAIN s = 1 .. Len(s)  BY <1>1, LenProperties
<1> HIDE DEF a
<1>3. \A i \in 1 .. Len(s) : s[i] # x  BY <1>2 DEF Range
<1>4. \A i, j \in 1 .. Len(s) + 1 : a[i] = a[j] => i = j
  BY <1>1, <1>2, <1>3 DEF IsInjective
<1> QED BY <1>1, <1>2, <1>4 DEF a, IsInjective

(* inter_insert: a back link that is new, as long as there is room for it.  *)
LEMMA BackLinkLists ==
    ASSUME MapsInv, ListsInv, NEW t \in Threads, BackLink(t)
    PROVE  ListsInv'
<1> DEFINE loc  == th[t].loc
           todo == th[t].todo
           des  == Head(todo)
           rest == Tail(todo)
<1>1. th[t].pc = "link" /\ todo # << >> /\ UNCHANGED <<slotVars, mapVars, point, next, restVars>>
  BY DEF BackLink
<1>2. Linking(t)  BY <1>1 DEF Linking
<1>3. /\ MapTypeOK /\ CallHolds(t) /\ CallTypeOK(t) /\ VectorsInPlace /\ GraphClosed /\ DegreeBounded
      /\ PhaseKnown /\ loc \in Nodes /\ {"pc", "tag", "loc"} \subseteq DOMAIN th[t]
  BY <1>2, LinkingKnows
<1>4. "todo" \in DOMAIN th[t] /\ todo \in Seq(Nodes \ {loc})  BY <1>1, <1>3 DEF CallHolds
<1>5. UNCHANGED <<max, nd, point, locTag, phase, inserts, next>>  BY <1>1 DEF slotVars, mapVars, restVars
<1>6. \/ th' = [th EXCEPT ![t].todo = rest] /\ UNCHANGED graph
      \/ /\ loc \notin Range(graph[des]) /\ Len(graph[des]) < Slack
         /\ th' = [th EXCEPT ![t].todo = rest]
         /\ graph' = [graph EXCEPT ![des] = Append(@, loc)]
      \/ /\ th' = [th EXCEPT ![t] =
                     [pc |-> "shrink", tag |-> @.tag, loc |-> loc, todo |-> todo,
                      copy |-> Range(graph[des]) \cup {loc}]]
         /\ UNCHANGED graph
  BY DEF BackLink
<1>7. des \in Nodes \ {loc} /\ rest \in Seq(Nodes \ {loc})
  <2> DEFINE N == Nodes \ {loc}
  <2>1. todo \in Seq(N) /\ todo # << >>  BY <1>1, <1>4
  <2> HIDE DEF N, todo
  <2>2. Head(todo) \in N /\ Tail(todo) \in Seq(N)  BY <2>1, HeadTailProperties
  <2> QED BY <2>2 DEF N
<1>8. /\ des \in 0 .. max /\ graph[des] \in Seq(Nodes \ {des}) /\ IsInjective(graph[des])
      /\ DOMAIN graph = 0 .. max
  <2>1. des \in 0 .. max  BY <1>7, NodeTypes
  <2> QED BY <1>3, <2>1 DEF GraphClosed
<1> HIDE DEF des, rest
<1>9. ASSUME th' = [th EXCEPT ![t].todo = rest]
      PROVE  /\ OthersWait(t) /\ th'[t].pc = "link"
             /\ Nodes' = Nodes => CallHolds(t)'
  <2>1. /\ OthersWait(t) /\ th'[t].pc = "link" /\ th'[t].loc = loc /\ th'[t].todo = rest
        /\ "todo" \in DOMAIN th'[t]
    BY <1>1, <1>3, <1>4, <1>9 DEF MapTypeOK, OthersWait
  <2> HIDE DEF loc
  <2> QED BY <1>3, <1>7, <2>1, LinkHolds
<1>10. CASE th' = [th EXCEPT ![t].todo = rest] /\ UNCHANGED graph
  <2>1. Nodes' = Nodes  BY <1>1, <1>5, <1>9, <1>10, NodesStay
  <2>2. CallHolds(t)' /\ OthersWait(t) /\ th'[t].pc = "link"  BY <1>9, <1>10, <2>1
  <2>3. Linking(t)'  BY <2>2 DEF Linking
  <2>4. PhaseKnown'  BY <1>2, <1>3, <1>5, <2>2, <2>3, PhaseStep
  <2>5. UNCHANGED nodeVars  BY <1>5, <1>10 DEF nodeVars
  <2> QED BY <1>1, <1>5, <2>2, <2>4, <2>5, LocalStep
<1>11. CASE /\ loc \notin Range(graph[des]) /\ Len(graph[des]) < Slack
            /\ th' = [th EXCEPT ![t].todo = rest]
            /\ graph' = [graph EXCEPT ![des] = Append(@, loc)]
  <2> DEFINE list == Append(graph[des], loc)
             N    == Nodes \ {des}
  <2>1. graph' = [graph EXCEPT ![des] = list]  BY <1>11
  <2>2. list \in Seq(N) /\ IsInjective(list) /\ Len(list) <= Slack
    <3>1. loc \in N /\ graph[des] \in Seq(N)  BY <1>3, <1>7, <1>8
    <3> HIDE DEF N, loc
    <3> DEFINE s == graph[des]
    <3>2. s \in Seq(N) /\ IsInjective(s) /\ loc \notin Range(s) /\ Len(s) < Slack  BY <1>8, <1>11, <3>1
    <3> HIDE DEF s
    <3>3. list = Append(s, loc)  BY DEF s
    <3> HIDE DEF list
    <3>4. list \in Seq(N) /\ IsInjective(list) /\ Len(list) = Len(s) + 1
      BY <3>1, <3>2, <3>3, Appended
    <3>5. Len(s) \in Nat  BY <3>2, LenProperties
    <3> QED BY <3>2, <3>4, <3>5, MemAssumption
  <2> HIDE DEF list
  <2>3. th'[t].pc \in {"link", "shrink"} /\ UNCHANGED <<phase, inserts, next>> /\ des \in Nodes
        /\ OthersWait(t) /\ (Nodes' = Nodes => CallHolds(t)')
    BY <1>5, <1>7, <1>9, <1>11
  <2> QED BY <1>1, <1>2, <2>1, <2>2, <2>3, ListStep DEF N
<1>12. CASE /\ th' = [th EXCEPT ![t] =
                        [pc |-> "shrink", tag |-> @.tag, loc |-> loc, todo |-> todo,
                         copy |-> Range(graph[des]) \cup {loc}]]
            /\ UNCHANGED graph
  <2> DEFINE copy == Range(graph[des]) \cup {loc}
  <2>1. /\ OthersWait(t)
        /\ th'[t] = [pc |-> "shrink", tag |-> th[t].tag, loc |-> loc, todo |-> todo, copy |-> copy]
    BY <1>3, <1>12 DEF MapTypeOK, OthersWait
  <2>2. copy \subseteq Nodes /\ loc \in copy
    <3>1. Range(graph[des]) \subseteq Nodes  BY <1>8 DEF Range
    <3> QED BY <1>3, <3>1
  <2> HIDE DEF copy, loc, todo
  <2>3. /\ th'[t].pc = "shrink" /\ th'[t].loc = loc /\ th'[t].todo = todo /\ th'[t].copy = copy
        /\ {"todo", "copy"} \subseteq DOMAIN th'[t]
    BY <2>1
  <2>4. Nodes' = Nodes  BY <1>1, <1>5, <2>1, <2>3, NodesStay
  <2>5. CallHolds(t)'  BY <1>1, <1>3, <1>4, <2>2, <2>3, <2>4 DEF CallHolds
  <2>6. Linking(t)'  BY <2>3 DEF Linking
  <2>7. PhaseKnown'  BY <1>2, <1>3, <1>5, <2>1, <2>6, PhaseStep
  <2>8. UNCHANGED nodeVars  BY <1>5, <1>12 DEF nodeVars
  <2> QED BY <1>1, <1>5, <2>1, <2>3, <2>5, <2>7, <2>8, LocalStep
<1> QED BY <1>6, <1>10, <1>11, <1>12

(* inter_insert: the copy that is pruned is of nodes, and still is when the *)
(* list is stored, the lock having been released in between.                *)
LEMMA ShrinkLists ==
    ASSUME MapsInv, ListsInv, NEW t \in Threads, Shrink(t)
    PROVE  ListsInv'
<1> DEFINE loc  == th[t].loc
           todo == th[t].todo
           des  == Head(todo)
           rest == Tail(todo)
           ids  == th[t].copy \ {des}
           list == Prune(des, ids)
<1>1. th[t].pc = "shrink" /\ UNCHANGED <<slotVars, mapVars, point, next, restVars>>  BY DEF Shrink
<1>2. Linking(t)  BY <1>1 DEF Linking
<1>3. /\ MapTypeOK /\ CallHolds(t) /\ CallTypeOK(t) /\ VectorsInPlace /\ GraphClosed /\ DegreeBounded
      /\ PhaseKnown /\ loc \in Nodes /\ {"pc", "tag", "loc"} \subseteq DOMAIN th[t]
  BY <1>2, LinkingKnows
<1>4. "todo" \in DOMAIN th[t] /\ todo \in Seq(Nodes \ {loc}) /\ todo # << >> /\ th[t].copy \subseteq Nodes
  BY <1>1, <1>3 DEF CallHolds
<1>5. UNCHANGED <<max, nd, point, locTag, phase, inserts, next>>  BY <1>1 DEF slotVars, mapVars, restVars
<1>6. /\ th' = [th EXCEPT ![t] = [pc |-> "link", tag |-> @.tag, loc |-> @.loc, todo |-> Tail(@.todo)]]
      /\ graph' = [graph EXCEPT ![des] = list]
  BY DEF Shrink
<1>7. des \in Nodes \ {loc} /\ rest \in Seq(Nodes \ {loc})
  <2> DEFINE N == Nodes \ {loc}
  <2>1. todo \in Seq(N) /\ todo # << >>  BY <1>1, <1>4
  <2> HIDE DEF N, todo
  <2>2. Head(todo) \in N /\ Tail(todo) \in Seq(N)  BY <2>1, HeadTailProperties
  <2> QED BY <2>2 DEF N
<1>8. OthersWait(t) /\ th'[t] = [pc |-> "link", tag |-> th[t].tag, loc |-> loc, todo |-> rest]
  BY <1>3, <1>6 DEF MapTypeOK, OthersWait
<1> HIDE DEF des, rest, loc, todo
<1>9. list \in Seq(Nodes \ {des}) /\ IsInjective(list) /\ Len(list) <= R
  <2>1. ids \subseteq Nodes \ {des} /\ des \in Nodes  BY <1>4, <1>7
  <2> HIDE DEF ids
  <2> QED BY <1>3, <2>1, PruneList
<1> HIDE DEF list
<1>10. Len(list) <= Slack
  <2>1. Len(list) \in Nat  BY <1>9, LenProperties
  <2> QED BY <1>9, <2>1, MemAssumption, PruneAssumption
<1>11. th'[t].pc = "link" /\ "todo" \in DOMAIN th'[t] /\ th'[t].loc = loc /\ th'[t].todo = rest
  BY <1>8
<1>12. Nodes' = Nodes => CallHolds(t)'
  <2>1. loc \in Nodes  BY <1>3 DEF loc
  <2> QED BY <1>7, <1>11, <2>1, LinkHolds
<1>13. th'[t].pc \in {"link", "shrink"} /\ UNCHANGED <<phase, inserts, next>> /\ des \in Nodes
  BY <1>5, <1>7, <1>11
<1> QED BY <1>1, <1>2, <1>6, <1>8, <1>9, <1>10, <1>12, <1>13, ListStep

(* The last back link is done, and the call returns.                        *)
LEMMA LinkedLists ==
    ASSUME MapsInv, ListsInv, NEW t \in Threads, Linked(t)
    PROVE  ListsInv'
<1>1. /\ th[t].pc = "link" /\ UNCHANGED <<slotVars, mapVars, nodeVars, next, saturate, phase, inserts, calls>>
      /\ th' = [th EXCEPT ![t] = Free]
  BY DEF Linked
<1>2. Linking(t)  BY <1>1 DEF Linking
<1>3. MapTypeOK /\ PhaseKnown  BY <1>2, LinkingKnows
<1>4. UNCHANGED <<max, nd, locTag, phase, inserts, next>>  BY <1>1 DEF slotVars, mapVars
<1>5. OthersWait(t) /\ th'[t].pc = "idle"  BY <1>1, <1>3, Became DEF OthersWait, Free
<1>6. CallHolds(t)'  BY <1>5, NothingHeld
<1>7. PhaseKnown'  BY <1>2, <1>3, <1>4, <1>5, PhaseStep
<1> QED BY <1>1, <1>4, <1>5, <1>6, <1>7, LocalStep

-----------------------------------------------------------------------------
(* The steps that begin and end a search. *)

(* A walk that begins has measured the entry. *)
LEMMA WalkBegins ==
    ASSUME MapsInv, ListsInv, NEW t \in Threads, UNCHANGED <<max, point>>, Nodes' = Nodes,
           NEW tag, NEW loc, NEW q \in Points \cup Queries, NEW then, th'[t] = Walk(tag, loc, q, then),
           then = "assign" => loc \in Nodes
    PROVE  CallHolds(t)'
<1>1. th'[t] = [pc |-> "walk", tag |-> tag, loc |-> loc, then |-> then,
                query |-> q, at |-> [ n \in {max} |-> point[n] ], expanded |-> {}]
  BY DEF Walk, Ep
<1>2. /\ th'[t].pc = "walk" /\ th'[t].then = then /\ th'[t].loc = loc /\ th'[t].query = q
      /\ th'[t].at = [ n \in {max} |-> point[n] ] /\ th'[t].expanded = {}
      /\ {"query", "at", "expanded", "loc", "then"} \subseteq DOMAIN th'[t]
  BY <1>1
<1>3. max \in Nodes /\ Ep' = max  BY NodeTypes DEF Ep
<1>4. DOMAIN th'[t].at = {max} /\ th'[t].at = [ n \in DOMAIN th'[t].at |-> point'[n] ]  BY <1>2
<1>5. WalkHolds(t)'  BY <1>2, <1>3, <1>4 DEF WalkHolds
<1>6. Linking(t)' => th'[t].loc \in Nodes'  BY <1>2 DEF Linking
<1> QED BY <1>2, <1>5, <1>6 DEF CallHolds

(* link takes the next node, which has its vector since before build.       *)
LEMMA LinkNodeLists ==
    ASSUME MapsInv, ListsInv, NEW t \in Threads, LinkNode(t)
    PROVE  ListsInv'
<1>1. /\ phase = "link" /\ next <= max /\ th[t].pc = "idle" /\ next' = next + 1
      /\ th' = [th EXCEPT ![t] = Walk(None, next, point[next], "assign")]
      /\ UNCHANGED <<slotVars, mapVars, nodeVars, restVars>>
  BY DEF LinkNode
<1>2. MapTypeOK /\ PhaseKnown /\ VectorsInPlace  BY DEF MapsInv, ListsInv
<1>3. UNCHANGED <<max, nd, point, locTag, phase, inserts>>  BY <1>1 DEF slotVars, mapVars, nodeVars, restVars
<1>4. OthersWait(t) /\ th'[t] = Walk(None, next, point[next], "assign")
  BY <1>1, <1>2, Became DEF OthersWait
<1>5. th'[t].pc = "walk" /\ th'[t].then = "assign"  BY <1>4, WalkFields
<1>6. Nodes' = Nodes  BY <1>1, <1>3, <1>4, <1>5, NodesStay
<1>7. next \in Nodes
  <2>1. \A u \in Threads : th[u].pc \notin {"place", "fill"}
    BY <1>1, <1>2 DEF PhaseKnown, Linking
  <2>2. Pending = {}  BY <2>1 DEF Pending
  <2>3. next \in Nat /\ nd = max /\ max \in Nat  BY <1>1, <1>2 DEF PhaseKnown, MapTypeOK
  <2> QED BY <1>1, <2>2, <2>3 DEF Nodes
<1>8. point[next] \in Points \cup Queries  BY <1>2, <1>7 DEF VectorsInPlace
<1>9. CallHolds(t)'  BY <1>3, <1>4, <1>6, <1>7, <1>8, WalkBegins
<1>10. PhaseKnown'
  <2>1. Linking(t)' /\ next' \in Nat  BY <1>1, <1>2, <1>5 DEF Linking, PhaseKnown
  <2> QED BY <1>1, <1>2, <1>3, <1>4, <2>1, PhaseStep
<1> QED BY <1>1, <1>3, <1>4, <1>5, <1>9, <1>10, LocalStep

(* search_with_tags begins its walk at the entry.                           *)
LEMMA SearchLists ==
    ASSUME MapsInv, ListsInv, NEW t \in Threads, NEW q \in Queries, Search(t, q)
    PROVE  ListsInv'
<1>1. /\ phase # "link" /\ th[t].pc = "idle"
      /\ th' = [th EXCEPT ![t] = Walk(None, None, q, "collect")]
      /\ UNCHANGED <<slotVars, mapVars, nodeVars, next, saturate, phase, inserts, alive>>
  BY DEF Search, Called
<1>2. MapTypeOK /\ PhaseKnown  BY DEF MapsInv, ListsInv
<1>3. UNCHANGED <<max, nd, point, locTag, phase, inserts, next>>  BY <1>1 DEF slotVars, mapVars, nodeVars
<1>4. OthersWait(t) /\ th'[t] = Walk(None, None, q, "collect")  BY <1>1, <1>2, Became DEF OthersWait
<1>5. th'[t].pc = "walk" /\ th'[t].then = "collect"  BY <1>4, WalkFields
<1>6. Nodes' = Nodes  BY <1>1, <1>3, <1>4, <1>5, NodesStay
<1>7. CallHolds(t)'
  <2>1. q \in Points \cup Queries  OBVIOUS
  <2>2. "collect" # "assign"  OBVIOUS
  <2> QED BY <1>3, <1>4, <1>6, <2>1, <2>2, WalkBegins
<1>8. PhaseKnown'
  <2>1. ~Linking(t)' /\ th'[t].pc \notin Inserting  BY <1>5 DEF Linking, Inserting
  <2> QED BY <1>1, <1>2, <1>3, <1>4, <2>1, PhaseStep
<1> QED BY <1>1, <1>3, <1>4, <1>5, <1>7, <1>8, LocalStep

(* A step of a search that only changes what it remembers. *)
LEMMA SearchStep ==
    ASSUME MapsInv, ListsInv, NEW t \in Threads, OthersWait(t),
           UNCHANGED <<slotVars, mapVars, nodeVars, next, restVars>>,
           th[t].pc \in {"collect", "translate", "found"}, th'[t].pc \in {"translate", "found", "idle"},
           Nodes' = Nodes => CallHolds(t)'
    PROVE  ListsInv'
<1>1. PhaseKnown  BY DEF ListsInv
<1>2. UNCHANGED <<max, nd, locTag, phase, inserts, next>>  BY DEF slotVars, mapVars, restVars
<1>3. Nodes' = Nodes  BY <1>2, NodesStay
<1>4. PhaseKnown'
  <2>1. ~Linking(t)' /\ th'[t].pc \notin Inserting  BY DEF Linking, Inserting
  <2>2. phase # "link"  BY <1>1 DEF PhaseKnown, Linking
  <2> QED BY <1>1, <1>2, <2>1, <2>2, PhaseStep
<1> QED BY <1>2, <1>3, <1>4, LocalStep

(* The L ids of a search: those of the walk are nodes that have a location  *)
(* of their own, each with the vector that was measured there.              *)
LEMMA CollectLists ==
    ASSUME MapsInv, ListsInv, NEW t \in Threads, Collect(t)
    PROVE  ListsInv'
<1> DEFINE best   == Best(t)
           filled == [ i \in DOMAIN best |-> <<best[i], th[t].at[best[i]]>> ]
           tail   == [ i \in 1 .. L + 1 - Len(best) |-> <<0, None>> ]
           padded == filled \o tail
           S      == { e \in Range(padded) : e[1] < max }
           ids    == Kept(padded, S)
           list   == Nearest(ids)
<1>1. /\ th[t].pc = "collect" /\ UNCHANGED <<slotVars, mapVars, nodeVars, next, restVars>>
      /\ th' = [th EXCEPT ![t] = [pc |-> "translate", tag |-> None, ids |-> list]]
  BY DEF Collect
<1>2. MapTypeOK /\ WalkHolds(t) /\ VectorsInPlace  BY <1>1 DEF MapsInv, ListsInv, CallHolds
<1>3. best \in Seq(DOMAIN th[t].at) /\ Len(best) <= L /\ Len(best) \in Nat
  <2>1. /\ best \in Seq(DOMAIN th[t].at) /\ Cardinality(DOMAIN th[t].at) \in Nat
        /\ Len(best) = IF Cardinality(DOMAIN th[t].at) < L
                       THEN Cardinality(DOMAIN th[t].at) ELSE L
    BY <1>2, BestList
  <2> QED BY <2>1, MemAssumption
<1> DEFINE X == { <<n, point[n]>> : n \in Nodes } \cup {<<0, None>>}
<1>4. filled \in Seq(X)
  <2>1. DOMAIN best = 1 .. Len(best) /\ \A i \in 1 .. Len(best) : best[i] \in DOMAIN th[t].at
    BY <1>3, LenProperties, ElementOfSeq
  <2>2. \A n \in DOMAIN th[t].at : n \in Nodes /\ th[t].at[n] = point[n]  BY <1>2 DEF WalkHolds
  <2> HIDE DEF best
  <2>3. \A i \in 1 .. Len(best) : filled[i] \in X  BY <2>1, <2>2
  <2>4. filled = [ i \in 1 .. Len(best) |-> filled[i] ]  BY <2>1
  <2> HIDE DEF filled, X
  <2>5. filled \in [1 .. Len(best) -> X]  BY <2>3, <2>4
  <2> QED BY <1>3, <2>5, SeqDef
<1>5. tail \in Seq(X)
  <2> DEFINE m == L + 1 - Len(best)
  <2>1. m \in Nat  BY <1>3, MemAssumption
  <2> HIDE DEF m
  <2>2. \A i \in 1 .. m : tail[i] \in X  BY DEF m
  <2>3. tail = [ i \in 1 .. m |-> tail[i] ]  BY DEF m
  <2> HIDE DEF tail, X
  <2>4. tail \in [1 .. m -> X]  BY <2>2, <2>3
  <2> QED BY <2>1, <2>4, SeqDef
<1> HIDE DEF X, filled, tail, best
<1>6. padded \in Seq(X)  BY <1>4, <1>5, ConcatProperties
<1> HIDE DEF padded
<1>7. ids \in Seq(X \cap S)  BY <1>6, KeptLists
<1> HIDE DEF ids
<1>8. list \in Seq(X \cap S)
  <2> DEFINE Y == X \cap S
             n == IF Len(ids) < L THEN Len(ids) ELSE L
  <2>1. ids \in Seq(Y) /\ Len(ids) \in Nat  BY <1>7, LenProperties
  <2>2. n \in 0 .. Len(ids)  BY <2>1, MemAssumption
  <2>3. list = SubSeq(ids, 1, n)  BY DEF Nearest
  <2> HIDE DEF Y, n
  <2>4. SubSeq(ids, 1, n) \in Seq(Y)  BY <2>1, <2>2, SubSeqProperties
  <2> QED BY <2>3, <2>4 DEF Y
<1> HIDE DEF list
<1>9. ASSUME NEW e \in Range(list), e[2] # None
      PROVE  e[1] \in Nodes /\ e[1] < nd /\ e[2] = point[e[1]]
  <2>1. e \in X /\ e \in S
    <3>1. \A i \in DOMAIN list : list[i] \in X \cap S  BY <1>8, LenProperties, ElementOfSeq
    <3> QED BY <3>1 DEF Range
  <2>2. PICK n \in Nodes : e = <<n, point[n]>>  BY <1>9, <2>1 DEF X
  <2>3. n < max  BY <2>1, <2>2
  <2>4. n < nd  BY <2>3, NodeTypes DEF Nodes
  <2> QED BY <2>2, <2>4
<1>10. list \in Seq(Range(list))
  <2> DEFINE Y == X \cap S
  <2>1. list \in Seq(Y)  BY <1>8
  <2> HIDE DEF Y
  <2> QED BY <2>1, SeqOfRange
<1>11. OthersWait(t) /\ th'[t] = [pc |-> "translate", tag |-> None, ids |-> list]
  BY <1>1, <1>2, Became DEF OthersWait
<1>12. th'[t].pc = "translate" /\ th'[t].ids = list /\ "ids" \in DOMAIN th'[t]  BY <1>11
<1>13. UNCHANGED <<nd, point>>  BY <1>1 DEF slotVars, nodeVars
<1>14. Nodes' = Nodes => CallHolds(t)'  BY <1>9, <1>10, <1>12, <1>13 DEF CallHolds, Linking
<1> QED BY <1>1, <1>11, <1>12, <1>14, SearchStep

(* The translation: what a tag names now was there when it was measured.    *)
LEMMA TranslateLists ==
    ASSUME MapsInv, ListsInv, NEW t \in Threads, Translate(t)
    PROVE  ListsInv'
<1> DEFINE ids     == th[t].ids
           S       == { e \in Range(ids) : e[1] \in DOMAIN locTag }
           tagged  == Kept(ids, S)
           results == { <<locTag[tagged[i][1]], tagged[i][2]>> : i \in 1 .. K \cap DOMAIN tagged }
<1>1. /\ th[t].pc = "translate" /\ UNCHANGED <<slotVars, mapVars, nodeVars, next, restVars>>
      /\ th' = [th EXCEPT ![t] = [pc |-> "found", tag |-> None, results |-> results]]
  BY DEF Translate
<1>2. /\ MapTypeOK /\ VectorsInPlace /\ ids \in Seq(Range(ids))
      /\ \A e \in Range(ids) : e[2] # None => e[1] \in Nodes /\ e[1] < nd /\ e[2] = point[e[1]]
  BY <1>1 DEF MapsInv, ListsInv, CallHolds
<1>3. tagged \in Seq(Range(ids) \cap S)
  <2> DEFINE X == Range(ids)
  <2>1. ids \in Seq(X)  BY <1>2
  <2> HIDE DEF X, ids, S
  <2>2. tagged \in Seq(X \cap S)  BY <2>1, KeptLists
  <2> QED BY <2>2 DEF X
<1> HIDE DEF tagged
<1>4. \A i \in DOMAIN tagged : tagged[i] \in Range(ids) /\ tagged[i] \in S
  BY <1>3, LenProperties, ElementOfSeq
<1>5. ASSUME NEW r \in results PROVE r[2] \in {r[1], None}
  <2>1. PICK i \in DOMAIN tagged : r = <<locTag[tagged[i][1]], tagged[i][2]>>  OBVIOUS
  <2> DEFINE e == tagged[i]
  <2>2. e \in Range(ids) /\ e[1] \in DOMAIN locTag  BY <1>4, <2>1
  <2>3. r[1] = locTag[e[1]] /\ r[2] = e[2]  BY <2>1
  <2> HIDE DEF e
  <2>4. e[2] # None => e[2] = locTag[e[1]]  BY <1>2, <2>2 DEF VectorsInPlace
  <2> QED BY <2>3, <2>4
<1> HIDE DEF results
<1>6. OthersWait(t) /\ th'[t] = [pc |-> "found", tag |-> None, results |-> results]
  BY <1>1, <1>2, Became DEF OthersWait
<1>7. th'[t].pc = "found" /\ th'[t].results = results  BY <1>6
<1>8. CallHolds(t)'  BY <1>5, <1>7 DEF CallHolds, Linking
<1> QED BY <1>1, <1>6, <1>7, <1>8, SearchStep

(* search_with_tags returns, and remembers nothing.                         *)
LEMMA ReturnLists ==
    ASSUME MapsInv, ListsInv, NEW t \in Threads, Return(t)
    PROVE  ListsInv'
<1>1. /\ th[t].pc = "found" /\ UNCHANGED <<slotVars, mapVars, nodeVars, next, restVars>>
      /\ th' = [th EXCEPT ![t] = Free]
  BY DEF Return
<1>2. MapTypeOK  BY DEF MapsInv
<1>3. OthersWait(t) /\ th'[t].pc = "idle"  BY <1>1, <1>2, Became DEF OthersWait, Free
<1>4. CallHolds(t)'  BY <1>3, NothingHeld
<1> QED BY <1>1, <1>3, <1>4, SearchStep

-----------------------------------------------------------------------------
(* The steps of insertions and deletions that link nothing. *)

(* A call that remembers nothing of the graph, before and after. *)
LEMMA PlainStep ==
    ASSUME MapsInv, ListsInv, NEW t \in Threads, OthersWait(t), UNCHANGED <<slotVars, nodeVars>>,
           UNCHANGED <<phase, next>>, inserts' \in {inserts, inserts + 1}, phase # "link",
           th[t].pc \notin {"place", "fill"},
           th'[t].pc \in {"unlink", "reserve", "delete", "forget", "idle", "grow", "crashed"},
           \/ th'[t].pc \in {"delete", "forget", "idle"}
           \/ inserts' # inserts
           \/ th[t].pc \in Inserting,
           \A l \in DOMAIN locTag' : l \in DOMAIN locTag /\ locTag'[l] = locTag[l]
    PROVE  ListsInv'
<1>1. PhaseKnown /\ inserts \in Nat  BY DEF ListsInv, PhaseKnown
<1>2. CallHolds(t)'  BY NothingHeld
<1>3. UNCHANGED <<max, nd>>  BY DEF slotVars
<1>4. ~Linking(t)'  BY DEF Linking
<1>5. PhaseKnown'
  <2>1. CASE inserts' = inserts + 1
    <3>1. inserts' # 0 /\ inserts' \in Nat  BY <1>1, <2>1
    <3> QED BY <3>1 DEF PhaseKnown
  <2>2. CASE inserts' = inserts /\ th[t].pc \in Inserting  BY <1>1, <1>3, <2>2, PhaseStep
  <2>3. CASE inserts' = inserts /\ th'[t].pc \in {"delete", "forget", "idle"}
    <3>1. th'[t].pc \notin Inserting  BY <2>3 DEF Inserting
    <3> QED BY <1>1, <1>3, <1>4, <2>3, <3>1, PhaseStep
  <2> QED BY <2>1, <2>2, <2>3
<1>6. phase' = "built" /\ inserts' = 0 => phase = "built" /\ inserts = 0  BY <1>1
<1>7. th'[t].pc \notin {"place", "fill"}  OBVIOUS
<1> QED BY <1>2, <1>5, <1>6, <1>7, LocalStep

(* insert_point and lazy_delete begin; nothing is linked yet.               *)
LEMMA InsertDeleteLists ==
    ASSUME MapsInv, ListsInv, NEW t \in Threads, NEW tag \in Tags, Insert(t, tag) \/ Delete(t, tag)
    PROVE  ListsInv'
<1>1. /\ phase # "link" /\ th[t].pc = "idle" /\ UNCHANGED <<slotVars, mapVars, nodeVars, next, phase>>
      /\ \/ inserts' = inserts
            /\ th' = [th EXCEPT ![t] = [pc |-> "delete", tag |-> tag]]
         \/ inserts' = inserts + 1
            /\ \/ th' = [th EXCEPT ![t] = [pc |-> "unlink", tag |-> tag]]
               \/ th' = [th EXCEPT ![t] = [pc |-> "reserve", tag |-> tag]]
  BY DEF Insert, Delete, Called
<1>2. MapTypeOK /\ inserts \in Nat  BY DEF MapsInv, ListsInv, PhaseKnown
<1>3. ASSUME NEW p, th' = [th EXCEPT ![t] = [pc |-> p, tag |-> tag]]
      PROVE  OthersWait(t) /\ th'[t].pc = p
  <2>1. OthersWait(t) /\ th'[t] = [pc |-> p, tag |-> tag]  BY <1>2, <1>3, Became DEF OthersWait
  <2> QED BY <2>1
<1>4. OthersWait(t) /\ \/ inserts' = inserts /\ th'[t].pc = "delete"
                       \/ inserts' = inserts + 1 /\ th'[t].pc \in {"unlink", "reserve"}
  BY <1>1, <1>3
<1>5. \A l \in DOMAIN locTag' : l \in DOMAIN locTag /\ locTag'[l] = locTag[l]  BY <1>1 DEF mapVars
<1>6. inserts' \in {inserts, inserts + 1} /\ (inserts' = inserts + 1 => inserts' # inserts)  BY <1>1, <1>2
<1> QED BY <1>1, <1>4, <1>5, <1>6, PlainStep

(* Build only links. *)
LEMMA NotBuilding ==
    ASSUME ListsInv, NEW t \in Threads, th[t].pc \in Inserting \cup {"delete", "forget"}
    PROVE  phase # "link"
  BY DEF ListsInv, PhaseKnown, Inserting, Linking

(* Marking a location deleted and erasing its tag leave its edges alone.    *)
LEMMA MarkForgetUnlinkLists ==
    ASSUME MapsInv, ListsInv, NEW t \in Threads, MarkDeleted(t) \/ Forget(t) \/ Unlink(t)
    PROVE  ListsInv'
<1>1. /\ UNCHANGED <<slotVars, nodeVars, next, restVars>> /\ th[t].pc \in {"delete", "forget", "unlink"}
      /\ \/ Go(t, "forget") /\ UNCHANGED locTag
         \/ th' = [th EXCEPT ![t] = Free] /\ EraseTag(th[t].tag)
         \/ th[t].pc = "unlink" /\ Go(t, "reserve") /\ EraseTag(th[t].tag)
  BY DEF MarkDeleted, Forget, Unlink
<1>2. MapTypeOK  BY DEF MapsInv
<1>3. phase # "link"  BY <1>1, NotBuilding DEF Inserting
<1>4. UNCHANGED <<phase, inserts>>  BY <1>1 DEF restVars
<1>5. /\ OthersWait(t) /\ th'[t].pc \in {"forget", "idle", "reserve"}
      /\ th'[t].pc = "reserve" => th[t].pc \in Inserting
  <2>1. CASE Go(t, "forget")  BY <1>2, <2>1, Went DEF OthersWait
  <2>2. CASE th' = [th EXCEPT ![t] = Free]
    <3>1. OthersWait(t) /\ th'[t] = Free  BY <1>2, <2>2, Became DEF OthersWait
    <3> QED BY <3>1 DEF Free
  <2>3. CASE th[t].pc = "unlink" /\ Go(t, "reserve")  BY <1>2, <2>3, Went DEF OthersWait, Inserting
  <2> QED BY <1>1, <2>1, <2>2, <2>3
<1>6. \A l \in DOMAIN locTag' : l \in DOMAIN locTag /\ locTag'[l] = locTag[l]
  <2>1. CASE UNCHANGED locTag  BY <2>1
  <2>2. CASE EraseTag(th[t].tag)
    <3>1. locTag' = [ l \in DOMAIN locTag \ {tagLoc[th[t].tag]} |-> locTag[l] ]  BY <2>2 DEF EraseTag
    <3> QED BY <3>1
  <2> QED BY <1>1, <2>1, <2>2
<1>7. th[t].pc \notin {"place", "fill"} /\ inserts' \in {inserts, inserts + 1}  BY <1>1, <1>4
<1> QED BY <1>1, <1>3, <1>4, <1>5, <1>6, <1>7, PlainStep

(* A location is reserved: not a node before, and not one yet. *)
LEMMA TakeLists ==
    ASSUME MapsInv, ListsInv, NEW t \in Threads, th[t].pc \in {"reserve", "again"}, nd < max, Take(t),
           UNCHANGED <<max, mapVars, nodeVars, next, restVars>>
    PROVE  ListsInv'
<1>1. /\ MapTypeOK /\ PhaseKnown /\ nd \in Nat /\ max \in Nat /\ Nodes \subseteq Int
      /\ \A u \in Threads : th[u].pc \in {"place", "fill"} => th[u].loc \in 0 .. nd - 1
  BY NodeTypes DEF MapsInv, ListsInv
<1>2. OthersWait(t) /\ th'[t] = [pc |-> "place", tag |-> th[t].tag, loc |-> nd] /\ nd' = nd + 1
  BY <1>1 DEF Take, MapTypeOK, OthersWait
<1>3. th'[t].pc = "place" /\ th'[t].loc = nd  BY <1>2
<1>4. UNCHANGED <<max, point, graph, locTag, phase, inserts, next>>  BY DEF mapVars, nodeVars, restVars
<1>5. Nodes' = Nodes
  <2> DEFINE W  == { u \in Threads : th[u].pc \in {"place", "fill"} }
             W1 == { u \in Threads : th'[u].pc \in {"place", "fill"} }
  <2>1. W1 = W \cup {t}  BY <1>2, <1>3 DEF OthersWait
  <2>2. \A u \in W : th'[u].loc = th[u].loc  BY <1>2 DEF OthersWait
  <2>3. Pending = { th[u].loc : u \in W } /\ Pending' = { th'[u].loc : u \in W1 }  BY DEF Pending
  <2> HIDE DEF W, W1
  <2>4. Pending' = Pending \cup {nd}  BY <1>3, <2>1, <2>2, <2>3
  <2>5. 0 .. nd' - 1 = (0 .. nd - 1) \cup {nd}  BY <1>1, <1>2
  <2>6. nd # max /\ nd \notin 0 .. nd - 1  BY <1>1
  <2> QED BY <1>4, <2>4, <2>5, <2>6 DEF Nodes
<1>6. GraphClosed' /\ VectorsInPlace' /\ DegreeBounded'  BY <1>4, <1>5, ListsStay
<1>7. PhaseKnown'
  <2>1. phase # "link" /\ ~(phase = "built" /\ inserts = 0)  BY <1>1 DEF PhaseKnown, Linking
  <2> QED BY <1>1, <1>4, <2>1 DEF PhaseKnown
<1>8. ASSUME NEW u \in Threads PROVE CallHolds(u)'
  <2>1. CASE u = t  BY <1>3, <2>1, NothingHeld
  <2>2. CASE u # t
    <3>1. CallHolds(u) /\ th'[u] = th[u]  BY <1>2, <2>2 DEF ListsInv, OthersWait
    <3>2. nd \in Int /\ nd' \in Int /\ nd <= nd'  BY <1>1, <1>2
    <3> QED BY <1>1, <1>4, <1>5, <3>1, <3>2, CallHoldsOn
  <2> QED BY <2>1, <2>2
<1> QED BY <1>6, <1>7, <1>8 DEF ListsInv

(* reserve_location, both attempts.                                         *)
LEMMA ReserveAgainLists ==
    ASSUME MapsInv, ListsInv, NEW t \in Threads, Reserve(t) \/ Again(t)
    PROVE  ListsInv'
<1>1. /\ UNCHANGED <<max, mapVars, nodeVars, next, restVars>> /\ th[t].pc \in {"reserve", "again"}
      /\ \/ nd >= max /\ (Go(t, "grow") \/ Go(t, "crashed")) /\ UNCHANGED <<nd, emptySlots>>
         \/ ~(nd >= max) /\ Take(t)
  BY DEF Reserve, Again
<1>2. nd \in Nat /\ max \in Nat /\ MapTypeOK  BY NodeTypes DEF MapsInv
<1>3. CASE (Go(t, "grow") \/ Go(t, "crashed")) /\ UNCHANGED <<nd, emptySlots>>
  <2>1. OthersWait(t) /\ th'[t].pc \in {"grow", "crashed"}  BY <1>2, <1>3, Went DEF OthersWait
  <2>2. UNCHANGED slotVars /\ UNCHANGED <<locTag, phase, inserts, next>>
    BY <1>1, <1>3 DEF slotVars, mapVars, restVars
  <2>3. th[t].pc \in Inserting  BY <1>1 DEF Inserting
  <2>4. phase # "link"  BY <2>3, NotBuilding
  <2>5. inserts' \in {inserts, inserts + 1}  BY <2>2
  <2> QED BY <1>1, <2>1, <2>2, <2>3, <2>4, <2>5, PlainStep
<1>4. CASE ~(nd >= max) /\ Take(t)
  <2>1. nd < max  BY <1>2, <1>4
  <2> QED BY <1>1, <1>4, <2>1, TakeLists
<1> QED BY <1>1, <1>3, <1>4

(* The tag of a location that has no vector yet.                            *)
LEMMA PlaceLists ==
    ASSUME MapsInv, ListsInv, NEW t \in Threads, Place(t)
    PROVE  ListsInv'
<1>1. /\ th[t].pc = "place" /\ UNCHANGED <<slotVars, deleteSet, nodeVars, next, restVars>>
      /\ locTag' = With(locTag, th[t].loc, th[t].tag) /\ Go(t, "fill")
  BY DEF Place
<1>2. MapTypeOK /\ CallTypeOK(t) /\ PhaseKnown  BY DEF MapsInv, MapTypeOK, ListsInv
<1>3. /\ OthersWait(t) /\ th'[t].pc = "fill" /\ th'[t].loc = th[t].loc
  <2>1. "loc" \in DOMAIN th[t]  BY <1>1, <1>2 DEF CallTypeOK
  <2> QED BY <1>1, <1>2, <2>1, Went DEF OthersWait
<1>4. UNCHANGED <<max, nd, phase, inserts, next>>  BY <1>1 DEF slotVars, restVars
<1>5. th[t].loc \notin Nodes
  <2>1. th[t].loc \in Pending  BY <1>1 DEF Pending
  <2> QED BY <2>1 DEF Nodes
<1>6. \A l \in DOMAIN locTag' \cap Nodes : l \in DOMAIN locTag /\ locTag'[l] = locTag[l]
  BY <1>1, <1>5 DEF With
<1>7. CallHolds(t)'  BY <1>3, NothingHeld
<1>8. PhaseKnown'
  <2>1. th[t].pc \in Inserting  BY <1>1 DEF Inserting
  <2> QED BY <1>2, <1>3, <1>4, <2>1, PhaseStep
<1> QED BY <1>1, <1>3, <1>4, <1>6, <1>7, <1>8, LocalStep

(* The vector is written: the location becomes a node, with no edge yet.    *)
LEMMA FillLists ==
    ASSUME MapsInv, ListsInv, NEW t \in Threads, Fill(t)
    PROVE  ListsInv'
<1> DEFINE tag == th[t].tag
           loc == th[t].loc
<1>1. /\ th[t].pc = "fill" /\ UNCHANGED <<slotVars, mapVars, graph, next, restVars>>
      /\ point' = [point EXCEPT ![loc] = tag]
      /\ th' = [th EXCEPT ![t] = Walk(tag, loc, tag, "assign")]
  BY DEF Fill
<1>2. /\ MapTypeOK /\ TagsExact /\ CallsApart /\ PhaseKnown /\ GraphClosed /\ VectorsInPlace /\ DegreeBounded
      /\ \A u \in Threads : CallKnows(u) /\ CallTypeOK(u) /\ CallHolds(u)
  BY DEF MapsInv, MapTypeOK, ListsInv
<1>3. /\ max \in Nat /\ nd \in Nat /\ nd <= max /\ max \in Nodes /\ Nodes \subseteq Int
      /\ loc \in 0 .. nd - 1
  BY <1>1, NodeTypes
<1>4. OthersWait(t) /\ th'[t] = Walk(tag, loc, tag, "assign")  BY <1>1, <1>2, Became DEF OthersWait
<1>5. th'[t].pc = "walk" /\ th'[t].then = "assign"  BY <1>4, WalkFields
<1>6. UNCHANGED <<max, nd, locTag, tagLoc, deleteSet, graph, phase, inserts, next>>
  BY <1>1 DEF slotVars, mapVars, restVars
<1>7. tag \in DOMAIN tagLoc /\ tagLoc[tag] = loc /\ locTag[loc] = tag /\ tag \in Tags
  BY <1>1, <1>2 DEF CallKnows, TagsExact, MapTypeOK
<1>8. ASSUME NEW u \in Threads \ {t}, th[u].pc \in {"place", "fill"} PROVE th[u].loc # loc
  <2>1. CASE th[u].pc = "place"
    <3>1. th[u].loc \notin DOMAIN locTag  BY <1>2, <2>1 DEF CallKnows
    <3> QED BY <1>2, <1>7, <3>1 DEF TagsExact
  <2>2. CASE th[u].pc = "fill"
    <3>1. th[u].tag \in DOMAIN tagLoc /\ tagLoc[th[u].tag] = th[u].loc  BY <1>2, <2>2 DEF CallKnows
    <3>2. locTag[th[u].loc] = th[u].tag  BY <1>2, <3>1 DEF TagsExact
    <3>3. th[u].tag # tag
      <4>1. tag # None  BY <1>7, MemAssumption
      <4> QED BY <1>2, <4>1 DEF CallsApart
    <3> QED BY <1>7, <3>2, <3>3
  <2> QED BY <1>8, <2>1, <2>2
<1> HIDE DEF tag, loc
<1>9. Nodes' = Nodes \cup {loc} /\ loc \notin Nodes
  <2> DEFINE W  == { u \in Threads : th[u].pc \in {"place", "fill"} }
             W1 == { u \in Threads : th'[u].pc \in {"place", "fill"} }
  <2>1. W1 = W \ {t} /\ t \in W  BY <1>1, <1>4, <1>5 DEF OthersWait
  <2>2. \A u \in W1 : th'[u].loc = th[u].loc /\ th[u].loc # loc  BY <1>4, <1>8, <2>1 DEF OthersWait
  <2>3. Pending = { th[u].loc : u \in W } /\ Pending' = { th'[u].loc : u \in W1 }  BY DEF Pending
  <2>4. th[t].loc = loc  BY DEF loc
  <2> HIDE DEF W, W1
  <2>5. Pending' = Pending \ {loc} /\ loc \in Pending  BY <2>1, <2>2, <2>3, <2>4
  <2> QED BY <1>3, <1>6, <2>5 DEF Nodes
<1>10. point'[loc] = tag /\ \A l : l \in 0 .. max /\ l # loc => point'[l] = point[l]
  BY <1>1, <1>2, <1>3 DEF MapTypeOK
<1>11. GraphClosed'
  <2>1. DOMAIN graph' = 0 .. max'  BY <1>2, <1>6 DEF GraphClosed
  <2>2. ASSUME NEW l \in 0 .. max
        PROVE  /\ graph[l] \in Seq(Nodes' \ {l}) /\ IsInjective(graph[l])
               /\ l \notin Nodes' => graph[l] = << >>
    <3> DEFINE N  == Nodes \ {l}
               N1 == Nodes' \ {l}
    <3>1. graph[l] \in Seq(N) /\ IsInjective(graph[l]) /\ (l \notin Nodes => graph[l] = << >>)
      BY <1>2 DEF GraphClosed
    <3>2. N \subseteq N1  BY <1>9
    <3> HIDE DEF N, N1
    <3>3. graph[l] \in Seq(N1)  BY <3>1, <3>2, SeqMonotonic
    <3> QED BY <1>9, <3>1, <3>3 DEF N1
  <2> QED BY <1>6, <2>1, <2>2 DEF GraphClosed
<1>12. VectorsInPlace'
  <2>1. tag \in Points  BY <1>7 DEF Points
  <2>2. \A l \in 0 .. max : point'[l] \in Points \cup {None}  BY <1>2, <1>10, <2>1 DEF VectorsInPlace
  <2>3. \A l \in Nodes' : point'[l] \in Points
    <3>1. Nodes \subseteq 0 .. max  BY NodeTypes
    <3> QED BY <1>2, <1>9, <1>10, <2>1, <3>1 DEF VectorsInPlace
  <2>4. \A l \in DOMAIN locTag \cap Nodes' : point'[l] = locTag[l]
    <3>1. Nodes \subseteq 0 .. max  BY NodeTypes
    <3> QED BY <1>2, <1>7, <1>9, <1>10, <3>1 DEF VectorsInPlace
  <2> QED BY <1>6, <2>2, <2>3, <2>4 DEF VectorsInPlace
<1>13. DegreeBounded'  BY <1>2, <1>6 DEF DegreeBounded
<1>14. PhaseKnown'
  <2>1. th[t].pc \in Inserting  BY <1>1 DEF Inserting
  <2> QED BY <1>2, <1>4, <1>6, <2>1, PhaseStep
<1>15. ASSUME NEW u \in Threads PROVE CallHolds(u)'
  <2>1. CASE u = t
    <3>1. th'[t] = [pc |-> "walk", tag |-> tag, loc |-> loc, then |-> "assign",
                    query |-> tag, at |-> [ n \in {max} |-> point[n] ], expanded |-> {}]
      BY <1>4 DEF Walk, Ep
    <3>2. /\ th'[t].pc = "walk" /\ th'[t].loc = loc /\ th'[t].query = tag
          /\ th'[t].at = [ n \in {max} |-> point[n] ] /\ th'[t].expanded = {}
          /\ {"query", "at", "expanded", "loc", "then"} \subseteq DOMAIN th'[t]
      BY <3>1
    <3>3. max # loc /\ max \in 0 .. max  BY <1>3
    <3>4. point'[max] = point[max] /\ Ep' = max /\ max \in Nodes'  BY <1>3, <1>6, <1>9, <1>10, <3>3 DEF Ep
    <3>5. DOMAIN th'[t].at = {max} /\ th'[t].at = [ n \in DOMAIN th'[t].at |-> point'[n] ]
      BY <3>2, <3>4
    <3>6. tag \in Points \cup Queries  BY <1>7 DEF Points
    <3>7. WalkHolds(t)'  BY <3>2, <3>4, <3>5, <3>6 DEF WalkHolds
    <3> QED BY <1>9, <2>1, <3>2, <3>7 DEF CallHolds, Linking
  <2>2. CASE u # t
    <3>1. CallHolds(u) /\ th'[u] = th[u]  BY <1>2, <1>4, <2>2 DEF OthersWait
    <3>2. Nodes \subseteq 0 .. max  BY NodeTypes
    <3>3. \A n \in Nodes : point'[n] = point[n]  BY <1>9, <1>10, <3>2
    <3>4. nd \in Int /\ nd' \in Int /\ nd <= nd'  BY <1>3, <1>6
    <3> QED BY <1>3, <1>6, <1>9, <3>1, <3>3, <3>4, CallHoldsOn
  <2> QED BY <2>1, <2>2
<1> QED BY <1>11, <1>12, <1>13, <1>14, <1>15 DEF ListsInv

-----------------------------------------------------------------------------
(* The steps that move nodes. *)

(* A list whose nodes are renamed one to one. *)
Mapped(s, to) == [ i \in DOMAIN s |-> to[s[i]] ]

(* It is as long as the list was, and no node comes twice. *)
LEMMA MappedList ==
    ASSUME NEW A, NEW s \in Seq(A), IsInjective(s), NEW B, NEW to, \A a \in A : to[a] \in B,
           \A a, b \in A : to[a] = to[b] => a = b,
           NEW r, r = Mapped(s, to)
    PROVE  r \in Seq(B) /\ IsInjective(r) /\ Len(r) = Len(s)
<1> DEFINE n == Len(s)
<1>1. n \in Nat /\ DOMAIN s = 1 .. n /\ \A i \in 1 .. n : s[i] \in A  BY LenProperties, ElementOfSeq
<1> HIDE DEF n
<1>2. r = [ i \in 1 .. n |-> r[i] ] /\ \A i \in 1 .. n : r[i] = to[s[i]] /\ r[i] \in B
  BY <1>1 DEF Mapped
<1>3. r \in [1 .. n -> B]  BY <1>2
<1>4. r \in Seq(B) /\ Len(r) = n  BY <1>1, <1>3, AsSequence
<1>5. \A i, j \in 1 .. n : r[i] = r[j] => i = j  BY <1>1, <1>2 DEF IsInjective
<1>6. IsInjective(r)  BY <1>3, <1>5 DEF IsInjective
<1> QED BY <1>4, <1>6 DEF n

(* No node comes twice in the renamed list. *)
LEMMA MappedInjective ==
    ASSUME NEW A, NEW s \in Seq(A), IsInjective(s), NEW to, \A a, b \in A : to[a] = to[b] => a = b
    PROVE  IsInjective(Mapped(s, to))
<1>1. \A i \in DOMAIN s : s[i] \in A  BY LenProperties, ElementOfSeq
<1> QED BY <1>1 DEF Mapped, IsInjective

(* What resize, save and reposition_frozen_point_to_end do to a list: the   *)
(* edge to one location becomes an edge to another.                         *)
LEMMA RenamedList ==
    ASSUME NEW A, NEW s \in Seq(A), IsInjective(s), NEW from, NEW to, to \notin A \ {from},
           NEW B, A \ {from} \subseteq B, to \in B,
           NEW r, r = Renamed(s, from, to)
    PROVE  r \in Seq(B) /\ IsInjective(r) /\ Len(r) = Len(s)
<1> DEFINE f == [ a \in A |-> IF a = from THEN to ELSE a ]
<1>1. (\A a \in A : f[a] \in B) /\ \A a, b \in A : f[a] = f[b] => a = b  OBVIOUS
<1>2. \A i \in DOMAIN s : s[i] \in A  BY LenProperties, ElementOfSeq
<1>3. \A i \in DOMAIN s : (IF s[i] = from THEN to ELSE s[i]) = f[s[i]]  BY <1>2
<1> HIDE DEF f
<1>4. r = Mapped(s, f)  BY <1>3 DEF Renamed, Mapped
<1>5. r \in Seq(B)  BY <1>1, <1>4, MappedList
<1>6. IsInjective(r)
  <2>1. IsInjective(Mapped(s, f))  BY <1>1, MappedInjective
  <2> QED BY <1>4, <2>1
<1>7. Len(r) = Len(s)
  <2>1. DOMAIN r = DOMAIN s  BY DEF Renamed
  <2> QED BY <1>5, <2>1, LenProperties
<1> QED BY <1>5, <1>6, <1>7

(* resize: the locations of a full index are all nodes, none pending; the   *)
(* frozen point moves, and every edge to it with it.                        *)
LEMMA GrowLists ==
    ASSUME MapsInv, ListsInv, NEW t \in Threads, Grow(t)
    PROVE  ListsInv'
<1>1. /\ th[t].pc = "grow" /\ \A u \in Threads \ {t} : th[u].pc \in Unlocked
      /\ Released(t) /\ UNCHANGED <<nd, mapVars, next, restVars>>
      /\ \/ nd >= max /\ Resize((max * 3) \div 2)
         \/ ~(nd >= max) /\ UNCHANGED <<max, point, graph, emptySlots>>
  BY DEF Grow
<1>2. /\ MapTypeOK /\ PhaseKnown /\ GraphClosed /\ VectorsInPlace /\ DegreeBounded
      /\ \A u \in Threads : CallHolds(u)
  BY DEF MapsInv, ListsInv
<1>3. OthersWait(t) /\ th'[t].pc = "again"  BY <1>1, <1>2, Relieved DEF OthersWait
<1>4. UNCHANGED <<nd, locTag, phase, inserts, next>>  BY <1>1 DEF mapVars, restVars
<1>5. max \in Nat /\ nd \in Nat /\ nd <= max /\ max \in Nodes  BY NodeTypes
<1>6. th[t].pc \in Inserting  BY <1>1 DEF Inserting
<1>7. CASE UNCHANGED <<max, point, graph, emptySlots>>
  <2>1. UNCHANGED slotVars /\ UNCHANGED nodeVars /\ UNCHANGED max  BY <1>4, <1>7 DEF slotVars, nodeVars
  <2>2. CallHolds(t)'  BY <1>3, NothingHeld
  <2>3. PhaseKnown'  BY <1>2, <1>3, <1>4, <1>6, <2>1, PhaseStep
  <2>4. \A l \in DOMAIN locTag' \cap Nodes : l \in DOMAIN locTag /\ locTag'[l] = locTag[l]  BY <1>4
  <2> QED BY <1>1, <1>3, <1>4, <2>1, <2>2, <2>3, <2>4, LocalStep
<1>8. CASE nd >= max /\ Resize((max * 3) \div 2)
  <2> DEFINE new == (max * 3) \div 2
  <2>1. new \in Nat /\ max <= new  BY <1>5
  <2> HIDE DEF new
  <2>2. /\ max' = new
        /\ point' = [ l \in 0 .. new |-> IF l = new THEN point[max]
                                         ELSE IF l < max THEN point[l] ELSE None ]
        /\ graph' = [ l \in 0 .. new |-> IF l = new THEN graph[max]
                                         ELSE IF l < max THEN Renamed(graph[l], max, new)
                                         ELSE << >> ]
    BY <1>8 DEF Resize, new
  <2>3. nd = max  BY <1>5, <1>8
  <2>4. Pending = {} /\ Pending' = {}
    <3>1. \A u \in Threads : th[u].pc \notin {"place", "fill"}  BY <1>1 DEF Unlocked
    <3>2. \A u \in Threads : th'[u].pc \notin {"place", "fill"}  BY <1>3, <3>1 DEF OthersWait
    <3> QED BY <3>1, <3>2 DEF Pending
  <2>5. Nodes = 0 .. max /\ Nodes' = 0 .. max - 1 \cup {new}
    BY <1>4, <1>5, <2>2, <2>3, <2>4 DEF Nodes
  <2>6. ASSUME NEW l \in 0 .. new
        PROVE  /\ graph'[l] \in Seq(Nodes' \ {l}) /\ IsInjective(graph'[l])
               /\ l \notin Nodes' => graph'[l] = << >>
               /\ Len(graph'[l]) <= Slack
    <3>1. CASE l = new
      <4>1. graph'[l] = graph[max]  BY <2>2, <3>1
      <4>2. graph[max] \in Seq(Nodes \ {max}) /\ IsInjective(graph[max]) /\ Len(graph[max]) <= Slack
        BY <1>2, <1>5 DEF GraphClosed, DegreeBounded
      <4>3. Nodes \ {max} \subseteq Nodes' \ {l} /\ l \in Nodes'  BY <1>5, <2>1, <2>5, <3>1
      <4> DEFINE A == Nodes \ {max}
                 B == Nodes' \ {l}
      <4>4. graph[max] \in Seq(A) /\ A \subseteq B  BY <4>2, <4>3
      <4> HIDE DEF A, B
      <4>5. graph[max] \in Seq(B)  BY <4>4, SeqMonotonic
      <4> QED BY <4>1, <4>2, <4>3, <4>5 DEF B
    <3>2. CASE l # new /\ l < max
      <4> DEFINE A == Nodes \ {l}
                 B == Nodes' \ {l}
                 r == Renamed(graph[l], max, new)
      <4>1. graph'[l] = r  BY <2>2, <3>2
      <4>2. graph[l] \in Seq(A) /\ IsInjective(graph[l]) /\ Len(graph[l]) <= Slack
        <5>1. l \in 0 .. max  BY <1>5, <2>1, <3>2
        <5> QED BY <1>2, <5>1 DEF GraphClosed, DegreeBounded
      <4>3. new \notin A \ {max} /\ A \ {max} \subseteq B /\ new \in B /\ l \in Nodes'
        BY <1>5, <2>1, <2>5, <3>2
      <4> HIDE DEF A, B
      <4>4. r \in Seq(B) /\ IsInjective(r) /\ Len(r) = Len(graph[l])
        <5> DEFINE s == graph[l]
        <5>1. s \in Seq(A) /\ IsInjective(s) /\ r = Renamed(s, max, new)  BY <4>2
        <5> HIDE DEF s, r
        <5>2. r \in Seq(B) /\ IsInjective(r) /\ Len(r) = Len(s)  BY <4>3, <5>1, RenamedList
        <5> QED BY <5>2 DEF s
      <4> QED BY <4>1, <4>2, <4>3, <4>4 DEF B
    <3>3. CASE l # new /\ ~(l < max)
      <4>1. graph'[l] = << >>  BY <2>2, <3>3
      <4>2. Len(<< >>) = 0 /\ << >> \in Seq(Nodes' \ {l}) /\ IsInjective(<< >>)
        BY EmptySeq DEF IsInjective
      <4> QED BY <4>1, <4>2, MemAssumption
    <3> QED BY <3>1, <3>2, <3>3
  <2>7. GraphClosed'  BY <2>2, <2>6 DEF GraphClosed
  <2>8. /\ \A l \in 0 .. max - 1 : point'[l] = point[l]
        /\ point'[new] = point[max]
        /\ \A l \in 0 .. new : point'[l] \in {point[max], None} \/ (l < max /\ point'[l] = point[l])
    BY <1>5, <2>1, <2>2
  <2>9. VectorsInPlace'
    <3>1. \A l \in 0 .. max' : point'[l] \in Points \cup {None}
      BY <1>2, <1>5, <2>2, <2>8 DEF VectorsInPlace
    <3>2. \A l \in Nodes' : point'[l] \in Points  BY <1>2, <1>5, <2>5, <2>8 DEF VectorsInPlace
    <3>3. \A l \in DOMAIN locTag : l \in 0 .. max - 1  BY <1>2, <2>3 DEF MapTypeOK
    <3>4. \A l \in DOMAIN locTag' \cap Nodes' : point'[l] = locTag'[l]
      BY <1>2, <1>4, <1>5, <2>5, <2>8, <3>3 DEF VectorsInPlace
    <3> QED BY <3>1, <3>2, <3>4 DEF VectorsInPlace
  <2>10. phase # "link" /\ ~(phase = "built" /\ inserts = 0)
    BY <1>1, <1>2 DEF PhaseKnown, Linking
  <2>11. DegreeBounded'  BY <1>4, <2>2, <2>6, <2>10 DEF DegreeBounded
  <2>12. PhaseKnown'  BY <1>2, <1>4, <2>10 DEF PhaseKnown
  <2>13. ASSUME NEW u \in Threads PROVE CallHolds(u)'
    <3>1. CASE u = t  BY <1>3, <3>1, NothingHeld
    <3>2. CASE u # t
      <4>1. CallHolds(u) /\ th'[u] = th[u] /\ th[u].pc \in Unlocked  BY <1>1, <1>2, <1>3, <3>2 DEF OthersWait
      <4>2. \A n \in Nodes : n < nd => n \in Nodes' /\ point'[n] = point[n]
        BY <1>5, <2>3, <2>5, <2>8
      <4> QED BY <1>4, <4>1, <4>2, UnlockedHoldsOn
    <3> QED BY <3>1, <3>2
  <2> QED BY <2>7, <2>9, <2>11, <2>12, <2>13 DEF ListsInv
<1> QED BY <1>1, <1>7, <1>8

-----------------------------------------------------------------------------
(* The steps that run alone. *)

(* While every call is idle, none of them remembers a node. *)
LEMMA QuietCalls ==
    ASSUME \A u \in Threads : th'[u].pc = "idle", phase' # "link", inserts' \in Nat
    PROVE  (\A u \in Threads : CallHolds(u)') /\ PhaseKnown' /\ Pending' = {}
<1>1. ASSUME NEW u \in Threads PROVE CallHolds(u)' /\ ~Linking(u)'
  BY DEF CallHolds, Linking
<1>2. PhaseKnown'  BY <1>1 DEF PhaseKnown
<1>3. Pending' = {}  BY DEF Pending
<1> QED BY <1>1, <1>2, <1>3

(* The end of link: the lists longer than range are pruned. *)
LEMMA CleanupLists ==
    ASSUME MapsInv, ListsInv, Cleanup
    PROVE  ListsInv'
<1>1. /\ \A t \in Threads : th[t].pc = "idle"
      /\ graph' = [ l \in DOMAIN graph |->
                      IF Len(graph[l]) > R THEN Prune(l, Range(graph[l]) \ {l}) ELSE graph[l] ]
      /\ phase' = "built" /\ UNCHANGED <<slotVars, mapVars, point, th, inserts>>
  BY DEF Cleanup
<1>2. GraphClosed /\ VectorsInPlace /\ DegreeBounded /\ inserts \in Nat  BY DEF ListsInv, PhaseKnown
<1>3. UNCHANGED <<max, nd, point, locTag, th, inserts>>  BY <1>1 DEF slotVars, mapVars
<1>4. Nodes' = Nodes  BY <1>3 DEF Nodes, Pending
<1>5. (\A u \in Threads : CallHolds(u)') /\ PhaseKnown'  BY <1>1, <1>2, <1>3, QuietCalls
<1>6. ASSUME NEW l \in 0 .. max
      PROVE  /\ graph'[l] \in Seq(Nodes \ {l}) /\ IsInjective(graph'[l])
             /\ l \notin Nodes => graph'[l] = << >>
             /\ Len(graph'[l]) <= R
  <2>1. graph[l] \in Seq(Nodes \ {l}) /\ IsInjective(graph[l]) /\ (l \notin Nodes => graph[l] = << >>)
    BY <1>2 DEF GraphClosed
  <2>2. graph'[l] = IF Len(graph[l]) > R THEN Prune(l, Range(graph[l]) \ {l}) ELSE graph[l]
    BY <1>1, <1>2 DEF GraphClosed
  <2>3. Len(graph[l]) \in Nat  BY <2>1, LenProperties
  <2>4. CASE ~(Len(graph[l]) > R)
    <3>1. Len(graph[l]) <= R  BY <2>3, <2>4, PruneAssumption
    <3> QED BY <2>1, <2>2, <2>4, <3>1
  <2>5. CASE Len(graph[l]) > R
    <3>1. l \in Nodes
      <4>1. Len(<< >>) = 0  BY EmptySeq
      <4> QED BY <2>1, <2>5, <4>1, PruneAssumption
    <3> DEFINE ids == Range(graph[l]) \ {l}
               list == Prune(l, ids)
    <3>2. ids \subseteq Nodes \ {l}  BY <2>1 DEF Range
    <3> HIDE DEF ids
    <3>3. list \in Seq(Nodes \ {l}) /\ IsInjective(list) /\ Len(list) <= R
      BY <1>2, <3>1, <3>2, PruneList
    <3>4. graph'[l] = list  BY <2>2, <2>5 DEF ids
    <3> QED BY <3>1, <3>3, <3>4
  <2> QED BY <2>4, <2>5
<1>7. GraphClosed'
  <2>1. DOMAIN graph' = 0 .. max'  BY <1>1, <1>2, <1>3 DEF GraphClosed
  <2> QED BY <1>3, <1>4, <1>6, <2>1 DEF GraphClosed
<1>8. VectorsInPlace'  BY <1>2, <1>3, <1>4 DEF VectorsInPlace
<1>9. DegreeBounded'
  <2>1. \A l \in 0 .. max : Len(graph'[l]) <= R /\ Len(graph'[l]) \in Nat  BY <1>6, LenProperties
  <2>2. \A l \in 0 .. max : Len(graph'[l]) <= Slack  BY <2>1, MemAssumption, PruneAssumption
  <2> QED BY <1>3, <2>1, <2>2 DEF DegreeBounded
<1> QED BY <1>5, <1>7, <1>8, <1>9 DEF ListsInv

(* lazy_delete of a set writes no list. *)
LEMMA DeleteAllLists ==
    ASSUME MapsInv, ListsInv, NEW tags, DeleteAll(tags)
    PROVE  ListsInv'
<1>1. /\ \A t \in Threads : th[t].pc = "idle"
      /\ UNCHANGED <<slotVars, nodeVars, phase, inserts, th>> /\ phase # "link"
  BY DEF DeleteAll, Alone
<1>2. \A l \in DOMAIN locTag' : l \in DOMAIN locTag /\ locTag'[l] = locTag[l]
  <2> DEFINE gone == { tagLoc[tag] : tag \in tags \cap DOMAIN tagLoc }
  <2>1. locTag' = [ l \in DOMAIN locTag \ gone |-> locTag[l] ]  BY DEF DeleteAll
  <2> HIDE DEF gone
  <2> QED BY <2>1
<1>3. UNCHANGED <<max, nd, point, graph>>  BY <1>1 DEF slotVars, nodeVars
<1>4. Nodes' = Nodes  BY <1>1, <1>3 DEF Nodes, Pending
<1>5. inserts \in Nat  BY DEF ListsInv, PhaseKnown
<1>6. (\A u \in Threads : CallHolds(u)') /\ PhaseKnown'  BY <1>1, <1>5, QuietCalls
<1>7. GraphClosed' /\ VectorsInPlace' /\ DegreeBounded'  BY <1>1, <1>2, <1>3, <1>4, ListsStay
<1> QED BY <1>6, <1>7 DEF ListsInv

(* A list without its deleted nodes: those it kept and what came for those  *)
(* it lost are live nodes, none of them its own.                            *)
LEMMA BridgedList ==
    ASSUME MapsInv, ListsInv, NEW l \in Nodes, NEW r, r = Bridged(l)
    PROVE  /\ r \in Seq((Nodes \ deleteSet) \ {l}) /\ IsInjective(r)
           /\ Len(r) <= R \/ Len(r) <= Len(graph[l])
<1> DEFINE bad  == Range(graph[l]) \cap deleteSet
           cand == (Range(graph[l]) \cup UNION { Range(graph[d]) : d \in bad }) \ deleteSet
           pool == SortedPool(l, cand, point)
           S    == OccludeList(l, pool, point) \ {l}
           Live == (Nodes \ deleteSet) \ {l}
<1>1. r = IF bad = {} THEN graph[l] ELSE Kept(pool, S)  BY DEF Bridged
<1>2. GraphClosed /\ VectorsInPlace  BY DEF ListsInv
<1>3. \A k \in Nodes : graph[k] \in Seq(Nodes \ {k}) /\ IsInjective(graph[k])
  BY <1>2, NodeTypes DEF GraphClosed
<1>4. \A k \in Nodes : Range(graph[k]) \subseteq Nodes
  <2> SUFFICES ASSUME NEW k \in Nodes PROVE Range(graph[k]) \subseteq Nodes
    OBVIOUS
  <2>1. graph[k] \in Seq(Nodes \ {k})  BY <1>3
  <2> QED BY <2>1 DEF Range
<1>5. cand \subseteq Nodes \ deleteSet  BY <1>4
<1>6. CASE bad = {}
  <2> DEFINE s == graph[l]
  <2>1. r = s /\ s \in Seq(Nodes \ {l}) /\ IsInjective(s) /\ Len(s) \in Nat
    BY <1>1, <1>3, <1>6, LenProperties
  <2>2. \A i \in DOMAIN s : s[i] \in Live
    <3>1. \A i \in DOMAIN s : s[i] \in Nodes \ {l}  BY <2>1, LenProperties, ElementOfSeq
    <3>2. \A i \in DOMAIN s : s[i] \notin deleteSet  BY <1>6 DEF Range
    <3> QED BY <3>1, <3>2
  <2> HIDE DEF s, Live
  <2>3. s \in Seq(Live)
    <3>1. DOMAIN s = 1 .. Len(s) /\ s = [ i \in DOMAIN s |-> s[i] ]  BY <2>1, LenProperties
    <3>2. s \in [1 .. Len(s) -> Live]  BY <2>2, <3>1
    <3> QED BY <2>1, <3>2, SeqDef
  <2>4. Len(r) <= Len(graph[l])  BY <2>1 DEF s
  <2> QED BY <2>1, <2>3, <2>4 DEF Live
<1>7. CASE bad # {}
  <2>1. pool \in Seq(cand) /\ IsInjective(pool)
    <3>1. IsFiniteSet(cand) /\ cand \subseteq Int  BY <1>5, NodeTypes, FS_Subset
    <3>2. \A n \in cand : Gap(point, l, n) \in Int  BY <1>2, <1>5, NodeDistances
    <3> DEFINE of == point
    <3>3. pool = SortedPool(l, cand, of)  OBVIOUS
    <3>4. \A n \in cand : Gap(of, l, n) \in Int  BY <3>2
    <3> HIDE DEF pool, of, cand
    <3> QED BY <3>1, <3>3, <3>4, SortedPoolParts
  <2> DEFINE chosen == OccludeList(l, pool, point)
  <2>2. r = Kept(pool, S) /\ S = chosen \ {l}  BY <1>1, <1>7
  <2> HIDE DEF pool, cand
  <2>3. IsFiniteSet(chosen) /\ Cardinality(chosen) <= R /\ chosen \subseteq cand
    BY <2>1, OccludeListChooses
  <2> HIDE DEF chosen, S
  <2>4. IsFiniteSet(S) /\ Cardinality(S) <= R
    <3>1. IsFiniteSet(S) /\ Cardinality(S) <= Cardinality(chosen)  BY <2>2, <2>3, FS_Subset
    <3>2. Cardinality(S) \in Nat /\ Cardinality(chosen) \in Nat  BY <2>3, <3>1, FS_CardinalityType
    <3> QED BY <2>3, <3>1, <3>2, PruneAssumption
  <2>5. r \in Seq(cand \cap S)  BY <2>1, <2>2, KeptLists
  <2>6. IsInjective(r)
    <3>1. IsInjective(Kept(pool, S))  BY <2>1, KeptInjective
    <3> QED BY <2>2, <3>1
  <2>7. Len(r) <= Cardinality(S)  BY <2>1, <2>2, <2>4, KeptLen
  <2>8. Len(r) <= R
    <3>1. Len(r) \in Nat /\ Cardinality(S) \in Nat  BY <2>4, <2>5, LenProperties, FS_CardinalityType
    <3> QED BY <2>4, <2>7, <3>1, PruneAssumption
  <2>9. r \in Seq(Live)
    <3>1. cand \cap S \subseteq Live  BY <1>5, <2>2
    <3> DEFINE X == cand \cap S
    <3>2. r \in Seq(X) /\ X \subseteq Live  BY <2>5, <3>1
    <3> HIDE DEF X, Live
    <3> QED BY <3>2, SeqMonotonic
  <2> QED BY <2>6, <2>8, <2>9
<1> QED BY <1>6, <1>7

(* consolidate_deletes finds no edge behind the last location either.       *)
LEMMA NothingBeyond ==
    ASSUME MapsInv, GraphClosed
    PROVE  ~Beyond
<1>1. \A l \in DOMAIN locTag \cup deleteSet \cup {max} : l \in 0 .. max
  <2>1. DOMAIN locTag \subseteq 0 .. nd - 1 /\ deleteSet \subseteq 0 .. nd - 1 /\ nd \in 0 .. max /\ max \in Nat
    BY DEF MapsInv, MapTypeOK
  <2> DEFINE D == DOMAIN locTag
  <2>2. D \subseteq 0 .. nd - 1  BY <2>1
  <2> HIDE DEF D
  <2>3. \A l \in D \cup deleteSet \cup {max} : l \in 0 .. max  BY <2>1, <2>2
  <2> QED BY <2>3 DEF D
<1> QED BY <1>1, EdgesInside DEF Beyond

(* consolidate_deletes and compact_data: the nodes close up, and every edge *)
(* follows its node.                                                        *)
LEMMA ConsolidateLists ==
    ASSUME MapsInv, ListsInv, NEW t \in Threads, Consolidate(t)
    PROVE  ListsInv'
<1> DEFINE D      == DOMAIN locTag
           kept   == Cardinality(D)
           Old(n) == CHOOSE l \in D : NewLocation(l) = n
           Cleaned  == [ l \in DOMAIN graph |->
                         IF l \in deleteSet \cup emptySlots THEN graph[l] ELSE Bridged(l) ]
           To     == [ l \in D \cup {max} |-> NewLocation(l) ]
<1>1. /\ Alone /\ phase # "link" /\ UNCHANGED <<phase, inserts, next>>
      /\ \A u \in Threads : th[u].pc = "idle"
  BY DEF Consolidate, Alone
<1>2. /\ MapTypeOK /\ SlotsCounted /\ GraphClosed /\ VectorsInPlace /\ DegreeBounded /\ PhaseKnown
      /\ \A u \in Threads : CallHolds(u)
  BY DEF MapsInv, ListsInv
<1>3. /\ D \cup deleteSet = 0 .. nd - 1 /\ D \cap deleteSet = {}  BY <1>1, Quiet
<1>4. max \in Nat /\ nd \in Nat /\ nd <= max /\ emptySlots = nd .. max - 1 /\ D \subseteq 0 .. nd - 1
  BY <1>2 DEF MapTypeOK, SlotsCounted
<1>5. Nodes = 0 .. nd - 1 \cup {max}
  <2>1. Pending = {}  BY <1>1 DEF Pending
  <2> QED BY <2>1 DEF Nodes
<1>6. Nodes \ deleteSet = D \cup {max}
  <2>1. max \notin deleteSet /\ max \notin 0 .. nd - 1  BY <1>3, <1>4
  <2> HIDE DEF D
  <2> QED BY <1>3, <1>5, <2>1
<1>7. CASE Go(t, "crashed") /\ UNCHANGED <<slotVars, mapVars, nodeVars>>
  <2>1. OthersWait(t) /\ th'[t].pc = "crashed"  BY <1>2, <1>7, Went DEF OthersWait
  <2>2. CallHolds(t)'  BY <2>1, NothingHeld
  <2>3. UNCHANGED <<max, nd, locTag>>  BY <1>7 DEF slotVars, mapVars
  <2>4. PhaseKnown'
    <3>1. ~Linking(t)' /\ th'[t].pc \notin Inserting  BY <2>1 DEF Linking, Inserting
    <3> QED BY <1>1, <1>2, <2>1, <2>3, <3>1, PhaseStep
  <2> QED BY <1>1, <1>7, <2>1, <2>2, <2>3, <2>4, LocalStep
<1>8. CASE /\ graph' = [ n \in DOMAIN graph |->
                  IF n >= kept /\ n # max THEN << >>
                  ELSE LET old == Cleaned[IF n = max THEN max ELSE Old(n)]
                       IN  [ i \in DOMAIN old |-> NewLocation(old[i]) ] ]
           /\ point' = [ n \in DOMAIN point |-> IF n < kept THEN point[Old(n)] ELSE point[n] ]
           /\ locTag' = [ n \in 0 .. kept - 1 |-> locTag[Old(n)] ]
           /\ nd' = nd - Cardinality(deleteSet)
           /\ UNCHANGED <<max, th>>
  <2>1. /\ kept \in Nat /\ kept <= nd /\ Cardinality((0 .. nd - 1) \ D) = nd - kept
        /\ \A l \in D : NewLocation(l) \in 0 .. kept - 1
        /\ \A l, m \in D : NewLocation(l) = NewLocation(m) => l = m
        /\ \A i \in 0 .. kept - 1 : \E l \in D : NewLocation(l) = i
    BY <1>4, ClosedUp
  <2>2. nd' = kept
    <3>1. deleteSet = (0 .. nd - 1) \ D  BY <1>3
    <3> QED BY <1>4, <1>8, <2>1, <3>1
  <2>3. \A i \in 0 .. kept - 1 : Old(i) \in D /\ NewLocation(Old(i)) = i  BY <2>1
  <2>4. NewLocation(max) = max  BY <1>4 DEF NewLocation
  <2> HIDE DEF Old, kept, D
  <2>5. (\A u \in Threads : CallHolds(u)') /\ PhaseKnown' /\ Pending' = {}
    <3>1. inserts' \in Nat /\ phase' # "link" /\ \A u \in Threads : th'[u].pc = "idle"
      BY <1>1, <1>2, <1>8 DEF PhaseKnown
    <3> QED BY <3>1, QuietCalls
  <2>6. Nodes' = 0 .. kept - 1 \cup {max}  BY <1>8, <2>2, <2>5 DEF Nodes
  <2>7. /\ \A a \in D \cup {max} : To[a] \in Nodes' /\ To[a] = NewLocation(a)
        /\ \A a, b \in D \cup {max} : To[a] = To[b] => a = b
    <3>1. \A a \in D \cup {max} : To[a] = NewLocation(a)  OBVIOUS
    <3>2. \A a \in D : NewLocation(a) # max  BY <1>4, <2>1
    <3> HIDE DEF To
    <3> QED BY <2>1, <2>4, <2>6, <3>1, <3>2
  <2> HIDE DEF To
  <2>8. ASSUME NEW o \in D \cup {max}
        PROVE  /\ Cleaned[o] \in Seq((D \cup {max}) \ {o}) /\ IsInjective(Cleaned[o])
               /\ Len(Cleaned[o]) <= R \/ Len(Cleaned[o]) <= Len(graph[o])
    <3>1. o \in Nodes /\ o \notin deleteSet /\ o \in 0 .. max  BY <1>4, <1>5, <1>6
    <3>2. o \notin emptySlots  BY <1>4
    <3>3. o \in DOMAIN graph  BY <1>2, <3>1 DEF GraphClosed
    <3> DEFINE r == Bridged(o)
    <3>4. Cleaned[o] = r  BY <3>1, <3>2, <3>3
    <3> HIDE DEF r, Cleaned
    <3>5. /\ r \in Seq((Nodes \ deleteSet) \ {o}) /\ IsInjective(r)
          /\ Len(r) <= R \/ Len(r) <= Len(graph[o])
      <4>1. r = Bridged(o)  BY DEF r
      <4> QED BY <3>1, <4>1, BridgedList
    <3> QED BY <1>6, <3>4, <3>5
  <2> HIDE DEF Cleaned
  <2>9. ASSUME NEW n \in Nodes'
        PROVE  \E o \in D \cup {max} :
                  /\ To[o] = n /\ (n = max => o = max) /\ (n # max => o = Old(n))
                  /\ graph'[n] = Mapped(Cleaned[o], To)
    <3> DEFINE o == IF n = max THEN max ELSE Old(n)
    <3>1. n \in DOMAIN graph /\ ~(n >= kept /\ n # max)  BY <1>2, <1>4, <2>1, <2>6 DEF GraphClosed
    <3>2. o \in D \cup {max} /\ To[o] = n
      <4>1. CASE n = max  BY <2>4, <2>7, <4>1
      <4>2. CASE n # max
        <5>1. n \in 0 .. kept - 1  BY <2>6, <4>2
        <5> QED BY <2>3, <2>7, <4>2, <5>1
      <4> QED BY <4>1, <4>2
    <3>3. graph'[n] = [ i \in DOMAIN Cleaned[o] |-> NewLocation(Cleaned[o][i]) ]  BY <1>8, <3>1
    <3> HIDE DEF o
    <3>4. \A i \in DOMAIN Cleaned[o] : Cleaned[o][i] \in D \cup {max}
      <4> DEFINE A == (D \cup {max}) \ {o}
      <4>1. Cleaned[o] \in Seq(A)  BY <2>8, <3>2
      <4> HIDE DEF A
      <4>2. \A i \in DOMAIN Cleaned[o] : Cleaned[o][i] \in A  BY <4>1, LenProperties, ElementOfSeq
      <4> QED BY <4>2 DEF A
    <3>5. \A i \in DOMAIN Cleaned[o] : NewLocation(Cleaned[o][i]) = To[Cleaned[o][i]]  BY <2>7, <3>4
    <3>6. graph'[n] = Mapped(Cleaned[o], To)  BY <3>3, <3>5 DEF Mapped
    <3> QED BY <3>2, <3>6 DEF o
  <2>10. ASSUME NEW n \in Nodes'
         PROVE  /\ graph'[n] \in Seq(Nodes' \ {n}) /\ IsInjective(graph'[n])
                /\ \E o \in 0 .. max : Len(graph'[n]) <= R \/ Len(graph'[n]) <= Len(graph[o])
    <3>1. PICK o \in D \cup {max} : To[o] = n /\ graph'[n] = Mapped(Cleaned[o], To)  BY <2>9
    <3> DEFINE A == (D \cup {max}) \ {o}
               B == Nodes' \ {n}
               s == Cleaned[o]
               r == graph'[n]
    <3>2. s \in Seq(A) /\ IsInjective(s) /\ (Len(s) <= R \/ Len(s) <= Len(graph[o]))  BY <2>8
    <3>3. (\A a \in A : To[a] \in B) /\ \A a, b \in A : To[a] = To[b] => a = b  BY <2>7, <3>1
    <3>4. r = Mapped(s, To)  BY <3>1
    <3> HIDE DEF A, B, s, r
    <3>5. r \in Seq(B) /\ IsInjective(r) /\ Len(r) = Len(s)  BY <3>2, <3>3, <3>4, MappedList
    <3>6. o \in 0 .. max  BY <1>4 DEF D
    <3> QED BY <3>2, <3>5, <3>6 DEF B, r
  <2>11. ASSUME NEW n \in 0 .. max, n \notin Nodes' PROVE graph'[n] = << >>
    <3>1. n \in DOMAIN graph /\ n >= kept /\ n # max  BY <1>2, <2>1, <2>6, <2>11 DEF GraphClosed
    <3> QED BY <1>8, <3>1
  <2>12. << >> \in Seq(Nodes') /\ IsInjective(<< >>) /\ Len(<< >>) = 0
    BY EmptySeq DEF IsInjective
  <2>13. GraphClosed'
    <3>1. DOMAIN graph' = 0 .. max'  BY <1>2, <1>8 DEF GraphClosed
    <3>2. \A n \in 0 .. max : /\ graph'[n] \in Seq(Nodes' \ {n}) /\ IsInjective(graph'[n])
                              /\ n \notin Nodes' => graph'[n] = << >>
      <4> SUFFICES ASSUME NEW n \in 0 .. max
                   PROVE  /\ graph'[n] \in Seq(Nodes' \ {n}) /\ IsInjective(graph'[n])
                          /\ n \notin Nodes' => graph'[n] = << >>
        OBVIOUS
      <4>1. CASE n \in Nodes'  BY <2>10, <4>1
      <4>2. CASE n \notin Nodes'  BY <2>11, <2>12, <4>2, EmptySeq DEF IsInjective
      <4> QED BY <4>1, <4>2
    <3> QED BY <1>8, <3>1, <3>2 DEF GraphClosed
  <2>14. VectorsInPlace'
    <3>1. \A n \in 0 .. max : point'[n] = IF n < kept THEN point[Old(n)] ELSE point[n]
      BY <1>2, <1>8 DEF MapTypeOK
    <3>2. \A n \in 0 .. kept - 1 : Old(n) \in D /\ Old(n) \in Nodes  BY <1>6, <2>3
    <3>3. \A n \in 0 .. kept - 1 : n \in 0 .. max /\ n < kept  BY <1>4, <2>1
    <3>4. \A n \in 0 .. max : point'[n] \in Points \cup {None}
      <4>1. \A n \in 0 .. max : n < kept => n \in 0 .. kept - 1  BY <1>4, <2>1
      <4> QED BY <1>2, <3>1, <3>2, <4>1 DEF VectorsInPlace
    <3>5. \A n \in Nodes' : point'[n] \in Points
      <4>1. ~(max < kept) /\ max \in 0 .. max /\ max \in Nodes  BY <1>4, <1>5, <2>1
      <4> QED BY <1>2, <2>6, <3>1, <3>2, <3>3, <4>1 DEF VectorsInPlace
    <3>6. \A n \in DOMAIN locTag' : point'[n] = locTag'[n]
      <4>1. \A n \in 0 .. kept - 1 : point[Old(n)] = locTag[Old(n)]
        BY <1>2, <3>2 DEF VectorsInPlace, D
      <4> QED BY <1>8, <3>1, <3>3, <4>1
    <3> QED BY <1>8, <3>4, <3>5, <3>6 DEF VectorsInPlace
  <2>15. DegreeBounded'
    <3>1. \A n \in 0 .. max : /\ Len(graph'[n]) \in Nat
                              /\ \E o \in 0 .. max : Len(graph'[n]) <= R \/ Len(graph'[n]) <= Len(graph[o])
      <4> SUFFICES ASSUME NEW n \in 0 .. max
                   PROVE  /\ Len(graph'[n]) \in Nat
                          /\ \E o \in 0 .. max : Len(graph'[n]) <= R \/ Len(graph'[n]) <= Len(graph[o])
        OBVIOUS
      <4>1. CASE n \in Nodes'
        <5>1. Len(graph'[n]) \in Nat  BY <2>10, <4>1, LenProperties
        <5> QED BY <2>10, <4>1, <5>1
      <4>2. CASE n \notin Nodes'
        <5>1. Len(graph'[n]) = 0  BY <2>11, <2>12, <4>2
        <5> QED BY <5>1, PruneAssumption
      <4> QED BY <4>1, <4>2
    <3>2. \A o \in 0 .. max : Len(graph[o]) \in Nat  BY <1>2, LenProperties DEF GraphClosed
    <3>3. ASSUME NEW c \in Nat, R <= c, \A o \in 0 .. max : Len(graph[o]) <= c
          PROVE  \A n \in 0 .. max : Len(graph'[n]) <= c
      <4> SUFFICES ASSUME NEW n \in 0 .. max PROVE Len(graph'[n]) <= c
        OBVIOUS
      <4> DEFINE len == Len(graph'[n])
      <4>1. len \in Nat /\ \E o \in 0 .. max : len <= R \/ len <= Len(graph[o])  BY <3>1
      <4> HIDE DEF len
      <4>2. PICK o \in 0 .. max : len <= R \/ len <= Len(graph[o])  BY <4>1
      <4> DEFINE k == Len(graph[o])
      <4>3. k \in Nat /\ k <= c /\ (len <= R \/ len <= k)  BY <3>2, <3>3, <4>2
      <4> HIDE DEF k
      <4>4. len <= c  BY <3>3, <4>1, <4>3, PruneAssumption
      <4> QED BY <4>4 DEF len
    <3>4. \A n \in 0 .. max : Len(graph'[n]) <= Slack
      BY <1>2, <3>3, MemAssumption DEF DegreeBounded
    <3>5. phase = "built" /\ inserts = 0 => \A n \in 0 .. max : Len(graph'[n]) <= R
      <4>1. R \in Nat /\ R <= R  BY PruneAssumption
      <4>2. phase = "built" /\ inserts = 0 => \A o \in 0 .. max : Len(graph[o]) <= R
        BY <1>2 DEF DegreeBounded
      <4> QED BY <3>3, <4>1, <4>2
    <3> QED BY <1>1, <1>8, <3>4, <3>5 DEF DegreeBounded
  <2> QED BY <2>5, <2>13, <2>14, <2>15 DEF ListsInv
<1> HIDE DEF Cleaned, Old, kept
<1>9. \E lists \in {Cleaned} :
         IF Beyond \/ Dangling(lists) THEN Go(t, "crashed") /\ UNCHANGED <<slotVars, mapVars, nodeVars>>
         ELSE /\ graph' = [ n \in DOMAIN graph |->
                    IF n >= kept /\ n # max THEN << >>
                    ELSE LET old == lists[IF n = max THEN max ELSE Old(n)]
                         IN  [ i \in DOMAIN old |-> NewLocation(old[i]) ] ]
              /\ point' = [ n \in DOMAIN point |-> IF n < kept THEN point[Old(n)] ELSE point[n] ]
              /\ locTag' = [ n \in 0 .. kept - 1 |-> locTag[Old(n)] ]
              /\ nd' = nd - Cardinality(deleteSet)
              /\ UNCHANGED <<max, th>>
  <2>1. Cleaned = [ l \in DOMAIN graph |->
                      IF Beyond \/ l \in deleteSet \cup emptySlots THEN graph[l] ELSE Bridged(l) ]
    BY <1>2, NothingBeyond DEF Cleaned
  <2> QED BY Zenon, <2>1 DEF Consolidate, Old, kept
<1> QED BY <1>7, <1>8, <1>9

(* save, then load: the frozen point moves behind the last point and from   *)
(* there to the end, its edges with it.                                     *)
LEMMA SaveAndLoadLists ==
    ASSUME MapsInv, ListsInv, NEW size \in LoadSizes, SaveAndLoad(size), ~lost'
    PROVE  ListsInv'
<1> DEFINE new   == LoadedMax(size)
           lists == LoadedGraph(new)
           data  == LoadedData(new)
<1>1. /\ Alone /\ phase # "link" /\ \A u \in Threads : th[u].pc = "idle"
      /\ UNCHANGED <<nd, deleteSet, phase, inserts, next, th>>
      /\ max' = new /\ locTag' = LoadedTags
      /\ graph' = [ l \in 0 .. new |->
             IF l = new THEN lists[nd] ELSE IF l < nd THEN Renamed(lists[l], nd, new) ELSE << >> ]
      /\ point' = [ l \in 0 .. new |->
             IF l = new THEN data[nd] ELSE IF l < nd THEN data[l] ELSE None ]
  BY DEF SaveAndLoad, Alone, MovedToEnd
<1>2. /\ MapTypeOK /\ GraphClosed /\ VectorsInPlace /\ DegreeBounded /\ PhaseKnown
  BY DEF MapsInv, ListsInv
<1>3. max \in Nat /\ nd \in Nat /\ nd <= max /\ new \in Nat /\ nd <= new
  BY <1>2, MemAssumption DEF MapTypeOK, LoadedMax
<1>4. Pending = {} /\ Nodes = 0 .. nd - 1 \cup {max}
  <2>1. Pending = {}  BY <1>1 DEF Pending
  <2> QED BY <2>1 DEF Nodes
<1>5. (\A u \in Threads : CallHolds(u)') /\ PhaseKnown' /\ Pending' = {}
  <2>1. inserts' \in Nat /\ phase' # "link" /\ \A u \in Threads : th'[u].pc = "idle"
    BY <1>1, <1>2 DEF PhaseKnown
  <2> QED BY <2>1, QuietCalls
<1>6. Nodes' = 0 .. nd - 1 \cup {new}  BY <1>1, <1>5 DEF Nodes
<1>7. DOMAIN locTag \cup deleteSet = 0 .. nd - 1 /\ DOMAIN locTag \cap deleteSet = {}
  BY <1>1, Quiet
<1>8. locTag' = locTag
  <2>1. (0 .. nd - 1) \ deleteSet = DOMAIN locTag  BY <1>7
  <2>2. LoadedTags = [ l \in DOMAIN locTag |-> locTag[l] ]
    BY <2>1, <1>2 DEF LoadedTags, SavedTags, MapTypeOK
  <2> QED BY <1>1, <1>2, <2>2 DEF MapTypeOK
<1>9. FrozenMoves \/ nd = max
  <2>1. ~(nd < max /\ ~FrozenMoves)  BY DEF SaveAndLoad
  <2> QED BY <1>3, <2>1
<1>10. /\ lists[nd] = graph[max]
       /\ \A l \in 0 .. nd - 1 : lists[l] = IF FrozenMoves THEN Renamed(graph[l], max, nd) ELSE graph[l]
  BY <1>3, <1>9 DEF LoadedGraph, SavedGraph
<1>11. data[nd] = point[max] /\ \A l \in 0 .. nd - 1 : data[l] = point[l]
  BY <1>3, <1>9 DEF LoadedData, SavedData
<1> HIDE DEF new, lists, data
<1>12. \A l \in 0 .. max : /\ graph[l] \in Seq(Nodes \ {l}) /\ IsInjective(graph[l])
                           /\ Len(graph[l]) \in Nat /\ Len(graph[l]) <= Slack
  BY <1>2, LenProperties DEF GraphClosed, DegreeBounded
<1>13. ASSUME NEW l \in 0 .. new
       PROVE  /\ graph'[l] \in Seq(Nodes' \ {l}) /\ IsInjective(graph'[l])
              /\ l \notin Nodes' => graph'[l] = << >>
              /\ Len(graph'[l]) <= Slack
              /\ \E o \in 0 .. max : Len(graph'[l]) = Len(graph[o]) \/ Len(graph'[l]) = 0
  <2>1. CASE l = new
    <3> DEFINE s == graph[max]
               A == Nodes \ {max}
               B == Nodes' \ {l}
    <3>1. graph'[l] = s  BY <1>1, <1>10, <2>1
    <3>2. s \in Seq(A) /\ IsInjective(s) /\ Len(s) <= Slack /\ max \in 0 .. max  BY <1>3, <1>12
    <3>3. A \subseteq B  BY <1>3, <1>4, <1>6, <2>1
    <3>4. l \in Nodes'  BY <1>6, <2>1
    <3> HIDE DEF A, B, s
    <3>5. s \in Seq(B)  BY <3>2, <3>3, SeqMonotonic
    <3> QED BY <3>1, <3>2, <3>4, <3>5 DEF B, s
  <2>2. CASE l # new /\ l < nd
    <3> DEFINE s == graph[l]
               A == Nodes \ {l}
               C == (0 .. nd) \ {l}
               B == Nodes' \ {l}
               r == lists[l]
               x == graph'[l]
    <3>1. l \in 0 .. nd - 1 /\ l \in 0 .. max  BY <1>3, <2>2
    <3>2. s \in Seq(A) /\ IsInjective(s) /\ Len(s) <= Slack  BY <1>12, <3>1
    <3>3. /\ nd \notin A \ {max} /\ A \ {max} \subseteq C /\ nd \in C
          /\ nd = max => A \subseteq C
      BY <1>3, <1>4, <3>1
    <3>4. new \notin C \ {nd} /\ C \ {nd} \subseteq B /\ new \in B /\ l \in Nodes'
      BY <1>3, <1>6, <2>2, <3>1
    <3>5. r = IF FrozenMoves THEN Renamed(s, max, nd) ELSE s  BY <1>10, <3>1
    <3>6. x = Renamed(r, nd, new)  BY <1>1, <2>2
    <3> HIDE DEF A, B, C, s, r, x
    <3>7. r \in Seq(C) /\ IsInjective(r) /\ Len(r) = Len(s)
      <4>1. CASE FrozenMoves
        <5>1. r = Renamed(s, max, nd)  BY <3>5, <4>1
        <5> QED BY <3>2, <3>3, <5>1, RenamedList
      <4>2. CASE ~FrozenMoves
        <5>1. r = s /\ A \subseteq C  BY <1>9, <3>3, <3>5, <4>2
        <5>2. s \in Seq(C)  BY <3>2, <5>1, SeqMonotonic
        <5> QED BY <3>2, <5>1, <5>2
      <4> QED BY <4>1, <4>2
    <3>8. x \in Seq(B) /\ IsInjective(x) /\ Len(x) = Len(r)  BY <3>4, <3>6, <3>7, RenamedList
    <3> QED BY <3>1, <3>2, <3>4, <3>7, <3>8 DEF B, s, x
  <2>3. CASE l # new /\ ~(l < nd)
    <3>1. graph'[l] = << >>  BY <1>1, <2>3
    <3>2. Len(<< >>) = 0 /\ << >> \in Seq(Nodes' \ {l}) /\ IsInjective(<< >>)
      BY EmptySeq DEF IsInjective
    <3>3. 0 \in 0 .. max  BY <1>3
    <3> QED BY <3>1, <3>2, <3>3, MemAssumption
  <2> QED BY <2>1, <2>2, <2>3
<1>14. GraphClosed'
  <2>1. DOMAIN graph' = 0 .. max'  BY <1>1
  <2> QED BY <1>1, <1>13, <2>1 DEF GraphClosed
<1>15. VectorsInPlace'
  <2>1. /\ point'[new] = point[max] /\ new \in 0 .. new
        /\ \A l \in 0 .. new : l # new => point'[l] = IF l < nd THEN point[l] ELSE None
    <3>1. point'[new] = point[max] /\ new \in 0 .. new  BY <1>1, <1>3, <1>11
    <3>2. ASSUME NEW l \in 0 .. new, l # new PROVE point'[l] = IF l < nd THEN point[l] ELSE None
      <4>1. point'[l] = IF l < nd THEN data[l] ELSE None  BY <1>1, <3>2
      <4>2. l < nd => l \in 0 .. nd - 1  BY <1>3
      <4> QED BY <1>11, <4>1, <4>2
    <3> QED BY <3>1, <3>2
  <2>2. max \in Nodes /\ \A l \in 0 .. nd - 1 : l \in Nodes  BY <1>4
  <2>3. point[max] \in Points /\ \A l \in 0 .. nd - 1 : point[l] \in Points  BY <1>2, <2>2 DEF VectorsInPlace
  <2>4. \A l \in 0 .. new : l < nd => l \in 0 .. nd - 1  BY <1>3
  <2>5. \A l \in 0 .. new : point'[l] \in Points \cup {None}  BY <2>1, <2>3, <2>4
  <2>6. \A l \in 0 .. nd - 1 : l \in 0 .. new /\ l # new /\ l < nd  BY <1>3
  <2>7. \A l \in 0 .. nd - 1 : point'[l] = point[l]  BY <2>1, <2>6
  <2>8. \A l \in Nodes' : point'[l] \in Points  BY <1>6, <2>1, <2>3, <2>7
  <2>9. \A l \in DOMAIN locTag : l \in 0 .. nd - 1  BY <1>2 DEF MapTypeOK
  <2>10. \A l \in DOMAIN locTag' \cap Nodes' : point'[l] = locTag'[l]
    BY <1>2, <1>8, <2>2, <2>7, <2>9 DEF VectorsInPlace
  <2> QED BY <1>1, <2>5, <2>8, <2>10 DEF VectorsInPlace
<1>16. DegreeBounded'
  <2>1. ASSUME phase = "built", inserts = 0, NEW l \in 0 .. new PROVE Len(graph'[l]) <= R
    <3>1. PICK o \in 0 .. max : Len(graph'[l]) = Len(graph[o]) \/ Len(graph'[l]) = 0  BY <1>13
    <3>2. Len(graph[o]) <= R  BY <1>2, <2>1 DEF DegreeBounded
    <3> QED BY <3>1, <3>2, PruneAssumption
  <2>2. \A l \in 0 .. new : Len(graph'[l]) <= Slack  BY <1>13
  <2> QED BY <1>1, <2>1, <2>2 DEF DegreeBounded
<1> QED BY <1>5, <1>14, <1>15, <1>16 DEF ListsInv

-----------------------------------------------------------------------------
(* The points of an index to be built have no list; a loaded one is closed. *)
LEMMA InitLists ==
    ASSUME Init
    PROVE  ListsInv
<1>1. MapsInv  BY InitKeeps
<1>2. max \in Nat /\ nd \in Nat /\ nd <= max  BY <1>1, NodeTypes
<1>3. /\ \A u \in Threads : th[u].pc = "idle"
      /\ inserts = 0 /\ phase \in {"link", "loaded"} /\ next = 0
      /\ phase = "link" => nd = max
  BY DEF Init, Free, Building, Loaded
<1>4. Pending = {} /\ Nodes = 0 .. nd - 1 \cup {max}
  <2>1. Pending = {}  BY <1>3 DEF Pending
  <2> QED BY <2>1 DEF Nodes
<1>5. (\A u \in Threads : CallHolds(u)) /\ PhaseKnown
  BY <1>3 DEF CallHolds, Linking, PhaseKnown
<1>6. Len(<< >>) = 0 /\ IsInjective(<< >>) /\ \A S : << >> \in Seq(S)
  BY EmptySeq DEF IsInjective
<1>7. CASE Building
  <2>1. /\ graph = [ l \in 0 .. max |-> << >> ]
        /\ point = [ l \in 0 .. max |-> IF l < nd THEN ToLink[l + 1] ELSE Frozen ]
        /\ locTag = [ l \in 0 .. nd - 1 |-> ToLink[l + 1] ]
        /\ max = Len(ToLink) /\ nd = max /\ phase = "link"
    BY <1>7 DEF Building
  <2>2. DegreeBounded  BY <1>6, <2>1, MemAssumption DEF DegreeBounded
  <2>3. GraphClosed  BY <1>6, <2>1 DEF GraphClosed
  <2>4. VectorsInPlace
    <3>1. ToLink \in Seq(Tags)  BY MemAssumption
    <3>2. \A i \in 1 .. max : ToLink[i] \in Tags  BY <2>1, <3>1, ElementOfSeq
    <3>3. \A l \in 0 .. max : l < nd => l + 1 \in 1 .. max  BY <1>2, <2>1
    <3>4. \A l \in 0 .. max : point[l] \in Points  BY <2>1, <3>2, <3>3 DEF Points
    <3>5. \A l \in DOMAIN locTag : point[l] = locTag[l]
      <4>1. \A l \in 0 .. nd - 1 : l \in 0 .. max /\ l < nd  BY <1>2
      <4> QED BY <2>1, <4>1
    <3>6. Nodes \subseteq 0 .. max  BY <1>1, NodeTypes
    <3> QED BY <3>4, <3>5, <3>6 DEF VectorsInPlace
  <2> QED BY <1>5, <2>2, <2>3, <2>4 DEF ListsInv
<1>8. ASSUME NEW start \in Starts, Loaded(start) PROVE ListsInv
  <2> DEFINE g == start.graph
  <2>1. /\ max = start.max /\ nd = Len(start.points) /\ phase = "loaded"
        /\ locTag = [ l \in 0 .. nd - 1 \ deleteSet |-> start.points[l + 1] ]
        /\ point = [ l \in 0 .. max |-> IF l < nd THEN start.points[l + 1]
                                        ELSE IF l = max THEN Frozen ELSE None ]
        /\ graph = [ l \in 0 .. max |-> IF l < nd THEN g[l + 1]
                                        ELSE IF l = max THEN Last(g) ELSE << >> ]
    BY <1>8 DEF Loaded
  <2>2. start.points \in Seq(Tags) /\ WellFormed(start)  BY MemAssumption, DataAssumption
  <2>3. /\ Len(g) = nd + 1
        /\ \A i \in 1 .. nd + 1 :
              LET n == IF i > nd THEN max ELSE i - 1
              IN  g[i] \in Seq(Nodes \ {n}) /\ IsInjective(g[i]) /\ Len(g[i]) <= Slack
    BY <1>4, <2>1, <2>2 DEF WellFormed
  <2> HIDE DEF g
  <2>4. ASSUME NEW l \in 0 .. max
        PROVE  /\ graph[l] \in Seq(Nodes \ {l}) /\ IsInjective(graph[l]) /\ Len(graph[l]) <= Slack
               /\ l \notin Nodes => graph[l] = << >>
    <3>1. CASE l < nd
      <4>1. graph[l] = g[l + 1]  BY <2>1, <3>1
      <4> DEFINE i == l + 1
      <4>2. i \in 1 .. nd + 1 /\ ~(i > nd) /\ i - 1 = l /\ l \in Nodes  BY <1>2, <1>4, <3>1
      <4>3. graph[l] = g[i]  BY <4>1
      <4> HIDE DEF i
      <4>4. g[i] \in Seq(Nodes \ {i - 1}) /\ IsInjective(g[i]) /\ Len(g[i]) <= Slack  BY <2>3, <4>2
      <4> QED BY <4>2, <4>3, <4>4
    <3>2. CASE l = max /\ ~(l < nd)
      <4>1. graph[l] = g[nd + 1]  BY <2>1, <2>3, <3>2 DEF Last
      <4>2. nd + 1 \in 1 .. nd + 1 /\ nd + 1 > nd /\ l \in Nodes  BY <1>2, <1>4, <3>2
      <4> QED BY <2>3, <3>2, <4>1, <4>2
    <3>3. CASE l # max /\ ~(l < nd)
      <4>1. graph[l] = << >>  BY <2>1, <3>3
      <4> QED BY <1>6, <4>1, MemAssumption
    <3> QED BY <3>1, <3>2, <3>3
  <2>5. GraphClosed  BY <2>1, <2>4 DEF GraphClosed
  <2>6. DegreeBounded  BY <2>1, <2>4 DEF DegreeBounded
  <2>7. VectorsInPlace
    <3>1. \A i \in 1 .. nd : start.points[i] \in Tags  BY <2>1, <2>2, ElementOfSeq
    <3>2. \A l \in 0 .. max : l < nd => l + 1 \in 1 .. nd  BY <1>2
    <3>3. \A l \in 0 .. max : point[l] \in Points \cup {None}  BY <2>1, <3>1, <3>2 DEF Points
    <3>4. \A l \in Nodes : l \in 0 .. max /\ (l < nd \/ l = max)  BY <1>2, <1>4
    <3>5. \A l \in Nodes : point[l] \in Points  BY <2>1, <3>1, <3>2, <3>4 DEF Points
    <3>6. \A l \in 0 .. nd - 1 : l \in 0 .. max /\ l < nd  BY <1>2
    <3>7. \A l \in DOMAIN locTag : point[l] = locTag[l]  BY <2>1, <3>6
    <3> QED BY <3>3, <3>5, <3>7 DEF VectorsInPlace
  <2> QED BY <1>5, <2>5, <2>6, <2>7 DEF ListsInv
<1> QED BY <1>7, <1>8 DEF Init

(* Every step keeps the lists and what the calls know of them. *)
LEMMA ListsKeep ==
    ASSUME MapsInv, ListsInv, [Next]_memVars, ~lost'
    PROVE  ListsInv'
<1>1. CASE UNCHANGED memVars
  <2>1. UNCHANGED <<max, nd, point, graph, locTag, phase, inserts, next, th>>
    BY <1>1 DEF memVars, mapVars, slotVars, nodeVars, restVars
  <2>2. Nodes' = Nodes  BY <2>1 DEF Nodes, Pending
  <2>3. GraphClosed' /\ VectorsInPlace' /\ DegreeBounded'  BY <2>1, <2>2, ListsStay
  <2>4. PhaseKnown'  BY <2>1 DEF ListsInv, PhaseKnown, Linking
  <2>5. ASSUME NEW u \in Threads PROVE CallHolds(u)'
    <3>1. CallHolds(u) /\ th'[u] = th[u]  BY <2>1 DEF ListsInv
    <3>2. Nodes \subseteq Int /\ nd \in Int  BY NodeTypes
    <3> QED BY <2>1, <2>2, <3>1, <3>2, CallHoldsOn
  <2> QED BY <2>3, <2>4, <2>5 DEF ListsInv
<1>2. ASSUME NEW t \in Threads, Begin(t) PROVE ListsInv'
  BY <1>2, InsertDeleteLists, SearchLists DEF Begin
<1>3. ASSUME NEW t \in Threads, Finish(t) PROVE ListsInv'
  BY <1>3, WalkLists, AssignLists, BackLinkLists, ShrinkLists, LinkedLists, MarkForgetUnlinkLists,
     ReserveAgainLists, GrowLists, PlaceLists, FillLists, CollectLists, TranslateLists, ReturnLists
     DEF Finish
<1>4. ASSUME NEW t \in Threads, LinkNode(t) \/ Consolidate(t) PROVE ListsInv'
  BY <1>4, LinkNodeLists, ConsolidateLists
<1> QED BY <1>1, <1>2, <1>3, <1>4, CleanupLists, DeleteAllLists, SaveAndLoadLists DEF Next

(* With as many threads as there are, in every interleaving of build,       *)
(* insertions, deletions, searches, growth, compaction, saves and loads:    *)
(* no edge leads to a location without a node, lists stay bounded, and what *)
(* a call remembers of the graph stays true while others run, until a save  *)
(* of an index with room leaves behind a frozen point without neighbours;   *)
(* the maps and the slots stay consistent after that too.                   *)
THEOREM MemInvariant == Spec => []MemInv
<1>1. Init => MemInv  BY InitKeeps, InitLists DEF MemInv
<1>2. ASSUME MemInv, [Next]_memVars PROVE MemInv'
  <2>1. MapsInv'  BY <1>2, NextKeeps DEF MemInv
  <2>2. lost' \/ ListsInv'
    <3>1. CASE lost  BY <1>2, <3>1, LostStays
    <3>2. CASE ListsInv  BY <1>2, <3>2, ListsKeep DEF MemInv
    <3> QED BY <1>2, <3>1, <3>2 DEF MemInv
  <2> QED BY <2>1, <2>2 DEF MemInv
<1> QED BY <1>1, <1>2, PTL DEF Spec

(* search_with_tags: a tag that is returned is the tag of the vector that   *)
(* the walk measured, although the translation comes after _update_lock was *)
(* released.                                                                *)
THEOREM ResultsStayMatched == Spec => []ResultsMatch
<1>1. MemInv => ResultsMatch  BY DEF MemInv, ListsInv, CallHolds, ResultsMatch
<1> QED BY <1>1, MemInvariant, PTL

-----------------------------------------------------------------------------
(* The crash() calls. *)

(* What a call that grew the index, or found it grown, saw under the lock:  *)
(* at least one slot was free.                                              *)
Promised(t) ==
    /\ {"since", "room"} \subseteq DOMAIN th[t]
    /\ th[t].since \in Nat /\ th[t].room \in Nat
    /\ th[t].room > 0 \/ max < 2

(* Locations are only taken and slots only added while such a call runs, so *)
(* when it finds none, all that were free then have been taken.             *)
SlotsKnown ==
    \A t \in Threads :
        /\ th[t].pc \in {"again", "crashed"} => Promised(t)
        /\ th[t].pc = "again" => th[t].since + th[t].room <= max
        /\ th[t].pc = "crashed" => nd - th[t].since >= th[t].room

(* A step of one call: locations are taken, or slots added. *)
LEMMA SlotsStep ==
    ASSUME MapsInv, SlotsKnown, NEW t \in Threads, OthersWait(t),
           max' \in Nat, max <= max', max < 2 => max' < 2, nd' \in Nat, nd <= nd',
           th'[t].pc \in {"again", "crashed"} => Promised(t)',
           th'[t].pc = "again" => th'[t].since + th'[t].room <= max',
           th'[t].pc = "crashed" => nd' - th'[t].since >= th'[t].room
    PROVE  SlotsKnown'
<1>1. max \in Nat /\ nd \in Nat  BY NodeTypes
<1>2. ASSUME NEW u \in Threads \ {t}
      PROVE  /\ th'[u].pc \in {"again", "crashed"} => Promised(u)'
             /\ th'[u].pc = "again" => th'[u].since + th'[u].room <= max'
             /\ th'[u].pc = "crashed" => nd' - th'[u].since >= th'[u].room
  <2>1. th'[u] = th[u]  BY DEF OthersWait
  <2>2. th[u].pc \in {"again", "crashed"} => Promised(u)  BY DEF SlotsKnown
  <2>3. Promised(u) => Promised(u)'  BY <1>1, <2>1 DEF Promised
  <2>4. ASSUME th[u].pc = "again" PROVE th[u].since + th[u].room <= max'
    <3>1. th[u].since + th[u].room <= max /\ th[u].since \in Nat /\ th[u].room \in Nat
      BY <2>2, <2>4 DEF SlotsKnown, Promised
    <3> QED BY <1>1, <3>1
  <2>5. ASSUME th[u].pc = "crashed" PROVE nd' - th[u].since >= th[u].room
    <3>1. nd - th[u].since >= th[u].room /\ th[u].since \in Nat /\ th[u].room \in Nat
      BY <2>2, <2>5 DEF SlotsKnown, Promised
    <3> QED BY <1>1, <3>1
  <2> QED BY <2>1, <2>2, <2>3, <2>4, <2>5
<1> QED BY <1>2 DEF SlotsKnown

(* reserve_location, at the first attempt and at the second.                *)
LEMMA TakeSlots ==
    ASSUME MapsInv, SlotsKnown, NEW t \in Threads, Reserve(t) \/ Again(t)
    PROVE  /\ SlotsKnown' /\ OthersWait(t) /\ nd' \in {nd, nd + 1}
           /\ th'[t].pc \in {"grow", "crashed", "place"}
<1>1. max \in Nat /\ nd \in Nat /\ nd <= max  BY NodeTypes
<1>2. MapTypeOK /\ CallTypeOK(t) /\ max' = max  BY DEF MapsInv, MapTypeOK, Reserve, Again
<1>3. CASE Go(t, "grow") /\ nd' = nd
  <2>1. OthersWait(t) /\ th'[t].pc = "grow"  BY <1>2, <1>3, Went DEF OthersWait
  <2>2. SlotsKnown'  BY <1>1, <1>2, <1>3, <2>1, SlotsStep
  <2> QED BY <1>3, <2>1, <2>2
<1>4. CASE Take(t)
  <2> DEFINE r == [pc |-> "place", tag |-> th[t].tag, loc |-> nd]
  <2>1. th' = [th EXCEPT ![t] = r] /\ nd' = nd + 1  BY <1>4 DEF Take
  <2>2. r.pc = "place"  OBVIOUS
  <2> HIDE DEF r
  <2>3. OthersWait(t) /\ th'[t] = r  BY <1>2, <2>1, Became DEF OthersWait
  <2>4. SlotsKnown'  BY <1>1, <1>2, <2>1, <2>2, <2>3, SlotsStep
  <2> QED BY <2>1, <2>2, <2>3, <2>4
<1>5. CASE th[t].pc = "again" /\ nd >= max /\ Go(t, "crashed") /\ nd' = nd
  <2>1. /\ OthersWait(t) /\ th'[t].pc = "crashed" /\ DOMAIN th'[t] = DOMAIN th[t]
        /\ \A f \in DOMAIN th[t] : f # "pc" => th'[t][f] = th[t][f]
    BY <1>2, <1>5, Went DEF OthersWait
  <2>2. Promised(t) /\ th[t].since + th[t].room <= max  BY <1>5 DEF SlotsKnown
  <2>3. th'[t].since = th[t].since /\ th'[t].room = th[t].room  BY <2>1, <2>2 DEF Promised
  <2>4. Promised(t)'  BY <1>2, <2>1, <2>2, <2>3 DEF Promised
  <2>5. nd' - th'[t].since >= th'[t].room
    <3>1. th[t].since \in Nat /\ th[t].room \in Nat  BY <2>2 DEF Promised
    <3> QED BY <1>1, <1>5, <2>2, <2>3, <3>1
  <2>6. SlotsKnown'  BY <1>1, <1>2, <1>5, <2>1, <2>4, <2>5, SlotsStep
  <2> QED BY <1>5, <2>1, <2>6
<1> QED BY <1>3, <1>4, <1>5 DEF Reserve, Again

(* resize: when the lock is released there is a free slot, but in an index  *)
(* of less than two locations.                                              *)
LEMMA GrowSlots ==
    ASSUME MapsInv, SlotsKnown, NEW t \in Threads, Grow(t)
    PROVE  SlotsKnown' /\ OthersWait(t) /\ th'[t].pc = "again" /\ nd' = nd
<1>1. /\ Released(t) /\ nd' = nd
      /\ \/ nd >= max /\ max' = (max * 3) \div 2
         \/ ~(nd >= max) /\ max' = max
  BY DEF Grow, Resize
<1>2. max \in Nat /\ nd \in Nat /\ nd <= max /\ MapTypeOK  BY NodeTypes DEF MapsInv
<1>3. max' \in Nat /\ max <= max' /\ (max < 2 => max' < 2) /\ (max' > nd \/ max' < 2)
  BY <1>1, <1>2
<1>4. /\ OthersWait(t) /\ th'[t].pc = "again" /\ DOMAIN th'[t] = {"pc", "tag", "since", "room"}
      /\ th'[t].since = nd /\ th'[t].room = max' - nd
  BY <1>1, <1>2, Relieved DEF OthersWait
<1>5. th'[t].since \in Nat /\ th'[t].room \in Nat /\ (th'[t].room > 0 \/ max' < 2)
      /\ th'[t].since + th'[t].room <= max'
  BY <1>2, <1>3, <1>4
<1>6. Promised(t)'  BY <1>4, <1>5 DEF Promised
<1>7. SlotsKnown'  BY <1>1, <1>2, <1>3, <1>4, <1>5, <1>6, SlotsStep
<1> QED BY <1>1, <1>4, <1>7

-----------------------------------------------------------------------------
(* compact_data finds no edge to a location that has no tag: numbers only   *)
(* get smaller, and every edge leads to a tagged location or the entry.     *)
LEMMA NeverDangling ==
    ASSUME MapsInv, ListsInv, NEW t \in Threads, Consolidate(t)
    PROVE  UNCHANGED th
<1> DEFINE D     == DOMAIN locTag
           Cleaned == [ l \in DOMAIN graph |->
                        IF l \in deleteSet \cup emptySlots THEN graph[l] ELSE Bridged(l) ]
<1>1. Alone /\ \A u \in Threads : th[u].pc = "idle"  BY DEF Consolidate, Alone
<1>2. MapTypeOK /\ SlotsCounted /\ GraphClosed  BY DEF MapsInv, ListsInv
<1>3. D \cup deleteSet = 0 .. nd - 1 /\ D \cap deleteSet = {}  BY <1>1, Quiet
<1>4. max \in Nat /\ nd \in Nat /\ nd <= max /\ emptySlots = nd .. max - 1 /\ D \subseteq 0 .. nd - 1
  BY <1>2 DEF MapTypeOK, SlotsCounted
<1>5. Nodes \ deleteSet = D \cup {max}
  <2>1. Pending = {}  BY <1>1 DEF Pending
  <2>2. Nodes = 0 .. nd - 1 \cup {max}  BY <2>1 DEF Nodes
  <2>3. max \notin deleteSet /\ max \notin 0 .. nd - 1  BY <1>3, <1>4
  <2> HIDE DEF D
  <2> QED BY <1>3, <2>2, <2>3
<1>6. ASSUME NEW a \in D \cup {max} PROVE NewLocation(a) \in Int /\ NewLocation(a) <= a
  <2>1. CASE a = max  BY <1>4, <2>1 DEF NewLocation
  <2>2. CASE a # max
    <3> DEFINE S == { m \in D : m < a }
    <3>1. a \in D /\ a \in Nat /\ NewLocation(a) = Cardinality(S)  BY <1>4, <2>2 DEF NewLocation
    <3>2. S \subseteq 0 .. a - 1  BY <1>4
    <3> HIDE DEF S
    <3>3. IsFiniteSet(0 .. a - 1) /\ Cardinality(0 .. a - 1) = IF 0 > a - 1 THEN 0 ELSE a - 1 - 0 + 1
      BY <3>1, FS_Interval
    <3>4. IsFiniteSet(S) /\ Cardinality(S) <= Cardinality(0 .. a - 1)  BY <3>2, <3>3, FS_Subset
    <3>5. Cardinality(S) \in Nat /\ Cardinality(0 .. a - 1) = a  BY <3>1, <3>3, <3>4, FS_CardinalityType
    <3> QED BY <3>1, <3>4, <3>5
  <2> QED BY <2>1, <2>2
<1>7. ASSUME NEW o \in D \cup {max} PROVE \A i \in DOMAIN Cleaned[o] : Cleaned[o][i] \in D \cup {max}
  <2>1. o \in Nodes /\ o \notin deleteSet /\ o \in 0 .. max  BY <1>4, <1>5
  <2>2. o \notin emptySlots /\ o \in DOMAIN graph  BY <1>2, <1>4, <2>1 DEF GraphClosed
  <2> DEFINE r == Bridged(o)
             A == (Nodes \ deleteSet) \ {o}
  <2>3. Cleaned[o] = r  BY <2>1, <2>2
  <2>4. r \in Seq(A)  BY <2>1, BridgedList
  <2> HIDE DEF r, Cleaned, A
  <2>5. \A i \in DOMAIN r : r[i] \in A  BY <2>4, LenProperties, ElementOfSeq
  <2> QED BY <1>5, <2>3, <2>5 DEF A
<1> HIDE DEF Cleaned
<1>8. ~Dangling(Cleaned)
  <2> SUFFICES ASSUME NEW l \in D \cup {max}, NEW i \in DOMAIN Cleaned[l]
               PROVE  ~(NewLocation(Cleaned[l][i]) > Cleaned[l][i])
    BY DEF Dangling
  <2> DEFINE a == Cleaned[l][i]
  <2>1. a \in D \cup {max} /\ a \in Int  BY <1>4, <1>7
  <2> HIDE DEF a
  <2>2. NewLocation(a) \in Int /\ NewLocation(a) <= a  BY <1>6, <2>1
  <2>3. ~(NewLocation(a) > a)  BY <2>1, <2>2
  <2> QED BY <2>3 DEF a
<1>9. ~Beyond  BY <1>2, NothingBeyond
<1>10. \E lists \in {Cleaned} : Beyond \/ Dangling(lists) \/ UNCHANGED <<max, th>>
  <2>1. Cleaned = [ l \in DOMAIN graph |->
                      IF Beyond \/ l \in deleteSet \cup emptySlots THEN graph[l] ELSE Bridged(l) ]
    BY <1>9 DEF Cleaned
  <2> QED BY Zenon, <2>1 DEF Consolidate
<1> QED BY <1>8, <1>9, <1>10

-----------------------------------------------------------------------------
(* While build links, the entry has a neighbour before it is linked itself. *)

(* A call whose node will be a neighbour of the entry. *)
BringsEntry(t) ==
    /\ th[t].pc = "walk" => DOMAIN th[t].at = {max}
    /\ th[t].pc = "assign" => th[t].expanded = {max}
    /\ th[t].pc \in {"link", "shrink"} => max \in Range(th[t].todo)

(* A call that links the entry and has a candidate for its list. *)
FindsOther(t) ==
    /\ graph[max] # << >>
    /\ th[t].pc = "walk" => th[t].expanded = {} \/ DOMAIN th[t].at # {max}
    /\ th[t].pc = "assign" => th[t].expanded # {max}

(* Until the entry has a neighbour, every node that was taken to be linked  *)
(* is still held by a thread, and it will be one.                           *)
EntryLinked ==
    /\ phase = "link" =>
          /\ max = Len(ToLink)
          /\ \A t \in Threads : Linking(t) /\ th[t].loc = max => FindsOther(t)
          /\ graph[max] = << >> =>
                /\ \A t \in Threads : Linking(t) => BringsEntry(t)
                /\ \A l \in 0 .. next - 1 : \E t \in Threads : Linking(t) /\ th[t].loc = l
    /\ phase # "link" => \A t \in Threads : Linking(t) => th[t].loc < nd

(* A step of a call that build made. *)
LEMMA BuildStep ==
    ASSUME EntryLinked, NEW t \in Threads, OthersWait(t), phase = "link",
           UNCHANGED <<max, phase, next>>, Linking(t),
           graph'[max] = << >> => graph[max] = << >>,
           Linking(t)' => th'[t].loc = th[t].loc,
           ~Linking(t)' => graph'[max] # << >>,
           graph'[max] = << >> /\ Linking(t)' => BringsEntry(t)',
           Linking(t)' /\ th[t].loc = max => FindsOther(t)'
    PROVE  EntryLinked'
<1>1. /\ max = Len(ToLink)
      /\ \A u \in Threads : Linking(u) /\ th[u].loc = max => FindsOther(u)
      /\ graph[max] = << >> =>
            /\ \A u \in Threads : Linking(u) => BringsEntry(u)
            /\ \A l \in 0 .. next - 1 : \E u \in Threads : Linking(u) /\ th[u].loc = l
  BY DEF EntryLinked
<1>2. \A u \in Threads \ {t} : th'[u] = th[u] /\ (Linking(u)' <=> Linking(u))
  BY DEF OthersWait, Linking
<1>3. ASSUME NEW u \in Threads, Linking(u)', th'[u].loc = max' PROVE FindsOther(u)'
  <2>1. CASE u = t  BY <1>3, <2>1
  <2>2. CASE u # t
    <3>1. FindsOther(u) /\ th'[u] = th[u]  BY <1>1, <1>2, <1>3, <2>2
    <3> QED BY <3>1 DEF FindsOther
  <2> QED BY <2>1, <2>2
<1>4. ASSUME graph'[max] = << >>, NEW u \in Threads, Linking(u)' PROVE BringsEntry(u)'
  <2>1. CASE u = t  BY <1>4, <2>1
  <2>2. CASE u # t
    <3>1. BringsEntry(u) /\ th'[u] = th[u]  BY <1>1, <1>2, <1>4, <2>2
    <3> QED BY <3>1 DEF BringsEntry
  <2> QED BY <2>1, <2>2
<1>5. ASSUME graph'[max] = << >>, NEW l \in 0 .. next - 1
      PROVE  \E u \in Threads : Linking(u)' /\ th'[u].loc = l
  <2>1. PICK u \in Threads : Linking(u) /\ th[u].loc = l  BY <1>1, <1>5
  <2>2. CASE u = t  BY <1>5, <2>1, <2>2
  <2>3. CASE u # t  BY <1>2, <2>1, <2>3
  <2> QED BY <2>2, <2>3
<1> QED BY <1>1, <1>3, <1>4, <1>5 DEF EntryLinked

(* Else a call links only a location in front of _nd. *)
LEMMA CallsStep ==
    ASSUME EntryLinked, NEW t \in Threads, OthersWait(t), phase # "link", phase' = phase,
           nd \in Int, nd' \in Int, nd <= nd', \A u \in Threads : Linking(u) => th[u].loc \in Int,
           Linking(t)' => th'[t].loc \in Int /\ th'[t].loc < nd'
    PROVE  EntryLinked'
<1>1. \A u \in Threads : Linking(u) => th[u].loc < nd  BY DEF EntryLinked
<1>2. ASSUME NEW u \in Threads, Linking(u)' PROVE th'[u].loc < nd'
  <2>1. CASE u = t  BY <1>2, <2>1
  <2>2. CASE u # t
    <3>1. Linking(u) /\ th'[u] = th[u]  BY <1>2, <2>2 DEF OthersWait, Linking
    <3>2. th[u].loc < nd /\ th[u].loc \in Int  BY <1>1, <3>1
    <3> QED BY <3>1, <3>2
  <2> QED BY <2>1, <2>2
<1> QED BY <1>2 DEF EntryLinked

(* A step of a call that links, whatever the phase. *)
LEMMA LinkStep ==
    ASSUME MapsInv, ListsInv, EntryLinked, NEW t \in Threads, OthersWait(t), Linking(t),
           UNCHANGED <<max, nd, phase, next>>,
           Linking(t)' => th'[t].loc = th[t].loc,
           graph'[max] = << >> => graph[max] = << >>,
           phase = "link" /\ ~Linking(t)' => graph'[max] # << >>,
           phase = "link" /\ graph'[max] = << >> /\ Linking(t)' => BringsEntry(t)',
           phase = "link" /\ Linking(t)' /\ th[t].loc = max => FindsOther(t)'
    PROVE  EntryLinked'
<1>1. CASE phase = "link"  BY <1>1, BuildStep
<1>2. CASE phase # "link"
  <2>1. nd \in Int /\ Nodes \subseteq Int  BY NodeTypes
  <2>2. \A u \in Threads : Linking(u) => th[u].loc \in Int  BY <2>1 DEF ListsInv, CallHolds
  <2>3. Linking(t)' => th'[t].loc \in Int /\ th'[t].loc < nd'  BY <1>2, <2>2 DEF EntryLinked
  <2> QED BY <1>2, <2>1, <2>2, <2>3, CallsStep
<1> QED BY <1>1, <1>2

(* iterate_to_fixed_point: the entry's neighbours are measured with it.     *)
LEMMA WalkEntry ==
    ASSUME L >= 2, MapsInv, ListsInv, EntryLinked, NEW t \in Threads, WalkStep(t)
    PROVE  /\ EntryLinked' /\ OthersWait(t) /\ th'[t].pc \in {"walk", "assign", "collect"}
           /\ UNCHANGED <<max, nd, inserts, calls>>
<1> DEFINE D    == DOMAIN th[t].at
           rest == Kept(Best(t), D \ th[t].expanded)
<1>1. /\ UNCHANGED <<slotVars, nodeVars, next, restVars>> /\ th[t].pc = "walk"
  BY DEF WalkStep
<1>2. /\ MapTypeOK /\ CallTypeOK(t) /\ WalkHolds(t) /\ VectorsInPlace /\ GraphClosed
      /\ CallHolds(t)
  BY <1>1 DEF MapsInv, MapTypeOK, ListsInv, CallHolds
<1>3. UNCHANGED <<max, nd, point, graph, phase, inserts, calls, next>>
  BY <1>1 DEF slotVars, nodeVars, restVars
<1>4. \/ rest = << >> /\ Go(t, th[t].then)
      \/ /\ rest # << >>
         /\ th' = [th EXCEPT ![t].expanded = @ \cup {rest[1]}, ![t].at = Measured(@, rest[1])]
  BY WalkGoesOn DEF WalkStep
<1>5. /\ rest # << >> => rest[1] \in D \ th[t].expanded
      /\ rest = << >> => th[t].expanded # {} /\ Range(Best(t)) \subseteq th[t].expanded
  BY <1>2, NextToExpand
<1> HIDE DEF rest
<1>6. th[t].then \in {"assign", "collect"} /\ {"pc", "tag", "loc", "then"} \subseteq DOMAIN th[t]
  BY <1>1, <1>2 DEF CallTypeOK
<1>7. {"query", "at", "expanded", "loc", "then"} \subseteq DOMAIN th[t] /\ max \in D /\ D \subseteq Nodes
      /\ th[t].expanded \subseteq D
  BY <1>2 DEF WalkHolds, Ep
<1>8. CASE rest = << >>
  <2>1. Go(t, th[t].then)  BY <1>4, <1>8
  <2>2. /\ OthersWait(t) /\ th'[t].pc = th[t].then /\ DOMAIN th'[t] = DOMAIN th[t]
        /\ \A f \in DOMAIN th[t] : f # "pc" => th'[t][f] = th[t][f]
    BY <1>2, <2>1, Went DEF OthersWait
  <2>3. th'[t].expanded = th[t].expanded /\ th'[t].loc = th[t].loc /\ th'[t].then = th[t].then
    BY <1>7, <2>2
  <2>4. Linking(t)' <=> Linking(t)  BY <1>1, <1>6, <2>2, <2>3 DEF Linking
  <2>5. CASE Linking(t)
    <3>1. th'[t].pc = "assign"  BY <1>1, <2>2, <2>5 DEF Linking
    <3>2. th[t].expanded # {} /\ Range(Best(t)) \subseteq th[t].expanded  BY <1>5, <1>8
    <3>3. ASSUME phase = "link", graph[max] = << >> PROVE BringsEntry(t)'
      <4>1. D = {max}  BY <1>1, <2>5, <3>3 DEF EntryLinked, BringsEntry
      <4>2. th[t].expanded = {max}  BY <1>7, <3>2, <4>1
      <4> QED BY <1>3, <2>3, <3>1, <4>2 DEF BringsEntry
    <3>4. ASSUME phase = "link", th[t].loc = max PROVE FindsOther(t)'
      <4>1. FindsOther(t)  BY <2>5, <3>4 DEF EntryLinked
      <4>2. graph[max] # << >> /\ D # {max}  BY <1>1, <3>2, <4>1 DEF FindsOther
      <4>3. th[t].expanded # {max}
        <5> DEFINE best == Best(t)
                   c    == Cardinality(D)
        <5>1. /\ best \in Seq(D) /\ IsInjective(best) /\ c \in Nat
              /\ Len(best) = IF c < L THEN c ELSE L
          BY <1>2, BestList
        <5>2. c >= 2
          <6>1. PICK n \in D : n # max  BY <1>7, <4>2
          <6>2. IsFiniteSet(D)  BY <1>7, NodeTypes, FS_Subset
          <6> DEFINE S == {max}
          <6>3. IsFiniteSet(S) /\ Cardinality(S) = 1 /\ n \notin S  BY <6>1, FS_Singleton
          <6> HIDE DEF S
          <6>4. Cardinality(S \cup {n}) = 2  BY <6>3, FS_AddElement
          <6> USE DEF S
          <6>5. Cardinality({max} \cup {n}) <= c
            <7>1. {max} \cup {n} \subseteq D  BY <1>7, <6>1
            <7> HIDE DEF D
            <7> QED BY <6>2, <7>1, FS_Subset
          <6> QED BY <5>1, <6>4, <6>5
        <5> HIDE DEF c
        <5>3. Len(best) >= 2 /\ Len(best) \in Nat  BY <5>1, <5>2, MemAssumption
        <5> HIDE DEF best
        <5>4. DOMAIN best = 1 .. Len(best)  BY <5>1, LenProperties
        <5>5. 1 \in DOMAIN best /\ 2 \in DOMAIN best  BY <5>3, <5>4
        <5>6. best[1] # best[2]  BY <5>1, <5>5 DEF IsInjective
        <5>7. best[1] \in Range(best) /\ best[2] \in Range(best)  BY <5>5 DEF Range
        <5>8. Range(best) \subseteq th[t].expanded  BY <3>2 DEF best
        <5> QED BY <5>6, <5>7, <5>8
      <4> QED BY <1>3, <2>3, <3>1, <4>2, <4>3 DEF FindsOther
    <3>5. EntryLinked'  BY <1>3, <2>2, <2>3, <2>4, <2>5, <3>3, <3>4, LinkStep
    <3> QED BY <1>3, <2>2, <3>1, <3>5
  <2>6. CASE ~Linking(t)
    <3>1. phase # "link"  BY <1>1, <2>6 DEF ListsInv, PhaseKnown
    <3>2. nd \in Int /\ Nodes \subseteq Int /\ nd <= nd  BY NodeTypes
    <3>3. \A u \in Threads : Linking(u) => th[u].loc \in Int  BY <3>2 DEF ListsInv, CallHolds
    <3>4. EntryLinked'  BY <1>3, <2>2, <2>4, <2>6, <3>1, <3>2, <3>3, CallsStep
    <3> QED BY <1>3, <1>6, <2>2, <3>4
  <2> QED BY <2>5, <2>6
<1>9. CASE rest # << >>
  <2> DEFINE n == rest[1]
  <2>1. th' = [th EXCEPT ![t].expanded = @ \cup {n}, ![t].at = Measured(@, n)]  BY <1>4, <1>9
  <2>2. n \in D \ th[t].expanded  BY <1>5, <1>9
  <2> HIDE DEF n
  <2>3. /\ OthersWait(t)
        /\ th'[t].expanded = th[t].expanded \cup {n} /\ th'[t].at = Measured(th[t].at, n)
        /\ th'[t].loc = th[t].loc /\ th'[t].then = th[t].then /\ th'[t].pc = "walk"
    BY <1>1, <1>2, <1>6, <1>7, <2>1 DEF OthersWait, MapTypeOK
  <2>4. DOMAIN th'[t].at = D \cup Range(graph[n])  BY <2>3 DEF Measured
  <2>5. Linking(t)' <=> Linking(t)  BY <1>1, <2>3 DEF Linking
  <2>6. CASE Linking(t)
    <3>1. ASSUME phase = "link", graph[max] = << >> PROVE BringsEntry(t)'
      <4>1. D = {max}  BY <1>1, <2>6, <3>1 DEF EntryLinked, BringsEntry
      <4>2. n = max /\ Range(graph[n]) = {}  BY <2>2, <3>1, <4>1 DEF Range
      <4> QED BY <1>3, <2>3, <2>4, <4>1, <4>2 DEF BringsEntry
    <3>2. ASSUME phase = "link", th[t].loc = max PROVE FindsOther(t)'
      <4>1. FindsOther(t)  BY <2>6, <3>2 DEF EntryLinked
      <4>2. graph[max] # << >> /\ (th[t].expanded = {} \/ D # {max})  BY <1>1, <4>1 DEF FindsOther
      <4>3. D \cup Range(graph[n]) # {max}
        <5>1. CASE D # {max}  BY <1>7, <5>1
        <5>2. CASE th[t].expanded = {}
          <6>1. n = max  BY <1>1, <1>2, <2>2, <5>2 DEF WalkHolds, Ep
          <6>2. graph[max] \in Seq(Nodes \ {max})  BY <1>2, NodeTypes DEF GraphClosed
          <6>3. graph[max][1] \in Nodes \ {max} /\ 1 \in DOMAIN graph[max]  BY <4>2, <6>2
          <6>4. graph[max][1] \in Range(graph[n])  BY <6>1, <6>3 DEF Range
          <6> QED BY <6>3, <6>4
        <5> QED BY <4>2, <5>1, <5>2
      <4> QED BY <1>3, <2>3, <2>4, <4>2, <4>3 DEF FindsOther
    <3>3. EntryLinked'  BY <1>3, <2>3, <2>5, <2>6, <3>1, <3>2, LinkStep
    <3> QED BY <1>3, <2>3, <3>3
  <2>7. CASE ~Linking(t)
    <3>1. phase # "link"  BY <1>1, <2>7 DEF ListsInv, PhaseKnown
    <3>2. nd \in Int /\ Nodes \subseteq Int /\ nd <= nd  BY NodeTypes
    <3>3. \A u \in Threads : Linking(u) => th[u].loc \in Int  BY <3>2 DEF ListsInv, CallHolds
    <3>4. EntryLinked'  BY <1>3, <2>3, <2>5, <2>7, <3>1, <3>2, <3>3, CallsStep
    <3> QED BY <1>3, <2>3, <3>4
  <2> QED BY <2>6, <2>7
<1> QED BY <1>4, <1>8, <1>9

(* prune_neighbors gets a candidate; the only one is the entry, unless the  *)
(* entry has a neighbour.                                                   *)
LEMMA AssignEntry ==
    ASSUME MapsInv, ListsInv, EntryLinked, NEW t \in Threads, Assign(t)
    PROVE  /\ EntryLinked' /\ OthersWait(t) /\ th'[t].pc = "link"
           /\ UNCHANGED <<max, nd, inserts, calls>>
<1> DEFINE loc == th[t].loc
           ids == th[t].expanded \ {loc}
           list == Prune(loc, ids)
<1>1. th[t].pc = "assign" /\ UNCHANGED <<slotVars, mapVars, point, next, restVars>>  BY DEF Assign
<1>2. Linking(t)  BY <1>1 DEF Linking
<1>3. /\ MapTypeOK /\ CallHolds(t) /\ CallTypeOK(t) /\ VectorsInPlace /\ GraphClosed
      /\ loc \in Nodes /\ {"pc", "tag", "loc"} \subseteq DOMAIN th[t]
  BY <1>2, LinkingKnows
<1>4. UNCHANGED <<max, nd, phase, inserts, calls, next>>  BY <1>1 DEF slotVars, restVars
<1>5. th[t].expanded \subseteq Nodes /\ max \in th[t].expanded
  <2>1. WalkHolds(t)  BY <1>1, <1>3 DEF CallHolds
  <2> QED BY <1>1, <2>1 DEF WalkHolds, Ep
<1>6. nd \in Nat /\ max \in Nat /\ nd <= max  BY NodeTypes
<1>7. ids # {}
  <2>1. CASE phase = "link"
    <3>1. loc = max => th[t].expanded # {max}  BY <1>1, <1>2, <2>1 DEF EntryLinked, FindsOther
    <3> QED BY <1>5, <3>1
  <2>2. CASE phase # "link"
    <3>1. loc < nd  BY <1>2, <2>2 DEF EntryLinked
    <3>2. loc # max  BY <1>6, <3>1
    <3> QED BY <1>5, <3>2
  <2> QED BY <2>1, <2>2
<1>8. /\ graph' = [graph EXCEPT ![loc] = list]
      /\ th' = [th EXCEPT ![t] = [pc |-> "link", tag |-> @.tag, loc |-> @.loc, todo |-> list]]
  BY <1>7 DEF Assign
<1>9. list \in Seq(Nodes \ {loc}) /\ Range(list) \subseteq ids /\ list # << >>
  <2>1. ids \subseteq Nodes \ {loc}  BY <1>5
  <2> HIDE DEF ids
  <2> QED BY <1>3, <1>7, <2>1, PruneList
<1> HIDE DEF list
<1>10. OthersWait(t) /\ th'[t] = [pc |-> "link", tag |-> th[t].tag, loc |-> loc, todo |-> list]
  BY <1>3, <1>8 DEF MapTypeOK, OthersWait
<1>11. th'[t].pc = "link" /\ th'[t].loc = th[t].loc /\ th'[t].todo = list  BY <1>10
<1>12. graph'[max] = IF loc = max THEN list ELSE graph[max]
  <2>1. max \in DOMAIN graph  BY <1>3, <1>6 DEF GraphClosed
  <2> QED BY <1>8, <2>1
<1>13. graph'[max] = << >> => graph[max] = << >> /\ loc # max  BY <1>9, <1>12
<1>14. ASSUME phase = "link", graph'[max] = << >> PROVE BringsEntry(t)'
  <2>1. th[t].expanded = {max} /\ loc # max  BY <1>1, <1>2, <1>13, <1>14 DEF EntryLinked, BringsEntry
  <2>2. Range(list) \subseteq {max}  BY <1>9, <2>1
  <2>3. list[1] \in Range(list)
    <3>1. DOMAIN list = 1 .. Len(list) /\ Len(list) \in Nat /\ Len(list) # 0  BY <1>9, LenProperties, EmptySeq
    <3> QED BY <3>1 DEF Range
  <2>4. max \in Range(list)  BY <2>2, <2>3
  <2> QED BY <1>4, <1>11, <2>4 DEF BringsEntry
<1>15. ASSUME phase = "link", th[t].loc = max PROVE FindsOther(t)'
  <2>1. graph'[max] # << >>  BY <1>13, <1>15
  <2> QED BY <1>4, <1>11, <2>1 DEF FindsOther
<1>16. Linking(t)'  BY <1>11 DEF Linking
<1> QED BY <1>2, <1>4, <1>10, <1>11, <1>13, <1>14, <1>15, <1>16, LinkStep

(* What is not the first entry of a list is in the rest. *)
LEMMA InTail ==
    ASSUME NEW S, NEW s \in Seq(S), NEW x \in Range(s)
    PROVE  s # << >> /\ (x # Head(s) => x \in Range(Tail(s)))
<1>1. PICK i \in DOMAIN s : s[i] = x  BY DEF Range
<1>2. DOMAIN s = 1 .. Len(s) /\ Len(s) \in Nat  BY LenProperties
<1>3. s # << >>  BY <1>1, <1>2, EmptySeq
<1>4. ASSUME x # Head(s) PROVE x \in Range(Tail(s))
  <2>1. /\ Head(s) = s[1] /\ Tail(s) \in Seq(S) /\ Len(Tail(s)) = Len(s) - 1
        /\ \A j \in 1 .. Len(Tail(s)) : Tail(s)[j] = s[j + 1]
    BY <1>3, HeadTailProperties
  <2>2. i # 1 /\ i - 1 \in 1 .. Len(Tail(s))  BY <1>1, <1>2, <1>4, <2>1
  <2>3. DOMAIN Tail(s) = 1 .. Len(Tail(s))  BY <2>1, LenProperties
  <2>4. Tail(s)[i - 1] = x /\ i - 1 \in DOMAIN Tail(s)  BY <1>1, <1>2, <2>1, <2>2, <2>3
  <2> QED BY <2>4 DEF Range
<1> QED BY <1>3, <1>4

(* inter_insert: the entry gets its neighbour when its turn comes.          *)
LEMMA BackLinkEntry ==
    ASSUME MapsInv, ListsInv, EntryLinked, NEW t \in Threads, BackLink(t)
    PROVE  /\ EntryLinked' /\ OthersWait(t) /\ th'[t].pc \in {"link", "shrink"}
           /\ UNCHANGED <<max, nd, inserts, calls>>
<1> DEFINE loc  == th[t].loc
           todo == th[t].todo
           des  == Head(todo)
           rest == Tail(todo)
<1>1. th[t].pc = "link" /\ todo # << >> /\ UNCHANGED <<slotVars, mapVars, point, next, restVars>>
  BY DEF BackLink
<1>2. Linking(t)  BY <1>1 DEF Linking
<1>3. /\ MapTypeOK /\ CallHolds(t) /\ CallTypeOK(t) /\ GraphClosed
      /\ loc \in Nodes /\ {"pc", "tag", "loc"} \subseteq DOMAIN th[t]
  BY <1>2, LinkingKnows
<1>4. "todo" \in DOMAIN th[t] /\ todo \in Seq(Nodes \ {loc})  BY <1>1, <1>3 DEF CallHolds
<1>5. UNCHANGED <<max, nd, phase, inserts, calls, next>>  BY <1>1 DEF slotVars, restVars
<1>6. \/ loc \in Range(graph[des]) /\ th' = [th EXCEPT ![t].todo = rest] /\ UNCHANGED graph
      \/ /\ th' = [th EXCEPT ![t].todo = rest]
         /\ graph' = [graph EXCEPT ![des] = Append(@, loc)]
      \/ /\ th' = [th EXCEPT ![t] =
                     [pc |-> "shrink", tag |-> @.tag, loc |-> loc, todo |-> todo,
                      copy |-> Range(graph[des]) \cup {loc}]]
         /\ UNCHANGED graph
  BY DEF BackLink
<1>7. max \in DOMAIN graph /\ graph[max] \in Seq(Nodes \ {max})  BY <1>3, NodeTypes DEF GraphClosed
<1>8. max \in Range(todo) /\ des # max => max \in Range(rest)
  <2> DEFINE N == Nodes \ {loc}
  <2>1. todo \in Seq(N)  BY <1>4
  <2> HIDE DEF N, todo
  <2> QED BY <2>1, InTail
<1> HIDE DEF des, rest
<1>9. ASSUME phase = "link", graph[max] = << >> PROVE max \in Range(todo)
  BY <1>1, <1>2, <1>9 DEF EntryLinked, BringsEntry
<1>10. ASSUME phase = "link", loc = max PROVE graph[max] # << >>
  BY <1>2, <1>10 DEF EntryLinked, FindsOther
<1>11. ASSUME th' = [th EXCEPT ![t].todo = rest]
       PROVE  OthersWait(t) /\ th'[t].pc = "link" /\ th'[t].loc = loc /\ th'[t].todo = rest
  BY <1>1, <1>3, <1>4, <1>11 DEF MapTypeOK, OthersWait
<1>12. CASE loc \in Range(graph[des]) /\ th' = [th EXCEPT ![t].todo = rest] /\ UNCHANGED graph
  <2>1. OthersWait(t) /\ th'[t].pc = "link" /\ th'[t].loc = loc /\ th'[t].todo = rest  BY <1>11, <1>12
  <2>2. ASSUME phase = "link", graph[max] = << >> PROVE BringsEntry(t)'
    <3>1. des # max
      <4>1. Range(<< >>) = {}  BY DEF Range
      <4> QED BY <1>12, <2>2, <4>1
    <3> QED BY <1>5, <1>8, <1>9, <2>1, <2>2, <3>1 DEF BringsEntry
  <2>3. ASSUME phase = "link", loc = max PROVE FindsOther(t)'
    BY <1>5, <1>10, <1>12, <2>1, <2>3 DEF FindsOther
  <2>4. Linking(t)'  BY <2>1 DEF Linking
  <2> QED BY <1>2, <1>5, <1>12, <2>1, <2>2, <2>3, <2>4, LinkStep
<1>13. CASE th' = [th EXCEPT ![t].todo = rest] /\ graph' = [graph EXCEPT ![des] = Append(@, loc)]
  <2>1. OthersWait(t) /\ th'[t].pc = "link" /\ th'[t].loc = loc /\ th'[t].todo = rest  BY <1>11, <1>13
  <2>2. graph'[max] = << >> => graph[max] = << >> /\ des # max
    <3>1. CASE des = max
      <4> DEFINE s == graph[max]
                 N == Nodes \ {max}
      <4>1. s \in Seq(N) /\ graph'[max] = Append(s, loc)  BY <1>7, <1>13, <3>1
      <4> HIDE DEF s, N
      <4>2. Append(s, loc) # << >>
        <5>1. Append(s, loc) = s \o <<loc>> /\ s \in Seq(N \cup {loc})  BY <4>1
        <5>2. Len(Append(s, loc)) = Len(s) + 1 /\ Len(s) \in Nat  BY <5>1, AppendProperties, LenProperties
        <5> QED BY <5>2
      <4> QED BY <4>1, <4>2
    <3>2. CASE des # max  BY <1>7, <1>13, <3>2
    <3> QED BY <3>1, <3>2
  <2>3. ASSUME phase = "link", graph'[max] = << >> PROVE BringsEntry(t)'
    BY <1>5, <1>8, <1>9, <2>1, <2>2, <2>3 DEF BringsEntry
  <2>4. ASSUME phase = "link", loc = max PROVE FindsOther(t)'
    BY <1>5, <1>10, <2>1, <2>2, <2>4 DEF FindsOther
  <2>5. Linking(t)'  BY <2>1 DEF Linking
  <2> QED BY <1>2, <1>5, <2>1, <2>2, <2>3, <2>4, <2>5, LinkStep
<1>14. CASE /\ th' = [th EXCEPT ![t] =
                        [pc |-> "shrink", tag |-> @.tag, loc |-> loc, todo |-> todo,
                         copy |-> Range(graph[des]) \cup {loc}]]
            /\ UNCHANGED graph
  <2> DEFINE c == Range(graph[des]) \cup {loc}
  <2>1. OthersWait(t) /\ th'[t] = [pc |-> "shrink", tag |-> th[t].tag, loc |-> loc, todo |-> todo, copy |-> c]
    BY <1>3, <1>14 DEF MapTypeOK, OthersWait
  <2> HIDE DEF c
  <2>2. th'[t].pc = "shrink" /\ th'[t].loc = loc /\ th'[t].todo = todo  BY <2>1
  <2>3. ASSUME phase = "link", graph[max] = << >> PROVE BringsEntry(t)'
    BY <1>5, <1>9, <2>2, <2>3 DEF BringsEntry
  <2>4. ASSUME phase = "link", loc = max PROVE FindsOther(t)'
    BY <1>5, <1>10, <1>14, <2>2, <2>4 DEF FindsOther
  <2>5. Linking(t)'  BY <2>2 DEF Linking
  <2> QED BY <1>2, <1>5, <1>14, <2>1, <2>2, <2>3, <2>4, <2>5, LinkStep
<1> QED BY <1>6, <1>12, <1>13, <1>14

(* inter_insert, a full list: what is pruned still has the new node.        *)
LEMMA ShrinkEntry ==
    ASSUME MapsInv, ListsInv, EntryLinked, NEW t \in Threads, Shrink(t)
    PROVE  /\ EntryLinked' /\ OthersWait(t) /\ th'[t].pc = "link"
           /\ UNCHANGED <<max, nd, inserts, calls>>
<1> DEFINE loc  == th[t].loc
           todo == th[t].todo
           des  == Head(todo)
           rest == Tail(todo)
           ids  == th[t].copy \ {des}
           list == Prune(des, ids)
<1>1. th[t].pc = "shrink" /\ UNCHANGED <<slotVars, mapVars, point, next, restVars>>  BY DEF Shrink
<1>2. Linking(t)  BY <1>1 DEF Linking
<1>3. /\ MapTypeOK /\ CallHolds(t) /\ CallTypeOK(t) /\ VectorsInPlace /\ GraphClosed
      /\ loc \in Nodes /\ {"pc", "tag", "loc"} \subseteq DOMAIN th[t]
  BY <1>2, LinkingKnows
<1>4. /\ todo \in Seq(Nodes \ {loc}) /\ todo # << >> /\ th[t].copy \subseteq Nodes /\ loc \in th[t].copy
  BY <1>1, <1>3 DEF CallHolds
<1>5. UNCHANGED <<max, nd, phase, inserts, calls, next>>  BY <1>1 DEF slotVars, restVars
<1>6. /\ th' = [th EXCEPT ![t] = [pc |-> "link", tag |-> @.tag, loc |-> @.loc, todo |-> Tail(@.todo)]]
      /\ graph' = [graph EXCEPT ![des] = list]
  BY DEF Shrink
<1>7. des \in Nodes \ {loc} /\ (max \in Range(todo) /\ des # max => max \in Range(rest))
  <2> DEFINE N == Nodes \ {loc}
  <2>1. todo \in Seq(N) /\ todo # << >>  BY <1>4
  <2> HIDE DEF N, todo
  <2>2. Head(todo) \in N  BY <2>1, HeadTailProperties
  <2>3. max \in Range(todo) /\ des # max => max \in Range(rest)  BY <2>1, InTail
  <2> QED BY <2>2, <2>3 DEF N
<1>8. OthersWait(t) /\ th'[t] = [pc |-> "link", tag |-> th[t].tag, loc |-> loc, todo |-> rest]
  BY <1>3, <1>6 DEF MapTypeOK, OthersWait
<1> HIDE DEF des, rest
<1>9. list # << >>
  <2>1. ids \subseteq Nodes \ {des} /\ des \in Nodes /\ ids # {}  BY <1>4, <1>7
  <2> HIDE DEF ids
  <2> QED BY <1>3, <2>1, PruneList
<1> HIDE DEF list
<1>10. th'[t].pc = "link" /\ th'[t].loc = th[t].loc /\ th'[t].todo = rest  BY <1>8
<1>11. graph'[max] = << >> => graph[max] = << >> /\ des # max
  <2>1. max \in DOMAIN graph  BY <1>3, NodeTypes DEF GraphClosed
  <2> QED BY <1>6, <1>9, <2>1
<1>12. ASSUME phase = "link", graph'[max] = << >> PROVE BringsEntry(t)'
  <2>1. max \in Range(todo)  BY <1>1, <1>2, <1>11, <1>12 DEF EntryLinked, BringsEntry
  <2> QED BY <1>5, <1>7, <1>10, <1>11, <1>12, <2>1 DEF BringsEntry
<1>13. ASSUME phase = "link", th[t].loc = max PROVE FindsOther(t)'
  <2>1. graph[max] # << >>  BY <1>2, <1>13 DEF EntryLinked, FindsOther
  <2> QED BY <1>5, <1>10, <1>11, <2>1 DEF FindsOther
<1>14. Linking(t)'  BY <1>10 DEF Linking
<1> QED BY <1>2, <1>5, <1>8, <1>10, <1>11, <1>12, <1>13, <1>14, LinkStep

(* A call returns after its back links; one of them went to the entry.      *)
LEMMA LinkedEntry ==
    ASSUME MapsInv, ListsInv, EntryLinked, NEW t \in Threads, Linked(t)
    PROVE  /\ EntryLinked' /\ OthersWait(t) /\ th'[t].pc = "idle"
           /\ UNCHANGED <<max, nd, inserts, calls>>
<1>1. /\ th[t].pc = "link" /\ th[t].todo = << >>
      /\ UNCHANGED <<slotVars, mapVars, nodeVars, next, saturate, phase, inserts, calls>>
      /\ th' = [th EXCEPT ![t] = Free]
  BY DEF Linked
<1>2. Linking(t)  BY <1>1 DEF Linking
<1>3. MapTypeOK  BY DEF MapsInv
<1>4. UNCHANGED <<max, nd, graph, phase, inserts, calls, next>>  BY <1>1 DEF slotVars, nodeVars
<1>5. OthersWait(t) /\ th'[t].pc = "idle"  BY <1>1, <1>3, Became DEF OthersWait, Free
<1>6. ~Linking(t)'  BY <1>5 DEF Linking
<1>7. phase = "link" => graph[max] # << >>
  <2>1. Range(<< >>) = {}  BY DEF Range
  <2> QED BY <1>1, <1>2, <2>1 DEF EntryLinked, BringsEntry
<1> QED BY <1>2, <1>4, <1>5, <1>6, <1>7, LinkStep

-----------------------------------------------------------------------------
(* The other steps. *)

(* link: as long as every node that was taken is held by a thread, there is *)
(* a thread less than nodes, so the entry, taken last, is not among them.   *)
LEMMA EntryTakenLast ==
    ASSUME MapsInv, ListsInv, EntryLinked, NEW t \in Threads, LinkNode(t), next = max
    PROVE  graph[max] # << >>
<1> SUFFICES ASSUME graph[max] = << >> PROVE FALSE
  OBVIOUS
<1> DEFINE I == 0 .. max - 1
           T == Threads \ {t}
           f == [ l \in I |-> CHOOSE u \in Threads : Linking(u) /\ th[u].loc = l ]
<1>1. phase = "link" /\ th[t].pc = "idle"  BY DEF LinkNode
<1>2. max = Len(ToLink) /\ \A l \in I : \E u \in Threads : Linking(u) /\ th[u].loc = l
  BY <1>1 DEF EntryLinked
<1>3. ~Linking(t)  BY <1>1 DEF Linking
<1>4. \A l \in I : f[l] \in T /\ th[f[l]].loc = l  BY <1>2, <1>3
<1>5. f \in Injection(I, T)
  <2>1. f \in [I -> T]  BY <1>4
  <2>2. \A l, m \in I : f[l] = f[m] => l = m  BY <1>4
  <2> HIDE DEF f, I, T
  <2> QED BY <2>1, <2>2 DEF Injection, IsInjective
<1>6. IsFiniteSet(Threads) /\ Cardinality(Threads) \in Nat  BY DataAssumption, FS_CardinalityType
<1>7. IsFiniteSet(T) /\ Cardinality(T) = Cardinality(Threads) - 1  BY <1>6, FS_RemoveElement
<1>8. Cardinality(I) <= Cardinality(T)
  <2> HIDE DEF f, I, T
  <2> QED BY <1>5, <1>7, FS_Injection
<1>9. max \in Nat  BY NodeTypes
<1>10. Cardinality(I) = max
  <2>1. Cardinality(I) = IF 0 > max - 1 THEN 0 ELSE max - 1 - 0 + 1  BY <1>9, FS_Interval
  <2> QED BY <1>9, <2>1
<1>11. Len(ToLink) >= Cardinality(Threads)  BY MemAssumption
<1> QED BY <1>2, <1>6, <1>7, <1>8, <1>9, <1>10, <1>11

(* link takes a node: one more thread that brings the entry a neighbour.    *)
LEMMA LinkNodeEntry ==
    ASSUME MapsInv, ListsInv, EntryLinked, NEW t \in Threads, LinkNode(t)
    PROVE  /\ EntryLinked' /\ OthersWait(t) /\ th'[t].pc = "walk"
           /\ UNCHANGED <<max, nd, inserts, calls>>
<1>1. /\ phase = "link" /\ next <= max /\ th[t].pc = "idle" /\ next' = next + 1
      /\ th' = [th EXCEPT ![t] = Walk(None, next, point[next], "assign")]
      /\ UNCHANGED <<slotVars, mapVars, nodeVars, restVars>>
  BY DEF LinkNode
<1>2. MapTypeOK /\ next \in Nat  BY <1>1 DEF MapsInv, ListsInv, PhaseKnown
<1>3. UNCHANGED <<max, nd, graph, phase, inserts, calls>>  BY <1>1 DEF slotVars, nodeVars, restVars
<1>4. OthersWait(t) /\ th'[t] = Walk(None, next, point[next], "assign")
  BY <1>1, <1>2, Became DEF OthersWait
<1>5. /\ th'[t].pc = "walk" /\ th'[t].then = "assign" /\ th'[t].loc = next
      /\ th'[t].expanded = {} /\ DOMAIN th'[t].at = {max}
  BY <1>4 DEF Walk, Ep
<1>6. Linking(t)' /\ ~Linking(t)  BY <1>1, <1>5 DEF Linking
<1>7. /\ max = Len(ToLink)
      /\ \A u \in Threads : Linking(u) /\ th[u].loc = max => FindsOther(u)
      /\ graph[max] = << >> =>
            /\ \A u \in Threads : Linking(u) => BringsEntry(u)
            /\ \A l \in 0 .. next - 1 : \E u \in Threads : Linking(u) /\ th[u].loc = l
  BY <1>1 DEF EntryLinked
<1>8. \A u \in Threads \ {t} : th'[u] = th[u] /\ (Linking(u)' <=> Linking(u))
  BY <1>4 DEF OthersWait, Linking
<1>9. ASSUME NEW u \in Threads, Linking(u)', th'[u].loc = max PROVE FindsOther(u)'
  <2>1. CASE u = t
    <3>1. graph[max] # << >>  BY <1>5, <1>9, <2>1, EntryTakenLast
    <3> QED BY <1>3, <1>5, <2>1, <3>1 DEF FindsOther
  <2>2. CASE u # t
    <3>1. FindsOther(u) /\ th'[u] = th[u]  BY <1>7, <1>8, <1>9, <2>2
    <3> QED BY <1>3, <3>1 DEF FindsOther
  <2> QED BY <2>1, <2>2
<1>10. ASSUME graph[max] = << >>, NEW u \in Threads, Linking(u)' PROVE BringsEntry(u)'
  <2>1. CASE u = t  BY <1>3, <1>5, <2>1 DEF BringsEntry
  <2>2. CASE u # t
    <3>1. BringsEntry(u) /\ th'[u] = th[u]  BY <1>7, <1>8, <1>10, <2>2
    <3> QED BY <1>3, <3>1 DEF BringsEntry
  <2> QED BY <2>1, <2>2
<1>11. ASSUME graph[max] = << >>, NEW l \in 0 .. next' - 1
       PROVE  \E u \in Threads : Linking(u)' /\ th'[u].loc = l
  <2>1. CASE l = next  BY <1>5, <1>6, <2>1
  <2>2. CASE l # next
    <3>1. l \in 0 .. next - 1  BY <1>1, <1>2, <1>11, <2>2
    <3>2. PICK u \in Threads : Linking(u) /\ th[u].loc = l  BY <1>7, <1>11, <3>1
    <3> QED BY <1>6, <1>8, <3>2
  <2> QED BY <2>1, <2>2
<1>12. EntryLinked'  BY <1>1, <1>3, <1>7, <1>9, <1>10, <1>11 DEF EntryLinked
<1> QED BY <1>3, <1>4, <1>5, <1>12

(* While no call runs, none links. *)
LEMMA QuietEntry ==
    ASSUME \A u \in Threads : th[u].pc = "idle", UNCHANGED th, phase' # "link"
    PROVE  EntryLinked' /\ SlotsKnown' /\ \A u \in Threads : th'[u].pc = "idle"
  BY DEF EntryLinked, Linking, SlotsKnown

(* A call that crashed was overtaken, and the next step reaches no other    *)
(* crash() call.                                                            *)
CrashInv == SlotsKnown /\ EntryLinked

(* A step of one call that leaves the slots alone. *)
LEMMA CalmStep ==
    ASSUME MapsInv, SlotsKnown, NEW t \in Threads, OthersWait(t), UNCHANGED <<max, nd>>,
           th'[t].pc \notin {"again", "crashed"}
    PROVE  SlotsKnown'
<1>1. max \in Nat /\ nd \in Nat  BY NodeTypes
<1> QED BY <1>1, SlotsStep

(* A step of one call that links nothing afterwards, but a place of its own. *)
LEMMA PlainEntry ==
    ASSUME MapsInv, ListsInv, CrashInv, NEW t \in Threads, OthersWait(t), UNCHANGED <<max, nd>>,
           th'[t].pc \notin {"again", "crashed"},
           phase # "link", phase' = phase, Linking(t)' => th'[t].loc \in 0 .. nd - 1
    PROVE  CrashInv'
<1>1. SlotsKnown'  BY CalmStep DEF CrashInv
<1>2. nd \in Int /\ Nodes \subseteq Int /\ nd <= nd'  BY NodeTypes
<1>3. \A u \in Threads : Linking(u) => th[u].loc \in Int  BY <1>2 DEF ListsInv, CallHolds
<1>4. Linking(t)' => th'[t].loc \in Int /\ th'[t].loc < nd'  BY <1>2
<1>5. EntryLinked'  BY <1>2, <1>3, <1>4, CallsStep DEF CrashInv
<1> QED BY <1>1, <1>5 DEF CrashInv

(* A step of a call that links. *)
LEMMA LinkingCrashes ==
    ASSUME L >= 2, MapsInv, ListsInv, CrashInv, NEW t \in Threads,
           WalkStep(t) \/ Assign(t) \/ BackLink(t) \/ Shrink(t) \/ Linked(t) \/ LinkNode(t)
    PROVE  CrashInv'
<1>1. EntryLinked  BY DEF CrashInv
<1>2. /\ EntryLinked' /\ OthersWait(t) /\ UNCHANGED <<max, nd, inserts, calls>>
      /\ th'[t].pc \in {"walk", "assign", "collect", "link", "shrink", "idle"}
  <2>1. CASE WalkStep(t)  BY <1>1, <2>1, WalkEntry
  <2>2. CASE Assign(t)  BY <1>1, <2>2, AssignEntry
  <2>3. CASE BackLink(t)  BY <1>1, <2>3, BackLinkEntry
  <2>4. CASE Shrink(t)  BY <1>1, <2>4, ShrinkEntry
  <2>5. CASE Linked(t)  BY <1>1, <2>5, LinkedEntry
  <2>6. CASE LinkNode(t)  BY <1>1, <2>6, LinkNodeEntry
  <2> QED BY <2>1, <2>2, <2>3, <2>4, <2>5, <2>6
<1>3. SlotsKnown'  BY <1>2, CalmStep DEF CrashInv
<1> QED BY <1>2, <1>3 DEF CrashInv

(* A step of a search or a deletion, or of an insertion that has its slot.  *)
LEMMA PlainCrashes ==
    ASSUME MapsInv, ListsInv, CrashInv, NEW t \in Threads,
           \/ MarkDeleted(t) \/ Forget(t) \/ Unlink(t) \/ Place(t)
           \/ Collect(t) \/ Translate(t) \/ Return(t)
    PROVE  CrashInv'
<1>1. MapTypeOK /\ PhaseKnown  BY DEF MapsInv, ListsInv
<1>2. ASSUME NEW r, th' = [th EXCEPT ![t] = r] PROVE OthersWait(t) /\ th'[t] = r
  BY <1>1, <1>2, Became DEF OthersWait
<1>3. /\ UNCHANGED <<slotVars, restVars>>
      /\ th[t].pc \in {"delete", "forget", "unlink", "place", "collect", "translate", "found"}
      /\ OthersWait(t) /\ th'[t].pc \in {"forget", "fill", "reserve", "idle", "translate", "found"}
  <2>1. CASE MarkDeleted(t)  BY <1>1, <2>1, Went DEF MarkDeleted, OthersWait
  <2>2. CASE Unlink(t)  BY <1>1, <2>2, Went DEF Unlink, OthersWait
  <2>3. CASE Place(t)  BY <1>1, <2>3, Went DEF Place, OthersWait
  <2>4. CASE Forget(t) \/ Return(t)
    <3>1. /\ th' = [th EXCEPT ![t] = Free] /\ th[t].pc \in {"forget", "found"}
          /\ UNCHANGED <<slotVars, restVars>>
      BY <2>4 DEF Forget, Return
    <3>2. OthersWait(t) /\ th'[t] = Free  BY <1>2, <3>1
    <3>3. th'[t].pc = "idle"  BY <3>2 DEF Free
    <3> QED BY <3>1, <3>2, <3>3
  <2>5. CASE Collect(t)
    <3> DEFINE best   == Best(t)
               filled == [ i \in DOMAIN best |-> <<best[i], th[t].at[best[i]]>> ]
               padded == filled \o [ i \in 1 .. L + 1 - Len(best) |-> <<0, None>> ]
               ids    == Kept(padded, { e \in Range(padded) : e[1] < max })
               near   == Nearest(ids)
               r      == [pc |-> "translate", tag |-> None, ids |-> near]
    <3>1. th' = [th EXCEPT ![t] = r] /\ th[t].pc = "collect" /\ UNCHANGED <<slotVars, restVars>>
      BY <2>5 DEF Collect
    <3> HIDE DEF near
    <3>2. r.pc = "translate"  OBVIOUS
    <3> HIDE DEF r
    <3>3. OthersWait(t) /\ th'[t] = r  BY <1>2, <3>1
    <3> QED BY <3>1, <3>2, <3>3
  <2>6. CASE Translate(t)
    <3> DEFINE tagged  == Kept(th[t].ids, { e \in Range(th[t].ids) : e[1] \in DOMAIN locTag })
               results == { <<locTag[tagged[i][1]], tagged[i][2]>> : i \in 1 .. K \cap DOMAIN tagged }
               r       == [pc |-> "found", tag |-> None, results |-> results]
    <3>1. th' = [th EXCEPT ![t] = r] /\ th[t].pc = "translate" /\ UNCHANGED <<slotVars, restVars>>
      BY <2>6 DEF Translate
    <3> HIDE DEF results
    <3>2. r.pc = "found"  OBVIOUS
    <3> HIDE DEF r
    <3>3. OthersWait(t) /\ th'[t] = r  BY <1>2, <3>1
    <3> QED BY <3>1, <3>2, <3>3
  <2> QED BY <2>1, <2>2, <2>3, <2>4, <2>5, <2>6
<1>4. UNCHANGED <<max, nd, phase>>  BY <1>3 DEF slotVars, restVars
<1>5. phase # "link"  BY <1>1, <1>3 DEF PhaseKnown, Linking
<1>6. ~Linking(t)'  BY <1>3 DEF Linking
<1> QED BY <1>3, <1>4, <1>5, <1>6, PlainEntry

(* A search or a deletion begins, or a node gets its vector. *)
LEMMA BeginCrashes ==
    ASSUME MapsInv, ListsInv, CrashInv, NEW t \in Threads,
           \/ \E tag \in Tags : Delete(t, tag)
           \/ \E q \in Queries : Search(t, q)
           \/ Fill(t)
    PROVE  CrashInv'
<1>1. MapTypeOK /\ CallTypeOK(t) /\ PhaseKnown  BY DEF MapsInv, MapTypeOK, ListsInv
<1>2. CASE \E tag \in Tags : Delete(t, tag)
  <2>1. PICK tag \in Tags : Delete(t, tag)  BY <1>2
  <2>2. /\ phase # "link" /\ UNCHANGED <<slotVars, phase>>
        /\ th' = [th EXCEPT ![t] = [pc |-> "delete", tag |-> tag]]
    BY <2>1 DEF Delete, Called
  <2>3. OthersWait(t) /\ th'[t] = [pc |-> "delete", tag |-> tag]  BY <1>1, <2>2, Became DEF OthersWait
  <2>4. th'[t].pc = "delete"  BY <2>3
  <2>5. ~Linking(t)'  BY <2>4 DEF Linking
  <2>6. UNCHANGED <<max, nd>>  BY <2>2 DEF slotVars
  <2> QED BY <2>2, <2>3, <2>4, <2>5, <2>6, PlainEntry
<1>3. CASE \E q \in Queries : Search(t, q)
  <2>1. PICK q \in Queries : Search(t, q)  BY <1>3
  <2>2. /\ phase # "link" /\ UNCHANGED <<slotVars, phase>>
        /\ th' = [th EXCEPT ![t] = Walk(None, None, q, "collect")]
    BY <2>1 DEF Search, Called
  <2>3. OthersWait(t) /\ th'[t] = Walk(None, None, q, "collect")  BY <1>1, <2>2, Became DEF OthersWait
  <2>4. th'[t].pc = "walk" /\ th'[t].then = "collect"  BY <2>3, WalkFields
  <2>5. ~Linking(t)'  BY <2>4 DEF Linking
  <2>6. UNCHANGED <<max, nd>>  BY <2>2 DEF slotVars
  <2> QED BY <2>2, <2>3, <2>4, <2>5, <2>6, PlainEntry
<1>4. CASE Fill(t)
  <2>1. /\ th[t].pc = "fill" /\ UNCHANGED <<slotVars, restVars>>
        /\ th' = [th EXCEPT ![t] = Walk(@.tag, @.loc, @.tag, "assign")]
    BY <1>4 DEF Fill
  <2>2. OthersWait(t) /\ th'[t] = Walk(th[t].tag, th[t].loc, th[t].tag, "assign")
    BY <1>1, <2>1 DEF OthersWait, MapTypeOK
  <2>3. th'[t].pc = "walk" /\ th'[t].loc = th[t].loc  BY <2>2, WalkFields
  <2>4. th[t].loc \in 0 .. nd - 1  BY <2>1, NodeTypes
  <2>5. phase # "link"  BY <1>1, <2>1 DEF PhaseKnown, Linking
  <2>6. UNCHANGED <<max, nd, phase>>  BY <2>1 DEF slotVars, restVars
  <2> QED BY <2>2, <2>3, <2>4, <2>5, <2>6, PlainEntry
<1> QED BY <1>2, <1>3, <1>4

(* insert_point, reserve_location and resize. *)
LEMMA SlotCrashes ==
    ASSUME MapsInv, ListsInv, CrashInv, NEW t \in Threads,
           (\E tag \in Tags : Insert(t, tag)) \/ Reserve(t) \/ Again(t) \/ Grow(t)
    PROVE  CrashInv'
<1>1. MapTypeOK /\ PhaseKnown /\ SlotsKnown /\ EntryLinked
  BY DEF MapsInv, ListsInv, CrashInv
<1>2. nd \in Nat /\ max \in Nat /\ Nodes \subseteq Int  BY NodeTypes
<1>3. \A u \in Threads : Linking(u) => th[u].loc \in Int  BY <1>2 DEF ListsInv, CallHolds
<1>4. ASSUME OthersWait(t), phase # "link", phase' = phase, nd' \in {nd, nd + 1},
             th'[t].pc \in {"unlink", "reserve", "grow", "again", "place", "crashed"}
      PROVE  EntryLinked'
  <2>1. ~Linking(t)'  BY <1>4 DEF Linking
  <2>2. nd \in Int /\ nd' \in Int /\ nd <= nd'  BY <1>2, <1>4
  <2> QED BY <1>1, <1>3, <1>4, <2>1, <2>2, CallsStep
<1>5. CASE \E tag \in Tags : Insert(t, tag)
  <2>1. PICK tag \in Tags : Insert(t, tag)  BY <1>5
  <2> DEFINE p == IF tag \in DOMAIN tagLoc THEN "unlink" ELSE "reserve"
  <2>2. /\ phase # "link" /\ UNCHANGED <<slotVars, phase>> /\ p \in {"unlink", "reserve"}
        /\ th' = [th EXCEPT ![t] = [pc |-> p, tag |-> tag]]
    BY <2>1 DEF Insert, Called
  <2> HIDE DEF p
  <2>3. OthersWait(t) /\ th'[t] = [pc |-> p, tag |-> tag]  BY <1>1, <2>2, Became DEF OthersWait
  <2>4. th'[t].pc = p  BY <2>3
  <2>5. ~Linking(t)' /\ th'[t].pc \notin {"again", "crashed"}  BY <2>2, <2>4 DEF Linking
  <2>6. UNCHANGED <<max, nd, phase>>  BY <2>2 DEF slotVars
  <2> QED BY <2>2, <2>3, <2>5, <2>6, PlainEntry
<1>6. CASE Reserve(t) \/ Again(t)
  <2>1. /\ SlotsKnown' /\ OthersWait(t) /\ nd' \in {nd, nd + 1}
        /\ th'[t].pc \in {"grow", "crashed", "place"}
    BY <1>1, <1>6, TakeSlots
  <2>2. UNCHANGED restVars /\ th[t].pc \in {"reserve", "again"}  BY <1>6 DEF Reserve, Again
  <2>3. phase # "link" /\ phase' = phase  BY <1>1, <2>2 DEF PhaseKnown, Linking, restVars
  <2>4. EntryLinked'  BY <1>4, <2>1, <2>3
  <2> QED BY <2>1, <2>4 DEF CrashInv
<1>7. CASE Grow(t)
  <2>1. SlotsKnown' /\ OthersWait(t) /\ th'[t].pc = "again" /\ nd' = nd  BY <1>1, <1>7, GrowSlots
  <2>2. th[t].pc = "grow" /\ UNCHANGED restVars  BY <1>7 DEF Grow
  <2>3. phase # "link" /\ phase' = phase  BY <1>1, <2>2 DEF PhaseKnown, Linking, restVars
  <2>4. EntryLinked'  BY <1>4, <2>1, <2>3
  <2> QED BY <2>1, <2>4 DEF CrashInv
<1> QED BY <1>5, <1>6, <1>7

(* The calls that run alone, and the end of link. *)
LEMMA AloneCrashes ==
    ASSUME MapsInv, ListsInv, CrashInv,
           \/ \E t \in Threads : Consolidate(t)
           \/ Cleanup
           \/ \E tags \in Batches : DeleteAll(tags)
           \/ \E size \in LoadSizes : SaveAndLoad(size)
    PROVE  CrashInv'
<1>1. (\A u \in Threads : th[u].pc = "idle") /\ UNCHANGED th /\ phase' # "link"
  <2>1. CASE \E t \in Threads : Consolidate(t)
    <3>1. PICK t \in Threads : Consolidate(t)  BY <2>1
    <3> QED BY <3>1, NeverDangling DEF Consolidate, Alone
  <2>2. CASE Cleanup  BY <2>2 DEF Cleanup
  <2>3. CASE \E tags \in Batches : DeleteAll(tags)  BY <2>3 DEF DeleteAll, Alone
  <2>4. CASE \E size \in LoadSizes : SaveAndLoad(size)  BY <2>4 DEF SaveAndLoad, Alone
  <2> QED BY <2>1, <2>2, <2>3, <2>4
<1> QED BY <1>1, QuietEntry DEF CrashInv

(* As long as the frozen point is in its place, every step keeps it so.     *)
LEMMA CrashKeeps ==
    ASSUME L >= 2, MapsInv, ListsInv, CrashInv, [Next]_memVars
    PROVE  CrashInv'
<1>1. CASE UNCHANGED memVars
  BY <1>1 DEF memVars, mapVars, slotVars, nodeVars, restVars, CrashInv, SlotsKnown, Promised,
              EntryLinked, Linking, FindsOther, BringsEntry
<1>2. ASSUME NEW t \in Threads, LinkNode(t) \/ Begin(t) \/ Finish(t) PROVE CrashInv'
  <2>1. CASE WalkStep(t) \/ Assign(t) \/ BackLink(t) \/ Shrink(t) \/ Linked(t) \/ LinkNode(t)
    BY <2>1, LinkingCrashes
  <2>2. CASE \/ MarkDeleted(t) \/ Forget(t) \/ Unlink(t) \/ Place(t)
             \/ Collect(t) \/ Translate(t) \/ Return(t)
    BY <2>2, PlainCrashes
  <2>3. CASE (\E tag \in Tags : Delete(t, tag)) \/ (\E q \in Queries : Search(t, q)) \/ Fill(t)
    BY <2>3, BeginCrashes
  <2>4. CASE (\E tag \in Tags : Insert(t, tag)) \/ Reserve(t) \/ Again(t) \/ Grow(t)
    BY <2>4, SlotCrashes
  <2> QED BY <1>2, <2>1, <2>2, <2>3, <2>4 DEF Begin, Finish
<1>3. CASE \/ \E t \in Threads : Consolidate(t)
           \/ Cleanup
           \/ \E tags \in Batches : DeleteAll(tags)
           \/ \E size \in LoadSizes : SaveAndLoad(size)
  BY <1>3, AloneCrashes
<1> QED BY <1>1, <1>2, <1>3 DEF Next

(* Until a save leaves the frozen point behind, the crash() calls of        *)
(* prune_neighbors (a candidate is there), of compact_data (no edge to a    *)
(* removed node) and of the walk (no edge behind the last location) are not *)
(* reached, and that of insert_point's second attempt only when, since the  *)
(* call released the lock with a slot free, as many locations as were free  *)
(* then have been taken: no bound on threads, insertions or capacity is     *)
(* assumed.  A search list of one node is excluded: the walk that links the *)
(* frozen point expands it alone and leaves prune_neighbors no candidate.   *)
THEOREM NoCallCrashes ==
    ASSUME L >= 2
    PROVE  Spec => []NeverCrashes
<1> DEFINE Inv == MapsInv /\ (lost \/ (ListsInv /\ CrashInv))
<1>1. Init => Inv
  <2> SUFFICES ASSUME Init PROVE Inv
    OBVIOUS
  <2>1. \A t \in Threads : th[t].pc = "idle"  BY DEF Init, Free
  <2>2. EntryLinked
    <3>1. \A t \in Threads : ~Linking(t)  BY <2>1 DEF Linking
    <3>2. phase = "link" => max = Len(ToLink) /\ next = 0
      BY DEF Init, Building, Loaded
    <3>3. next = 0 => 0 .. next - 1 = {}  OBVIOUS
    <3> QED BY <3>1, <3>2, <3>3 DEF EntryLinked
  <2>3. SlotsKnown  BY <2>1 DEF SlotsKnown
  <2> QED BY <2>2, <2>3, InitKeeps, InitLists DEF CrashInv
<1>2. ASSUME Inv, [Next]_memVars PROVE Inv'
  <2>1. MapsInv'  BY <1>2, NextKeeps
  <2>2. CASE lost  BY <1>2, <2>1, <2>2, LostStays
  <2>3. CASE ListsInv /\ CrashInv
    <3>1. CrashInv'  BY <1>2, <2>3, CrashKeeps
    <3>2. lost' \/ ListsInv'  BY <1>2, <2>3, ListsKeep
    <3> QED BY <2>1, <3>1, <3>2
  <2> QED BY <1>2, <2>2, <2>3
<1>3. Inv => NeverCrashes  BY DEF CrashInv, SlotsKnown, Promised, Overtaken, NeverCrashes
<1> QED BY <1>1, <1>2, <1>3, PTL DEF Spec
=============================================================================
