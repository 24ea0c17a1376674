---------------------------- MODULE ArenaProofs ----------------------------
(***************************************************************************)
(* The arena's links agree and form a forest for every set of nodes.       *)
(* LinksAgree is inductive together with the type invariant and one fact   *)
(* about the two ends of a list of children; the forest needs no more than *)
(* the guard on append_child and insert_before.  With these the operations *)
(* implement those of OrderedTree, for any finite number of nodes.         *)
(***************************************************************************)
EXTENDS Arena, SequenceTheorems, FiniteSetTheorems, TLAPS

\* A parent has a first child exactly when it has a last one.  This does not
\* follow from the local agreement of the links (an endless list of children
\* would have only one end), and append_child relies on it when it decides by
\* last_child alone whether to set first_child.
EndsTogether(a) == \A p \in Node : a[p].first = None <=> a[p].last = None

\* Following `next` from any child leads to the end of the list: no set of
\* nodes is closed under it.
ListsEnd(a) == \A S \in SUBSET Node : S # {} => \E n \in S : a[n].next \notin S

Agree(a) == SiblingsAgree(a) /\ EndsAgree(a) /\ EndsTogether(a)

-----------------------------------------------------------------------------
(* The operations stay within the type.                                    *)

\* unlink stores links only.
LEMMA UnlinkedType ==
  ASSUME NEW a \in [Node -> Links], NEW id \in Node
  PROVE  Unlinked(a, id) \in [Node -> Links]
BY DEF Unlinked, Links

\* So does append_child.
LEMMA LinkedType ==
  ASSUME NEW a \in [Node -> Links], NEW p \in Node, NEW c \in Node
  PROVE  Linked(a, p, c) \in [Node -> Links]
BY DEF Linked, Links

\* So does insert_before.
LEMMA LinkedBeforeType ==
  ASSUME NEW a \in [Node -> Links], NEW id \in Node, NEW s \in Node
  PROVE  LinkedBefore(a, id, s) \in [Node -> Links]
BY DEF LinkedBefore, Links

-----------------------------------------------------------------------------
(* The operations keep the links in agreement.                             *)

\* Arena::unlink on an arena whose links agree leaves them in agreement, and
\* the node without parent and siblings.
LEMMA UnlinkedAgrees ==
  ASSUME NEW a \in [Node -> Links], NEW id \in Node, Agree(a)
  PROVE  /\ Agree(Unlinked(a, id))
         /\ Unlinked(a, id)[id].parent = None
         /\ Unlinked(a, id)[id].prev = None
         /\ Unlinked(a, id)[id].next = None
<1> DEFINE u == Unlinked(a, id)
<1>1. SiblingsAgree(u)
  <2> SUFFICES ASSUME NEW n \in Node
               PROVE  /\ u[n].next # None => /\ u[u[n].next].prev = n
                                              /\ u[u[n].next].parent = u[n].parent
                      /\ u[n].prev # None => /\ u[u[n].prev].next = n
                                              /\ u[u[n].prev].parent = u[n].parent
                      /\ u[n].parent = None => u[n].prev = None /\ u[n].next = None
    BY DEF SiblingsAgree
  <2>a. \A m \in Node :
          /\ u[m].parent = IF m = id THEN None ELSE a[m].parent
          /\ u[m].prev = IF m = id THEN None ELSE IF m = a[id].next THEN a[id].prev ELSE a[m].prev
          /\ u[m].next = IF m = id THEN None ELSE IF m = a[id].prev THEN a[id].next ELSE a[m].next
    BY DEF Unlinked
  <2>b. \A m \in Node : a[m].next \in Node \cup {None} /\ a[m].prev \in Node \cup {None}
    BY DEF Links
  <2> HIDE DEF u
  <2>1. u[n].next # None => u[u[n].next].prev = n /\ u[u[n].next].parent = u[n].parent
    BY <2>a, <2>b, NoneAssumption DEF Agree, SiblingsAgree
  <2>2. u[n].prev # None => u[u[n].prev].next = n /\ u[u[n].prev].parent = u[n].parent
    BY <2>a, <2>b, NoneAssumption DEF Agree, SiblingsAgree
  <2>3. u[n].parent = None => u[n].prev = None /\ u[n].next = None
    BY <2>a, <2>b, NoneAssumption DEF Agree, SiblingsAgree
  <2> QED BY <2>1, <2>2, <2>3
<1>2. EndsAgree(u)
  <2> SUFFICES ASSUME NEW p \in Node, NEW c \in Node
               PROVE  /\ (u[p].first = c) <=> (u[c].parent = p /\ u[c].prev = None)
                      /\ (u[p].last = c)  <=> (u[c].parent = p /\ u[c].next = None)
    BY DEF EndsAgree
  <2>1. (u[p].first = c) <=> (u[c].parent = p /\ u[c].prev = None)
    BY NoneAssumption DEF Agree, SiblingsAgree, EndsAgree, EndsTogether, Unlinked, Links
  <2>2. (u[p].last = c)  <=> (u[c].parent = p /\ u[c].next = None)
    BY NoneAssumption DEF Agree, SiblingsAgree, EndsAgree, EndsTogether, Unlinked, Links
  <2> QED BY <2>1, <2>2
<1>3. EndsTogether(u)
  BY NoneAssumption DEF Agree, SiblingsAgree, EndsAgree, EndsTogether, Unlinked, Links
<1> QED
  BY <1>1, <1>2, <1>3 DEF Agree, Unlinked

\* Linking a detached node at the end of a list of children.
LEMMA LinkedAgrees ==
  ASSUME NEW a \in [Node -> Links], NEW p \in Node, NEW c \in Node, Agree(a),
         a[c].parent = None, a[c].prev = None, a[c].next = None
  PROVE  Agree(Linked(a, p, c))
<1> DEFINE b == Linked(a, p, c)
<1>1. SiblingsAgree(b)
  <2> SUFFICES ASSUME NEW n \in Node
               PROVE  /\ b[n].next # None => /\ b[b[n].next].prev = n
                                              /\ b[b[n].next].parent = b[n].parent
                      /\ b[n].prev # None => /\ b[b[n].prev].next = n
                                              /\ b[b[n].prev].parent = b[n].parent
                      /\ b[n].parent = None => b[n].prev = None /\ b[n].next = None
    BY DEF SiblingsAgree
  <2>a. \A m \in Node :
          /\ b[m].parent = IF m = c THEN p ELSE a[m].parent
          /\ b[m].prev = IF m = c /\ a[p].last # None THEN a[p].last ELSE a[m].prev
          /\ b[m].next = IF m = a[p].last THEN c ELSE a[m].next
    BY DEF Linked
  <2>b. \A m \in Node : a[m].next \in Node \cup {None} /\ a[m].prev \in Node \cup {None}
                        /\ a[m].parent \in Node \cup {None} /\ a[m].last \in Node \cup {None}
    BY DEF Links
  <2> HIDE DEF b
  <2>1. b[n].next # None => b[b[n].next].prev = n /\ b[b[n].next].parent = b[n].parent
    BY <2>a, <2>b, NoneAssumption DEF Agree, SiblingsAgree, EndsAgree
  <2>2. b[n].prev # None => b[b[n].prev].next = n /\ b[b[n].prev].parent = b[n].parent
    BY <2>a, <2>b, NoneAssumption DEF Agree, SiblingsAgree, EndsAgree
  <2>3. b[n].parent = None => b[n].prev = None /\ b[n].next = None
    BY <2>a, <2>b, NoneAssumption DEF Agree, SiblingsAgree, EndsAgree
  <2> QED BY <2>1, <2>2, <2>3
<1>2. EndsAgree(Linked(a, p, c))
  BY NoneAssumption DEF Agree, SiblingsAgree, EndsAgree, EndsTogether, Linked, Links
<1>3. EndsTogether(Linked(a, p, c))
  BY NoneAssumption DEF Agree, SiblingsAgree, EndsAgree, EndsTogether, Linked, Links
<1> QED
  BY <1>1, <1>2, <1>3 DEF Agree

\* Linking a detached node before a node that has a parent.
LEMMA LinkedBeforeAgrees ==
  ASSUME NEW a \in [Node -> Links], NEW id \in Node, NEW s \in Node, Agree(a),
         a[id].parent # None, id # s,
         a[s].parent = None, a[s].prev = None, a[s].next = None
  PROVE  Agree(LinkedBefore(a, id, s))
<1> DEFINE b == LinkedBefore(a, id, s)
<1>1. SiblingsAgree(b)
  <2> SUFFICES ASSUME NEW n \in Node
               PROVE  /\ b[n].next # None => /\ b[b[n].next].prev = n
                                              /\ b[b[n].next].parent = b[n].parent
                      /\ b[n].prev # None => /\ b[b[n].prev].next = n
                                              /\ b[b[n].prev].parent = b[n].parent
                      /\ b[n].parent = None => b[n].prev = None /\ b[n].next = None
    BY DEF SiblingsAgree
  <2>a. \A m \in Node :
          /\ b[m].parent = IF m = s THEN a[id].parent ELSE a[m].parent
          /\ b[m].prev = IF m = s THEN a[id].prev ELSE IF m = id THEN s ELSE a[m].prev
          /\ b[m].next = IF m = s THEN id ELSE IF m = a[id].prev THEN s ELSE a[m].next
    BY DEF LinkedBefore
  <2>b. \A m \in Node : a[m].next \in Node \cup {None} /\ a[m].prev \in Node \cup {None}
                        /\ a[m].parent \in Node \cup {None} /\ a[m].last \in Node \cup {None}
    BY DEF Links
  <2> HIDE DEF b
  <2>1. b[n].next # None => b[b[n].next].prev = n /\ b[b[n].next].parent = b[n].parent
    BY <2>a, <2>b, NoneAssumption DEF Agree, SiblingsAgree, EndsAgree
  <2>2. b[n].prev # None => b[b[n].prev].next = n /\ b[b[n].prev].parent = b[n].parent
    BY <2>a, <2>b, NoneAssumption DEF Agree, SiblingsAgree, EndsAgree
  <2>3. b[n].parent = None => b[n].prev = None /\ b[n].next = None
    BY <2>a, <2>b, NoneAssumption DEF Agree, SiblingsAgree, EndsAgree
  <2> QED BY <2>1, <2>2, <2>3
<1>2. EndsAgree(LinkedBefore(a, id, s))
  BY NoneAssumption DEF Agree, SiblingsAgree, EndsAgree, EndsTogether, LinkedBefore, Links
<1>3. EndsTogether(LinkedBefore(a, id, s))
  BY NoneAssumption DEF Agree, SiblingsAgree, EndsAgree, EndsTogether, LinkedBefore, Links
<1> QED
  BY <1>1, <1>2, <1>3 DEF Agree
-----------------------------------------------------------------------------
(* The operations keep the lists of siblings from closing into rings.      *)

\* A ring through the neighbours unlink joins was one through the node before.
LEMMA UnlinkedLists ==
  ASSUME NEW a \in [Node -> Links], NEW id \in Node, Agree(a), ListsEnd(a)
  PROVE  ListsEnd(Unlinked(a, id))
<1> DEFINE u == Unlinked(a, id)
<1> SUFFICES ASSUME NEW S \in SUBSET Node, S # {}, \A n \in S : u[n].next \in S
             PROVE  FALSE
  BY DEF ListsEnd
<1>1. id \notin S
  BY NoneAssumption DEF Unlinked
<1>2. \A n \in S : u[n].next = IF n = a[id].prev THEN a[id].next ELSE a[n].next
  BY <1>1 DEF Unlinked
<1> HIDE DEF u
<1>3. CASE a[id].prev \in S
  <2>1. \A n \in S \cup {id} : a[n].next \in S \cup {id}
    BY <1>2, <1>3, NoneAssumption DEF Agree, SiblingsAgree
  <2> QED BY <2>1 DEF ListsEnd
<1>4. CASE a[id].prev \notin S
  BY <1>2, <1>4 DEF ListsEnd
<1> QED BY <1>3, <1>4

\* A node linked at the end of a list ends it.
LEMMA LinkedLists ==
  ASSUME NEW a \in [Node -> Links], NEW p \in Node, NEW c \in Node, ListsEnd(a),
         Agree(a), a[c].parent = None, a[c].prev = None, a[c].next = None
  PROVE  ListsEnd(Linked(a, p, c))
<1> DEFINE b == Linked(a, p, c)
<1> SUFFICES ASSUME NEW S \in SUBSET Node, S # {}, \A n \in S : b[n].next \in S
             PROVE  FALSE
  BY DEF ListsEnd
<1>1. \A n \in S : b[n].next = IF n = a[p].last THEN c ELSE a[n].next
  BY DEF Linked
<1>2. c # a[p].last
  BY NoneAssumption DEF Agree, EndsAgree
<1> HIDE DEF b
<1>3. c \notin S
  BY <1>1, <1>2, NoneAssumption
<1>4. \A n \in S : a[n].next \in S
  BY <1>1, <1>3
<1> QED BY <1>4 DEF ListsEnd

\* A ring through a node linked in before another closes without it.
LEMMA LinkedBeforeLists ==
  ASSUME NEW a \in [Node -> Links], NEW id \in Node, NEW s \in Node, ListsEnd(a),
         Agree(a), id # s, a[s].parent = None, a[s].prev = None, a[s].next = None
  PROVE  ListsEnd(LinkedBefore(a, id, s))
<1> DEFINE b == LinkedBefore(a, id, s)
<1> SUFFICES ASSUME NEW S \in SUBSET Node, S # {}, \A n \in S : b[n].next \in S
             PROVE  FALSE
  BY DEF ListsEnd
<1>1. \A n \in S : b[n].next = IF n = s THEN id ELSE IF n = a[id].prev THEN s ELSE a[n].next
  BY DEF LinkedBefore
<1> HIDE DEF b
<1>2. \A n \in S \ {s} : a[n].next # s
  BY NoneAssumption DEF Agree, SiblingsAgree
<1>3. \A n \in S : n = a[id].prev => a[n].next = id
  BY NoneAssumption DEF Agree, SiblingsAgree
<1>4. a[id].prev \in S => id \in S
  BY <1>1, <1>3
<1>5. s \in S => id \in S
  BY <1>1
<1>6. \A n \in S \ {s} : a[n].next \in S \ {s}
  BY <1>1, <1>2, <1>3, <1>4, <1>5
<1>7. S \ {s} # {}
  BY <1>5
<1> QED BY <1>6, <1>7 DEF ListsEnd

-----------------------------------------------------------------------------
(* The operations keep the forest.                                         *)

\* S is closed under `parent` in a.
Closed(a, S) == \A n \in S : a[n].parent \in S \cup {None}

\* Taking a node out of its place makes no ancestors.
LEMMA UnlinkedForest ==
  ASSUME NEW a \in [Node -> Links], NEW id \in Node, Forest(a)
  PROVE  Forest(Unlinked(a, id))
<1> DEFINE u == Unlinked(a, id)
<1> SUFFICES ASSUME NEW n \in Node, u[n].parent # None
             PROVE  NotUnder(u, u[n].parent, n)
  BY DEF Forest
<1>1. u[n].parent = a[n].parent
  BY DEF Unlinked
<1>2. PICK S \in SUBSET Node : a[n].parent \in S /\ n \notin S /\ Closed(a, S)
  BY <1>1 DEF Forest, NotUnder, Closed
<1>3. Closed(u, S)
  BY <1>2 DEF Closed, Unlinked
<1> QED
  BY <1>1, <1>2, <1>3 DEF NotUnder, Closed

\* Giving the detached node c the parent p makes no loop when p is not c and
\* not below c.  b is the arena a with `parent` changed at c alone.
LEMMA AdoptedForest ==
  ASSUME NEW a \in [Node -> Links], NEW b \in [Node -> Links],
         NEW p \in Node, NEW c \in Node,
         Forest(a), NotUnder(a, p, c), a[c].parent = None,
         \A n \in Node : b[n].parent = IF n = c THEN p ELSE a[n].parent
  PROVE  Forest(b)
<1>1. PICK P \in SUBSET Node : p \in P /\ c \notin P /\ Closed(a, P)
  BY DEF NotUnder, Closed
<1> SUFFICES ASSUME NEW n \in Node, b[n].parent # None
             PROVE  NotUnder(b, b[n].parent, n)
  BY DEF Forest
<1>2. CASE n = c
  <2>1. Closed(b, P)
    BY <1>1 DEF Closed
  <2> QED
    BY <1>1, <1>2, <2>1 DEF NotUnder, Closed
<1>3. CASE n # c
  <2>1. PICK S \in SUBSET Node : a[n].parent \in S /\ n \notin S /\ Closed(a, S)
    BY <1>3 DEF Forest, NotUnder, Closed
  <2>2. b[n].parent = a[n].parent
    BY <1>3
  \* Where n is above p, the parent of n is in P as well as in S.
  <2>3. CASE n \in P
    <3>1. a[n].parent \in S \cap P
      BY <1>1, <2>1, <2>2, <2>3 DEF Closed
    <3>2. Closed(b, S \cap P)
      BY <1>1, <2>1 DEF Closed
    <3> QED
      BY <2>1, <2>2, <3>1, <3>2 DEF NotUnder, Closed
  \* Otherwise the ancestors of p can be added to those of n.
  <2>4. CASE n \notin P
    <3>1. Closed(b, S \cup P)
      BY <1>1, <2>1 DEF Closed
    <3>2. n \notin S \cup P /\ b[n].parent \in S \cup P
      BY <2>1, <2>2, <2>4
    <3> QED
      BY <3>1, <3>2 DEF NotUnder, Closed
  <2> QED
    BY <2>3, <2>4
<1> QED
  BY <1>2, <1>3

\* unlink takes nobody below anybody else.
LEMMA UnlinkedNotUnder ==
  ASSUME NEW a \in [Node -> Links], NEW id \in Node, NEW p \in Node, NEW c \in Node,
         NotUnder(a, p, c)
  PROVE  NotUnder(Unlinked(a, id), p, c)
BY DEF NotUnder, Unlinked

-----------------------------------------------------------------------------
(* The theorems.                                                           *)

\* The links of an allocated node are those of its arena slot, and every link
\* is a node or absent, after any sequence of operations.
THEOREM ArenaTypeCorrect == ArenaSpec => []ArenaTypeOK
<1>1. ArenaInit => ArenaTypeOK
  BY DEF ArenaInit, ArenaTypeOK, NewLinks, Links
<1>2. ArenaTypeOK /\ [ArenaNext]_arenaVars => ArenaTypeOK'
  <2> SUFFICES ASSUME ArenaTypeOK, [ArenaNext]_arenaVars
               PROVE  ArenaTypeOK'
    OBVIOUS
  <2>1. CASE \E n \in Node : NewNode(n)
    BY <2>1 DEF ArenaTypeOK, NewNode
  <2>2. CASE \E id \in used : Unlink(id)
    BY <2>2, UnlinkedType DEF ArenaTypeOK, Unlink
  <2>3. CASE \E p, c \in used : AppendChild(p, c)
    BY <2>3, UnlinkedType, LinkedType DEF ArenaTypeOK, AppendChild, Appended
  <2>4. ASSUME NEW id \in used, NEW s \in used, InsertBefore(id, s)
        PROVE  ArenaTypeOK'
    <3>1. id \in Node /\ s \in Node /\ Unlinked(arena, s) \in [Node -> Links]
      BY UnlinkedType DEF ArenaTypeOK
    <3> QED
      BY <2>4, <3>1, LinkedBeforeType DEF ArenaTypeOK, InsertBefore, InsertedBefore
  <2>5. CASE UNCHANGED arenaVars
    BY <2>5 DEF ArenaTypeOK, arenaVars
  <2> QED
    BY <2>1, <2>2, <2>3, <2>4, <2>5 DEF ArenaNext
<1> QED
  BY <1>1, <1>2, PTL DEF ArenaSpec

\* The strengthening of LinksAgree that every operation preserves.
AgreeInv == Agree(arena)

\* Every operation keeps the links in agreement.
LEMMA AgreeInductive ==
  ASSUME ArenaTypeOK, AgreeInv, [ArenaNext]_arenaVars
  PROVE  AgreeInv'
<1>1. CASE \E n \in Node : NewNode(n)
  BY <1>1 DEF AgreeInv, NewNode
<1>2. CASE \E id \in used : Unlink(id)
  BY <1>2, UnlinkedAgrees DEF ArenaTypeOK, AgreeInv, Unlink
<1>3. ASSUME NEW p \in used, NEW c \in used, AppendChild(p, c)
      PROVE  AgreeInv'
  <2> DEFINE u == Unlinked(arena, c)
  <2>1. u \in [Node -> Links] /\ p \in Node /\ c \in Node
    BY UnlinkedType DEF ArenaTypeOK
  <2>2. Agree(u) /\ u[c].parent = None /\ u[c].prev = None /\ u[c].next = None
    BY UnlinkedAgrees DEF ArenaTypeOK, AgreeInv
  <2> HIDE DEF u
  <2>3. Agree(Linked(u, p, c))
    BY <2>1, <2>2, LinkedAgrees
  <2> QED
    BY <1>3, <2>3 DEF AgreeInv, AppendChild, Appended, u
<1>4. ASSUME NEW id \in used, NEW s \in used, InsertBefore(id, s)
      PROVE  AgreeInv'
  <2> DEFINE u == Unlinked(arena, s)
  <2>1. u \in [Node -> Links] /\ id \in Node /\ s \in Node
    BY UnlinkedType DEF ArenaTypeOK
  <2>2. Agree(u) /\ u[s].parent = None /\ u[s].prev = None /\ u[s].next = None
    BY UnlinkedAgrees DEF ArenaTypeOK, AgreeInv
  <2>3. u[id].parent # None /\ id # s
    BY <1>4, <2>1 DEF InsertBefore, Unlinked
  <2> HIDE DEF u
  <2>4. Agree(LinkedBefore(u, id, s))
    BY <2>1, <2>2, <2>3, LinkedBeforeAgrees
  <2> QED
    BY <1>4, <2>4 DEF AgreeInv, InsertBefore, InsertedBefore, u
<1>5. CASE UNCHANGED arenaVars
  BY <1>5 DEF AgreeInv, arenaVars
<1> QED
  BY <1>1, <1>2, <1>3, <1>4, <1>5 DEF ArenaNext

\* The links of the arena agree, whatever sequence of new_node, unlink,
\* append_child and insert_before produced them.
THEOREM ArenaLinksAgree == ArenaSpec => []LinksAgree
<1>1. ArenaInit => AgreeInv
  BY NoneAssumption
     DEF ArenaInit, AgreeInv, Agree, SiblingsAgree, EndsAgree, EndsTogether, NewLinks
<1>2. ArenaTypeOK /\ AgreeInv /\ [ArenaNext]_arenaVars => AgreeInv'
  BY AgreeInductive
<1>3. AgreeInv => LinksAgree
  BY DEF AgreeInv, Agree, LinksAgree
<1> QED
  BY <1>1, <1>2, <1>3, ArenaTypeCorrect, PTL DEF ArenaSpec

\* No list of children is a ring: Arena::children ends for every node.
THEOREM ArenaListsEnd == ArenaSpec => []ListsEnd(arena)
<1>1. ArenaInit => ListsEnd(arena)
  BY NoneAssumption DEF ArenaInit, ListsEnd, NewLinks
<1>2. ArenaTypeOK /\ AgreeInv /\ ListsEnd(arena) /\ [ArenaNext]_arenaVars => ListsEnd(arena)'
  <2> SUFFICES ASSUME ArenaTypeOK, AgreeInv, ListsEnd(arena), [ArenaNext]_arenaVars
               PROVE  ListsEnd(arena')
    OBVIOUS
  <2>1. CASE \E n \in Node : NewNode(n)
    BY <2>1 DEF NewNode
  <2>2. CASE \E id \in used : Unlink(id)
    BY <2>2, UnlinkedLists DEF ArenaTypeOK, AgreeInv, Unlink
  <2>3. ASSUME NEW p \in used, NEW c \in used, AppendChild(p, c)  PROVE ListsEnd(arena')
    <3> DEFINE u == Unlinked(arena, c)
    <3>1. u \in [Node -> Links] /\ p \in Node /\ c \in Node
      BY UnlinkedType DEF ArenaTypeOK
    <3>2. Agree(u) /\ u[c].parent = None /\ u[c].prev = None /\ u[c].next = None /\ ListsEnd(u)
      BY UnlinkedAgrees, UnlinkedLists DEF ArenaTypeOK, AgreeInv
    <3>3. arena' = Linked(u, p, c)
      BY <2>3 DEF AppendChild, Appended
    <3> HIDE DEF u
    <3> QED BY <3>1, <3>2, <3>3, LinkedLists
  <2>4. ASSUME NEW id \in used, NEW s \in used, InsertBefore(id, s)  PROVE ListsEnd(arena')
    <3> DEFINE u == Unlinked(arena, s)
    <3>1. u \in [Node -> Links] /\ id \in Node /\ s \in Node /\ id # s
      BY <2>4, UnlinkedType DEF ArenaTypeOK, InsertBefore
    <3>2. Agree(u) /\ u[s].parent = None /\ u[s].prev = None /\ u[s].next = None /\ ListsEnd(u)
      BY UnlinkedAgrees, UnlinkedLists DEF ArenaTypeOK, AgreeInv
    <3>3. arena' = LinkedBefore(u, id, s)
      BY <2>4 DEF InsertBefore, InsertedBefore
    <3> HIDE DEF u
    <3> QED BY <3>1, <3>2, <3>3, LinkedBeforeLists
  <2>5. CASE UNCHANGED arenaVars
    BY <2>5 DEF arenaVars
  <2> QED
    BY <2>1, <2>2, <2>3, <2>4, <2>5 DEF ArenaNext
<1>3. ArenaInit => AgreeInv
  BY NoneAssumption
     DEF ArenaInit, AgreeInv, Agree, SiblingsAgree, EndsAgree, EndsTogether, NewLinks
<1>4. ArenaTypeOK /\ AgreeInv /\ [ArenaNext]_arenaVars => AgreeInv'
  BY AgreeInductive
<1> QED
  BY <1>1, <1>2, <1>3, <1>4, ArenaTypeCorrect, PTL DEF ArenaSpec

\* Every operation keeps the forest.
LEMMA ForestInductive ==
  ASSUME ArenaTypeOK, ArenaForest, [ArenaNext]_arenaVars
  PROVE  ArenaForest'
<1>1. CASE \E n \in Node : NewNode(n)
  BY <1>1 DEF ArenaForest, NewNode
<1>2. CASE \E id \in used : Unlink(id)
  BY <1>2, UnlinkedForest DEF ArenaTypeOK, ArenaForest, Unlink
<1>3. ASSUME NEW p \in used, NEW c \in used, AppendChild(p, c)
      PROVE  ArenaForest'
  <2> DEFINE u == Unlinked(arena, c)
             b == Linked(u, p, c)
  <2>1. p \in Node /\ c \in Node /\ u \in [Node -> Links] /\ b \in [Node -> Links]
    BY UnlinkedType, LinkedType DEF ArenaTypeOK
  <2>2. Forest(u) /\ NotUnder(u, p, c)
    BY <1>3, <2>1, UnlinkedForest, UnlinkedNotUnder
       DEF ArenaTypeOK, ArenaForest, AppendChild
  <2>3. u[c].parent = None
    BY <2>1 DEF Unlinked
  <2>4. \A n \in Node : b[n].parent = IF n = c THEN p ELSE u[n].parent
    BY DEF Linked
  <2>5. arena' = b
    BY <1>3 DEF AppendChild, Appended
  <2> HIDE DEF u, b
  <2>6. Forest(b)
    BY <2>1, <2>2, <2>3, <2>4, AdoptedForest
  <2> QED
    BY <2>5, <2>6 DEF ArenaForest
<1>4. ASSUME NEW id \in used, NEW s \in used, InsertBefore(id, s)
      PROVE  ArenaForest'
  <2> DEFINE u == Unlinked(arena, s)
             b == LinkedBefore(u, id, s)
             p == arena[id].parent
  <2>1. /\ id \in Node /\ s \in Node /\ p \in Node
        /\ u \in [Node -> Links] /\ b \in [Node -> Links]
    BY <1>4, UnlinkedType, LinkedBeforeType DEF ArenaTypeOK, InsertBefore, Links
  <2>2. Forest(u) /\ NotUnder(u, p, s)
    BY <1>4, <2>1, UnlinkedForest, UnlinkedNotUnder
       DEF ArenaTypeOK, ArenaForest, InsertBefore
  <2>3. u[s].parent = None /\ u[id].parent = p
    BY <1>4, <2>1 DEF Unlinked, InsertBefore
  <2>4. \A n \in Node : b[n].parent = IF n = s THEN p ELSE u[n].parent
    BY <2>3 DEF LinkedBefore
  <2>5. arena' = b
    BY <1>4 DEF InsertBefore, InsertedBefore
  <2> HIDE DEF u, b, p
  <2>6. Forest(b)
    BY <2>1, <2>2, <2>3, <2>4, AdoptedForest
  <2> QED
    BY <2>5, <2>6 DEF ArenaForest
<1>5. CASE UNCHANGED arenaVars
  BY <1>5 DEF ArenaForest, Forest, NotUnder, arenaVars
<1> QED
  BY <1>1, <1>2, <1>3, <1>4, <1>5 DEF ArenaNext

\* No node is ever its own ancestor.
THEOREM ArenaIsForest == ArenaSpec => []ArenaForest
<1>1. ArenaInit => ArenaForest
  BY DEF ArenaInit, ArenaForest, Forest, NewLinks
<1>2. ArenaTypeOK /\ ArenaForest /\ [ArenaNext]_arenaVars => ArenaForest'
  BY ForestInductive
<1> QED
  BY <1>1, <1>2, ArenaTypeCorrect, PTL DEF ArenaSpec

-----------------------------------------------------------------------------
(* Sequences cut and put together.                                         *)

\* What SubSeq takes from inside a sequence.
LEMMA Slice ==
  ASSUME NEW S, NEW s \in Seq(S), NEW x \in Int, NEW y \in Int, 1 <= x, y <= Len(s), x <= y + 1
  PROVE  /\ SubSeq(s, x, y) \in Seq(S) /\ Len(SubSeq(s, x, y)) = y - x + 1
         /\ \A k \in 1..y - x + 1 : SubSeq(s, x, y)[k] = s[x + k - 1]
<1>1. \A k \in x..y : s[k] \in S
  OBVIOUS
<1>2. /\ SubSeq(s, x, y) \in Seq(S)
      /\ Len(SubSeq(s, x, y)) = IF x <= y THEN y - x + 1 ELSE 0
      /\ \A k \in 1..y - x + 1 : SubSeq(s, x, y)[k] = s[x + k - 1]
  BY <1>1, SubSeqProperties
<1> QED BY <1>2

\* The first elements of a sequence.
LEMMA FirstOnes ==
  ASSUME NEW S, NEW s \in Seq(S), NEW n \in 0..Len(s)
  PROVE  /\ SubSeq(s, 1, n) \in Seq(S) /\ Len(SubSeq(s, 1, n)) = n
         /\ \A k \in 1..n : SubSeq(s, 1, n)[k] = s[k]
<1>1. PICK x \in Int : x = 1
  OBVIOUS
<1>2. Len(s) \in Nat /\ n \in Int /\ 1 <= x /\ n <= Len(s) /\ x <= n + 1
  BY <1>1
<1>3. /\ SubSeq(s, x, n) \in Seq(S) /\ Len(SubSeq(s, x, n)) = n - x + 1
      /\ \A k \in 1..n - x + 1 : SubSeq(s, x, n)[k] = s[x + k - 1]
  BY <1>2, Slice
<1> DEFINE r == SubSeq(s, x, n)
<1>4. SubSeq(s, 1, n) = r
  BY <1>1
<1> HIDE DEF r
<1> QED BY <1>1, <1>2, <1>3, <1>4 DEF r

\* The last elements of a sequence, from the n-th on.
LEMMA LastOnes ==
  ASSUME NEW S, NEW s \in Seq(S), NEW n \in 1..Len(s) + 1
  PROVE  /\ SubSeq(s, n, Len(s)) \in Seq(S) /\ Len(SubSeq(s, n, Len(s))) = Len(s) - n + 1
         /\ \A k \in n..Len(s) : SubSeq(s, n, Len(s))[k - n + 1] = s[k]
<1> DEFINE r == SubSeq(s, n, Len(s))
<1>1. Len(s) \in Nat
  OBVIOUS
<1>2. /\ r \in Seq(S) /\ Len(r) = Len(s) - n + 1
      /\ \A k \in 1..Len(s) - n + 1 : r[k] = s[n + k - 1]
  BY <1>1, Slice
<1> HIDE DEF r
<1>3. ASSUME NEW k \in n..Len(s)  PROVE r[k - n + 1] = s[k]
  <2>1. k - n + 1 \in 1..Len(s) - n + 1 /\ n + (k - n + 1) - 1 = k
    BY <1>1
  <2> QED BY <1>2, <2>1
<1> QED BY <1>2, <1>3 DEF r

\* A sequence without its i-th element.
LEMMA CutOut ==
  ASSUME NEW S, NEW s \in Seq(S), NEW i \in 1..Len(s)
  PROVE  LET r == SubSeq(s, 1, i - 1) \o SubSeq(s, i + 1, Len(s)) IN
         /\ r \in Seq(S) /\ Len(r) = Len(s) - 1
         /\ \A k \in 1..Len(s) - 1 : r[k] = IF k < i THEN s[k] ELSE s[k + 1]
<1> DEFINE x == SubSeq(s, 1, i - 1)
           y == SubSeq(s, i + 1, Len(s))
           r == x \o y
<1>1. Len(s) \in Nat /\ i \in Nat /\ i - 1 \in 0..Len(s) /\ i + 1 \in 1..Len(s) + 1
  OBVIOUS
<1>2. x \in Seq(S) /\ Len(x) = i - 1 /\ \A k \in 1..i - 1 : x[k] = s[k]
  BY <1>1, FirstOnes
<1>3. /\ y \in Seq(S) /\ Len(y) = Len(s) - (i + 1) + 1
      /\ \A k \in i + 1..Len(s) : y[k - (i + 1) + 1] = s[k]
  BY <1>1, LastOnes
<1> HIDE DEF x, y
<1>4. /\ r \in Seq(S) /\ Len(r) = Len(x) + Len(y)
      /\ \A k \in 1..Len(x) + Len(y) : r[k] = IF k <= Len(x) THEN x[k] ELSE y[k - Len(x)]
  BY <1>2, <1>3, ConcatProperties
<1> HIDE DEF r
<1>5. Len(r) = Len(s) - 1
  BY <1>1, <1>2, <1>3, <1>4
<1>6. ASSUME NEW k \in 1..Len(s) - 1  PROVE r[k] = IF k < i THEN s[k] ELSE s[k + 1]
  <2>1. CASE k < i
    <3>1. k \in 1..i - 1 /\ k \in 1..Len(x) + Len(y) /\ k <= Len(x)
      BY <1>1, <1>2, <1>3, <2>1
    <3> QED BY <1>2, <1>4, <2>1, <3>1
  <2>2. CASE ~(k < i)
    <3>1. /\ k + 1 \in i + 1..Len(s) /\ (k + 1) - (i + 1) + 1 = k - Len(x)
          /\ k \in 1..Len(x) + Len(y) /\ ~(k <= Len(x))
      BY <1>1, <1>2, <1>3, <2>2
    <3>2. y[k - Len(x)] = s[k + 1]
      BY <1>3, <3>1
    <3> QED BY <1>4, <2>2, <3>1, <3>2
  <2> QED BY <2>1, <2>2
<1> QED BY <1>4, <1>5, <1>6 DEF r, x, y

\* A sequence with e put in before its i-th element.
LEMMA PutIn ==
  ASSUME NEW S, NEW s \in Seq(S), NEW i \in 1..Len(s), NEW e \in S
  PROVE  LET r == SubSeq(s, 1, i - 1) \o <<e>> \o SubSeq(s, i, Len(s)) IN
         /\ r \in Seq(S) /\ Len(r) = Len(s) + 1
         /\ \A k \in 1..Len(s) + 1 : r[k] = IF k < i THEN s[k] ELSE IF k = i THEN e ELSE s[k - 1]
<1> DEFINE x == SubSeq(s, 1, i - 1)
           y == SubSeq(s, i, Len(s))
           z == x \o <<e>>
           r == z \o y
<1>1. Len(s) \in Nat /\ i \in Nat /\ i - 1 \in 0..Len(s) /\ i \in 1..Len(s) + 1
  OBVIOUS
<1>2. x \in Seq(S) /\ Len(x) = i - 1 /\ \A k \in 1..i - 1 : x[k] = s[k]
  BY <1>1, FirstOnes
<1>3. /\ y \in Seq(S) /\ Len(y) = Len(s) - i + 1
      /\ \A k \in i..Len(s) : y[k - i + 1] = s[k]
  BY <1>1, LastOnes
<1> HIDE DEF x, y
<1>4. <<e>> \in Seq(S) /\ Len(<<e>>) = 1 /\ <<e>>[1] = e
  OBVIOUS
<1>5. /\ z \in Seq(S) /\ Len(z) = Len(x) + Len(<<e>>)
      /\ \A k \in 1..Len(x) + Len(<<e>>) : z[k] = IF k <= Len(x) THEN x[k] ELSE <<e>>[k - Len(x)]
  BY <1>2, <1>4, ConcatProperties
<1> HIDE DEF z
<1>6. z \in Seq(S) /\ Len(z) = i /\ z[i] = e /\ \A k \in 1..i - 1 : z[k] = s[k]
  <2>1. Len(z) = i
    BY <1>1, <1>2, <1>4, <1>5
  <2>2. z[i] = e
    <3>1. i \in 1..Len(x) + Len(<<e>>) /\ ~(i <= Len(x)) /\ i - Len(x) = 1
      BY <1>1, <1>2, <1>4
    <3> QED BY <1>4, <1>5, <3>1
  <2>3. ASSUME NEW k \in 1..i - 1  PROVE z[k] = s[k]
    <3>1. k \in 1..Len(x) + Len(<<e>>) /\ k <= Len(x)
      BY <1>1, <1>2, <1>4
    <3> QED BY <1>2, <1>5, <3>1
  <2> QED BY <1>5, <2>1, <2>2, <2>3
<1>7. /\ r \in Seq(S) /\ Len(r) = Len(z) + Len(y)
      /\ \A k \in 1..Len(z) + Len(y) : r[k] = IF k <= Len(z) THEN z[k] ELSE y[k - Len(z)]
  BY <1>3, <1>6, ConcatProperties
<1> HIDE DEF r
<1>8. Len(r) = Len(s) + 1
  BY <1>1, <1>3, <1>6, <1>7
<1>9. ASSUME NEW k \in 1..Len(s) + 1
      PROVE  r[k] = IF k < i THEN s[k] ELSE IF k = i THEN e ELSE s[k - 1]
  <2>1. k \in 1..Len(z) + Len(y)
    BY <1>1, <1>3, <1>6
  <2>2. CASE k < i
    <3>1. k <= Len(z) /\ k \in 1..i - 1
      BY <1>1, <1>6, <2>2
    <3> QED BY <1>6, <1>7, <2>1, <2>2, <3>1
  <2>3. CASE k = i
    BY <1>1, <1>6, <1>7, <2>1, <2>3
  <2>4. CASE k > i
    <3>1. k - 1 \in i..Len(s) /\ (k - 1) - i + 1 = k - Len(z) /\ ~(k <= Len(z)) /\ ~(k < i) /\ k # i
      BY <1>1, <1>6, <2>4
    <3>2. y[k - Len(z)] = s[k - 1]
      BY <1>3, <3>1
    <3> QED BY <1>7, <2>1, <3>1, <3>2
  <2> QED BY <1>1, <2>2, <2>3, <2>4
<1> QED BY <1>7, <1>8, <1>9 DEF r, z, x, y

\* A node before a sequence, and what is cut off such a one.
LEMMA ConsFacts ==
  ASSUME NEW S, NEW n \in S, NEW t \in Seq(S)
  PROVE  /\ Len(<<n>> \o t) = 1 + Len(t)
         /\ \A m \in 1..1 + Len(t) : SubSeq(<<n>> \o t, 1, m) = <<n>> \o SubSeq(t, 1, m - 1)
<1> DEFINE s == <<n>> \o t
<1>1. <<n>> \in Seq(S) /\ Len(<<n>>) = 1 /\ Len(t) \in Nat
  OBVIOUS
<1>2. /\ s \in Seq(S) /\ Len(s) = 1 + Len(t)
      /\ \A j \in 1..1 + Len(t) : s[j] = IF j <= 1 THEN <<n>>[j] ELSE t[j - 1]
  BY <1>1, ConcatProperties
<1>3. s[1] = n /\ \A j \in 1..Len(t) : s[j + 1] = t[j]
  BY <1>1, <1>2
<1> HIDE DEF s
<1>4. ASSUME NEW m \in 1..1 + Len(t)  PROVE SubSeq(s, 1, m) = <<n>> \o SubSeq(t, 1, m - 1)
  <2> DEFINE x == SubSeq(s, 1, m)
             y == SubSeq(t, 1, m - 1)
             z == <<n>> \o y
  <2>1. x \in Seq(S) /\ Len(x) = m /\ \A k \in 1..m : x[k] = s[k]
    BY <1>1, <1>2, FirstOnes
  <2>2. y \in Seq(S) /\ Len(y) = m - 1 /\ \A k \in 1..m - 1 : y[k] = t[k]
    <3>1. m - 1 \in 0..Len(t)
      BY <1>1
    <3> QED BY <3>1, FirstOnes
  <2> HIDE DEF x, y
  <2>3. /\ z \in Seq(S) /\ Len(z) = 1 + Len(y)
        /\ \A j \in 1..1 + Len(y) : z[j] = IF j <= 1 THEN <<n>>[j] ELSE y[j - 1]
    BY <1>1, <2>2, ConcatProperties
  <2> HIDE DEF z
  <2>4. Len(x) = Len(z) /\ \A j \in 1..Len(x) : x[j] = z[j]
    <3>1. Len(x) = Len(z)
      BY <2>1, <2>2, <2>3
    <3>2. ASSUME NEW j \in 1..m  PROVE x[j] = z[j]
      <4>1. CASE j = 1
        BY <1>1, <1>3, <2>1, <2>2, <2>3, <4>1
      <4>2. CASE j > 1
        <5>1. j - 1 \in 1..Len(t) /\ j - 1 \in 1..m - 1 /\ (j - 1) + 1 = j
          BY <1>1, <4>2
        <5>2. x[j] = s[j] /\ s[j] = t[j - 1]
          BY <1>3, <2>1, <5>1
        <5>3. y[j - 1] = t[j - 1]
          BY <2>2, <5>1
        <5>4. z[j] = y[j - 1]
          BY <2>2, <2>3, <4>2, <5>1
        <5> QED BY <5>2, <5>3, <5>4
      <4> QED BY <4>1, <4>2
    <3> QED BY <2>1, <3>1, <3>2
  <2>5. x = z
    BY <2>1, <2>3, <2>4, SeqEqual
  <2> QED BY <2>5 DEF x, y, z
<1> QED BY <1>2, <1>4 DEF s

-----------------------------------------------------------------------------
(***************************************************************************)
(* Following a link f, `next` or `parent`.  Where it ends, the nodes from n *)
(* on form one sequence, since a set of nodes from which they do not would *)
(* be closed under f.                                                      *)
(***************************************************************************)
Link == [Node -> Node \cup {None}]
Ends(f) == \A S \in SUBSET Node : S # {} => \E n \in S : f[n] \notin S

Along(f, n, s) ==
  /\ s \in Seq(Node)
  /\ IF n = None THEN Len(s) = 0 ELSE Len(s) > 0 /\ s[1] = n
  /\ \A i \in 1..Len(s) : f[s[i]] = IF i < Len(s) THEN s[i + 1] ELSE None

\* A run goes on from each of its nodes.
LEMMA AlongFrom ==
  ASSUME NEW f, NEW n, NEW s, Along(f, n, s), NEW i \in 1..Len(s)
  PROVE  Along(f, s[i], SubSeq(s, i, Len(s)))
<1> DEFINE t == SubSeq(s, i, Len(s))
<1>1. s \in Seq(Node) /\ Len(s) \in Nat /\ \A j \in 1..Len(s) : s[j] \in Node
  BY DEF Along
<1>2. /\ t \in Seq(Node) /\ Len(t) = Len(s) - i + 1
      /\ \A j \in 1..Len(s) - i + 1 : t[j] = s[i + j - 1]
  BY <1>1, Slice
<1> HIDE DEF t
<1>3. s[i] # None /\ Len(t) > 0 /\ t[1] = s[i]
  BY <1>1, <1>2, NoneAssumption
<1>4. ASSUME NEW j \in 1..Len(t)
      PROVE  f[t[j]] = IF j < Len(t) THEN t[j + 1] ELSE None
  <2>1. i + j - 1 \in 1..Len(s) /\ t[j] = s[i + j - 1] /\ (j < Len(t) <=> i + j - 1 < Len(s))
    BY <1>1, <1>2
  <2>2. j < Len(t) => t[j + 1] = s[i + j]
    BY <1>1, <1>2
  <2>3. f[s[i + j - 1]] = IF i + j - 1 < Len(s) THEN s[(i + j - 1) + 1] ELSE None
    BY <2>1 DEF Along
  <2>4. (i + j - 1) + 1 = i + j
    BY <1>1
  <2> QED BY <2>1, <2>2, <2>3, <2>4
<1>5. Along(f, s[i], t)
  BY <1>2, <1>3, <1>4 DEF Along
<1> QED BY <1>5 DEF t

\* Its first node and the run from the next one.
LEMMA AlongTail ==
  ASSUME NEW f, NEW n \in Node, NEW s, Along(f, n, s)
  PROVE  /\ Along(f, f[n], SubSeq(s, 2, Len(s)))
         /\ s = <<n>> \o SubSeq(s, 2, Len(s))
<1> DEFINE t == SubSeq(s, 2, Len(s))
<1>1. s \in Seq(Node) /\ Len(s) \in Nat /\ Len(s) > 0 /\ s[1] = n
  BY NoneAssumption DEF Along
<1>2. /\ t \in Seq(Node) /\ Len(t) = Len(s) - 1
      /\ \A j \in 1..Len(s) - 1 : t[j] = s[j + 1]
  <2>1. /\ t \in Seq(Node) /\ Len(t) = Len(s) - 2 + 1
        /\ \A j \in 1..Len(s) - 2 + 1 : t[j] = s[2 + j - 1]
    <3>1. PICK x \in Int : x = 2
      OBVIOUS
    <3>2. 1 <= x /\ Len(s) \in Int /\ Len(s) <= Len(s) /\ x <= Len(s) + 1
      BY <1>1, <3>1
    <3>3. /\ SubSeq(s, x, Len(s)) \in Seq(Node) /\ Len(SubSeq(s, x, Len(s))) = Len(s) - x + 1
          /\ \A j \in 1..Len(s) - x + 1 : SubSeq(s, x, Len(s))[j] = s[x + j - 1]
      BY <1>1, <3>2, Slice
    <3> QED BY <3>1, <3>3
  <2> HIDE DEF t
  <2> QED BY <1>1, <2>1
<1> HIDE DEF t
<1>3. f[n] = IF 1 < Len(s) THEN s[2] ELSE None
  BY <1>1 DEF Along
<1>4. Along(f, f[n], t)
  <2>1. CASE Len(s) = 1
    BY <1>2, <1>3, <2>1 DEF Along
  <2>2. CASE Len(s) > 1
    <3>1. Along(f, s[2], SubSeq(s, 2, Len(s)))
      BY <1>1, <2>2, AlongFrom
    <3> QED BY <1>1, <1>3, <2>2, <3>1 DEF t
  <2>a. \A l \in Nat : l > 0 => l = 1 \/ l > 1
    OBVIOUS
  <2>3. Len(s) = 1 \/ Len(s) > 1
    BY <1>1, <2>a
  <2> QED BY <2>1, <2>2, <2>3
<1>5. s = <<n>> \o t
  <2>1. <<n>> \in Seq(Node) /\ Len(<<n>>) = 1 /\ <<n>>[1] = n
    OBVIOUS
  <2>2. /\ <<n>> \o t \in Seq(Node) /\ Len(<<n>> \o t) = 1 + Len(t)
        /\ \A j \in 1..1 + Len(t) : (<<n>> \o t)[j] = IF j <= 1 THEN <<n>>[j] ELSE t[j - 1]
    BY <1>2, <2>1, ConcatProperties
  <2> DEFINE r == <<n>> \o t
  <2>3. r \in Seq(Node) /\ Len(r) = Len(s) /\ \A j \in 1..Len(s) : s[j] = r[j]
    BY <1>1, <1>2, <2>1, <2>2
  <2> HIDE DEF r
  <2>4. s = r
    BY ONLY <1>1, <2>3, SeqEqual
  <2> QED BY <2>4 DEF r
<1> QED BY <1>4, <1>5 DEF t

\* A node before a run makes a run.
LEMMA AlongCons ==
  ASSUME NEW f \in Link, NEW n \in Node, NEW t, Along(f, f[n], t)
  PROVE  Along(f, n, <<n>> \o t)
<1> DEFINE s == <<n>> \o t
<1>1. t \in Seq(Node) /\ Len(t) \in Nat
  BY DEF Along
<1>2. <<n>> \in Seq(Node) /\ Len(<<n>>) = 1 /\ <<n>>[1] = n
  OBVIOUS
<1>3. /\ s \in Seq(Node) /\ Len(s) = 1 + Len(t)
      /\ \A j \in 1..1 + Len(t) : s[j] = IF j <= 1 THEN <<n>>[j] ELSE t[j - 1]
  BY <1>1, <1>2, ConcatProperties
<1> HIDE DEF s
<1>4. s[1] = n /\ \A j \in 1..Len(t) : s[j + 1] = t[j]
  BY <1>1, <1>2, <1>3
<1>5. f[n] = IF Len(t) = 0 THEN None ELSE t[1]
  BY <1>1 DEF Along
<1>6. ASSUME NEW i \in 1..Len(s)
      PROVE  f[s[i]] = IF i < Len(s) THEN s[i + 1] ELSE None
  <2>1. CASE i = 1
    BY <1>1, <1>3, <1>4, <1>5, <2>1
  <2>2. CASE i > 1
    <3>1. i - 1 \in 1..Len(t) /\ s[i] = t[i - 1] /\ (i < Len(s) <=> i - 1 < Len(t))
      BY <1>1, <1>3, <2>2
    <3>2. i < Len(s) => s[i + 1] = t[(i - 1) + 1]
      BY <1>1, <1>3, <2>2
    <3>3. f[t[i - 1]] = IF i - 1 < Len(t) THEN t[(i - 1) + 1] ELSE None
      BY <3>1 DEF Along
    <3> QED BY <3>1, <3>2, <3>3
  <2> QED BY <1>1, <1>3, <2>1, <2>2
<1> QED BY <1>1, <1>3, <1>4, <1>6, NoneAssumption DEF Along, s

\* From every node there is a run.
LEMMA AlongExists ==
  ASSUME NEW f \in Link, Ends(f), NEW n \in Node \cup {None}
  PROVE  \E s : Along(f, n, s)
<1>0. Along(f, None, << >>)
  BY DEF Along
<1> DEFINE S == {m \in Node : ~\E s : Along(f, m, s)}
<1>1. ASSUME NEW m \in S  PROVE f[m] \in S
  <2>1. ~\E t : Along(f, f[m], t)
    BY AlongCons
  <2>2. f[m] \in Node
    BY <1>0, <2>1 DEF Link
  <2> QED BY <2>1, <2>2
<1>2. S \in SUBSET Node
  OBVIOUS
<1> HIDE DEF S
<1>3. S = {}
  BY <1>1, <1>2 DEF Ends
<1> QED BY <1>0, <1>3 DEF S

\* And only one.
LEMMA AlongUnique ==
  ASSUME NEW f \in Link, Ends(f), NEW n \in Node \cup {None},
         NEW s, NEW t, Along(f, n, s), Along(f, n, t)
  PROVE  s = t
<1>0. \A x : Along(f, None, x) => x = << >>
  BY DEF Along
<1> DEFINE S == {m \in Node : \E x, y : Along(f, m, x) /\ Along(f, m, y) /\ x # y}
<1>1. ASSUME NEW m \in S  PROVE f[m] \in S
  <2>1. PICK x, y : Along(f, m, x) /\ Along(f, m, y) /\ x # y
    OBVIOUS
  <2> DEFINE u == SubSeq(x, 2, Len(x))
             v == SubSeq(y, 2, Len(y))
  <2>2. Along(f, f[m], u) /\ x = <<m>> \o u
    BY <2>1, AlongTail
  <2>3. Along(f, f[m], v) /\ y = <<m>> \o v
    BY <2>1, AlongTail
  <2> HIDE DEF u, v
  <2>4. u # v
    BY <2>1, <2>2, <2>3
  <2>5. f[m] \in Node
    BY <1>0, <2>2, <2>3, <2>4 DEF Link
  <2> QED BY <2>2, <2>3, <2>4, <2>5
<1>2. S \in SUBSET Node
  OBVIOUS
<1> HIDE DEF S
<1>3. S = {}
  BY <1>1, <1>2 DEF Ends
<1> QED BY <1>0, <1>3 DEF S

\* It has no node twice, and no more nodes than there are.
LEMMA AlongOnce ==
  ASSUME NEW f \in Link, Ends(f), NEW n \in Node \cup {None}, NEW s, Along(f, n, s)
  PROVE  /\ \A i, j \in 1..Len(s) : s[i] = s[j] => i = j
         /\ IsFiniteSet(Node) => Len(s) <= Cardinality(Node)
<1>1. s \in Seq(Node) /\ Len(s) \in Nat /\ \A i \in 1..Len(s) : s[i] \in Node
  BY DEF Along
<1>2. ASSUME NEW i \in 1..Len(s), NEW j \in 1..Len(s), s[i] = s[j]  PROVE i = j
  <2>1. Along(f, s[i], SubSeq(s, i, Len(s))) /\ Along(f, s[i], SubSeq(s, j, Len(s)))
    BY <1>2, AlongFrom
  <2>2. SubSeq(s, i, Len(s)) = SubSeq(s, j, Len(s))
    BY <1>1, <2>1, AlongUnique
  <2>3. Len(SubSeq(s, i, Len(s))) = Len(s) - i + 1 /\ Len(SubSeq(s, j, Len(s))) = Len(s) - j + 1
    BY <1>1, Slice
  <2>4. Len(s) - i + 1 = Len(s) - j + 1
    BY <2>2, <2>3
  <2> QED BY <1>1, <2>4
<1>3. ASSUME IsFiniteSet(Node)  PROVE Len(s) <= Cardinality(Node)
  <2>1. s \in [1..Len(s) -> Node]
    BY <1>1
  <2>2. s \in Injection(1..Len(s), Node)
    BY <1>2, <2>1 DEF Injection, IsInjective
  <2>3. Cardinality(1..Len(s)) = Len(s)
    <3>1. 1 \in Int /\ Len(s) \in Int
      BY <1>1
    <3>2. Cardinality(1..Len(s)) = IF 1 > Len(s) THEN 0 ELSE Len(s) - 1 + 1
      BY ONLY <3>1, FS_Interval
    <3> QED BY <1>1, <3>2
  <2> QED BY <1>3, <2>2, <2>3, FS_Injection
<1> QED BY <1>2, <1>3

\* Followed yields that sequence.
LEMMA FollowedAlong ==
  ASSUME NEW f \in Link, Ends(f), IsFiniteSet(Node), NEW l \in Node \cup {None}
  PROVE  Along(f, l, Followed(f, l))
<1> DEFINE C == Cardinality(Node)
           run[n \in Node \cup {None}] == CHOOSE s : Along(f, n, s)
           least(i, k) == IF i <= k THEN i ELSE k
           start == [i \in 0..C |-> [n \in Node \cup {None} |-> SubSeq(run[n], 1, least(i, Len(run[n])))]]
           Unfolds(g) == g = [i \in 0..C |-> [n \in Node \cup {None} |->
                              IF n = None \/ i = 0 THEN << >> ELSE <<n>> \o g[i - 1][f[n]]]]
           from == CHOOSE g : Unfolds(g)
<1>1. Followed(f, l) = from[C][l]
  BY DEF Followed
<1>2. C \in Nat
  BY FS_CardinalityType
<1>3. \A n \in Node \cup {None} : Along(f, n, run[n])
  BY AlongExists
<1> HIDE DEF run
<1>4. ASSUME NEW n \in Node \cup {None}
      PROVE  run[n] \in Seq(Node) /\ Len(run[n]) \in Nat /\ Len(run[n]) <= C
  <2>1. PICK s : s = run[n]
    OBVIOUS
  <2>2. Along(f, n, s)
    BY <1>3, <2>1
  <2>3. Len(s) <= C
    BY <2>2, AlongOnce
  <2>4. s \in Seq(Node) /\ Len(s) \in Nat
    BY <2>2 DEF Along
  <2> QED BY <2>1, <2>3, <2>4
<1>5. ASSUME NEW n \in Node
      PROVE  f[n] \in Node \cup {None} /\ run[n] = <<n>> \o run[f[n]]
  <2>1. f[n] \in Node \cup {None}
    BY DEF Link
  <2>2. Along(f, n, <<n>> \o run[f[n]])
    BY <1>3, <2>1, AlongCons
  <2> QED BY <1>3, <2>1, <2>2, AlongUnique
<1>6. run[None] = << >>
  <2>1. Along(f, None, run[None])
    BY <1>3
  <2> QED BY <2>1 DEF Along
<1>7. Unfolds(start)
  <2> SUFFICES ASSUME NEW i \in 0..C, NEW n \in Node \cup {None}
               PROVE  SubSeq(run[n], 1, least(i, Len(run[n])))
                        = IF n = None \/ i = 0 THEN << >> ELSE <<n>> \o start[i - 1][f[n]]
    OBVIOUS
  <2>1. CASE n = None
    <3>1. \A k \in 0..C : SubSeq(<< >>, 1, least(k, 0)) = << >>
      <4> SUFFICES ASSUME NEW k \in 0..C  PROVE SubSeq(<< >>, 1, least(k, 0)) = << >>
        OBVIOUS
      <4>1. least(k, 0) = 0
        BY <1>2
      <4> QED BY <4>1, SubSeqEmpty
    <3> QED BY <1>6, <2>1, <3>1
  <2>2. CASE i = 0
    <3>1. least(0, Len(run[n])) = 0
      BY <1>4
    <3> QED BY <2>2, <3>1, SubSeqEmpty
  <2>3. CASE n # None /\ i # 0
    <3> DEFINE t == run[f[n]]
    <3>1. n \in Node /\ run[n] = <<n>> \o t /\ f[n] \in Node \cup {None}
      BY <1>5, <2>3
    <3>2. t \in Seq(Node) /\ Len(t) \in Nat
      BY <1>4, <3>1
    <3>3. start[i - 1][f[n]] = SubSeq(t, 1, least(i - 1, Len(t)))
      <4>1. i - 1 \in 0..C
        BY <1>2, <2>3
      <4> QED BY <3>1, <4>1
    <3> HIDE DEF t, start
    <3>4. Len(<<n>> \o t) = 1 + Len(t)
      BY <3>1, <3>2, ConsFacts
    <3>5. least(i, 1 + Len(t)) \in 1..1 + Len(t) /\ least(i, 1 + Len(t)) - 1 = least(i - 1, Len(t))
      BY <1>2, <2>3, <3>2
    <3> DEFINE m == least(i, 1 + Len(t))
    <3> HIDE DEF m
    <3>6. SubSeq(<<n>> \o t, 1, m) = <<n>> \o SubSeq(t, 1, m - 1)
      BY <3>1, <3>2, <3>5, ConsFacts DEF m
    <3> QED BY <2>3, <3>1, <3>3, <3>4, <3>5, <3>6 DEF m
  <2> HIDE DEF start
  <2> QED BY <2>1, <2>2, <2>3
<1>8. Unfolds(from)
  BY <1>7
<1> HIDE DEF from, start, C
<1>9. \A i \in 0..C : \A n \in Node \cup {None} :
        from[i][n] = IF n = None \/ i = 0 THEN << >> ELSE <<n>> \o from[i - 1][f[n]]
  <2>1. ASSUME NEW i \in 0..C
        PROVE  from[i] = [n \in Node \cup {None} |->
                            IF n = None \/ i = 0 THEN << >> ELSE <<n>> \o from[i - 1][f[n]]]
    BY <1>8
  <2> QED BY <2>1
<1> DEFINE S == {n \in Node : \E i \in 0..C : Len(run[n]) <= i /\ from[i][n] # run[n]}
<1>10. ASSUME NEW n \in S  PROVE f[n] \in S
  <2>1. PICK i \in 0..C : Len(run[n]) <= i /\ from[i][n] # run[n]
    OBVIOUS
  <2> DEFINE t == run[f[n]]
  <2>2. n \in Node /\ n # None /\ f[n] \in Node \cup {None} /\ run[n] = <<n>> \o t
    BY <1>5, NoneAssumption
  <2>3. t \in Seq(Node) /\ Len(t) \in Nat
    BY <1>4, <2>2
  <2> HIDE DEF t
  <2>4. Len(run[n]) = 1 + Len(t)
    BY <2>2, <2>3, ConsFacts
  <2>5. i # 0 /\ i - 1 \in 0..C /\ Len(t) <= i - 1
    BY <1>2, <2>1, <2>3, <2>4
  <2>6. from[i - 1][f[n]] # t
    <3>1. from[i][n] = <<n>> \o from[i - 1][f[n]]
      BY <1>9, <2>1, <2>2, <2>5
    <3> QED BY <2>1, <2>2, <3>1
  <2>7. f[n] # None
    BY <1>6, <1>9, <2>2, <2>5, <2>6 DEF t
  <2> QED BY <2>2, <2>5, <2>6, <2>7 DEF t
<1>11. S \in SUBSET Node
  OBVIOUS
<1>12. l \in Node \cup {None} /\ C \in 0..C
  BY <1>2 DEF Link
<1> HIDE DEF S
<1>13. S = {}
  BY <1>10, <1>11 DEF Ends
<1>14. from[C][l] = run[l]
  <2>1. CASE l = None
    BY <1>6, <1>9, <1>12, <2>1
  <2>2. CASE l \in Node
    BY <1>4, <1>12, <1>13, <2>2 DEF S
  <2> QED BY <1>12, <2>1, <2>2
<1> QED BY <1>1, <1>3, <1>12, <1>14

-----------------------------------------------------------------------------
(***************************************************************************)
(* Lists of children: what follows a node along `next`.                    *)
(***************************************************************************)
Run(a, n, s) ==
  /\ s \in Seq(Node)
  /\ IF n = None THEN Len(s) = 0 ELSE Len(s) > 0 /\ s[1] = n
  /\ \A i \in 1..Len(s) : a[s[i]].next = IF i < Len(s) THEN s[i + 1] ELSE None

Nexts(a) == [n \in Node |-> a[n].next]

\* `next` is such a link.
LEMMA RunAlong ==
  ASSUME NEW a \in [Node -> Links]
  PROVE  /\ Nexts(a) \in Link /\ (ListsEnd(a) => Ends(Nexts(a)))
         /\ \A n, s : Run(a, n, s) <=> Along(Nexts(a), n, s)
<1>1. Nexts(a) \in Link
  BY DEF Nexts, Link, Links
<1>2. ListsEnd(a) => Ends(Nexts(a))
  BY DEF ListsEnd, Ends, Nexts
<1>3. \A n \in Node : Nexts(a)[n] = a[n].next
  BY DEF Nexts
<1>4. ASSUME NEW n, NEW s  PROVE Run(a, n, s) <=> Along(Nexts(a), n, s)
  <2>1. s \in Seq(Node) => \A i \in 1..Len(s) : Nexts(a)[s[i]] = a[s[i]].next
    BY <1>3
  <2> QED BY <2>1 DEF Run, Along
<1> QED BY <1>1, <1>2, <1>4

\* The first node of a run, and the run from the next one.
LEMMA RunTail ==
  ASSUME NEW a \in [Node -> Links], NEW n \in Node, NEW s, Run(a, n, s)
  PROVE  /\ Run(a, a[n].next, SubSeq(s, 2, Len(s)))
         /\ s = <<n>> \o SubSeq(s, 2, Len(s))
<1>1. Along(Nexts(a), n, s)
  BY RunAlong
<1>2. Along(Nexts(a), Nexts(a)[n], SubSeq(s, 2, Len(s))) /\ s = <<n>> \o SubSeq(s, 2, Len(s))
  BY <1>1, AlongTail
<1>3. Nexts(a)[n] = a[n].next
  BY DEF Nexts
<1> QED BY <1>2, <1>3, RunAlong

-----------------------------------------------------------------------------
(* What the iterator yields.                                               *)

\* s is the list of children of p.
Lists(a, p, s) ==
  /\ Run(a, a[p].first, s)
  /\ \A i, j \in 1..Len(s) : s[i] = s[j] => i = j
  /\ \A c \in Node : a[c].parent = p <=> \E i \in 1..Len(s) : s[i] = c

\* The run from the first child of p has every child of p, and nothing else.
LEMMA RunLists ==
  ASSUME NEW a \in [Node -> Links], Agree(a), ListsEnd(a), NEW p \in Node,
         NEW s, Run(a, a[p].first, s)
  PROVE  Lists(a, p, s)
<1>1. a[p].first \in Node \cup {None}
  BY DEF Links
<1>2. \A i, j \in 1..Len(s) : s[i] = s[j] => i = j
  <2>1. PICK n \in Node \cup {None} : n = a[p].first
    BY <1>1
  <2>2. Run(a, n, s)
    BY <2>1
  <2>3. Along(Nexts(a), n, s) /\ Nexts(a) \in Link /\ Ends(Nexts(a))
    BY <2>2, RunAlong
  <2> QED BY <2>3, AlongOnce
<1>3. s \in Seq(Node) /\ Len(s) \in Nat /\ \A i \in 1..Len(s) : s[i] \in Node
  BY DEF Run
\* The parent is the same all along a run.
<1>4. \A m \in Node : \A t : Run(a, m, t) => \A i \in 1..Len(t) : a[t[i]].parent = a[m].parent
  <2> DEFINE S == {m \in Node : \E t : Run(a, m, t) /\ \E i \in 1..Len(t) : a[t[i]].parent # a[m].parent}
  <2>1. ASSUME NEW m \in S  PROVE a[m].next \in S
    <3>1. PICK t : Run(a, m, t) /\ \E i \in 1..Len(t) : a[t[i]].parent # a[m].parent
      OBVIOUS
    <3>2. PICK i \in 1..Len(t) : a[t[i]].parent # a[m].parent
      BY <3>1
    <3>3. t \in Seq(Node) /\ Len(t) \in Nat /\ t[1] = m
      BY <3>1, NoneAssumption DEF Run
    <3> DEFINE u == SubSeq(t, 2, Len(t))
    <3>4. Run(a, a[m].next, u) /\ t = <<m>> \o u
      BY <3>1, RunTail
    <3> HIDE DEF u
    <3>5. u \in Seq(Node) /\ Len(u) \in Nat
      BY <3>4 DEF Run
    <3>6. Len(t) = 1 + Len(u) /\ \A j \in 1..Len(u) : t[j + 1] = u[j]
      <4>1. <<m>> \in Seq(Node) /\ Len(<<m>>) = 1
        OBVIOUS
      <4>2. /\ Len(<<m>> \o u) = 1 + Len(u)
            /\ \A j \in 1..1 + Len(u) : (<<m>> \o u)[j] = IF j <= 1 THEN <<m>>[j] ELSE u[j - 1]
        BY <3>5, <4>1, ConcatProperties
      <4>3. \A j \in 1..Len(u) : t[j + 1] = u[(j + 1) - 1]
        BY <3>4, <3>5, <4>2
      <4> QED BY <3>4, <3>5, <4>2, <4>3
    <3>7. i # 1 /\ i - 1 \in 1..Len(u) /\ (i - 1) + 1 = i
      BY <3>2, <3>3, <3>5, <3>6
    <3>8. a[u[i - 1]].parent # a[m].parent
      BY <3>2, <3>6, <3>7
    <3>9. a[m].next # None
      BY <3>4, <3>7 DEF Run
    <3>10. a[m].next \in Node /\ a[a[m].next].parent = a[m].parent
      BY <3>9 DEF Agree, SiblingsAgree, Links
    <3> QED BY <3>4, <3>7, <3>8, <3>10
  <2>2. S \in SUBSET Node
    OBVIOUS
  <2> HIDE DEF S
  <2>3. S = {}
    BY <2>1, <2>2 DEF ListsEnd
  <2> QED BY <2>3 DEF S
<1>5. ASSUME NEW i \in 1..Len(s)  PROVE a[s[i]].parent = p
  <2>1. a[p].first \in Node
    BY <1>1, <1>3 DEF Run
  <2>2. a[a[p].first].parent = p
    BY <2>1 DEF Agree, EndsAgree
  <2> QED BY <1>4, <2>1, <2>2
\* A child left out would have its next sibling left out as well.
<1>6. ASSUME NEW c \in Node, a[c].parent = p  PROVE \E i \in 1..Len(s) : s[i] = c
  <2> DEFINE S == {m \in Node : a[m].parent = p /\ \A i \in 1..Len(s) : s[i] # m}
  <2>1. ASSUME NEW m \in S  PROVE a[m].next \in S
    <3>1. m \in Node /\ a[m].parent = p /\ \A i \in 1..Len(s) : s[i] # m
      OBVIOUS
    <3>2. a[m].next # None
      <4> SUFFICES ASSUME a[m].next = None  PROVE FALSE
        OBVIOUS
      <4>1. a[p].last = m
        BY <3>1 DEF Agree, EndsAgree
      <4>2. a[p].first # None
        BY <3>1, <4>1, NoneAssumption DEF Agree, EndsTogether
      <4>3. Len(s) > 0
        BY <4>2 DEF Run
      <4>4. s[Len(s)] \in Node /\ a[s[Len(s)]].next = None /\ a[s[Len(s)]].parent = p
        BY <1>3, <1>5, <4>3 DEF Run
      <4>5. a[p].last = s[Len(s)]
        BY <4>4 DEF Agree, EndsAgree
      <4> QED BY <1>3, <3>1, <4>1, <4>3, <4>5
    <3>3. a[m].next \in Node /\ a[a[m].next].parent = p /\ a[a[m].next].prev = m
      BY <3>1, <3>2 DEF Agree, SiblingsAgree, Links
    <3>4. ASSUME NEW i \in 1..Len(s), s[i] = a[m].next  PROVE FALSE
      <4>1. CASE i = 1
        <5>1. a[p].first = s[i]
          BY <1>3, <4>1 DEF Run
        <5>2. a[s[i]].prev = None
          BY <1>3, <5>1 DEF Agree, EndsAgree
        <5> QED BY <3>1, <3>3, <3>4, <5>2, NoneAssumption
      <4>2. CASE i > 1
        <5>1. i - 1 \in 1..Len(s) /\ i - 1 < Len(s) /\ (i - 1) + 1 = i
          BY <1>3, <4>2
        <5>2. a[s[i - 1]].next = s[i]
          BY <5>1 DEF Run
        <5>3. s[i - 1] \in Node /\ s[i] \in Node
          BY <1>3, <5>1
        <5>4. a[s[i]].prev = s[i - 1]
          BY <5>2, <5>3, NoneAssumption DEF Agree, SiblingsAgree
        <5> QED BY <3>1, <3>3, <3>4, <5>1, <5>4
      <4> QED BY <1>3, <4>1, <4>2
    <3> QED BY <3>3, <3>4
  <2>2. S \in SUBSET Node
    OBVIOUS
  <2> HIDE DEF S
  <2>3. S = {}
    BY <2>1, <2>2 DEF ListsEnd
  <2> QED BY <1>6, <2>3 DEF S
<1> QED BY <1>2, <1>5, <1>6 DEF Lists

\* Arena::children yields the list of children, and no other sequence is one.
LEMMA ChildrenAre ==
  ASSUME NEW a \in [Node -> Links], Agree(a), ListsEnd(a), IsFiniteSet(Node), NEW p \in Node
  PROVE  /\ Lists(a, p, Children(a, p))
         /\ \A s : Run(a, a[p].first, s) => Children(a, p) = s
<1> DEFINE k == Children(a, p)
<1>0. Nexts(a) \in Link /\ Ends(Nexts(a)) /\ a[p].first \in Node \cup {None}
  BY RunAlong DEF Links
<1>1. Run(a, a[p].first, k)
  <2>1. k = Followed(Nexts(a), a[p].first)
    BY DEF Children, Nexts
  <2>2. Along(Nexts(a), a[p].first, k)
    BY <1>0, <2>1, FollowedAlong
  <2> QED BY <2>2, RunAlong
<1> HIDE DEF k
<1>2. Lists(a, p, k)
  BY <1>1, RunLists
<1>3. PICK n \in Node \cup {None} : n = a[p].first
  BY DEF Links
<1>4. ASSUME NEW s, Run(a, n, s)  PROVE k = s
  <2>1. Along(Nexts(a), n, k) /\ Along(Nexts(a), n, s)
    BY <1>1, <1>3, <1>4, RunAlong
  <2> QED BY <1>0, <2>1, AlongUnique
<1> QED BY <1>2, <1>3, <1>4 DEF k

\* The siblings of the i-th child.
LEMMA Neighbours ==
  ASSUME NEW a \in [Node -> Links], Agree(a), NEW p \in Node, NEW s, Lists(a, p, s),
         NEW i \in 1..Len(s)
  PROVE  /\ a[s[i]].next = IF i < Len(s) THEN s[i + 1] ELSE None
         /\ a[s[i]].prev = IF i > 1 THEN s[i - 1] ELSE None
         /\ s[i] \in Node /\ a[s[i]].parent = p
<1>1. /\ s \in Seq(Node) /\ Len(s) \in Nat /\ \A j \in 1..Len(s) : s[j] \in Node
      /\ a[s[i]].next = IF i < Len(s) THEN s[i + 1] ELSE None
  BY DEF Lists, Run
<1>2. \A j \in 1..Len(s) : a[s[j]].parent = p
  BY <1>1 DEF Lists
<1>3. CASE i = 1
  <2>1. a[p].first = s[1] /\ 1 \in 1..Len(s)
    BY <1>1, <1>3, NoneAssumption DEF Lists, Run
  <2>2. a[s[1]].prev = None
    BY <1>1, <2>1 DEF Agree, EndsAgree
  <2> QED BY <1>1, <1>2, <1>3, <2>2
<1>4. CASE i > 1
  <2>1. i - 1 \in 1..Len(s) /\ i - 1 < Len(s) /\ (i - 1) + 1 = i
    BY <1>1, <1>4
  <2>2. a[s[i - 1]].next = s[i]
    BY <2>1 DEF Lists, Run
  <2>3. s[i - 1] \in Node /\ s[i] \in Node
    BY <1>1, <2>1
  <2>4. a[s[i]].prev = s[i - 1]
    BY <2>2, <2>3, NoneAssumption DEF Agree, SiblingsAgree
  <2> QED BY <1>1, <1>2, <1>4, <2>4
<1> QED BY <1>1, <1>3, <1>4

\* A list an operation leaves alone.
LEMMA ListKept ==
  ASSUME NEW a, NEW b, NEW q, NEW s, Lists(a, q, s),
         b[q].first = a[q].first, \A i \in 1..Len(s) : b[s[i]].next = a[s[i]].next
  PROVE  Run(b, b[q].first, s)
BY DEF Lists, Run

\* What RemoveFirst does with a node that is there once, and with none.
LEMMA RemovedAt ==
  ASSUME NEW S, NEW s \in Seq(S), NEW i \in 1..Len(s), \A j \in 1..Len(s) : s[j] = s[i] => j = i
  PROVE  Tree!RemoveFirst(s, s[i]) = SubSeq(s, 1, i - 1) \o SubSeq(s, i + 1, Len(s))
<1>1. {j \in 1..Len(s) : s[j] = s[i]} = {i}
  OBVIOUS
<1>2. Tree!Min({i}) = i
  BY DEF Tree!Min
<1>3. Tree!SelectInSeq(s, LAMBDA v : v = s[i]) = i
  BY <1>1, <1>2 DEF Tree!SelectInSeq
<1> QED
  BY <1>3 DEF Tree!RemoveFirst, Tree!RemoveAt

\* unlink takes the node out of the list it is in.
LEMMA UnlinkedChildren ==
  ASSUME NEW a \in [Node -> Links], Agree(a), ListsEnd(a), IsFiniteSet(Node),
         NEW c \in Node, NEW p \in Node
  PROVE  Children(Unlinked(a, c), p) = Tree!RemoveFirst(Children(a, p), c)
<1> DEFINE u == Unlinked(a, c)
           s == Children(a, p)
<1>1. u \in [Node -> Links] /\ Agree(u) /\ ListsEnd(u)
  BY UnlinkedType, UnlinkedAgrees, UnlinkedLists
<1>2. Lists(a, p, s)
  BY ChildrenAre
<1>3. \A n \in Node : n # c => u[n].next = IF n = a[c].prev THEN a[c].next ELSE a[n].next
  BY DEF Unlinked
<1>4. u[p].first = IF p = a[c].parent /\ a[c].prev = None THEN a[c].next ELSE a[p].first
  BY DEF Unlinked
<1>5. \A t : Run(u, u[p].first, t) => Children(u, p) = t
  BY <1>1, ChildrenAre
<1> HIDE DEF u, s
<1>6. s \in Seq(Node) /\ Len(s) \in Nat /\ \A j \in 1..Len(s) : s[j] \in Node
  BY <1>2 DEF Lists, Run
<1>7. CASE a[c].parent # p
  <2>1. \A j \in 1..Len(s) : s[j] # c
    BY <1>2, <1>7 DEF Lists
  <2>2. \A j \in 1..Len(s) : s[j] # a[c].prev
    <3> SUFFICES ASSUME NEW j \in 1..Len(s), s[j] = a[c].prev  PROVE FALSE
      OBVIOUS
    <3>1. a[s[j]].parent = p
      BY <1>2, <1>6 DEF Lists
    <3>2. a[c].prev # None
      BY <1>6, NoneAssumption
    <3> QED BY <1>7, <3>1, <3>2 DEF Agree, SiblingsAgree
  <2>3. Run(u, u[p].first, s)
    BY <1>2, <1>3, <1>4, <1>6, <1>7, <2>1, <2>2, ListKept
  <2>4. Tree!RemoveFirst(s, c) = s
    BY <2>1 DEF Tree!RemoveFirst
  <2> QED BY <1>5, <2>3, <2>4 DEF u, s
<1>8. CASE a[c].parent = p
  <2>1. PICK i \in 1..Len(s) : s[i] = c
    BY <1>2, <1>8 DEF Lists
  <2> DEFINE r == SubSeq(s, 1, i - 1) \o SubSeq(s, i + 1, Len(s))
  <2>2. \A j, k \in 1..Len(s) : s[j] = s[k] => j = k
    BY <1>2 DEF Lists
  <2>3. Tree!RemoveFirst(s, c) = r
    BY <1>6, <2>1, <2>2, RemovedAt
  <2>4. /\ r \in Seq(Node) /\ Len(r) = Len(s) - 1
        /\ \A k \in 1..Len(s) - 1 : r[k] = IF k < i THEN s[k] ELSE s[k + 1]
    BY <1>6, CutOut
  <2> HIDE DEF r
  <2>5. /\ a[c].next = IF i < Len(s) THEN s[i + 1] ELSE None
        /\ a[c].prev = IF i > 1 THEN s[i - 1] ELSE None
    BY <1>2, <2>1, Neighbours
  <2>6. i > 1 => a[c].prev \in Node /\ a[c].prev # None
    BY <1>6, <2>5, NoneAssumption
  <2>7. a[p].first = IF Len(s) > 0 THEN s[1] ELSE None
    BY <1>2, <1>6, NoneAssumption DEF Lists, Run
  <2>8. IF u[p].first = None THEN Len(r) = 0 ELSE Len(r) > 0 /\ r[1] = u[p].first
    <3>1. CASE i = 1
      <4>1. u[p].first = IF 1 < Len(s) THEN s[2] ELSE None
        BY <1>4, <1>8, <2>5, <3>1
      <4>2. 1 < Len(s) => s[2] # None /\ r[1] = s[2]
        BY <1>6, <2>4, <3>1, NoneAssumption
      <4> QED BY <1>6, <2>1, <2>4, <3>1, <4>1, <4>2
    <3>2. CASE i > 1
      <4>1. u[p].first = s[1] /\ s[1] # None
        BY <1>4, <1>6, <2>6, <2>7, <3>2, NoneAssumption
      <4>2. Len(r) > 0 /\ r[1] = s[1]
        BY <1>6, <2>4, <3>2
      <4> QED BY <4>1, <4>2
    <3> QED BY <1>6, <3>1, <3>2
  <2>9. ASSUME NEW j \in 1..Len(r)
        PROVE  u[r[j]].next = IF j < Len(r) THEN r[j + 1] ELSE None
    <3>1. CASE j < i - 1
      <4>1. /\ j \in 1..Len(s) /\ j + 1 \in 1..Len(s) - 1 /\ j < Len(s) /\ j < Len(r)
            /\ j # i /\ j # i - 1 /\ i - 1 \in 1..Len(s) /\ j < i /\ j + 1 < i /\ i > 1
        BY <1>6, <2>4, <3>1
      <4>2. r[j] = s[j] /\ r[j + 1] = s[j + 1]
        BY <2>4, <4>1
      <4>3. s[j] # c /\ s[j] # a[c].prev /\ s[j] \in Node
        BY <1>6, <2>1, <2>2, <2>5, <4>1
      <4>4. a[s[j]].next = s[j + 1]
        BY <1>2, <4>1, Neighbours
      <4> QED BY <1>3, <4>1, <4>2, <4>3, <4>4
    <3>2. CASE j = i - 1
      <4>1. j \in 1..Len(s) /\ j < i /\ i > 1 /\ j # i /\ (i < Len(s) <=> j < Len(r)) /\ j + 1 = i
        BY <1>6, <2>4, <3>2
      <4>2. r[j] = s[i - 1] /\ s[i - 1] = a[c].prev /\ (j < Len(r) => r[j + 1] = s[i + 1])
        BY <1>6, <2>4, <2>5, <3>2, <4>1
      <4>3. a[c].prev # c
        BY <2>1, <2>2, <4>1, <4>2
      <4>4. u[a[c].prev].next = a[c].next
        BY <1>3, <2>6, <4>1, <4>3
      <4> QED BY <2>5, <4>1, <4>2, <4>4
    <3>3. CASE j >= i
      <4>1. /\ j + 1 \in 1..Len(s) /\ ~(j < i) /\ j + 1 # i /\ j \in 1..Len(s) - 1
            /\ (j < Len(r) <=> j + 1 < Len(s))
        BY <1>6, <2>4, <3>3
      <4>2. r[j] = s[j + 1] /\ (j < Len(r) => r[j + 1] = s[(j + 1) + 1])
        BY <1>6, <2>4, <3>3, <4>1
      <4>3. s[j + 1] # c /\ s[j + 1] \in Node
        BY <1>6, <2>1, <2>2, <4>1
      <4>4. s[j + 1] # a[c].prev
        <5>1. CASE i > 1
          <6>1. i - 1 \in 1..Len(s) /\ i - 1 # j + 1
            BY <1>6, <3>3, <5>1
          <6> QED BY <2>2, <2>5, <4>1, <5>1, <6>1
        <5>2. CASE i = 1
          BY <2>5, <4>3, <5>2, NoneAssumption
        <5> QED BY <5>1, <5>2
      <4>5. a[s[j + 1]].next = IF j + 1 < Len(s) THEN s[(j + 1) + 1] ELSE None
        BY <1>2, <4>1, Neighbours
      <4> QED BY <1>3, <4>1, <4>2, <4>3, <4>4, <4>5
    <3> QED BY <1>6, <2>4, <3>1, <3>2, <3>3
  <2>10. Run(u, u[p].first, r)
    BY <2>4, <2>8, <2>9 DEF Run
  <2> QED BY <1>5, <2>3, <2>10 DEF u, s
<1> QED BY <1>7, <1>8

\* append_child puts the node after the children its parent has.
LEMMA LinkedChildren ==
  ASSUME NEW a \in [Node -> Links], Agree(a), ListsEnd(a), IsFiniteSet(Node),
         NEW p \in Node, NEW c \in Node, NEW q \in Node,
         a[c].parent = None, a[c].prev = None, a[c].next = None
  PROVE  Children(Linked(a, p, c), q)
           = IF q = p THEN Append(Children(a, p), c) ELSE Children(a, q)
<1> DEFINE b == Linked(a, p, c)
           s == Children(a, q)
<1>1. b \in [Node -> Links] /\ Agree(b) /\ ListsEnd(b)
  BY LinkedType, LinkedAgrees, LinkedLists
<1>2. Lists(a, q, s)
  BY ChildrenAre
<1>3. \A n \in Node : b[n].next = IF n = a[p].last THEN c ELSE a[n].next
  BY DEF Linked
<1>4. b[q].first = IF q = p /\ a[p].last = None THEN c ELSE a[q].first
  BY DEF Linked
<1>5. \A t : Run(b, b[q].first, t) => Children(b, q) = t
  BY <1>1, ChildrenAre
<1> HIDE DEF b, s
<1>6. s \in Seq(Node) /\ Len(s) \in Nat /\ \A j \in 1..Len(s) : s[j] \in Node
  BY <1>2 DEF Lists, Run
<1>7. \A j \in 1..Len(s) : s[j] # c
  BY <1>2, NoneAssumption DEF Lists
<1>8. CASE q # p
  <2>1. ASSUME NEW j \in 1..Len(s), s[j] = a[p].last  PROVE FALSE
    <3>1. a[s[j]].parent = q /\ s[j] \in Node
      BY <1>2, <1>6 DEF Lists
    <3> QED BY <1>8, <2>1, <3>1 DEF Agree, EndsAgree
  <2>2. Run(b, b[q].first, s)
    BY <1>2, <1>3, <1>4, <1>6, <1>8, <2>1, ListKept
  <2> QED BY <1>5, <1>8, <2>2 DEF b, s
<1>9. CASE q = p
  <2> DEFINE t == Append(s, c)
  <2>1. /\ t \in Seq(Node) /\ Len(t) = Len(s) + 1
        /\ t[Len(s) + 1] = c /\ \A j \in 1..Len(s) : t[j] = s[j]
    BY <1>6
  <2> HIDE DEF t
  <2>2. a[p].last = IF Len(s) > 0 THEN s[Len(s)] ELSE None
    <3>1. CASE Len(s) > 0
      <4>1. Len(s) \in 1..Len(s)
        BY <1>6, <3>1
      <4>2. a[s[Len(s)]].next = None /\ s[Len(s)] \in Node /\ a[s[Len(s)]].parent = p
        BY <1>2, <1>6, <1>9, <4>1, Neighbours
      <4> QED BY <3>1, <4>2 DEF Agree, EndsAgree
    <3>2. CASE Len(s) = 0
      <4>1. a[p].first = None
        BY <1>2, <1>9, <3>2 DEF Lists, Run
      <4> QED BY <3>2, <4>1 DEF Agree, EndsTogether
    <3> QED BY <1>6, <3>1, <3>2
  <2>3. b[q].first # None /\ t[1] = b[q].first
    <3>1. CASE Len(s) > 0
      <4>1. s[1] \in Node /\ s[Len(s)] \in Node /\ t[1] = s[1]
        BY <1>6, <2>1, <3>1
      <4>2. a[p].last # None
        BY <2>2, <3>1, <4>1, NoneAssumption
      <4>3. a[q].first = s[1]
        BY <1>2, <3>1 DEF Lists, Run
      <4> QED BY <1>4, <4>1, <4>2, <4>3, NoneAssumption
    <3>2. CASE Len(s) = 0
      BY <1>4, <1>9, <2>1, <2>2, <3>2, NoneAssumption
    <3> QED BY <1>6, <3>1, <3>2
  <2>4. ASSUME NEW j \in 1..Len(t)
        PROVE  b[t[j]].next = IF j < Len(t) THEN t[j + 1] ELSE None
    <3>1. CASE j = Len(s) + 1
      <4>1. t[j] = c /\ ~(j < Len(t))
        BY <1>6, <2>1, <3>1
      <4>2. c # a[p].last
        BY NoneAssumption DEF Agree, EndsAgree
      <4> QED BY <1>3, <4>1, <4>2
    <3>2. CASE j = Len(s)
      <4>1. Len(s) > 0 /\ j \in 1..Len(s) /\ j < Len(t) /\ j + 1 = Len(s) + 1
        BY <1>6, <2>1, <3>2
      <4>2. t[j] = a[p].last /\ t[j] \in Node /\ t[j + 1] = c
        BY <1>6, <2>1, <2>2, <3>2, <4>1
      <4> QED BY <1>3, <4>1, <4>2
    <3>3. CASE j < Len(s)
      <4>1. /\ j \in 1..Len(s) /\ j + 1 \in 1..Len(s) /\ j < Len(t) /\ Len(s) > 0
            /\ j # Len(s) /\ Len(s) \in 1..Len(s)
        BY <1>6, <2>1, <3>3
      <4>2. t[j] = s[j] /\ t[j + 1] = s[j + 1] /\ s[j] \in Node
        BY <1>6, <2>1, <4>1
      <4>3. s[j] # a[p].last
        BY <1>2, <2>2, <4>1 DEF Lists
      <4>4. a[s[j]].next = s[j + 1]
        BY <1>2, <3>3, <4>1, Neighbours
      <4> QED BY <1>3, <4>1, <4>2, <4>3, <4>4
    <3> QED BY <1>6, <2>1, <3>1, <3>2, <3>3
  <2>5. Len(t) > 0
    BY <1>6, <2>1
  <2>6. Run(b, b[q].first, t)
    BY <2>1, <2>3, <2>4, <2>5 DEF Run
  <2> QED BY <1>5, <1>9, <2>6 DEF b, s, t
<1> QED BY <1>8, <1>9

\* insert_before puts the node before the sibling it is given, and changes no
\* other list.
LEMMA LinkedBeforeChildren ==
  ASSUME NEW a \in [Node -> Links], Agree(a), ListsEnd(a), IsFiniteSet(Node),
         NEW id \in Node, NEW x \in Node, NEW q \in Node, a[id].parent # None, id # x,
         a[x].parent = None, a[x].prev = None, a[x].next = None,
         NEW i \in 1..Len(Children(a, a[id].parent)), Children(a, a[id].parent)[i] = id
  PROVE  Children(LinkedBefore(a, id, x), q)
           = IF q = a[id].parent THEN Tree!InsertAt(Children(a, q), i, x) ELSE Children(a, q)
<1> DEFINE b == LinkedBefore(a, id, x)
           s == Children(a, q)
<1>1. b \in [Node -> Links] /\ Agree(b) /\ ListsEnd(b)
  BY LinkedBeforeType, LinkedBeforeAgrees, LinkedBeforeLists
<1>2. Lists(a, q, s)
  BY ChildrenAre
<1>3. \A n \in Node : b[n].next = IF n = x THEN id ELSE IF n = a[id].prev THEN x ELSE a[n].next
  BY DEF LinkedBefore
<1>4. b[q].first = IF q = a[id].parent /\ a[id].prev = None THEN x ELSE a[q].first
  BY DEF LinkedBefore
<1>5. \A t : Run(b, b[q].first, t) => Children(b, q) = t
  BY <1>1, ChildrenAre
<1>6. q = a[id].parent => i \in 1..Len(s) /\ s[i] = id
  OBVIOUS
<1> HIDE DEF b, s
<1>7. s \in Seq(Node) /\ Len(s) \in Nat /\ \A j \in 1..Len(s) : s[j] \in Node
  BY <1>2 DEF Lists, Run
<1>8. \A j \in 1..Len(s) : s[j] # x
  BY <1>2, NoneAssumption DEF Lists
<1>9. CASE q # a[id].parent
  <2>1. ASSUME NEW j \in 1..Len(s), s[j] = a[id].prev  PROVE FALSE
    <3>1. a[s[j]].parent = q /\ s[j] # None
      BY <1>2, <1>7, NoneAssumption DEF Lists
    <3> QED BY <1>9, <2>1, <3>1 DEF Agree, SiblingsAgree
  <2>2. Run(b, b[q].first, s)
    BY <1>2, <1>3, <1>4, <1>7, <1>8, <1>9, <2>1, ListKept
  <2> QED BY <1>5, <1>9, <2>2 DEF b, s
<1>10. CASE q = a[id].parent
  <2> DEFINE t == SubSeq(s, 1, i - 1) \o <<x>> \o SubSeq(s, i, Len(s))
  <2>0. i \in 1..Len(s) /\ s[i] = id
    BY <1>6, <1>10
  <2>1. /\ t \in Seq(Node) /\ Len(t) = Len(s) + 1
        /\ \A k \in 1..Len(s) + 1 : t[k] = IF k < i THEN s[k] ELSE IF k = i THEN x ELSE s[k - 1]
    BY <1>7, <2>0, PutIn
  <2>2. Tree!InsertAt(s, i, x) = t
    BY DEF Tree!InsertAt
  <2> HIDE DEF t
  <2>3. \A j, k \in 1..Len(s) : s[j] = s[k] => j = k
    BY <1>2 DEF Lists
  <2>4. a[id].prev = IF i > 1 THEN s[i - 1] ELSE None
    BY <1>2, <2>0, Neighbours
  <2>5. i > 1 => a[id].prev \in Node /\ a[id].prev # None /\ i - 1 \in 1..Len(s)
    BY <1>7, <2>0, <2>4, NoneAssumption
  <2>6. a[q].first = s[1] /\ s[1] # None
    BY <1>2, <1>7, <2>0, NoneAssumption DEF Lists, Run
  <2>7. b[q].first # None /\ t[1] = b[q].first
    <3>1. CASE i = 1
      BY <1>4, <1>7, <1>10, <2>1, <2>4, <3>1, NoneAssumption
    <3>2. CASE i > 1
      <4>1. t[1] = s[1]
        BY <1>7, <2>1, <3>2
      <4> QED BY <1>4, <2>5, <2>6, <3>2, <4>1
    <3> QED BY <2>0, <3>1, <3>2
  <2>8. ASSUME NEW j \in 1..Len(t)
        PROVE  b[t[j]].next = IF j < Len(t) THEN t[j + 1] ELSE None
    <3>0. j \in 1..Len(s) + 1
      BY <2>1
    <3>1. CASE j < i - 1
      <4>1. /\ j \in 1..Len(s) /\ j + 1 \in 1..Len(s) + 1 /\ j < Len(s) /\ j < Len(t)
            /\ j # i - 1 /\ j < i /\ j + 1 < i /\ i > 1
        BY <1>7, <2>0, <2>1, <3>0, <3>1
      <4>2. t[j] = s[j] /\ t[j + 1] = s[j + 1]
        BY <2>1, <3>0, <4>1
      <4>3. s[j] # x /\ s[j] # a[id].prev /\ s[j] \in Node
        BY <1>7, <1>8, <2>3, <2>4, <2>5, <4>1
      <4>4. a[s[j]].next = s[j + 1]
        BY <1>2, <4>1, Neighbours
      <4> QED BY <1>3, <4>1, <4>2, <4>3, <4>4
    <3>2. CASE j = i - 1
      <4>1. i > 1 /\ j < i /\ j < Len(t) /\ j + 1 = i /\ j + 1 \in 1..Len(s) + 1 /\ ~(j + 1 < i)
        BY <1>7, <2>0, <2>1, <3>0, <3>2
      <4>2. t[j] = a[id].prev /\ t[j + 1] = x
        BY <2>1, <2>4, <3>0, <3>2, <4>1
      <4>3. a[id].prev # x
        BY <1>8, <2>4, <2>5, <4>1
      <4> QED BY <1>3, <2>5, <4>1, <4>2, <4>3
    <3>3. CASE j = i
      <4>1. j < Len(t) /\ j + 1 \in 1..Len(s) + 1 /\ ~(j + 1 < i) /\ j + 1 # i /\ (j + 1) - 1 = i /\ ~(j < i)
        BY <1>7, <2>0, <2>1, <3>0, <3>3
      <4>2. t[j] = x /\ t[j + 1] = id
        BY <2>0, <2>1, <3>0, <3>3, <4>1
      <4> QED BY <1>3, <4>1, <4>2
    <3>4. CASE j > i
      <4>1. /\ j - 1 \in 1..Len(s) /\ ~(j < i) /\ j # i /\ j - 1 >= i
            /\ (j < Len(t) <=> j - 1 < Len(s)) /\ (j - 1) + 1 = j
        BY <1>7, <2>0, <2>1, <3>0, <3>4
      <4>2. t[j] = s[j - 1]
        BY <2>1, <3>0, <4>1
      <4>3. j < Len(t) => t[j + 1] = s[j]
        <5> SUFFICES ASSUME j < Len(t)  PROVE t[j + 1] = s[j]
          OBVIOUS
        <5>1. j + 1 \in 1..Len(s) + 1 /\ ~(j + 1 < i) /\ j + 1 # i /\ (j + 1) - 1 = j
          BY <1>7, <2>0, <2>1, <3>0, <3>4
        <5> QED BY <2>1, <5>1
      <4>4. s[j - 1] # x /\ s[j - 1] \in Node
        BY <1>7, <1>8, <4>1
      <4>5. s[j - 1] # a[id].prev
        <5>1. CASE i > 1
          <6>1. i - 1 # j - 1
            BY <2>0, <4>1
          <6> QED BY <2>3, <2>4, <2>5, <4>1, <5>1, <6>1
        <5>2. CASE i = 1
          BY <2>4, <4>4, <5>2, NoneAssumption
        <5> QED BY <2>0, <5>1, <5>2
      <4>6. a[s[j - 1]].next = IF j - 1 < Len(s) THEN s[(j - 1) + 1] ELSE None
        BY <1>2, <4>1, Neighbours
      <4> QED BY <1>3, <4>1, <4>2, <4>3, <4>4, <4>5, <4>6
    <3> QED BY <2>0, <3>0, <3>1, <3>2, <3>3, <3>4
  <2>9. Len(t) > 0
    BY <1>7, <2>1
  <2>10. Run(b, b[q].first, t)
    BY <2>1, <2>7, <2>8, <2>9 DEF Run
  <2> QED BY <1>5, <1>10, <2>2, <2>10 DEF b, s
<1> QED BY <1>9, <1>10

-----------------------------------------------------------------------------
(***************************************************************************)
(* The arena implements an ordered forest.                                 *)
(***************************************************************************)
KidsOf(a) == [p \in Node |-> Children(a, p)]

\* unlink is the forest's.
LEMMA UnlinkedKids ==
  ASSUME NEW a \in [Node -> Links], Agree(a), ListsEnd(a), IsFiniteSet(Node), NEW c \in Node
  PROVE  KidsOf(Unlinked(a, c)) = Tree!Detached(KidsOf(a), c)
<1>1. \A p \in Node : Children(Unlinked(a, c), p) = Tree!RemoveFirst(KidsOf(a)[p], c)
  BY UnlinkedChildren DEF KidsOf
<1> QED BY <1>1 DEF KidsOf, Tree!Detached

\* Where one node is not below another, it is not below it in the forest.
LEMMA KidsNotUnder ==
  ASSUME NEW a \in [Node -> Links], Agree(a), ListsEnd(a), IsFiniteSet(Node),
         NEW p, NEW c, NotUnder(a, p, c)
  PROVE  Tree!TreeNotUnder(KidsOf(a), p, c)
<1>1. PICK S \in SUBSET Node : p \in S /\ c \notin S /\ \A n \in S : a[n].parent \in S \cup {None}
  BY DEF NotUnder
<1>2. ASSUME NEW q \in Node, NEW i \in 1..Len(KidsOf(a)[q]), KidsOf(a)[q][i] \in S
      PROVE  q \in S
  <2>1. PICK s : s = Children(a, q) /\ s = KidsOf(a)[q]
    BY DEF KidsOf
  <2>2. Lists(a, q, s)
    BY <2>1, ChildrenAre
  <2>3. a[s[i]].parent = q
    BY <1>2, <2>1, <2>2, Neighbours
  <2> QED BY <1>1, <1>2, <2>1, <2>3, NoneAssumption
<1> QED BY <1>1, <1>2 DEF Tree!TreeNotUnder

\* append_child is the forest's.
LEMMA AppendedKids ==
  ASSUME NEW a \in [Node -> Links], Agree(a), ListsEnd(a), IsFiniteSet(Node),
         NEW p \in Node, NEW c \in Node
  PROVE  KidsOf(Appended(a, p, c)) = Tree!Added(Tree!Detached(KidsOf(a), c), p, c)
<1> DEFINE u == Unlinked(a, c)
<1>1. u \in [Node -> Links] /\ ListsEnd(u)
  BY UnlinkedType, UnlinkedLists
<1>2. Agree(u) /\ u[c].parent = None /\ u[c].prev = None /\ u[c].next = None
  BY UnlinkedAgrees
<1>3. KidsOf(u) = Tree!Detached(KidsOf(a), c)
  BY UnlinkedKids
<1>4. Appended(a, p, c) = Linked(u, p, c)
  BY DEF Appended
<1> HIDE DEF u
<1>5. \A q \in Node : Children(Linked(u, p, c), q)
                        = IF q = p THEN Append(Children(u, p), c) ELSE Children(u, q)
  BY <1>1, <1>2, LinkedChildren
<1>6. KidsOf(Linked(u, p, c)) = Tree!Added(KidsOf(u), p, c)
  BY <1>5 DEF KidsOf, Tree!Added
<1> QED BY <1>3, <1>4, <1>6

\* insert_before is the forest's.
LEMMA InsertedKids ==
  ASSUME NEW a \in [Node -> Links], Agree(a), ListsEnd(a), IsFiniteSet(Node),
         NEW id \in Node, NEW x \in Node, a[id].parent # None, id # x
  PROVE  LET p == a[id].parent
             d == Tree!Detached(KidsOf(a), x)
         IN  /\ Tree!IsChild(KidsOf(a), p, id)
             /\ \E i \in 1..Len(d[p]) :
                  /\ d[p][i] = id
                  /\ KidsOf(InsertedBefore(a, id, x)) = Tree!PutAt(d, p, i, x)
<1> DEFINE u == Unlinked(a, x)
           p == a[id].parent
<1>1. u \in [Node -> Links] /\ ListsEnd(u) /\ p \in Node
  BY UnlinkedType, UnlinkedLists DEF Links
<1>2. Agree(u) /\ u[x].parent = None /\ u[x].prev = None /\ u[x].next = None
  BY UnlinkedAgrees
<1>3. u[id].parent = p
  BY DEF Unlinked
<1>4. KidsOf(u) = Tree!Detached(KidsOf(a), x)
  BY UnlinkedKids
<1>5. InsertedBefore(a, id, x) = LinkedBefore(u, id, x)
  BY DEF InsertedBefore
<1>6. Tree!IsChild(KidsOf(a), p, id)
  <2>1. Lists(a, p, Children(a, p))
    BY <1>1, ChildrenAre
  <2>2. \E i \in 1..Len(Children(a, p)) : Children(a, p)[i] = id
    BY <2>1 DEF Lists
  <2> QED BY <1>1, <2>2 DEF Tree!IsChild, KidsOf
<1> HIDE DEF u, p
<1>7. PICK i \in 1..Len(Children(u, p)) : Children(u, p)[i] = id
  <2>1. Lists(u, p, Children(u, p))
    BY <1>1, <1>2, ChildrenAre
  <2> QED BY <1>3, <2>1 DEF Lists
<1>8. \A q \in Node : Children(LinkedBefore(u, id, x), q)
                        = IF q = p THEN Tree!InsertAt(Children(u, q), i, x) ELSE Children(u, q)
  <2> SUFFICES ASSUME NEW q \in Node
               PROVE  Children(LinkedBefore(u, id, x), q)
                        = IF q = u[id].parent THEN Tree!InsertAt(Children(u, q), i, x) ELSE Children(u, q)
    BY <1>3
  <2>1. u[id].parent # None /\ i \in 1..Len(Children(u, u[id].parent)) /\ Children(u, u[id].parent)[i] = id
    BY <1>1, <1>3, <1>7, NoneAssumption
  <2> QED BY <1>1, <1>2, <2>1, LinkedBeforeChildren
<1>9. KidsOf(LinkedBefore(u, id, x)) = Tree!PutAt(KidsOf(u), p, i, x)
  BY <1>8 DEF KidsOf, Tree!PutAt
<1>10. i \in 1..Len(KidsOf(u)[p]) /\ KidsOf(u)[p][i] = id
  BY <1>1, <1>7 DEF KidsOf
<1> QED BY <1>4, <1>5, <1>6, <1>9, <1>10 DEF p

\* Only allocated nodes have children.
Allocated == \A n \in Node : arena[n].parent # None => arena[n].parent \in used

\* No operation gives a child to a node that is not.
LEMMA AllocatedInductive ==
  ASSUME ArenaTypeOK, Allocated, [ArenaNext]_arenaVars
  PROVE  Allocated'
<1>1. CASE \E n \in Node : NewNode(n)
  BY <1>1 DEF Allocated, NewNode
<1>2. CASE \E id \in used : Unlink(id)
  BY <1>2 DEF Allocated, Unlink, Unlinked
<1>3. ASSUME NEW p \in used, NEW c \in used, AppendChild(p, c)  PROVE Allocated'
  <2>1. used' = used /\ \A n \in Node : arena'[n].parent \in {p, None, arena[n].parent}
    BY <1>3 DEF AppendChild, Appended, Linked, Unlinked
  <2> QED
    BY <2>1 DEF Allocated
<1>4. ASSUME NEW id \in used, NEW s \in used, InsertBefore(id, s)  PROVE Allocated'
  <2>1. id \in Node /\ arena[id].parent \in used
    BY <1>4 DEF ArenaTypeOK, Allocated, InsertBefore
  <2> QED
    BY <1>4, <2>1 DEF Allocated, InsertBefore, InsertedBefore, LinkedBefore, Unlinked
<1>5. CASE UNCHANGED arenaVars
  BY <1>5 DEF Allocated, arenaVars
<1> QED
  BY <1>1, <1>2, <1>3, <1>4, <1>5 DEF ArenaNext

\* The arena implements the ordered forest of OrderedTree: each operation on
\* the five links of a node changes the lists of children that the iterator
\* reads off them as the forest's operation of that name says.
THEOREM ArenaImplementsTree ==
  ASSUME IsFiniteSet(Node)
  PROVE  ArenaSpec => TreeSpec
<1> DEFINE Inv == ArenaTypeOK /\ AgreeInv /\ ListsEnd(arena) /\ Allocated
           kids == [p \in Node |-> Children(arena, p)]
<1>1. ArenaInit => Tree!TreeInit
  <2> SUFFICES ASSUME ArenaInit  PROVE used = {} /\ kids = [p \in Node |-> << >>]
    BY DEF Tree!TreeInit
  <2>1. arena \in [Node -> Links] /\ Agree(arena) /\ ListsEnd(arena)
    BY NoneAssumption
       DEF ArenaInit, NewLinks, Links, Agree, SiblingsAgree, EndsAgree, EndsTogether, ListsEnd
  <2>2. ASSUME NEW p \in Node  PROVE Children(arena, p) = << >>
    <3>1. Run(arena, arena[p].first, << >>)
      BY DEF ArenaInit, NewLinks, Run
    <3> QED BY <2>1, <3>1, ChildrenAre
  <2> QED BY <2>2 DEF ArenaInit
<1>2. Inv /\ [ArenaNext]_arenaVars => [Tree!TreeNext]_(Tree!treeVars)
  <2> SUFFICES ASSUME Inv, [ArenaNext]_arenaVars  PROVE [Tree!TreeNext]_(Tree!treeVars)
    OBVIOUS
  <2>0. /\ arena \in [Node -> Links] /\ Agree(arena) /\ ListsEnd(arena) /\ used \subseteq Node
        /\ \A n \in Node : arena[n].parent # None => arena[n].parent \in used
    BY DEF ArenaTypeOK, AgreeInv, Allocated
  <2>1. kids = KidsOf(arena) /\ kids' = KidsOf(arena')
    BY DEF KidsOf
  <2>2. ASSUME NEW n \in Node, NewNode(n)  PROVE Tree!TreeNew
    BY <2>2 DEF NewNode, Tree!TreeNew
  <2>3. ASSUME NEW c \in used, Unlink(c)  PROVE Tree!TreeUnlink
    <3>1. kids' = Tree!Detached(kids, c) /\ used' = used
      BY <2>0, <2>1, <2>3, UnlinkedKids DEF Unlink
    <3> QED BY <3>1 DEF Tree!TreeUnlink
  <2>4. ASSUME NEW p \in used, NEW c \in used, AppendChild(p, c)  PROVE Tree!TreeAppend
    <3>1. kids' = Tree!Added(Tree!Detached(kids, c), p, c) /\ used' = used
      BY <2>0, <2>1, <2>4, AppendedKids DEF AppendChild
    <3>2. Tree!TreeNotUnder(kids, p, c)
      BY <2>0, <2>1, <2>4, KidsNotUnder DEF AppendChild
    <3> QED BY <3>1, <3>2 DEF Tree!TreeAppend
  <2>5. ASSUME NEW id \in used, NEW s \in used, InsertBefore(id, s)  PROVE Tree!TreeInsert
    <3> DEFINE p == arena[id].parent
               d == Tree!Detached(kids, s)
    <3>1. /\ id \in Node /\ s \in Node /\ id # s /\ p # None /\ p \in used
          /\ NotUnder(arena, p, s) /\ arena' = InsertedBefore(arena, id, s) /\ used' = used
      BY <2>0, <2>5 DEF InsertBefore
    <3>2. Tree!TreeNotUnder(kids, p, s)
      BY <2>0, <2>1, <3>1, KidsNotUnder
    <3>3. /\ Tree!IsChild(kids, p, id)
          /\ \E i \in 1..Len(d[p]) : d[p][i] = id /\ kids' = Tree!PutAt(d, p, i, s)
      BY <2>0, <2>1, <3>1, InsertedKids
    <3> HIDE DEF p, kids
    <3> QED BY <3>1, <3>2, <3>3 DEF Tree!TreeInsert, kids
  <2>6. CASE UNCHANGED arenaVars
    BY <2>6 DEF arenaVars, Tree!treeVars
  <2> QED BY <2>2, <2>3, <2>4, <2>5, <2>6 DEF ArenaNext, Tree!TreeNext
<1>3. ArenaInit => AgreeInv
  BY NoneAssumption
     DEF ArenaInit, AgreeInv, Agree, SiblingsAgree, EndsAgree, EndsTogether, NewLinks
<1>4. ArenaTypeOK /\ AgreeInv /\ [ArenaNext]_arenaVars => AgreeInv'
  BY AgreeInductive
<1>5. ArenaInit => Allocated
  BY DEF ArenaInit, Allocated, NewLinks
<1>6. ArenaTypeOK /\ Allocated /\ [ArenaNext]_arenaVars => Allocated'
  BY AllocatedInductive
<1> QED
  BY <1>1, <1>2, <1>3, <1>4, <1>5, <1>6, ArenaTypeCorrect, ArenaListsEnd, PTL
     DEF ArenaSpec, TreeSpec, Tree!TreeSpec
=============================================================================
