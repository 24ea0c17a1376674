------------------------------- MODULE Arena -------------------------------
(***************************************************************************)
(* The node arena of src/node.rs: every node carries five links into       *)
(* the arena (parent, first and last child, previous and next sibling),    *)
(* and four operations rewrite them in place.  The operations are written  *)
(* as operators on the value of the arena, so that the parser's modules    *)
(* can compose them; the actions apply them to the variable.               *)
(***************************************************************************)
EXTENDS Naturals, Sequences, FiniteSets

CONSTANTS Node,   \* the ids the arena may hand out
          None    \* the absent link, Option::None

ASSUME NoneAssumption == None \notin Node

VARIABLES used,   \* the ids handed out so far
          arena   \* arena[n]: the links of node n

arenaVars == <<used, arena>>

Links == [parent: Node \cup {None}, first: Node \cup {None},
          last: Node \cup {None}, prev: Node \cup {None}, next: Node \cup {None}]

\* Mutant: an absent link is index 0.
NewLinksZero == [parent |-> 0, first |-> 0, last |-> 0, prev |-> 0, next |-> 0]

\* Node::new: detached, without children.
NewLinks == [parent |-> None, first |-> None, last |-> None,
             prev |-> None, next |-> None]

-----------------------------------------------------------------------------
(* The operations, on the value of the arena.                              *)

\* Arena::unlink: the neighbours are joined, or the parent's end moved where
\* there is no neighbour; the node keeps its own children.
Unlinked(a, id) ==
  LET l == a[id] IN
  [n \in Node |->
     [parent |-> IF n = id THEN None ELSE a[n].parent,
      prev   |-> IF n = id THEN None ELSE IF n = l.next THEN l.prev ELSE a[n].prev,
      next   |-> IF n = id THEN None ELSE IF n = l.prev THEN l.next ELSE a[n].next,
      first  |-> IF n = l.parent /\ l.prev = None THEN l.next ELSE a[n].first,
      last   |-> IF n = l.parent /\ l.next = None THEN l.prev ELSE a[n].last]]

\* The second half of Arena::append_child, on an arena where c is detached.
Linked(a, p, c) ==
  LET last == a[p].last IN
  [n \in Node |->
     [parent |-> IF n = c THEN p ELSE a[n].parent,
      prev   |-> IF n = c /\ last # None THEN last ELSE a[n].prev,
      next   |-> IF n = last THEN c ELSE a[n].next,
      first  |-> IF n = p /\ last = None THEN c ELSE a[n].first,
      last   |-> IF n = p THEN c ELSE a[n].last]]

\* Arena::append_child.
Appended(a, p, c) == Linked(Unlinked(a, c), p, c)

\* The second half of Arena::insert_before, on an arena where s is detached.
LinkedBefore(a, id, s) ==
  LET l == a[id] IN
  [n \in Node |->
     [parent |-> IF n = s THEN l.parent ELSE a[n].parent,
      prev   |-> IF n = s THEN l.prev ELSE IF n = id THEN s ELSE a[n].prev,
      next   |-> IF n = s THEN id ELSE IF n = l.prev THEN s ELSE a[n].next,
      first  |-> IF n = l.parent /\ l.prev = None THEN s ELSE a[n].first,
      last   |-> a[n].last]]

\* Arena::insert_before.
InsertedBefore(a, id, s) == LinkedBefore(Unlinked(a, s), id, s)

\* n and the nodes that follow it along a link.  i bounds the walk by the number
\* of nodes, which a link without a loop never reaches.
Followed(link, n) ==
  LET from[i \in 0..Cardinality(Node)] ==
        [m \in Node \cup {None} |->
           IF m = None \/ i = 0 THEN <<>> ELSE <<m>> \o from[i - 1][link[m]]]
  IN  from[Cardinality(Node)][n]

\* Arena::children, the list its iterator yields by following `next`.
Children(a, p) == Followed([n \in Node |-> a[n].next], a[p].first)

\* p is neither c nor below c: some set of nodes closed under `parent` holds
\* p and leaves c out.
NotUnder(a, p, c) ==
  \E S \in SUBSET Node :
    /\ p \in S /\ c \notin S
    /\ \A n \in S : a[n].parent \in S \cup {None}

-----------------------------------------------------------------------------
(* The arena on its own, driven by any legal caller.                       *)

ArenaInit == used = {} /\ arena = [n \in Node |-> NewLinks]

\* Arena::new_node; which id is immaterial, only that it is a fresh one.
NewNode(n) ==
  /\ n \notin used
  /\ used' = used \cup {n}
  /\ UNCHANGED arena

\* Mutant: the children are cut off together with the node.
UnlinkAlone(id) ==
  /\ arena' = [Unlinked(arena, id) EXCEPT ![id] = NewLinks]
  /\ UNCHANGED used

Unlink(id) ==
  /\ arena' = Unlinked(arena, id)
  /\ UNCHANGED used

\* Mutant: the two arguments are swapped.
AppendChildSwapped(p, c) ==
  /\ NotUnder(arena, p, c)
  /\ arena' = Appended(arena, c, p)
  /\ UNCHANGED used

\* The code takes the guard for granted: all of its callers append a fresh
\* node or move a subtree to a place outside of it.
AppendChild(p, c) ==
  /\ NotUnder(arena, p, c)
  /\ arena' = Appended(arena, p, c)
  /\ UNCHANGED used

\* Mutant: the new sibling is not unlinked from where it was.
InsertBeforeTwice(id, s) ==
  /\ arena[id].parent # None
  /\ id # s
  /\ NotUnder(arena, arena[id].parent, s)
  /\ arena' = LinkedBefore(arena, id, s)
  /\ UNCHANGED used

\* The first guard is the documented assumption ("assumes `node` has a parent
\* when `node` is a first child"), which a consistent arena has for no other
\* node either.
InsertBefore(id, s) ==
  /\ arena[id].parent # None
  /\ id # s
  /\ NotUnder(arena, arena[id].parent, s)
  /\ arena' = InsertedBefore(arena, id, s)
  /\ UNCHANGED used

ArenaNext ==
  \/ \E n \in Node : NewNode(n)
  \/ \E id \in used : Unlink(id)
  \/ \E p, c \in used : AppendChild(p, c)
  \/ \E id, s \in used : InsertBefore(id, s)

ArenaSpec == ArenaInit /\ [][ArenaNext]_arenaVars

-----------------------------------------------------------------------------
(* What the links must satisfy.                                            *)

ArenaTypeOK ==
  /\ used \subseteq Node
  /\ arena \in [Node -> Links]

\* Siblings point at each other and share their parent.
SiblingsAgree(a) ==
  \A n \in Node :
    /\ a[n].next # None => /\ a[a[n].next].prev = n
                           /\ a[a[n].next].parent = a[n].parent
    /\ a[n].prev # None => /\ a[a[n].prev].next = n
                           /\ a[a[n].prev].parent = a[n].parent
    /\ a[n].parent = None => a[n].prev = None /\ a[n].next = None

\* A parent's two ends are exactly its children without a neighbour there.
EndsAgree(a) ==
  \A p, c \in Node :
    /\ (a[p].first = c) <=> (a[c].parent = p /\ a[c].prev = None)
    /\ (a[p].last = c)  <=> (a[c].parent = p /\ a[c].next = None)

\* No node is its own ancestor.
Forest(a) ==
  \A n \in Node : a[n].parent # None => NotUnder(a, a[n].parent, n)

\* The links of the arena agree with each other wherever two of them record
\* the same fact, whatever sequence of new_node, unlink, append_child and
\* insert_before produced them.
LinksAgree == SiblingsAgree(arena) /\ EndsAgree(arena)

\* Following `parent` from any node ends at a root: append_child and
\* insert_before never close a loop.  The parser's climb in
\* add_existing_child and Walker::step both loop forever otherwise.
ArenaForest == Forest(arena)

\* An ordered forest is what the links implement.
Tree == INSTANCE OrderedTree WITH kids <- [p \in Node |-> Children(arena, p)]
TreeSpec == Tree!TreeSpec
=============================================================================
