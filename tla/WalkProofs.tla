---------------------------- MODULE WalkProofs ----------------------------
(***************************************************************************)
(* On a tree of any size, and whatever the visitor appends to the node it  *)
(* stands on, a walk sees every node once and the pass of parse inlines    *)
(* every content once.                                                     *)
(*                                                                         *)
(* The walk is followed by the nodes it has open (entered, and to be left  *)
(* again), those it is done with, and among these the ones it skipped the  *)
(* children of.  The rest of the tree it has not seen.                     *)
(***************************************************************************)
EXTENDS TreeWalk, ArenaProofs

Under(a, n, m) == ~NotUnder(a, n, m)

\* The trees a parser builds: only the nodes in use, u, are linked, and only
\* containers have children.  kd is their kinds.
Kinds == {"block", "content", "span", "leaf"}
GoodTree(a, u, kd) ==
  /\ a \in [Node -> Links] /\ u \subseteq Node /\ kd \in [Node -> Kinds]
  /\ Agree(a) /\ Forest(a) /\ ListsEnd(a)
  /\ \A n \in Node \ u : a[n] = NewLinks /\ kd[n] = "leaf"
  /\ \A n \in Node : a[n].parent # None => a[n].parent \in u /\ kd[a[n].parent] # "leaf"

\* What a walk from r has opened, O, is done with, D, and skipped, K: all of it
\* is below r, and nothing of it below a skipped node; what has not been seen
\* has nothing seen below it, and what is done with nothing that is not, unless
\* it was skipped; the nodes above an open one are open.
Visits(a, u, r, O, D, K) ==
  /\ O \subseteq u /\ D \subseteq u /\ O \cap D = {} /\ K \subseteq D
  /\ r \in u
  /\ \A n \in O \cup D : Under(a, n, r) /\ \A s \in K : n # s => NotUnder(a, n, s)
  /\ \A n \in Node : a[n].parent # None =>
       /\ a[n].parent \notin O \cup D /\ n # r => n \notin O \cup D
       /\ a[n].parent \in K => n \notin O \cup D
       /\ a[n].parent \in D \ K => n \in D
  /\ \A n \in O \ {r} : a[n].parent \in O

\* Where it stands: at c, to enter it or, e false, to leave it.  All open nodes
\* are above c, and of the children of an open node those before the one it is
\* in are done and those after it not seen.
At(a, u, r, O, D, c, e) ==
  /\ c \in u /\ Under(a, c, r) /\ c \notin D
  /\ e <=> c \notin O
  /\ c # r => a[c].parent \in O
  /\ \A g \in O : Under(a, c, g)
  /\ \A n \in Node \ D : a[n].parent \in O /\ a[n].next # None =>
       a[n].next # c /\ a[n].next \notin O \cup D
  /\ ~e => \A n \in Node : a[n].parent = c => n \in D

Walked(a, u, r, O, D, K) == Visits(a, u, r, O, D, K) /\ O = {} /\ r \in D

-----------------------------------------------------------------------------
Opened == {n \in Node : entered[n] = 1 /\ left[n] = 0 /\ IsContainer(n) /\ n \notin skipped}
Finished == {n \in Node : /\ entered[n] = 1
                          /\ left[n] = IF IsContainer(n) /\ n \notin skipped THEN 1 ELSE 0}

\* The two counters of every node, and what they say together.
Counts ==
  /\ entered \in [Node -> 0..2] /\ left \in [Node -> 0..2]
  /\ skipped \subseteq Finished
  /\ \A n \in Node : n \in Opened \/ n \in Finished \/ (entered[n] = 0 /\ left[n] = 0)

Underway ==
  /\ current # None /\ entering \in BOOLEAN
  /\ Visits(arena, used, root, Opened, Finished, skipped)
  /\ At(arena, used, root, Opened, Finished, current, entering)

Over == current = None /\ Walked(arena, used, root, Opened, Finished, skipped)

Contents ==
  /\ content \subseteq used /\ \A n \in content : kind[n] = "content"
  /\ inlined \in [Node -> 0..2]
  /\ \A n \in Node : inlined[n] = 0 \/ (inlined[n] = 1 /\ n \notin content)
  /\ phase = "blocks" => \A n \in Node : inlined[n] = 0
  /\ phase \in {"inlines", "parsed"} => skipped = {} /\ content \cap (Opened \cup Finished) = {}

WalkInv ==
  /\ GoodTree(arena, used, kind) /\ root \in used
  /\ Counts /\ Contents
  /\ phase \in {"blocks", "inlines", "parsed", "render", "ended"}
  /\ phase = "blocks" => current = None /\ entered = Unvisited /\ left = Unvisited
  /\ phase \in {"inlines", "render"} => Underway
  /\ phase \in {"parsed", "ended"} => Over

-----------------------------------------------------------------------------
(* Being below.                                                            *)

\* Everything is below itself.
LEMMA UnderSelf ==
  ASSUME NEW a, NEW n
  PROVE  Under(a, n, n)
BY DEF Under, NotUnder

\* Below m means: at m, or below it with its parent.
LEMMA UnderUp ==
  ASSUME NEW a \in [Node -> Links], NEW n \in Node, NEW m \in Node, Under(a, n, m), n # m
  PROVE  a[n].parent \in Node /\ Under(a, a[n].parent, m)
<1>1. a[n].parent \in Node
  <2> SUFFICES ASSUME a[n].parent \notin Node  PROVE NotUnder(a, n, m)
    BY DEF Under
  <2>1. a[n].parent = None
    BY DEF Links
  <2>2. {n} \in SUBSET Node /\ n \in {n} /\ m \notin {n} /\ \A q \in {n} : a[q].parent \in {n} \cup {None}
    BY <2>1
  <2> QED BY <2>2 DEF NotUnder
<1>2. ASSUME NotUnder(a, a[n].parent, m)  PROVE NotUnder(a, n, m)
  <2>1. PICK S \in SUBSET Node : a[n].parent \in S /\ m \notin S /\ \A q \in S : a[q].parent \in S \cup {None}
    BY <1>2 DEF NotUnder
  <2> DEFINE T == S \cup {n}
  <2>2. T \in SUBSET Node /\ n \in T /\ m \notin T /\ \A q \in T : a[q].parent \in T \cup {None}
    BY <2>1
  <2> QED BY <2>2 DEF NotUnder
<1> QED BY <1>1, <1>2 DEF Under

\* What its parent is below, a node is below too.
LEMMA UnderDown ==
  ASSUME NEW a, NEW n, NEW m, a[n].parent # None, Under(a, a[n].parent, m)
  PROVE  Under(a, n, m)
BY DEF Under, NotUnder

\* What a node is below of is below what that is below of.
LEMMA UnderTrans ==
  ASSUME NEW a, NEW n, NEW m, NEW l, Under(a, n, m), Under(a, m, l)
  PROVE  Under(a, n, l)
BY DEF Under, NotUnder

\* And not of two nodes each below the other.
LEMMA UnderAntisym ==
  ASSUME NEW a \in [Node -> Links], Forest(a), NEW n \in Node, NEW m \in Node,
         Under(a, n, m), Under(a, m, n)
  PROVE  n = m
<1> SUFFICES ASSUME n # m  PROVE FALSE
  OBVIOUS
<1>1. a[n].parent \in Node /\ Under(a, a[n].parent, m)
  BY UnderUp
<1>2. Under(a, a[n].parent, n)
  BY <1>1, UnderTrans
<1> QED BY <1>1, <1>2, NoneAssumption DEF Forest, Under

\* No parent is below its child.
LEMMA ParentAbove ==
  ASSUME NEW a, Forest(a), NEW n \in Node, a[n].parent # None
  PROVE  ~Under(a, a[n].parent, n) /\ a[n].parent # n
BY UnderSelf DEF Forest, Under

-----------------------------------------------------------------------------
(* Trees.                                                                  *)

\* Linked nodes are in use, siblings have one parent.
LEMMA LinkedUsed ==
  ASSUME NEW a, NEW u, NEW kd, GoodTree(a, u, kd), NEW n \in Node
  PROVE  /\ a[n].parent # None => n \in u /\ a[n].parent \in u
         /\ a[n].next # None => /\ a[n].next \in u /\ a[a[n].next].prev = n
                                /\ a[a[n].next].parent = a[n].parent
         /\ a[n].first # None => /\ a[n].first \in u /\ a[a[n].first].parent = n
                                 /\ a[a[n].first].prev = None
<1>1. a[n] \in Links /\ a \in [Node -> Links]
  BY DEF GoodTree
<1>2. \A m \in Node : a[m].parent # None \/ a[m].prev # None => m \in u
  BY DEF GoodTree, NewLinks
<1>3. a[n].parent # None => n \in u /\ a[n].parent \in u
  BY <1>2 DEF GoodTree
<1>4. a[n].next # None => a[n].next \in Node /\ a[a[n].next].prev = n /\ a[a[n].next].parent = a[n].parent
  BY <1>1 DEF GoodTree, Agree, SiblingsAgree, Links
<1>5. a[n].first # None => a[n].first \in Node /\ a[a[n].first].parent = n /\ a[a[n].first].prev = None
  BY <1>1 DEF GoodTree, Agree, EndsAgree, Links
<1> QED BY <1>2, <1>3, <1>4, <1>5, NoneAssumption

\* A set of children of one node that goes on with every next sibling is empty,
\* unless it has the last one.
LEMMA LastChild ==
  ASSUME NEW a, NEW u, NEW kd, GoodTree(a, u, kd), NEW p \in Node, NEW S \in SUBSET Node,
         \A n \in S : a[n].parent = p /\ (a[n].next # None => a[n].next \in S),
         a[p].last \notin S
  PROVE  S = {}
<1>1. \A n \in S : a[n].next # None
  BY DEF GoodTree, Agree, EndsAgree
<1> QED BY <1>1 DEF GoodTree, ListsEnd

\* Only the parent of something has a first child.
LEMMA Childless ==
  ASSUME NEW a, NEW u, NEW kd, GoodTree(a, u, kd), NEW p \in Node, a[p].first = None
  PROVE  \A n \in Node : a[n].parent # p
<1> DEFINE S == {n \in Node : a[n].parent = p}
<1>1. a[p].last \notin S
  BY NoneAssumption DEF GoodTree, Agree, EndsTogether
<1>2. ASSUME NEW n \in S  PROVE a[n].parent = p /\ (a[n].next # None => a[n].next \in S)
  <2>1. a[n].next # None => a[n].next \in u /\ a[a[n].next].parent = p
    BY LinkedUsed
  <2>2. u \subseteq Node
    BY DEF GoodTree
  <2> QED BY <2>1, <2>2
<1>3. S = {}
  <2>1. S \in SUBSET Node
    OBVIOUS
  <2> HIDE DEF S
  <2> QED BY <1>1, <1>2, <2>1, LastChild
<1> QED BY <1>3
-----------------------------------------------------------------------------
(* Where the walk is.                                                      *)

\* What is above r has not been seen.
LEMMA RootParent ==
  ASSUME NEW a, NEW u, NEW kd, NEW r, NEW O, NEW D, NEW K,
         GoodTree(a, u, kd), Visits(a, u, r, O, D, K), a[r].parent # None
  PROVE  a[r].parent \notin O \cup D
<1>1. r \in Node
  BY DEF GoodTree, Visits
<1> QED BY <1>1, ParentAbove DEF GoodTree, Visits

\* Everything seen is below r, so without r there is nothing.
LEMMA RootFirst ==
  ASSUME NEW a, NEW u, NEW kd, NEW r, NEW O, NEW D, NEW K,
         GoodTree(a, u, kd), Visits(a, u, r, O, D, K), r \notin O \cup D
  PROVE  O \cup D = {}
<1> SUFFICES ASSUME NEW n \in O \cup D  PROVE FALSE
  OBVIOUS
<1>1. O \cup D \in SUBSET Node
  BY DEF GoodTree, Visits
<1>2. ASSUME NEW q \in O \cup D  PROVE a[q].parent \in (O \cup D) \cup {None}
  <2>1. q # r /\ q \in Node
    BY <1>1
  <2> QED BY <2>1 DEF Visits
<1>3. NotUnder(a, n, r)
  BY <1>1, <1>2 DEF NotUnder
<1> QED BY <1>3 DEF Visits, Under

\* Nothing seen is below the node to be entered.
LEMMA UnseenBelow ==
  ASSUME NEW a, NEW u, NEW kd, NEW r, NEW O, NEW D, NEW K, NEW c,
         GoodTree(a, u, kd), Visits(a, u, r, O, D, K), At(a, u, r, O, D, c, TRUE),
         NEW n \in O \cup D
  PROVE  NotUnder(a, n, c)
<1>1. O \cup D \in SUBSET Node /\ r \in Node /\ c \in Node
  BY DEF GoodTree, Visits, At
<1>2. c \notin O \cup D /\ Under(a, c, r)
  BY DEF At
<1>3. r \in O \cup D
  BY RootFirst
<1> DEFINE S == (O \cup D) \cup {q \in Node : Under(a, r, q)}
<1>4. c \notin S
  <2> SUFFICES ASSUME Under(a, r, c)  PROVE FALSE
    BY <1>2
  <2>1. r = c
    BY <1>1, <1>2, UnderAntisym DEF GoodTree
  <2> QED BY <1>2, <1>3, <2>1
<1>5. ASSUME NEW q \in S  PROVE a[q].parent \in S \cup {None}
  <2>1. q \in Node /\ (a[q].parent # None => a[q].parent \in Node)
    BY <1>1 DEF GoodTree, Links
  <2>2. CASE q \in O \cup D /\ q # r
    BY <2>1, <2>2 DEF Visits
  <2>3. CASE Under(a, r, q)
    BY <2>1, <2>3 DEF Under, NotUnder
  <2>4. CASE q = r
    BY <1>1, <2>1, <2>4, UnderSelf, <2>3
  <2> QED BY <2>2, <2>3, <2>4
<1> QED BY <1>1, <1>4, <1>5 DEF NotUnder

\* Nor has the walk come below a skipped node.
LEMMA Visible ==
  ASSUME NEW a, NEW u, NEW kd, NEW r, NEW O, NEW D, NEW K, NEW c, NEW e,
         GoodTree(a, u, kd), Visits(a, u, r, O, D, K), At(a, u, r, O, D, c, e),
         NEW s \in K, c # s
  PROVE  NotUnder(a, c, s)
<1> SUFFICES ASSUME Under(a, c, s)  PROVE FALSE
  BY DEF Under
<1>1. c \in Node /\ s \in Node /\ s \in D /\ r \in Node
  BY DEF GoodTree, Visits, At
<1>2. a[c].parent \in Node /\ Under(a, a[c].parent, s)
  BY <1>1, UnderUp DEF GoodTree
<1>3. CASE c # r
  <2>1. a[c].parent \in O /\ a[c].parent # s
    BY <1>1, <1>3 DEF At, Visits
  <2> QED BY <1>2, <2>1 DEF Visits, Under
<1>4. CASE c = r
  <2>1. Under(a, s, r)
    BY <1>1 DEF Visits
  <2> QED BY <1>1, <1>4, <2>1, UnderAntisym DEF GoodTree
<1> QED BY <1>3, <1>4
-----------------------------------------------------------------------------
(* Entering a node with children to come back to.                          *)

\* A node entered for its children is open.
LEMMA EnterVisits ==
  ASSUME NEW a, NEW u, NEW kd, NEW r, NEW O, NEW D, NEW K, NEW c,
         GoodTree(a, u, kd), Visits(a, u, r, O, D, K), At(a, u, r, O, D, c, TRUE)
  PROVE  Visits(a, u, r, O \cup {c}, D, K)
<1>1. c \in u /\ Under(a, c, r) /\ c \notin D /\ c \notin O /\ (c # r => a[c].parent \in O)
  BY DEF At
<1>2. \A s \in K : c # s => NotUnder(a, c, s)
  BY Visible
<1>3. c # r \/ a[c].parent = None \/ a[c].parent \notin O \cup D
  BY RootParent
<1>4. O \cap D = {} /\ K \subseteq D
  BY DEF Visits
<1>5. ASSUME NEW n \in Node, a[n].parent # None
      PROVE  /\ a[n].parent \notin (O \cup {c}) \cup D /\ n # r => n \notin (O \cup {c}) \cup D
             /\ a[n].parent \in K => n \notin (O \cup {c}) \cup D
             /\ a[n].parent \in D \ K => n \in D
  <2>1. /\ a[n].parent \notin O \cup D /\ n # r => n \notin O \cup D
        /\ a[n].parent \in K => n \notin O \cup D
        /\ a[n].parent \in D \ K => n \in D
    BY <1>5 DEF Visits
  <2>2. a[n].parent \notin (O \cup {c}) \cup D /\ n # r => n # c
    BY <1>1
  <2>3. a[n].parent \in K => n # c
    BY <1>1, <1>3, <1>4, <1>5
  <2> QED BY <2>1, <2>2, <2>3
<1> QED BY <1>1, <1>2, <1>4, <1>5 DEF Visits

\* To the first child.
LEMMA EnterFirst ==
  ASSUME NEW a, NEW u, NEW kd, NEW r, NEW O, NEW D, NEW K, NEW c,
         GoodTree(a, u, kd), Visits(a, u, r, O, D, K), At(a, u, r, O, D, c, TRUE),
         a[c].first # None
  PROVE  At(a, u, r, O \cup {c}, D, a[c].first, TRUE)
<1> DEFINE f == a[c].first
<1>1. /\ c \in u /\ Under(a, c, r) /\ c \notin D /\ c \notin O /\ c \in Node /\ r \in Node
      /\ \A g \in O : Under(a, c, g)
  BY DEF At, GoodTree, Visits
<1>2. f \in u /\ f \in Node /\ a[f].parent = c /\ a[f].prev = None
  <2>1. f \in u /\ a[f].parent = c /\ a[f].prev = None
    BY <1>1, LinkedUsed
  <2> QED BY <2>1 DEF GoodTree
<1>3. c # None
  BY <1>1, NoneAssumption
<1> HIDE DEF f
<1>4. f # r /\ f # c
  <2>1. ~Under(a, c, f) /\ c # f
    BY <1>2, <1>3, ParentAbove DEF GoodTree
  <2> QED BY <1>1, <2>1
<1>5. f \notin O \cup D
  BY <1>1, <1>2, <1>3, <1>4 DEF Visits
<1>6. Under(a, f, r) /\ \A g \in O \cup {c} : Under(a, f, g)
  BY <1>1, <1>2, <1>3, UnderDown, UnderSelf
<1>7. ASSUME NEW n \in Node \ D, a[n].parent \in O \cup {c}, a[n].next # None
      PROVE  a[n].next # f /\ a[n].next \notin (O \cup {c}) \cup D
  <2>1. a[n].next \in Node /\ a[a[n].next].prev = n /\ a[a[n].next].parent = a[n].parent
    BY <1>7, LinkedUsed DEF GoodTree
  <2>2. a[n].next # f
    BY <1>2, <2>1, NoneAssumption
  <2>3. CASE a[n].parent \in O
    <3>1. a[n].next # c /\ a[n].next \notin O \cup D
      BY <1>7, <2>3 DEF At
    <3> QED BY <2>2, <3>1
  <2>4. CASE a[n].parent = c
    <3>1. a[n].next # c /\ a[n].next # r
      <4>1. ~Under(a, c, a[n].next) /\ c # a[n].next
        BY <1>3, <2>1, <2>4, ParentAbove DEF GoodTree
      <4> QED BY <1>1, <4>1
    <3>2. a[n].next \notin O \cup D
      BY <1>1, <1>3, <2>1, <2>4, <3>1 DEF Visits
    <3> QED BY <2>2, <3>1, <3>2
  <2> QED BY <1>7, <2>3, <2>4
<1>8. a[f].parent \in O \cup {c}
  BY <1>2
<1> QED BY <1>2, <1>1, <1>4, <1>5, <1>6, <1>7, <1>8 DEF At, f

\* There are none: the node is left next.
LEMMA EnterStay ==
  ASSUME NEW a, NEW u, NEW kd, NEW r, NEW O, NEW D, NEW K, NEW c,
         GoodTree(a, u, kd), Visits(a, u, r, O, D, K), At(a, u, r, O, D, c, TRUE),
         a[c].first = None
  PROVE  At(a, u, r, O \cup {c}, D, c, FALSE)
<1>1. c \in u /\ c \in Node /\ c \notin D /\ Under(a, c, r) /\ (c # r => a[c].parent \in O)
      /\ \A g \in O : Under(a, c, g)
  BY DEF At, GoodTree
<1>2. \A n \in Node : a[n].parent # c
  BY <1>1, Childless
<1>3. \A g \in O \cup {c} : Under(a, c, g)
  BY <1>1, UnderSelf
<1>4. ASSUME NEW n \in Node \ D, a[n].parent \in O \cup {c}, a[n].next # None
      PROVE  a[n].next # c /\ a[n].next \notin (O \cup {c}) \cup D
  <2>1. a[n].parent \in O
    BY <1>2, <1>4
  <2> QED BY <1>4, <2>1 DEF At
<1> QED BY <1>1, <1>2, <1>3, <1>4 DEF At

-----------------------------------------------------------------------------
(* Being done with a node: on leaving it, or on entering one without       *)
(* children or to be skipped.                                              *)

Closing(a, K, K2, c, e) ==
  \/ K2 = K /\ (e => \A n \in Node : a[n].parent # c)
  \/ K2 = K \cup {c} /\ e

\* A node closed is done with, its children skipped or done with too.
LEMMA CloseVisits ==
  ASSUME NEW a, NEW u, NEW kd, NEW r, NEW O, NEW D, NEW K, NEW c, NEW e \in BOOLEAN, NEW K2,
         GoodTree(a, u, kd), Visits(a, u, r, O, D, K), At(a, u, r, O, D, c, e),
         Closing(a, K, K2, c, e)
  PROVE  Visits(a, u, r, O \ {c}, D \cup {c}, K2)
<1>1. /\ c \in u /\ Under(a, c, r) /\ c \notin D /\ (c # r => a[c].parent \in O)
      /\ e <=> c \notin O
      /\ ~e => \A n \in Node : a[n].parent = c => n \in D
  BY DEF At
<1>2. /\ O \subseteq u /\ D \subseteq u /\ O \cap D = {} /\ K \subseteq D /\ u \subseteq Node /\ r \in u
  BY DEF Visits, GoodTree
<1>3. K2 \subseteq K \cup {c} /\ K \subseteq K2 /\ (c \in K2 => e)
  BY <1>1, <1>2 DEF Closing
<1>4. \A s \in K : c # s => NotUnder(a, c, s)
  BY Visible
<1>5. e => \A n \in O \cup D : NotUnder(a, n, c)
  BY UnseenBelow
<1>6. \A n \in O \cup D : Under(a, n, r) /\ \A s \in K : n # s => NotUnder(a, n, s)
  BY DEF Visits
<1>7. \A n \in (O \ {c}) \cup (D \cup {c}) :
         Under(a, n, r) /\ \A s \in K2 : n # s => NotUnder(a, n, s)
  BY <1>1, <1>3, <1>4, <1>5, <1>6
<1>8. c # r \/ a[c].parent = None \/ a[c].parent \notin O \cup D
  BY RootParent
<1>9. ASSUME NEW n \in Node, a[n].parent # None
      PROVE  /\ a[n].parent \notin (O \ {c}) \cup (D \cup {c}) /\ n # r => n \notin (O \ {c}) \cup (D \cup {c})
             /\ a[n].parent \in K2 => n \notin (O \ {c}) \cup (D \cup {c})
             /\ a[n].parent \in (D \cup {c}) \ K2 => n \in D \cup {c}
  <2>1. /\ a[n].parent \notin O \cup D /\ n # r => n \notin O \cup D
        /\ a[n].parent \in K => n \notin O \cup D
        /\ a[n].parent \in D \ K => n \in D
    BY <1>9 DEF Visits
  <2>2. a[n].parent \notin (O \ {c}) \cup (D \cup {c}) /\ n # r => n # c /\ n \notin O \cup D
    BY <1>1, <2>1
  <2>3. a[n].parent = c => n # c /\ n # r
    <3>1. ~Under(a, a[n].parent, n) /\ a[n].parent # n
      BY <1>9, ParentAbove DEF GoodTree
    <3> QED BY <1>1, <3>1
  <2>4. ASSUME a[n].parent \in K2  PROVE n \notin O \cup D /\ n # c
    <3>1. CASE a[n].parent \in K
      BY <1>1, <1>2, <1>8, <1>9, <2>1, <3>1
    <3>2. CASE a[n].parent = c
      <4>1. c \notin O \cup D
        BY <1>1, <1>3, <2>4, <3>2
      <4> QED BY <2>1, <2>3, <3>2, <4>1
    <3> QED BY <1>3, <2>4, <3>1, <3>2
  <2>5. ASSUME a[n].parent \in (D \cup {c}) \ K2  PROVE n \in D
    <3>1. CASE a[n].parent = c
      <4>1. ~e
        BY <1>9, <2>5, <3>1 DEF Closing
      <4> QED BY <1>1, <3>1, <4>1
    <3>2. CASE a[n].parent # c
      BY <1>3, <2>1, <2>5, <3>2
    <3> QED BY <3>1, <3>2
  <2> QED BY <2>2, <2>4, <2>5
<1>10. ASSUME NEW n \in (O \ {c}) \ {r}  PROVE a[n].parent \in O \ {c}
  <2>1. a[n].parent \in O /\ n \in Node /\ a[n].parent # None
    BY <1>2, NoneAssumption DEF Visits
  <2>2. ASSUME a[n].parent = c  PROVE FALSE
    BY <1>1, <1>2, <2>1, <2>2
  <2> QED BY <2>1, <2>2
<1> QED BY <1>1, <1>2, <1>3, <1>7, <1>9, <1>10 DEF Visits

\* To the next sibling.
LEMMA CloseNext ==
  ASSUME NEW a, NEW u, NEW kd, NEW r, NEW O, NEW D, NEW K, NEW c, NEW e,
         GoodTree(a, u, kd), Visits(a, u, r, O, D, K), At(a, u, r, O, D, c, e),
         c # r, a[c].next # None
  PROVE  At(a, u, r, O \ {c}, D \cup {c}, a[c].next, TRUE)
<1> DEFINE m == a[c].next  p == a[c].parent
<1>1. /\ c \in u /\ c \in Node /\ r \in Node /\ Under(a, c, r) /\ c \notin D
      /\ \A g \in O : Under(a, c, g)
      /\ p \in O /\ p \in Node
  BY DEF At, GoodTree, Visits
<1>2. m \in u /\ m \in Node /\ a[m].prev = c /\ a[m].parent = p
  BY <1>1, LinkedUsed DEF GoodTree
<1>3. m # c /\ m \notin O \cup D
  BY <1>1 DEF At
<1>4. p # None /\ p # c
  BY <1>1, ParentAbove, NoneAssumption DEF GoodTree
<1>5. Under(a, p, r) /\ \A g \in O \ {c} : Under(a, p, g)
  BY <1>1, UnderUp DEF GoodTree, Visits
<1>6. Under(a, m, r) /\ \A g \in O \ {c} : Under(a, m, g)
  BY <1>2, <1>4, <1>5, UnderDown
<1> HIDE DEF m, p
<1>7. ASSUME NEW n \in Node \ (D \cup {c}), a[n].parent \in O \ {c}, a[n].next # None
      PROVE  a[n].next # m /\ a[n].next \notin (O \ {c}) \cup (D \cup {c})
  <2>1. a[a[n].next].prev = n
    BY <1>7, LinkedUsed
  <2>2. a[n].next # c /\ a[n].next \notin O \cup D
    BY <1>7 DEF At
  <2> QED BY <1>2, <1>7, <2>1, <2>2
<1> QED BY <1>1, <1>2, <1>3, <1>4, <1>6, <1>7 DEF At, m

\* Back to the parent.
LEMMA CloseUp ==
  ASSUME NEW a, NEW u, NEW kd, NEW r, NEW O, NEW D, NEW K, NEW c, NEW e,
         GoodTree(a, u, kd), Visits(a, u, r, O, D, K), At(a, u, r, O, D, c, e),
         c # r, a[c].next = None
  PROVE  At(a, u, r, O \ {c}, D \cup {c}, a[c].parent, FALSE)
<1> DEFINE p == a[c].parent
<1>1. /\ c \in u /\ c \in Node /\ r \in Node /\ Under(a, c, r) /\ c \notin D
      /\ \A g \in O : Under(a, c, g)
      /\ p \in O /\ p \in Node /\ p \notin D
  BY DEF At, GoodTree, Visits
<1>2. p # None /\ p # c /\ ~Under(a, p, c) /\ p \in u
  BY <1>1, ParentAbove, NoneAssumption, LinkedUsed DEF GoodTree
<1>3. Under(a, p, r) /\ \A g \in O \ {c} : Under(a, p, g)
  BY <1>1, UnderUp DEF GoodTree, Visits
<1>4. p # r => a[p].parent \in O \ {c}
  <2> SUFFICES ASSUME p # r  PROVE a[p].parent \in O \ {c}
    OBVIOUS
  <2>1. a[p].parent \in O
    BY <1>1 DEF Visits
  <2>2. a[p].parent # c
    BY <1>1, <1>2, UnderDown, UnderSelf, NoneAssumption
  <2> QED BY <2>1, <2>2
<1>5. ASSUME NEW n \in Node \ (D \cup {c}), a[n].parent \in O \ {c}, a[n].next # None
      PROVE  a[n].next # p /\ a[n].next \notin (O \ {c}) \cup (D \cup {c})
  BY <1>1, <1>5 DEF At
<1>6. \A n \in Node : a[n].parent = p => n \in D \cup {c}
  <2> DEFINE S == {n \in Node : a[n].parent = p /\ n \notin D \cup {c}}
  <2>1. S \in SUBSET Node
    OBVIOUS
  <2>2. a[p].last \notin S
    BY <1>1, <1>2 DEF GoodTree, Agree, EndsAgree
  <2>3. ASSUME NEW n \in S, a[n].next # None  PROVE a[n].next \in S
    <3>1. a[n].next \in Node /\ a[a[n].next].parent = p
      BY <2>3, LinkedUsed DEF GoodTree
    <3> QED BY <1>1, <2>3, <3>1 DEF At
  <2>4. \A n \in S : a[n].parent = p /\ (a[n].next # None => a[n].next \in S)
    BY <2>3
  <2>5. S = {}
    <3> HIDE DEF S
    <3> QED BY <1>1, <2>1, <2>2, <2>4, LastChild
  <2> QED BY <2>5
<1> QED BY <1>1, <1>2, <1>3, <1>4, <1>5, <1>6 DEF At

\* Out of the tree.
LEMMA CloseRoot ==
  ASSUME NEW a, NEW u, NEW kd, NEW O, NEW D, NEW K, NEW c, NEW e \in BOOLEAN, NEW K2,
         GoodTree(a, u, kd), Visits(a, u, c, O, D, K), At(a, u, c, O, D, c, e),
         Closing(a, K, K2, c, e)
  PROVE  Walked(a, u, c, O \ {c}, D \cup {c}, K2)
<1>1. Visits(a, u, c, O \ {c}, D \cup {c}, K2)
  BY CloseVisits
<1>2. ASSUME NEW g \in O  PROVE g = c
  <2>1. g \in Node /\ c \in Node /\ Under(a, c, g) /\ Under(a, g, c)
    BY DEF GoodTree, Visits, At
  <2> QED BY <2>1, UnderAntisym DEF GoodTree
<1> QED BY <1>1, <1>2 DEF Walked
-----------------------------------------------------------------------------
(* Growing under the walk: a fresh node c appended to p.                   *)

\* What append_child with a fresh node changes of the links the walk follows.
LEMMA FreshLinks ==
  ASSUME NEW a, NEW u, NEW kd, GoodTree(a, u, kd), NEW p \in u, NEW c \in Node \ u
  PROVE  /\ a[c] = NewLinks /\ c # p /\ c # a[p].last
         /\ \A n \in Node : a[n].parent # c /\ a[n].next # c
         /\ Unlinked(a, c) \in [Node -> Links]
         /\ Appended(a, p, c) \in [Node -> Links]
         /\ \A n \in Node :
              /\ Unlinked(a, c)[n].parent = a[n].parent
              /\ Appended(a, p, c)[n].parent = IF n = c THEN p ELSE a[n].parent
              /\ Appended(a, p, c)[n].next = IF n = a[p].last THEN c ELSE a[n].next
              /\ n \notin u \cup {c} => Appended(a, p, c)[n] = NewLinks
<1>1. a \in [Node -> Links] /\ p \in Node /\ c \in Node /\ a[c] = NewLinks /\ c # p
  BY DEF GoodTree
<1>2. a[c].parent = None /\ a[c].next = None /\ a[c].prev = None /\ a[c].first = None /\ a[c].last = None
  BY <1>1 DEF NewLinks
<1>3. \A n \in Node : a[n].parent # c /\ a[n].next # c /\ a[n].prev # c
  BY <1>1, <1>2, NoneAssumption DEF GoodTree, Agree, SiblingsAgree
<1>4. \A n \in Node : a[n].last # c
  BY <1>1, <1>2, NoneAssumption DEF GoodTree, Agree, EndsAgree
<1> DEFINE v == Unlinked(a, c)
<1>5. \A n \in Node : /\ v[n].parent = a[n].parent /\ v[n].next = a[n].next /\ v[n].prev = a[n].prev
                      /\ v[n].first = a[n].first /\ v[n].last = a[n].last
  BY <1>2, NoneAssumption DEF Unlinked
<1>6. v \in [Node -> Links]
  BY <1>1, UnlinkedType
<1> HIDE DEF v
<1>7. Linked(v, p, c) \in [Node -> Links]
  BY <1>1, <1>6, LinkedType
<1>8. \A n \in Node :
        /\ Linked(v, p, c)[n].parent = IF n = c THEN p ELSE a[n].parent
        /\ Linked(v, p, c)[n].next = IF n = a[p].last THEN c ELSE a[n].next
  BY <1>1, <1>5 DEF Linked
<1>9. ASSUME NEW n \in Node, n \notin u \cup {c}  PROVE Linked(v, p, c)[n] = NewLinks
  <2>1. a[n] = NewLinks
    BY <1>9 DEF GoodTree
  <2>2. n # a[p].last
    BY <1>1, <2>1, NoneAssumption DEF GoodTree, Agree, EndsAgree, NewLinks
  <2>3. n # p /\ n # c /\ n # v[p].last
    BY <1>1, <1>5, <1>9, <2>2
  <2>4. /\ v[n].parent = None /\ v[n].next = None /\ v[n].prev = None
        /\ v[n].first = None /\ v[n].last = None
    BY <1>5, <2>1 DEF NewLinks
  <2> QED BY <2>3, <2>4 DEF Linked, NewLinks
<1> QED BY <1>1, <1>3, <1>4, <1>5, <1>6, <1>7, <1>8, <1>9 DEF Appended, v

\* The tree stays one.
LEMMA AppendTree ==
  ASSUME NEW a, NEW u, NEW kd, GoodTree(a, u, kd), NEW p \in u, NEW c \in Node \ u,
         kd[p] # "leaf", NEW k \in Kinds
  PROVE  GoodTree(Appended(a, p, c), u \cup {c}, [kd EXCEPT ![c] = k])
<1> DEFINE v == Unlinked(a, c)  b == Linked(v, p, c)
<1>1. a \in [Node -> Links] /\ p \in Node /\ c \in Node /\ v \in [Node -> Links] /\ b \in [Node -> Links]
  <2>1. a \in [Node -> Links] /\ p \in Node /\ c \in Node
    BY DEF GoodTree
  <2>2. v \in [Node -> Links] /\ b = Appended(a, p, c) /\ Appended(a, p, c) \in [Node -> Links]
    BY FreshLinks DEF Appended
  <2> QED BY <2>1, <2>2
<1>2. Agree(v) /\ v[c].parent = None /\ v[c].prev = None /\ v[c].next = None /\ ListsEnd(v) /\ Forest(v)
  BY <1>1, UnlinkedAgrees, UnlinkedLists, UnlinkedForest DEF GoodTree
<1>3. NotUnder(v, p, c)
  <2>1. \A q \in Node \ {c} : v[q].parent \in (Node \ {c}) \cup {None}
    BY <1>1, FreshLinks DEF Links
  <2>2. p \in Node \ {c} /\ c \notin Node \ {c} /\ Node \ {c} \in SUBSET Node
    BY <1>1, FreshLinks
  <2> QED BY <2>1, <2>2 DEF NotUnder
<1>4. \A n \in Node : b[n].parent = IF n = c THEN p ELSE v[n].parent
  BY DEF Linked
<1> HIDE DEF b, v
<1>5. Agree(b) /\ ListsEnd(b) /\ Forest(b)
  <2>1. Agree(b) /\ ListsEnd(b)
    BY <1>1, <1>2, LinkedAgrees, LinkedLists DEF b
  <2>2. Forest(b)
    BY <1>1, <1>2, <1>3, <1>4, AdoptedForest
  <2> QED BY <2>1, <2>2
<1> DEFINE kd2 == [kd EXCEPT ![c] = k]
<1>6. kd2 \in [Node -> Kinds] /\ \A n \in Node : n # c => kd2[n] = kd[n]
  BY <1>1 DEF GoodTree
<1> HIDE DEF kd2
<1>7. b = Appended(a, p, c)
  BY DEF b, v, Appended
<1>8. \A n \in Node \ (u \cup {c}) : b[n] = NewLinks /\ kd2[n] = "leaf"
  <2> SUFFICES ASSUME NEW n \in Node \ (u \cup {c})  PROVE b[n] = NewLinks /\ kd2[n] = "leaf"
    OBVIOUS
  <2>1. b[n] = NewLinks
    BY <1>7, FreshLinks
  <2>2. kd2[n] = kd[n] /\ kd[n] = "leaf"
    BY <1>6 DEF GoodTree
  <2> QED BY <2>1, <2>2
<1>9. ASSUME NEW n \in Node, b[n].parent # None  PROVE b[n].parent \in u \cup {c} /\ kd2[b[n].parent] # "leaf"
  <2>1. CASE n = c
    <3>1. b[n].parent = p /\ p # c
      BY <1>7, <2>1, FreshLinks
    <3> QED BY <1>1, <1>6, <3>1
  <2>2. CASE n # c
    <3>1. b[n].parent = a[n].parent /\ a[n].parent # c
      BY <1>7, <2>2, FreshLinks
    <3>2. a[n].parent \in u /\ kd[a[n].parent] # "leaf" /\ u \subseteq Node
      BY <1>9, <3>1 DEF GoodTree
    <3> QED BY <1>6, <3>1, <3>2
  <2> QED BY <2>1, <2>2
<1>10. u \cup {c} \subseteq Node
  BY <1>1 DEF GoodTree
<1> QED BY <1>1, <1>5, <1>6, <1>7, <1>8, <1>9, <1>10 DEF GoodTree, kd2

\* What was below what, before, is so still.
LEMMA AppendUnder ==
  ASSUME NEW a, NEW u, NEW kd, GoodTree(a, u, kd), NEW p \in u, NEW c \in Node \ u,
         NEW n \in u, NEW m
  PROVE  NotUnder(Appended(a, p, c), n, m) <=> NotUnder(a, n, m)
<1> DEFINE b == Appended(a, p, c)
<1>1. \A q \in Node : q # c => b[q].parent = a[q].parent /\ a[q].parent # c
  BY FreshLinks
<1>2. n \in Node /\ n # c
  BY DEF GoodTree
<1> HIDE DEF b
<1>3. ASSUME NotUnder(a, n, m)  PROVE NotUnder(b, n, m)
  <2>1. PICK S \in SUBSET Node : n \in S /\ m \notin S /\ \A q \in S : a[q].parent \in S \cup {None}
    BY <1>3 DEF NotUnder
  <2> DEFINE T == S \ {c}
  <2>2. T \in SUBSET Node /\ n \in T /\ m \notin T /\ \A q \in T : b[q].parent \in T \cup {None}
    BY <1>1, <1>2, <2>1
  <2> QED BY <2>2 DEF NotUnder
<1>4. ASSUME NotUnder(b, n, m)  PROVE NotUnder(a, n, m)
  <2>1. PICK S \in SUBSET Node : n \in S /\ m \notin S /\ \A q \in S : b[q].parent \in S \cup {None}
    BY <1>4 DEF NotUnder
  <2> DEFINE T == S \ {c}
  <2>2. T \in SUBSET Node /\ n \in T /\ m \notin T /\ \A q \in T : a[q].parent \in T \cup {None}
    BY <1>1, <1>2, <2>1
  <2> QED BY <2>2 DEF NotUnder
<1> QED BY <1>3, <1>4 DEF b

\* The walk does not notice nodes appended where it has not been.
LEMMA AppendVisits ==
  ASSUME NEW a, NEW u, NEW kd, GoodTree(a, u, kd), NEW p \in u, NEW c \in Node \ u,
         NEW r, NEW O, NEW D, NEW K, Visits(a, u, r, O, D, K), p \notin O \cup D
  PROVE  Visits(Appended(a, p, c), u \cup {c}, r, O, D, K)
<1> DEFINE b == Appended(a, p, c)
<1>1. O \subseteq u /\ D \subseteq u /\ r \in u /\ u \subseteq Node /\ c \notin u /\ K \subseteq D
  BY DEF Visits, GoodTree
<1>2. \A n \in Node : b[n].parent = IF n = c THEN p ELSE a[n].parent
  BY FreshLinks
<1>3. \A n \in O \cup D : Under(b, n, r) /\ \A s \in K : n # s => NotUnder(b, n, s)
  BY <1>1, AppendUnder DEF Visits, Under
<1> HIDE DEF b
<1>4. ASSUME NEW n \in Node, b[n].parent # None
      PROVE  /\ b[n].parent \notin O \cup D /\ n # r => n \notin O \cup D
             /\ b[n].parent \in K => n \notin O \cup D
             /\ b[n].parent \in D \ K => n \in D
  <2>1. CASE n = c
    BY <1>1, <1>2, <2>1
  <2>2. CASE n # c
    <3>1. b[n].parent = a[n].parent
      BY <1>2, <2>2
    <3> QED BY <1>4, <3>1 DEF Visits
  <2> QED BY <2>1, <2>2
<1>5. \A n \in O \ {r} : b[n].parent \in O
  BY <1>1, <1>2 DEF Visits
<1> QED BY <1>1, <1>3, <1>4, <1>5 DEF Visits, b

\* Nor does it stand elsewhere.
LEMMA AppendAt ==
  ASSUME NEW a, NEW u, NEW kd, GoodTree(a, u, kd), NEW p \in u, NEW c \in Node \ u,
         NEW r, NEW O, NEW D, NEW K, NEW n, Visits(a, u, r, O, D, K), p \notin O \cup D,
         At(a, u, r, O, D, n, TRUE)
  PROVE  At(Appended(a, p, c), u \cup {c}, r, O, D, n, TRUE)
<1> DEFINE b == Appended(a, p, c)
<1>1. O \subseteq u /\ D \subseteq u /\ r \in u /\ u \subseteq Node /\ c \notin u
  BY DEF Visits, GoodTree
<1>2. \A x \in Node : /\ b[x].parent = IF x = c THEN p ELSE a[x].parent
                      /\ b[x].next = IF x = a[p].last THEN c ELSE a[x].next
  BY FreshLinks
<1>3. n \in u /\ n \notin D /\ n \notin O /\ (n # r => a[n].parent \in O)
  BY DEF At
<1>4. Under(b, n, r) /\ \A g \in O : Under(b, n, g)
  BY <1>3, AppendUnder DEF At, Under
<1> HIDE DEF b
<1>5. ASSUME NEW x \in Node \ D, b[x].parent \in O, b[x].next # None
      PROVE  b[x].next # n /\ b[x].next \notin O \cup D
  <2>1. x # c /\ a[x].parent \in O
    BY <1>2, <1>5
  <2>2. CASE x = a[p].last
    BY <1>1, <1>2, <1>3, <2>2
  <2>3. CASE x # a[p].last
    BY <1>2, <1>5, <2>1, <2>3 DEF At
  <2> QED BY <2>2, <2>3
<1>6. n # r => b[n].parent \in O
  BY <1>1, <1>2, <1>3
<1> QED BY <1>3, <1>4, <1>5, <1>6 DEF At, b
-----------------------------------------------------------------------------
(* The walk's steps.                                                       *)

\* One visit and the advance after it, on the tree as it is by then, which has
\* the kinds of the nodes it had.
LEMMA VisitStep ==
  ASSUME WalkInv, Underway, NEW status \in {"next", "skip"}, status = "skip" => entering,
         Visited, Advance(arena', status), root' = root,
         skipped' = IF status = "skip" THEN skipped \cup {current} ELSE skipped,
         GoodTree(arena', used', kind'), used \subseteq used',
         \A n \in used : kind'[n] = kind[n],
         Visits(arena', used', root, Opened, Finished, skipped),
         At(arena', used', root, Opened, Finished, current, entering)
  PROVE  /\ Counts' /\ Opened' \cup Finished' = Opened \cup Finished \cup {current}
         /\ \/ Underway' /\ phase' = phase
            \/ Over' /\ phase' = IF phase = "inlines" THEN "parsed" ELSE "ended"
<1> DEFINE c == current  u == used'  a == arena'
           descend == entering /\ status # "skip" /\ kind[c] # "leaf"
<1>1. /\ c \in used /\ c \in Node /\ entering \in BOOLEAN /\ c \notin Finished
      /\ entering <=> c \notin Opened
  BY DEF Underway, At, WalkInv, GoodTree
<1>2. /\ entered \in [Node -> 0..2] /\ left \in [Node -> 0..2] /\ skipped \subseteq Finished
      /\ \A n \in Node : n \in Opened \/ n \in Finished \/ (entered[n] = 0 /\ left[n] = 0)
  BY DEF WalkInv, Counts
<1>3. left[c] = 0 /\ entered[c] = (IF entering THEN 0 ELSE 1) /\ (~entering => kind[c] # "leaf")
  BY <1>1, <1>2 DEF Opened, IsContainer
<1>4. /\ entered' = [entered EXCEPT ![c] = 1]
      /\ left' = [left EXCEPT ![c] = IF entering THEN 0 ELSE 1]
  <2>1. CASE entering
    BY <1>1, <1>2, <1>3, <2>1 DEF Visited, Bumped
  <2>2. CASE ~entering
    BY <1>1, <1>2, <1>3, <2>2 DEF Visited, Bumped
  <2> QED BY <1>1, <2>1, <2>2
<1>5. entered' \in [Node -> 0..2] /\ left' \in [Node -> 0..2]
  BY <1>1, <1>2, <1>4
<1>6. /\ entered'[c] = 1 /\ left'[c] = (IF entering THEN 0 ELSE 1)
      /\ \A n \in Node : n # c => entered'[n] = entered[n] /\ left'[n] = left[n]
  BY <1>1, <1>2, <1>4
<1>7. Opened \subseteq used /\ Finished \subseteq used /\ used \subseteq Node /\ Opened \cap Finished = {}
  BY DEF Underway, Visits, WalkInv, GoodTree
<1>8. \A n \in Node : n # c => (n \in skipped' <=> n \in skipped)
  OBVIOUS
<1>9. c \in skipped' <=> status = "skip"
  BY <1>1, <1>2
<1>10. ASSUME NEW n \in Node, n # c
       PROVE  (n \in Opened' <=> n \in Opened) /\ (n \in Finished' <=> n \in Finished)
  <2>1. CASE n \in used
    BY <1>6, <1>8, <1>10, <2>1 DEF Opened, Finished, IsContainer
  <2>2. CASE n \notin used
    <3>1. entered'[n] = 0
      BY <1>2, <1>6, <1>7, <1>10, <2>2
    <3> QED BY <1>7, <2>2, <3>1 DEF Opened, Finished
  <2> QED BY <2>1, <2>2
<1>11. (c \in Opened' <=> descend) /\ (c \in Finished' <=> ~descend)
  <2>1. kind'[c] = kind[c]
    BY <1>1
  <2>2. CASE entering
    BY <1>1, <1>6, <1>9, <2>1, <2>2 DEF Opened, Finished, IsContainer
  <2>3. CASE ~entering
    BY <1>1, <1>3, <1>6, <1>9, <2>1, <2>3 DEF Opened, Finished, IsContainer
  <2> QED BY <1>1, <2>2, <2>3
<1>12. Opened' \subseteq Node /\ Finished' \subseteq Node
  BY DEF Opened, Finished
<1>13. descend => Opened' = Opened \cup {c} /\ Finished' = Finished /\ skipped' = skipped
  <2> HIDE DEF descend
  <2>1. descend => status # "skip"
    BY DEF descend
  <2> QED BY <1>1, <1>7, <1>10, <1>11, <1>12, <2>1
<1>14. ~descend => Opened' = Opened \ {c} /\ Finished' = Finished \cup {c}
  <2> HIDE DEF descend
  <2> QED BY <1>1, <1>7, <1>10, <1>11, <1>12
<1>15. Counts'
  <2>1. skipped' \subseteq Finished'
    <3>1. CASE descend
      BY <1>2, <1>13, <3>1
    <3>2. CASE ~descend
      BY <1>2, <1>14, <3>2
    <3> QED BY <3>1, <3>2
  <2>2. ASSUME NEW n \in Node  PROVE n \in Opened' \/ n \in Finished' \/ (entered'[n] = 0 /\ left'[n] = 0)
    <3>1. CASE n = c
      BY <1>11, <3>1
    <3>2. CASE n # c
      BY <1>2, <1>6, <1>10, <3>2
    <3> QED BY <3>1, <3>2
  <2> QED BY <1>5, <2>1, <2>2 DEF Counts
<1>16. Opened' \cup Finished' = Opened \cup Finished \cup {c}
  BY <1>13, <1>14, <1>1
<1>17. Stepped(a, c, entering /\ status # "skip")
         = IF descend THEN IF a[c].first # None THEN <<a[c].first, TRUE>> ELSE <<c, FALSE>>
           ELSE IF c = root THEN <<None, entering /\ status # "skip">>
           ELSE IF a[c].next = None THEN <<a[c].parent, FALSE>> ELSE <<a[c].next, TRUE>>
  BY <1>1 DEF Stepped, IsContainer
<1>18. c # None /\ \A n \in Node : n # None
  BY <1>1, NoneAssumption
<1>s. ASSUME NEW x \in Node, NEW e \in BOOLEAN, Stepped(a, c, entering /\ status # "skip") = <<x, e>>
      PROVE  current' = x /\ entering' = e /\ phase' = phase
  <2>1. <<x, e>>[1] = x /\ <<x, e>>[2] = e
    OBVIOUS
  <2>2. /\ current' = <<x, e>>[1] /\ entering' = <<x, e>>[2]
        /\ phase' = IF <<x, e>>[1] # None THEN phase
                    ELSE IF phase = "inlines" THEN "parsed" ELSE "ended"
    BY <1>s DEF Advance
  <2> QED BY <1>18, <2>1, <2>2
<1> HIDE DEF descend
<1>19. CASE descend
  <2>0. At(a, u, root, Opened, Finished, c, TRUE)
    BY <1>19 DEF descend
  <2>1. Visits(a, u, root, Opened \cup {c}, Finished, skipped)
    BY <2>0, EnterVisits
  <2>2. CASE a[c].first # None
    <3>1. At(a, u, root, Opened \cup {c}, Finished, a[c].first, TRUE)
      BY <2>0, <2>2, EnterFirst
    <3>2. current' = a[c].first /\ entering' = TRUE /\ phase' = phase
      <4>1. Stepped(a, c, entering /\ status # "skip") = <<a[c].first, TRUE>>
        BY <1>17, <1>19, <2>2
      <4>2. a[c].first \in Node
        BY <3>1 DEF At, GoodTree
      <4> QED BY <1>s, <4>1, <4>2
    <3> QED BY <1>13, <1>15, <1>16, <1>19, <2>1, <2>2, <3>1, <3>2 DEF Underway
  <2>3. CASE a[c].first = None
    <3>1. At(a, u, root, Opened \cup {c}, Finished, c, FALSE)
      BY <2>0, <2>3, EnterStay
    <3>2. current' = c /\ entering' = FALSE /\ phase' = phase
      <4>1. Stepped(a, c, entering /\ status # "skip") = <<c, FALSE>>
        BY <1>17, <1>19, <2>3
      <4> QED BY <1>1, <1>s, <4>1
    <3> QED BY <1>13, <1>15, <1>16, <1>18, <1>19, <2>1, <3>1, <3>2 DEF Underway
  <2> QED BY <2>2, <2>3
<1>20. CASE ~descend
  <2>1. Closing(a, skipped, skipped', c, entering)
    <3>1. CASE status = "skip"
      BY <3>1 DEF Closing
    <3>2. CASE status # "skip"
      <4>1. entering => \A n \in Node : a[n].parent # c
        <5>1. entering => kind'[c] = "leaf"
          BY <1>1, <1>20, <3>2 DEF descend
        <5> QED BY <1>18, <5>1 DEF GoodTree
      <4> QED BY <3>2, <4>1 DEF Closing
    <3> QED BY <3>1, <3>2
  <2>2. Visits(a, u, root, Opened \ {c}, Finished \cup {c}, skipped')
    BY <1>1, <2>1, CloseVisits
  <2>3. CASE c = root
    <3>1. Walked(a, u, root, Opened \ {c}, Finished \cup {c}, skipped')
      BY <1>1, <2>1, <2>3, CloseRoot
    <3>2. current' = None /\ phase' = IF phase = "inlines" THEN "parsed" ELSE "ended"
      BY <1>17, <1>20, <2>3 DEF Advance
    <3> QED BY <1>14, <1>15, <1>16, <1>20, <3>1, <3>2 DEF Over
  <2>4. CASE c # root /\ a[c].next = None
    <3>1. At(a, u, root, Opened \ {c}, Finished \cup {c}, a[c].parent, FALSE)
      BY <2>4, CloseUp
    <3>2. a[c].parent \in Node
      BY <3>1 DEF At, GoodTree
    <3>3. current' = a[c].parent /\ entering' = FALSE /\ phase' = phase
      <4>1. Stepped(a, c, entering /\ status # "skip") = <<a[c].parent, FALSE>>
        BY <1>17, <1>20, <2>4
      <4> QED BY <1>s, <3>2, <4>1
    <3> QED BY <1>14, <1>15, <1>16, <1>18, <1>20, <2>2, <3>1, <3>2, <3>3 DEF Underway
  <2>5. CASE c # root /\ a[c].next # None
    <3>1. At(a, u, root, Opened \ {c}, Finished \cup {c}, a[c].next, TRUE)
      BY <2>5, CloseNext
    <3>2. current' = a[c].next /\ entering' = TRUE /\ phase' = phase
      <4>1. Stepped(a, c, entering /\ status # "skip") = <<a[c].next, TRUE>>
        BY <1>17, <1>20, <2>5
      <4>2. a[c].next \in Node
        BY <3>1 DEF At, GoodTree
      <4> QED BY <1>s, <4>1, <4>2
    <3> QED BY <1>14, <1>15, <1>16, <1>20, <2>2, <2>5, <3>1, <3>2 DEF Underway
  <2> QED BY <2>3, <2>4, <2>5
<1> QED BY <1>19, <1>20
-----------------------------------------------------------------------------
(* The actions.                                                            *)

\* An id is handed out as long as there is one.
LEMMA Fresh ==
  ASSUME NEW taken \in SUBSET Node, taken # Node
  PROVE  FreshId(taken) \in Node \ taken
BY DEF FreshId

\* The document alone is a tree.
LEMMA Begins == WInit => WalkInv
<1> SUFFICES ASSUME WInit  PROVE WalkInv
  OBVIOUS
<1> DEFINE doc == FreshId({})
<1>1. doc \in Node
  BY WalkAssumption, Fresh
<1> HIDE DEF doc
<1>2. /\ used = {doc} /\ arena = [n \in Node |-> NewLinks]
      /\ kind = [n \in Node |-> IF n = doc THEN "block" ELSE "leaf"]
      /\ content = {} /\ phase = "blocks" /\ root = doc /\ current = None
      /\ entered = [n \in Node |-> 0] /\ left = [n \in Node |-> 0]
      /\ skipped = {} /\ inlined = [n \in Node |-> 0]
  BY DEF WInit, doc, Unvisited
<1>3. GoodTree(arena, used, kind)
  <2>1. Agree(arena)
    BY <1>2, NoneAssumption DEF Agree, SiblingsAgree, EndsAgree, EndsTogether, NewLinks
  <2>2. Forest(arena) /\ ListsEnd(arena)
    BY <1>2, NoneAssumption DEF Forest, ListsEnd, NewLinks
  <2>3. arena \in [Node -> Links] /\ \A n \in Node : arena[n] = NewLinks /\ arena[n].parent = None
    BY <1>2 DEF NewLinks, Links
  <2>4. kind \in [Node -> Kinds] /\ \A n \in Node \ used : kind[n] = "leaf"
    BY <1>2 DEF Kinds
  <2> QED BY <1>1, <1>2, <2>1, <2>2, <2>3, <2>4 DEF GoodTree
<1>4. Counts
  BY <1>2 DEF Counts
<1>5. Contents
  BY <1>2 DEF Contents
<1> QED BY <1>2, <1>3, <1>4, <1>5 DEF WalkInv, Unvisited

\* Before the first walk nothing has been seen.
LEMMA Unseen ==
  ASSUME \A n \in Node : entered[n] = 0
  PROVE  Opened = {} /\ Finished = {}
BY DEF Opened, Finished

\* The block parser adds to the tree before any walk.
LEMMA AddBlockStep ==
  ASSUME WalkInv, NEW p \in used, NEW k \in {"block", "content", "leaf"}, AddBlock(p, k)
  PROVE  WalkInv'
<1> DEFINE n == FreshId(used)
<1>1. GoodTree(arena, used, kind) /\ used \in SUBSET Node /\ root \in used
  BY DEF WalkInv, GoodTree
<1>2. n \in Node \ used
  BY <1>1, Fresh DEF AddBlock
<1>3. /\ phase = "blocks" /\ kind[p] = "block"
      /\ used' = used \cup {n} /\ arena' = Appended(arena, p, n) /\ kind' = [kind EXCEPT ![n] = k]
      /\ content' = (IF k = "content" THEN content \cup {n} ELSE content)
      /\ UNCHANGED <<phase, root, current, entering, entered, left, skipped, inlined>>
  BY DEF AddBlock, history
<1> HIDE DEF n
<1>4. k \in Kinds
  BY DEF Kinds
<1>5. GoodTree(arena', used', kind')
  <2>1. kind[p] # "leaf"
    BY <1>3
  <2> QED BY <1>1, <1>2, <1>3, <1>4, <2>1, AppendTree
<1>6. \A m \in Node : entered[m] = 0 /\ left[m] = 0
  BY <1>3 DEF WalkInv, Unvisited
<1>7. Opened = {} /\ Finished = {} /\ skipped = {}
  BY <1>6, Unseen DEF WalkInv, Counts
<1>8. Counts'
  BY <1>3, <1>6, <1>7 DEF WalkInv, Counts
<1>9. Contents'
  <2>1. kind \in [Node -> Kinds] /\ Contents
    BY <1>1 DEF GoodTree, WalkInv
  <2>2. content' \subseteq used' /\ \A m \in content' : kind'[m] = "content"
    BY <1>1, <1>2, <1>3, <2>1 DEF Contents
  <2>3. \A m \in Node : inlined'[m] = 0
    BY <1>3, <2>1 DEF Contents
  <2> QED BY <1>3, <2>1, <2>2, <2>3 DEF Contents
<1> QED BY <1>1, <1>3, <1>5, <1>8, <1>9 DEF WalkInv

\* A walk begins with nothing seen, whatever was seen before.
LEMMA WalkBegins ==
  ASSUME WalkInv, NEW from \in used, NEW p \in {"inlines", "render"}, Walk(from, p),
         p = "inlines" => phase = "blocks"
  PROVE  WalkInv'
<1>1. /\ phase' = p /\ root' = from /\ current' = from /\ entering' = TRUE
      /\ entered' = [n \in Node |-> 0] /\ left' = [n \in Node |-> 0] /\ skipped' = {}
      /\ UNCHANGED <<used, arena, kind, content, inlined>>
  BY DEF Walk, Unvisited, tree
<1>2. Opened' = {} /\ Finished' = {}
  BY <1>1 DEF Opened, Finished
<1>3. GoodTree(arena, used, kind) /\ used \subseteq Node /\ from \in Node
  BY DEF WalkInv, GoodTree
<1>4. Visits(arena, used, from, {}, {}, {})
  BY DEF Visits
<1>5. At(arena, used, from, {}, {}, from, TRUE)
  BY UnderSelf DEF At
<1>6. Underway'
  BY <1>1, <1>2, <1>3, <1>4, <1>5, NoneAssumption DEF Underway
<1>7. Counts'
  BY <1>1, <1>2 DEF Counts
<1>8. Contents'
  BY <1>1, <1>2 DEF WalkInv, Contents
<1> QED BY <1>1, <1>3, <1>6, <1>7, <1>8 DEF WalkInv

\* The rest of the invariant after a visit.
LEMMA AfterVisit ==
  ASSUME WalkInv, phase \in {"inlines", "render"}, GoodTree(arena', used', kind'),
         root' = root, used \subseteq used', Counts', Contents',
         \/ Underway' /\ phase' = phase
         \/ Over' /\ phase' = IF phase = "inlines" THEN "parsed" ELSE "ended"
  PROVE  WalkInv'
BY DEF WalkInv

\* The pass of parse at a node without content.
LEMMA PassByStep ==
  ASSUME WalkInv, PassBy
  PROVE  WalkInv'
<1>1. /\ phase = "inlines" /\ current \notin content /\ Visited /\ Advance(arena, "next")
      /\ UNCHANGED <<used, arena, kind, content, root, skipped, inlined>>
  BY DEF PassBy, tree
<1>2. Underway /\ GoodTree(arena, used, kind) /\ Contents
  BY <1>1 DEF WalkInv
<1>3. /\ Counts' /\ Opened' \cup Finished' = Opened \cup Finished \cup {current}
      /\ \/ Underway' /\ phase' = phase
         \/ Over' /\ phase' = IF phase = "inlines" THEN "parsed" ELSE "ended"
  <2>1. Visits(arena', used', root, Opened, Finished, skipped) /\ At(arena', used', root, Opened, Finished, current, entering)
    BY <1>1, <1>2 DEF Underway
  <2>2. skipped' = IF "next" = "skip" THEN skipped \cup {current} ELSE skipped
    BY <1>1
  <2> QED BY <1>1, <1>2, <2>1, <2>2, VisitStep
<1>4. Contents'
  <2>1. phase' \in {"inlines", "parsed"}
    BY <1>1, <1>3
  <2> QED BY <1>1, <1>2, <1>3, <2>1 DEF Contents
<1> QED BY <1>1, <1>2, <1>3, <1>4, AfterVisit

\* The renderer at a node.
LEMMA RenderStep ==
  ASSUME WalkInv, NEW status \in {"next", "skip"}, RenderVisit(status)
  PROVE  WalkInv'
<1>1. /\ phase = "render" /\ Visited /\ Advance(arena, status) /\ (status = "skip" => entering)
      /\ skipped' = (IF status = "skip" THEN skipped \cup {current} ELSE skipped)
      /\ UNCHANGED <<used, arena, kind, content, root, inlined>>
  BY DEF RenderVisit, tree
<1>2. Underway /\ GoodTree(arena, used, kind) /\ Contents
  BY <1>1 DEF WalkInv
<1>3. /\ Counts' /\ Opened' \cup Finished' = Opened \cup Finished \cup {current}
      /\ \/ Underway' /\ phase' = phase
         \/ Over' /\ phase' = IF phase = "inlines" THEN "parsed" ELSE "ended"
  <2>1. Visits(arena', used', root, Opened, Finished, skipped) /\ At(arena', used', root, Opened, Finished, current, entering)
    BY <1>1, <1>2 DEF Underway
  <2> QED BY <1>1, <1>2, <2>1, VisitStep
<1>4. Contents'
  <2>1. phase' \in {"render", "ended"}
    BY <1>1, <1>3
  <2> QED BY <1>1, <1>2, <2>1 DEF Contents
<1> QED BY <1>1, <1>2, <1>3, <1>4, AfterVisit
-----------------------------------------------------------------------------
(* The pass of parse, growing the tree.                                    *)

\* A tree with a walk in it, about to enter c.
Entering(a, u, kd, O, D, K, c) ==
  /\ GoodTree(a, u, kd) /\ Visits(a, u, root, O, D, K) /\ At(a, u, root, O, D, c, TRUE)

\* One more node, below one not seen yet.
LEMMA GrowOnce ==
  ASSUME NEW a, NEW u, NEW kd, NEW O, NEW D, NEW K, NEW c, Entering(a, u, kd, O, D, K, c),
         NEW p \in u, p \notin O \cup D, kd[p] # "leaf", NEW x \in Node \ u, NEW k \in Kinds
  PROVE  Entering(Appended(a, p, x), u \cup {x}, [kd EXCEPT ![x] = k], O, D, K, c)
BY AppendTree, AppendVisits, AppendAt DEF Entering

\* The nodes `inline` makes are in the tree, and the walk has seen none of them.
LEMMA GrownTree ==
  ASSUME Entering(arena, used, kind, Opened, Finished, skipped, current),
         kind[current] = "content",
         NEW what \in Inlines, Cardinality(Node \ used) >= Room(what)
  PROVE  /\ Entering(Grown(what).a, used \cup Grown(what).ids,
                     [n \in Node |-> IF n \in Grown(what).spans THEN "span" ELSE kind[n]],
                     Opened, Finished, skipped, current)
         /\ Grown(what).spans \cap used = {}
<1> DEFINE x == FreshId(used)  y == FreshId(used \cup {x})
<1>1. /\ used \in SUBSET Node /\ current \in used /\ current \notin Opened \cup Finished
      /\ kind \in [Node -> Kinds] /\ \A n \in Node \ used : kind[n] = "leaf"
      /\ Opened \cup Finished \subseteq used
  BY DEF Entering, GoodTree, At, Visits
<1>2. what # "none" => x \in Node \ used
  <2> SUFFICES ASSUME what # "none", used = Node  PROVE FALSE
    BY <1>1, Fresh
  <2>1. Room(what) \in {1, 2}
    BY DEF Room, Inlines
  <2>2. Node \ used = {}
    OBVIOUS
  <2>3. Cardinality(Node \ used) = 0
    BY <2>2, FS_EmptySet
  <2> QED BY <2>1, <2>3
<1>3. what \in {"texts", "span"} => y \in Node \ (used \cup {x})
  <2> SUFFICES ASSUME what \in {"texts", "span"}, used \cup {x} = Node  PROVE FALSE
    <3>1. what \in {"texts", "span"} => used \cup {x} \in SUBSET Node
      BY <1>1, <1>2
    <3> QED BY <3>1, Fresh
  <2>1. Room(what) = 2
    BY DEF Room
  <2>2. x \in Node \ used
    BY <1>2
  <2>3. Node \ used = {x}
    BY <2>2
  <2>4. Cardinality(Node \ used) = 1
    BY <2>3, FS_Singleton
  <2> QED BY <2>1, <2>4
<1> HIDE DEF x, y
<1>4. CASE what = "none"
  <2>1. Grown(what) = [ids |-> {}, a |-> arena, spans |-> {}]
    BY <1>4 DEF Grown
  <2>2. [n \in Node |-> IF n \in Grown(what).spans THEN "span" ELSE kind[n]] = kind
    BY <1>1, <2>1
  <2>3. used \cup Grown(what).ids = used /\ Grown(what).a = arena /\ Grown(what).spans = {}
    BY <2>1
  <2> QED BY <2>2, <2>3
<1>5. what # "none" => /\ kind[current] # "leaf" /\ x \in Node \ used
                       /\ [kind EXCEPT ![x] = "leaf"] = kind
                       /\ Entering(Appended(arena, current, x), used \cup {x}, kind, Opened, Finished, skipped, current)
  <2> SUFFICES ASSUME what # "none"
               PROVE  /\ kind[current] # "leaf" /\ x \in Node \ used
                      /\ [kind EXCEPT ![x] = "leaf"] = kind
                      /\ Entering(Appended(arena, current, x), used \cup {x}, kind, Opened, Finished, skipped, current)
    OBVIOUS
  <2>1. x \in Node \ used /\ kind[current] # "leaf" /\ "leaf" \in Kinds
    BY <1>2 DEF Kinds
  <2>2. [kind EXCEPT ![x] = "leaf"] = kind
    BY <1>1, <2>1
  <2>3. Entering(Appended(arena, current, x), used \cup {x}, [kind EXCEPT ![x] = "leaf"], Opened, Finished, skipped, current)
    BY <1>1, <2>1, GrowOnce
  <2> QED BY <2>1, <2>2, <2>3
<1>6. CASE what = "text"
  <2>1. Grown(what) = [ids |-> {x}, a |-> Appended(arena, current, x), spans |-> {}]
    BY <1>6 DEF Grown, x
  <2>2. [n \in Node |-> IF n \in Grown(what).spans THEN "span" ELSE kind[n]] = kind
    BY <1>1, <2>1
  <2>3. Grown(what).ids = {x} /\ Grown(what).a = Appended(arena, current, x) /\ Grown(what).spans = {}
    BY <2>1
  <2> QED BY <1>5, <1>6, <2>2, <2>3
<1>7. CASE what = "texts"
  <2> DEFINE b == Appended(Appended(arena, current, x), current, y)
  <2>1. Grown(what) = [ids |-> {x, y}, spans |-> {}, a |-> b]
    BY <1>7 DEF Grown, x, y
  <2>2. y \in Node \ (used \cup {x}) /\ x \in Node \ used /\ "leaf" \in Kinds
    BY <1>2, <1>3, <1>7 DEF Kinds
  <2>3. [kind EXCEPT ![y] = "leaf"] = kind
    BY <1>1, <2>2
  <2>4. Entering(b, (used \cup {x}) \cup {y}, [kind EXCEPT ![y] = "leaf"], Opened, Finished, skipped, current)
    <3>1. current \in used \cup {x} /\ kind[current] # "leaf"
      BY <1>1
    <3> QED BY <1>1, <1>5, <1>7, <2>2, <3>1, GrowOnce
  <2> HIDE DEF b
  <2>5. [n \in Node |-> IF n \in Grown(what).spans THEN "span" ELSE kind[n]] = kind
    BY <1>1, <2>1
  <2>6. used \cup Grown(what).ids = (used \cup {x}) \cup {y} /\ Grown(what).a = b /\ Grown(what).spans = {}
    BY <2>1
  <2> QED BY <2>3, <2>4, <2>5, <2>6
<1>8. CASE what = "span"
  <2> DEFINE b == Appended(Appended(arena, current, x), x, y)  kd == [kind EXCEPT ![x] = "span"]
  <2>1. Grown(what) = [ids |-> {x, y}, spans |-> {x}, a |-> b]
    BY <1>8 DEF Grown, x, y
  <2>2. y \in Node \ (used \cup {x}) /\ x \in Node \ used /\ "leaf" \in Kinds /\ "span" \in Kinds
    BY <1>2, <1>3, <1>8 DEF Kinds
  <2>3. kd \in [Node -> Kinds] /\ kd[x] = "span" /\ kd[y] = "leaf"
    BY <1>1, <2>2
  <2>4. Entering(Appended(arena, current, x), used \cup {x}, kd, Opened, Finished, skipped, current)
    BY <1>1, <2>2, GrowOnce
  <2> HIDE DEF kd
  <2>5. [kd EXCEPT ![y] = "leaf"] = kd
    BY <2>2, <2>3
  <2>6. Entering(b, (used \cup {x}) \cup {y}, [kd EXCEPT ![y] = "leaf"], Opened, Finished, skipped, current)
    <3>1. x \in used \cup {x} /\ kd[x] # "leaf" /\ x \notin Opened \cup Finished
      BY <1>1, <2>2, <2>3
    <3> QED BY <2>2, <2>4, <3>1, GrowOnce
  <2> HIDE DEF b
  <2>7. Grown(what).ids = {x, y} /\ Grown(what).a = b /\ Grown(what).spans = {x}
    BY <2>1
  <2>8. [n \in Node |-> IF n \in {x} THEN "span" ELSE kind[n]] = kd
    BY <1>1, <2>2 DEF kd
  <2>9. used \cup {x, y} = (used \cup {x}) \cup {y}
    OBVIOUS
  <2>10. {x} \cap used = {}
    BY <2>2
  <2> QED BY <2>5, <2>6, <2>7, <2>8, <2>9, <2>10
<1> QED BY <1>4, <1>6, <1>7, <1>8 DEF Inlines

\* The pass of parse at a content: it is taken, and the tree grown below it.
LEMMA InlineStep ==
  ASSUME WalkInv, NEW what \in Inlines, Inline(what)
  PROVE  WalkInv'
<1> DEFINE g == Grown(what)
<1>1. /\ phase = "inlines" /\ current \in content /\ Cardinality(Node \ used) >= Room(what)
      /\ used' = used \cup g.ids /\ arena' = g.a
      /\ kind' = [n \in Node |-> IF n \in g.spans THEN "span" ELSE kind[n]]
      /\ Advance(g.a, "next") /\ content' = content \ {current}
      /\ inlined' = Bumped(inlined) /\ Visited /\ UNCHANGED <<root, skipped>>
  BY DEF Inline
<1>2. Underway /\ GoodTree(arena, used, kind) /\ Contents /\ used \subseteq Node
  BY <1>1 DEF WalkInv, GoodTree
<1>3. current \notin Opened \cup Finished /\ entering = TRUE /\ kind[current] = "content" /\ current \in Node
  <2>1. current \notin Opened \cup Finished /\ kind[current] = "content" /\ current \in used
    BY <1>1, <1>2 DEF Contents
  <2> QED BY <1>2, <2>1 DEF Underway, At
<1>4. Entering(arena, used, kind, Opened, Finished, skipped, current)
  BY <1>2, <1>3 DEF Entering, Underway
<1>5. /\ Entering(arena', used', kind', Opened, Finished, skipped, current)
      /\ g.spans \cap used = {}
  BY <1>1, <1>3, <1>4, GrownTree
<1>6. \A n \in used : kind'[n] = kind[n]
  BY <1>1, <1>2, <1>5
<1> HIDE DEF g
<1>7. used \subseteq used' /\ GoodTree(arena', used', kind')
  BY <1>1, <1>5 DEF Entering
<1>8. /\ Counts' /\ Opened' \cup Finished' = Opened \cup Finished \cup {current}
      /\ \/ Underway' /\ phase' = phase
         \/ Over' /\ phase' = IF phase = "inlines" THEN "parsed" ELSE "ended"
  <2>1. /\ Visits(arena', used', root, Opened, Finished, skipped)
        /\ At(arena', used', root, Opened, Finished, current, entering)
    <3>1. At(arena', used', root, Opened, Finished, current, TRUE)
      BY <1>5 DEF Entering
    <3> QED BY <1>3, <1>5, <3>1 DEF Entering
  <2>2. skipped' = IF "next" = "skip" THEN skipped \cup {current} ELSE skipped
    BY <1>1
  <2>3. Advance(arena', "next")
    BY <1>1
  <2> QED BY <1>1, <1>2, <1>6, <1>7, <2>1, <2>2, <2>3, VisitStep
<1>9. Contents'
  <2>1. phase' \in {"inlines", "parsed"}
    BY <1>1, <1>8
  <2>2. inlined[current] = 0 /\ inlined \in [Node -> 0..2]
    BY <1>1, <1>2, <1>3 DEF Contents
  <2>3. inlined' = [inlined EXCEPT ![current] = 1]
    BY <1>1, <1>3, <2>2 DEF Bumped
  <2>4. inlined' \in [Node -> 0..2]
    <3>1. 1 \in 0..2
      OBVIOUS
    <3> QED BY <1>3, <2>2, <2>3, <3>1
  <2>5. ASSUME NEW n \in Node  PROVE inlined'[n] = 0 \/ (inlined'[n] = 1 /\ n \notin content')
    BY <1>1, <1>2, <1>3, <2>2, <2>3 DEF Contents
  <2>6. content' \subseteq used' /\ \A n \in content' : kind'[n] = "content"
    BY <1>1, <1>2, <1>6, <1>7 DEF Contents
  <2>7. skipped' = {} /\ content' \cap (Opened' \cup Finished') = {}
    BY <1>1, <1>2, <1>8 DEF Contents
  <2> QED BY <2>1, <2>4, <2>5, <2>6, <2>7 DEF Contents
<1> QED BY <1>1, <1>7, <1>8, <1>9, AfterVisit

-----------------------------------------------------------------------------
(* The theorems.                                                           *)

\* Every step keeps the invariant.
LEMMA WalkStepwise == WalkInv /\ [WNext]_wvars => WalkInv'
<1> SUFFICES ASSUME WalkInv, [WNext]_wvars  PROVE WalkInv'
  OBVIOUS
<1>1. ASSUME NEW p \in used, NEW k \in {"block", "content", "leaf"}, AddBlock(p, k)  PROVE WalkInv'
  BY <1>1, AddBlockStep
<1>2. ASSUME NEW from \in used, StartInlines(from)  PROVE WalkInv'
  BY <1>2, WalkBegins DEF StartInlines
<1>3. CASE StartRender
  <2>1. root \in used
    BY DEF WalkInv
  <2> QED BY <1>3, <2>1, WalkBegins DEF StartRender
<1>4. ASSUME NEW what \in Inlines, Inline(what)  PROVE WalkInv'
  BY <1>4, InlineStep
<1>5. CASE PassBy
  BY <1>5, PassByStep
<1>6. ASSUME NEW status \in {"next", "skip"}, RenderVisit(status)  PROVE WalkInv'
  BY <1>6, RenderStep
<1>7. CASE UNCHANGED wvars
  BY <1>7 DEF wvars, tree, history, WalkInv, Counts, Contents, Underway, Over, Opened, Finished, IsContainer
<1> QED BY <1>1, <1>2, <1>3, <1>4, <1>5, <1>6, <1>7 DEF WNext

\* What a walk that is over has seen.
LEMMA AllSeen ==
  ASSUME WalkInv, Over, NEW n \in Node
  PROVE  n \in Finished <=> n \in Below /\ ~\E s \in skipped : n # s /\ ~NotUnder(arena, n, s)
<1> DEFINE Hidden(m) == \E s \in skipped : m # s /\ ~NotUnder(arena, m, s)
<1>1. /\ Visits(arena, used, root, {}, Finished, skipped) /\ root \in Finished
      /\ GoodTree(arena, used, kind) /\ used \subseteq Node /\ skipped \subseteq Finished /\ root \in Node
  BY DEF Over, Walked, WalkInv, GoodTree, Visits
<1>2. n \in Finished => n \in Below /\ ~Hidden(n)
  BY <1>1 DEF Visits, Below, Under
<1>3. ASSUME n \notin Finished, ~Hidden(n)  PROVE NotUnder(arena, n, root)
  <2> DEFINE S == {m \in Node : m \notin Finished /\ ~Hidden(m)}
  <2>1. S \in SUBSET Node /\ n \in S /\ root \notin S
    BY <1>1, <1>3
  <2>2. ASSUME NEW m \in S, arena[m].parent # None  PROVE arena[m].parent \in S
    <3>1. m \in Node /\ m \notin Finished /\ m # root /\ arena[m].parent \in Node
      BY <1>1, <2>2 DEF GoodTree, Links
    <3>2. arena[m].parent \notin Finished \ skipped
      BY <1>1, <2>2, <3>1 DEF Visits
    <3>3. arena[m].parent \notin skipped
      <4>1. ASSUME arena[m].parent \in skipped  PROVE Under(arena, m, arena[m].parent) /\ m # arena[m].parent
        BY <1>1, <2>2, <3>1, <4>1, UnderDown, UnderSelf
      <4> QED BY <2>2, <4>1 DEF Under
    <3>4. ASSUME NEW s \in skipped, arena[m].parent # s, ~NotUnder(arena, arena[m].parent, s)  PROVE FALSE
      <4>1. ~NotUnder(arena, m, s) /\ m # s
        BY <1>1, <2>2, <3>1, <3>4, UnderDown DEF Under
      <4> QED BY <2>2, <4>1
    <3> QED BY <1>1, <3>1, <3>2, <3>3, <3>4
  <2>3. \A m \in S : arena[m].parent \in S \cup {None}
    BY <2>2
  <2> HIDE DEF S
  <2> QED BY <2>1, <2>3 DEF NotUnder
<1> QED BY <1>2, <1>3 DEF Below

\* VisitedOnce on trees of any size, for any walk over them: Walker enters each
\* node below its root once and leaves each container once, except below what
\* it was told to skip, whatever the visitor appends where it stands.
THEOREM WalkVisitsOnce == WSpec => []VisitedOnce
<1>1. WalkInv => VisitedOnce
  <2> SUFFICES ASSUME WalkInv, phase \in {"parsed", "ended"}, NEW n \in Node
               PROVE  LET hidden == \E s \in skipped : n # s /\ ~NotUnder(arena, n, s) IN
                      /\ entered[n] = IF n \in Below /\ ~hidden THEN 1 ELSE 0
                      /\ left[n] = IF entered[n] = 1 /\ IsContainer(n) /\ n \notin skipped THEN 1 ELSE 0
    BY DEF VisitedOnce
  <2>1. Over /\ Counts
    BY DEF WalkInv
  <2>2. n \in Finished <=> n \in Below /\ ~\E s \in skipped : n # s /\ ~NotUnder(arena, n, s)
    BY <2>1, AllSeen
  <2>3. n \notin Opened
    BY <2>1 DEF Over, Walked
  <2>4. n \in Finished => /\ entered[n] = 1
                          /\ left[n] = IF IsContainer(n) /\ n \notin skipped THEN 1 ELSE 0
    BY DEF Finished
  <2>5. n \notin Finished => entered[n] = 0 /\ left[n] = 0
    BY <2>1, <2>3 DEF Counts
  <2> QED BY <2>2, <2>4, <2>5
<1> QED BY <1>1, Begins, WalkStepwise, PTL DEF WSpec

\* ContentInlinedOnce likewise: when the pass of parse ends, no content below
\* its root is left as raw text, and none was inlined a second time.
THEOREM WalkInlinesOnce == WSpec => []ContentInlinedOnce
<1>1. WalkInv => ContentInlinedOnce
  <2> SUFFICES ASSUME WalkInv  PROVE ContentInlinedOnce
    OBVIOUS
  <2>1. \A n \in Node : inlined[n] <= 1
    BY DEF WalkInv, Contents
  <2>2. ASSUME phase = "parsed", NEW n \in content, n \in Below  PROVE FALSE
    <3>1. Over /\ skipped = {} /\ content \cap Finished = {} /\ n \in Node
      BY <2>2 DEF WalkInv, Contents, GoodTree
    <3>2. n \in Finished
      BY <2>2, <3>1, AllSeen
    <3> QED BY <3>1, <3>2
  <2> QED BY <2>1, <2>2 DEF ContentInlinedOnce
<1> QED BY <1>1, Begins, WalkStepwise, PTL DEF WSpec
=============================================================================
