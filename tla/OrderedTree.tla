---------------------------- MODULE OrderedTree ----------------------------
(***************************************************************************)
(* What the syntax-tree arena of src/node.rs promises its callers, free of *)
(* the five links it keeps per node: an ordered forest over the allocated  *)
(* nodes, where every node has a sequence of children.                     *)
(***************************************************************************)
EXTENDS Naturals, Sequences, SequencesExt

CONSTANT Node        \* the ids the arena may hand out

VARIABLES used,      \* the ids handed out so far
          kids       \* kids[p]: the children of p, first to last

treeVars == <<used, kids>>

\* The forest k with c taken out of whatever list of children holds it; the
\* children of c stay with c.
Detached(k, c) == [p \in Node |-> RemoveFirst(k[p], c)]

\* c becomes the last child of p.
Added(k, p, c) == [k EXCEPT ![p] = Append(@, c)]

\* s becomes the child of p immediately before its i-th child.
PutAt(k, p, i, s) == [k EXCEPT ![p] = InsertAt(@, i, s)]

IsChild(k, p, c) == \E i \in 1..Len(k[p]) : k[p][i] = c

\* p is neither c nor below c: some set of nodes closed under "parent of"
\* holds p and leaves c out.
TreeNotUnder(k, p, c) ==
  \E S \in SUBSET Node :
    /\ p \in S /\ c \notin S
    /\ \A q \in Node : \A i \in 1..Len(k[q]) : k[q][i] \in S => q \in S

-----------------------------------------------------------------------------
TreeInit == used = {} /\ kids = [p \in Node |-> <<>>]

TreeNew == \E n \in Node \ used :
  used' = used \cup {n} /\ UNCHANGED kids

TreeUnlink == \E c \in used :
  kids' = Detached(kids, c) /\ UNCHANGED used

TreeAppend == \E p, c \in used :
  /\ TreeNotUnder(kids, p, c)
  /\ kids' = Added(Detached(kids, c), p, c)
  /\ UNCHANGED used

TreeInsert == \E p, n, s \in used :
  /\ n # s /\ IsChild(kids, p, n)
  /\ TreeNotUnder(kids, p, s)
  /\ \E i \in 1..Len(Detached(kids, s)[p]) :
       /\ Detached(kids, s)[p][i] = n
       /\ kids' = PutAt(Detached(kids, s), p, i, s)
  /\ UNCHANGED used

TreeNext == TreeNew \/ TreeUnlink \/ TreeAppend \/ TreeInsert

TreeSpec == TreeInit /\ [][TreeNext]_treeVars
=============================================================================
