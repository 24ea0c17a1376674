---------------------------- MODULE BlockProofs ----------------------------
(***************************************************************************)
(* The block pass, for documents of any size and nesting, and tables with  *)
(* any number of rows and columns.                                         *)
(***************************************************************************)
EXTENDS BlockParser, ArenaProofs, NaturalsInduction

LeafTypes == {"Paragraph", "Heading", "CodeBlock", "HTMLBlock", "HorizontalRule"}
TableTypes == {"Table", "TableHead", "TableBody", "TableRow", "TableCell"}
NodeTypes == {"Document", "BlockQuote", "List", "Item"} \cup TableTypes \cup LeafTypes

Trees == [used : SUBSET Node, arena : [Node -> Links], type : [Node -> NodeTypes],
          open : SUBSET Node, tip : Node]

-----------------------------------------------------------------------------
(***************************************************************************)
(* The path from a node to the root.                                       *)
(***************************************************************************)
Parents(a) == [n \in Node |-> a[n].parent]

\* A set of numbers that is not empty has a least one.
LEMMA LeastOne ==
  ASSUME NEW S, S \subseteq Nat, S # {}
  PROVE  \E m \in S : \A n \in S : m <= n
<1> DEFINE R == {ss \in Nat \X Nat : ss[1] < ss[2]}
<1>1. IsWellFoundedOn(R, Nat)
  BY NatLessThanWellFounded DEF OpToRel
<1>2. \A a, b \in Nat : a < b => <<a, b>> \in R
  OBVIOUS
<1> HIDE DEF R
<1>3. PICK m \in S : \A n \in S : <<n, m>> \notin R
  BY <1>1, WFMin
<1>4. ASSUME NEW n \in S  PROVE m <= n
  <2>1. n \in Nat /\ m \in Nat /\ ~(n < m)
    BY <1>2, <1>3
  <2> QED BY <2>1
<1> QED BY <1>4

\* A set that holds the first of some numbers, and the next with each, holds them all.
LEMMA AllOf ==
  ASSUME NEW S, NEW k \in Int, NEW l \in Int, k <= l, k \in S,
         \A i \in k..l - 1 : i \in S => i + 1 \in S
  PROVE  k..l \subseteq S
<1> DEFINE M == {d \in Nat : k + d <= l /\ k + d \notin S}
<1>1. ASSUME M # {}  PROVE FALSE
  <2>1. PICK d \in M : \A e \in M : d <= e
    BY <1>1, LeastOne
  <2>2. d \in Nat /\ k + d <= l /\ k + d \notin S
    BY <2>1
  <2>3. d # 0
    BY <2>2
  <2>4. d - 1 \in Nat /\ ~(d <= d - 1) /\ k + (d - 1) <= l
    BY <2>2, <2>3
  <2>5. k + (d - 1) \in S
    BY <2>1, <2>4
  <2>6. k + (d - 1) \in k..l - 1 /\ (k + (d - 1)) + 1 = k + d
    BY <2>2, <2>4
  <2> QED BY <2>2, <2>5, <2>6
<1>2. ASSUME NEW i \in k..l  PROVE i \in S
  <2>1. i - k \in Nat /\ k + (i - k) = i /\ i <= l
    OBVIOUS
  <2>2. i - k \notin M
    BY <1>1
  <2> QED BY <2>1, <2>2
<1> QED BY <1>2

\* The path runs along `parent` and holds no node twice.
LEMMA PathFacts ==
  ASSUME NEW a \in [Node -> Links], Ends(Parents(a)), NEW n \in Node
  PROVE  LET path == Ancestry(a, n) IN
         /\ path \in Seq(Node) /\ Len(path) \in Nat /\ Len(path) >= 1 /\ path[1] = n
         /\ \A i \in 1..Len(path) : /\ path[i] \in Node
                                    /\ a[path[i]].parent = IF i < Len(path) THEN path[i + 1] ELSE None
         /\ \A i, j \in 1..Len(path) : path[i] = path[j] => i = j
<1> DEFINE f == Parents(a)
           path == Ancestry(a, n)
<1>1. f \in Link
  BY DEF Parents, Link, Links
<1>2. path = Followed(f, n)
  BY DEF Ancestry, Parents
<1>3. \A m \in Node : f[m] = a[m].parent
  BY DEF Parents
<1> HIDE DEF f, path
<1>4. Along(f, n, path)
  BY <1>1, <1>2, FollowedAlong, NodeAssumption DEF f
<1>5. \A i, j \in 1..Len(path) : path[i] = path[j] => i = j
  BY <1>1, <1>4, AlongOnce DEF f
<1>6. path \in Seq(Node) /\ Len(path) > 0 /\ path[1] = n
  BY <1>4, NoneAssumption DEF Along
<1>7. \A i \in 1..Len(path) : path[i] \in Node /\ f[path[i]] = IF i < Len(path) THEN path[i + 1] ELSE None
  BY <1>4, <1>6 DEF Along
<1>8. Len(path) \in Nat /\ Len(path) >= 1
  BY <1>6
<1> QED BY <1>3, <1>5, <1>6, <1>7, <1>8 DEF path

\* It stays in every set that is closed under `parent`.
LEMMA PathInClosed ==
  ASSUME NEW a \in [Node -> Links], Ends(Parents(a)), NEW n \in Node,
         NEW S \in SUBSET Node, n \in S, Closed(a, S)
  PROVE  \A i \in 1..Len(Ancestry(a, n)) : Ancestry(a, n)[i] \in S
<1> DEFINE path == Ancestry(a, n)
           I == {i \in 1..Len(path) : path[i] \in S}
<1>1. /\ Len(path) \in Nat /\ Len(path) >= 1 /\ path[1] = n
      /\ \A i \in 1..Len(path) : /\ path[i] \in Node
                                 /\ a[path[i]].parent = IF i < Len(path) THEN path[i + 1] ELSE None
  BY PathFacts
<1> HIDE DEF path
<1>2. ASSUME NEW i \in 1..Len(path) - 1, i \in I  PROVE i + 1 \in I
  <2>1. i \in 1..Len(path) /\ i < Len(path) /\ i + 1 \in 1..Len(path)
    BY <1>1
  <2>2. a[path[i]].parent = path[i + 1] /\ path[i + 1] # None
    BY <1>1, <2>1, NoneAssumption
  <2>3. path[i + 1] \in S
    BY <1>2, <2>2 DEF Closed
  <2> QED BY <2>1, <2>3
<1>3. 1 \in I
  BY <1>1
<1>4. PICK x \in Int : x = 1
  OBVIOUS
<1> HIDE DEF I
<1>5. Len(path) \in Int /\ x <= Len(path) /\ x \in I /\ \A i \in x..Len(path) - 1 : i \in I => i + 1 \in I
  BY <1>1, <1>2, <1>3, <1>4
<1>6. x..Len(path) \subseteq I
  BY ONLY <1>4, <1>5, AllOf
<1> QED BY <1>4, <1>6 DEF I, path

\* Cut off anywhere, its upper part is closed under `parent`.
LEMMA PathAbove ==
  ASSUME NEW a \in [Node -> Links], Ends(Parents(a)), NEW n \in Node,
         NEW k \in 1..Len(Ancestry(a, n))
  PROVE  Closed(a, {Ancestry(a, n)[i] : i \in k..Len(Ancestry(a, n))})
<1> DEFINE path == Ancestry(a, n)
<1>1. /\ Len(path) \in Nat
      /\ \A i \in 1..Len(path) : a[path[i]].parent = IF i < Len(path) THEN path[i + 1] ELSE None
  BY PathFacts
<1> HIDE DEF path
<1>2. ASSUME NEW i \in k..Len(path)
      PROVE  a[path[i]].parent \in {path[j] : j \in k..Len(path)} \cup {None}
  <2>1. k \in 1..Len(path)
    BY DEF path
  <2>2. i \in 1..Len(path) /\ (i < Len(path) => i + 1 \in k..Len(path))
    BY <1>1, <2>1
  <2> QED BY <1>1, <2>2
<1>3. Closed(a, {path[i] : i \in k..Len(path)})
  BY <1>2 DEF Closed
<1> QED BY <1>3 DEF path

\* No node is above itself: what is above it is closed under `parent`.
LEMMA AboveItself ==
  ASSUME NEW a \in [Node -> Links], Ends(Parents(a)), NEW n \in Node, a[n].parent # None
  PROVE  \E S \in SUBSET Node : a[n].parent \in S /\ n \notin S /\ Closed(a, S)
<1> DEFINE path == Ancestry(a, n)
<1>1. /\ Len(path) \in Nat /\ Len(path) >= 1 /\ path[1] = n
      /\ \A i \in 1..Len(path) : /\ path[i] \in Node
                                 /\ a[path[i]].parent = IF i < Len(path) THEN path[i + 1] ELSE None
      /\ \A i, j \in 1..Len(path) : path[i] = path[j] => i = j
  BY PathFacts
<1>2. \A k \in 1..Len(path) : Closed(a, {path[i] : i \in k..Len(path)})
  BY PathAbove
<1> HIDE DEF path
<1>3. 1 \in 1..Len(path) /\ Len(path) > 1 /\ a[n].parent = path[2]
  BY <1>1
<1>4. 2 \in 1..Len(path) /\ 2 \in 2..Len(path) /\ \A i \in 2..Len(path) : i \in 1..Len(path) /\ i # 1
  BY <1>1, <1>3
<1> DEFINE S == {path[i] : i \in 2..Len(path)}
<1>5. S \in SUBSET Node /\ path[2] \in S /\ n \notin S /\ Closed(a, S)
  BY <1>1, <1>2, <1>3, <1>4
<1> QED BY <1>3, <1>5

-----------------------------------------------------------------------------
(***************************************************************************)
(* What the code changes in a tree.                                        *)
(***************************************************************************)
Moved(t, h, o) == [t EXCEPT !.tip = h, !.open = o]
Extended(t, n, c) == [t EXCEPT !.used = @ \cup {n}, !.type[n] = c, !.open = @ \cup {n}]
Hung(t, b, n) == [t EXCEPT !.arena = b, !.tip = n]

\* The tip moved and blocks closed.
LEMMA MovedParts ==
  ASSUME NEW t \in Trees, NEW h \in Node, NEW o \in SUBSET Node
  PROVE  /\ Moved(t, h, o) \in Trees
         /\ Moved(t, h, o).used = t.used /\ Moved(t, h, o).arena = t.arena
         /\ Moved(t, h, o).type = t.type /\ Moved(t, h, o).open = o /\ Moved(t, h, o).tip = h
<1> DEFINE t1 == [t EXCEPT !.tip = h]
           t2 == [t1 EXCEPT !.open = o]
<1>1. t1 \in Trees
  BY DEF Trees
<1>2. t1.used = t.used /\ t1.arena = t.arena /\ t1.type = t.type /\ t1.open = t.open /\ t1.tip = h
  BY DEF Trees
<1> HIDE DEF t1
<1>3. t2 \in Trees
  BY <1>1 DEF Trees
<1>4. t2.used = t1.used /\ t2.arena = t1.arena /\ t2.type = t1.type /\ t2.open = o /\ t2.tip = t1.tip
  BY <1>1 DEF Trees
<1>5. Moved(t, h, o) = t2
  BY DEF Moved, t1
<1> HIDE DEF t2
<1> QED BY <1>2, <1>3, <1>4, <1>5

\* A node of the arena allocated for a block.
LEMMA ExtendedParts ==
  ASSUME NEW t \in Trees, NEW n \in Node, NEW c \in NodeTypes
  PROVE  /\ Extended(t, n, c) \in Trees
         /\ Extended(t, n, c).used = t.used \cup {n} /\ Extended(t, n, c).arena = t.arena
         /\ Extended(t, n, c).type = [t.type EXCEPT ![n] = c]
         /\ Extended(t, n, c).open = t.open \cup {n} /\ Extended(t, n, c).tip = t.tip
<1> DEFINE t1 == [t EXCEPT !.used = t.used \cup {n}]
           t2 == [t1 EXCEPT !.type[n] = c]
           t3 == [t2 EXCEPT !.open = t.open \cup {n}]
<1>1. t1 \in Trees
  BY DEF Trees
<1>2. /\ t1.used = t.used \cup {n} /\ t1.arena = t.arena /\ t1.type = t.type /\ t1.open = t.open
      /\ t1.tip = t.tip
  BY DEF Trees
<1> HIDE DEF t1
<1>3. t2 \in Trees
  BY <1>1 DEF Trees
<1>4. /\ t2.used = t1.used /\ t2.arena = t1.arena /\ t2.type = [t1.type EXCEPT ![n] = c]
      /\ t2.open = t1.open /\ t2.tip = t1.tip
  BY <1>1 DEF Trees
<1> HIDE DEF t2
<1>5. t3 \in Trees
  BY <1>3 DEF Trees
<1>6. /\ t3.used = t2.used /\ t3.arena = t2.arena /\ t3.type = t2.type
      /\ t3.open = t.open \cup {n} /\ t3.tip = t2.tip
  BY <1>3 DEF Trees
<1>7. Extended(t, n, c) = t3
  BY DEF Extended, t2, t1
<1> HIDE DEF t3
<1> QED BY <1>2, <1>4, <1>5, <1>6, <1>7

\* That node linked and made the tip.
LEMMA HungParts ==
  ASSUME NEW t \in Trees, NEW n \in Node, NEW b \in [Node -> Links]
  PROVE  /\ Hung(t, b, n) \in Trees
         /\ Hung(t, b, n).used = t.used /\ Hung(t, b, n).arena = b
         /\ Hung(t, b, n).type = t.type /\ Hung(t, b, n).open = t.open /\ Hung(t, b, n).tip = n
<1> DEFINE t1 == [t EXCEPT !.arena = b]
           t2 == [t1 EXCEPT !.tip = n]
<1>1. t1 \in Trees
  BY DEF Trees
<1>2. t1.used = t.used /\ t1.arena = b /\ t1.type = t.type /\ t1.open = t.open /\ t1.tip = t.tip
  BY DEF Trees
<1> HIDE DEF t1
<1>3. t2 \in Trees
  BY <1>1 DEF Trees
<1>4. t2.used = t1.used /\ t2.arena = t1.arena /\ t2.type = t1.type /\ t2.open = t1.open /\ t2.tip = n
  BY <1>1 DEF Trees
<1>5. Hung(t, b, n) = t2
  BY DEF Hung, t1
<1> HIDE DEF t2
<1> QED BY <1>2, <1>3, <1>4, <1>5

-----------------------------------------------------------------------------
(***************************************************************************)
(* The climb of add_existing_child.                                        *)
(***************************************************************************)

\* A tree as the pass builds it.
Sound(t) ==
  /\ t \in Trees
  /\ Agree(t.arena) /\ Ends(Parents(t.arena))
  /\ \A n \in Node \ t.used : t.arena[n] = NewLinks
  /\ \A n \in Node : t.arena[n].parent # None =>
       t.arena[n].parent \in t.used /\ CanContain(t.type[t.arena[n].parent], t.type[n])
  /\ t.tip \in t.used
  /\ Doc \in t.used /\ t.type[Doc] = "Document"

\* Every block from n up to the root is open.
OpenAbove(t, n) == \E S \in SUBSET t.open : n \in S /\ S \subseteq t.used /\ Closed(t.arena, S)

\* n is h, or below it by way of nodes of the types T only.
Hangs(t, n, h, T) ==
  \E W \in SUBSET t.used :
    /\ n \in W \cup {h} /\ h \notin W
    /\ \A m \in W : t.type[m] \in T /\ t.arena[m].parent \in W \cup {h}

\* The climb from the tip leads to h for what nodes of the types T cannot hold.
Ready(t, h, T) == Sound(t) /\ h \in t.used /\ OpenAbove(t, t.tip) /\ Hangs(t, t.tip, h, T)

\* Going up from n, h is the first node that is not of the types T.
LEMMA HangsPath ==
  ASSUME NEW t, Sound(t), NEW n \in Node, NEW h \in Node, NEW T, Hangs(t, n, h, T)
  PROVE  LET path == Ancestry(t.arena, n) IN
         \E k \in 1..Len(path) : path[k] = h /\ \A j \in 1..k - 1 : t.type[path[j]] \in T
<1> DEFINE a == t.arena
           path == Ancestry(a, n)
<1>0. a \in [Node -> Links] /\ Ends(Parents(a)) /\ t.used \subseteq Node
  BY DEF Sound, Trees
<1>1. PICK W \in SUBSET t.used :
         /\ n \in W \cup {h} /\ h \notin W
         /\ \A m \in W : t.type[m] \in T /\ a[m].parent \in W \cup {h}
  BY DEF Hangs
<1>2. /\ Len(path) \in Nat /\ Len(path) >= 1 /\ path[1] = n
      /\ \A i \in 1..Len(path) : /\ path[i] \in Node
                                 /\ a[path[i]].parent = IF i < Len(path) THEN path[i + 1] ELSE None
  BY <1>0, PathFacts
<1> HIDE DEF path, a
<1> DEFINE K == {k \in 1..Len(path) : path[k] \notin W}
<1>3. K # {} /\ K \subseteq Nat
  <2>1. Len(path) \in 1..Len(path) /\ a[path[Len(path)]].parent = None
    BY <1>2
  <2>2. path[Len(path)] \notin W
    BY <1>0, <1>1, <2>1, NoneAssumption
  <2> QED BY <2>1, <2>2
<1>4. PICK k \in K : \A j \in K : k <= j
  BY <1>3, LeastOne
<1>5. k \in 1..Len(path) /\ path[k] \notin W /\ \A j \in 1..k - 1 : j \in 1..Len(path) /\ path[j] \in W
  <2>1. k \in 1..Len(path) /\ path[k] \notin W
    BY <1>4
  <2>2. ASSUME NEW j \in 1..k - 1  PROVE j \in 1..Len(path) /\ path[j] \in W
    <3>1. j \in 1..Len(path) /\ ~(k <= j)
      BY <1>2, <2>1
    <3> QED BY <1>4, <3>1
  <2> QED BY <2>1, <2>2
<1>6. path[k] = h
  <2>1. CASE k = 1
    BY <1>1, <1>2, <1>5, <2>1
  <2>2. CASE k # 1
    <3>1. k - 1 \in 1..k - 1 /\ k - 1 < Len(path) /\ (k - 1) + 1 = k
      BY <1>2, <1>5, <2>2
    <3>2. a[path[k - 1]].parent = path[k]
      BY <1>2, <1>5, <3>1
    <3> QED BY <1>1, <1>5, <3>1, <3>2
  <2> QED BY <2>1, <2>2
<1> QED BY <1>1, <1>5, <1>6 DEF path, a

\* A set closed under `parent` that holds a node holds what it hangs from.
LEMMA HangsClosed ==
  ASSUME NEW t, Sound(t), NEW n \in Node, NEW h \in Node, NEW T, Hangs(t, n, h, T),
         NEW S \in SUBSET Node, n \in S, Closed(t.arena, S)
  PROVE  h \in S
<1>0. t.arena \in [Node -> Links] /\ Ends(Parents(t.arena))
  BY DEF Sound, Trees
<1>1. PICK k \in 1..Len(Ancestry(t.arena, n)) : Ancestry(t.arena, n)[k] = h
  BY HangsPath
<1> QED BY <1>0, <1>1, PathInClosed

\* The climb ends at the first block that can hold the new one, and closes no
\* block from there on.
LEMMA ClimbTo ==
  ASSUME NEW t, NEW h, NEW T, Ready(t, h, T), NEW c,
         CanContain(t.type[h], c), \A x \in T : ~CanContain(x, c)
  PROVE  \E o \in SUBSET t.open :
           /\ Climb(t, c) = Moved(t, h, o)
           /\ \E S \in SUBSET o : h \in S /\ S \subseteq t.used /\ Closed(t.arena, S)
           /\ \A R \in SUBSET Node : t.tip \in R /\ Closed(t.arena, R) => t.open \ R \subseteq o
<1> DEFINE a == t.arena
           path == Ancestry(a, t.tip)
           able == {k \in DOMAIN path : CanContain(t.type[path[k]], c)}
<1>0. /\ t \in Trees /\ a \in [Node -> Links] /\ Ends(Parents(a)) /\ t.tip \in Node /\ h \in Node
      /\ t.open \in SUBSET Node
  BY DEF Ready, Sound, Trees
<1>1. PICK k \in 1..Len(path) : path[k] = h /\ \A j \in 1..k - 1 : t.type[path[j]] \in T
  <2>1. Sound(t) /\ Hangs(t, t.tip, h, T)
    BY DEF Ready
  <2>2. PICK n \in Node : n = t.tip
    BY <1>0
  <2>3. \E k \in 1..Len(Ancestry(a, n)) :
          Ancestry(a, n)[k] = h /\ \A j \in 1..k - 1 : t.type[Ancestry(a, n)[j]] \in T
    BY <1>0, <2>1, <2>2, HangsPath
  <2> QED BY <2>2, <2>3
<1>2. PICK S \in SUBSET t.open : t.tip \in S /\ S \subseteq t.used /\ Closed(a, S)
  BY DEF Ready, OpenAbove
<1>3. \A i \in 1..Len(path) : path[i] \in S
  BY <1>0, <1>2, PathInClosed
<1>4. Closed(a, {path[i] : i \in k..Len(path)})
  BY <1>0, PathAbove
<1>5. /\ path \in Seq(Node) /\ Len(path) \in Nat
      /\ \A i, j \in 1..Len(path) : path[i] = path[j] => i = j
  BY <1>0, PathFacts
<1>6. Climb(t, c) = IF able = {} THEN [t EXCEPT !.tip = None]
                    ELSE [t EXCEPT !.tip = path[Min(able)],
                                   !.open = @ \ {path[j] : j \in 1..(Min(able) - 1)}]
  BY DEF Climb
<1> HIDE DEF path
<1>7. k \in able /\ able \subseteq 1..Len(path) /\ \A j \in able : k <= j
  <2>1. DOMAIN path = 1..Len(path)
    BY <1>5
  <2>2. k \in able
    BY <1>1, <2>1
  <2>3. ASSUME NEW j \in able  PROVE k <= j
    <3>1. j \in 1..Len(path) /\ t.type[path[j]] \notin T
      BY <2>1
    <3> QED BY <1>1, <1>5, <3>1
  <2> QED BY <2>1, <2>2, <2>3
<1> HIDE DEF able
<1>8. Min(able) = k
  <2>1. \A m \in able : (\A j \in able : m <= j) => m = k
    <3> SUFFICES ASSUME NEW m \in able, \A j \in able : m <= j  PROVE m = k
      OBVIOUS
    <3>1. m \in Int /\ k \in Int /\ m <= k /\ k <= m
      BY <1>5, <1>7
    <3> QED BY <3>1
  <2> QED BY <1>7, <2>1 DEF Min
<1> DEFINE o == t.open \ {path[j] : j \in 1..k - 1}
           U == {path[i] : i \in k..Len(path)}
<1>9. Climb(t, c) = Moved(t, h, o)
  BY <1>1, <1>6, <1>7, <1>8 DEF Moved
<1>10. U \in SUBSET o /\ h \in U /\ U \subseteq t.used
  <2>1. ASSUME NEW i \in k..Len(path)
        PROVE  path[i] \in t.open /\ path[i] \in t.used /\ \A j \in 1..k - 1 : path[i] # path[j]
    <3>1. i \in 1..Len(path) /\ \A j \in 1..k - 1 : j \in 1..Len(path) /\ i # j
      BY <1>5
    <3> QED BY <1>2, <1>3, <1>5, <3>1
  <2>2. k \in k..Len(path)
    BY <1>5
  <2> QED BY <1>1, <2>1, <2>2
<1>11. o \in SUBSET t.open
  OBVIOUS
<1>13. ASSUME NEW R \in SUBSET Node, t.tip \in R, Closed(a, R)  PROVE t.open \ R \subseteq o
  <2>1. \A i \in 1..Len(path) : path[i] \in R
    BY <1>0, <1>13, PathInClosed DEF path
  <2>2. \A j \in 1..k - 1 : j \in 1..Len(path)
    BY <1>5
  <2> QED BY <2>1, <2>2
<1> HIDE DEF o, U
<1>12. Closed(a, U)
  BY <1>4 DEF U
<1> QED BY <1>9, <1>10, <1>11, <1>12, <1>13

-----------------------------------------------------------------------------
(***************************************************************************)
(* Adding a block.                                                         *)
(***************************************************************************)

\* Unlinking a node that was never linked changes nothing.
LEMMA UnlinkedFresh ==
  ASSUME NEW a \in [Node -> Links], NEW n \in Node, a[n] = NewLinks
  PROVE  Unlinked(a, n) = a
<1> DEFINE u == Unlinked(a, n)
<1>1. u \in [Node -> Links]
  BY UnlinkedType
<1>2. ASSUME NEW m \in Node  PROVE u[m] = a[m]
  <2>1. /\ u[m].parent = a[m].parent /\ u[m].prev = a[m].prev /\ u[m].next = a[m].next
        /\ u[m].first = a[m].first /\ u[m].last = a[m].last
    BY NoneAssumption DEF Unlinked, NewLinks
  <2>2. u[m] \in Links /\ a[m] \in Links
    BY <1>1
  <2> HIDE DEF u
  <2> QED BY <2>1, <2>2 DEF Links
<1> HIDE DEF u
<1> QED BY <1>1, <1>2 DEF u

\* What linking a fresh node under h changes.
LEMMA LinkedFresh ==
  ASSUME NEW a \in [Node -> Links], Agree(a), NEW h \in Node, NEW n \in Node, h # n, a[n] = NewLinks
  PROVE  LET b == Linked(a, h, n) IN
         /\ b \in [Node -> Links]
         /\ \A m \in Node : /\ b[m].parent = IF m = n THEN h ELSE a[m].parent
                            /\ b[m].prev = IF m = n THEN a[h].last ELSE a[m].prev
                            /\ b[m].next = IF m = a[h].last THEN n ELSE a[m].next
                            /\ b[m].last = IF m = h THEN n ELSE a[m].last
                            /\ m = a[h].last => a[m].parent = h
                            /\ a[m] = NewLinks /\ m # h /\ m # n => b[m] = NewLinks
         /\ b[n].next = None /\ b[n].last = None
<1> DEFINE b == Linked(a, h, n)
<1>1. b \in [Node -> Links]
  BY LinkedType
<1>2. \A m \in Node : m = a[h].last => a[m].parent = h
  BY DEF Agree, EndsAgree
<1>3. \A m \in Node : /\ b[m].parent = IF m = n THEN h ELSE a[m].parent
                      /\ b[m].prev = IF m = n THEN a[h].last ELSE a[m].prev
                      /\ b[m].next = IF m = a[h].last THEN n ELSE a[m].next
                      /\ b[m].last = IF m = h THEN n ELSE a[m].last
  BY DEF Linked, NewLinks
<1>4. ASSUME NEW m \in Node, a[m] = NewLinks, m # h, m # n  PROVE b[m] = NewLinks
  <2>1. m # a[h].last
    BY <1>2, <1>4, NoneAssumption DEF NewLinks
  <2>2. b[m] = [parent |-> a[m].parent, prev |-> a[m].prev, next |-> a[m].next,
                first |-> a[m].first, last |-> a[m].last]
    BY <1>4, <2>1 DEF Linked
  <2> HIDE DEF b
  <2> QED BY <1>4, <2>2 DEF NewLinks
<1>5. n # a[h].last
  BY <1>2, NoneAssumption DEF NewLinks
<1>6. b[n].next = None /\ b[n].last = None
  BY <1>3, <1>5 DEF NewLinks
<1> QED BY <1>1, <1>2, <1>3, <1>4, <1>6

\* s is t with a block of type c more, the last child of h and the tip.
Adds(t, s, h, c) ==
  /\ s.tip \in Node \ t.used
  /\ s.used = t.used \cup {s.tip}
  /\ s.type = [t.type EXCEPT ![s.tip] = c]
  /\ s.arena = Linked(t.arena, h, s.tip)
  /\ Sound(s) /\ OpenAbove(s, s.tip)

\* A fresh node is not in the tree.
LEMMA FreshNode ==
  ASSUME NEW t, Sound(t), t.used # Node
  PROVE  Fresh(t) \in Node \ t.used
BY DEF Fresh, Sound, Trees

\* A fresh node linked under one of the tree leaves a sound tree.
LEMMA SoundWith ==
  ASSUME NEW t, Sound(t), NEW h \in t.used, NEW n \in Node \ t.used, NEW c \in NodeTypes,
         CanContain(t.type[h], c), NEW s \in Trees, s.tip = n,
         s.used = t.used \cup {n}, s.arena = Linked(t.arena, h, n), s.type = [t.type EXCEPT ![n] = c]
  PROVE  Sound(s)
<1> DEFINE a == t.arena
           b == Linked(a, h, n)
           y == [t.type EXCEPT ![n] = c]
<1>1. /\ a \in [Node -> Links] /\ Agree(a) /\ Ends(Parents(a)) /\ t.type \in [Node -> NodeTypes]
      /\ t.used \subseteq Node /\ h \in Node /\ n \in Node /\ h # n /\ a[n] = NewLinks
      /\ \A m \in Node \ t.used : a[m] = NewLinks
      /\ \A m \in Node : a[m].parent # None =>
           a[m].parent \in t.used /\ CanContain(t.type[a[m].parent], t.type[m])
      /\ Doc \in t.used /\ t.type[Doc] = "Document"
  BY DEF Sound, Trees
<1> HIDE DEF a, b, y
<1>2. /\ b \in [Node -> Links]
      /\ \A m \in Node : /\ b[m].parent = IF m = n THEN h ELSE a[m].parent
                         /\ a[m] = NewLinks /\ m # h /\ m # n => b[m] = NewLinks
  BY <1>1, LinkedFresh DEF b
<1>3. Agree(b)
  <2>1. a[n].parent = None /\ a[n].prev = None /\ a[n].next = None
    BY <1>1 DEF NewLinks
  <2> QED BY <1>1, <2>1, LinkedAgrees DEF b
<1>4. Ends(Parents(b))
  <2> SUFFICES ASSUME NEW S \in SUBSET Node, S # {}, \A m \in S : Parents(b)[m] \in S  PROVE FALSE
    BY DEF Ends
  <2>1. \A m \in S : b[m].parent \in S
    BY DEF Parents
  <2>2. \A m \in Node : a[m].parent # n
    BY <1>1, NoneAssumption
  <2>3. S \ {n} \in SUBSET Node /\ S \ {n} # {}
    BY <1>1, <1>2, <2>1
  <2>4. \A m \in S \ {n} : a[m].parent \in S \ {n}
    BY <1>2, <2>1, <2>2
  <2>5. \A m \in S \ {n} : Parents(a)[m] \in S \ {n}
    BY <2>4 DEF Parents
  <2> QED BY <1>1, <2>3, <2>5 DEF Ends
<1>5. y \in [Node -> NodeTypes] /\ \A m \in Node : y[m] = IF m = n THEN c ELSE t.type[m]
  BY <1>1 DEF y
<1>6. \A m \in Node : b[m].parent # None =>
           b[m].parent \in t.used \cup {n} /\ CanContain(y[b[m].parent], y[m])
  <2> SUFFICES ASSUME NEW m \in Node, b[m].parent # None
               PROVE  b[m].parent \in t.used \cup {n} /\ CanContain(y[b[m].parent], y[m])
    OBVIOUS
  <2>1. CASE m = n
    BY <1>1, <1>2, <1>5, <2>1
  <2>2. CASE m # n
    <3>1. b[m].parent = a[m].parent /\ a[m].parent \in t.used /\ a[m].parent # n
          /\ CanContain(t.type[a[m].parent], t.type[m])
      BY <1>1, <1>2, <2>2
    <3> QED BY <1>1, <1>5, <2>2, <3>1
  <2> QED BY <2>1, <2>2
<1>7. \A m \in Node \ (t.used \cup {n}) : b[m] = NewLinks
  BY <1>1, <1>2
<1>8. s.used = t.used \cup {n} /\ s.arena = b /\ s.type = y /\ s.tip = n /\ s \in Trees
  BY DEF a, b, y
<1>9. Doc \in s.used /\ s.type[Doc] = "Document" /\ s.tip \in s.used
  BY <1>1, <1>5, <1>8
<1> QED BY <1>3, <1>4, <1>6, <1>7, <1>8, <1>9 DEF Sound

\* add_child puts the block under h and makes it the tip.
LEMMA AddedChild ==
  ASSUME NEW t, NEW h, NEW T, Ready(t, h, T), t.used # Node,
         NEW c \in NodeTypes, CanContain(t.type[h], c), \A x \in T : ~CanContain(x, c)
  PROVE  Adds(t, AddChild(t, c), h, c) /\ AddChild(t, c).tip = Fresh(t)
<1> DEFINE n == Fresh(t)
           a == t.arena
           y == [t.type EXCEPT ![n] = c]
           t1 == Extended(t, n, c)
<1>1. Sound(t) /\ h \in t.used /\ OpenAbove(t, t.tip) /\ Hangs(t, t.tip, h, T)
  BY DEF Ready
<1>2. n \in Node /\ n \notin t.used
  BY <1>1, FreshNode
<1> HIDE DEF n
<1>3. /\ t \in Trees /\ a \in [Node -> Links] /\ Agree(a) /\ Ends(Parents(a)) /\ t.type \in [Node -> NodeTypes]
      /\ t.used \subseteq Node /\ t.open \subseteq Node /\ h \in Node /\ h # n /\ a[n] = NewLinks
      /\ t.tip \in t.used
      /\ \A m \in Node \ t.used : a[m] = NewLinks
      /\ \A m \in Node : a[m].parent # None =>
           a[m].parent \in t.used /\ CanContain(t.type[a[m].parent], t.type[m])
      /\ Doc \in t.used /\ t.type[Doc] = "Document"
  BY <1>1, <1>2 DEF Sound, Trees
<1>4. y \in [Node -> NodeTypes] /\ \A m \in Node : y[m] = IF m = n THEN c ELSE t.type[m]
  BY <1>2, <1>3
<1>5. /\ t1 \in Trees
      /\ t1.used = t.used \cup {n} /\ t1.arena = a /\ t1.type = y /\ t1.open = t.open \cup {n} /\ t1.tip = t.tip
  BY <1>2, <1>3, ExtendedParts
<1> HIDE DEF y, t1, a
<1>6. Sound(t1)
  <2>2. \A m \in Node : a[m].parent # None =>
          a[m].parent \in t.used \cup {n} /\ CanContain(y[a[m].parent], y[m])
    <3> SUFFICES ASSUME NEW m \in Node, a[m].parent # None
                 PROVE  a[m].parent \in t.used \cup {n} /\ CanContain(y[a[m].parent], y[m])
      OBVIOUS
    <3>1. m # n
      BY <1>3 DEF NewLinks
    <3>2. a[m].parent \in t.used /\ a[m].parent # n /\ CanContain(t.type[a[m].parent], t.type[m])
      BY <1>2, <1>3
    <3> QED BY <1>3, <1>4, <3>1, <3>2
  <2>3. Doc \in t1.used /\ t1.type[Doc] = "Document" /\ t1.tip \in t1.used
    BY <1>2, <1>3, <1>4, <1>5
  <2> QED BY <1>3, <1>5, <2>2, <2>3 DEF Sound
<1>7. Hangs(t1, t.tip, h, T)
  <2>1. PICK W \in SUBSET t.used :
           /\ t.tip \in W \cup {h} /\ h \notin W
           /\ \A m \in W : t.type[m] \in T /\ a[m].parent \in W \cup {h}
    BY <1>1 DEF Hangs, a
  <2>2. W \in SUBSET t1.used /\ \A m \in W : t1.type[m] \in T /\ t1.arena[m].parent \in W \cup {h}
    BY <1>2, <1>3, <1>4, <1>5, <2>1
  <2> QED BY <2>1, <2>2 DEF Hangs
<1>8. PICK P \in SUBSET t.open : t.tip \in P /\ P \subseteq t.used /\ Closed(a, P)
  BY <1>1 DEF OpenAbove, a
<1>9. OpenAbove(t1, t.tip)
  <2>1. P \in SUBSET t1.open /\ P \subseteq t1.used /\ Closed(t1.arena, P)
    BY <1>5, <1>8
  <2> QED BY <1>8, <2>1 DEF OpenAbove
<1>10. Ready(t1, h, T) /\ CanContain(t1.type[h], c)
  BY <1>3, <1>4, <1>5, <1>6, <1>7, <1>9 DEF Ready
<1>11. PICK o \in SUBSET t1.open :
         /\ Climb(t1, c) = Moved(t1, h, o)
         /\ \E S \in SUBSET o : h \in S /\ S \subseteq t1.used /\ Closed(t1.arena, S)
         /\ \A R \in SUBSET Node : t1.tip \in R /\ Closed(t1.arena, R) => t1.open \ R \subseteq o
  BY <1>10, ClimbTo
<1>12. n \in o /\ o \in SUBSET Node
  <2>1. P \in SUBSET Node /\ n \notin P
    BY <1>2, <1>3, <1>8
  <2> QED BY <1>2, <1>3, <1>5, <1>8, <1>11, <2>1
<1> DEFINE t2 == Moved(t1, h, o)
           b == Linked(a, h, n)
           s == Hung(t2, b, n)
<1>13. t2 \in Trees /\ t2.used = t1.used /\ t2.arena = a /\ t2.type = y /\ t2.open = o /\ t2.tip = h
  BY <1>3, <1>5, <1>12, MovedParts
<1>14. b \in [Node -> Links] /\ \A m \in Node : b[m].parent = IF m = n THEN h ELSE a[m].parent
  BY <1>2, <1>3, LinkedFresh
<1> HIDE DEF t2, b
<1>15. /\ s \in Trees /\ s.used = t.used \cup {n} /\ s.arena = b /\ s.type = y /\ s.open = o /\ s.tip = n
  BY <1>2, <1>5, <1>13, <1>14, HungParts
<1>16. AddChild(t, c) = s
  <2>1. AddChild(t, c) = AddExistingChild(t1, n)
    <3>1. t.tip # None
      BY <1>3, NoneAssumption
    <3> QED BY <3>1 DEF AddChild, n, t1, Extended
  <2>2. Climb(t1, t1.type[n]) = t2 /\ t2.tip # None
    BY <1>2, <1>3, <1>4, <1>5, <1>11, <1>13, NoneAssumption DEF t2
  <2>3. Appended(t2.arena, t2.tip, n) = b
    BY <1>2, <1>3, <1>13, UnlinkedFresh DEF Appended, b
  <2>4. AddExistingChild(t1, n) = Hung(t2, Appended(t2.arena, t2.tip, n), n)
    BY <2>2 DEF AddExistingChild, Hung
  <2> QED BY <2>1, <2>3, <2>4
<1> HIDE DEF s
<1>17. Sound(s)
  BY <1>1, <1>2, <1>15, SoundWith DEF a, b, y
<1>18. OpenAbove(s, n)
  <2>1. PICK S \in SUBSET o : h \in S /\ S \subseteq t1.used /\ Closed(a, S)
    BY <1>5, <1>11
  <2>2. Closed(b, S \cup {n})
    BY <1>2, <1>12, <1>14, <2>1 DEF Closed
  <2>3. S \cup {n} \in SUBSET s.open /\ S \cup {n} \subseteq s.used
    BY <1>5, <1>12, <1>15, <2>1
  <2> QED BY <1>15, <2>2, <2>3 DEF OpenAbove
<1> QED BY <1>2, <1>15, <1>16, <1>17, <1>18 DEF Adds, a, b, y, n

-----------------------------------------------------------------------------
(***************************************************************************)
(* What becomes of the rest of the tree.                                   *)
(***************************************************************************)
New(t0, t) == t.used \ t0.used

\* t is t0 with blocks added under h, under each other or nowhere.
Grown(t0, t, h) ==
  /\ t0.used \subseteq t.used
  /\ \A m \in t0.used :
       /\ t.type[m] = t0.type[m]
       /\ t.arena[m].parent = t0.arena[m].parent /\ t.arena[m].prev = t0.arena[m].prev
       /\ t0.arena[m].parent # h => t.arena[m].next = t0.arena[m].next
       /\ m # h => t.arena[m].last = t0.arena[m].last
  /\ \A m \in New(t0, t) : t.arena[m].parent \in New(t0, t) \cup {h, None}

\* What one more block changes.
Changes(t, s, h, c, n) ==
  /\ n \in Node \ t.used /\ s.used = t.used \cup {n} /\ h # n
  /\ \A m \in Node : /\ s.type[m] = IF m = n THEN c ELSE t.type[m]
                     /\ s.arena[m].parent = IF m = n THEN h ELSE t.arena[m].parent
                     /\ s.arena[m].prev = IF m = n THEN t.arena[h].last ELSE t.arena[m].prev
                     /\ s.arena[m].next = IF m = t.arena[h].last THEN n ELSE t.arena[m].next
                     /\ s.arena[m].last = IF m = h THEN n ELSE t.arena[m].last
                     /\ m = t.arena[h].last => t.arena[m].parent = h
                     /\ m \notin t.used => t.arena[m].parent = None /\ t.arena[m].last = None
                     /\ t.arena[m].parent # n
  /\ s.arena[n].next = None /\ s.arena[n].last = None
  /\ Sound(s) /\ OpenAbove(s, n)
  /\ Cardinality(s.used) = Cardinality(t.used) + 1

\* Adding a block changes its own links, the next of the last child and the last of h.
LEMMA AddsParts ==
  ASSUME NEW t, NEW s, NEW h \in t.used, NEW c \in NodeTypes, Sound(t), Adds(t, s, h, c)
  PROVE  Changes(t, s, h, c, s.tip)
<1> DEFINE n == s.tip
<1>1. /\ t.arena \in [Node -> Links] /\ Agree(t.arena) /\ t.type \in [Node -> NodeTypes]
      /\ t.used \subseteq Node /\ h \in Node
      /\ \A m \in Node \ t.used : t.arena[m] = NewLinks
      /\ \A m \in Node : t.arena[m].parent # None => t.arena[m].parent \in t.used
  BY DEF Sound, Trees
<1>2. /\ n \in Node \ t.used /\ s.used = t.used \cup {n} /\ s.type = [t.type EXCEPT ![n] = c]
      /\ s.arena = Linked(t.arena, h, n) /\ Sound(s) /\ OpenAbove(s, n)
  BY DEF Adds
<1> HIDE DEF n
<1>3. n \in Node /\ h # n /\ t.arena[n] = NewLinks
  BY <1>1, <1>2
<1>4. /\ \A m \in Node : /\ s.arena[m].parent = IF m = n THEN h ELSE t.arena[m].parent
                         /\ s.arena[m].prev = IF m = n THEN t.arena[h].last ELSE t.arena[m].prev
                         /\ s.arena[m].next = IF m = t.arena[h].last THEN n ELSE t.arena[m].next
                         /\ s.arena[m].last = IF m = h THEN n ELSE t.arena[m].last
                         /\ m = t.arena[h].last => t.arena[m].parent = h
      /\ s.arena[n].next = None /\ s.arena[n].last = None
  BY <1>1, <1>2, <1>3, LinkedFresh
<1>5. \A m \in Node : s.type[m] = IF m = n THEN c ELSE t.type[m]
  BY <1>1, <1>2
<1>6. \A m \in Node : /\ m \notin t.used => t.arena[m].parent = None /\ t.arena[m].last = None
                      /\ t.arena[m].parent # n
  BY <1>1, <1>2, NoneAssumption DEF NewLinks
<1>7. Cardinality(s.used) = Cardinality(t.used) + 1
  <2>1. IsFiniteSet(t.used) /\ n \notin t.used
    BY <1>1, <1>2, NodeAssumption, FS_Subset
  <2>2. Cardinality(t.used \cup {n}) = Cardinality(t.used) + 1
    BY <2>1, FS_AddElement
  <2> QED BY <1>2, <2>2
<1> QED BY <1>2, <1>3, <1>4, <1>5, <1>6, <1>7 DEF n, Changes

\* A block more, under h or under one that was added.
LEMMA GrownMore ==
  ASSUME NEW t0, NEW t, NEW s, NEW h, NEW g, NEW c \in NodeTypes, Sound(t0), Sound(t),
         h \in t0.used, Grown(t0, t, h), g \in New(t0, t) \cup {h}, Adds(t, s, g, c)
  PROVE  Grown(t0, s, h) /\ New(t0, s) = New(t0, t) \cup {s.tip} /\ s.tip \notin t.used
<1> DEFINE n == s.tip
<1>1. t0.used \subseteq Node /\ t.used \subseteq Node /\ g \in t.used /\ t0.used \subseteq t.used
  BY DEF Sound, Trees, Grown, New
<1>2. /\ n \in Node \ t.used /\ s.used = t.used \cup {n} /\ g # n
      /\ \A m \in Node : /\ s.type[m] = IF m = n THEN c ELSE t.type[m]
                         /\ s.arena[m].parent = IF m = n THEN g ELSE t.arena[m].parent
                         /\ s.arena[m].prev = IF m = n THEN t.arena[g].last ELSE t.arena[m].prev
                         /\ s.arena[m].next = IF m = t.arena[g].last THEN n ELSE t.arena[m].next
                         /\ s.arena[m].last = IF m = g THEN n ELSE t.arena[m].last
                         /\ m = t.arena[g].last => t.arena[m].parent = g
  <2>1. Changes(t, s, g, c, n)
    BY <1>1, AddsParts
  <2> QED BY <2>1 DEF Changes
<1> HIDE DEF n
<1>3. New(t0, s) = New(t0, t) \cup {n}
  BY <1>1, <1>2 DEF New
<1>4. ASSUME NEW m \in t0.used
      PROVE  /\ s.type[m] = t0.type[m]
             /\ s.arena[m].parent = t0.arena[m].parent /\ s.arena[m].prev = t0.arena[m].prev
             /\ t0.arena[m].parent # h => s.arena[m].next = t0.arena[m].next
             /\ m # h => s.arena[m].last = t0.arena[m].last
  <2>1. m \in Node /\ m # n /\ m \notin New(t0, t)
    BY <1>1, <1>2 DEF New
  <2>2. /\ t.type[m] = t0.type[m]
        /\ t.arena[m].parent = t0.arena[m].parent /\ t.arena[m].prev = t0.arena[m].prev
        /\ t0.arena[m].parent # h => t.arena[m].next = t0.arena[m].next
        /\ m # h => t.arena[m].last = t0.arena[m].last
    BY DEF Grown
  <2>3. t0.arena[m].parent \notin New(t0, t)
    BY <2>1, NoneAssumption, <1>1 DEF Sound, New
  <2>4. m = t.arena[g].last => t0.arena[m].parent = h
    <3>1. m = t.arena[g].last => t.arena[m].parent = g
      BY <1>2, <2>1
    <3> QED BY <2>2, <2>3, <3>1
  <2> QED BY <1>2, <2>1, <2>2, <2>4
<1>5. ASSUME NEW m \in New(t0, s)  PROVE s.arena[m].parent \in New(t0, s) \cup {h, None}
  BY <1>1, <1>2, <1>3 DEF Grown, New
<1> QED BY <1>1, <1>2, <1>3, <1>4, <1>5 DEF Grown, n

\* Nothing added yet.
LEMMA GrownNot ==
  ASSUME NEW t, NEW h
  PROVE  Grown(t, t, h) /\ New(t, t) = {}
BY DEF Grown, New

\* What can be added next: to the block just added, or beside it.
LEMMA AddsReady ==
  ASSUME NEW t, NEW s, NEW h \in t.used, NEW c \in NodeTypes, Sound(t), Adds(t, s, h, c)
  PROVE  Ready(s, s.tip, {}) /\ Ready(s, h, {c})
<1> DEFINE n == s.tip
<1>1. /\ n \in Node \ t.used /\ s.used = t.used \cup {n} /\ h # n
      /\ \A m \in Node : /\ s.type[m] = IF m = n THEN c ELSE t.type[m]
                         /\ s.arena[m].parent = IF m = n THEN h ELSE t.arena[m].parent
      /\ Sound(s) /\ OpenAbove(s, n)
  <2>1. Changes(t, s, h, c, n)
    BY AddsParts
  <2> QED BY <2>1 DEF Changes
<1> HIDE DEF n
<1>2. Hangs(s, n, n, {})
  <2>1. {} \in SUBSET s.used /\ n \in {} \cup {n} /\ n \notin {} /\ \A m \in {} : s.arena[m].parent \in {} \cup {n}
    OBVIOUS
  <2> QED BY <2>1 DEF Hangs
<1>3. Hangs(s, n, h, {c})
  <2>1. {n} \in SUBSET s.used /\ h \notin {n} /\ s.type[n] \in {c} /\ s.arena[n].parent = h
    BY <1>1
  <2> QED BY <2>1 DEF Hangs
<1>4. s.tip = n
  BY DEF n
<1> QED BY <1>1, <1>2, <1>3, <1>4 DEF Ready

-----------------------------------------------------------------------------
(***************************************************************************)
(* Tables.  The blocks of a table are added one after the other, each by a *)
(* climb from the last; what they hang from is decided by their types.     *)
(***************************************************************************)

\* t is t0 with a table under h, or the beginning of one.
InTable(t0, t, h) ==
  /\ Sound(t) /\ OpenAbove(t, t.tip) /\ Grown(t0, t, h) /\ t.tip \in New(t0, t)
  /\ \A m \in New(t0, t) :
       /\ t.type[m] \in TableTypes
       /\ IF t.type[m] = "Table" THEN t.arena[m].parent = h ELSE t.arena[m].parent \in New(t0, t)

\* Which block of a table comes after which.
Follows(x, c) ==
  \/ c = "TableHead" /\ x = "Table"
  \/ c = "TableBody" /\ x = "TableCell"
  \/ c = "TableRow" /\ x \in {"TableHead", "TableBody", "TableCell"}
  \/ c = "TableCell" /\ x \in {"TableRow", "TableCell"}

\* The next block of a table finds its place in it.
LEMMA TableReady ==
  ASSUME NEW t0, NEW t, NEW h, Sound(t0), h \in t0.used, InTable(t0, t, h),
         NEW c, Follows(t.type[t.tip], c)
  PROVE  \E g \in New(t0, t), T \in SUBSET TableTypes :
           Ready(t, g, T) /\ CanContain(t.type[g], c) /\ \A x \in T : ~CanContain(x, c)
<1> DEFINE n == t.tip
           W == New(t0, t)
           up(m) == t.arena[m].parent
<1>1. Sound(t) /\ OpenAbove(t, n) /\ n \in W /\ W \subseteq t.used /\ t.used \subseteq Node
  BY DEF InTable, New, Sound, Trees
<1>2. \A m \in W : /\ t.type[m] \in TableTypes
                   /\ t.type[m] # "Table" => up(m) \in W
  BY DEF InTable
<1>3. \A m \in W : up(m) \in W => CanContain(t.type[up(m)], t.type[m])
  BY <1>1, NoneAssumption DEF Sound
<1> HIDE DEF n, W, up
<1>4. \A m \in W : t.type[m] # "Table" =>
        /\ up(m) \in W /\ t.type[up(m)] \in TableTypes /\ up(m) # m
        /\ t.type[m] = "TableCell" => t.type[up(m)] = "TableRow"
        /\ t.type[m] = "TableRow" => t.type[up(m)] \in {"TableHead", "TableBody"}
        /\ t.type[m] \in {"TableHead", "TableBody"} => t.type[up(m)] = "Table"
  BY <1>2, <1>3 DEF TableTypes, CanContain
<1>5. ASSUME NEW V \in SUBSET W, NEW g \in W, NEW T, n \in V \cup {g}, g \notin V,
             \A m \in V : t.type[m] \in T /\ up(m) \in V \cup {g}
      PROVE  Ready(t, g, T)
  <2>1. V \in SUBSET t.used /\ g \in t.used
    BY <1>1
  <2>2. Hangs(t, n, g, T)
    BY <1>5, <2>1 DEF Hangs, up
  <2> QED BY <1>1, <2>1, <2>2 DEF Ready, n
<1>6. CASE \/ c = "TableHead" /\ t.type[n] = "Table"
           \/ c = "TableRow" /\ t.type[n] \in {"TableHead", "TableBody"}
           \/ c = "TableCell" /\ t.type[n] = "TableRow"
  <2>1. {} \in SUBSET W /\ n \in {} \cup {n} /\ n \notin {} /\ \A m \in {} : t.type[m] \in {} /\ up(m) \in {} \cup {n}
    OBVIOUS
  <2>2. Ready(t, n, {})
    BY <1>1, <1>5, <2>1
  <2>3. CanContain(t.type[n], c)
    BY <1>6 DEF CanContain
  <2>4. {} \in SUBSET TableTypes /\ \A x \in {} : ~CanContain(x, c)
    OBVIOUS
  <2> QED BY <1>1, <2>2, <2>3, <2>4 DEF W
<1>7. CASE c = "TableCell" /\ t.type[n] = "TableCell"
  <2> DEFINE g == up(n)
  <2>1. g \in W /\ t.type[g] = "TableRow" /\ g # n
    BY <1>1, <1>4, <1>7
  <2> HIDE DEF g
  <2>2. {n} \in SUBSET W /\ n \in {n} \cup {g} /\ g \notin {n}
        /\ \A m \in {n} : t.type[m] \in {"TableCell"} /\ up(m) \in {n} \cup {g}
    BY <1>1, <1>7, <2>1 DEF g
  <2>3. Ready(t, g, {"TableCell"})
    BY <1>5, <2>1, <2>2
  <2>4. {"TableCell"} \in SUBSET TableTypes /\ CanContain("TableRow", c) /\ ~CanContain("TableCell", c)
    BY <1>7 DEF TableTypes, CanContain
  <2> QED BY <2>1, <2>3, <2>4 DEF W
<1>8. CASE c = "TableRow" /\ t.type[n] = "TableCell"
  <2> DEFINE r == up(n)
             g == up(r)
             T == {"TableCell", "TableRow"}
  <2>1. r \in W /\ t.type[r] = "TableRow"
    BY <1>1, <1>4, <1>8
  <2> HIDE DEF r
  <2>2. g \in W /\ t.type[g] \in {"TableHead", "TableBody"}
    BY <1>4, <2>1
  <2> HIDE DEF g
  <2>3. {n, r} \in SUBSET W /\ n \in {n, r} \cup {g} /\ g \notin {n, r}
        /\ \A m \in {n, r} : t.type[m] \in T /\ up(m) \in {n, r} \cup {g}
    BY <1>1, <1>8, <2>1, <2>2 DEF g, r
  <2>4. Ready(t, g, T)
    BY <1>5, <2>2, <2>3
  <2>5. T \in SUBSET TableTypes /\ CanContain(t.type[g], c) /\ \A x \in T : ~CanContain(x, c)
    BY <1>8, <2>2 DEF TableTypes, CanContain
  <2> QED BY <2>2, <2>4, <2>5 DEF W
<1>9. CASE c = "TableBody" /\ t.type[n] = "TableCell"
  <2> DEFINE r == up(n)
             k == up(r)
             g == up(k)
             T == {"TableCell", "TableRow", "TableHead", "TableBody"}
  <2>1. r \in W /\ t.type[r] = "TableRow"
    BY <1>1, <1>4, <1>9
  <2> HIDE DEF r
  <2>2. k \in W /\ t.type[k] \in {"TableHead", "TableBody"}
    BY <1>4, <2>1
  <2> HIDE DEF k
  <2>3. g \in W /\ t.type[g] = "Table"
    BY <1>4, <2>2
  <2> HIDE DEF g
  <2>4. {n, r, k} \in SUBSET W /\ n \in {n, r, k} \cup {g} /\ g \notin {n, r, k}
        /\ \A m \in {n, r, k} : t.type[m] \in T /\ up(m) \in {n, r, k} \cup {g}
    BY <1>1, <1>9, <2>1, <2>2, <2>3 DEF g, k, r
  <2>5. Ready(t, g, T)
    BY <1>5, <2>3, <2>4
  <2>6. T \in SUBSET TableTypes /\ CanContain(t.type[g], c) /\ \A x \in T : ~CanContain(x, c)
    BY <1>9, <2>3 DEF TableTypes, CanContain
  <2> QED BY <2>3, <2>5, <2>6 DEF W
<1> QED BY <1>6, <1>7, <1>8, <1>9 DEF Follows, W, n

\* One block more in a table.
LEMMA TableMore ==
  ASSUME NEW t0, NEW t, NEW h, Sound(t0), h \in t0.used, InTable(t0, t, h),
         NEW c, Follows(t.type[t.tip], c), Cardinality(t.used) < Cardinality(Node)
  PROVE  LET s == AddChild(t, c) IN
         /\ InTable(t0, s, h) /\ s.type[s.tip] = c
         /\ Cardinality(s.used) = Cardinality(t.used) + 1
<1> DEFINE s == AddChild(t, c)
           n == s.tip
           W == New(t0, t)
<1>1. PICK g \in W, T \in SUBSET TableTypes :
         Ready(t, g, T) /\ CanContain(t.type[g], c) /\ \A x \in T : ~CanContain(x, c)
  BY TableReady
<1>2. c \in TableTypes \ {"Table"} /\ c \in NodeTypes
  BY DEF Follows, TableTypes, NodeTypes
<1>3. t.used # Node
  <2>1. IsFiniteSet(Node) /\ Cardinality(Node) \in Nat
    BY NodeAssumption, FS_CardinalityType
  <2> QED BY <2>1
<1>4. Sound(t) /\ Grown(t0, t, h) /\ g \in t.used /\ t.used \subseteq Node
  BY DEF InTable, New, Sound, Trees
<1>5. Adds(t, s, g, c)
  BY <1>1, <1>2, <1>3, AddedChild
<1> HIDE DEF s
<1>6. Changes(t, s, g, c, n)
  BY <1>2, <1>4, <1>5, AddsParts
<1>7. Grown(t0, s, h) /\ New(t0, s) = W \cup {n} /\ n \notin t.used
  BY <1>2, <1>4, <1>5, GrownMore
<1>8. /\ n \in Node \ t.used /\ Sound(s) /\ OpenAbove(s, n) /\ Cardinality(s.used) = Cardinality(t.used) + 1
      /\ \A m \in Node : /\ s.type[m] = IF m = n THEN c ELSE t.type[m]
                         /\ s.arena[m].parent = IF m = n THEN g ELSE t.arena[m].parent
  BY <1>6 DEF Changes
<1>9. /\ \A m \in W : /\ m \in Node /\ t.type[m] \in TableTypes
                      /\ IF t.type[m] = "Table" THEN t.arena[m].parent = h ELSE t.arena[m].parent \in W
      /\ n \notin W
  BY <1>4, <1>7 DEF InTable, New
<1> HIDE DEF n, W
<1>10. ASSUME NEW m \in W \cup {n}
       PROVE  /\ s.type[m] \in TableTypes
              /\ IF s.type[m] = "Table" THEN s.arena[m].parent = h ELSE s.arena[m].parent \in W \cup {n}
  <2>1. CASE m = n
    BY <1>2, <1>8, <2>1
  <2>2. CASE m \in W
    BY <1>8, <1>9, <2>2
  <2> QED BY <2>1, <2>2
<1>11. InTable(t0, s, h)
  BY <1>7, <1>8, <1>10 DEF InTable, n
<1> QED BY <1>8, <1>11 DEF s, n

\* The cells of a row are added one after the other.
LEMMA RowSteps ==
  ASSUME NEW t, NEW cols \in Nat
  PROVE  \E g : /\ TableRow(t, cols) = g[cols] /\ g[0] = AddChild(t, "TableRow")
                /\ \A i \in 1..cols : g[i] = AddChild(g[i - 1], "TableCell")
<1> DEFINE Begun(g, k) == /\ g[0] = AddChild(t, "TableRow")
                          /\ \A i \in 1..k : g[i] = AddChild(g[i - 1], "TableCell")
           K == {k \in 0..cols : \E g : Begun(g, k)}
           Unfolds(g) == g = [i \in 0..cols |-> IF i = 0 THEN AddChild(t, "TableRow")
                                                ELSE AddChild(g[i - 1], "TableCell")]
           after == CHOOSE g : Unfolds(g)
<1>1. 0 \in K
  <2> DEFINE f == [i \in {0} |-> AddChild(t, "TableRow")]
  <2>1. f[0] = AddChild(t, "TableRow")
    OBVIOUS
  <2> HIDE DEF f
  <2>2. Begun(f, 0)
    BY <2>1
  <2> QED BY <2>2
<1>2. ASSUME NEW k \in 0..cols - 1, k \in K  PROVE k + 1 \in K
  <2>1. PICK g : Begun(g, k)
    BY <1>2
  <2> DEFINE f == [i \in 0..k + 1 |-> IF i = k + 1 THEN AddChild(g[k], "TableCell") ELSE g[i]]
  <2>2. f[0] = AddChild(t, "TableRow")
    BY <2>1
  <2>3. ASSUME NEW i \in 1..k + 1  PROVE f[i] = AddChild(f[i - 1], "TableCell")
    <3>1. i \in 0..k + 1 /\ i - 1 \in 0..k + 1 /\ i - 1 # k + 1
      OBVIOUS
    <3>2. CASE i = k + 1
      BY <3>1, <3>2
    <3>3. CASE i # k + 1
      <4>1. i \in 1..k
        BY <3>3
      <4> QED BY <2>1, <3>1, <3>3, <4>1
    <3> QED BY <3>2, <3>3
  <2> HIDE DEF f
  <2>4. Begun(f, k + 1)
    BY <2>2, <2>3
  <2> QED BY <2>4
<1>3. cols \in K
  <2> HIDE DEF K
  <2>1. PICK x \in Int : x = 0
    OBVIOUS
  <2>2. cols \in Int /\ x <= cols /\ x \in K /\ \A k \in x..cols - 1 : k \in K => k + 1 \in K
    BY <1>1, <1>2, <2>1
  <2>3. x..cols \subseteq K
    BY ONLY <2>1, <2>2, AllOf
  <2> QED BY <2>1, <2>3
<1>4. PICK g : Begun(g, cols)
  BY <1>3
<1>5. Unfolds([i \in 0..cols |-> g[i]])
  <2> DEFINE f == [i \in 0..cols |-> g[i]]
  <2>1. ASSUME NEW i \in 0..cols
        PROVE  f[i] = IF i = 0 THEN AddChild(t, "TableRow") ELSE AddChild(f[i - 1], "TableCell")
    <3>1. i # 0 => i \in 1..cols /\ i - 1 \in 0..cols
      OBVIOUS
    <3> QED BY <1>4, <3>1
  <2>2. f = [i \in 0..cols |-> f[i]]
    OBVIOUS
  <2> HIDE DEF f
  <2>3. Unfolds(f)
    BY <2>1, <2>2
  <2> QED BY <2>3 DEF f
<1>6. Unfolds(after)
  BY <1>5
<1>7. TableRow(t, cols) = after[cols]
  BY DEF TableRow
<1> HIDE DEF after
<1>8. \A i \in 0..cols : after[i] = IF i = 0 THEN AddChild(t, "TableRow")
                                    ELSE AddChild(after[i - 1], "TableCell")
  BY <1>6
<1>9. /\ 0 \in 0..cols /\ \A i \in 1..cols : i \in 0..cols /\ i # 0
  OBVIOUS
<1> QED BY <1>7, <1>8, <1>9

\* The body of a table, by rows.
Body(head, cols, rows) ==
  LET after[i \in 0..rows] == IF i = 0 THEN AddChild(head, "TableBody")
                              ELSE TableRow(after[i - 1], cols)
  IN  after

\* The rows of a table are added one after the other, too.
LEMMA TableSteps ==
  ASSUME NEW head, NEW cols, NEW rows \in Nat
  PROVE  /\ Body(head, cols, rows)[0] = AddChild(head, "TableBody")
         /\ \A i \in 1..rows : Body(head, cols, rows)[i] = TableRow(Body(head, cols, rows)[i - 1], cols)
<1> DEFINE Begun(g, k) == /\ g[0] = AddChild(head, "TableBody")
                          /\ \A i \in 1..k : g[i] = TableRow(g[i - 1], cols)
           K == {k \in 0..rows : \E g : Begun(g, k)}
           Unfolds(g) == g = [i \in 0..rows |-> IF i = 0 THEN AddChild(head, "TableBody")
                                                ELSE TableRow(g[i - 1], cols)]
           after == CHOOSE g : Unfolds(g)
<1>1. 0 \in K
  <2> DEFINE f == [i \in {0} |-> AddChild(head, "TableBody")]
  <2>1. f[0] = AddChild(head, "TableBody")
    OBVIOUS
  <2> HIDE DEF f
  <2>2. Begun(f, 0)
    BY <2>1
  <2> QED BY <2>2
<1>2. ASSUME NEW k \in 0..rows - 1, k \in K  PROVE k + 1 \in K
  <2>1. PICK g : Begun(g, k)
    BY <1>2
  <2> DEFINE f == [i \in 0..k + 1 |-> IF i = k + 1 THEN TableRow(g[k], cols) ELSE g[i]]
  <2>2. f[0] = AddChild(head, "TableBody")
    BY <2>1
  <2>3. ASSUME NEW i \in 1..k + 1  PROVE f[i] = TableRow(f[i - 1], cols)
    <3>1. i \in 0..k + 1 /\ i - 1 \in 0..k + 1 /\ i - 1 # k + 1
      OBVIOUS
    <3>2. CASE i = k + 1
      BY <3>1, <3>2
    <3>3. CASE i # k + 1
      <4>1. i \in 1..k
        BY <3>3
      <4> QED BY <2>1, <3>1, <3>3, <4>1
    <3> QED BY <3>2, <3>3
  <2> HIDE DEF f
  <2>4. Begun(f, k + 1)
    BY <2>2, <2>3
  <2> QED BY <2>4
<1>3. rows \in K
  <2> HIDE DEF K
  <2>1. PICK x \in Int : x = 0
    OBVIOUS
  <2>2. rows \in Int /\ x <= rows /\ x \in K /\ \A k \in x..rows - 1 : k \in K => k + 1 \in K
    BY <1>1, <1>2, <2>1
  <2>3. x..rows \subseteq K
    BY ONLY <2>1, <2>2, AllOf
  <2> QED BY <2>1, <2>3
<1>4. PICK g : Begun(g, rows)
  BY <1>3
<1>5. Unfolds([i \in 0..rows |-> g[i]])
  <2> DEFINE f == [i \in 0..rows |-> g[i]]
  <2>1. ASSUME NEW i \in 0..rows
        PROVE  f[i] = IF i = 0 THEN AddChild(head, "TableBody") ELSE TableRow(f[i - 1], cols)
    <3>1. i # 0 => i \in 1..rows /\ i - 1 \in 0..rows
      OBVIOUS
    <3> QED BY <1>4, <3>1
  <2>2. f = [i \in 0..rows |-> f[i]]
    OBVIOUS
  <2> HIDE DEF f
  <2>3. Unfolds(f)
    BY <2>1, <2>2
  <2> QED BY <2>3 DEF f
<1>6. Unfolds(after)
  BY <1>5
<1>7. Body(head, cols, rows) = after
  BY DEF Body
<1> HIDE DEF after
<1>8. \A i \in 0..rows : after[i] = IF i = 0 THEN AddChild(head, "TableBody")
                                    ELSE TableRow(after[i - 1], cols)
  BY <1>6
<1>9. /\ 0 \in 0..rows /\ \A i \in 1..rows : i \in 0..rows /\ i # 0
  OBVIOUS
<1> QED BY <1>7, <1>8, <1>9

\* A row more in a table.
LEMMA RowMore ==
  ASSUME NEW t0, NEW t, NEW h, Sound(t0), h \in t0.used, InTable(t0, t, h),
         Follows(t.type[t.tip], "TableRow"), NEW cols \in Nat \ {0},
         Cardinality(t.used) + cols + 1 <= Cardinality(Node)
  PROVE  LET s == TableRow(t, cols) IN
         /\ InTable(t0, s, h) /\ s.type[s.tip] = "TableCell"
         /\ Cardinality(s.used) = Cardinality(t.used) + cols + 1
<1>0. Cardinality(Node) \in Nat /\ Cardinality(t.used) \in Nat
  <2>1. t.used \subseteq Node
    BY DEF InTable, Sound, Trees
  <2> QED BY <2>1, NodeAssumption, FS_Subset, FS_CardinalityType
<1>1. PICK g : /\ TableRow(t, cols) = g[cols] /\ g[0] = AddChild(t, "TableRow")
               /\ \A i \in 1..cols : g[i] = AddChild(g[i - 1], "TableCell")
  BY RowSteps
<1> DEFINE K == {i \in 0..cols : /\ InTable(t0, g[i], h)
                                 /\ g[i].type[g[i].tip] = IF i = 0 THEN "TableRow" ELSE "TableCell"
                                 /\ Cardinality(g[i].used) = Cardinality(t.used) + i + 1}
<1>2. 0 \in K
  <2>1. Cardinality(t.used) < Cardinality(Node)
    BY <1>0
  <2> DEFINE s == AddChild(t, "TableRow")
  <2>2. InTable(t0, s, h) /\ s.type[s.tip] = "TableRow" /\ Cardinality(s.used) = Cardinality(t.used) + 1
    BY <2>1, TableMore
  <2> HIDE DEF s
  <2>3. g[0] = s /\ Cardinality(t.used) + 0 + 1 = Cardinality(t.used) + 1
    BY <1>0, <1>1 DEF s
  <2> QED BY <2>2, <2>3
<1>3. ASSUME NEW k \in 0..cols - 1, k \in K  PROVE k + 1 \in K
  <2> DEFINE r == g[k]
             s == AddChild(r, "TableCell")
  <2>1. InTable(t0, r, h) /\ Follows(r.type[r.tip], "TableCell") /\ Cardinality(r.used) = Cardinality(t.used) + k + 1
    BY <1>3 DEF Follows
  <2> HIDE DEF r
  <2>2. Cardinality(r.used) < Cardinality(Node)
    BY <1>0, <2>1
  <2>3. InTable(t0, s, h) /\ s.type[s.tip] = "TableCell" /\ Cardinality(s.used) = Cardinality(r.used) + 1
    BY <2>1, <2>2, TableMore
  <2> HIDE DEF s
  <2>4. g[k + 1] = s
    <3>1. k + 1 \in 1..cols /\ (k + 1) - 1 = k
      OBVIOUS
    <3> QED BY <1>1, <3>1 DEF s, r
  <2>5. k + 1 \in 0..cols /\ k + 1 # 0 /\ Cardinality(s.used) = Cardinality(t.used) + (k + 1) + 1
    BY <1>0, <2>1, <2>3
  <2> QED BY <2>3, <2>4, <2>5
<1> HIDE DEF K
<1>4. cols \in K
  <2>1. PICK x \in Int : x = 0
    OBVIOUS
  <2>2. cols \in Int /\ x <= cols /\ x \in K /\ \A k \in x..cols - 1 : k \in K => k + 1 \in K
    BY <1>2, <1>3, <2>1
  <2>3. x..cols \subseteq K
    BY ONLY <2>1, <2>2, AllOf
  <2> QED BY <2>1, <2>3
<1> QED BY <1>1, <1>4 DEF K

\* Rows of equal length, one more and up to a number of them.
LEMMA Rows ==
  ASSUME NEW k \in Nat, NEW rows \in Nat, NEW m \in Nat, k + 1 <= rows
  PROVE  /\ (k + 1) * m = k * m + m /\ k * m \in Nat /\ rows * m \in Nat
         /\ (k + 1) * m <= rows * m
<1>1. (k + 1) * m = k * m + m /\ k * m \in Nat /\ rows * m \in Nat
  OBVIOUS
<1>2. (k + 1) * m <= rows * m
  <2>1. PICK d \in Nat : rows = (k + 1) + d
    <3>1. rows - (k + 1) \in Nat /\ rows = (k + 1) + (rows - (k + 1))
      OBVIOUS
    <3> QED BY <3>1
  <2>2. rows * m = (k + 1) * m + d * m /\ d * m \in Nat /\ (k + 1) * m \in Nat
    BY <2>1
  <2> QED BY <2>2
<1> QED BY <1>1, <1>2

\* A table hangs from the block it was added to.
LEMMA TableHangs ==
  ASSUME NEW t0, NEW t, NEW h \in t0.used, InTable(t0, t, h)
  PROVE  Ready(t, h, TableTypes)
<1>1. /\ New(t0, t) \in SUBSET t.used /\ h \notin New(t0, t) /\ h \in t.used
      /\ t.tip \in New(t0, t) \cup {h}
  BY DEF InTable, Grown, New
<1>2. \A m \in New(t0, t) : t.type[m] \in TableTypes /\ t.arena[m].parent \in New(t0, t) \cup {h}
  BY DEF InTable
<1>3. Hangs(t, t.tip, h, TableTypes)
  BY <1>1, <1>2 DEF Hangs
<1> QED BY <1>1, <1>3 DEF Ready, InTable

\* table() adds a table.
LEMMA TableAdded ==
  ASSUME NEW t, NEW h, NEW T, Ready(t, h, T), CanContain(t.type[h], "Table"),
         \A x \in T : ~CanContain(x, "Table"),
         NEW cols \in Nat \ {0}, NEW rows \in Nat,
         Cardinality(t.used) + (4 + cols + rows * (cols + 1)) <= Cardinality(Node)
  PROVE  LET head == TableRow(AddChild(AddChild(t, "Table"), "TableHead"), cols)
         IN  InTable(t, Body(head, cols, rows)[rows], h)
<1> DEFINE N == Cardinality(Node)
           C == Cardinality(t.used)
           m == cols + 1
           t1 == AddChild(t, "Table")
           t2 == AddChild(t1, "TableHead")
           head == TableRow(t2, cols)
           t3 == AddChild(head, "TableBody")
           after == Body(head, cols, rows)
<1>0. Sound(t) /\ h \in t.used /\ N \in Nat /\ C \in Nat /\ t.used # Node /\ m \in Nat
  <2>1. Sound(t) /\ h \in t.used /\ t.used \subseteq Node
    BY DEF Ready, Sound, Trees
  <2>2. N \in Nat /\ C \in Nat
    BY <2>1, NodeAssumption, FS_Subset, FS_CardinalityType
  <2>3. rows * (cols + 1) \in Nat
    OBVIOUS
  <2>4. C # N
    BY <2>2, <2>3
  <2> QED BY <2>1, <2>2, <2>4
<1>1. C + (4 + cols + rows * m) <= N /\ rows * m \in Nat
  OBVIOUS
<1> HIDE DEF N, C, m
<1>2. InTable(t, t1, h) /\ t1.type[t1.tip] = "Table" /\ Cardinality(t1.used) = C + 1
  <2>1. "Table" \in NodeTypes /\ "Table" \in TableTypes
    BY DEF NodeTypes, TableTypes
  <2>2. Adds(t, t1, h, "Table")
    BY <1>0, <2>1, AddedChild
  <2> HIDE DEF t1
  <2>3. Changes(t, t1, h, "Table", t1.tip)
    BY <1>0, <2>1, <2>2, AddsParts
  <2>4. Grown(t, t1, h) /\ New(t, t1) = {t1.tip}
    <3>1. Grown(t, t, h) /\ New(t, t) = {} /\ h \in New(t, t) \cup {h}
      BY GrownNot
    <3>2. Grown(t, t1, h) /\ New(t, t1) = New(t, t) \cup {t1.tip}
      BY <1>0, <2>1, <2>2, <3>1, GrownMore
    <3> QED BY <3>1, <3>2
  <2> QED BY <2>1, <2>3, <2>4 DEF Changes, InTable, C
<1> HIDE DEF t1
<1>3. InTable(t, t2, h) /\ t2.type[t2.tip] = "TableHead" /\ Cardinality(t2.used) = C + 2
  <2>1. Follows(t1.type[t1.tip], "TableHead") /\ Cardinality(t1.used) < Cardinality(Node)
    BY <1>0, <1>1, <1>2 DEF Follows, N
  <2>2. InTable(t, t2, h) /\ t2.type[t2.tip] = "TableHead" /\ Cardinality(t2.used) = Cardinality(t1.used) + 1
    BY <1>0, <1>2, <2>1, TableMore
  <2> HIDE DEF t2
  <2> QED BY <1>0, <1>2, <2>2
<1> HIDE DEF t2
<1>5. InTable(t, head, h) /\ head.type[head.tip] = "TableCell" /\ Cardinality(head.used) = C + 3 + cols
  <2>1. Follows(t2.type[t2.tip], "TableRow") /\ Cardinality(t2.used) + cols + 1 <= Cardinality(Node)
    BY <1>0, <1>1, <1>3 DEF Follows, N
  <2>2. /\ InTable(t, head, h) /\ head.type[head.tip] = "TableCell"
        /\ Cardinality(head.used) = Cardinality(t2.used) + cols + 1
    BY <1>0, <1>3, <2>1, RowMore
  <2> HIDE DEF head
  <2> QED BY <1>0, <1>3, <2>2
<1> HIDE DEF head
<1>6. InTable(t, t3, h) /\ t3.type[t3.tip] = "TableBody" /\ Cardinality(t3.used) = C + 4 + cols
  <2>1. Follows(head.type[head.tip], "TableBody") /\ Cardinality(head.used) < Cardinality(Node)
    BY <1>0, <1>1, <1>5 DEF Follows, N
  <2>2. InTable(t, t3, h) /\ t3.type[t3.tip] = "TableBody" /\ Cardinality(t3.used) = Cardinality(head.used) + 1
    BY <1>0, <1>5, <2>1, TableMore
  <2> HIDE DEF t3
  <2> QED BY <1>0, <1>5, <2>2
<1>7. after[0] = t3 /\ \A i \in 1..rows : after[i] = TableRow(after[i - 1], cols)
  BY TableSteps
<1> HIDE DEF t3, after
<1> DEFINE K == {i \in 0..rows : /\ InTable(t, after[i], h)
                                 /\ after[i].type[after[i].tip] \in {"TableBody", "TableCell"}
                                 /\ Cardinality(after[i].used) = C + 4 + cols + i * m}
<1>8. 0 \in K
  <2>1. 0 * m = 0 /\ C + 4 + cols + 0 = C + 4 + cols
    BY <1>0
  <2> QED BY <1>6, <1>7, <2>1
<1>9. ASSUME NEW k \in 0..rows - 1, k \in K  PROVE k + 1 \in K
  <2> DEFINE r == after[k]
             s == TableRow(r, cols)
  <2>1. /\ InTable(t, r, h) /\ Follows(r.type[r.tip], "TableRow") /\ Cardinality(r.used) = C + 4 + cols + k * m
    BY <1>9 DEF Follows
  <2> HIDE DEF r
  <2>2. (k + 1) * m = k * m + m /\ (k + 1) * m <= rows * m /\ k * m \in Nat
    BY <1>0, Rows
  <2>3. Cardinality(r.used) + m <= Cardinality(Node)
    <3> DEFINE x == k * m
               y == rows * m
               z == (k + 1) * m
    <3>1. z = x + m /\ z <= y /\ x \in Nat /\ y \in Nat /\ C + (4 + cols + y) <= N
          /\ Cardinality(r.used) = C + 4 + cols + x
      BY <1>1, <2>1, <2>2
    <3> HIDE DEF x, y, z
    <3> QED BY <1>0, <3>1 DEF N
  <2>4. Cardinality(r.used) + cols + 1 = Cardinality(r.used) + m
    <3>1. m = cols + 1 /\ Cardinality(r.used) \in Nat
      BY <1>0, <2>1, <2>2 DEF m
    <3> QED BY <3>1
  <2>5. /\ InTable(t, s, h) /\ s.type[s.tip] = "TableCell"
        /\ Cardinality(s.used) = Cardinality(r.used) + cols + 1
    BY <1>0, <2>1, <2>3, <2>4, RowMore
  <2> HIDE DEF s
  <2>6. after[k + 1] = s
    <3>1. k + 1 \in 1..rows /\ (k + 1) - 1 = k
      OBVIOUS
    <3> QED BY <1>7, <3>1 DEF s, r
  <2>7. k + 1 \in 0..rows /\ Cardinality(s.used) = C + 4 + cols + (k + 1) * m
    <3> DEFINE x == k * m
               z == (k + 1) * m
    <3>1. z = x + m /\ x \in Nat /\ Cardinality(s.used) = C + 4 + cols + x + m
      BY <2>1, <2>2, <2>4, <2>5
    <3> HIDE DEF x, z
    <3>2. Cardinality(s.used) = C + 4 + cols + z
      BY <1>0, <3>1
    <3> QED BY <3>2 DEF z
  <2> QED BY <2>5, <2>6, <2>7
<1> HIDE DEF K
<1>10. rows \in K
  <2>1. PICK x \in Int : x = 0
    OBVIOUS
  <2>2. rows \in Int /\ x <= rows /\ x \in K /\ \A k \in x..rows - 1 : k \in K => k + 1 \in K
    BY <1>8, <1>9, <2>1
  <2>3. x..rows \subseteq K
    BY ONLY <2>1, <2>2, AllOf
  <2> QED BY <2>1, <2>3
<1> QED BY <1>10 DEF K, after, head, t2, t1

-----------------------------------------------------------------------------
(***************************************************************************)
(* The invariant.  The frames of the handlers name a path of the tree: the *)
(* node of each is a child of the node the frame below adds to.  What the  *)
(* tip has climbed away from are closed leaf blocks, tables and, in a      *)
(* list, items.                                                            *)
(***************************************************************************)
Flags == {"DEFINITION", "TERM", "BEGIN", "BLOCK", "END"}
BlockFrame == [fn : {"block"}]
QuoteFrame == [fn : {"quote"}, node : Node]
ListFrame == [fn : {"list"}, node : Node, flags : SUBSET Flags, more : BOOLEAN, begun : BOOLEAN]
ItemFrame == [fn : {"list_item"}, node : Node, again : BOOLEAN]
Frame == BlockFrame \cup QuoteFrame \cup ListFrame \cup ItemFrame

\* The node the topmost of the frames fs adds to.
HomeOf(fs) == IF fs[1].fn # "block" THEN fs[1].node
              ELSE IF Tail(fs) = <<>> THEN Doc ELSE Tail(fs)[1].node

\* The block a handler adds before it calls block().
Makes(fn) == CASE fn = "quote" -> "BlockQuote" [] fn = "list" -> "List" [] OTHER -> "Item"

\* What the frame of list() knows of the items: the flags it has passed on to them,
\* and whether there are any.
ListKnows(t, lf, ti, f) ==
  /\ \A m \in t.used : t.arena[m].parent = f.node /\ "END" \in lf[m] => "END" \in f.flags
  /\ (\E m \in t.used : t.arena[m].parent = f.node /\ "BLOCK" \in lf[m]) <=> "BLOCK" \in f.flags
  /\ f.node \notin ti => "BLOCK" \in f.flags
  /\ f.begun <=> t.arena[f.node].last # None

\* Frame f lies on the frames fs.
On(t, lf, ti, f, fs) ==
  /\ f.fn = "block" /\ fs # <<>> => fs[1].fn \in {"quote", "list_item"}
  /\ f.fn # "block" =>
       /\ fs # <<>>
       /\ IF f.fn = "list_item" THEN fs[1].fn = "list" /\ fs[1].begun ELSE fs[1].fn = "block"
       /\ f.node \in t.used /\ f.node \notin Nodes(fs)
       /\ t.arena[f.node].parent = HomeOf(fs) /\ t.type[f.node] = Makes(f.fn)
  /\ f.fn = "list" => ListKnows(t, lf, ti, f)

Lower(fs, i) == SubSeq(fs, i + 1, Len(fs))

Stacked(t, lf, ti, fs) ==
  /\ fs \in Seq(Frame)
  /\ \A i \in 1..Len(fs) : On(t, lf, ti, fs[i], Lower(fs, i))

\* Between two items, list() has taken up what the last one found.
TakenUp(t, ti, f) ==
  f.fn = "list" =>
    /\ f.node \in ti <=> "BLOCK" \notin f.flags
    /\ f.more <=> "END" \notin f.flags
    /\ f.more => ("BEGIN" \in f.flags <=> t.arena[f.node].last = None)

Closing == LeafTypes \cup TableTypes
Above(f) == IF f.fn = "list" THEN Closing \cup {"Item"} ELSE Closing

\* Running handlers find the insertion point where they left it.
InPlace(t, ti, fs) ==
  fs # <<>> => Ready(t, HomeOf(fs), Above(fs[1])) /\ TakenUp(t, ti, fs[1])

\* ListsAgree, for the tree t and the running handlers fs.
ItemsAgree(t, lf) ==
  \A n \in t.used : t.type[n] = "Item" /\ t.arena[n].parent # None =>
    /\ "BEGIN" \in lf[n] <=> t.arena[n].prev = None
    /\ "END" \in lf[n] => t.arena[n].next = None
Finished(t, lf, ti, fs) ==
  \A n \in t.used : t.type[n] = "List" /\ n \notin Nodes(fs) =>
    (n \in ti <=> \A m \in t.used : t.arena[m].parent = n => "BLOCK" \notin lf[m])

Depth(fs) == Cardinality({k \in DOMAIN fs : fs[k].fn = "block"})

Holds(t, lf, ti, fs) ==
  /\ Sound(t) /\ lf \in [Node -> SUBSET Flags] /\ ti \in SUBSET Node
  /\ Stacked(t, lf, ti, fs) /\ InPlace(t, ti, fs)
  /\ ItemsAgree(t, lf) /\ Finished(t, lf, ti, fs)

BlockInv ==
  /\ Holds(Here, listFlags, tight, calls)
  /\ nesting \in Nat /\ nesting <= MaxNesting /\ nesting = Depth(calls)

\* A frame on top of others.
LEMMA Pushed ==
  ASSUME NEW S, NEW f \in S, NEW fs \in Seq(S)
  PROVE  LET gs == <<f>> \o fs IN
         /\ gs \in Seq(S) /\ Len(gs) = Len(fs) + 1 /\ gs # <<>> /\ gs[1] = f
         /\ Tail(gs) = fs /\ Lower(gs, 1) = fs
         /\ \A i \in 1..Len(fs) : gs[i + 1] = fs[i] /\ Lower(gs, i + 1) = Lower(fs, i)
<1> DEFINE gs == <<f>> \o fs
<1>1. Len(fs) \in Nat /\ fs \in [1..Len(fs) -> S]
  OBVIOUS
<1>2. gs \in Seq(S) /\ Len(gs) = Len(fs) + 1 /\ gs[1] = f /\ gs # <<>>
  OBVIOUS
<1>3. \A i \in 1..Len(fs) : gs[i + 1] = fs[i]
  OBVIOUS
<1> HIDE DEF gs
<1>4. Tail(gs) = fs
  <2>1. Tail(gs) \in Seq(S) /\ Len(Tail(gs)) = Len(gs) - 1 /\ \A i \in 1..Len(gs) - 1 : Tail(gs)[i] = gs[i + 1]
    BY <1>2
  <2>2. Len(Tail(gs)) = Len(fs) /\ \A i \in 1..Len(fs) : Tail(gs)[i] = fs[i]
    BY <1>1, <1>2, <1>3, <2>1
  <2> QED BY <2>1, <2>2, SeqEqual
<1>5. ASSUME NEW m \in 2..Len(gs) + 1
      PROVE  /\ SubSeq(gs, m, Len(gs)) \in Seq(S) /\ Len(SubSeq(gs, m, Len(gs))) = Len(gs) - m + 1
             /\ \A k \in 1..Len(gs) - m + 1 : SubSeq(gs, m, Len(gs))[k] = gs[m + k - 1]
  <2>1. m \in Int /\ Len(gs) \in Int /\ 1 <= m /\ Len(gs) <= Len(gs) /\ m <= Len(gs) + 1
    BY <1>1, <1>2
  <2> QED BY <1>2, <2>1, Slice
<1>6. Lower(gs, 1) = fs
  <2>1. Len(gs) - 2 + 1 = Len(fs) /\ \A k \in 1..Len(fs) : 2 + k - 1 = k + 1
    BY <1>1, <1>2
  <2>2. 2 \in 2..Len(gs) + 1
    BY <1>1, <1>2
  <2>3. /\ SubSeq(gs, 2, Len(gs)) \in Seq(S) /\ Len(SubSeq(gs, 2, Len(gs))) = Len(fs)
        /\ \A k \in 1..Len(fs) : SubSeq(gs, 2, Len(gs))[k] = fs[k]
    BY <1>3, <1>5, <2>1, <2>2
  <2>4. SubSeq(gs, 2, Len(gs)) = fs
    BY <2>3, SeqEqual
  <2> QED BY <2>4 DEF Lower
<1>7. ASSUME NEW i \in 1..Len(fs)  PROVE Lower(gs, i + 1) = Lower(fs, i)
  <2> DEFINE x == SubSeq(gs, i + 2, Len(gs))
             y == SubSeq(fs, i + 1, Len(fs))
  <2>1. i + 2 \in 2..Len(gs) + 1 /\ Len(gs) - (i + 2) + 1 = Len(fs) - i /\ (i + 1) + 1 = i + 2
    BY <1>1, <1>2
  <2>2. x \in Seq(S) /\ Len(x) = Len(fs) - i /\ \A k \in 1..Len(fs) - i : x[k] = gs[i + 2 + k - 1]
    BY <1>5, <2>1
  <2>3. y \in Seq(S) /\ Len(y) = Len(fs) - i /\ \A k \in 1..Len(fs) - i : y[k] = fs[i + 1 + k - 1]
    <3>1. PICK m \in Int : m = i + 1
      OBVIOUS
    <3>2. Len(fs) \in Int /\ 1 <= m /\ m <= Len(fs) + 1 /\ Len(fs) - m + 1 = Len(fs) - i
      BY <1>1, <3>1
    <3>3. /\ SubSeq(fs, m, Len(fs)) \in Seq(S) /\ Len(SubSeq(fs, m, Len(fs))) = Len(fs) - m + 1
          /\ \A k \in 1..Len(fs) - m + 1 : SubSeq(fs, m, Len(fs))[k] = fs[m + k - 1]
      BY <3>2, Slice
    <3>4. y = SubSeq(fs, m, Len(fs))
      BY <3>1
    <3> HIDE DEF y
    <3> QED BY <3>1, <3>2, <3>3, <3>4
  <2> HIDE DEF x, y
  <2>4. \A k \in 1..Len(fs) - i : i + k \in 1..Len(fs) /\ i + 2 + k - 1 = (i + k) + 1 /\ i + 1 + k - 1 = i + k
    BY <1>1
  <2>5. \A k \in 1..Len(fs) - i : x[k] = y[k]
    BY <1>3, <2>2, <2>3, <2>4
  <2>6. x = y
    BY <2>2, <2>3, <2>5, SeqEqual
  <2> QED BY <2>1, <2>6 DEF Lower, x, y
<1> QED BY <1>2, <1>3, <1>4, <1>6, <1>7 DEF gs

\* The frames below the topmost.
LEMMA Popped ==
  ASSUME NEW S, NEW fs \in Seq(S), fs # <<>>
  PROVE  fs[1] \in S /\ Tail(fs) \in Seq(S) /\ fs = <<fs[1]>> \o Tail(fs)
<1>1. Len(fs) \in Nat /\ Len(fs) >= 1 /\ fs[1] \in S
  OBVIOUS
<1>2. Tail(fs) \in Seq(S) /\ Len(Tail(fs)) = Len(fs) - 1 /\ \A i \in 1..Len(fs) - 1 : Tail(fs)[i] = fs[i + 1]
  OBVIOUS
<1> DEFINE gs == <<fs[1]>> \o Tail(fs)
<1>3. gs \in Seq(S) /\ Len(gs) = Len(fs) /\ \A i \in 1..Len(fs) : gs[i] = fs[i]
  <2>1. gs \in Seq(S) /\ Len(gs) = Len(Tail(fs)) + 1 /\ gs[1] = fs[1] 
        /\ \A i \in 1..Len(Tail(fs)) : gs[i + 1] = Tail(fs)[i]
    BY <1>1, <1>2
  <2> HIDE DEF gs
  <2>2. ASSUME NEW i \in 1..Len(fs)  PROVE gs[i] = fs[i]
    <3>1. CASE i = 1
      BY <2>1, <3>1
    <3>2. CASE i # 1
      <4>1. i - 1 \in 1..Len(fs) - 1 /\ (i - 1) + 1 = i
        BY <1>1, <3>2
      <4> QED BY <1>2, <2>1, <4>1
    <3> QED BY <3>1, <3>2
  <2> QED BY <1>1, <1>2, <2>1, <2>2
<1> HIDE DEF gs
<1> QED BY <1>1, <1>2, <1>3, SeqEqual DEF gs

\* The nodes of the frames with one more.
LEMMA NodesPushed ==
  ASSUME NEW f \in Frame, NEW fs \in Seq(Frame)
  PROVE  Nodes(<<f>> \o fs) = IF f.fn = "block" THEN Nodes(fs) ELSE Nodes(fs) \cup {f.node}
<1> DEFINE gs == <<f>> \o fs
<1>1. /\ gs \in Seq(Frame) /\ Len(gs) = Len(fs) + 1 /\ gs[1] = f
      /\ \A i \in 1..Len(fs) : gs[i + 1] = fs[i]
  BY Pushed
<1> HIDE DEF gs
<1>2. Len(fs) \in Nat /\ DOMAIN fs = 1..Len(fs) /\ DOMAIN gs = 1..Len(fs) + 1
  BY <1>1
<1>3. /\ \A i \in 1..Len(fs) : i + 1 \in 1..Len(fs) + 1
      /\ \A i \in 1..Len(fs) + 1 : i = 1 \/ (i - 1 \in 1..Len(fs) /\ (i - 1) + 1 = i)
      /\ 1 \in 1..Len(fs) + 1
  BY <1>2
<1>4. ASSUME NEW i \in DOMAIN gs, gs[i].fn # "block"
      PROVE  gs[i].node \in IF f.fn = "block" THEN Nodes(fs) ELSE Nodes(fs) \cup {f.node}
  <2>1. CASE i = 1
    BY <1>1, <1>4, <2>1
  <2>2. CASE i - 1 \in 1..Len(fs) /\ (i - 1) + 1 = i
    <3>1. gs[i] = fs[i - 1]
      BY <1>1, <2>2
    <3>2. gs[i].node \in Nodes(fs)
      BY <1>2, <1>4, <2>2, <3>1 DEF Nodes
    <3> QED BY <3>2
  <2> QED BY <1>2, <1>3, <2>1, <2>2
<1>5. ASSUME NEW i \in DOMAIN fs, fs[i].fn # "block"  PROVE fs[i].node \in Nodes(gs)
  <2>1. gs[i + 1] = fs[i] /\ i + 1 \in DOMAIN gs
    BY <1>1, <1>2, <1>3
  <2> QED BY <1>5, <2>1 DEF Nodes
<1>6. f.fn # "block" => f.node \in Nodes(gs)
  BY <1>1, <1>2, <1>3 DEF Nodes
<1> QED BY <1>4, <1>5, <1>6 DEF Nodes, gs

\* The calls of block() among the frames with one more.
LEMMA DepthPushed ==
  ASSUME NEW f \in Frame, NEW fs \in Seq(Frame)
  PROVE  /\ Depth(<<f>> \o fs) = IF f.fn = "block" THEN Depth(fs) + 1 ELSE Depth(fs)
         /\ Depth(fs) \in Nat
<1> DEFINE gs == <<f>> \o fs
           B == {k \in DOMAIN fs : fs[k].fn = "block"}
           C == {k \in DOMAIN gs : gs[k].fn = "block"}
           D == {k + 1 : k \in B}
<1>1. /\ gs \in Seq(Frame) /\ Len(gs) = Len(fs) + 1 /\ gs[1] = f
      /\ \A i \in 1..Len(fs) : gs[i + 1] = fs[i]
  BY Pushed
<1> HIDE DEF gs
<1>2. Len(fs) \in Nat /\ DOMAIN fs = 1..Len(fs) /\ DOMAIN gs = 1..Len(fs) + 1
  BY <1>1
<1>3. /\ \A i \in 1..Len(fs) : i + 1 \in 1..Len(fs) + 1
      /\ \A i \in 1..Len(fs) + 1 : i = 1 \/ (i - 1 \in 1..Len(fs) /\ (i - 1) + 1 = i)
      /\ 1 \in 1..Len(fs) + 1
  BY <1>2
<1>4. C = IF f.fn = "block" THEN D \cup {1} ELSE D
  <2>1. ASSUME NEW k \in C  PROVE k \in D \/ (k = 1 /\ f.fn = "block")
    <3>1. CASE k = 1
      BY <1>1, <3>1
    <3>2. CASE k - 1 \in 1..Len(fs) /\ (k - 1) + 1 = k
      <4>1. gs[k] = fs[k - 1]
        BY <1>1, <3>2
      <4>2. k - 1 \in B
        BY <1>2, <3>2, <4>1
      <4> QED BY <3>2, <4>2
    <3> QED BY <1>2, <1>3, <3>1, <3>2
  <2>2. ASSUME NEW k \in B  PROVE k + 1 \in C
    BY <1>1, <1>2, <1>3
  <2>3. f.fn = "block" => 1 \in C
    BY <1>1, <1>2, <1>3
  <2> QED BY <2>1, <2>2, <2>3
<1>5. B \subseteq 1..Len(fs) /\ IsFiniteSet(B) /\ Cardinality(B) \in Nat
  <2>1. B \subseteq 1..Len(fs)
    BY <1>2
  <2>2. IsFiniteSet(1..Len(fs))
    BY <1>2, FS_Interval
  <2> QED BY <2>1, <2>2, FS_Subset, FS_CardinalityType
<1>6. IsFiniteSet(D) /\ Cardinality(D) = Cardinality(B) /\ 1 \notin D
  <2> DEFINE s == [k \in B |-> k + 1]
  <2>1. s \in Bijection(B, D)
    BY <1>2, <1>5 DEF Bijection, Injection, Surjection, IsInjective
  <2>2. ExistsBijection(B, D)
    BY <2>1 DEF ExistsBijection
  <2>3. 1 \notin D
    BY <1>2, <1>5
  <2> QED BY <1>5, <2>2, <2>3, FS_Bijection
<1> HIDE DEF D
<1>7. Cardinality(D \cup {1}) = Cardinality(D) + 1
  BY <1>6, FS_AddElement
<1> QED BY <1>4, <1>5, <1>6, <1>7 DEF Depth, gs

\* A handler called.
LEMMA StackPushed ==
  ASSUME NEW t, NEW lf, NEW ti, NEW fs, Stacked(t, lf, ti, fs), NEW f \in Frame, On(t, lf, ti, f, fs)
  PROVE  Stacked(t, lf, ti, <<f>> \o fs)
<1> DEFINE gs == <<f>> \o fs
<1>1. fs \in Seq(Frame) /\ \A i \in 1..Len(fs) : On(t, lf, ti, fs[i], Lower(fs, i))
  BY DEF Stacked
<1>2. /\ gs \in Seq(Frame) /\ Len(gs) = Len(fs) + 1 /\ gs[1] = f /\ Lower(gs, 1) = fs
      /\ \A i \in 1..Len(fs) : gs[i + 1] = fs[i] /\ Lower(gs, i + 1) = Lower(fs, i)
  BY <1>1, Pushed
<1> HIDE DEF gs
<1>3. ASSUME NEW i \in 1..Len(gs)  PROVE On(t, lf, ti, gs[i], Lower(gs, i))
  <2>1. CASE i = 1
    BY <1>2, <2>1
  <2>2. CASE i # 1
    <3>1. i - 1 \in 1..Len(fs) /\ (i - 1) + 1 = i
      BY <1>1, <1>2, <2>2
    <3>2. PICK j \in 1..Len(fs) : j + 1 = i
      BY <3>1
    <3>3. gs[j + 1] = fs[j] /\ Lower(gs, j + 1) = Lower(fs, j) /\ On(t, lf, ti, fs[j], Lower(fs, j))
      BY <1>1, <1>2
    <3> QED BY <3>2, <3>3
  <2> QED BY <2>1, <2>2
<1> QED BY <1>2, <1>3 DEF Stacked, gs

\* A handler returned.
LEMMA StackPopped ==
  ASSUME NEW t, NEW lf, NEW ti, NEW fs, Stacked(t, lf, ti, fs), fs # <<>>
  PROVE  /\ fs[1] \in Frame /\ Tail(fs) \in Seq(Frame) /\ fs = <<fs[1]>> \o Tail(fs)
         /\ On(t, lf, ti, fs[1], Tail(fs)) /\ Stacked(t, lf, ti, Tail(fs))
<1> DEFINE gs == Tail(fs)
           f == fs[1]
<1>1. fs \in Seq(Frame) /\ \A i \in 1..Len(fs) : On(t, lf, ti, fs[i], Lower(fs, i))
  BY DEF Stacked
<1>2. f \in Frame /\ gs \in Seq(Frame) /\ fs = <<f>> \o gs
  BY <1>1, Popped
<1> HIDE DEF gs, f
<1>3. /\ Len(fs) = Len(gs) + 1 /\ fs[1] = f /\ Lower(fs, 1) = gs
      /\ \A i \in 1..Len(gs) : fs[i + 1] = gs[i] /\ Lower(fs, i + 1) = Lower(gs, i)
  BY <1>2, Pushed
<1>4. Len(gs) \in Nat /\ 1 \in 1..Len(fs) /\ \A i \in 1..Len(gs) : i + 1 \in 1..Len(fs)
  BY <1>2, <1>3
<1>5. On(t, lf, ti, f, gs)
  BY <1>1, <1>3, <1>4
<1>6. \A i \in 1..Len(gs) : On(t, lf, ti, gs[i], Lower(gs, i))
  BY <1>1, <1>3, <1>4
<1> QED BY <1>2, <1>5, <1>6 DEF Stacked, gs, f

\* What distinguishes the frames.
LEMMA Frames ==
  ASSUME NEW f \in Frame
  PROVE  /\ f.fn \in {"block", "quote", "list", "list_item"}
         /\ f.fn # "block" => f.node \in Node
         /\ f.fn = "quote" => f \in QuoteFrame
         /\ f.fn = "list" => f \in ListFrame
         /\ f.fn = "list_item" => f \in ItemFrame
BY DEF Frame, BlockFrame, QuoteFrame, ListFrame, ItemFrame

\* A frame stays on the others when blocks are added to any node but its list.
LEMMA OnKept ==
  ASSUME NEW t0, NEW t, NEW h, Sound(t0), Sound(t), Grown(t0, t, h), NEW f \in Frame, NEW fs,
         NEW lf0, NEW lf, NEW ti0, NEW ti, On(t0, lf0, ti0, f, fs),
         f.fn = "list" => f.node # h, \A m \in t0.used : lf[m] = lf0[m],
         f.fn = "list" => (f.node \in ti <=> f.node \in ti0)
  PROVE  On(t, lf, ti, f, fs)
<1>1. /\ t0.used \subseteq t.used /\ t.used = t0.used \cup New(t0, t)
      /\ \A m \in t0.used : /\ t.type[m] = t0.type[m]
                            /\ t.arena[m].parent = t0.arena[m].parent
                            /\ m # h => t.arena[m].last = t0.arena[m].last
      /\ \A m \in New(t0, t) : t.arena[m].parent \in New(t0, t) \cup {h, None} /\ m \notin t0.used
  BY DEF Grown, New
<1>2. f.fn # "block" => f.node \in t0.used
  BY DEF On
<1>3. CASE f.fn = "list"
  <2>1. f.node \in t0.used /\ f.node # h /\ f.node # None
    BY <1>2, <1>3, NoneAssumption DEF Sound, Trees
  <2>2. \A m \in t.used : t.arena[m].parent = f.node <=> m \in t0.used /\ t0.arena[m].parent = f.node
    BY <1>1, <2>1
  <2>3. ListKnows(t0, lf0, ti0, f)
    BY <1>3 DEF On
  <2>4. \A m \in t0.used : t0.arena[m].parent = f.node /\ "END" \in lf[m] => "END" \in f.flags
    BY <2>3 DEF ListKnows
  <2>5. (\E m \in t0.used : t0.arena[m].parent = f.node /\ "BLOCK" \in lf[m]) <=> "BLOCK" \in f.flags
    BY <2>3 DEF ListKnows
  <2>6. (f.node \notin ti => "BLOCK" \in f.flags) /\ (f.begun <=> t.arena[f.node].last # None)
    BY <1>1, <1>3, <2>1, <2>3 DEF ListKnows
  <2>7. ListKnows(t, lf, ti, f)
    BY <1>1, <2>2, <2>4, <2>5, <2>6 DEF ListKnows
  <2> QED BY <1>1, <1>2, <1>3, <2>7 DEF On
<1>4. CASE f.fn # "list"
  BY <1>1, <1>2, <1>4 DEF On
<1> QED BY <1>3, <1>4

\* So do all the frames of the stack.
LEMMA StackKept ==
  ASSUME NEW t0, NEW t, NEW h, Sound(t0), Sound(t), Grown(t0, t, h), NEW fs,
         NEW lf0, NEW lf, NEW ti0, NEW ti, Stacked(t0, lf0, ti0, fs),
         h \in Nodes(fs) => t0.type[h] # "List", \A m \in t0.used : lf[m] = lf0[m],
         \A n \in Nodes(fs) : n \in ti <=> n \in ti0
  PROVE  Stacked(t, lf, ti, fs)
<1>1. fs \in Seq(Frame) /\ \A i \in 1..Len(fs) : On(t0, lf0, ti0, fs[i], Lower(fs, i))
  BY DEF Stacked
<1>2. ASSUME NEW i \in 1..Len(fs)  PROVE On(t, lf, ti, fs[i], Lower(fs, i))
  <2> DEFINE f == fs[i]
             gs == Lower(fs, i)
  <2>1. f \in Frame /\ On(t0, lf0, ti0, f, gs)
    BY <1>1
  <2>2. f.fn = "list" => f.node \in Nodes(fs)
    BY <1>1 DEF Nodes
  <2>3. f.fn = "list" => t0.type[f.node] = "List"
    BY <2>1 DEF On, Makes
  <2> HIDE DEF f, gs
  <2>4. On(t, lf, ti, f, gs)
    BY <2>1, <2>2, <2>3, OnKept
  <2> QED BY <2>4 DEF f, gs
<1> QED BY <1>1, <1>2 DEF Stacked

\* The lists agree as before when blocks other than items are added to a node that is
\* not a list.
LEMMA ListsKept ==
  ASSUME NEW t0, NEW t, NEW h, Sound(t0), Sound(t), Grown(t0, t, h), t0.type[h] # "List" \/ h = None,
         NEW fs0, NEW fs, NEW lf0, NEW lf, NEW ti0, NEW ti,
         \A m \in New(t0, t) : t.type[m] # "Item" /\ (t.type[m] = "List" => m \in ti),
         \A m \in t0.used : lf[m] = lf0[m] /\ (m \in ti <=> m \in ti0),
         \A m \in t0.used : t0.type[m] = "List" /\ m \in Nodes(fs0) => m \in Nodes(fs),
         ItemsAgree(t0, lf0), Finished(t0, lf0, ti0, fs0)
  PROVE  ItemsAgree(t, lf) /\ Finished(t, lf, ti, fs)
<1>1. /\ t0.used \subseteq t.used /\ t.used = t0.used \cup New(t0, t) /\ t.used \subseteq Node
      /\ \A m \in t0.used : /\ t.type[m] = t0.type[m]
                            /\ t.arena[m].parent = t0.arena[m].parent
                            /\ t.arena[m].prev = t0.arena[m].prev
                            /\ t0.arena[m].parent # h => t.arena[m].next = t0.arena[m].next
      /\ \A m \in New(t0, t) : t.arena[m].parent \in New(t0, t) \cup {h, None} /\ m \notin t0.used
  BY DEF Grown, New, Sound, Trees
<1>2. \A m \in t.used : t.arena[m].parent # None => CanContain(t.type[t.arena[m].parent], t.type[m])
  BY <1>1 DEF Sound
<1>3. \A m \in t0.used : t0.arena[m].parent # None => t0.arena[m].parent \in t0.used
  BY <1>1 DEF Sound
<1>4. ASSUME NEW n \in t.used, t.type[n] = "Item", t.arena[n].parent # None
      PROVE  /\ "BEGIN" \in lf[n] <=> t.arena[n].prev = None
             /\ "END" \in lf[n] => t.arena[n].next = None
  <2>1. n \in t0.used /\ t0.type[n] = "Item" /\ t0.arena[n].parent # None
    BY <1>1, <1>4
  <2>2. t.type[t.arena[n].parent] = "List"
    BY <1>2, <1>4 DEF CanContain
  <2>3. t0.arena[n].parent # h
    BY <1>1, <1>3, <2>1, <2>2
  <2>4. ("BEGIN" \in lf0[n] <=> t0.arena[n].prev = None) /\ ("END" \in lf0[n] => t0.arena[n].next = None)
    BY <2>1 DEF ItemsAgree
  <2> QED BY <1>1, <2>1, <2>3, <2>4
<1>5. ASSUME NEW n \in t.used, t.type[n] = "List", n \notin Nodes(fs)
      PROVE  n \in ti <=> \A m \in t.used : t.arena[m].parent = n => "BLOCK" \notin lf[m]
  <2>1. n # None
    BY <1>1, NoneAssumption
  <2>2. CASE n \in t0.used
    <3>1. t0.type[n] = "List" /\ n \notin Nodes(fs0) /\ n # h
      BY <1>1, <1>5, <2>1, <2>2
    <3>2. n \in ti0 <=> \A m \in t0.used : t0.arena[m].parent = n => "BLOCK" \notin lf0[m]
      BY <2>2, <3>1 DEF Finished
    <3>3. \A m \in t.used : t.arena[m].parent = n => m \in t0.used
      BY <1>1, <2>1, <2>2, <3>1
    <3> QED BY <1>1, <2>2, <3>2, <3>3
  <2>3. CASE n \in New(t0, t)
    <3>1. \A m \in t.used : t.arena[m].parent # n
      <4> SUFFICES ASSUME NEW m \in t.used, t.arena[m].parent = n  PROVE FALSE
        OBVIOUS
      <4>1. m \in New(t0, t)
        BY <1>1, <1>3, <2>1, <2>3
      <4>2. t.type[m] = "Item"
        BY <1>2, <1>5, <2>1 DEF CanContain
      <4> QED BY <4>1, <4>2
    <3> QED BY <1>5, <2>3, <3>1
  <2> QED BY <1>1, <2>2, <2>3
<1> QED BY <1>4, <1>5 DEF ItemsAgree, Finished

\* The node the topmost frame adds to.
LEMMA HomeHolds ==
  ASSUME NEW t, NEW lf, NEW ti, NEW fs, Sound(t), Stacked(t, lf, ti, fs), fs # <<>>
  PROVE  /\ HomeOf(fs) \in t.used
         /\ fs[1].fn = "block" => t.type[HomeOf(fs)] \in {"Document", "BlockQuote", "Item"}
         /\ fs[1].fn # "block" => HomeOf(fs) = fs[1].node /\ t.type[HomeOf(fs)] = Makes(fs[1].fn)
<1>1. /\ fs[1] \in Frame /\ On(t, lf, ti, fs[1], Tail(fs)) /\ Stacked(t, lf, ti, Tail(fs))
  BY StackPopped
<1>2. CASE fs[1].fn # "block"
  BY <1>1, <1>2 DEF On, HomeOf
<1>3. CASE fs[1].fn = "block" /\ Tail(fs) = <<>>
  BY <1>3 DEF HomeOf, Sound
<1>4. CASE fs[1].fn = "block" /\ Tail(fs) # <<>>
  <2> DEFINE gs == Tail(fs)
  <2>1. gs[1].fn \in {"quote", "list_item"}
    BY <1>1, <1>4 DEF On
  <2>2. On(t, lf, ti, gs[1], Tail(gs))
    BY <1>1, <1>4, StackPopped
  <2>3. HomeOf(fs) = gs[1].node
    BY <1>4 DEF HomeOf
  <2> HIDE DEF gs
  <2> QED BY <1>4, <2>1, <2>2, <2>3 DEF On, Makes
<1> QED BY <1>2, <1>3, <1>4

\* More types may be climbed over.
LEMMA ReadyMore ==
  ASSUME NEW t, NEW h, NEW T, Ready(t, h, T), NEW U, T \subseteq U
  PROVE  Ready(t, h, U)
<1>1. Sound(t) /\ h \in t.used /\ OpenAbove(t, t.tip) /\ Hangs(t, t.tip, h, T)
  BY DEF Ready
<1>2. PICK W \in SUBSET t.used :
         /\ t.tip \in W \cup {h} /\ h \notin W
         /\ \A m \in W : t.type[m] \in T /\ t.arena[m].parent \in W \cup {h}
  BY <1>1 DEF Hangs
<1>3. Hangs(t, t.tip, h, U)
  BY <1>2 DEF Hangs
<1> QED BY <1>1, <1>3 DEF Ready

\* What hangs from a block hangs from its parent, too.
LEMMA ReadyUp ==
  ASSUME NEW t, NEW h, NEW T, Ready(t, h, T), NEW U, T \subseteq U, t.type[h] \in U,
         t.arena[h].parent # None, t.type[t.arena[h].parent] \notin U
  PROVE  Ready(t, t.arena[h].parent, U)
<1> DEFINE p == t.arena[h].parent
<1>1. Sound(t) /\ h \in t.used /\ OpenAbove(t, t.tip) /\ Hangs(t, t.tip, h, T)
  BY DEF Ready
<1>2. PICK W \in SUBSET t.used :
         /\ t.tip \in W \cup {h} /\ h \notin W
         /\ \A m \in W : t.type[m] \in T /\ t.arena[m].parent \in W \cup {h}
  BY <1>1 DEF Hangs
<1>3. p \in t.used
  BY <1>1 DEF Sound, Trees
<1> HIDE DEF p
<1> DEFINE V == W \cup {h}
<1>4. V \in SUBSET t.used /\ t.tip \in V \cup {p} /\ p \notin V
  BY <1>1, <1>2 DEF p
<1>5. \A m \in V : t.type[m] \in U /\ t.arena[m].parent \in V \cup {p}
  BY <1>1, <1>2 DEF p
<1> HIDE DEF V
<1>6. Hangs(t, t.tip, p, U)
  BY <1>4, <1>5 DEF Hangs
<1> QED BY <1>1, <1>3, <1>6 DEF Ready, p

\* A tree is its parts.
LEMMA Whole ==
  ASSUME NEW t \in Trees
  PROVE  t = [used |-> t.used, arena |-> t.arena, type |-> t.type, open |-> t.open, tip |-> t.tip]
BY DEF Trees

\* finalize brings the tip from anywhere in a block to the parent of the block.
LEMMA Finalized ==
  ASSUME NEW t, NEW h, NEW T, Ready(t, h, T), t.arena[h].parent # None
  PROVE  LET s == Finalize(t, h) IN
         /\ Ready(s, t.arena[h].parent, {})
         /\ s.used = t.used /\ s.arena = t.arena /\ s.type = t.type
<1> DEFINE p == t.arena[h].parent
           t1 == [t EXCEPT !.open = t.open \ {h}]
           s == [t1 EXCEPT !.tip = p]
<1>1. Sound(t) /\ h \in t.used /\ OpenAbove(t, t.tip) /\ Hangs(t, t.tip, h, T)
  BY DEF Ready
<1>2. /\ t \in Trees /\ t.used \subseteq Node /\ h \in Node /\ t.open \subseteq Node /\ t.tip \in Node
      /\ Ends(Parents(t.arena)) /\ t.arena \in [Node -> Links] /\ p \in t.used /\ p # None
  BY <1>1 DEF Sound, Trees
<1>3. Finalize(t, h) = s
  BY DEF Finalize
<1> HIDE DEF p
<1>4. t1 \in Trees
  BY <1>2 DEF Trees
<1>5. t1.used = t.used /\ t1.arena = t.arena /\ t1.type = t.type /\ t1.open = t.open \ {h}
  BY <1>2 DEF Trees
<1> HIDE DEF t1
<1>6. s \in Trees
  BY <1>2, <1>4 DEF Trees
<1>7. s.used = t.used /\ s.arena = t.arena /\ s.type = t.type /\ s.open = t.open \ {h} /\ s.tip = p
  BY <1>4, <1>5 DEF Trees
<1> HIDE DEF s
<1>8. Sound(s)
  BY <1>1, <1>2, <1>6, <1>7 DEF Sound
<1>9. OpenAbove(s, p)
  <2>1. PICK S \in SUBSET t.open : t.tip \in S /\ S \subseteq t.used /\ Closed(t.arena, S)
    BY <1>1 DEF OpenAbove
  <2>2. h \in S
    <3>1. S \in SUBSET Node
      BY <1>2, <2>1
    <3> QED BY <1>1, <1>2, <2>1, <3>1, HangsClosed
  <2>3. p \in S
    BY <1>2, <2>1, <2>2 DEF Closed, p
  <2>4. PICK U \in SUBSET Node : p \in U /\ h \notin U /\ Closed(t.arena, U)
    <3>1. t.arena[h].parent # None
      OBVIOUS
    <3> QED BY <1>2, <3>1, AboveItself DEF p
  <2> DEFINE V == S \cap U
  <2>5. V \in SUBSET s.open /\ p \in V /\ V \subseteq s.used /\ Closed(s.arena, V)
    BY <1>7, <2>1, <2>3, <2>4 DEF Closed
  <2> HIDE DEF V
  <2> QED BY <2>5 DEF OpenAbove
<1>10. Hangs(s, p, p, {})
  <2>1. {} \in SUBSET s.used /\ p \in {} \cup {p} /\ p \notin {} /\ \A m \in {} : s.arena[m].parent \in {} \cup {p}
    OBVIOUS
  <2> QED BY <2>1 DEF Hangs
<1>11. Ready(s, p, {})
  BY <1>2, <1>7, <1>8, <1>9, <1>10 DEF Ready
<1> QED BY <1>3, <1>7, <1>11 DEF p

\* Where no node is added, all others keep their place.
LEMMA GrownSame ==
  ASSUME NEW t, NEW s, NEW h, s.used = t.used, s.arena = t.arena, s.type = t.type
  PROVE  Grown(t, s, h) /\ New(t, s) = {}
BY DEF Grown, New

\* A call of block() on the frame of a quote or an item adds to the same node.
LEMMA Called ==
  ASSUME NEW t, NEW lf, NEW ti, NEW gs, Stacked(t, lf, ti, gs), gs # <<>>,
         gs[1].fn \in {"quote", "list_item"}, Ready(t, HomeOf(gs), Closing)
  PROVE  LET bs == <<[fn |-> "block"]>> \o gs IN
         /\ Stacked(t, lf, ti, bs) /\ InPlace(t, ti, bs) /\ InPlace(t, ti, gs)
         /\ Nodes(bs) = Nodes(gs) /\ Depth(bs) = Depth(gs) + 1
<1> DEFINE b == [fn |-> "block"]
           bs == <<b>> \o gs
<1>1. b \in Frame /\ b.fn = "block"
  BY DEF Frame, BlockFrame
<1> HIDE DEF b
<1>2. gs \in Seq(Frame)
  BY DEF Stacked
<1>3. On(t, lf, ti, b, gs)
  BY <1>1 DEF On
<1>4. Stacked(t, lf, ti, bs)
  BY <1>1, <1>3, StackPushed
<1>5. bs # <<>> /\ bs[1] = b /\ Tail(bs) = gs
  BY <1>1, <1>2, Pushed
<1>6. Nodes(bs) = Nodes(gs) /\ Depth(bs) = Depth(gs) + 1
  BY <1>1, <1>2, NodesPushed, DepthPushed
<1> HIDE DEF bs
<1>7. HomeOf(bs) = HomeOf(gs)
  BY <1>1, <1>5 DEF HomeOf
<1>8. InPlace(t, ti, bs) /\ InPlace(t, ti, gs)
  BY <1>1, <1>5, <1>7 DEF InPlace, Above, TakenUp
<1> QED BY <1>4, <1>6, <1>8 DEF bs, b

\* The handlers that are running were called for nodes of the tree.
LEMMA NodesUsed ==
  ASSUME NEW t, NEW lf, NEW ti, NEW fs, Stacked(t, lf, ti, fs)
  PROVE  Nodes(fs) \subseteq t.used
<1>1. fs \in Seq(Frame) /\ \A i \in 1..Len(fs) : On(t, lf, ti, fs[i], Lower(fs, i))
  BY DEF Stacked
<1>2. DOMAIN fs = 1..Len(fs)
  BY <1>1
<1> QED BY <1>1, <1>2 DEF Nodes, On

\* Adding blocks other than items where a call of block() adds leaves the rest as it was.
LEMMA Built ==
  ASSUME NEW t, NEW lf, NEW ti, NEW fs, Holds(t, lf, ti, fs), fs # <<>>, fs[1].fn = "block",
         NEW s, Sound(s), Grown(t, s, HomeOf(fs)), NEW lf1, NEW ti1, NEW gs,
         \A m \in New(t, s) : s.type[m] # "Item" /\ (s.type[m] = "List" => m \in ti1),
         \A m \in t.used : lf1[m] = lf[m] /\ (m \in ti1 <=> m \in ti), Nodes(fs) \subseteq Nodes(gs)
  PROVE  Stacked(s, lf1, ti1, fs) /\ ItemsAgree(s, lf1) /\ Finished(s, lf1, ti1, gs)
<1> DEFINE h == HomeOf(fs)
<1>1. Sound(t) /\ Stacked(t, lf, ti, fs) /\ ItemsAgree(t, lf) /\ Finished(t, lf, ti, fs)
  BY DEF Holds
<1>2. h \in t.used /\ t.type[h] # "List"
  BY <1>1, HomeHolds
<1>3. Nodes(fs) \subseteq t.used
  BY <1>1, NodesUsed
<1> HIDE DEF h
<1>4. Grown(t, s, h)
  BY DEF h
<1>5. Stacked(s, lf1, ti1, fs)
  BY <1>1, <1>2, <1>3, <1>4, StackKept
<1>6. ItemsAgree(s, lf1) /\ Finished(s, lf1, ti1, gs)
  BY <1>1, <1>2, <1>4, ListsKept
<1> QED BY <1>5, <1>6

\* The flags of the nodes of t, and which of them are tight, are the same.
SameFlags(t, lf, lf1, ti, ti1) ==
  \A m \in t.used : lf1[m] = lf[m] /\ (m \in ti1 <=> m \in ti)

\* One block added there.
LEMMA BlockAdded ==
  ASSUME NEW t, NEW lf, NEW ti, NEW fs, Holds(t, lf, ti, fs), fs # <<>>, fs[1].fn = "block",
         t.used # Node, NEW c \in LeafTypes \cup {"Table", "BlockQuote", "List"},
         NEW lf1, NEW ti1, NEW gs, c = "List" => Fresh(t) \in ti1,
         SameFlags(t, lf, lf1, ti, ti1), Nodes(fs) \subseteq Nodes(gs)
  PROVE  LET s == AddChild(t, c)  h == HomeOf(fs) IN
         /\ h \in t.used /\ s.tip = Fresh(t) /\ Adds(t, s, h, c) /\ Changes(t, s, h, c, s.tip)
         /\ Grown(t, s, h) /\ New(t, s) = {s.tip} /\ Ready(s, s.tip, {}) /\ Ready(s, h, {c})
         /\ Stacked(s, lf1, ti1, fs) /\ ItemsAgree(s, lf1) /\ Finished(s, lf1, ti1, gs)
<1> DEFINE s == AddChild(t, c)
           h == HomeOf(fs)
<1>1. Sound(t) /\ Stacked(t, lf, ti, fs) /\ Ready(t, h, Closing)
  BY DEF Holds, InPlace, Above
<1>2. h \in t.used /\ t.type[h] \in {"Document", "BlockQuote", "Item"}
  BY <1>1, HomeHolds
<1>3. c \in NodeTypes /\ c # "Item" /\ CanContain(t.type[h], c) /\ \A x \in Closing : ~CanContain(x, c)
  BY <1>2 DEF NodeTypes, LeafTypes, TableTypes, Closing, CanContain
<1> HIDE DEF h
<1>4. Adds(t, s, h, c) /\ s.tip = Fresh(t)
  BY <1>1, <1>3, AddedChild
<1> HIDE DEF s
<1>5. Changes(t, s, h, c, s.tip) /\ Ready(s, s.tip, {}) /\ Ready(s, h, {c})
  BY <1>1, <1>2, <1>3, <1>4, AddsParts, AddsReady
<1>6. Grown(t, s, h) /\ New(t, s) = {s.tip}
  <2>1. Grown(t, t, h) /\ New(t, t) = {} /\ h \in New(t, t) \cup {h}
    BY GrownNot
  <2> QED BY <1>1, <1>2, <1>3, <1>4, <2>1, GrownMore
<1>7. Sound(s) /\ s.type[s.tip] = c
  BY <1>5 DEF Changes
<1>8. \A m \in New(t, s) : s.type[m] # "Item" /\ (s.type[m] = "List" => m \in ti1)
  BY <1>3, <1>4, <1>6, <1>7
<1>9. Stacked(s, lf1, ti1, fs) /\ ItemsAgree(s, lf1) /\ Finished(s, lf1, ti1, gs)
  <2>1. Grown(t, s, HomeOf(fs))
    BY <1>6 DEF h
  <2> QED BY <1>7, <1>8, <2>1, Built DEF SameFlags
<1> QED BY <1>2, <1>4, <1>5, <1>6, <1>9 DEF s, h

\* Where block() added leaf blocks and tables, it goes on.
LEMMA BuiltHolds ==
  ASSUME NEW t, NEW lf, NEW ti, NEW fs, Holds(t, lf, ti, fs), fs # <<>>, fs[1].fn = "block",
         NEW s, Grown(t, s, HomeOf(fs)), NEW T, Ready(s, HomeOf(fs), T), T \subseteq Closing,
         \A m \in New(t, s) : s.type[m] \notin {"Item", "List"}
  PROVE  Holds(s, lf, ti, fs)
<1>1. Sound(s) /\ Ready(s, HomeOf(fs), Closing)
  BY ReadyMore DEF Ready
<1>2. Stacked(s, lf, ti, fs) /\ ItemsAgree(s, lf) /\ Finished(s, lf, ti, fs)
  BY <1>1, Built
<1>3. InPlace(s, ti, fs)
  BY <1>1 DEF InPlace, Above, TakenUp
<1> QED BY <1>1, <1>2, <1>3 DEF Holds

\* A leaf block.
LEMMA LeafHolds ==
  ASSUME NEW t, NEW lf, NEW ti, NEW fs, Holds(t, lf, ti, fs), fs # <<>>, fs[1].fn = "block",
         t.used # Node, NEW c \in LeafTypes
  PROVE  Holds(AddChild(t, c), lf, ti, fs) /\ Grown(t, AddChild(t, c), HomeOf(fs))
<1> DEFINE s == AddChild(t, c)
<1>1. c # "List" /\ c # "Item" /\ {c} \subseteq Closing
  BY DEF LeafTypes, Closing
<1>2. Grown(t, s, HomeOf(fs)) /\ New(t, s) = {s.tip} /\ Ready(s, HomeOf(fs), {c}) /\ Changes(t, s, HomeOf(fs), c, s.tip)
  BY <1>1, BlockAdded DEF SameFlags
<1> HIDE DEF s
<1>3. s.type[s.tip] = c
  BY <1>2 DEF Changes
<1>4. \A m \in New(t, s) : s.type[m] \notin {"Item", "List"}
  BY <1>1, <1>2, <1>3
<1>5. Holds(s, lf, ti, fs)
  BY <1>1, <1>2, <1>4, BuiltHolds
<1> QED BY <1>2, <1>5 DEF s

\* A table.
LEMMA TableHolds ==
  ASSUME NEW t, NEW lf, NEW ti, NEW fs, Holds(t, lf, ti, fs), fs # <<>>, fs[1].fn = "block",
         NEW cols \in Nat \ {0}, NEW rows \in Nat,
         Cardinality(t.used) + (4 + cols + rows * (cols + 1)) <= Cardinality(Node)
  PROVE  LET head == TableRow(AddChild(AddChild(t, "Table"), "TableHead"), cols)
             s == Body(head, cols, rows)[rows]
         IN  Holds(s, lf, ti, fs) /\ Grown(t, s, HomeOf(fs))
<1> DEFINE s == Body(TableRow(AddChild(AddChild(t, "Table"), "TableHead"), cols), cols, rows)[rows]
           h == HomeOf(fs)
<1>1. Sound(t) /\ Stacked(t, lf, ti, fs) /\ Ready(t, h, Closing)
  BY DEF Holds, InPlace, Above
<1>2. h \in t.used /\ t.type[h] \in {"Document", "BlockQuote", "Item"}
  BY <1>1, HomeHolds
<1>3. CanContain(t.type[h], "Table") /\ \A x \in Closing : ~CanContain(x, "Table")
  BY <1>2 DEF LeafTypes, TableTypes, Closing, CanContain
<1>4. InTable(t, s, h)
  <2> HIDE DEF h
  <2> QED BY <1>1, <1>3, TableAdded
<1> HIDE DEF s
<1>5. Ready(s, h, TableTypes)
  BY <1>2, <1>4, TableHangs
<1>6. Grown(t, s, h) /\ \A m \in New(t, s) : s.type[m] \in TableTypes
  BY <1>4 DEF InTable
<1>7. TableTypes \subseteq Closing /\ "Item" \notin TableTypes /\ "List" \notin TableTypes
  BY DEF TableTypes, Closing
<1>8. Holds(s, lf, ti, fs)
  BY <1>5, <1>6, <1>7, BuiltHolds
<1> QED BY <1>6, <1>8 DEF s

\* unlink takes back the append of a fresh node.
LEMMA LinkedUnlinked ==
  ASSUME NEW a \in [Node -> Links], Agree(a), NEW h \in Node, NEW n \in Node, h # n, a[n] = NewLinks
  PROVE  Unlinked(Linked(a, h, n), n) = a
<1> DEFINE b == Linked(a, h, n)
           u == Unlinked(b, n)
<1>1. /\ b \in [Node -> Links]
      /\ \A m \in Node : /\ b[m].parent = IF m = n THEN h ELSE a[m].parent
                         /\ b[m].prev = IF m = n THEN a[h].last ELSE a[m].prev
                         /\ b[m].next = IF m = a[h].last THEN n ELSE a[m].next
                         /\ b[m].last = IF m = h THEN n ELSE a[m].last
                         /\ m = a[h].last => a[m].parent = h
      /\ b[n].next = None
  BY LinkedFresh
<1>2. \A m \in Node : b[m].first = IF m = h /\ a[h].last = None THEN n ELSE a[m].first
  BY DEF Linked
<1>3. /\ a[n].parent = None /\ a[n].prev = None /\ a[n].next = None /\ a[n].first = None /\ a[n].last = None
      /\ \A m \in Node : m = a[h].last => a[m].next = None
      /\ a[h].last = None <=> a[h].first = None
  BY DEF Agree, EndsAgree, EndsTogether, NewLinks
<1>4. u \in [Node -> Links]
  BY <1>1, UnlinkedType
<1> HIDE DEF b
<1>5. b[n].parent = h /\ b[n].prev = a[h].last /\ b[n].next = None
  BY <1>1
<1>6. ASSUME NEW m \in Node
      PROVE  /\ u[m].parent = IF m = n THEN None ELSE b[m].parent
             /\ u[m].prev = IF m = n THEN None ELSE b[m].prev
             /\ u[m].next = IF m = n THEN None ELSE IF m = a[h].last THEN None ELSE b[m].next
             /\ u[m].first = IF m = h /\ a[h].last = None THEN None ELSE b[m].first
             /\ u[m].last = IF m = h THEN a[h].last ELSE b[m].last
  BY <1>5, NoneAssumption DEF Unlinked
<1> HIDE DEF u
<1>7. ASSUME NEW m \in Node  PROVE u[m] = a[m]
  <2>1. m # n => a[h].last # n
    BY <1>1, <1>3, NoneAssumption
  <2>2. /\ u[m].parent = a[m].parent /\ u[m].prev = a[m].prev /\ u[m].next = a[m].next
        /\ u[m].first = a[m].first /\ u[m].last = a[m].last
    BY <1>1, <1>2, <1>3, <1>6, <2>1
  <2>3. u[m] \in Links /\ a[m] \in Links
    BY <1>4
  <2> QED BY <2>2, <2>3 DEF Links
<1> QED BY <1>4, <1>7 DEF u, b

\* table() without a header leaves the tree as it was, with a node of no use.
LEMMA NotATableHolds ==
  ASSUME NEW t, NEW lf, NEW ti, NEW fs, Holds(t, lf, ti, fs), fs # <<>>, fs[1].fn = "block", t.used # Node
  PROVE  LET s == AddChild(t, "Table")
             above == s.arena[s.tip].parent
             u == [s EXCEPT !.tip = IF above = None THEN Doc ELSE above, !.arena = Unlinked(@, s.tip)]
         IN  u \in Trees /\ Holds(u, lf, ti, fs) /\ Grown(t, u, HomeOf(fs))
<1> DEFINE s == AddChild(t, "Table")
           n == s.tip
           h == HomeOf(fs)
           above == s.arena[n].parent
           u1 == [s EXCEPT !.tip = h]
           u == [u1 EXCEPT !.arena = t.arena]
<1>1. Sound(t) /\ t \in Trees
  BY DEF Holds, Sound
<1>2. /\ h \in t.used /\ Changes(t, s, h, "Table", n) /\ Grown(t, s, h) /\ New(t, s) = {n}
      /\ Ready(s, n, {}) /\ Adds(t, s, h, "Table")
  <2>1. PICK c \in LeafTypes \cup {"Table", "BlockQuote", "List"} : c = "Table"
    OBVIOUS
  <2>2. c # "List"
    BY <2>1
  <2> DEFINE r == AddChild(t, c)
  <2>3. /\ h \in t.used /\ Changes(t, r, h, c, r.tip) /\ Grown(t, r, h) /\ New(t, r) = {r.tip}
        /\ Ready(r, r.tip, {}) /\ Adds(t, r, h, c)
    BY <2>2, BlockAdded DEF SameFlags
  <2>4. r = s
    BY <2>1
  <2> HIDE DEF r, s, h
  <2> QED BY <2>1, <2>3, <2>4
<1> HIDE DEF s, h
<1>3. /\ t.arena \in [Node -> Links] /\ Agree(t.arena) /\ Ends(Parents(t.arena)) /\ t.used \subseteq Node
      /\ h \in Node /\ n \in Node /\ n \notin t.used /\ h # n /\ t.arena[n] = NewLinks /\ s \in Trees
      /\ s.arena = Linked(t.arena, h, n) /\ s.used = t.used \cup {n} /\ s.type = [t.type EXCEPT ![n] = "Table"]
  BY <1>1, <1>2 DEF Sound, Trees, Adds
<1>4. above = h /\ h # None
  BY <1>2, <1>3, NoneAssumption DEF Changes
<1>5. Unlinked(s.arena, n) = t.arena
  BY <1>3, LinkedUnlinked
<1>6. [s EXCEPT !.tip = IF above = None THEN Doc ELSE above, !.arena = Unlinked(@, s.tip)] = u
  <2>1. (IF above = None THEN Doc ELSE above) = h
    BY <1>4
  <2>2. [s EXCEPT !.tip = h, !.arena = Unlinked(@, n)] = u
    BY <1>5
  <2> QED BY <2>1, <2>2
<1>7. u1 \in Trees
  BY <1>3 DEF Trees
<1>8. u1.used = s.used /\ u1.type = s.type /\ u1.open = s.open /\ u1.tip = h
  BY <1>3 DEF Trees
<1> HIDE DEF u1
<1>9. u \in Trees
  BY <1>3, <1>7 DEF Trees
<1>10. /\ u.used = t.used \cup {n} /\ u.arena = t.arena /\ u.type = [t.type EXCEPT ![n] = "Table"]
       /\ u.open = s.open /\ u.tip = h
  BY <1>3, <1>7, <1>8 DEF Trees
<1> HIDE DEF u
<1>11. \A m \in Node : u.type[m] = IF m = n THEN "Table" ELSE t.type[m]
  <2>1. t.type \in [Node -> NodeTypes]
    BY <1>1 DEF Trees
  <2> QED BY <1>10, <2>1
<1>12. \A m \in Node : t.arena[m].parent # n
  BY <1>1, <1>3, NoneAssumption DEF Sound
<1>13. Sound(u)
  <2>1. \A m \in Node \ u.used : u.arena[m] = NewLinks
    BY <1>1, <1>10 DEF Sound
  <2>2. \A m \in Node : u.arena[m].parent # None =>
          u.arena[m].parent \in u.used /\ CanContain(u.type[u.arena[m].parent], u.type[m])
    <3> SUFFICES ASSUME NEW m \in Node, t.arena[m].parent # None
                 PROVE  t.arena[m].parent \in u.used /\ CanContain(u.type[t.arena[m].parent], u.type[m])
      BY <1>10
    <3>1. m # n
      BY <1>3 DEF NewLinks
    <3>2. /\ t.arena[m].parent \in t.used /\ t.arena[m].parent \in Node /\ t.arena[m].parent # n
          /\ CanContain(t.type[t.arena[m].parent], t.type[m])
      BY <1>1, <1>3, <1>12 DEF Sound
    <3> QED BY <1>10, <1>11, <3>1, <3>2
  <2>3. Doc \in u.used /\ u.type[Doc] = "Document" /\ u.tip \in u.used
    <3>1. Doc \in t.used /\ Doc \in Node /\ Doc # n /\ t.type[Doc] = "Document"
      BY <1>1, <1>3 DEF Sound
    <3> QED BY <1>2, <1>10, <1>11, <3>1
  <2> QED BY <1>3, <1>9, <1>10, <2>1, <2>2, <2>3 DEF Sound
<1>14. OpenAbove(u, h)
  <2>1. PICK S \in SUBSET s.open : n \in S /\ S \subseteq s.used /\ Closed(s.arena, S)
    BY <1>2 DEF Ready, OpenAbove
  <2>2. \A m \in S : /\ m \in Node /\ s.arena[m].parent \in S \cup {None}
                     /\ s.arena[m].parent = IF m = n THEN h ELSE t.arena[m].parent
    BY <1>2, <1>3, <2>1 DEF Closed, Changes
  <2> DEFINE V == S \ {n}
  <2>3. h \in V /\ V \in SUBSET u.open /\ V \subseteq u.used
    BY <1>3, <1>4, <1>10, <2>1, <2>2
  <2>4. \A m \in V : u.arena[m].parent \in V \cup {None}
    BY <1>10, <1>12, <2>2
  <2> HIDE DEF V
  <2> QED BY <2>3, <2>4 DEF OpenAbove, Closed
<1>15. Hangs(u, h, h, {})
  <2>1. {} \in SUBSET u.used /\ h \in {} \cup {h} /\ h \notin {} /\ \A m \in {} : u.arena[m].parent \in {} \cup {h}
    OBVIOUS
  <2> QED BY <2>1 DEF Hangs
<1>16. Ready(u, h, {})
  BY <1>2, <1>10, <1>13, <1>14, <1>15 DEF Ready
<1>17. New(t, u) = {n} /\ Grown(t, u, h)
  <2>1. New(t, u) = {n}
    BY <1>3, <1>10 DEF New
  <2>2. u.arena[n].parent = None
    BY <1>3, <1>10 DEF NewLinks
  <2>3. \A m \in t.used : u.type[m] = t.type[m]
    BY <1>3, <1>11
  <2> QED BY <1>10, <2>1, <2>2, <2>3 DEF Grown
<1>18. \A m \in New(t, u) : u.type[m] \notin {"Item", "List"}
  BY <1>3, <1>11, <1>17
<1>19. Holds(u, lf, ti, fs)
  <2>1. {} \subseteq Closing
    OBVIOUS
  <2> QED BY <1>16, <1>17, <1>18, <2>1, BuiltHolds DEF h
<1> QED BY <1>6, <1>9, <1>17, <1>19 DEF s, h

\* quote() adds a block quote and calls block().
LEMMA QuoteHolds ==
  ASSUME NEW t, NEW lf, NEW ti, NEW fs, Holds(t, lf, ti, fs), fs # <<>>, fs[1].fn = "block", t.used # Node
  PROVE  LET s == AddChild(t, "BlockQuote")
             gs == <<[fn |-> "quote", node |-> s.tip]>> \o fs
             bs == <<[fn |-> "block"]>> \o gs
         IN  /\ Grown(t, s, HomeOf(fs)) /\ Holds(s, lf, ti, gs) /\ Holds(s, lf, ti, bs)
             /\ Depth(gs) = Depth(fs) /\ Depth(bs) = Depth(fs) + 1
<1> DEFINE s == AddChild(t, "BlockQuote")
           n == s.tip
           h == HomeOf(fs)
           q == [fn |-> "quote", node |-> n]
           gs == <<q>> \o fs
           bs == <<[fn |-> "block"]>> \o gs
<1>1. Sound(t) /\ Stacked(t, lf, ti, fs) /\ fs \in Seq(Frame) /\ lf \in [Node -> SUBSET Flags] /\ ti \in SUBSET Node
  BY DEF Holds, Stacked
<1>2. ASSUME NEW hs, Nodes(fs) \subseteq Nodes(hs)
      PROVE  /\ Changes(t, s, h, "BlockQuote", n) /\ Grown(t, s, h) /\ Ready(s, n, {})
             /\ Stacked(s, lf, ti, fs) /\ ItemsAgree(s, lf) /\ Finished(s, lf, ti, hs)
  <2>1. PICK c \in LeafTypes \cup {"Table", "BlockQuote", "List"} : c = "BlockQuote"
    OBVIOUS
  <2>2. c # "List"
    BY <2>1
  <2> DEFINE r == AddChild(t, c)
  <2>3. /\ Changes(t, r, h, c, r.tip) /\ Grown(t, r, h) /\ Ready(r, r.tip, {})
        /\ Stacked(r, lf, ti, fs) /\ ItemsAgree(r, lf) /\ Finished(r, lf, ti, hs)
    <3>1. SameFlags(t, lf, lf, ti, ti)
      BY DEF SameFlags
    <3> QED BY <1>2, <2>2, <3>1, BlockAdded
  <2>4. r = s
    BY <2>1
  <2> HIDE DEF r, s, h
  <2> QED BY <2>1, <2>3, <2>4
<1> HIDE DEF s, h
<1>3. /\ n \in Node /\ n \notin t.used /\ n \in s.used /\ s.type[n] = "BlockQuote" /\ s.arena[n].parent = h
      /\ Sound(s) /\ Ready(s, n, {}) /\ Stacked(s, lf, ti, fs) /\ Grown(t, s, h)
  BY <1>2 DEF Changes
<1> HIDE DEF n
<1>4. q \in Frame /\ q.fn = "quote" /\ q.node = n
  BY <1>3 DEF Frame, QuoteFrame
<1> HIDE DEF q
<1>5. On(s, lf, ti, q, fs)
  <2>1. n \notin Nodes(fs)
    BY <1>1, <1>3, NodesUsed
  <2>2. Makes("quote") = "BlockQuote"
    BY DEF Makes
  <2> QED BY <1>3, <1>4, <2>1, <2>2 DEF On, h
<1>6. Stacked(s, lf, ti, gs)
  BY <1>3, <1>4, <1>5, StackPushed
<1>7. gs # <<>> /\ gs[1] = q /\ Nodes(fs) \subseteq Nodes(gs) /\ Depth(gs) = Depth(fs)
  <2>1. gs # <<>> /\ gs[1] = q
    BY <1>1, <1>4, Pushed
  <2>2. Nodes(gs) = Nodes(fs) \cup {n} /\ Depth(gs) = Depth(fs)
    BY <1>1, <1>4, NodesPushed, DepthPushed
  <2> QED BY <2>1, <2>2
<1>8. ItemsAgree(s, lf) /\ Finished(s, lf, ti, gs)
  BY <1>2, <1>7
<1> HIDE DEF gs
<1>9. HomeOf(gs) = n
  BY <1>4, <1>7 DEF HomeOf
<1>10. Ready(s, HomeOf(gs), Closing)
  BY <1>3, <1>9, ReadyMore
<1>11. /\ Stacked(s, lf, ti, bs) /\ InPlace(s, ti, bs) /\ InPlace(s, ti, gs)
       /\ Nodes(bs) = Nodes(gs) /\ Depth(bs) = Depth(gs) + 1
  BY <1>4, <1>6, <1>7, <1>10, Called
<1>12. Finished(s, lf, ti, bs)
  BY <1>8, <1>11 DEF Finished
<1>13. Holds(s, lf, ti, gs)
  BY <1>1, <1>3, <1>6, <1>8, <1>11 DEF Holds
<1>14. Holds(s, lf, ti, bs)
  BY <1>1, <1>3, <1>8, <1>11, <1>12 DEF Holds
<1> QED BY <1>3, <1>7, <1>11, <1>13, <1>14 DEF s, h, n, q, gs

\* list() adds a list, tight and without items.
LEMMA ListHolds ==
  ASSUME NEW t, NEW lf, NEW ti, NEW fs, Holds(t, lf, ti, fs), fs # <<>>, fs[1].fn = "block", t.used # Node,
         NEW kind \in Kinds
  PROVE  LET s == AddChild(t, "List")
             flags == kind \cup {"BEGIN"}
             gs == <<[fn |-> "list", node |-> s.tip, flags |-> flags, more |-> TRUE, begun |-> FALSE]>> \o fs
         IN  /\ Grown(t, s, HomeOf(fs)) /\ Depth(gs) = Depth(fs)
             /\ Holds(s, [lf EXCEPT ![s.tip] = flags], ti \cup {s.tip}, gs)
<1> DEFINE s == AddChild(t, "List")
           n == s.tip
           h == HomeOf(fs)
           flags == kind \cup {"BEGIN"}
           lf1 == [lf EXCEPT ![n] = flags]
           ti1 == ti \cup {n}
           f == [fn |-> "list", node |-> n, flags |-> flags, more |-> TRUE, begun |-> FALSE]
           gs == <<f>> \o fs
<1>1. /\ Sound(t) /\ Stacked(t, lf, ti, fs) /\ fs \in Seq(Frame) /\ lf \in [Node -> SUBSET Flags]
      /\ ti \in SUBSET Node /\ t.used \subseteq Node
  BY DEF Holds, Stacked, Sound, Trees
<1>2. n \in Node /\ n \notin t.used /\ n = Fresh(t)
  <2>1. PICK c \in LeafTypes \cup {"Table", "BlockQuote", "List"} : c = "List"
    OBVIOUS
  <2>2. Fresh(t) \in {Fresh(t)} \cup ti /\ Fresh(t) \in Node \ t.used
    BY <1>1, FreshNode
  <2>3. AddChild(t, c).tip = Fresh(t)
    <3>1. SameFlags(t, lf, lf, ti, {Fresh(t)} \cup ti)
      BY <2>2 DEF SameFlags
    <3> QED BY <2>2, <3>1, BlockAdded
  <2>4. AddChild(t, c).tip = n
    BY <2>1
  <2> HIDE DEF n
  <2> QED BY <2>2, <2>3, <2>4
<1> HIDE DEF flags
<1>3. flags \in SUBSET Flags /\ "BEGIN" \in flags /\ "BLOCK" \notin flags /\ "END" \notin flags
  BY DEF flags, Kinds, Flags
<1>4. \A m \in t.used : lf1[m] = lf[m] /\ (m \in ti1 <=> m \in ti)
  BY <1>1, <1>2
<1>5. /\ lf1 \in [Node -> SUBSET Flags] /\ ti1 \in SUBSET Node /\ n \in ti1
  BY <1>1, <1>2, <1>3
<1> HIDE DEF lf1, ti1
<1>6. ASSUME NEW hs, Nodes(fs) \subseteq Nodes(hs)
      PROVE  /\ Changes(t, s, h, "List", n) /\ Grown(t, s, h) /\ Ready(s, n, {})
             /\ Stacked(s, lf1, ti1, fs) /\ ItemsAgree(s, lf1) /\ Finished(s, lf1, ti1, hs)
  <2>1. PICK c \in LeafTypes \cup {"Table", "BlockQuote", "List"} : c = "List"
    OBVIOUS
  <2>2. c = "List" => Fresh(t) \in ti1
    BY <1>2, <1>5
  <2>5. SameFlags(t, lf, lf1, ti, ti1)
    BY <1>4 DEF SameFlags
  <2> DEFINE r == AddChild(t, c)
  <2>3. /\ Changes(t, r, h, c, r.tip) /\ Grown(t, r, h) /\ Ready(r, r.tip, {})
        /\ Stacked(r, lf1, ti1, fs) /\ ItemsAgree(r, lf1) /\ Finished(r, lf1, ti1, hs)
    BY <1>6, <2>2, <2>5, BlockAdded
  <2>4. r = s
    BY <2>1
  <2> HIDE DEF r, s, h
  <2> QED BY <2>1, <2>3, <2>4
<1> HIDE DEF s, h
<1>7. /\ n \in s.used /\ s.type[n] = "List" /\ s.arena[n].parent = h /\ s.arena[n].last = None /\ h # n
      /\ s.used = t.used \cup {n} /\ \A m \in s.used : s.arena[m].parent # n
      /\ Sound(s) /\ Ready(s, n, {}) /\ Stacked(s, lf1, ti1, fs) /\ Grown(t, s, h)
  <2>1. Changes(t, s, h, "List", n) /\ Ready(s, n, {}) /\ Stacked(s, lf1, ti1, fs) /\ Grown(t, s, h)
    BY <1>6
  <2> QED BY <1>1, <1>2, <2>1 DEF Changes
<1> HIDE DEF n
<1>8. /\ f \in Frame /\ f.fn = "list" /\ f.node = n /\ f.flags = flags /\ f.more /\ ~f.begun
  BY <1>2, <1>3 DEF Frame, ListFrame
<1> HIDE DEF f
<1>9. On(s, lf1, ti1, f, fs)
  <2>1. n \notin Nodes(fs)
    BY <1>1, <1>2, NodesUsed
  <2>2. Makes("list") = "List"
    BY DEF Makes
  <2>3. ListKnows(s, lf1, ti1, f)
    BY <1>3, <1>5, <1>7, <1>8 DEF ListKnows
  <2> QED BY <1>7, <1>8, <2>1, <2>2, <2>3 DEF On, h
<1>10. Stacked(s, lf1, ti1, gs)
  BY <1>7, <1>8, <1>9, StackPushed
<1>11. gs # <<>> /\ gs[1] = f /\ Nodes(fs) \subseteq Nodes(gs) /\ Depth(gs) = Depth(fs)
  <2>1. gs # <<>> /\ gs[1] = f
    BY <1>1, <1>8, Pushed
  <2>2. Nodes(gs) = Nodes(fs) \cup {n} /\ Depth(gs) = Depth(fs)
    BY <1>1, <1>8, NodesPushed, DepthPushed
  <2> QED BY <2>1, <2>2
<1>12. ItemsAgree(s, lf1) /\ Finished(s, lf1, ti1, gs)
  BY <1>6, <1>11
<1> HIDE DEF gs
<1>13. HomeOf(gs) = n
  BY <1>8, <1>11 DEF HomeOf
<1>14. InPlace(s, ti1, gs)
  <2>1. Ready(s, HomeOf(gs), Above(gs[1]))
    BY <1>7, <1>13, ReadyMore
  <2>2. TakenUp(s, ti1, gs[1])
    BY <1>3, <1>5, <1>7, <1>8, <1>11 DEF TakenUp
  <2> QED BY <2>1, <2>2 DEF InPlace
<1>15. Holds(s, lf1, ti1, gs)
  BY <1>5, <1>7, <1>10, <1>12, <1>14 DEF Holds
<1> QED BY <1>7, <1>11, <1>15 DEF s, h, n, f, gs, flags, lf1, ti1

\* An item has been added to the list of frame fs[1], whose flags are now these.
ItemIn(t, lf, ti, fs, flags) ==
  LET s == AddChild(t, "Item")
      list == [fs[1] EXCEPT !.flags = flags, !.begun = TRUE]
      ls == <<list>> \o Tail(fs)
      lf1 == [n \in Node |-> IF n = s.tip THEN flags ELSE lf[n]]
  IN  /\ list \in Frame /\ list.fn = "list" /\ list.begun /\ list.node = fs[1].node
      /\ Changes(t, s, fs[1].node, "Item", s.tip) /\ Grown(t, s, fs[1].node) /\ Ready(s, s.tip, {})
      /\ lf1 \in [Node -> SUBSET Flags]
      /\ Stacked(s, lf1, ti, ls) /\ ItemsAgree(s, lf1) /\ Finished(s, lf1, ti, ls)
      /\ Nodes(ls) = Nodes(fs) /\ Depth(ls) = Depth(fs)

\* list_item() adds an item to the list, whose flags are those of the list before and
\* what was found.
LEMMA ItemAdded ==
  ASSUME NEW t, NEW lf, NEW ti, NEW fs, Holds(t, lf, ti, fs), fs # <<>>, fs[1].fn = "list", fs[1].more,
         t.used # Node, NEW flags \in SUBSET Flags,
         "BLOCK" \in fs[1].flags => "BLOCK" \in flags, "BEGIN" \in flags <=> "BEGIN" \in fs[1].flags
  PROVE  ItemIn(t, lf, ti, fs, flags)
<1> DEFINE s == AddChild(t, "Item")
           n == s.tip
           f == fs[1]
           gs == Tail(fs)
           h == f.node
           l1 == [f EXCEPT !.flags = flags]
           l2 == [l1 EXCEPT !.begun = TRUE]
           ls == <<l2>> \o gs
           lf1 == [m \in Node |-> IF m = n THEN flags ELSE lf[m]]
<1>1. /\ Sound(t) /\ Stacked(t, lf, ti, fs) /\ lf \in [Node -> SUBSET Flags] /\ ti \in SUBSET Node
      /\ ItemsAgree(t, lf) /\ Finished(t, lf, ti, fs) /\ InPlace(t, ti, fs)
  BY DEF Holds
<1>2. /\ f \in Frame /\ gs \in Seq(Frame) /\ fs = <<f>> \o gs /\ f.fn = "list" /\ f.more
      /\ On(t, lf, ti, f, gs) /\ Stacked(t, lf, ti, gs)
      /\ "BLOCK" \in f.flags => "BLOCK" \in flags
      /\ "BEGIN" \in flags <=> "BEGIN" \in f.flags
  BY <1>1, StackPopped
<1>3. HomeOf(fs) = h /\ Ready(t, h, Closing \cup {"Item"}) /\ TakenUp(t, ti, f)
  BY <1>1, <1>2 DEF InPlace, HomeOf, Above
<1> HIDE DEF f, gs
<1>4. f \in ListFrame
  BY <1>2, Frames
<1>5. l1 \in ListFrame /\ l1.fn = "list" /\ l1.node = f.node /\ l1.flags = flags
  BY <1>4 DEF ListFrame
<1> HIDE DEF l1
<1>6. l2 \in ListFrame /\ l2.fn = "list" /\ l2.node = f.node /\ l2.flags = flags /\ l2.begun
  BY <1>5 DEF ListFrame
<1>7. [f EXCEPT !.flags = flags, !.begun = TRUE] = l2
  BY DEF l1
<1>8. l2 \in Frame
  BY <1>6 DEF Frame
<1> HIDE DEF l2
<1>9. /\ t.used \subseteq Node /\ h \in t.used /\ h \in Node /\ t.type[h] = "List" /\ h \notin Nodes(gs)
      /\ gs # <<>> /\ gs[1].fn = "block" /\ t.arena[h].parent = HomeOf(gs) /\ ListKnows(t, lf, ti, f)
  <2>1. Makes("list") = "List"
    BY DEF Makes
  <2>2. t.used \subseteq Node
    BY <1>1 DEF Sound, Trees
  <2> QED BY <1>2, <2>1, <2>2 DEF On
<1>10. Adds(t, s, h, "Item")
  <2>1. "Item" \in NodeTypes /\ CanContain(t.type[h], "Item") /\ \A x \in Closing \cup {"Item"} : ~CanContain(x, "Item")
    BY <1>9 DEF NodeTypes, CanContain, Closing, LeafTypes, TableTypes
  <2> HIDE DEF h
  <2> QED BY <1>3, <2>1, AddedChild
<1> HIDE DEF s
<1>11. Changes(t, s, h, "Item", n) /\ Grown(t, s, h) /\ New(t, s) = {n} /\ Ready(s, n, {})
  <2>1. "Item" \in NodeTypes
    BY DEF NodeTypes
  <2>2. Grown(t, t, h) /\ New(t, t) = {} /\ h \in New(t, t) \cup {h}
    BY GrownNot
  <2> HIDE DEF h
  <2>3. Grown(t, s, h) /\ New(t, s) = {n}
    BY <1>1, <1>9, <1>10, <2>1, <2>2, GrownMore
  <2>4. Changes(t, s, h, "Item", n)
    BY <1>1, <1>9, <1>10, <2>1, AddsParts
  <2>5. Ready(s, n, {})
    BY <1>1, <1>9, <1>10, <2>1, AddsReady
  <2> QED BY <2>3, <2>4, <2>5
<1> HIDE DEF n, h
<1>12. /\ n \in Node \ t.used /\ s.used = t.used \cup {n} /\ h # n /\ Sound(s)
       /\ \A m \in Node : /\ s.type[m] = IF m = n THEN "Item" ELSE t.type[m]
                          /\ s.arena[m].parent = IF m = n THEN h ELSE t.arena[m].parent
                          /\ s.arena[m].prev = IF m = n THEN t.arena[h].last ELSE t.arena[m].prev
                          /\ s.arena[m].next = IF m = t.arena[h].last THEN n ELSE t.arena[m].next
                          /\ s.arena[m].last = IF m = h THEN n ELSE t.arena[m].last
                          /\ m = t.arena[h].last => t.arena[m].parent = h
       /\ s.arena[n].next = None
  BY <1>11 DEF Changes
<1>13. lf1 \in [Node -> SUBSET Flags] /\ \A m \in Node : lf1[m] = IF m = n THEN flags ELSE lf[m]
  BY <1>1, <1>12
<1> HIDE DEF lf1
<1>14. \A m \in t.used : m \in Node /\ m # n /\ lf1[m] = lf[m]
  BY <1>9, <1>12, <1>13
<1>15. Stacked(s, lf1, ti, gs)
  BY <1>1, <1>2, <1>9, <1>11, <1>12, <1>14, StackKept
<1>16. ListKnows(s, lf1, ti, l2)
  <2>1. /\ \A m \in t.used : t.arena[m].parent = h /\ "END" \in lf[m] => "END" \in f.flags
        /\ (\E m \in t.used : t.arena[m].parent = h /\ "BLOCK" \in lf[m]) <=> "BLOCK" \in f.flags
        /\ h \notin ti => "BLOCK" \in f.flags
    BY <1>9 DEF ListKnows, h
  <2>2. "END" \notin f.flags
    BY <1>2, <1>3 DEF TakenUp
  <2>3. l2.node = h
    BY <1>6 DEF h
  <2>4. \A m \in s.used : s.arena[m].parent = h /\ "END" \in lf1[m] => "END" \in flags
    BY <1>12, <1>13, <1>14, <2>1, <2>2
  <2>5. (\E m \in s.used : s.arena[m].parent = h /\ "BLOCK" \in lf1[m]) <=> "BLOCK" \in flags
    <3>1. ASSUME NEW m \in s.used, s.arena[m].parent = h, "BLOCK" \in lf1[m]  PROVE "BLOCK" \in flags
      <4>1. CASE m = n
        BY <1>12, <1>13, <3>1, <4>1
      <4>2. CASE m \in t.used
        BY <1>2, <1>12, <1>14, <2>1, <3>1, <4>2
      <4> QED BY <1>12, <4>1, <4>2
    <3>2. n \in s.used /\ s.arena[n].parent = h /\ lf1[n] = flags
      BY <1>12, <1>13
    <3> QED BY <3>1, <3>2
  <2>6. h \notin ti => "BLOCK" \in flags
    BY <1>2, <2>1
  <2>7. l2.begun <=> s.arena[h].last # None
    BY <1>6, <1>9, <1>12, NoneAssumption
  <2> QED BY <1>6, <2>3, <2>4, <2>5, <2>6, <2>7 DEF ListKnows
<1>17. On(s, lf1, ti, l2, gs)
  <2>1. Makes("list") = "List"
    BY DEF Makes
  <2>2. l2.node = h /\ h \in s.used /\ s.type[h] = "List" /\ s.arena[h].parent = HomeOf(gs)
    BY <1>6, <1>9, <1>12 DEF h
  <2> QED BY <1>6, <1>9, <1>16, <2>1, <2>2 DEF On
<1>18. Stacked(s, lf1, ti, ls)
  BY <1>8, <1>15, <1>17, StackPushed
<1>19. Nodes(ls) = Nodes(fs) /\ Depth(ls) = Depth(fs)
  <2>1. Nodes(ls) = Nodes(gs) \cup {h} /\ Depth(ls) = Depth(gs)
    BY <1>2, <1>6, <1>8, NodesPushed, DepthPushed DEF h
  <2>2. Nodes(<<f>> \o gs) = Nodes(gs) \cup {h} /\ Depth(<<f>> \o gs) = Depth(gs)
    BY <1>2, NodesPushed, DepthPushed DEF h
  <2> HIDE DEF ls
  <2> QED BY <1>2, <2>1, <2>2
<1> HIDE DEF ls
<1>20. ItemsAgree(s, lf1)
  <2> SUFFICES ASSUME NEW m \in s.used, s.type[m] = "Item", s.arena[m].parent # None
               PROVE  /\ "BEGIN" \in lf1[m] <=> s.arena[m].prev = None
                      /\ "END" \in lf1[m] => s.arena[m].next = None
    BY DEF ItemsAgree
  <2>1. CASE m = n
    <3>1. "BEGIN" \in f.flags <=> t.arena[h].last = None
      BY <1>2, <1>3 DEF TakenUp, h
    <3> QED BY <1>2, <1>12, <1>13, <2>1, <3>1
  <2>2. CASE m \in t.used
    <3>1. /\ "BEGIN" \in lf[m] <=> t.arena[m].prev = None
          /\ "END" \in lf[m] => t.arena[m].next = None
      <4>1. t.type[m] = "Item" /\ t.arena[m].parent # None
        BY <1>12, <1>14, <2>2
      <4> QED BY <1>1, <2>2, <4>1 DEF ItemsAgree
    <3>2. m = t.arena[h].last => "END" \notin lf[m]
      <4>1. \A k \in t.used : t.arena[k].parent = h /\ "END" \in lf[k] => "END" \in f.flags
        BY <1>9 DEF ListKnows, h
      <4>2. "END" \notin f.flags
        BY <1>2, <1>3 DEF TakenUp
      <4> QED BY <1>12, <1>14, <2>2, <4>1, <4>2
    <3> QED BY <1>12, <1>14, <2>2, <3>1, <3>2
  <2> QED BY <1>12, <2>1, <2>2
<1>21. Finished(s, lf1, ti, ls)
  <2> SUFFICES ASSUME NEW m \in s.used, s.type[m] = "List", m \notin Nodes(fs)
               PROVE  m \in ti <=> \A k \in s.used : s.arena[k].parent = m => "BLOCK" \notin lf1[k]
    BY <1>19 DEF Finished
  <2>1. m \in t.used /\ t.type[m] = "List" /\ m # n
    BY <1>12, <1>14
  <2>2. m # h
    <3>1. h \in Nodes(<<f>> \o gs)
      BY <1>2, NodesPushed DEF h
    <3> QED BY <1>2, <3>1
  <2>3. m \in ti <=> \A k \in t.used : t.arena[k].parent = m => "BLOCK" \notin lf[k]
    BY <1>1, <2>1 DEF Finished
  <2>4. \A k \in s.used : s.arena[k].parent = m <=> (k \in t.used /\ t.arena[k].parent = m)
    BY <1>12, <1>14, <2>2
  <2> QED BY <1>12, <1>14, <2>3, <2>4
<1> QED BY <1>6, <1>7, <1>8, <1>11, <1>13, <1>18, <1>19, <1>20, <1>21 DEF ItemIn, s, n, f, gs, h, ls, lf1

\* The text of an item without a block becomes a paragraph in it.
LEMMA ItemText ==
  ASSUME NEW s, NEW lf, NEW ti, NEW ls, NEW n, Ready(s, n, {}), s.type[n] = "Item", s.used # Node,
         Stacked(s, lf, ti, ls), ItemsAgree(s, lf), Finished(s, lf, ti, ls), n \notin Nodes(ls)
  PROVE  LET u == AddChild(s, "Paragraph") IN
         /\ Adds(s, u, n, "Paragraph") /\ Changes(s, u, n, "Paragraph", u.tip) /\ Ready(u, n, {"Paragraph"})
         /\ Stacked(u, lf, ti, ls) /\ ItemsAgree(u, lf) /\ Finished(u, lf, ti, ls)
<1> DEFINE u == AddChild(s, "Paragraph")
<1>1. Sound(s) /\ n \in s.used
  BY DEF Ready
<1>2. Adds(s, u, n, "Paragraph")
  <2>1. "Paragraph" \in NodeTypes /\ CanContain(s.type[n], "Paragraph") /\ \A x \in {} : ~CanContain(x, "Paragraph")
    BY DEF NodeTypes, LeafTypes, CanContain
  <2> QED BY <2>1, AddedChild
<1> HIDE DEF u
<1>3. /\ Changes(s, u, n, "Paragraph", u.tip) /\ Grown(s, u, n) /\ New(s, u) = {u.tip}
      /\ Ready(u, n, {"Paragraph"})
  <2>1. "Paragraph" \in NodeTypes
    BY DEF NodeTypes, LeafTypes
  <2>2. Grown(s, s, n) /\ New(s, s) = {} /\ n \in New(s, s) \cup {n}
    BY GrownNot
  <2>3. Grown(s, u, n) /\ New(s, u) = {u.tip}
    BY <1>1, <1>2, <2>1, <2>2, GrownMore
  <2> QED BY <1>1, <1>2, <2>1, <2>3, AddsParts, AddsReady
<1>4. Sound(u) /\ u.type[u.tip] = "Paragraph"
  BY <1>3 DEF Changes
<1>5. Stacked(u, lf, ti, ls)
  BY <1>1, <1>3, <1>4, StackKept
<1>6. ItemsAgree(u, lf) /\ Finished(u, lf, ti, ls)
  <2>1. \A m \in New(s, u) : u.type[m] # "Item" /\ (u.type[m] = "List" => m \in ti)
    BY <1>3, <1>4
  <2>2. s.type[n] # "List"
    OBVIOUS
  <2> QED BY <1>1, <1>3, <1>4, <2>1, <2>2, ListsKept
<1> QED BY <1>2, <1>3, <1>5, <1>6 DEF u

\* list_item() returns, or calls block().
LEMMA ItemHolds ==
  ASSUME NEW s, NEW lf \in [Node -> SUBSET Flags], NEW ti \in SUBSET Node, NEW ls, NEW n,
         Stacked(s, lf, ti, ls), ItemsAgree(s, lf), Finished(s, lf, ti, ls),
         ls # <<>>, ls[1].fn = "list", ls[1].begun, n \notin Nodes(ls), s.arena[n].parent = ls[1].node,
         s.type[n] = "Item", NEW T, Ready(s, n, T), T \subseteq Closing, NEW again \in BOOLEAN
  PROVE  LET gs == <<[fn |-> "list_item", node |-> n, again |-> again]>> \o ls
             bs == <<[fn |-> "block"]>> \o gs
         IN  /\ Holds(s, lf, ti, gs) /\ Holds(s, lf, ti, bs)
             /\ Depth(gs) = Depth(ls) /\ Depth(bs) = Depth(ls) + 1
<1> DEFINE f == [fn |-> "list_item", node |-> n, again |-> again]
           gs == <<f>> \o ls
           bs == <<[fn |-> "block"]>> \o gs
<1>1. Sound(s) /\ n \in s.used /\ n \in Node /\ ls \in Seq(Frame)
  BY DEF Ready, Sound, Trees, Stacked
<1>2. f \in Frame /\ f.fn = "list_item" /\ f.node = n
  BY <1>1 DEF Frame, ItemFrame
<1> HIDE DEF f
<1>3. On(s, lf, ti, f, ls)
  <2>1. Makes("list_item") = "Item"
    BY DEF Makes
  <2>2. HomeOf(ls) = ls[1].node
    BY DEF HomeOf
  <2> QED BY <1>1, <1>2, <2>1, <2>2 DEF On
<1>4. Stacked(s, lf, ti, gs)
  BY <1>2, <1>3, StackPushed
<1>5. gs # <<>> /\ gs[1] = f
  BY <1>1, <1>2, Pushed
<1>6. Nodes(gs) = Nodes(ls) \cup {n} /\ Depth(gs) = Depth(ls)
  BY <1>1, <1>2, NodesPushed, DepthPushed
<1> HIDE DEF gs
<1>7. Ready(s, HomeOf(gs), Closing)
  <2>1. HomeOf(gs) = n
    BY <1>2, <1>5 DEF HomeOf
  <2> QED BY <2>1, ReadyMore
<1>8. /\ Stacked(s, lf, ti, bs) /\ InPlace(s, ti, bs) /\ InPlace(s, ti, gs)
      /\ Nodes(bs) = Nodes(gs) /\ Depth(bs) = Depth(gs) + 1
  BY <1>2, <1>4, <1>5, <1>7, Called
<1>9. Finished(s, lf, ti, gs) /\ Finished(s, lf, ti, bs)
  BY <1>6, <1>8 DEF Finished
<1>10. Holds(s, lf, ti, gs)
  BY <1>1, <1>4, <1>8, <1>9 DEF Holds
<1>11. Holds(s, lf, ti, bs)
  BY <1>1, <1>8, <1>9 DEF Holds
<1> QED BY <1>6, <1>8, <1>10, <1>11 DEF f, gs

\* A second call of block() in an item.
LEMMA ItemAgain ==
  ASSUME NEW t, NEW lf, NEW ti, NEW fs, Holds(t, lf, ti, fs), fs # <<>>, fs[1].fn = "list_item"
  PROVE  LET gs == <<[fs[1] EXCEPT !.again = FALSE]>> \o Tail(fs)
             bs == <<[fn |-> "block"]>> \o gs
         IN  /\ Holds(t, lf, ti, gs) /\ Holds(t, lf, ti, bs)
             /\ Depth(gs) = Depth(fs) /\ Depth(bs) = Depth(fs) + 1
<1> DEFINE f == fs[1]
           ls == Tail(fs)
           g == [f EXCEPT !.again = FALSE]
<1>1. /\ Sound(t) /\ Stacked(t, lf, ti, fs) /\ lf \in [Node -> SUBSET Flags] /\ ti \in SUBSET Node
      /\ ItemsAgree(t, lf) /\ Finished(t, lf, ti, fs) /\ InPlace(t, ti, fs)
  BY DEF Holds
<1>2. /\ f \in Frame /\ ls \in Seq(Frame) /\ fs = <<f>> \o ls /\ f.fn = "list_item"
      /\ On(t, lf, ti, f, ls) /\ Stacked(t, lf, ti, ls)
  BY <1>1, StackPopped
<1>3. Ready(t, f.node, Closing)
  BY <1>1, <1>2 DEF InPlace, HomeOf, Above
<1> HIDE DEF f, ls
<1>4. f \in ItemFrame
  BY <1>2, Frames
<1>5. g = [fn |-> "list_item", node |-> f.node, again |-> FALSE]
  <2>1. g \in ItemFrame /\ g.node = f.node /\ g.again = FALSE
    BY <1>4 DEF ItemFrame
  <2> HIDE DEF g
  <2> QED BY <2>1 DEF ItemFrame
<1>6. /\ ls # <<>> /\ ls[1].fn = "list" /\ ls[1].begun /\ f.node \notin Nodes(ls)
      /\ t.arena[f.node].parent = ls[1].node /\ t.type[f.node] = "Item"
  BY <1>2 DEF On, HomeOf, Makes
<1>7. Depth(fs) = Depth(ls) /\ Nodes(fs) = Nodes(ls) \cup {f.node}
  <2>1. Depth(<<f>> \o ls) = Depth(ls) /\ Nodes(<<f>> \o ls) = Nodes(ls) \cup {f.node}
    BY <1>2, NodesPushed, DepthPushed
  <2> QED BY <1>2, <2>1
<1>8. Finished(t, lf, ti, ls)
  BY <1>1, <1>6, <1>7 DEF Finished
<1> HIDE DEF g
<1> DEFINE gs == <<g>> \o ls
           bs == <<[fn |-> "block"]>> \o gs
<1>9. /\ Holds(t, lf, ti, gs) /\ Holds(t, lf, ti, bs)
      /\ Depth(gs) = Depth(ls) /\ Depth(bs) = Depth(ls) + 1
  <2>1. PICK again \in BOOLEAN : again = FALSE
    OBVIOUS
  <2>4. PICK n : n = f.node
    OBVIOUS
  <2> DEFINE e == [fn |-> "list_item", node |-> n, again |-> again]
             es == <<e>> \o ls
             ds == <<[fn |-> "block"]>> \o es
  <2>2. Holds(t, lf, ti, es) /\ Holds(t, lf, ti, ds) /\ Depth(es) = Depth(ls) /\ Depth(ds) = Depth(ls) + 1
    <3>1. Closing \subseteq Closing /\ lf \in [Node -> SUBSET Flags] /\ ti \in SUBSET Node
      BY <1>1
    <3>2. /\ Stacked(t, lf, ti, ls) /\ ItemsAgree(t, lf) /\ Finished(t, lf, ti, ls)
          /\ Ready(t, n, Closing)
      BY <1>1, <1>2, <1>3, <1>8, <2>4
    <3>3. /\ ls # <<>> /\ ls[1].fn = "list" /\ ls[1].begun /\ n \notin Nodes(ls)
          /\ t.arena[n].parent = ls[1].node /\ t.type[n] = "Item"
      BY <1>6, <2>4
    <3> QED BY <3>1, <3>2, <3>3, ItemHolds
  <2>3. e = g
    BY <1>5, <2>1, <2>4
  <2> HIDE DEF e
  <2> QED BY <2>2, <2>3
<1> QED BY <1>7, <1>9 DEF f, ls, g

\* A quote or a list is closed, and what called for it goes on beside it.
LEMMA CloseHolds ==
  ASSUME NEW t, NEW lf, NEW ti, NEW fs, Holds(t, lf, ti, fs), fs # <<>>, fs[1].fn \in {"quote", "list"},
         Finished(t, lf, ti, Tail(fs))
  PROVE  LET s == Finalize(t, fs[1].node) IN
         /\ Holds(s, lf, ti, Tail(fs)) /\ Depth(Tail(fs)) = Depth(fs)
         /\ s.used = t.used /\ s.arena = t.arena /\ s.type = t.type
<1> DEFINE f == fs[1]
           gs == Tail(fs)
           h == f.node
           s == Finalize(t, h)
<1>1. /\ Sound(t) /\ Stacked(t, lf, ti, fs) /\ lf \in [Node -> SUBSET Flags] /\ ti \in SUBSET Node
      /\ ItemsAgree(t, lf) /\ InPlace(t, ti, fs)
  BY DEF Holds
<1>2. /\ f \in Frame /\ gs \in Seq(Frame) /\ fs = <<f>> \o gs /\ f.fn \in {"quote", "list"}
      /\ On(t, lf, ti, f, gs) /\ Stacked(t, lf, ti, gs) /\ Finished(t, lf, ti, gs)
  BY <1>1, StackPopped
<1>3. HomeOf(fs) = h /\ Ready(t, h, Above(f))
  BY <1>1, <1>2 DEF InPlace, HomeOf
<1>4. Depth(gs) = Depth(fs)
  <2> HIDE DEF f, gs
  <2>1. Depth(<<f>> \o gs) = Depth(gs)
    BY <1>2, DepthPushed
  <2> QED BY <1>2, <2>1
<1> HIDE DEF f, gs
<1>5. gs # <<>> /\ gs[1].fn = "block" /\ t.arena[h].parent = HomeOf(gs)
  BY <1>2 DEF On
<1>6. HomeOf(gs) # None
  <2>1. HomeOf(gs) \in t.used
    BY <1>1, <1>2, <1>5, HomeHolds
  <2> QED BY <1>1, <2>1, NoneAssumption DEF Sound, Trees
<1> HIDE DEF h
<1>7. Ready(s, HomeOf(gs), {}) /\ s.used = t.used /\ s.arena = t.arena /\ s.type = t.type
  BY <1>3, <1>5, <1>6, Finalized
<1> HIDE DEF s
<1>8. Grown(t, s, None) /\ New(t, s) = {} /\ Sound(s)
  BY <1>7, GrownSame DEF Ready
<1>9. Stacked(s, lf, ti, gs)
  <2>1. None \notin Nodes(gs)
    BY <1>1, <1>2, NodesUsed, NoneAssumption DEF Sound, Trees
  <2> QED BY <1>1, <1>2, <1>8, <2>1, StackKept
<1>10. ItemsAgree(s, lf) /\ Finished(s, lf, ti, gs)
  BY <1>1, <1>2, <1>8, ListsKept
<1>11. InPlace(s, ti, gs)
  <2>1. Ready(s, HomeOf(gs), Closing)
    BY <1>7, ReadyMore
  <2> QED BY <1>5, <2>1 DEF InPlace, Above, TakenUp
<1>12. Holds(s, lf, ti, gs)
  BY <1>1, <1>8, <1>9, <1>10, <1>11 DEF Holds
<1> QED BY <1>4, <1>7, <1>12 DEF s, h, f, gs

\* The end of a quote.
LEMMA QuoteDone ==
  ASSUME NEW t, NEW lf, NEW ti, NEW fs, Holds(t, lf, ti, fs), fs # <<>>, fs[1].fn = "quote"
  PROVE  Finished(t, lf, ti, Tail(fs))
<1> DEFINE f == fs[1]
           gs == Tail(fs)
<1>1. Stacked(t, lf, ti, fs) /\ Finished(t, lf, ti, fs)
  BY DEF Holds
<1>2. f \in Frame /\ gs \in Seq(Frame) /\ fs = <<f>> \o gs /\ f.fn = "quote" /\ On(t, lf, ti, f, gs)
  BY <1>1, StackPopped
<1> HIDE DEF f, gs
<1>3. Nodes(fs) = Nodes(gs) \cup {f.node}
  <2>1. Nodes(<<f>> \o gs) = Nodes(gs) \cup {f.node}
    BY <1>2, NodesPushed
  <2> QED BY <1>2, <2>1
<1>4. t.type[f.node] # "List"
  BY <1>2 DEF On, Makes
<1>5. Finished(t, lf, ti, gs)
  BY <1>1, <1>3, <1>4 DEF Finished
<1> QED BY <1>5 DEF gs

\* The end of a list: by then it is tight exactly when no item contains a block.
LEMMA ListDone ==
  ASSUME NEW t, NEW lf, NEW ti, NEW fs, Holds(t, lf, ti, fs), fs # <<>>, fs[1].fn = "list"
  PROVE  Finished(t, lf, ti, Tail(fs))
<1> DEFINE f == fs[1]
           gs == Tail(fs)
<1>1. Stacked(t, lf, ti, fs) /\ Finished(t, lf, ti, fs) /\ InPlace(t, ti, fs)
  BY DEF Holds
<1>2. f \in Frame /\ gs \in Seq(Frame) /\ fs = <<f>> \o gs /\ f.fn = "list" /\ On(t, lf, ti, f, gs)
  BY <1>1, StackPopped
<1>3. TakenUp(t, ti, f)
  BY <1>1 DEF InPlace
<1> HIDE DEF f, gs
<1>4. Nodes(fs) = Nodes(gs) \cup {f.node}
  <2>1. Nodes(<<f>> \o gs) = Nodes(gs) \cup {f.node}
    BY <1>2, NodesPushed
  <2> QED BY <1>2, <2>1
<1>5. f.node \in ti <=> \A m \in t.used : t.arena[m].parent = f.node => "BLOCK" \notin lf[m]
  <2>1. (\E m \in t.used : t.arena[m].parent = f.node /\ "BLOCK" \in lf[m]) <=> "BLOCK" \in f.flags
    BY <1>2 DEF On, ListKnows
  <2>2. f.node \in ti <=> "BLOCK" \notin f.flags
    BY <1>2, <1>3 DEF TakenUp
  <2> QED BY <2>1, <2>2
<1>6. Finished(t, lf, ti, gs)
  BY <1>1, <1>4, <1>5 DEF Finished
<1> QED BY <1>6 DEF gs

\* Other lists becoming loose does not matter to the frames.
LEMMA TightKept ==
  ASSUME NEW t, NEW lf, NEW ti, NEW fs, Sound(t), Stacked(t, lf, ti, fs),
         NEW ti1, \A n \in Nodes(fs) : n \in ti1 <=> n \in ti
  PROVE  Stacked(t, lf, ti1, fs)
<1>1. PICK s, h : s = t /\ h = None
  OBVIOUS
<1>2. Grown(t, s, h) /\ Sound(s)
  BY <1>1, GrownNot
<1>3. h \notin Nodes(fs)
  BY <1>1, NodesUsed, NoneAssumption DEF Sound, Trees
<1>4. Stacked(s, lf, ti1, fs)
  BY <1>2, <1>3, StackKept
<1> QED BY <1>1, <1>4

\* After an item, list() takes up the flags it left.
LEMMA ItemReturnHolds ==
  ASSUME NEW t, NEW lf, NEW ti, NEW fs, Holds(t, lf, ti, fs), fs # <<>>, fs[1].fn = "list_item",
         NEW ti1, ti1 = IF "BLOCK" \in Tail(fs)[1].flags THEN ti \ {Tail(fs)[1].node} ELSE ti
  PROVE  LET gs == <<Continued(Tail(fs)[1])>> \o Tail(Tail(fs)) IN
         Holds(t, lf, ti1, gs) /\ Depth(gs) = Depth(fs)
<1> DEFINE i == fs[1]
           ls == Tail(fs)
           f == ls[1]
           bs == Tail(ls)
           h == f.node
           more == "END" \notin f.flags
           flags == IF more THEN f.flags \ {"BEGIN"} ELSE f.flags
           g1 == [f EXCEPT !.more = more]
           g == [g1 EXCEPT !.flags = flags]
           gs == <<g>> \o bs
<1>1. /\ Sound(t) /\ Stacked(t, lf, ti, fs) /\ lf \in [Node -> SUBSET Flags] /\ ti \in SUBSET Node
      /\ ItemsAgree(t, lf) /\ Finished(t, lf, ti, fs) /\ InPlace(t, ti, fs)
  BY DEF Holds
<1>2. /\ i \in Frame /\ ls \in Seq(Frame) /\ fs = <<i>> \o ls /\ i.fn = "list_item"
      /\ On(t, lf, ti, i, ls) /\ Stacked(t, lf, ti, ls)
  BY <1>1, StackPopped
<1>3. ls # <<>> /\ f.fn = "list" /\ f.begun
  BY <1>2 DEF On
<1>4. Ready(t, i.node, Closing)
  BY <1>1, <1>2 DEF InPlace, HomeOf, Above
<1>5. f \in Frame /\ bs \in Seq(Frame) /\ ls = <<f>> \o bs /\ On(t, lf, ti, f, bs) /\ Stacked(t, lf, ti, bs)
  <2> HIDE DEF ls
  <2> QED BY <1>2, <1>3, StackPopped
<1>6. ti1 = IF "BLOCK" \in f.flags THEN ti \ {h} ELSE ti
  OBVIOUS
<1>7. Continued(f) = g
  BY DEF Continued
<1>8. HomeOf(ls) = h
  BY <1>3 DEF HomeOf
<1> HIDE DEF i, ls, f, bs, more, flags
<1>9. f \in ListFrame
  BY <1>3, <1>5, Frames
<1>10. more \in BOOLEAN /\ flags \in SUBSET Flags
  BY <1>9 DEF more, flags, ListFrame
<1>11. g1 \in ListFrame /\ g1.fn = "list" /\ g1.node = f.node /\ g1.more = more /\ g1.begun = f.begun
  BY <1>9, <1>10 DEF ListFrame
<1> HIDE DEF g1
<1>12. /\ g \in ListFrame /\ g.fn = "list" /\ g.node = f.node /\ g.more = more /\ g.flags = flags
       /\ g.begun = f.begun
  BY <1>10, <1>11 DEF ListFrame
<1>13. g \in Frame
  BY <1>12 DEF Frame
<1> HIDE DEF g
<1>14. /\ h \in t.used /\ h \in Node /\ t.type[h] = "List" /\ h \notin Nodes(bs) /\ bs # <<>> /\ bs[1].fn = "block"
       /\ t.arena[h].parent = HomeOf(bs) /\ ListKnows(t, lf, ti, f)
       /\ t.arena[i.node].parent = h /\ t.type[i.node] = "Item"
  <2>1. Makes("list") = "List" /\ Makes("list_item") = "Item"
    BY DEF Makes
  <2>2. t.used \subseteq Node
    BY <1>1 DEF Sound, Trees
  <2> QED BY <1>2, <1>3, <1>5, <1>8, <2>1, <2>2 DEF On
<1> HIDE DEF h
<1>15. /\ "END" \in flags <=> "END" \in f.flags
       /\ "BLOCK" \in flags <=> "BLOCK" \in f.flags
       /\ more <=> "END" \notin flags
       /\ more => "BEGIN" \notin flags
  BY DEF flags, more
<1>16. h \in ti1 <=> "BLOCK" \notin flags
  BY <1>6, <1>14, <1>15 DEF ListKnows, h
<1>17. ListKnows(t, lf, ti1, g)
  BY <1>12, <1>14, <1>15, <1>16 DEF ListKnows, h
<1>18. On(t, lf, ti1, g, bs)
  <2>1. Makes("list") = "List"
    BY DEF Makes
  <2> QED BY <1>12, <1>14, <1>17, <2>1 DEF On, h
<1>19. Stacked(t, lf, ti1, bs)
  <2>1. \A n \in Nodes(bs) : n \in ti1 <=> n \in ti
    BY <1>6, <1>14
  <2> QED BY <1>1, <1>5, <2>1, TightKept
<1>20. Stacked(t, lf, ti1, gs)
  BY <1>13, <1>18, <1>19, StackPushed
<1>21. gs # <<>> /\ gs[1] = g
  BY <1>5, <1>13, Pushed
<1>22. Nodes(gs) = Nodes(bs) \cup {h} /\ Depth(gs) = Depth(bs)
  BY <1>5, <1>12, <1>13, NodesPushed, DepthPushed DEF h
<1>23. Nodes(fs) = Nodes(bs) \cup {h, i.node} /\ Depth(fs) = Depth(bs)
  <2>1. Nodes(<<f>> \o bs) = Nodes(bs) \cup {h} /\ Depth(<<f>> \o bs) = Depth(bs)
    BY <1>3, <1>5, NodesPushed, DepthPushed DEF h
  <2>2. Nodes(<<i>> \o ls) = Nodes(ls) \cup {i.node} /\ Depth(<<i>> \o ls) = Depth(ls)
    BY <1>2, NodesPushed, DepthPushed
  <2> QED BY <1>2, <1>5, <2>1, <2>2
<1> HIDE DEF gs
<1>24. Finished(t, lf, ti1, gs)
  <2> SUFFICES ASSUME NEW n \in t.used, t.type[n] = "List", n \notin Nodes(gs)
               PROVE  n \in ti1 <=> \A m \in t.used : t.arena[m].parent = n => "BLOCK" \notin lf[m]
    BY DEF Finished
  <2>1. n \notin Nodes(fs) /\ n # h
    BY <1>14, <1>22, <1>23
  <2>2. n \in ti <=> \A m \in t.used : t.arena[m].parent = n => "BLOCK" \notin lf[m]
    BY <1>1, <2>1 DEF Finished
  <2> QED BY <1>6, <2>1, <2>2
<1>25. InPlace(t, ti1, gs)
  <2>1. HomeOf(gs) = h
    BY <1>12, <1>21 DEF HomeOf, h
  <2>2. Ready(t, h, Closing \cup {"Item"})
    <3> DEFINE U == Closing \cup {"Item"}
    <3>1. Closing \subseteq U /\ t.type[i.node] \in U /\ t.arena[i.node].parent # None
          /\ t.type[t.arena[i.node].parent] \notin U
      BY <1>14, NoneAssumption DEF Closing, LeafTypes, TableTypes
    <3> HIDE DEF U
    <3>2. Ready(t, t.arena[i.node].parent, U)
      BY <1>4, <3>1, ReadyUp
    <3> QED BY <1>14, <3>2 DEF U
  <2>3. TakenUp(t, ti1, g)
    <3>1. t.arena[h].last # None
      BY <1>3, <1>14 DEF ListKnows, h
    <3> QED BY <1>12, <1>15, <1>16, <3>1 DEF TakenUp, h
  <2> QED BY <1>12, <1>21, <2>1, <2>2, <2>3 DEF InPlace, Above
<1>26. ti1 \in SUBSET Node
  BY <1>1, <1>6
<1>27. Holds(t, lf, ti1, gs)
  BY <1>1, <1>20, <1>24, <1>25, <1>26 DEF Holds
<1> QED BY <1>7, <1>22, <1>23, <1>27 DEF gs, bs, ls, f

\* block() returns to the quote or the item it was called for.
LEMMA BlockReturnHolds ==
  ASSUME NEW t, NEW lf, NEW ti, NEW fs, Holds(t, lf, ti, fs), fs # <<>>, fs[1].fn = "block", Tail(fs) # <<>>
  PROVE  Holds(t, lf, ti, Tail(fs)) /\ Depth(fs) = Depth(Tail(fs)) + 1 /\ Depth(Tail(fs)) \in Nat
<1> DEFINE f == fs[1]
           gs == Tail(fs)
<1>1. /\ Sound(t) /\ Stacked(t, lf, ti, fs) /\ lf \in [Node -> SUBSET Flags] /\ ti \in SUBSET Node
      /\ ItemsAgree(t, lf) /\ Finished(t, lf, ti, fs) /\ InPlace(t, ti, fs)
  BY DEF Holds
<1>2. /\ f \in Frame /\ gs \in Seq(Frame) /\ fs = <<f>> \o gs /\ f.fn = "block"
      /\ On(t, lf, ti, f, gs) /\ Stacked(t, lf, ti, gs) /\ gs # <<>>
  BY <1>1, StackPopped
<1>3. gs[1].fn \in {"quote", "list_item"}
  BY <1>2 DEF On
<1>4. Ready(t, gs[1].node, Closing)
  BY <1>1, <1>2 DEF InPlace, HomeOf, Above
<1> HIDE DEF f, gs
<1>5. Nodes(fs) = Nodes(gs) /\ Depth(fs) = Depth(gs) + 1 /\ Depth(gs) \in Nat
  <2>1. Nodes(<<f>> \o gs) = Nodes(gs) /\ Depth(<<f>> \o gs) = Depth(gs) + 1 /\ Depth(gs) \in Nat
    BY <1>2, NodesPushed, DepthPushed
  <2> QED BY <1>2, <2>1
<1>6. InPlace(t, ti, gs)
  BY <1>3, <1>4 DEF InPlace, HomeOf, Above, TakenUp
<1>7. Holds(t, lf, ti, gs)
  BY <1>1, <1>2, <1>5, <1>6 DEF Holds, Finished
<1> QED BY <1>5, <1>7 DEF gs

\* parse() ends with no handler running.
LEMMA ParseEndHolds ==
  ASSUME NEW t, NEW lf, NEW ti, NEW fs, Holds(t, lf, ti, fs), fs # <<>>, fs[1].fn = "block", Tail(fs) = <<>>,
         NEW o \in SUBSET Node
  PROVE  Holds(Moved(t, Doc, o), lf, ti, <<>>) /\ Depth(fs) = 1 /\ Depth(<<>>) = 0
<1> DEFINE f == fs[1]
           s == Moved(t, Doc, o)
<1>1. /\ Sound(t) /\ Stacked(t, lf, ti, fs) /\ lf \in [Node -> SUBSET Flags] /\ ti \in SUBSET Node
      /\ ItemsAgree(t, lf) /\ Finished(t, lf, ti, fs)
  BY DEF Holds
<1>2. f \in Frame /\ <<>> \in Seq(Frame) /\ fs = <<f>> \o <<>> /\ f.fn = "block" /\ Stacked(t, lf, ti, <<>>)
  <2>1. f \in Frame /\ Tail(fs) \in Seq(Frame) /\ fs = <<f>> \o Tail(fs) /\ Stacked(t, lf, ti, Tail(fs))
    BY <1>1, StackPopped
  <2> QED BY <2>1
<1> HIDE DEF f
<1>3. Depth(<<>>) = 0
  <2>1. {k \in DOMAIN <<>> : <<>>[k].fn = "block"} = {}
    OBVIOUS
  <2> QED BY <2>1, FS_EmptySet DEF Depth
<1>4. Nodes(fs) = Nodes(<<>>) /\ Depth(fs) = 1
  <2>1. Nodes(<<f>> \o <<>>) = Nodes(<<>>) /\ Depth(<<f>> \o <<>>) = Depth(<<>>) + 1
    BY <1>2, NodesPushed, DepthPushed
  <2> QED BY <1>2, <1>3, <2>1
<1>5. /\ s \in Trees /\ s.used = t.used /\ s.arena = t.arena /\ s.type = t.type /\ s.tip = Doc
  <2>1. t \in Trees /\ Doc \in Node
    BY <1>1 DEF Sound, Trees
  <2> QED BY <2>1, MovedParts
<1> HIDE DEF s
<1>6. Sound(s)
  BY <1>1, <1>5 DEF Sound
<1>7. ItemsAgree(s, lf) /\ Finished(s, lf, ti, <<>>)
  BY <1>1, <1>4, <1>5 DEF ItemsAgree, Finished
<1>8. Stacked(s, lf, ti, <<>>)
  BY <1>2 DEF Stacked
<1>9. InPlace(s, ti, <<>>)
  BY DEF InPlace
<1>10. Holds(s, lf, ti, <<>>)
  BY <1>1, <1>6, <1>7, <1>8, <1>9 DEF Holds
<1> QED BY <1>3, <1>4, <1>10 DEF s

\* What an action does to the tree, taken as one value.
LEMMA BecomesWhole ==
  ASSUME NEW s, s \in Trees, Becomes(s)
  PROVE  Here' = s
<1>1. /\ used' = s.used /\ arena' = s.arena /\ type' = s.type /\ open' = s.open /\ tip' = s.tip
  BY DEF Becomes
<1>2. s = [used |-> s.used, arena |-> s.arena, type |-> s.type, open |-> s.open, tip |-> s.tip]
  BY Whole
<1> QED BY <1>1, <1>2 DEF Here

\* The pass begins with the document.
LEMMA BlockBegins == BlockInit => BlockInv
<1> SUFFICES ASSUME BlockInit  PROVE BlockInv
  OBVIOUS
<1> DEFINE t == Here
           b == [fn |-> "block"]
           fs == <<b>> \o <<>>
<1>1. /\ used = {Doc} /\ arena = [n \in Node |-> NewLinks] /\ type = [n \in Node |-> "Document"]
      /\ open = {Doc} /\ tip = Doc /\ listFlags = [n \in Node |-> {}] /\ tight = {} /\ nesting = 1
      /\ calls = <<b>>
  BY DEF BlockInit
<1>2. Doc \in Node
  BY NodeAssumption DEF Doc
<1>3. /\ t.used = {Doc} /\ t.arena = [n \in Node |-> NewLinks] /\ t.type = [n \in Node |-> "Document"]
      /\ t.open = {Doc} /\ t.tip = Doc
  BY <1>1 DEF Here
<1>4. NewLinks \in Links
  BY DEF NewLinks, Links
<1>5. t \in Trees
  <2>1. "Document" \in NodeTypes
    BY DEF NodeTypes
  <2> QED BY <1>1, <1>2, <1>4, <2>1 DEF Trees, Here
<1> HIDE DEF t
<1>6. \A n \in Node : t.arena[n] = NewLinks /\ t.arena[n].parent = None
  BY <1>3 DEF NewLinks
<1>7. Agree(t.arena)
  <2>1. \A n \in Node : /\ t.arena[n].parent = None /\ t.arena[n].prev = None /\ t.arena[n].next = None
                        /\ t.arena[n].first = None /\ t.arena[n].last = None
    BY <1>3 DEF NewLinks
  <2> QED BY <2>1, NoneAssumption DEF Agree, SiblingsAgree, EndsAgree, EndsTogether
<1>8. Ends(Parents(t.arena))
  BY <1>6, NoneAssumption DEF Ends, Parents
<1>9. Sound(t)
  BY <1>2, <1>3, <1>5, <1>6, <1>7, <1>8 DEF Sound
<1>10. b \in Frame /\ b.fn = "block"
  BY DEF Frame, BlockFrame
<1> HIDE DEF b
<1>11. <<>> \in Seq(Frame) /\ Stacked(t, listFlags, tight, <<>>)
  BY DEF Stacked
<1>12. Stacked(t, listFlags, tight, fs)
  <2>1. On(t, listFlags, tight, b, <<>>)
    BY <1>10 DEF On
  <2> QED BY <1>10, <1>11, <2>1, StackPushed
<1>13. fs = calls
  BY <1>1
<1>14. calls[1] = b /\ Tail(calls) = <<>>
  BY <1>1
<1>15. Depth(calls) = 1
  <2>1. {k \in DOMAIN <<>> : <<>>[k].fn = "block"} = {}
    OBVIOUS
  <2>2. Depth(<<>>) = 0
    BY <2>1, FS_EmptySet DEF Depth
  <2>3. Depth(<<b>> \o <<>>) = Depth(<<>>) + 1
    BY <1>10, <1>11, DepthPushed
  <2> QED BY <1>13, <2>2, <2>3
<1>16. InPlace(t, tight, calls)
  <2>1. HomeOf(calls) = Doc
    BY <1>10, <1>14 DEF HomeOf
  <2>2. OpenAbove(t, Doc)
    <3>1. {Doc} \in SUBSET t.open /\ {Doc} \subseteq t.used /\ Closed(t.arena, {Doc})
      BY <1>2, <1>3, <1>6 DEF Closed
    <3> QED BY <3>1 DEF OpenAbove
  <2>3. Hangs(t, Doc, Doc, Closing)
    <3>1. {} \in SUBSET t.used /\ Doc \in {} \cup {Doc} /\ Doc \notin {}
          /\ \A m \in {} : t.type[m] \in Closing /\ t.arena[m].parent \in {} \cup {Doc}
      OBVIOUS
    <3> QED BY <3>1 DEF Hangs
  <2>4. Ready(t, Doc, Closing)
    BY <1>3, <1>9, <2>2, <2>3 DEF Ready
  <2> QED BY <1>10, <1>14, <2>1, <2>4 DEF InPlace, Above, TakenUp
<1>17. ItemsAgree(t, listFlags) /\ Finished(t, listFlags, tight, calls)
  BY <1>2, <1>3, <1>6 DEF ItemsAgree, Finished
<1>18. listFlags \in [Node -> SUBSET Flags] /\ tight \in SUBSET Node
  BY <1>1
<1>19. Holds(t, listFlags, tight, calls)
  BY <1>9, <1>12, <1>13, <1>16, <1>17, <1>18 DEF Holds
<1>20. nesting \in Nat /\ nesting <= MaxNesting
  BY <1>1, NestingAssumption
<1> QED BY <1>1, <1>15, <1>19, <1>20 DEF BlockInv, t

\* The blocks a step adds are added to the node the topmost handler was called for, to
\* each other or nowhere.
Lands == \A n \in used' \ used : arena'[n].parent \in (used' \ used) \cup {Home, None}

\* A step that takes the tree to s.
LEMMA StepTo ==
  ASSUME BlockInv, NEW s, Becomes(s), Holds(s, listFlags', tight', calls'),
         nesting' \in Nat, nesting' <= MaxNesting, nesting' = Depth(calls'),
         Grown(Here, s, HomeOf(calls))
  PROVE  BlockInv' /\ Lands
<1>1. s \in Trees
  BY DEF Holds, Sound
<1>2. Here' = s
  BY <1>1, BecomesWhole
<1>3. BlockInv'
  BY <1>2 DEF BlockInv
<1>4. s.used = used' /\ s.arena = arena' /\ Here.used = used
  BY DEF Becomes, Here
<1>5. HomeOf(calls) = Home
  BY DEF HomeOf, Home, Top, Below
<1>6. Lands
  BY <1>4, <1>5 DEF Lands, Grown, New
<1> QED BY <1>3, <1>6

\* Calls of block() are counted, and end at the limit.
LEMMA CallsCounted ==
  ASSUME BlockInv, NEW gs, CallBlock(gs), Depth(gs) = Depth(calls),
         Depth(<<[fn |-> "block"]>> \o gs) = Depth(calls) + 1
  PROVE  /\ calls' = gs \/ calls' = <<[fn |-> "block"]>> \o gs
         /\ nesting' \in Nat /\ nesting' <= MaxNesting /\ nesting' = Depth(calls')
<1>1. nesting \in Nat /\ nesting <= MaxNesting /\ nesting = Depth(calls) /\ MaxNesting \in Nat
  BY NestingAssumption DEF BlockInv
<1> DEFINE bs == <<[fn |-> "block"]>> \o gs
<1>2. Depth(bs) = nesting + 1 /\ Depth(gs) = nesting
  BY <1>1
<1>3. CASE nesting >= MaxNesting
  <2>1. calls' = gs /\ nesting' = nesting
    BY <1>3 DEF CallBlock
  <2> QED BY <1>1, <1>2, <2>1
<1>4. CASE ~(nesting >= MaxNesting)
  <2>1. calls' = bs /\ nesting' = nesting + 1
    BY <1>4 DEF CallBlock
  <2> HIDE DEF bs
  <2>2. nesting + 1 <= MaxNesting /\ nesting + 1 \in Nat
    BY <1>1, <1>4
  <2> QED BY <1>2, <2>1, <2>2 DEF bs
<1> QED BY <1>3, <1>4

\* Room for a block.
LEMMA RoomFor ==
  ASSUME BlockInv, NEW k \in Nat, k >= 1, Room(k)
  PROVE  Here.used # Node /\ Cardinality(Here.used) + k <= Cardinality(Node)
<1>1. Here.used = used /\ used \subseteq Node
  BY DEF BlockInv, Holds, Sound, Trees, Here
<1>2. Cardinality(used) \in Nat /\ Cardinality(Node) \in Nat
  BY <1>1, NodeAssumption, FS_Subset, FS_CardinalityType
<1>3. Cardinality(used) # Cardinality(Node)
  BY <1>2 DEF Room
<1> QED BY <1>1, <1>3 DEF Room

\* The invariant before a step of block().
LEMMA Before ==
  ASSUME BlockInv, NEW fn, Running(fn)
  PROVE  /\ Holds(Here, listFlags, tight, calls) /\ calls # <<>> /\ calls[1].fn = fn
         /\ nesting \in Nat /\ nesting <= MaxNesting /\ nesting = Depth(calls)
BY DEF BlockInv, Running, Top

\* Leaf blocks.
LEMMA LeafStep ==
  ASSUME BlockInv, NEW c \in Leaves, LeafBlock(c)
  PROVE  BlockInv' /\ Lands
<1>1. Running("block") /\ Room(1) /\ Becomes(AddChild(Here, c)) /\ UNCHANGED <<listFlags, tight, nesting, calls>>
  BY DEF LeafBlock
<1>2. /\ Holds(Here, listFlags, tight, calls) /\ calls # <<>> /\ calls[1].fn = "block"
      /\ nesting \in Nat /\ nesting <= MaxNesting /\ nesting = Depth(calls)
  BY <1>1, Before
<1>3. Here.used # Node
  BY <1>1, RoomFor
<1>4. c \in LeafTypes
  BY LeavesAssumption DEF LeafTypes
<1> DEFINE s == AddChild(Here, c)
<1>5. Holds(s, listFlags, tight, calls) /\ Grown(Here, s, HomeOf(calls))
  BY <1>2, <1>3, <1>4, LeafHolds
<1> HIDE DEF s
<1>6. Holds(s, listFlags', tight', calls') /\ nesting' = nesting /\ Depth(calls') = Depth(calls)
  BY <1>1, <1>5
<1>7. Becomes(s)
  BY <1>1 DEF s
<1> QED BY <1>2, <1>5, <1>6, <1>7, StepTo

\* Tables.
LEMMA TableStep ==
  ASSUME BlockInv, NEW cols \in 1..MaxColumns, NEW rows \in 0..MaxRows, Table(cols, rows)
  PROVE  BlockInv' /\ Lands
<1> DEFINE head == TableRow(AddChild(AddChild(Here, "Table"), "TableHead"), cols)
           s == Body(head, cols, rows)[rows]
<1>1. /\ Running("block") /\ Room(4 + cols + rows * (cols + 1)) /\ Becomes(s)
      /\ UNCHANGED <<listFlags, tight, nesting, calls>>
  BY DEF Table, Body
<1>2. /\ Holds(Here, listFlags, tight, calls) /\ calls # <<>> /\ calls[1].fn = "block"
      /\ nesting \in Nat /\ nesting <= MaxNesting /\ nesting = Depth(calls)
  BY <1>1, Before
<1>3. cols \in Nat \ {0} /\ rows \in Nat
  BY BoundsAssumption
<1>4. Cardinality(Here.used) + (4 + cols + rows * (cols + 1)) <= Cardinality(Node)
  <2>1. Here.used = used
    BY DEF Here
  <2> QED BY <1>1, <2>1 DEF Room
<1>5. Holds(s, listFlags, tight, calls) /\ Grown(Here, s, HomeOf(calls))
  BY <1>2, <1>3, <1>4, TableHolds
<1> HIDE DEF s
<1>6. Holds(s, listFlags', tight', calls') /\ nesting' = nesting /\ Depth(calls') = Depth(calls)
  BY <1>1, <1>5
<1> QED BY <1>1, <1>2, <1>5, <1>6, StepTo

\* A table that is none.
LEMMA NotATableStep ==
  ASSUME BlockInv, NotATable
  PROVE  BlockInv' /\ Lands
<1> DEFINE t == AddChild(Here, "Table")
           above == t.arena[t.tip].parent
           s == [t EXCEPT !.tip = IF above = None THEN Doc ELSE above, !.arena = Unlinked(@, t.tip)]
<1>1. Running("block") /\ Room(1) /\ Becomes(s) /\ UNCHANGED <<listFlags, tight, nesting, calls>>
  BY DEF NotATable
<1>2. /\ Holds(Here, listFlags, tight, calls) /\ calls # <<>> /\ calls[1].fn = "block"
      /\ nesting \in Nat /\ nesting <= MaxNesting /\ nesting = Depth(calls)
  BY <1>1, Before
<1>3. Here.used # Node
  BY <1>1, RoomFor
<1>5. Holds(s, listFlags, tight, calls) /\ Grown(Here, s, HomeOf(calls))
  BY <1>2, <1>3, NotATableHolds
<1> HIDE DEF s
<1>6. Holds(s, listFlags', tight', calls') /\ nesting' = nesting /\ Depth(calls') = Depth(calls)
  BY <1>1, <1>5
<1> QED BY <1>1, <1>2, <1>5, <1>6, StepTo

\* Quotes.
LEMMA QuoteStep ==
  ASSUME BlockInv, Quote
  PROVE  BlockInv' /\ Lands
<1> DEFINE s == AddChild(Here, "BlockQuote")
           gs == <<[fn |-> "quote", node |-> s.tip]>> \o calls
           bs == <<[fn |-> "block"]>> \o gs
<1>1. Running("block") /\ Room(1) /\ Becomes(s) /\ CallBlock(gs) /\ UNCHANGED <<listFlags, tight>>
  BY DEF Quote
<1>2. /\ Holds(Here, listFlags, tight, calls) /\ calls # <<>> /\ calls[1].fn = "block"
  BY <1>1, Before
<1>3. Here.used # Node
  BY <1>1, RoomFor
<1>4. /\ Grown(Here, s, HomeOf(calls)) /\ Holds(s, listFlags, tight, gs) /\ Holds(s, listFlags, tight, bs)
      /\ Depth(gs) = Depth(calls) /\ Depth(bs) = Depth(calls) + 1
  BY <1>2, <1>3, QuoteHolds
<1> HIDE DEF s, gs
<1>5. /\ calls' = gs \/ calls' = bs
      /\ nesting' \in Nat /\ nesting' <= MaxNesting /\ nesting' = Depth(calls')
  BY <1>1, <1>4, CallsCounted
<1>6. Holds(s, listFlags', tight', calls')
  BY <1>1, <1>4, <1>5
<1> QED BY <1>1, <1>4, <1>5, <1>6, StepTo

\* Lists.
LEMMA ListStep ==
  ASSUME BlockInv, NEW kind \in Kinds, List(kind)
  PROVE  BlockInv' /\ Lands
<1> DEFINE s == AddChild(Here, "List")
           flags == kind \cup {"BEGIN"}
           f == [fn |-> "list", node |-> s.tip, flags |-> flags, more |-> TRUE, begun |-> FALSE]
           gs == <<f>> \o calls
<1>1. /\ Running("block") /\ Room(1) /\ Becomes(s) /\ listFlags' = [listFlags EXCEPT ![s.tip] = flags]
      /\ tight' = tight \cup {s.tip} /\ calls' = gs /\ UNCHANGED nesting
  BY DEF List
<1>2. /\ Holds(Here, listFlags, tight, calls) /\ calls # <<>> /\ calls[1].fn = "block"
      /\ nesting \in Nat /\ nesting <= MaxNesting /\ nesting = Depth(calls)
  BY <1>1, Before
<1>3. Here.used # Node
  BY <1>1, RoomFor
<1>4. /\ Grown(Here, s, HomeOf(calls)) /\ Depth(gs) = Depth(calls)
      /\ Holds(s, [listFlags EXCEPT ![s.tip] = flags], tight \cup {s.tip}, gs)
  BY <1>2, <1>3, ListHolds
<1> HIDE DEF s, gs, flags
<1>5. Holds(s, listFlags', tight', calls')
  BY <1>1, <1>4
<1> QED BY <1>1, <1>2, <1>4, <1>5, StepTo

\* Two frames pushed are one pushed on the other.
LEMMA PushedTwice ==
  ASSUME NEW S, NEW f \in S, NEW g \in S, NEW fs \in Seq(S)
  PROVE  <<f, g>> \o fs = <<f>> \o (<<g>> \o fs)
<1> DEFINE x == <<f, g>> \o fs
           y == <<g>> \o fs
           z == <<f>> \o y
<1>1. Len(fs) \in Nat
  OBVIOUS
<1>2. y \in Seq(S) /\ Len(y) = Len(fs) + 1 /\ y[1] = g /\ \A i \in 1..Len(fs) : y[i + 1] = fs[i]
  BY Pushed
<1> HIDE DEF y
<1>3. z \in Seq(S) /\ Len(z) = Len(fs) + 2 /\ z[1] = f /\ \A i \in 1..Len(fs) + 1 : z[i + 1] = y[i]
  <2>1. z \in Seq(S) /\ Len(z) = Len(y) + 1 /\ z[1] = f /\ \A i \in 1..Len(y) : z[i + 1] = y[i]
    BY <1>2, Pushed
  <2> QED BY <1>1, <1>2, <2>1
<1> HIDE DEF z
<1>4. x \in Seq(S) /\ Len(x) = Len(fs) + 2 /\ x[1] = f /\ x[2] = g /\ \A i \in 3..Len(fs) + 2 : x[i] = fs[i - 2]
  OBVIOUS
<1> HIDE DEF x
<1>5. ASSUME NEW i \in 1..Len(fs) + 2  PROVE x[i] = z[i]
  <2>1. CASE i = 1
    BY <1>3, <1>4, <2>1
  <2>2. CASE i = 2
    <3>1. 1 \in 1..Len(fs) + 1 /\ 1 + 1 = 2
      BY <1>1
    <3> QED BY <1>2, <1>3, <1>4, <2>2, <3>1
  <2>3. CASE i \in 3..Len(fs) + 2
    <3>1. i - 1 \in 1..Len(fs) + 1 /\ (i - 1) + 1 = i /\ i - 2 \in 1..Len(fs) /\ (i - 2) + 1 = i - 1
      BY <1>1, <2>3
    <3> QED BY <1>2, <1>3, <1>4, <2>3, <3>1
  <2> QED BY <1>1, <2>1, <2>2, <2>3
<1>6. x = z
  BY <1>3, <1>4, <1>5, SeqEqual
<1> QED BY <1>6 DEF x, y, z

\* Items.
LEMMA ItemStep ==
  ASSUME BlockInv, NEW prefix, NEW found \in SUBSET {"BLOCK", "END"}, NEW sublist \in BOOLEAN,
         ListItem(prefix, found, sublist)
  PROVE  BlockInv' /\ Lands
<1> DEFINE t == Here
           flags == Prefixed(Top.flags, prefix) \cup found
           asBlock == "BLOCK" \in flags /\ "TERM" \notin flags
           s == AddChild(t, "Item")
           n == s.tip
           list == [calls[1] EXCEPT !.flags = flags, !.begun = TRUE]
           again == asBlock /\ sublist
           frame == [fn |-> "list_item", node |-> n, again |-> again]
           ls == <<list>> \o Tail(calls)
           gs == <<frame>> \o ls
           bs == <<[fn |-> "block"]>> \o gs
           lf == [m \in Node |-> IF m = n THEN flags ELSE listFlags[m]]
           u == IF asBlock THEN s ELSE AddChild(s, "Paragraph")
           fs == <<frame, list>> \o Below
<1>1. /\ Running("list") /\ Top.more /\ Room(IF asBlock THEN 1 ELSE 2) /\ Becomes(u)
      /\ listFlags' = lf /\ tight' = tight
      /\ IF asBlock \/ sublist THEN CallBlock(fs) ELSE calls' = fs /\ nesting' = nesting
  BY DEF ListItem, Top
<1>2. /\ Holds(t, listFlags, tight, calls) /\ calls # <<>> /\ calls[1].fn = "list"
      /\ nesting \in Nat /\ nesting <= MaxNesting /\ nesting = Depth(calls)
  BY <1>1, Before
<1>3. t.used # Node /\ (~asBlock => Cardinality(t.used) + 2 <= Cardinality(Node))
  <2>1. CASE asBlock
    BY <1>1, <2>1, RoomFor
  <2>2. CASE ~asBlock
    BY <1>1, <2>2, RoomFor
  <2> QED BY <2>1, <2>2
<1>4. calls[1] \in Frame /\ Tail(calls) \in Seq(Frame)
  BY <1>2, StackPopped DEF Holds
<1>5. /\ flags \in SUBSET Flags /\ calls[1].more
      /\ "BLOCK" \in calls[1].flags => "BLOCK" \in flags
      /\ "BEGIN" \in flags <=> "BEGIN" \in calls[1].flags
  <2>1. calls[1].flags \in SUBSET Flags
    BY <1>2, <1>4, Frames DEF ListFrame
  <2> QED BY <1>1, <2>1 DEF Prefixed, Flags, Top
<1>6. asBlock \in BOOLEAN /\ again \in BOOLEAN
  OBVIOUS
<1> HIDE DEF t, flags, asBlock
<1>7. /\ list \in Frame /\ list.fn = "list" /\ list.begun /\ list.node = calls[1].node
      /\ Changes(t, s, calls[1].node, "Item", n) /\ Grown(t, s, calls[1].node) /\ Ready(s, n, {})
      /\ lf \in [Node -> SUBSET Flags]
      /\ Stacked(s, lf, tight, ls) /\ ItemsAgree(s, lf) /\ Finished(s, lf, tight, ls)
      /\ Nodes(ls) = Nodes(calls) /\ Depth(ls) = Depth(calls)
  <2>1. ItemIn(t, listFlags, tight, calls, flags)
    BY <1>2, <1>3, <1>5, ItemAdded
  <2> QED BY <2>1 DEF ItemIn
<1> HIDE DEF s, list, lf, again
<1>8. ls # <<>> /\ ls[1] = list
  BY <1>4, <1>7, Pushed
<1>9. fs = gs
  <2>1. frame \in Frame
    <3>1. n \in Node
      BY <1>7 DEF Changes
    <3> HIDE DEF n
    <3> QED BY <1>6, <3>1 DEF Frame, ItemFrame
  <2> HIDE DEF frame
  <2>2. PICK f \in Frame, g \in Frame, rest \in Seq(Frame) : f = frame /\ g = list /\ rest = Tail(calls)
    BY <1>4, <1>7, <2>1
  <2>3. <<f, g>> \o rest = <<f>> \o (<<g>> \o rest)
    BY PushedTwice
  <2> QED BY <2>2, <2>3 DEF Below
<1> HIDE DEF fs, ls
<1>10. /\ n \notin Nodes(ls) /\ s.type[n] = "Item" /\ s.arena[n].parent = calls[1].node
       /\ n \notin t.used /\ n \in Node /\ Sound(s) /\ s.used = t.used \cup {n}
       /\ Cardinality(s.used) = Cardinality(t.used) + 1
  <2>1. Nodes(calls) \subseteq t.used
    BY <1>2, NodesUsed DEF Holds
  <2> QED BY <1>7, <2>1 DEF Changes
<1>11. /\ Grown(t, u, calls[1].node) /\ Stacked(u, lf, tight, ls) /\ ItemsAgree(u, lf) /\ Finished(u, lf, tight, ls)
       /\ u.arena[n].parent = calls[1].node /\ u.type[n] = "Item"
       /\ \E T : Ready(u, n, T) /\ T \subseteq Closing
  <2>1. CASE asBlock
    <3>1. {} \subseteq Closing
      OBVIOUS
    <3> QED BY <1>7, <1>10, <2>1, <3>1
  <2>2. CASE ~asBlock
    <3> DEFINE v == AddChild(s, "Paragraph")
    <3>1. s.used # Node
      <4>1. t.used \subseteq Node
        BY <1>2 DEF Holds, Sound, Trees
      <4>2. Cardinality(t.used) \in Nat /\ Cardinality(Node) \in Nat
        BY <4>1, NodeAssumption, FS_Subset, FS_CardinalityType
      <4>3. Cardinality(t.used) + 1 # Cardinality(Node)
        BY <1>3, <2>2, <4>2
      <4> QED BY <1>10, <4>3
    <3>2. /\ Adds(s, v, n, "Paragraph") /\ Changes(s, v, n, "Paragraph", v.tip) /\ Ready(v, n, {"Paragraph"})
          /\ Stacked(v, lf, tight, ls) /\ ItemsAgree(v, lf) /\ Finished(v, lf, tight, ls)
      BY <1>7, <1>10, <3>1, ItemText
    <3>3. v = u
      BY <2>2
    <3> HIDE DEF v, u
    <3>4. {"Paragraph"} \subseteq Closing
      BY DEF Closing, LeafTypes
    <3>5. n # v.tip /\ v.arena[n].parent = s.arena[n].parent /\ v.type[n] = "Item"
      BY <1>10, <3>2 DEF Changes
    <3>6. Grown(t, v, calls[1].node)
      <4>1. Sound(t) /\ calls[1].node \in t.used
        BY <1>2, <1>4, <1>7, NodesUsed, HomeHolds DEF Holds
      <4>2. n \in New(t, s) \cup {calls[1].node} /\ "Paragraph" \in NodeTypes
        BY <1>10 DEF New, NodeTypes, LeafTypes
      <4> QED BY <1>7, <1>10, <3>2, <4>1, <4>2, GrownMore
    <3> QED BY <1>10, <3>2, <3>3, <3>4, <3>5, <3>6
  <2> QED BY <2>1, <2>2
<1>12. PICK T : Ready(u, n, T) /\ T \subseteq Closing
  BY <1>11
<1> HIDE DEF u, n
<1>13. /\ Holds(u, lf, tight, gs) /\ Holds(u, lf, tight, bs)
       /\ Depth(gs) = Depth(calls) /\ Depth(bs) = Depth(calls) + 1
  <2>1. tight \in SUBSET Node
    BY <1>2 DEF Holds
  <2> QED BY <1>6, <1>7, <1>8, <1>10, <1>11, <1>12, <2>1, ItemHolds
<1> HIDE DEF frame, gs
<1>14. /\ calls' = gs \/ calls' = bs
       /\ nesting' \in Nat /\ nesting' <= MaxNesting /\ nesting' = Depth(calls')
  <2>1. CASE asBlock \/ sublist
    <3>1. CallBlock(gs)
      BY <1>1, <1>9, <2>1
    <3> QED BY <1>13, <3>1, CallsCounted
  <2>2. CASE ~(asBlock \/ sublist)
    BY <1>1, <1>2, <1>9, <1>13, <2>2
  <2> QED BY <2>1, <2>2
<1>15. Holds(u, listFlags', tight', calls')
  BY <1>1, <1>13, <1>14
<1>16. Grown(Here, u, HomeOf(calls))
  <2>1. HomeOf(calls) = calls[1].node
    BY <1>2 DEF HomeOf
  <2> QED BY <1>11, <2>1 DEF t
<1> QED BY <1>1, <1>14, <1>15, <1>16, StepTo

\* An item goes on, or the list takes up what it found.
LEMMA ItemReturnsStep ==
  ASSUME BlockInv, ListItemReturns
  PROVE  BlockInv' /\ Lands
<1> DEFINE t == Here
           gs == <<[Top EXCEPT !.again = FALSE]>> \o Below
           bs == <<[fn |-> "block"]>> \o gs
           ls == <<Continued(Below[1])>> \o Tail(Below)
<1>1. Running("list_item") /\ UNCHANGED <<treeState, listFlags>>
  BY DEF ListItemReturns
<1>2. /\ Holds(t, listFlags, tight, calls) /\ calls # <<>> /\ calls[1].fn = "list_item"
      /\ nesting \in Nat /\ nesting <= MaxNesting /\ nesting = Depth(calls)
  BY <1>1, Before
<1>3. Becomes(t) /\ Grown(t, t, HomeOf(calls))
  <2>1. Becomes(t)
    BY <1>1 DEF treeState, Becomes, Here
  <2> QED BY <2>1, GrownNot
<1>4. /\ Holds(t, listFlags', tight', calls')
      /\ nesting' \in Nat /\ nesting' <= MaxNesting /\ nesting' = Depth(calls')
  <2>1. CASE Top.again
    <3>1. CallBlock(gs) /\ tight' = tight /\ listFlags' = listFlags
      BY <1>1, <2>1 DEF ListItemReturns
    <3>2. /\ Holds(t, listFlags, tight, gs) /\ Holds(t, listFlags, tight, bs)
          /\ Depth(gs) = Depth(calls) /\ Depth(bs) = Depth(calls) + 1
      <4> HIDE DEF t
      <4> QED BY <1>2, ItemAgain DEF Top, Below
    <3> HIDE DEF t, gs
    <3>3. /\ calls' = gs \/ calls' = bs
          /\ nesting' \in Nat /\ nesting' <= MaxNesting /\ nesting' = Depth(calls')
      BY <3>1, <3>2, CallsCounted
    <3> QED BY <3>1, <3>2, <3>3
  <2>2. CASE ~Top.again
    <3>1. calls' = ls /\ tight' = Loosened(Below[1]) /\ nesting' = nesting /\ listFlags' = listFlags
      BY <1>1, <2>2 DEF ListItemReturns
    <3> DEFINE ti == Loosened(Below[1])
    <3>2. Holds(t, listFlags, ti, ls) /\ Depth(ls) = Depth(calls)
      <4>1. ti = IF "BLOCK" \in Tail(calls)[1].flags THEN tight \ {Tail(calls)[1].node} ELSE tight
        BY DEF Loosened, Below
      <4> HIDE DEF t, ti
      <4> QED BY <1>2, <4>1, ItemReturnHolds DEF Below
    <3> HIDE DEF t, ls, ti
    <3>3. Holds(t, listFlags', tight', calls')
      BY <3>1, <3>2 DEF ti
    <3> QED BY <1>2, <3>1, <3>2, <3>3
  <2> QED BY <2>1, <2>2
<1> HIDE DEF t
<1>5. Grown(Here, t, HomeOf(calls))
  BY <1>3 DEF t
<1> QED BY <1>3, <1>4, <1>5, StepTo

\* The end of a quote or a list.
LEMMA CloseStep ==
  ASSUME BlockInv, Running("quote") \/ Running("list"), Becomes(Finalize(Here, Top.node)), calls' = Below,
         UNCHANGED <<listFlags, tight, nesting>>
  PROVE  BlockInv' /\ Lands
<1> DEFINE s == Finalize(Here, calls[1].node)
<1>1. /\ Holds(Here, listFlags, tight, calls) /\ calls # <<>> /\ calls[1].fn \in {"quote", "list"}
      /\ nesting \in Nat /\ nesting <= MaxNesting /\ nesting = Depth(calls)
  BY Before
<1>2. Finished(Here, listFlags, tight, Tail(calls))
  BY <1>1, QuoteDone, ListDone
<1>3. /\ Holds(s, listFlags, tight, Tail(calls)) /\ Depth(Tail(calls)) = Depth(calls)
      /\ s.used = Here.used /\ s.arena = Here.arena /\ s.type = Here.type
  BY <1>1, <1>2, CloseHolds
<1>4. Becomes(s)
  BY DEF Top
<1> HIDE DEF s
<1>5. Grown(Here, s, HomeOf(calls))
  BY <1>3, GrownSame
<1>6. Holds(s, listFlags', tight', calls') /\ nesting' = nesting /\ Depth(calls') = Depth(calls)
  BY <1>3 DEF Below
<1> QED BY <1>1, <1>4, <1>5, <1>6, StepTo

\* The end of a quote.
LEMMA QuoteReturnsStep ==
  ASSUME BlockInv, QuoteReturns
  PROVE  BlockInv' /\ Lands
BY CloseStep DEF QuoteReturns

\* The end of a list: finalize_list does no more than finalize.
LEMMA ListReturnsStep ==
  ASSUME BlockInv, ListReturns
  PROVE  BlockInv' /\ Lands
<1>1. FinalizedList(Here, Top.node) = Finalize(Here, Top.node)
  BY DEF FinalizedList, Finalize
<1>2. /\ Running("list") /\ Becomes(FinalizedList(Here, Top.node)) /\ calls' = Below
      /\ UNCHANGED <<listFlags, tight, nesting>>
  BY DEF ListReturns
<1> QED BY <1>1, <1>2, CloseStep

\* block() returns.
LEMMA BlockReturnsStep ==
  ASSUME BlockInv, BlockReturns
  PROVE  BlockInv' /\ Lands
<1> DEFINE t == Here
<1>1. /\ Running("block") /\ Tail(calls) # <<>> /\ nesting' = nesting - 1 /\ calls' = Tail(calls)
      /\ UNCHANGED <<treeState, listFlags, tight>>
  BY DEF BlockReturns, Below
<1>2. /\ Holds(t, listFlags, tight, calls) /\ calls # <<>> /\ calls[1].fn = "block"
      /\ nesting \in Nat /\ nesting <= MaxNesting /\ nesting = Depth(calls) /\ MaxNesting \in Nat
  BY <1>1, Before, NestingAssumption
<1>3. Becomes(t) /\ Grown(Here, t, HomeOf(calls))
  <2>1. Becomes(t)
    BY <1>1 DEF treeState, Becomes, Here
  <2> QED BY <2>1, GrownNot
<1> HIDE DEF t
<1>4. /\ Holds(t, listFlags, tight, Tail(calls)) /\ Depth(calls) = Depth(Tail(calls)) + 1
      /\ Depth(Tail(calls)) \in Nat
  BY <1>1, <1>2, BlockReturnHolds
<1>5. nesting' \in Nat /\ nesting' <= MaxNesting /\ nesting' = Depth(Tail(calls))
  BY <1>1, <1>2, <1>4
<1>6. Holds(t, listFlags', tight', calls') /\ nesting' = Depth(calls')
  BY <1>1, <1>4, <1>5
<1> QED BY <1>3, <1>5, <1>6, StepTo

\* parse() closes what is open.
LEMMA ParseEndsStep ==
  ASSUME BlockInv, ParseEnds
  PROVE  BlockInv' /\ Lands
<1> DEFINE o == open \ ToSet(Ancestry(arena, tip))
           s == Moved(Here, Doc, o)
<1>1. /\ Running("block") /\ Tail(calls) = <<>> /\ open' = o /\ tip' = Doc /\ nesting' = nesting - 1
      /\ calls' = <<>> /\ UNCHANGED <<used, arena, type, listFlags, tight>>
  BY DEF ParseEnds, Below
<1>2. /\ Holds(Here, listFlags, tight, calls) /\ calls # <<>> /\ calls[1].fn = "block"
      /\ nesting = Depth(calls) /\ MaxNesting \in Nat
  BY <1>1, Before, NestingAssumption
<1>3. Here \in Trees /\ Doc \in Node
  BY <1>2 DEF Holds, Sound, Trees
<1>4. o \in SUBSET Node
  BY <1>3 DEF Here, Trees
<1> HIDE DEF o
<1>5. Holds(s, listFlags, tight, <<>>) /\ Depth(calls) = 1 /\ Depth(<<>>) = 0
  BY <1>1, <1>2, <1>4, ParseEndHolds
<1>6. s.used = used /\ s.arena = arena /\ s.type = type /\ s.tip = Doc /\ s.open = o
  BY <1>3, <1>4, MovedParts DEF Here
<1> HIDE DEF s
<1>7. Becomes(s)
  BY <1>1, <1>6 DEF Becomes
<1>8. Grown(Here, s, HomeOf(calls))
  BY <1>6, GrownSame DEF Here
<1>9. Holds(s, listFlags', tight', calls') /\ nesting' = Depth(calls') /\ nesting' = 0
  BY <1>1, <1>2, <1>5
<1>10. nesting' \in Nat /\ nesting' <= MaxNesting
  BY <1>2, <1>9
<1> QED BY <1>7, <1>8, <1>9, <1>10, StepTo

\* Every step keeps the invariant, and adds where it should.
LEMMA BlockStep ==
  ASSUME BlockInv, [BlockNext]_blockVars
  PROVE  BlockInv' /\ Lands
<1>1. CASE UNCHANGED blockVars
  <2>1. BlockInv'
    BY <1>1 DEF blockVars, BlockInv, Here
  <2>2. Lands
    BY <1>1 DEF blockVars, Lands
  <2> QED BY <2>1, <2>2
<1>2. ASSUME NEW c \in Leaves, LeafBlock(c)  PROVE BlockInv' /\ Lands
  BY <1>2, LeafStep
<1>3. ASSUME NEW cols \in 1..MaxColumns, NEW rows \in 0..MaxRows, Table(cols, rows)
      PROVE  BlockInv' /\ Lands
  BY <1>3, TableStep
<1>4. ASSUME NEW kind \in Kinds, List(kind)  PROVE BlockInv' /\ Lands
  BY <1>4, ListStep
<1>5. ASSUME NEW prefix \in {"marker", "dli", "none"}, NEW found \in SUBSET {"BLOCK", "END"},
             NEW sublist \in BOOLEAN, ListItem(prefix, found, sublist)
      PROVE  BlockInv' /\ Lands
  BY <1>5, ItemStep
<1>6. CASE NotATable
  BY <1>6, NotATableStep
<1>7. CASE Quote
  BY <1>7, QuoteStep
<1>8. CASE QuoteReturns
  BY <1>8, QuoteReturnsStep
<1>9. CASE ListItemReturns
  BY <1>9, ItemReturnsStep
<1>10. CASE ListReturns
  BY <1>10, ListReturnsStep
<1>11. CASE BlockReturns
  BY <1>11, BlockReturnsStep
<1>12. CASE ParseEnds
  BY <1>12, ParseEndsStep
<1> QED BY <1>1, <1>2, <1>3, <1>4, <1>5, <1>6, <1>7, <1>8, <1>9, <1>10, <1>11, <1>12 DEF BlockNext

-----------------------------------------------------------------------------
(***************************************************************************)
(* What the invariant says of the pass.                                    *)
(***************************************************************************)
\* BlockInv, of every state of the pass: the running handlers name a path of the tree,
\* and the insertion point is where the topmost left it.
THEOREM PassInPlace == BlockSpec => []BlockInv
<1>1. BlockInv /\ [BlockNext]_blockVars => BlockInv'
  BY BlockStep
<1> QED BY <1>1, BlockBegins, PTL DEF BlockSpec

\* ClimbEnds, for inputs of any length, nested to any depth: the climb of
\* add_existing_child never passes the document.
THEOREM ClimbNeverLost == BlockSpec => []ClimbEnds
<1>1. BlockInv => ClimbEnds
  BY NoneAssumption DEF BlockInv, Holds, Sound, Trees, Here, ClimbEnds
<1> QED BY <1>1, PassInPlace, PTL

\* OpenPath, for any limit on the nesting: the tip and every block above it are open
\* while the pass runs, and `nesting` counts the running calls of block().
THEOREM PathStaysOpen == BlockSpec => []OpenPath
<1>1. ASSUME BlockInv  PROVE OpenPath
  <2>1. nesting = Cardinality({k \in DOMAIN calls : calls[k].fn = "block"}) /\ nesting <= MaxNesting
    BY <1>1 DEF BlockInv, Depth
  <2>2. ASSUME calls # <<>>  PROVE ToSet(Ancestry(arena, tip)) \subseteq open
    <3> DEFINE path == Ancestry(arena, tip)
    <3>1. Sound(Here) /\ OpenAbove(Here, tip)
      BY <1>1, <2>2 DEF BlockInv, Holds, InPlace, Ready, Here
    <3>2. arena \in [Node -> Links] /\ Ends(Parents(arena)) /\ tip \in Node /\ open \in SUBSET Node
      BY <3>1 DEF Sound, Trees, Here
    <3>3. PICK S \in SUBSET open : tip \in S /\ Closed(arena, S)
      BY <3>1 DEF OpenAbove, Here
    <3>4. S \in SUBSET Node
      BY <3>2
    <3>5. \A i \in 1..Len(path) : path[i] \in S
      BY <3>2, <3>3, <3>4, PathInClosed
    <3>6. path \in Seq(Node)
      BY <3>2, PathFacts
    <3> HIDE DEF path
    <3>7. ToSet(path) \subseteq open
      BY <3>3, <3>5, <3>6 DEF ToSet
    <3> QED BY <3>7 DEF path
  <2> QED BY <2>1, <2>2 DEF OpenPath, Parsing
<1> QED BY <1>1, PassInPlace, PTL

\* ListsAgree, for lists of any length and nested in any way: the flags of the items
\* say where they stand, and a finished list is tight exactly when no item has a block.
THEOREM ListFlagsRight == BlockSpec => []ListsAgree
<1>1. BlockInv => ListsAgree
  BY DEF BlockInv, Holds, ItemsAgree, Finished, Here, ListsAgree
<1> QED BY <1>1, PassInPlace, PTL

\* The tree the pass builds: its links agree, no node is above itself, and every node is
\* a child of one that can contain it.
THEOREM TreeWellBuilt ==
  BlockSpec => [](/\ SiblingsAgree(arena) /\ EndsAgree(arena) /\ EndsTogether(arena)
                  /\ Forest(arena)
                  /\ \A n \in used : arena[n].parent # None =>
                       arena[n].parent \in used /\ CanContain(type[arena[n].parent], type[n]))
<1>1. ASSUME BlockInv
      PROVE  /\ SiblingsAgree(arena) /\ EndsAgree(arena) /\ EndsTogether(arena) /\ Forest(arena)
             /\ \A n \in used : arena[n].parent # None =>
                  arena[n].parent \in used /\ CanContain(type[arena[n].parent], type[n])
  <2>1. Sound(Here)
    BY <1>1 DEF BlockInv, Holds
  <2>2. /\ arena \in [Node -> Links] /\ Ends(Parents(arena)) /\ Agree(arena) /\ used \subseteq Node
        /\ \A n \in Node : arena[n].parent # None =>
             arena[n].parent \in used /\ CanContain(type[arena[n].parent], type[n])
    BY <2>1 DEF Sound, Trees, Here
  <2>3. Forest(arena)
    BY <2>2, AboveItself DEF Forest, NotUnder, Closed
  <2> QED BY <2>2, <2>3 DEF Agree
<1> QED BY <1>1, PassInPlace, PTL

\* NewNodesLandHome, for every step of the pass: a new block is added where the handler
\* that was called for adds, never to what an earlier sibling left behind.
THEOREM NewBlocksLandHome == BlockSpec => NewNodesLandHome
<1>1. BlockInv /\ [BlockNext]_blockVars => [Lands]_blockVars
  BY BlockStep
<1>2. [Lands]_blockVars => [\A n \in used' \ used :
                              arena'[n].parent \in (used' \ used) \cup {Home, None}]_blockVars
  BY DEF Lands
<1> QED BY <1>1, <1>2, PassInPlace, PTL DEF BlockSpec, NewNodesLandHome
=============================================================================
