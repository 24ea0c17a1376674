------------------------------ MODULE TreeWalk ------------------------------
(***************************************************************************)
(* Walker of src/node.rs over the arena, and the two visitors it has in    *)
(* src/markdown.rs: the pass of parse, which turns the raw content of each *)
(* block into inline children of the node it is standing on, so that the   *)
(* tree grows under the walk; and the renderer's, which changes nothing    *)
(* but may answer SkipChildren.                                            *)
(*                                                                         *)
(* A node is a container block, a block with content, a span, or a leaf;   *)
(* leaves are what Node::is_container denies.                              *)
(***************************************************************************)
EXTENDS Arena

CONSTANT MaxBlocks   \* blocks of the document: bounds the run

ASSUME WalkAssumption == MaxBlocks \in Nat \ {0} /\ Node # {}

VARIABLES
  kind,            \* kind[n]: "block", "content", "span" or "leaf"
  content,         \* the nodes whose raw content has not been taken
  phase,           \* "blocks", "inlines", "parsed", "render" or "ended"
  root,            \* where the walk started
  current,         \* Walker::current
  entering,        \* Walker::entering
  entered, left,   \* [n]: visits made since the walk began (history)
  skipped,         \* nodes the visitor answered SkipChildren on (history)
  inlined          \* [n]: calls of `inline` that had content (history)

tree == <<used, arena, kind>>
history == <<entered, left, skipped, inlined>>
wvars == <<tree, content, phase, root, current, entering, history>>

IsContainer(n) == kind[n] # "leaf"
Unvisited == [n \in Node |-> 0]
FreshId(taken) == CHOOSE n \in Node : n \notin taken

WInit ==
  LET doc == FreshId({}) IN
  /\ used = {doc} /\ arena = [n \in Node |-> NewLinks]
  /\ kind = [n \in Node |-> IF n = doc THEN "block" ELSE "leaf"]
  /\ content = {}
  /\ phase = "blocks"
  /\ root = doc /\ current = None /\ entering = TRUE
  /\ entered = Unvisited /\ left = Unvisited
  /\ skipped = {} /\ inlined = Unvisited

-----------------------------------------------------------------------------
\* The block parser leaves any tree of blocks behind.
AddBlock(p, k) ==
  /\ phase = "blocks"
  /\ Cardinality(used) <= MaxBlocks /\ used # Node
  /\ p \in used /\ kind[p] = "block"
  /\ LET n == FreshId(used) IN
     /\ used' = used \cup {n}
     /\ arena' = Appended(arena, p, n)
     /\ kind' = [kind EXCEPT ![n] = k]
     /\ content' = IF k = "content" THEN content \cup {n} ELSE content
  /\ UNCHANGED <<phase, root, current, entering, history>>

\* Walker::new, for parse's pass or for the renderer.
Walk(from, p) ==
  /\ phase' = p /\ root' = from /\ current' = from /\ entering' = TRUE
  /\ entered' = Unvisited /\ left' = Unvisited /\ skipped' = {}
  /\ UNCHANGED <<tree, content, inlined>>

\* parse starts at the document; from any node the walk is over what is below it.
\* The pass of parse_refs_to_ast over the list of notes is another: it goes the same
\* way but has no arm for a cell, and leaves a cell's content where it is.
StartInlines(from) == phase = "blocks" /\ from \in used /\ Walk(from, "inlines")
StartRender == phase = "parsed" /\ Walk(root, "render")

-----------------------------------------------------------------------------
\* Mutant: the walk comes back up into the parent as if for the first time.
SteppedAgain(a, n, enter) ==
  IF (~IsContainer(n) \/ ~enter) /\ n = root THEN <<None, enter>>
  ELSE IF enter /\ IsContainer(n)
       THEN IF a[n].first # None THEN <<a[n].first, TRUE>> ELSE <<n, FALSE>>
       ELSE IF a[n].next = None THEN <<a[n].parent, TRUE>> ELSE <<a[n].next, TRUE>>

\* Mutant: a leaf is left as well.
SteppedLeaf(a, n, enter) ==
  IF ~enter /\ n = root THEN <<None, enter>>
  ELSE IF enter
       THEN IF a[n].first # None THEN <<a[n].first, TRUE>> ELSE <<n, FALSE>>
       ELSE IF a[n].next = None THEN <<a[n].parent, FALSE>> ELSE <<a[n].next, TRUE>>

\* Walker::step, to a position: on the links a, from node n.
Stepped(a, n, enter) ==
  LET container == IsContainer(n) IN
  IF (~container \/ ~enter) /\ n = root THEN <<None, enter>>
  ELSE IF enter /\ container
       THEN IF a[n].first # None THEN <<a[n].first, TRUE>> ELSE <<n, FALSE>>
       ELSE IF a[n].next = None THEN <<a[n].parent, FALSE>> ELSE <<a[n].next, TRUE>>

\* Walker::advance, but for Terminate, which no visitor of the program answers.
Advance(a, status) ==
  LET s == Stepped(a, current, entering /\ status # "skip") IN
  /\ current' = s[1] /\ entering' = s[2]
  /\ phase' = IF s[1] # None THEN phase
              ELSE IF phase = "inlines" THEN "parsed" ELSE "ended"

\* The history counts to two: once, and once too often.
Bumped(count) == [count EXCEPT ![current] = IF @ < 2 THEN @ + 1 ELSE @]
Visited ==
  /\ entered' = IF entering THEN Bumped(entered) ELSE entered
  /\ left' = IF entering THEN left ELSE Bumped(left)

\* What `inline` makes of a content: nothing, a text, two, or a span of one.
Inlines == {"none", "text", "texts", "span"}

Grown(what) ==
  LET x == FreshId(used)  y == FreshId(used \cup {x}) IN
  CASE what = "none"  -> [ids |-> {}, a |-> arena, spans |-> {}]
    [] what = "text"  -> [ids |-> {x}, a |-> Appended(arena, current, x), spans |-> {}]
    [] what = "texts" -> [ids |-> {x, y}, spans |-> {},
                          a |-> Appended(Appended(arena, current, x), current, y)]
    [] what = "span"  -> [ids |-> {x, y}, spans |-> {x},
                          a |-> Appended(Appended(arena, current, x), x, y)]
Room(what) == CASE what = "none" -> 0 [] what = "text" -> 1 [] OTHER -> 2

\* Mutant: the content stays where it was.
InlineLeaving(what) ==
  /\ phase = "inlines" /\ current \in content
  /\ Cardinality(Node \ used) >= Room(what)
  /\ LET g == Grown(what) IN
     /\ used' = used \cup g.ids
     /\ arena' = g.a
     /\ kind' = [n \in Node |-> IF n \in g.spans THEN "span" ELSE kind[n]]
     /\ Advance(g.a, "next")
  /\ inlined' = Bumped(inlined)
  /\ Visited
  /\ UNCHANGED <<content, root, skipped>>

\* parse's pass at a paragraph, heading or cell with content: mem::take, then
\* `inline`, then the walker advances over the tree as it is by then.
Inline(what) ==
  /\ phase = "inlines" /\ current \in content
  /\ Cardinality(Node \ used) >= Room(what)
  /\ LET g == Grown(what) IN
     /\ used' = used \cup g.ids
     /\ arena' = g.a
     /\ kind' = [n \in Node |-> IF n \in g.spans THEN "span" ELSE kind[n]]
     /\ Advance(g.a, "next")
  /\ content' = content \ {current}
  /\ inlined' = Bumped(inlined)
  /\ Visited
  /\ UNCHANGED <<root, skipped>>

\* At any other node, and at one whose content was taken before, in which case
\* `inline` returns at once.
PassBy ==
  /\ phase = "inlines" /\ current # None /\ current \notin content
  /\ Advance(arena, "next")
  /\ Visited
  /\ UNCHANGED <<tree, content, root, skipped, inlined>>

\* render_node on one visit; SkipChildren is for the node it is entering.
RenderVisit(status) ==
  /\ phase = "render" /\ current # None
  /\ status = "skip" => entering
  /\ Advance(arena, status)
  /\ Visited
  /\ skipped' = IF status = "skip" THEN skipped \cup {current} ELSE skipped
  /\ UNCHANGED <<tree, content, root, inlined>>

WNext ==
  \/ \E p \in used, k \in {"block", "content", "leaf"} : AddBlock(p, k)
  \/ \E from \in used : StartInlines(from)
  \/ StartRender
  \/ \E what \in Inlines : Inline(what)
  \/ PassBy
  \/ \E status \in {"next", "skip"} : RenderVisit(status)

\* Once begun a walk is a loop of straight code.
WSpec == /\ WInit /\ [][WNext]_wvars
         /\ WF_wvars(PassBy \/ \E what \in Inlines : Inline(what))
         /\ WF_wvars(\E status \in {"next", "skip"} : RenderVisit(status))

-----------------------------------------------------------------------------
Below == {n \in used : ~NotUnder(arena, n, root)}

\* A finished walk has entered every node below its root once, those that
\* appeared while it went on included, except under a node it was told to
\* skip, and has left every other container once; it has seen no other node.
VisitedOnce ==
  phase \in {"parsed", "ended"} =>
    \A n \in Node :
      LET hidden == \E s \in skipped : n # s /\ ~NotUnder(arena, n, s) IN
      /\ entered[n] = IF n \in Below /\ ~hidden THEN 1 ELSE 0
      /\ left[n] = IF entered[n] = 1 /\ IsContainer(n) /\ n \notin skipped THEN 1 ELSE 0

\* Each block's content becomes inline nodes exactly once, although the pass
\* makes no difference between entering and leaving a node and stands twice
\* on every block.
ContentInlinedOnce ==
  /\ \A n \in Node : inlined[n] <= 1
  /\ phase = "parsed" => content \cap Below = {}

\* A walk ends, whatever is added to the tree while it goes on.
WalksEnd == (current # None) ~> (current = None)
=============================================================================
