---------------------------- MODULE BlockParser ----------------------------
(***************************************************************************)
(* The block pass of the parser (src/block.rs, and the insertion point of  *)
(* src/markdown.rs).  The pass is one recursive descent that shares a      *)
(* single mutable insertion point, `tip`: a handler adds a node wherever   *)
(* the tip, climbing over the blocks that cannot hold it, happens to be,   *)
(* and relies on every handler it calls to bring the tip back.             *)
(*                                                                         *)
(* The text is abstracted to the constructs found in it: block() may meet  *)
(* any of them, in any order, to any depth.  Handlers that call each other *)
(* are frames of an explicit stack, topmost first.                         *)
(***************************************************************************)
EXTENDS Arena, SequencesExt

CONSTANTS Constructs,   \* the constructs the input uses besides leaf blocks
          Leaves,       \* the leaf blocks the input uses; they differ in no step
          MaxNesting,   \* MAX_NESTING, 16 in the code
          MaxColumns,   \* bound: columns of a table
          MaxRows       \* bound: body rows of a table

ASSUME ConstructsAssumption == Constructs \subseteq {"quote", "list", "table"}
ASSUME LeavesAssumption == Leaves \subseteq
  {"Paragraph", "Heading", "CodeBlock", "HTMLBlock", "HorizontalRule"}
ASSUME NestingAssumption == MaxNesting \in Nat \ {0}
ASSUME BoundsAssumption == MaxColumns \in Nat /\ MaxRows \in Nat
\* The arena is a Vec, and holds the document.
ASSUME NodeAssumption == IsFiniteSet(Node) /\ Node # {}

VARIABLES type,      \* type[n]: the NodeType of an allocated node
          open,      \* the nodes whose `open` flag is set
          tip,       \* the insertion point; None once a climb never ends
          listFlags, \* listFlags[n]: list.list_flags
          tight,     \* the lists whose `tight` flag is set
          nesting,   \* the recursion counter
          calls      \* the frames of the handlers that are running

treeState == <<used, arena, type, open, tip>>
blockVars == <<used, arena, type, open, tip, listFlags, tight, nesting, calls>>

\* The ListType flags that steer the pass are DEFINITION and TERM, and BEGIN, BLOCK
\* and END for ITEM_BEGINNING_OF_LIST, ITEM_CONTAINS_BLOCK and ITEM_END_OF_LIST.
\* (ORDERED changes the rendering only.)
Kinds == {{}, {"DEFINITION"}}

\* NodeType::can_contain.
CanContain(p, c) ==
  \/ p = "List" /\ c = "Item"
  \/ p \in {"Document", "BlockQuote", "Item"} /\ c # "Item"
  \/ p = "Table" /\ c \in {"TableHead", "TableBody"}
  \/ p \in {"TableHead", "TableBody"} /\ c = "TableRow"
  \/ p = "TableRow" /\ c = "TableCell"

-----------------------------------------------------------------------------
(* The insertion point, on the value t of the tree state.                  *)

Here == [used |-> used, arena |-> arena, type |-> type, open |-> open, tip |-> tip]

Becomes(t) ==
  /\ used' = t.used /\ arena' = t.arena /\ type' = t.type
  /\ open' = t.open /\ tip' = t.tip

\* The document is the node `new` allocates first.
Doc == CHOOSE n \in Node : TRUE
Fresh(t) == CHOOSE n \in Node \ t.used : TRUE
Room(k) == Cardinality(used) + k <= Cardinality(Node)

\* Markdown::finalize.
Finalize(t, n) ==
  LET above == t.arena[n].parent IN
  [t EXCEPT !.open = @ \ {n}, !.tip = IF above = None THEN @ ELSE above]

\* n and its ancestors, nearest first.
Ancestry(a, n) == Followed([m \in Node |-> a[m].parent], n)

\* The climb of add_existing_child: the blocks that cannot hold a node of type
\* c are finalized, from the tip upwards.  When not even the root can hold it,
\* finalize leaves the tip where it is and the loop never ends.
Climb(t, c) ==
  LET path == Ancestry(t.arena, t.tip)
      able == {k \in DOMAIN path : CanContain(t.type[path[k]], c)}
  IN  IF able = {} THEN [t EXCEPT !.tip = None]
      ELSE [t EXCEPT !.tip = path[Min(able)],
                     !.open = @ \ {path[k] : k \in 1..(Min(able) - 1)}]

\* add_existing_child.
AddExistingChild(t, n) ==
  LET s == Climb(t, t.type[n]) IN
  IF s.tip = None THEN s
  ELSE [s EXCEPT !.arena = Appended(@, s.tip, n), !.tip = n]

\* add_child, and add_block, whose close_unmatched_blocks finds all_closed set.
AddChild(t, c) ==
  LET n == Fresh(t) IN
  IF t.tip = None THEN t
  ELSE AddExistingChild([t EXCEPT !.used = @ \cup {n}, !.type[n] = c,
                                  !.open = @ \cup {n}], n)

-----------------------------------------------------------------------------
(* The stack of handlers.                                                  *)

Top == calls[1]
Below == Tail(calls)
Running(fn) == tip # None /\ calls # <<>> /\ Top.fn = fn

\* A call of block() on top of the frames fs: at the depth limit it returns at
\* once, and its input is dropped.
CallBlock(fs) ==
  IF nesting >= MaxNesting
  THEN calls' = fs /\ UNCHANGED nesting
  ELSE calls' = <<[fn |-> "block"]>> \o fs /\ nesting' = nesting + 1

\* The nodes whose handlers are running, and the node the top frame adds to: that of
\* the handler that called block(), or the document.
Nodes(fs) == {fs[i].node : i \in {j \in DOMAIN fs : fs[j].fn # "block"}}
Home == IF Top.fn # "block" THEN Top.node
        ELSE IF Below = <<>> THEN Doc ELSE Below[1].node

-----------------------------------------------------------------------------
(* block() and the handlers it dispatches to.                              *)

BlockInit ==
  /\ used = {Doc}
  /\ arena = [n \in Node |-> NewLinks]
  /\ type = [n \in Node |-> "Document"]
  /\ open = {Doc} /\ tip = Doc
  /\ listFlags = [n \in Node |-> {}] /\ tight = {}
  /\ nesting = 1
  /\ calls = <<[fn |-> "block"]>>

\* A heading, paragraph, code block, HTML block or rule; an underlined heading
\* is a paragraph followed by a heading.
LeafBlock(c) ==
  /\ Running("block") /\ Room(1)
  /\ Becomes(AddChild(Here, c))
  /\ UNCHANGED <<listFlags, tight, nesting, calls>>

\* table_row: the cells are padded or cut to the header's columns.
TableRow(t, cols) ==
  LET after[i \in 0..cols] == IF i = 0 THEN AddChild(t, "TableRow")
                              ELSE AddChild(after[i - 1], "TableCell")
  IN  after[cols]

\* table(), where the header turns out to be one.
Table(cols, rows) ==
  LET head == TableRow(AddChild(AddChild(Here, "Table"), "TableHead"), cols)
      after[i \in 0..rows] == IF i = 0 THEN AddChild(head, "TableBody")
                              ELSE TableRow(after[i - 1], cols)
  IN  /\ Running("block") /\ Room(4 + cols + rows * (cols + 1))
      /\ Becomes(after[rows])
      /\ UNCHANGED <<listFlags, tight, nesting, calls>>

\* table(), where it is not: the node added up front is taken out again.
NotATable ==
  LET t == AddChild(Here, "Table")
      table == t.tip
      above == t.arena[table].parent
  IN  /\ Running("block") /\ Room(1)
      /\ Becomes([t EXCEPT !.tip = IF above = None THEN Doc ELSE above,
                           !.arena = Unlinked(@, table)])
      /\ UNCHANGED <<listFlags, tight, nesting, calls>>

\* quote(), up to its call of block().
Quote ==
  LET t == AddChild(Here, "BlockQuote") IN
  /\ Running("block") /\ Room(1)
  /\ Becomes(t)
  /\ CallBlock(<<[fn |-> "quote", node |-> t.tip]>> \o calls)
  /\ UNCHANGED <<listFlags, tight>>

\* Mutant: the quote is not finalized.
QuoteReturnsOpen ==
  /\ Running("quote")
  /\ calls' = Below
  /\ UNCHANGED <<treeState, listFlags, tight, nesting>>

\* quote(), from there on.
QuoteReturns ==
  /\ Running("quote")
  /\ Becomes(Finalize(Here, Top.node))
  /\ calls' = Below
  /\ UNCHANGED <<listFlags, tight, nesting>>

\* list(), up to its loop over the items.
List(kind) ==
  LET t == AddChild(Here, "List")
      flags == kind \cup {"BEGIN"}
  IN  /\ Running("block") /\ Room(1)
      /\ Becomes(t)
      /\ listFlags' = [listFlags EXCEPT ![t.tip] = flags]
      /\ tight' = tight \cup {t.tip}
      /\ calls' = <<[fn |-> "list", node |-> t.tip, flags |-> flags, more |-> TRUE,
                     begun |-> FALSE]>> \o calls
      /\ UNCHANGED nesting

\* What the prefix found at the start of an item does to the flags: a
\* definition clears TERM, and no prefix at all makes a term of a definition
\* list and no item of any other.  (uli_prefix and oli_prefix find a marker.)
Prefixed(flags, prefix) ==
  CASE prefix = "dli"  -> flags \ {"TERM"}
    [] prefix = "none" -> flags \cup {"TERM"}
    [] OTHER           -> flags

\* list_item(), up to its first call of block(): `found` are the flags set
\* while gathering the item's lines, `sublist` says that a nested list starts
\* in them.  An item without a block gets its text as a paragraph of its own.
ListItem(prefix, found, sublist) ==
  LET flags == Prefixed(Top.flags, prefix) \cup found
      asBlock == "BLOCK" \in flags /\ "TERM" \notin flags
      added == AddChild(Here, "Item")
      item == added.tip
      list == [Top EXCEPT !.flags = flags, !.begun = TRUE]
      frame == [fn |-> "list_item", node |-> item, again |-> asBlock /\ sublist]
      fs == <<frame, list>> \o Below
  IN  /\ Running("list") /\ Top.more
      /\ prefix = "none" => "DEFINITION" \in Top.flags
      /\ Room(IF asBlock THEN 1 ELSE 2)
      /\ Becomes(IF asBlock THEN added ELSE AddChild(added, "Paragraph"))
      /\ listFlags' = [n \in Node |-> IF n = item THEN flags ELSE listFlags[n]]
      /\ IF asBlock \/ sublist THEN CallBlock(fs)
         ELSE calls' = fs /\ UNCHANGED nesting
      /\ UNCHANGED tight

\* list() after an item: END ends the loop, and only the first item is one at
\* the beginning of the list.  BLOCK is never cleared.
Continued(list) ==
  LET more == "END" \notin list.flags IN
  [list EXCEPT !.more = more, !.flags = IF more THEN @ \ {"BEGIN"} ELSE @]

\* Mutant: the last item of a list does not loosen it.
LoosenedBeforeEnd(list) ==
  IF "BLOCK" \in list.flags /\ "END" \notin list.flags
  THEN tight \ {list.node} ELSE tight

\* list() after an item: a block in it makes the list loose.
Loosened(list) == IF "BLOCK" \in list.flags THEN tight \ {list.node} ELSE tight

\* list_item() after a block() call: the nested list is parsed by a second one.
\* Then list() takes up the flags the item left.
ListItemReturns ==
  /\ Running("list_item")
  /\ IF Top.again
     THEN CallBlock(<<[Top EXCEPT !.again = FALSE]>> \o Below) /\ UNCHANGED tight
     ELSE /\ tight' = Loosened(Below[1])
          /\ calls' = <<Continued(Below[1])>> \o Tail(Below)
          /\ UNCHANGED nesting
  /\ UNCHANGED <<treeState, listFlags>>

\* Mutant: the insertion point goes to the document.
FinalizedListToDoc(t, n) == [t EXCEPT !.open = @ \ {n}, !.tip = Doc]

\* Mutant: the insertion point stays in the closed list.
FinalizedListInside(t, n) == [t EXCEPT !.open = @ \ {n}]

\* The end of list(): finalize_list, and the insertion point above the list.
\* (ends_with_blank_line is constantly false, so finalize_list only closes.)
FinalizedList(t, n) ==
  LET above == t.arena[n].parent IN
  [t EXCEPT !.open = @ \ {n}, !.tip = IF above = None THEN @ ELSE above]

\* list(), once an item ended it, its input is used up, or what follows is no
\* item of it.  Its callers have seen the prefix of the first item.
ListReturns ==
  /\ Running("list") /\ Top.begun
  /\ Becomes(FinalizedList(Here, Top.node))
  /\ calls' = Below
  /\ UNCHANGED <<listFlags, tight, nesting>>

\* block() reaches the end of its input.
BlockReturns ==
  /\ Running("block") /\ Below # <<>>
  /\ nesting' = nesting - 1
  /\ calls' = Below
  /\ UNCHANGED <<treeState, listFlags, tight>>

\* parse(), after the call of block(): every block from the tip to the root is
\* closed.
ParseEnds ==
  /\ Running("block") /\ Below = <<>>
  /\ open' = open \ ToSet(Ancestry(arena, tip))
  /\ tip' = Doc
  /\ nesting' = nesting - 1
  /\ calls' = <<>>
  /\ UNCHANGED <<used, arena, type, listFlags, tight>>

BlockNext ==
  \/ \E c \in Leaves : LeafBlock(c)
  \/ "table" \in Constructs /\ \E cols \in 1..MaxColumns, rows \in 0..MaxRows :
                                Table(cols, rows)
  \/ "table" \in Constructs /\ NotATable
  \/ "quote" \in Constructs /\ Quote
  \/ QuoteReturns
  \/ "list" \in Constructs /\ \E kind \in Kinds : List(kind)
  \/ \E prefix \in {"marker", "dli", "none"}, found \in SUBSET {"BLOCK", "END"},
        sublist \in BOOLEAN : ListItem(prefix, found, sublist)
  \/ ListItemReturns \/ ListReturns
  \/ BlockReturns
  \/ ParseEnds

BlockSpec == BlockInit /\ [][BlockNext]_blockVars

-----------------------------------------------------------------------------
(* Properties.                                                             *)

Parsing == calls # <<>>

\* The climb of add_existing_child always ends at a block that can hold the new
\* one: no sequence of constructs brings it to the document and beyond, where
\* finalize has no parent to move to and the loop would never end
\* ("finalize is never called on it while parsing continues").
ClimbEnds == tip # None

\* Every block from the tip up to the document is still open, and nesting counts
\* the calls of block() that are running, also after one returned at the limit.
OpenPath ==
  /\ Parsing /\ tip # None => ToSet(Ancestry(arena, tip)) \subseteq open
  /\ nesting = Cardinality({k \in DOMAIN calls : calls[k].fn = "block"})
  /\ nesting <= MaxNesting

\* The flags that steer the loop over the items end up on the right ones: only
\* the first item of a list carries ITEM_BEGINNING_OF_LIST and none but the last
\* ITEM_END_OF_LIST, and a finished list is tight exactly when none of its items
\* contained a block.
ListsAgree ==
  /\ \A n \in used : type[n] = "Item" /\ arena[n].parent # None =>
       /\ "BEGIN" \in listFlags[n] <=> arena[n].prev = None
       /\ "END" \in listFlags[n] => arena[n].next = None
  /\ \A n \in used : type[n] = "List" /\ n \notin Nodes(calls) =>
       (n \in tight <=> \A i \in used : arena[i].parent = n => "BLOCK" \notin listFlags[i])

\* A new block becomes the child of the node its handler was called for, or of
\* a block made in the same step; never of one that an earlier sibling left
\* behind as the tip.
NewNodesLandHome ==
  [][\A n \in used' \ used :
       arena'[n].parent \in (used' \ used) \cup {Home, None}]_blockVars

=============================================================================
