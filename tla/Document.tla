------------------------------ MODULE Document ------------------------------
(***************************************************************************)
(* parse() of src/markdown.rs on a text: block() takes it apart, one       *)
(* construct at a time, and then the content of every paragraph, heading   *)
(* and cell is parsed by inline(), against the references that were found. *)
(*                                                                         *)
(* Of the blocks only what holds text is kept, in the order it is made;    *)
(* BlockParser has the tree.  What the code drops is a block too, "cut"    *)
(* (past the nesting limit) or "ignored" (cells past the last column, the  *)
(* id of a heading without text), and so is what a reference keeps.        *)
(***************************************************************************)
EXTENDS BlockText, Rewriting, HtmlTags

CONSTANT Documents  \* as Cases: what is parsed by block() first

ASSUME DocumentAssumption ==
  \A c \in Documents : c.ext \subseteq
    {"footnotes", "fenced_code", "tables", "definition_lists", "lax_html_blocks", "title_block",
     "heading_ids", "space_headings", "no_empty_line_before_block", "tab_size_eight"}

VARIABLES doc,     \* the input
          stack,   \* the calls of block and list under way, innermost last
          blocks,  \* what they made, contents as places in doc
          inlined, \* how many of the blocks parse's walk has passed
          skewed   \* history: a list has begun behind where its answer is counted from

dvars == <<doc, stack, blocks, inlined, skewed>>

\* A call of block, or of list, on the places d; used is what list will answer.
BlockCall(d, depth) == [fn |-> "block", data |-> d, depth |-> depth]
ListCall(d, depth, flags) ==
  [fn |-> "list", data |-> d, depth |-> depth, flags |-> flags, used |-> 0]

Text(d) == [k \in DOMAIN d |-> IF d[k] = 0 THEN "\n" ELSE doc[d[k]]]
At(d, places) == [k \in DOMAIN places |-> IF places[k] = 0 THEN 0 ELSE d[places[k]]]
Placed(d, made) == [j \in DOMAIN made |-> [made[j] EXCEPT !.content = At(d, @)]]

\* A text of its own, as parse_refs_to_ast gives inline a note's, or a document.
DocInit ==
  \/ /\ Init
     /\ doc = << >> /\ stack = << >> /\ blocks = << >> /\ inlined = 0 /\ skewed = FALSE
  \/ \E c \in Documents : \E t \in c.texts :
       /\ ext = c.ext /\ doc = t
       /\ stack = <<BlockCall(Run(1, Len(t)), 1)>>
       /\ blocks = << >> /\ inlined = 0 /\ skewed = FALSE
       /\ text = << >> /\ refs = << >> /\ nodes = << >> /\ frames = << >>

-----------------------------------------------------------------------------
(* block(), by what comes next in the text s.                              *)

Given(e, answer) == IF e \in ext THEN answer ELSE Refused

\* The leaf blocks, in the order they are tried before a quote is.
LeafAt(s) ==
  LET Tried(k, answers) == IF k > Len(answers) THEN Refused ELSE answers[k]
      First(answers) == Tried(Upto(answers, 1, LAMBDA a : a.used > 0), answers)
  IN First(<<IF is_prefix_heading(s) THEN prefix_heading(s) ELSE Refused,
             html(s),
             IF s[1] = "%" THEN Given("title_block", title_block(s)) ELSE Refused,
             Did(is_empty(s), << >>),
             IF code_prefix(s) > 0 THEN code(s) ELSE Refused,
             Given("fenced_code", fenced_code_block(s)),
             IF is_hrule(s) THEN hrule(s) ELSE Refused>>)

\* The heading a title block leaves although it declines.
Stray(s) == IF "title_block" \in ext /\ s[1] = "%" THEN title_block(s).made ELSE << >>

TableAt(s) == Given("tables", table(s))

ListAt(s) ==
  IF uli_prefix(s) > 0 THEN {} ELSE IF oli_prefix(s) > 0 THEN {"ORDERED"} ELSE {"DEFINITION"}
IsList(s) ==
  uli_prefix(s) > 0 \/ oli_prefix(s) > 0 \/ ("definition_lists" \in ext /\ dli_prefix(s) > 0)

Top == Last(stack)
Below == Front(stack)
Panics(made) == \E j \in DOMAIN made : made[j].kind = "panic"

\* The top call goes on behind what was used; a panic ends them all.
GoOn(f, used, made) ==
  /\ blocks' = blocks \o Placed(f.data, made)
  /\ stack' = IF Panics(made) THEN << >> ELSE Append(Below, [f EXCEPT !.data = From(@, used + 1)])

\* Calls of block on the texts raw, the first to run on top; at the limit the texts
\* vanish.
Calls(raw, depth) ==
  LET calls == [j \in DOMAIN raw |-> BlockCall(raw[Len(raw) + 1 - j], depth)]
  IN IF depth > MaxNesting THEN << >> ELSE SelectSeq(calls, LAMBDA c : c.data # << >>)
Cut(raw, depth) ==
  IF depth > MaxNesting THEN [j \in DOMAIN raw |-> Block("cut", raw[j])] ELSE << >>

\* The turns of block, each tried when those before it have declined.
LeafTurn(f, leaf) == leaf.used > 0 /\ GoOn(f, leaf.used, leaf.made)

QuoteTurn(f, s) ==
  /\ quote_prefix(s) > 0
  /\ \E q \in {quote(s)} : \E raw \in {<<At(f.data, q.raw)>>} :
       /\ stack' = Append(Below, [f EXCEPT !.data = From(@, q.used + 1)]) \o Calls(raw, f.depth + 1)
       /\ blocks' = blocks \o Cut(raw, f.depth + 1)

TableTurn(f, s, table_at) ==
  table_at.used > 0 /\ GoOn(f, table_at.used, Stray(s) \o table_at.made)

ListTurn(f, s) ==
  /\ IsList(s)
  /\ stack' = Append(stack, ListCall(f.data, f.depth, ListAt(s)))
  /\ UNCHANGED blocks

\* paragraph, which may hand the text from the line before over to list: it returns
\* what list answers, and block counts that from where the paragraph began.
ParagraphTurn(f, s) ==
  /\ ~IsList(s)
  /\ \E p \in {paragraph(s)} :
       \/ p.list = 0 /\ GoOn(f, p.used, Stray(s) \o p.made)
       \/ /\ p.list > 0
          /\ stack' = Append(stack, ListCall(From(f.data, p.list), f.depth, {"DEFINITION"}))
          /\ blocks' = blocks \o Stray(s)

BlockReturns == Top.data = << >> /\ stack' = Below /\ UNCHANGED blocks

BlockTurn ==
  /\ stack # << >> /\ Top.fn = "block"
  /\ \/ BlockReturns
     \/ /\ Top.data # << >>
        /\ \E f \in {Top} : \E s \in {Text(f.data)} : \E leaf \in {LeafAt(s)} :
             \/ LeafTurn(f, leaf)
             \/ leaf.used = 0 /\ QuoteTurn(f, s)
             \/ /\ leaf.used = 0 /\ quote_prefix(s) = 0
                /\ \E table_at \in {TableAt(s)} :
                     \/ TableTurn(f, s, table_at)
                     \/ table_at.used = 0 /\ (ListTurn(f, s) \/ ParagraphTurn(f, s))

-----------------------------------------------------------------------------
(* list().                                                                 *)

Item(f) == IF f.data = << >> \/ "END" \in f.flags THEN [used |-> 0]
           ELSE list_item(Text(f.data), f.flags)

\* An item with a block in it is parsed as blocks, and another is a paragraph,
\* followed by the nested list if there is one.
ItemTurn(f, item) ==
  LET asBlock == "BLOCK" \in item.flags /\ "TERM" \notin item.flags
      head == At(f.data, item.head)
      raw == IF asBlock THEN <<head, At(f.data, item.tail)>> ELSE <<At(f.data, item.tail)>>
      on == [f EXCEPT !.data = From(@, item.used + 1), !.used = @ + item.used, !.flags = item.flags]
  IN /\ item.used > 0 /\ ~item.beyond
     /\ blocks' = blocks \o (IF asBlock THEN << >> ELSE <<Block("Paragraph", head)>>)
                    \o Cut(raw, f.depth + 1)
     /\ stack' = Append(Below, on) \o Calls(raw, f.depth + 1)

ItemPanics(f, item) ==
  /\ item.used > 0 /\ item.beyond
  /\ blocks' = Append(blocks, Block("panic", << >>))
  /\ stack' = << >>

\* Whoever called it, block's data is shorter by what list answers.
ListReturns(f, item) ==
  /\ item.used = 0
  /\ stack' = Append(Front(Below), [Last(Below) EXCEPT !.data = From(@, f.used + 1)])
  /\ UNCHANGED blocks

ListTurns ==
  /\ stack # << >> /\ Top.fn = "list"
  /\ \E f \in {Top} : \E item \in {Item(f)} :
       ItemTurn(f, item) \/ ItemPanics(f, item) \/ ListReturns(f, item)

-----------------------------------------------------------------------------
(***************************************************************************)
(* The walk over the document, which starts when every call has returned.  *)
(***************************************************************************)

\* p.refs: the last definition of an id, that of a note having the id for a link.
RefsFound ==
  LET name(j) == Text(blocks[j].content)
      \* j + 1 is what the definition of the id at j is of
      address(j) == Text(blocks[IF blocks[j + 1].kind = "note" THEN j ELSE j + 1].content)
      Newest(S, id) == Max({j \in S : name(j) = id})
      Defined(S) == [id \in {name(j) : j \in S} |-> [link |-> address(Newest(S, id)), text |-> << >>]]
  IN Defined({j \in DOMAIN blocks : blocks[j].kind = "id of reference"})

HasText(b) == b.kind \in {"Paragraph", "Heading", "TableCell"} /\ b.content # << >>

InlineNext ==
  /\ stack = << >> /\ frames = << >> /\ ~Panics(blocks)
  /\ \E j \in inlined + 1..Len(blocks) :
       /\ HasText(blocks[j]) /\ \A k \in inlined + 1..j - 1 : ~HasText(blocks[k])
       /\ inlined' = j
       /\ text' = Text(blocks[j].content)
       /\ frames' = <<Call(Places(1, Len(blocks[j].content)), FALSE)>>
  /\ refs' = RefsFound /\ nodes' = << >>
  /\ UNCHANGED <<ext, doc, stack, blocks, skewed>>

\* Between a call of block and the list over it: how far behind block's text list began.
Skew(under, list) == Len(under.data) - (list.used + Len(list.data))

ListOnTop(calls) == Len(calls) > 1 /\ Last(calls).fn = "list" /\ Last(Front(calls)).fn = "block"

DocNext ==
  \/ /\ BlockTurn \/ ListTurns
     /\ skewed' = (skewed \/ (ListOnTop(stack') /\ Skew(Last(Front(stack')), Last(stack')) > 0))
     /\ UNCHANGED <<ivars, doc, inlined>>
  \/ InlineNext
  \/ Turn /\ UNCHANGED dvars

DocSpec == DocInit /\ [][DocNext]_<<ivars, dvars>>

-----------------------------------------------------------------------------
(* Properties.                                                             *)

\* Every letter of the document is in one block, and the blocks have them in the
\* document's order, whatever the handlers look ahead at or shift to the left, unless
\* paragraph has handed a term from behind its first line over to list: then block
\* counts list's answer from the wrong line, and text is lost or parsed again.
\* Besides text that holds for what is dropped on purpose; the title that is kept
\* unclosed, which stays in the text, is left out.  And no paragraph is all blanks,
\* which render_paragraph would run past the end of.
LinesOnce ==
  LET held == SelectSeq(blocks, LAMBDA b : b.kind # "unclosed title")
      places == FlattenSeq([j \in DOMAIN held |-> held[j].content])
      letter(k) == k # 0 /\ is_letter(doc[k])
  IN stack = << >> /\ ~Panics(blocks)
       => /\ skewed \/ SelectSeq(places, letter) = SelectSeq(Run(1, Len(doc)), letter)
          /\ \A j \in DOMAIN blocks : blocks[j].kind # "blank"

\* Every row has the columns of its table's header, however its line is divided.
ColumnsAgree ==
  LET cells(j) == {m \in DOMAIN blocks :
                     /\ m > j /\ blocks[m].kind = "TableCell"
                     /\ \A l \in j + 1..m : blocks[l].kind \in {"TableCell", "ignored"}}
      head(j) == Max({h \in 1..j : blocks[h].kind = "TableHead"}) + 1
  IN \A j \in DOMAIN blocks : blocks[j].kind = "TableRow" =>
       Cardinality(cells(j)) = Cardinality(cells(head(j)))

\* Parsing a document does not panic.  list_item, so its documentation says, panics
\* "On empty input", which list never gives it.
NeverPanics == ~Panics(blocks)

\* block comes to an end: a turn uses up some of the top call's text, and what it
\* calls block on is shorter than the text was; and when list returns, there is
\* less left than before it was called.  The exception is the list that paragraph calls
\* from behind its first line: it may answer 0, and paragraph is then called with
\* the same text for ever, as on "a\n\t+ \n: " (BUGS.md, section 5).
BlocksAdvance ==
  [][stack # << >> =>
     LET n == Len(stack)  before == Len(Top.data) IN
     \/ stack' = << >> \/ stack' = Below
     \/ /\ Len(stack') >= n /\ SubSeq(stack', 1, n - 1) = Below
        /\ \/ Len(stack'[n].data) < before
           \/ Top.fn = "block" /\ stack'[n] = Top /\ Len(stack') = n + 1 /\ Last(stack').fn = "list"
        /\ \A m \in n + 1..Len(stack') :
             \/ stack'[m].fn = "list" /\ Len(stack'[m].data) <= before
             \/ Len(stack'[m].data) < before
     \/ /\ Top.fn = "list" /\ Len(stack') = n - 1 /\ SubSeq(stack', 1, n - 2) = Front(Below)
        /\ \/ Len(Last(stack').data) < Len(Last(Below).data)
           \/ Skew(Last(Below), Top) > 0 /\ Last(stack').data = Last(Below).data]_stack


\* The matchers find a tag where the pattern they stand for does, and end it where
\* its first match ends; and is_html_tag's scan, which tells quotes apart in another
\* way, finds that tag by its name, and its end if it has one kind of quote at most.
\* The program uses the matchers only where tags are disabled, and is_html_tag nowhere.
TagsAsDeclared ==
  LET NameAt(first) == [k \in 1..tag_name_len(text, first) |-> simple_to_lower(text[first + k - 1])]
      Matched(n, ends) == n = IF ends = {} THEN 0 ELSE Min(ends) - 1
      Found(n, at) ==
        n > 0 => /\ at > 0
                 /\ Cardinality(ToSet(SubSeq(text, 1, n)) \cap {"\"", "'"}) <= 1 => at = n
      Scanned(n, name) == Found(n, find_html_tag_pos(text, name))
  IN Unparsed /\ text[1] = "<" =>
       /\ Matched(html_tag_prefix_len(text), Ends(HtmlTag, text, {1}))
       /\ Scanned(Max({open_tag_len(text), close_tag_len(text)}),
                  NameAt(IF text[2] = "/" THEN 3 ELSE 2))

=============================================================================
