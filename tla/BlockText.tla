----------------------------- MODULE BlockText -----------------------------
(***************************************************************************)
(* What the handlers of src/block.rs, and is_reference of src/markdown.rs, *)
(* make of the text: how far each construct goes and which of its          *)
(* characters end up in which block.  BlockParser has the nodes and flags  *)
(* of the same handlers and no text.                                       *)
(*                                                                         *)
(* A handler is a function of the text s left to parse.  Contents are the  *)
(* places in s they are copied from, 0 for a newline that is put in; a     *)
(* length of 0 is the handler declining.                                   *)
(***************************************************************************)
EXTENDS Inline

Run(a, b) == [k \in 1..(b - a + 1) |-> a + k - 1]
Least(S, none) == IF S = {} THEN none ELSE Min(S)

IsBlank(c) == c = " "
IsNewline(c) == c = "\n"

\* Places of s in their order.
InOrder(s, S) == SelectSeq(Run(1, Len(s)), LAMBDA k : k \in S)

\* The last place up to b whose character does not satisfy P, 0 if none.
Back(s, b, P(_)) == Max({0} \cup {k \in 1..b : ~P(s[k])})

\* The places from a to b less what satisfies P at both ends.
Trimmed(s, a, b, P(_)) ==
  LET kept == {k \in a..b : ~P(s[k])} IN IF kept = {} THEN << >> ELSE Run(Min(kept), Max(kept))

trim_space(s, a, b) == Trimmed(s, a, b, is_space)

\* Where the line after the one at i starts, past the end after the last.
NextLine(s, i) ==
  LET After(e) == IF e > Len(s) THEN e ELSE e + 1 IN After(Upto(s, i, IsNewline))
LineStarts(s, i) == {k \in i..Len(s) : k = i \/ s[k - 1] = "\n"}
Line(s, i) == SubSeq(s, i, NextLine(s, i) - 1)

Indent(s, most) ==
  LET Capped(n) == IF n > most THEN most ELSE n IN Capped(Past(s, 1, IsBlank) - 1)

-----------------------------------------------------------------------------
(* Lines.                                                                  *)

is_empty(s) ==
  LET At(k) == IF k > Len(s) THEN Len(s) ELSE IF s[k] = "\n" THEN k ELSE 0
  IN IF s = << >> THEN 0 ELSE At(Past(s, 1, is_horizontal_space))

is_hrule(s) ==
  LET Marked(line, c) ==
        /\ line # << >> /\ c \in {"*", "-", "_"}
        /\ \A k \in DOMAIN line : line[k] \in {c, " "}
        /\ Cardinality({k \in DOMAIN line : line[k] = c}) >= 3
      At(i) == i <= Len(s) /\ Marked(SubSeq(s, i, Upto(s, i, IsNewline) - 1), s[i])
  IN At(Indent(s, 3) + 1)

is_underlined_heading(s) ==
  LET At(k) == k <= Len(s) /\ s[k] = "\n"
  IN s[1] \in {"=", "-"} /\ At(Past(s, Past(s, 1, LAMBDA c : c = s[1]), IsBlank))

uli_prefix(s) ==
  LET At(i) == IF i < Len(s) /\ s[i] \in {"*", "+", "-"} /\ is_horizontal_space(s[i + 1])
                 THEN i + 1 ELSE 0
  IN At(Indent(s, 3) + 1)

oli_prefix(s) ==
  LET Dotted(i, k) == IF k > i /\ k < Len(s) /\ s[k] = "." /\ is_horizontal_space(s[k + 1])
                        THEN k + 1 ELSE 0
      At(i) == Dotted(i, Past(s, i, LAMBDA c : c \in Digits))
  IN At(Indent(s, 3) + 1)

dli_prefix(s) ==
  IF Len(s) > 1 /\ s[1] = ":" /\ is_horizontal_space(s[2]) THEN 2 ELSE 0

list_type_changed(s, flags) ==
  \/ dli_prefix(s) > 0 /\ "DEFINITION" \notin flags
  \/ oli_prefix(s) > 0 /\ "ORDERED" \notin flags
  \/ uli_prefix(s) > 0 /\ flags \cap {"ORDERED", "DEFINITION"} # {}

code_prefix(s) ==
  IF StartsWith(s, <<"\t">>) THEN 1 ELSE IF Indent(s, 4) = 4 THEN 4 ELSE 0

quote_prefix(s) ==
  LET At(i) == IF i > Len(s) \/ s[i] # ">" THEN 0
               ELSE IF StartsAt(s, i + 1, <<" ">>) THEN i + 1 ELSE i
  IN At(Indent(s, 3) + 1)

is_prefix_heading(s) ==
  LET level == Past(s, 1, LAMBDA c : c = "#") - 1
  IN /\ s[1] = "#"
     /\ "space_headings" \in ext => level <= 6 /\ StartsAt(s, level + 1, <<" ">>)

-----------------------------------------------------------------------------
(***************************************************************************)
(* Leaf blocks: how much is used, and the blocks made of it.               *)
(***************************************************************************)
Block(kind, content) == [kind |-> kind, content |-> content]
Did(used, made) == [used |-> used, made |-> made]
Refused == Did(0, << >>)

\* The heading whose text goes from i to end less the hashes and blanks behind it;
\* id is the block of its id, if it has one.
Heading(s, i, end, id) ==
  LET Text(content) == IF content = << >> THEN [k \in DOMAIN id |-> Block("ignored", id[k].content)]
                       ELSE <<Block("Heading", content)>> \o id
      Bare(last) == Text(Run(i, Back(s, last, IsBlank)))
  IN Bare(Max({0} \cup {m \in 1..end : s[m] # "#" \/ is_backslash_escaped(s, m)}))

\* The text of a heading ends before its closing hashes, and before {#id}, which
\* is all that is used of the line.
prefix_heading(s) ==
  LET Closed(i, eol, j, k) ==
        IF "heading_ids" \in ext /\ k < eol
          THEN Did(k, Heading(s, i, Back(s, j - 1, IsBlank), <<Block("id", Run(j + 2, k - 1))>>))
          ELSE Did(eol - 1, Heading(s, i, eol - 1, << >>))
      Open(i, eol, j) == Closed(i, eol, j, Least({m \in j + 1..eol - 1 : s[m] = "}"}, eol))
      Text(i, eol) == Open(i, eol, Least({k \in i..eol - 2 : s[k] = "{" /\ s[k + 1] = "#"}, eol))
      Begun(i) == Text(i, Upto(s, i, IsNewline))
      Level(run) == Begun(Past(s, IF run > 7 THEN 7 ELSE run, IsBlank))
  IN Level(Past(s, 1, LAMBDA c : c = "#"))

\* title_block: without a line that has no % there is no title; block() then adds
\* an empty heading and goes on.
title_block(s) ==
  LET starts == LineStarts(s, 1) \cup (IF s[Len(s)] = "\n" THEN {Len(s) + 1} ELSE {})
      end == Least({k \in starts : k > Len(s) \/ s[k] # "%"}, 2) - 2
      mark(k) == k + 1 <= end /\ s[k] = "%" /\ s[k + 1] = " " /\ k \in starts
  IN Did(end, <<Block("Heading", SelectSeq(Run(1, end), LAMBDA k : ~mark(k) /\ ~(k > 1 /\ mark(k - 1))))>>)

\* A fence up to end, its info string from a to b.
NoFence == [end |-> 0, marker |-> << >>, info |-> << >>]
FenceTo(s, marker, end, a, b) ==
  IF end <= Len(s) /\ s[end] # "\n" THEN NoFence
  ELSE [end |-> IF end > Len(s) THEN Len(s) ELSE end, marker |-> marker, info |-> trim_space(s, a, b)]

\* The info string at a, in braces or up to white space.
FenceInfo(s, marker, a) ==
  LET Braced(b) == IF StartsAt(s, b, <<"}">>) THEN FenceTo(s, marker, Past(s, b + 1, IsBlank), a + 1, b - 1)
                   ELSE NoFence
      Plain(b) == FenceTo(s, marker, b, a, b - 1)
  IN IF StartsAt(s, a, <<"{">>) THEN Braced(Upto(s, a + 1, LAMBDA c : c \in {"}", "\n"}))
     ELSE Plain(Upto(s, a, is_vertical_space))

\* is_fence_line: how long the line is, 0 if it is none, its marker and the places
\* of the info string, when one is allowed.
is_fence_line(s, info, old_marker) ==
  LET Marked(marker, m) ==
        IF \/ Len(marker) < 3 \/ marker[1] \notin {"~", "tick"}
           \/ old_marker # << >> /\ marker # old_marker
          THEN NoFence
        ELSE IF info THEN FenceInfo(s, marker, Past(s, m, IsBlank))
        ELSE FenceTo(s, marker, m, m, m - 1)
      To(i, m) == Marked(SubSeq(s, i, m - 1), m)
      At(i) == IF i > Len(s) THEN NoFence ELSE To(i, Past(s, i, LAMBDA c : c = s[i]))
  IN At(Indent(s, 3) + 1)

\* What fenced_code_block gathers starts with a line for the info string.
finalize_code_block(s, content) ==
  LET k == Upto(content, 1, LAMBDA p : p = 0 \/ s[p] = "\n")
  IN IF k > Len(content) THEN <<Block("panic", << >>)>>
     ELSE <<Block("info", SubSeq(content, 1, k - 1)), Block("CodeBlock", From(content, k + 1))>>

\* What a fence opened by open and closed at one of closed makes; a fence that
\* nothing closes opens no block.
Fenced(s, open, closed) ==
  LET To(c) == Did(c[1] - 1 + c[2],
                   finalize_code_block(s, open.info \o <<0>> \o Run(open.end + 1, c[1] - 1)))
  IN IF closed = {} THEN Refused ELSE To(CHOOSE c \in closed : \A x \in closed : c[1] <= x[1])

fenced_code_block(s) ==
  LET After(open) ==
        IF open.end = 0 THEN Refused
        ELSE Fenced(s, open, {c \in {<<k, is_fence_line(From(s, k), FALSE, open.marker).end>> :
                                       k \in LineStarts(s, open.end + 1)} : c[2] > 0})
  IN After(is_fence_line(s, TRUE, << >>))

\* A line of code: how much of a prefix it has, and whether it is blank.
CodeLine(s, k) == LET l == Line(s, k) IN [at |-> k, blank |-> is_empty(l) > 0, prefix |-> code_prefix(l)]

\* code: to the first line that is neither indented nor blank, newlines at the end
\* cut down to one.
code(s) ==
  LET Content(work) ==
        SubSeq(work, 1, Max({0} \cup {k \in DOMAIN work : work[k] # 0 /\ s[work[k]] # "\n"}))
      Taken(l) == IF l.blank THEN <<0>> ELSE Run(l.at + l.prefix, NextLine(s, l.at) - 1)
      To(lines, stop) ==
        Did(stop - 1, <<Block("CodeBlock",
              Content(FlattenSeq([j \in DOMAIN lines |-> IF lines[j].at < stop THEN Taken(lines[j]) ELSE << >>]))
                \o <<0>>)>>)
      Over(lines) == To(lines, Least({lines[j].at : j \in {m \in DOMAIN lines :
                                        ~lines[m].blank /\ lines[m].prefix = 0}}, Len(s) + 1))
      Starts(starts) == Over([j \in DOMAIN starts |-> CodeLine(s, starts[j])])
  IN Starts(InOrder(s, LineStarts(s, 1)))

hrule(s) == Did(Upto(s, 1, IsNewline) - 1, <<Block("HorizontalRule", << >>)>>)

-----------------------------------------------------------------------------
(* Blocks of HTML.                                                         *)

\* Of the tags that open one: a short one and the one that stays inline.
BLOCK_TAGS == {<<"p">>, <<"u", "l">>, <<"d", "e", "l">>}

html_find_tag(s) ==
  LET Known(t) == IF t \in BLOCK_TAGS THEN t ELSE << >>
  IN Known(SubSeq(s, 1, Past(s, 1, is_alnum) - 1))

\* The closing tag and the blank lines it needs after it, two unless lax.
html_find_end(tag, s) ==
  LET Further(i, blank) == IF blank = 0 THEN 0 ELSE i + blank
      Bare(n, i) == IF i = n THEN 0
                     ELSE IF i >= Len(s) \/ "lax_html_blocks" \in ext THEN i
                     ELSE Further(i, is_empty(From(s, i + 1)))
      Behind(n) == Bare(n, n + is_empty(From(s, n + 1)))
  IN IF StartsWith(s, <<"<", "/">> \o tag \o <<">">>) THEN Behind(Len(tag) + 3) ELSE 0

HtmlBlock(s, used) == Did(used, <<Block("HTMLBlock", Run(1, Back(s, used, IsNewline)))>>)

\* html_comment and html_hr: what is recognised must end its line.
html_comment(s) ==
  LET Ended(i, j) == IF j = 0 THEN Refused ELSE HtmlBlock(s, i + j)
      At(i) == Ended(i, is_empty(From(s, i + 1)))
  IN At(inline_html_comment(s))

html_hr(s) ==
  LET Ended(i, j) == IF j = 0 THEN Refused ELSE HtmlBlock(s, i + j)
      At(i) == IF StartsAt(s, i, <<">">>) THEN Ended(i, is_empty(From(s, i + 1))) ELSE Refused
  IN IF Len(s) > 3 /\ StartsWith(s, <<"<", "h", "r">>) /\ s[4] \in {" ", "/", ">"}
       THEN At(Upto(s, 4, LAMBDA c : c \in {">", "\n"})) ELSE Refused

html(s) ==
  LET Either(comment) == IF comment.used > 0 THEN comment ELSE html_hr(s)
      To(c) == HtmlBlock(s, c[1] - 1 + c[2])
      Closed(ends) == IF ends = {} THEN Refused
                      ELSE To(CHOOSE c \in ends : \A x \in ends : c[1] <= x[1])
      Tagged(tag) ==
        IF tag = << >> THEN Either(html_comment(s))
        ELSE IF tag \in {<<"i", "n", "s">>, <<"d", "e", "l">>} THEN Refused
        ELSE Closed({c \in {<<k, html_find_end(tag, From(s, k))>> :
                              k \in {j \in 2..Len(s) - Len(tag) - 3 : StartsAt(s, j, <<"<", "/">>)}} :
                       c[2] > 0})
  IN IF s[1] # "<" THEN Refused ELSE Tagged(html_find_tag(From(s, 2)))

-----------------------------------------------------------------------------
(* Tables.                                                                 *)

\* The underline of a table's header, from first on: where it ends if it has n
\* columns, else 0.
UnderlineEnd(s, first, n) ==
  LET under[i \in 1..(Len(s) + 1), col \in 0..n] ==
        LET Next(j) == IF col + 1 >= n /\ j <= Len(s) /\ s[j] # "\n" THEN 0 ELSE under[j, col + 1]
            Ended(c, k) ==
              IF k > Len(s) \/ c - i < 3 THEN 0
              ELSE IF s[k] = "|" THEN Next(Past(s, k + 1, IsBlank))
              ELSE IF col + 1 >= n /\ s[k] = "\n" THEN under[k, col + 1] ELSE 0
            Right(c) == Ended(c, Past(s, c, IsBlank))
            Dashes(b) == Right(IF StartsAt(s, b, <<":">>) THEN b + 1 ELSE b)
        IN IF i > Len(s) \/ s[i] = "\n" THEN IF col = n THEN i ELSE 0
           ELSE Dashes(Past(s, IF s[i] = ":" THEN i + 1 ELSE i, LAMBDA c : c = "-"))
  IN under[first, 0]

\* The columns of a header line and of the underline below it must agree; the
\* answer is how many there are and how far the underline goes, 0 for no table.
Columns(s) ==
  LET none == [columns |-> 0, end |-> 0]
      Found(n, end) == IF end = 0 THEN none
                       ELSE [columns |-> n, end |-> IF end > Len(s) THEN Len(s) ELSE end]
      Under(n, first) == Found(n, UnderlineEnd(s, Past(s, first, IsBlank), n))
      Header(pipes, e) ==
        IF pipes = {} \/ e >= Len(s) THEN none
        ELSE Under(Cardinality(pipes) + 1 - (IF s[1] = "|" THEN 1 ELSE 0)
                     - (IF e > 3 /\ e - 1 \in pipes THEN 1 ELSE 0),
                   IF s[e + 1] = "|" THEN e + 2 ELSE e + 1)
      To(e) == Header({k \in 1..e - 1 : s[k] = "|" /\ ~is_backslash_escaped(s, k)}, e)
  IN To(Upto(s, 1, IsNewline))

\* Mutant: a row has no cell for a column its line has no text for.
RowUnpadded(s, from, columns) ==
  LET bars == {k \in from + 1..NextLine(s, from) - 1 : s[k] = "|"}
  IN <<Block("TableRow", << >>)>>
       \o [k \in 1..Min({columns, Cardinality(bars) + 1}) |-> Block("TableCell", << >>)]

\* table_row, over the line that starts at from: a cell for each column, empty
\* where the row has none; cells beyond the last column are ignored.
table_row(s, from, columns) ==
  LET Row(n) ==
        LET cell[i \in 1..(Len(s) + 2), col \in 0..columns] ==
              LET Filled(a, z) == <<Block("TableCell", Run(a, Back(s, z - 1, IsBlank)))>> \o cell[z + 1, col + 1]
                  Begun(a) == Filled(a, Least({k \in a..n : s[k] = "\n" \/ (s[k] = "|" /\ ~is_backslash_escaped(s, k))}, n + 1))
              IN IF col = columns THEN IF i > n THEN << >> ELSE <<Block("ignored", Run(i, n))>>
                 ELSE IF i > n THEN <<Block("TableCell", << >>)>> \o cell[i, col + 1]
                 ELSE Begun(Past(s, i, IsBlank))
        IN cell[IF s[from] = "|" THEN from + 1 ELSE from, 0]
  IN <<Block("TableRow", << >>)>> \o Row(NextLine(s, from) - 1)

\* table: the rows go on to the first line without a bar, escaped ones counted.
table(s) ==
  LET Rows(columns, rows) == FlattenSeq([r \in DOMAIN rows |-> table_row(s, rows[r], columns)])
      To(columns, starts, stop) ==
        Did(stop - 1, <<Block("TableHead", << >>)>> \o Rows(columns, <<1>>)
                        \o <<Block("TableBody", << >>)>>
                        \o Rows(columns, InOrder(s, {k \in starts : k < stop})))
      Under(columns, starts) ==
        To(columns, starts, Least({k \in starts : "|" \notin ToSet(Line(s, k))}, Len(s) + 1))
      Header(h) == IF h.end = 0 THEN Refused ELSE Under(h.columns, LineStarts(s, h.end + 1))
  IN Header(Columns(s))
-----------------------------------------------------------------------------
(***************************************************************************)
(* Containers: how much is used and the text that is parsed as blocks.     *)
(***************************************************************************)


\* terminate_blockquote, for the lines from beg up to end.
terminate_blockquote(s, beg, end) ==
  /\ is_empty(From(s, beg)) > 0
  /\ end > Len(s) \/ (quote_prefix(From(s, end)) = 0 /\ is_empty(From(s, end)) = 0)

\* How much of s a fenced block at k uses, if there is one and they are parsed.
FenceLength(s, k) == IF "fenced_code" \in ext THEN fenced_code_block(From(s, k)).used ELSE 0

\* Past the fenced block in a line of a quote, if there is one, or past the line.
QuoteLineEnd(s, beg) ==
  LET After(stop) == IF StartsAt(s, stop, <<"\n">>) THEN stop + 1 ELSE stop
      First(fences) == CHOOSE f \in fences : \A x \in fences : f[1] <= x[1]
      Behind(f) == f[1] + f[2] - 1
      Found(eol, fences) == After(IF fences = {} THEN eol ELSE Behind(First(fences)))
      eol == Upto(s, beg, IsNewline)
  IN Found(eol, {f \in {<<k, FenceLength(s, k)>> : k \in beg..eol - 1} : f[2] > 0})

\* quote: line by line, except that a fenced block anywhere in one is taken whole.
quote(s) ==
  LET gather[beg \in 1..(Len(s) + 1)] ==
        LET Lined(end, pre) ==
              IF pre = 0 /\ terminate_blockquote(s, beg, end) THEN [used |-> end - 1, raw |-> << >>]
              ELSE [gather[end] EXCEPT !.raw = Run(beg + pre, end - 1) \o @]
        IN IF beg > Len(s) THEN [used |-> Len(s), raw |-> << >>]
           ELSE Lined(QuoteLineEnd(s, beg), quote_prefix(From(s, beg)))
  IN gather[1]

-----------------------------------------------------------------------------
(***************************************************************************)
(* list_item: the lines it gathers, one at a time.  g holds the next line, *)
(* the text so far, whether blank lines are pending, where a nested list   *)
(* starts, the marker of an open fence, the list's flags, whether the item *)
(* is over and whether data was read past its end.                         *)
(***************************************************************************)
NextItemStarts(s, i) ==
  LET eol == Upto(s, i, IsNewline)
      next == Least({k \in eol..Len(s) : k = Len(s) \/ s[k] # "\n"}, eol)
  IN s[i] = ":" \/ s[next] = ":"

\* A line that starts an item.
StartsItem(chunk) ==
  \/ uli_prefix(chunk) > 0 /\ ~is_hrule(chunk)
  \/ oli_prefix(chunk) > 0 \/ dli_prefix(chunk) > 0

\* What a line that is not blank makes of g: i is the next one, chunk the line less the
\* depth characters of its indentation, which count for indent, fence the marker
\* it opens or closes a fence with.
LineTaken(s, g, item_indent, i, depth, indent, chunk, fence) ==
  LET Flagged(F) == [g EXCEPT !.flags = @ \cup F]
      Over(F) == [Flagged(F) EXCEPT !.over = TRUE]
      line == Run(g.line + depth, i - 1)
      Taken(h) == [h EXCEPT !.line = i, !.raw = @ \o line]
      Kept(F) == Taken([Flagged(F) EXCEPT !.blank = FALSE,
                                          !.raw = IF g.blank THEN Append(@, 0) ELSE @])
      block == IF g.blank THEN {"BLOCK"} ELSE {}
      AnItem == IF indent <= item_indent
                  THEN Over(IF list_type_changed(chunk, g.flags) THEN {"END"} ELSE block)
                ELSE [Kept(block) EXCEPT !.sub = IF @ = 0 THEN Len(g.raw) ELSE @]
  IN IF "fenced_code" \in ext /\ (fence # << >> \/ g.fence # << >>)
       THEN [Taken(g) EXCEPT !.fence = IF fence = << >> THEN @ ELSE IF @ = << >> THEN fence ELSE << >>]
     ELSE IF StartsItem(chunk) THEN AnItem
     ELSE IF is_prefix_heading(chunk)
       THEN IF g.blank /\ indent < 4 THEN Over({"END"}) ELSE Kept({"BLOCK"})
     ELSE IF g.blank /\ indent < 4
       THEN IF "DEFINITION" \notin g.flags \/ i + 1 > Len(s) THEN Over({"END"})
            ELSE IF s[i] # ":" /\ "\n" \notin ToSet(From(s, i)) THEN [Over({}) EXCEPT !.beyond = TRUE]
            ELSE Over(IF NextItemStarts(s, i) THEN {} ELSE {"END"})
     ELSE IF g.blank THEN [Kept({"BLOCK"}) EXCEPT !.raw = g.raw \o <<0, 0>> \o line]
     ELSE Kept({})

GatherLine(s, g, item_indent) ==
  LET Indented(l, depth, indent) ==
        LineTaken(s, g, item_indent, NextLine(s, g.line), depth, indent, From(l, depth + 1),
                  is_fence_line(From(l, depth + 1), FALSE, g.fence).marker)
      At(l) == IF is_empty(l) > 0 THEN [g EXCEPT !.blank = TRUE, !.line = NextLine(s, @)]
               ELSE IF l[1] = "\t" THEN Indented(l, 1, 4)
               ELSE Indented(l, Indent(l, 4), Indent(l, 4))
  IN At(Line(s, g.line))

RECURSIVE Gathered(_, _, _)
Gathered(s, g, item_indent) ==
  IF g.over \/ g.line > Len(s) THEN g
  ELSE Gathered(s, GatherLine(s, g, item_indent), item_indent)

\* An item whose first line has its text at k.
ItemFrom(s, k, line, flags) ==
  Gathered(s, [line |-> line, raw |-> Run(k, line - 1), blank |-> FALSE, sub |-> 0,
               fence |-> << >>, flags |-> flags, over |-> FALSE, beyond |-> FALSE],
           IF s[1] = "\t" THEN 4 ELSE Indent(s, 3))

\* An item: how much it uses, the flags it leaves the list with, whether reading it
\* ran past the end, and its text, in two parts when a nested list starts in it.
ItemOf(g) ==
  LET Split(head) == [used |-> g.line - 1, flags |-> g.flags, beyond |-> g.beyond,
                      head |-> SubSeq(g.raw, 1, head), tail |-> SubSeq(g.raw, head + 1, Len(g.raw))]
  IN Split(IF g.sub = 0 THEN Len(g.raw) ELSE g.sub)

ItemAt(s, k, flags) == ItemOf(ItemFrom(s, k, IF k = 1 THEN 1 ELSE NextLine(s, k), flags))

\* list_item: a marker, or in a list of definitions a colon or nothing.
list_item(s, flags) ==
  LET marker == IF uli_prefix(s) > 0 THEN uli_prefix(s) ELSE oli_prefix(s)
      prefix == IF marker > 0 THEN marker ELSE dli_prefix(s)
  IN IF prefix = 0 /\ "DEFINITION" \notin flags
       THEN [used |-> 0, flags |-> flags, beyond |-> FALSE, head |-> << >>, tail |-> << >>]
     ELSE ItemAt(s, Past(s, prefix + 1, IsBlank),
                 IF marker > 0 THEN flags ELSE IF prefix > 0 THEN flags \ {"TERM"} ELSE flags \cup {"TERM"})

-----------------------------------------------------------------------------
(***************************************************************************)
(* References.                                                             *)
(***************************************************************************)
\* The title at b, behind the quote that opens it and up to the line's end, with its
\* newline if a carriage return follows.
TitleAt(s, b, eol) ==
  LET end == IF StartsAt(s, eol, <<"\n", "\r">>) THEN eol ELSE eol - 1
      Closed(close) ==
        IF close > b + 1 /\ s[close] \in {"'", "\"", ")"}
          THEN [text |-> Run(b + 1, close - 1), closed |-> TRUE, end |-> end]
          ELSE [text |-> Run(b + 1, end), closed |-> FALSE, end |-> 0]
  IN Closed(Max({b + 1} \cup {k \in b + 1..eol - 1 : ~is_horizontal_space(s[k])}))

\* scan_link_ref: link, title on the same line or the next, and the end, 0 for none.
scan_link_ref(s, i) ==
  LET Ref(dest, title, line) == [link |-> dest, title |-> title.text, closed |-> title.closed,
                                 end |-> IF title.closed THEN title.end ELSE line]
      Titled(dest, line, b) ==
        Ref(dest, IF b < Len(s) /\ s[b] \in {"'", "\"", "("}
                    THEN TitleAt(s, b, Upto(s, b + 1, LAMBDA c : c \in {"\n", "\r"}))
                    ELSE [text |-> << >>, closed |-> FALSE, end |-> 0], line)
      Ended(dest, eol) == Titled(dest, eol - 1, Past(s, eol + 1, is_horizontal_space))
      Linking(dest, a) ==
        IF a <= Len(s) /\ s[a] \notin {"\r", "\n"} THEN Titled(dest, 0, a)
        ELSE Ended(dest, IF StartsAt(s, a, <<"\r", "\n">>) THEN a + 1 ELSE a)
      \* the brackets are looked for behind one that is past already
      Inside(from, stop) == IF StartsAt(s, from, <<"<">>) /\ s[stop - 1] = ">"
                              THEN Run(from + 1, stop - 2) ELSE Run(from, stop - 1)
      To(from, stop) == Linking(Inside(from, stop), Past(s, stop, is_horizontal_space))
      Begun(from) == To(from, Upto(s, from, LAMBDA c : c \in {" ", "\t", "\n", "\r"}))
  IN Begun(IF s[i] = "<" THEN i + 1 ELSE i)

\* A line of a note: where it starts, whether it is blank and how far it is indented.
NoteLine(s, l) ==
  [at |-> l, blank |-> is_empty(Line(s, l)) > 0,
   indented |-> is_indented(Line(s, l), IF "tab_size_eight" \in ext THEN 8 ELSE 4)]

\* scan_footnote: the first line and the indented ones after it.
scan_footnote(s, i) ==
  LET Shifted(lines, j) ==
        IF lines[j].blank THEN << >>
        ELSE (IF j > 1 /\ lines[j - 1].blank THEN <<0>> ELSE << >>)
               \o Run(lines[j].at + lines[j].indented, NextLine(s, lines[j].at) - 1)
      To(first, lines, stop) ==
        [end |-> stop - 1,
         contents |-> first \o FlattenSeq([j \in DOMAIN lines |-> IF lines[j].at < stop THEN Shifted(lines, j)
                                                                  ELSE << >>])]
      Lines(first, lines) ==
        To(first, lines, Least({lines[j].at : j \in {m \in DOMAIN lines :
                                  ~lines[m].blank /\ lines[m].indented = 0}}, Len(s) + 1))
      Rest(first, starts) == Lines(first, [j \in DOMAIN starts |-> NoteLine(s, starts[j])])
      First(k, line) == Rest(Run(k, line - 1), InOrder(s, LineStarts(s, line)))
      At(k) == First(k, IF s[k - 1] = "\n" THEN k ELSE NextLine(s, k))
  IN At(Past(s, i, IsBlank))

\* What a definition is kept as: of the id between a and b, its text starting at e; Refused
\* if there is no such text.
ReferenceAt(s, note, a, b, e) ==
  LET id == <<Block("id of reference", Run(a, b))>>
      Noted(foot) == Did(foot.end, id \o <<Block("note", foot.contents)>>)
      Titled(ref) == IF ref.title = << >> THEN << >>
                     ELSE <<Block(IF ref.closed THEN "title" ELSE "unclosed title", ref.title)>>
      Linking(ref) == IF ref.end = 0 THEN Refused
                      ELSE Did(ref.end, id \o <<Block("link", ref.link)>> \o Titled(ref))
  IN IF e = 0 \/ e > Len(s) THEN Refused
     ELSE IF note THEN Noted(scan_footnote(s, e))
     ELSE IF s[e] = "<" /\ e = Len(s) THEN Did(e, <<Block("panic", << >>)>>)
     ELSE Linking(scan_link_ref(s, e))

\* is_reference: what it keeps is the id and the text or the link and title.  A title
\* that is not closed is kept although its line is not used.
is_reference(s) ==
  LET TextFrom(note, a, b, e) == [note |-> note, id |-> a, stop |-> b - 1, text |-> e]
      Behind(note, a, b, d) == TextFrom(note, a, b, Past(s, d, is_horizontal_space))
      Colon(note, a, b, c) ==
        Behind(note, a, b, IF StartsAt(s, c, <<"\r", "\n">>) THEN c + 2
                           ELSE IF c <= Len(s) /\ s[c] \in {"\n", "\r"} THEN c + 1 ELSE c)
      Id(note, a, b) ==
        IF ~StartsAt(s, b, <<"]", ":">>) \/ (~note /\ a = b) THEN TextFrom(note, a, b, 0)
        ELSE Colon(note, a, b, Past(s, b + 2, is_horizontal_space))
      Begun(note, a) == Id(note, a, Upto(s, a, LAMBDA c : c \in {"\n", "\r", "]"}))
      Defined(i) == IF s[i] # "[" THEN TextFrom(FALSE, i, i, 0)
                 ELSE IF "footnotes" \in ext /\ StartsAt(s, i + 1, <<"^">>) THEN Begun(TRUE, i + 2)
                 ELSE Begun(FALSE, i + 1)
      Kept(r) == ReferenceAt(s, r.note, r.id, r.stop, r.text)
  IN IF Len(s) < 4 THEN Refused ELSE Kept(Defined(Indent(s, 3) + 1))

-----------------------------------------------------------------------------
(***************************************************************************)
(* paragraph: the first line that ends it, and how.  Its answer says where *)
(* a definition list starts that it hands over to, 0 if none: list then    *)
(* says how much is used.                                                  *)
(***************************************************************************)
\* Blocks made from the places after the first n.
Later(made, n) ==
  [j \in DOMAIN made |->
     [made[j] EXCEPT !.content = [k \in DOMAIN @ |-> IF @[k] = 0 THEN 0 ELSE @[k] + n]]]

\* render_paragraph, on the first b characters; with only blanks in them it would read on
\* past the end.
render_paragraph(s, b) ==
  LET end == IF b > 0 /\ s[b] = "\n" THEN b - 1 ELSE b
  IN IF b = 0 THEN << >>
     ELSE IF \A k \in 1..b : s[k] = " " THEN <<Block("blank", << >>)>>
     ELSE <<Block("Paragraph", Run(Past(s, 1, IsBlank), Back(s, end, IsBlank)))>>

\* Mutant: the heading's line is in the paragraph too.
HeadingTwice(s, k, prev) ==
  render_paragraph(s, k - 1) \o <<Block("Heading", Trimmed(s, prev, k - 2, IsBlank))>>

\* The line before an underline is a heading, those before it a paragraph.
Underlined(s, k, prev) ==
  render_paragraph(s, prev - 1) \o <<Block("Heading", Trimmed(s, prev, k - 2, IsBlank))>>

\* What ends a paragraph and is left for block() to parse.
OtherBlockAt(s) ==
  \/ "lax_html_blocks" \in ext /\ html(s).used > 0
  \/ is_prefix_heading(s) \/ is_hrule(s)
  \/ "fenced_code" \in ext /\ fenced_code_block(s).used > 0

PrefixAt(s) ==
  /\ "no_empty_line_before_block" \in ext
  /\ uli_prefix(s) + oli_prefix(s) + quote_prefix(s) + code_prefix(s) > 0

\* How a paragraph ends before the line that r starts with, if it does.
ParagraphEnd(r, first) ==
  LET defs == "definition_lists" \in ext IN
  IF is_reference(r).used > 0 THEN "reference"
  ELSE IF is_empty(r) > 0 THEN "blank"
  ELSE IF ~first /\ is_underlined_heading(r) THEN "underline"
  ELSE IF OtherBlockAt(r) THEN "block"
  ELSE IF defs /\ dli_prefix(r) > 0 THEN "definition"
  ELSE IF PrefixAt(r) THEN "block" ELSE "none"

\* Where and how the paragraph s ends: before the first line at which it does.
ParagraphEnds(s, starts) ==
  LET First(ends) == CHOOSE e \in ends : \A x \in ends : e.at <= x.at
      Ending(lines) == First({[at |-> Len(s) + 1, how |-> "none"]} \cup {e \in lines : e.how # "none"})
  IN Ending({[at |-> j, how |-> ParagraphEnd(From(s, j), j = 1)] : j \in starts})

\* What a paragraph that ends so uses and makes.
EndedBy(s, k, how, starts) ==
  LET prev == Max({1} \cup {j \in starts : j < k})
      Ended(n, made) == [used |-> k - 1 + n, made |-> render_paragraph(s, k - 1) \o made, list |-> 0]
      Referred(ref) == Ended(ref.used, Later(ref.made, k - 1))
      Handed == [used |-> 0, made |-> << >>, list |-> prev]
  IN CASE how = "reference" -> Referred(is_reference(From(s, k)))
       [] how = "blank" -> IF "definition_lists" \in ext /\ StartsAt(s, k + 1, <<":">>) THEN Handed
                           ELSE Ended(is_empty(From(s, k)), << >>)
       [] how = "underline" ->
            [used |-> Upto(s, k, IsNewline) - 1, made |-> Underlined(s, k, prev), list |-> 0]
       [] how = "definition" -> Handed
       [] OTHER -> Ended(0, << >>)

paragraph(s) ==
  LET Ended(e) == EndedBy(s, e.at, e.how, LineStarts(s, 1))
  IN Ended(ParagraphEnds(s, LineStarts(s, 1)))

=============================================================================
