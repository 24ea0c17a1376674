----------------------------- MODULE HtmlRender -----------------------------
(***************************************************************************)
(* The HTML renderer of src/html.rs over one document: render_header, one  *)
(* render_node per visit of the walk, render_footer, and the three ways    *)
(* they write: `out`, `tag` and straight to the buffer.                    *)
(*                                                                         *)
(* The document is a tree the parsers can build, as the sequence of its    *)
(* nodes in preorder, each with its parent. What is written is a sequence  *)
(* of tokens: an element opened or closed, a newline, or the text of a     *)
(* node. Headings' ids and the contents are in module Headings: TOC is not *)
(* among the flags here.                                                   *)
(***************************************************************************)
EXTENDS Integers, Sequences, FiniteSets, SequencesExt

CONSTANT Configs  \* a renderer's flags with the documents to give it:
                  \* [flags, kinds, size], bounds the run

Blocks == {"BlockQuote", "Bullets", "Definitions", "Paragraph", "Heading",
           "HorizontalRule", "CodeBlock", "HTMLBlock", "Table"}
Inlines == {"Text", "Fraction", "Emph", "Strong", "Del", "Link", "Unsafe",
            "NoteRef", "UnsafeNote", "Image", "Code", "HTMLSpan", "Softbreak", "Hardbreak"}
NoteRefs == {"NoteRef", "UnsafeNote"}
Leaves == {"Text", "Fraction", "Code", "HTMLSpan", "Softbreak", "Hardbreak",
           "HorizontalRule", "CodeBlock", "HTMLBlock"}
Flags == {"SMARTYPANTS", "SMARTYPANTS_FRACTIONS", "SKIP_HTML", "SKIP_LINKS",
          "SKIP_IMAGES", "SAFELINK", "FOOTNOTE_RETURN_LINKS", "COMPLETE_PAGE"}

ASSUME RenderAssumption ==
  \A c \in Configs : c.flags \subseteq Flags /\ c.size \in Nat

\* What the block and inline parsers put under a node of each kind: a list of
\* notes comes last in a document that refers to one, and the text of an image is never parsed.
Under(k) ==
  CASE k = "Document" -> Blocks \cup {"Notes"}
    [] k \in {"BlockQuote", "Item", "Def"} -> Blocks
    [] k = "Note" -> Blocks \cup Inlines
    [] k = "Bullets" -> {"Item"}
    [] k = "Definitions" -> {"Term", "Def"}
    [] k = "Notes" -> {"Note"}
    [] k = "Term" -> {"Paragraph"}
    [] k = "Table" -> {"TableHead", "TableBody"}
    [] k \in {"TableHead", "TableBody"} -> {"TableRow"}
    [] k = "TableRow" -> {"TableCell"}
    [] k \in {"Paragraph", "Heading", "TableCell", "Emph", "Strong", "Del",
              "Link", "Unsafe"} -> Inlines
    [] k = "Image" -> {"Text", "Fraction"}
    [] OTHER -> {}

VARIABLES
  nodes,     \* the document: [kind, parent, tight]
  config,    \* HtmlRendererParameters::flags, and the documents
  reused,    \* whether this renderer has rendered another document before
  phase,     \* "parse", "walk", "footer" or "ended"
  at,        \* the node the walk stands on
  entering,  \* whether it is entering it
  r          \* the renderer: [out, last, disabled]

hvars == <<nodes, config, reused, phase, at, entering, r>>

Parent(i) == nodes[i].parent
Siblings(i) == {j \in DOMAIN nodes : Parent(j) = Parent(i)}
NextOf(i) == LET s == {j \in Siblings(i) : j > i} IN
             IF s = {} THEN 0 ELSE CHOOSE j \in s : \A k \in s : j <= k
HasPrev(i) == \E j \in Siblings(i) : j < i
PrevOf(i) == LET s == {j \in Siblings(i) : j < i} IN CHOOSE j \in s : \A k \in s : k <= j
HasChild(i) == i < Len(nodes) /\ Parent(i + 1) = i
KindOf(i) == IF i = 0 THEN "None" ELSE nodes[i].kind
In(i, ks) == KindOf(i) \in ks
Lists == {"Bullets", "Definitions", "Notes"}
Items == {"Item", "Term", "Def", "Note"}
Has(f) == f \in config.flags

HInit ==
  /\ nodes = << [kind |-> "Document", parent |-> 0, tight |-> FALSE] >>
  /\ config \in Configs /\ reused \in BOOLEAN
  /\ phase = "parse" /\ at = 1 /\ entering = TRUE
  /\ r = [out |-> << >>, last |-> reused, disabled |-> 0]

-----------------------------------------------------------------------------
(* The ways to write.  A call is [op, toks].                               *)

Opn(e) == <<"open", e>>
Cls(e) == <<"close", e>>
NL == <<"newline">>
Call(op, toks) == [op |-> op, toks |-> toks]
O(toks) == << Call("out", toks) >>      \* HtmlRenderer::out
W(toks) == << Call("raw", toks) >>      \* straight to the buffer
T(e) == << Call("tag", <<Opn(e)>>) >>   \* HtmlRenderer::tag
Cr == << Call("cr", << >>) >>
When(cond, calls) == IF cond THEN calls ELSE << >>

\* Only a tag at the very start is stripped where tags are disabled.
Stripped(toks) ==
  IF toks # << >> /\ Head(toks)[1] \in {"open", "close", "html"} THEN Tail(toks) ELSE toks

Wrote(s, toks) ==
  [s EXCEPT !.out = @ \o (IF s.disabled > 0 THEN Stripped(toks) ELSE toks),
            !.last = toks # << >>]

\* Mutant: a newline is written at the start of the output too.
DoneAlways(s, c) ==
  CASE c.op = "out" -> Wrote(s, c.toks)
    [] c.op = "cr"  -> Wrote(s, <<NL>>)
    [] c.op = "raw" -> [s EXCEPT !.out = @ \o c.toks]
    [] c.op = "tag" -> [s EXCEPT !.out = @ \o c.toks, !.last = TRUE]
    [] c.op = "disable" -> [s EXCEPT !.disabled = @ + 1]
    [] c.op = "enable"  -> [s EXCEPT !.disabled = @ - 1]

Done(s, c) ==
  CASE c.op = "out" -> Wrote(s, c.toks)
    [] c.op = "cr"  -> IF s.last THEN Wrote(s, <<NL>>) ELSE s
    [] c.op = "raw" -> [s EXCEPT !.out = @ \o c.toks]
    [] c.op = "tag" -> [s EXCEPT !.out = @ \o c.toks, !.last = TRUE]
    [] c.op = "disable" -> [s EXCEPT !.disabled = @ + 1]
    [] c.op = "enable"  -> [s EXCEPT !.disabled = @ - 1]

Ran(calls) ==
  LET s[n \in 0..Len(calls)] == IF n = 0 THEN r ELSE Done(s[n - 1], calls[n])
  IN  s[Len(calls)]

-----------------------------------------------------------------------------
(* render_node, by kind of node: what a visit writes.                      *)

\* Smartypants rewrites every text when its flag is set, whatever it is in.
TextCalls(i) ==
  IF ~Has("SMARTYPANTS") THEN W(<< <<"text", i>> >>)
  ELSE IF KindOf(i) = "Fraction" /\ Has("SMARTYPANTS_FRACTIONS")
       THEN W(<< Opn("sup"), <<"smart", i>>, Cls("sup"), Opn("sub"), Cls("sub") >>)
       ELSE W(<< <<"smart", i>> >>)

\* By the destination, which of a reference to a note is the note's id.
NeedSkipLink(i) == Has("SKIP_LINKS") \/ (Has("SAFELINK") /\ In(i, {"Unsafe", "UnsafeNote"}))

\* Mutant: the end of a footnote reference closes an anchor.
LinkCallsClosing(i, enter) ==
  IF NeedSkipLink(i) THEN O(<< IF enter THEN Opn("tt") ELSE Cls("tt") >>)
  ELSE IF In(i, NoteRefs) /\ enter
       THEN O(<< Opn("sup"), Opn("a"), <<"number", i>>, Cls("a"), Cls("sup") >>)
       ELSE IF enter THEN T("a") ELSE O(<< Cls("a") >>)

LinkCalls(i, enter) ==
  IF NeedSkipLink(i) THEN O(<< IF enter THEN Opn("tt") ELSE Cls("tt") >>)
  ELSE IF In(i, NoteRefs)
       THEN When(enter, O(<< Opn("sup"), Opn("a"), <<"number", i>>, Cls("a"), Cls("sup") >>))
       ELSE IF enter THEN T("a") ELSE O(<< Cls("a") >>)

ImageCalls(i, enter) ==
  IF Has("SKIP_IMAGES") THEN << >>
  ELSE IF enter THEN When(r.disabled = 0, O(<< Opn("alt") >>)) \o << Call("disable", << >>) >>
       ELSE << Call("enable", << >>) >> \o When(r.disabled = 1, O(<< Cls("alt") >>))

SkipParagraphTags(i) ==
  LET g == Parent(Parent(i)) IN
  /\ Parent(i) # 0 /\ g # 0 /\ In(g, Lists)
  /\ nodes[g].tight \/ In(Parent(i), {"Term"})

LastInItem(i) == In(Parent(i), Items) /\ NextOf(i) = 0

ParagraphCalls(i, enter) ==
  IF SkipParagraphTags(i) THEN << >>
  ELSE IF enter
       THEN When(HasPrev(i) /\ In(PrevOf(i), Lists \cup {"HTMLBlock", "Paragraph", "Heading",
                                     "CodeBlock", "BlockQuote", "HorizontalRule"}), Cr)
            \o When(In(Parent(i), {"BlockQuote"}) /\ ~HasPrev(i), Cr)
            \o O(<< Opn("p") >>)
       ELSE O(<< Cls("p") >>) \o When(~LastInItem(i), Cr)

\* BlockQuote, Table, TableHead, TableBody and TableRow.
BoxCalls(i, e, enter) ==
  IF enter THEN Cr \o O(<< Opn(e) >>) \o When(e = "tbody" /\ ~HasChild(i), Cr)
           ELSE O(<< Cls(e) >>) \o Cr

HeadingCalls(i, enter) ==
  IF enter THEN Cr \o T("h") ELSE O(<< Cls("h") >>) \o When(~LastInItem(i), Cr)

ListElement(i) == IF In(i, {"Definitions"}) THEN "dl"
                  ELSE IF In(i, {"Notes"}) THEN "ol" ELSE "ul"

ListCalls(i, enter) ==
  IF enter
  THEN When(In(i, {"Notes"}), O(<< NL, Opn("div"), NL, NL >>) \o O(<< <<"hr">> >>) \o Cr)
       \o Cr
       \o When(In(Parent(i), Items) /\ nodes[Parent(Parent(i))].tight, Cr)
       \o T(ListElement(i)) \o Cr
  ELSE O(<< Cls(ListElement(i)) >>)
       \o When(In(Parent(i), Items) /\ NextOf(i) # 0, Cr)
       \o When(In(Parent(i), {"Document", "BlockQuote"}), Cr)
       \o When(In(i, {"Notes"}), O(<< NL, Cls("div"), NL >>))

ItemElement(i) == IF In(i, {"Term"}) THEN "dt" ELSE IF In(i, {"Def"}) THEN "dd" ELSE "li"

\* item_open_cr comes first; a note's tag carries its anchor.
ItemCalls(i, enter) ==
  IF enter
  THEN When(HasPrev(i) /\ ~nodes[Parent(i)].tight /\ ~In(Parent(i), {"Definitions"}), Cr)
       \o O(<< Opn(ItemElement(i)) >>)
  ELSE When(In(i, {"Note"}) /\ Has("FOOTNOTE_RETURN_LINKS"),
            O(<< <<"space">>, Opn("a"), Cls("a") >>))
       \o O(<< Cls(ItemElement(i)) >>) \o Cr

CellCalls(i, enter) ==
  IF enter THEN When(~HasPrev(i), Cr) \o T("td") ELSE O(<< Cls("td") >>) \o Cr

CodeBlockCalls(i) ==
  Cr \o O(<< Opn("pre") >>) \o T("code") \o W(<< <<"text", i>> >>)
     \o O(<< Cls("code") >>) \o O(<< Cls("pre") >>)
     \o When(~In(Parent(i), Items), Cr)

Span(e, enter) == O(<< IF enter THEN Opn(e) ELSE Cls(e) >>)

Calls(i, enter) ==
  LET k == KindOf(i) IN
  CASE k \in {"Text", "Fraction"} -> TextCalls(i)
    [] k = "Softbreak" -> Cr
    [] k = "Hardbreak" -> O(<< <<"br">> >>) \o Cr
    [] k = "Emph" -> Span("em", enter)
    [] k = "Strong" -> Span("strong", enter)
    [] k = "Del" -> Span("del", enter)
    [] k = "HTMLSpan" -> When(~Has("SKIP_HTML"), O(<< <<"html", i>> >>))
    [] k \in {"Link", "Unsafe"} \cup NoteRefs -> LinkCalls(i, enter)
    [] k = "Image" -> ImageCalls(i, enter)
    [] k = "Code" -> O(<< Opn("code") >>) \o W(<< <<"text", i>> >>) \o O(<< Cls("code") >>)
    [] k = "Paragraph" -> ParagraphCalls(i, enter)
    [] k = "BlockQuote" -> BoxCalls(i, "blockquote", enter)
    [] k = "HTMLBlock" -> When(~Has("SKIP_HTML"), Cr \o O(<< <<"html", i>> >>) \o Cr)
    [] k = "Heading" -> HeadingCalls(i, enter)
    [] k = "HorizontalRule" -> Cr \o O(<< <<"hr">> >>) \o Cr
    [] k \in Lists -> ListCalls(i, enter)
    [] k \in Items -> ItemCalls(i, enter)
    [] k = "CodeBlock" -> CodeBlockCalls(i)
    [] k = "Table" -> BoxCalls(i, "table", enter)
    [] k = "TableHead" -> BoxCalls(i, "thead", enter)
    [] k = "TableBody" -> BoxCalls(i, "tbody", enter)
    [] k = "TableRow" -> BoxCalls(i, "tr", enter)
    [] k = "TableCell" -> CellCalls(i, enter)
    [] OTHER -> << >>

-----------------------------------------------------------------------------
\* The parsers add the next node of the document, under the node before it or
\* one that node is in.
Grow(k, p, tight) ==
  /\ phase = "parse" /\ Len(nodes) < config.size
  /\ p \in DOMAIN nodes /\ \A j \in DOMAIN nodes : j > p => Parent(j) >= p
  /\ k \in Under(nodes[p].kind) \cap config.kinds
  /\ nodes[p].kind = "Image" => p = Len(nodes)
  /\ \A j \in DOMAIN nodes : nodes[j].kind = "Notes" => p # 1
  /\ k = "Notes" => \E j \in DOMAIN nodes : nodes[j].kind \in NoteRefs
  /\ tight => k \in Lists
  /\ nodes' = Append(nodes, [kind |-> k, parent |-> p, tight |-> tight])
  /\ UNCHANGED <<config, reused, phase, at, entering, r>>

\* render_header writes past `out`, so that the body still starts without a
\* newline; with TOC, last_output_len would be the length of the contents.
Header ==
  /\ phase = "parse"
  /\ phase' = "walk"
  /\ r' = Ran(When(Has("COMPLETE_PAGE"), W(<< Opn("html"), Opn("body") >>)))
  /\ UNCHANGED <<nodes, config, reused, at, entering>>

\* Mutant: an image that is not shown has its text rendered all the same.
SkipsNone(i) == FALSE

\* SkipChildren, where render_node answers it.
Skips(i) == In(i, {"Image"}) /\ Has("SKIP_IMAGES")

\* One visit of run_with's loop: render_node, then the walker moves on.
Visit ==
  /\ phase = "walk"
  /\ r' = Ran(Calls(at, entering))
  /\ LET leaving == ~entering \/ Skips(at) \/ In(at, Leaves) IN
     IF leaving /\ at = 1
     THEN phase' = "footer" /\ UNCHANGED <<at, entering>>
     ELSE /\ phase' = phase
          /\ IF ~leaving
             THEN IF HasChild(at) THEN at' = at + 1 /\ entering' = TRUE
                                  ELSE at' = at /\ entering' = FALSE
             ELSE IF NextOf(at) # 0 THEN at' = NextOf(at) /\ entering' = TRUE
                                  ELSE at' = Parent(at) /\ entering' = FALSE
  /\ UNCHANGED <<nodes, config, reused>>

Footer ==
  /\ phase = "footer"
  /\ phase' = "ended"
  /\ r' = Ran(When(Has("COMPLETE_PAGE"), W(<< Cls("body"), Cls("html") >>)))
  /\ UNCHANGED <<nodes, config, reused, at, entering>>

HNext ==
  \/ \E k \in config.kinds, p \in 1..config.size, tight \in BOOLEAN : Grow(k, p, tight)
  \/ Header \/ Visit \/ Footer

HSpec == HInit /\ [][HNext]_hvars

-----------------------------------------------------------------------------
\* The elements still open after a token, innermost last; a token that closes
\* any other than the innermost leaves "wrong" behind for good.
Element(stack, tok) ==
  CASE tok[1] = "open" -> Append(stack, tok[2])
    [] tok[1] = "close" ->
         IF stack # << >> /\ Last(stack) = tok[2] THEN Front(stack) ELSE Append(stack, "wrong")
    [] OTHER -> stack
OpenElements ==
  LET s[n \in 0..Len(r.out)] == IF n = 0 THEN << >> ELSE Element(s[n - 1], r.out[n])
  IN  s[Len(r.out)]

\* Whatever the flags and the nodes, the output is well-formed: elements
\* close innermost first, although a node's opening and closing tags are
\* chosen on two separate visits and a skipped node gets only the first; and
\* at the end all are closed and tags are enabled again.
WellFormed ==
  /\ "wrong" \notin ToSet(OpenElements)
  /\ phase = "ended" => OpenElements = << >> /\ r.disabled = 0

\* Every text of the document is in the output once and in its order, save
\* under an image that SKIP_IMAGES leaves out.
TextsInOrder ==
  LET written == {j \in DOMAIN r.out : r.out[j][1] \in {"text", "smart"}}
      texts == {i \in DOMAIN nodes : In(i, {"Text", "Fraction", "Code", "CodeBlock"})}
      shown == {i \in texts : ~(In(Parent(i), {"Image"}) /\ Has("SKIP_IMAGES"))} IN
  /\ \A i, j \in written : i < j => r.out[i][2] < r.out[j][2]
  /\ phase = "ended" => {r.out[j][2] : j \in written} = shown

\* With a renderer of its own and no contents, a document's output never starts
\* with a blank line: cr goes by a length that the header, code and texts do not set.
BodyStartsClean ==
  ~reused => \A j \in DOMAIN r.out :
    r.out[j] = NL => \E k \in 1..j - 1 : r.out[k] \notin {NL, Opn("html"), Opn("body")}

=============================================================================
