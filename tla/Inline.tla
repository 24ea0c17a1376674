------------------------------- MODULE Inline -------------------------------
(***************************************************************************)
(* The inline parser, src/inline.rs: Markdown::inline, its dispatch table  *)
(* and the handler behind every character that has one.                    *)
(*                                                                         *)
(* A handler is a function of the slice it is given and of where in it the *)
(* character stands; it declines, or says how much it used, which node it  *)
(* made and which part of the slice that node's own content is.  Content   *)
(* is parsed by inline calling itself, which is a frame on a stack, so that *)
(* every turn of the loop is a step.  Literals are kept as the places in   *)
(* the text they were copied from.                                         *)
(***************************************************************************)
EXTENDS Escapes

CONSTANTS Cases,      \* [ext: the extensions set, texts: the texts to parse]
          Refs,       \* references defined elsewhere: id -> [link, text]
          MaxNesting, \* p.max_nesting
          MaxRewind   \* letters a protocol may have: 6

ASSUME InlineAssumption ==
  /\ MaxNesting \in Nat /\ MaxRewind \in Nat
  /\ \A c \in Cases : c.ext \subseteq {"no_intra_emphasis", "strikethrough", "autolink",
                                       "footnotes", "hard_line_break", "backslash_line_break"}

VARIABLES ext, text,  \* extensions and the block's content
          refs,       \* p.refs
          nodes,      \* nodes made, in the order they stand in the tree
          frames      \* the calls of inline under way, innermost last

ivars == <<ext, text, refs, nodes, frames>>

-----------------------------------------------------------------------------
\* What a handler answers: places are [from, to] in the slice, Nowhere if none.
Nowhere == [from |-> 1, to |-> 0]
Places(a, b) == [from |-> a, to |-> b]
Empty(r) == r.from > r.to

Leaf(used, kind, lit) == [used |-> used, kind |-> kind, lit |-> lit, inner |-> Nowhere]
Around(used, kind, inner) == [used |-> used, kind |-> kind, lit |-> Nowhere, inner |-> inner]
Nothing(used) == Leaf(used, "none", Nowhere)
Declined == Nothing(0)

Rebased(r, by) == Places(r.from + by, r.to + by)

-----------------------------------------------------------------------------
(***************************************************************************)
(* Emphasis.  helper_find_emph_char answers with an offset, and with 0 for *)
(* none as well as for a delimiter that is the first character.            *)
(***************************************************************************)
helper_find_emph_char(d, c) ==
  LET n == Len(d)
      Offset(k, j) == IF k < j /\ k <= n THEN k - 1 ELSE 0
      \* the offset of the first c in the places i to j - 1, or 0
      within(i, j) == Offset(Upto(d, i, LAMBDA x : x = c), j)
      find[i \in 1..(n + 3)] ==
        LET Span(j, q) == IF q > n THEN within(j + 1, q) ELSE find[q + 1]
            \* a link from j, its label up to b, its second part from k to q
            Link(label, second, k, q) ==
              IF d[k] \notin {"[", "("} THEN IF label > 0 THEN label ELSE find[k]
              ELSE IF label = 0 /\ second > 0 THEN second
              ELSE IF q > n THEN label ELSE find[q + 1]
            Second(label, k, q) == Link(label, within(k + 1, q), k, q)
            Behind(label, k) == IF k > n THEN label
                               ELSE Second(label, k, Upto(d, k + 1, LAMBDA x : x = d[k]))
            Text(j, b) == Behind(within(j + 1, b), Past(d, b + 1, LAMBDA x : x \in {" ", "\n"}))
            At(j) ==
              IF j > n THEN 0
              ELSE IF j # 1 /\ d[j - 1] = "\\" THEN find[j + 1]
              ELSE IF d[j] = c THEN j - 1
              ELSE IF d[j] = "tick" THEN Span(j, Upto(d, j + 1, LAMBDA x : x = "tick"))
              ELSE Text(j, Upto(d, j + 1, LAMBDA x : x = "]"))
        IN At(Upto(d, i, LAMBDA x : x \in {c, "tick", "["}))
  IN find[1]

\* The helpers look at e past its first b characters, the opening delimiters.
helper_emphasis(e, b, c, no_intra) ==
  LET d == From(e, b + 1)
      n == Len(d)
      try[i \in 0..n] ==
        LET At(j) ==
              IF j = i \/ j >= n THEN Declined
              ELSE IF j + 1 < n /\ d[j + 2] = c THEN try[j + 1]
              ELSE IF \/ is_space(d[j])
                      \/ /\ no_intra /\ j + 1 # n
                         /\ ~is_space(d[j + 2]) /\ ~is_punct(d[j + 2])
                THEN try[j]
              ELSE Around(b + j + 1, "emph", Places(b + 1, b + j))
        IN IF i = n THEN Declined ELSE At(i + helper_find_emph_char(From(d, i + 1), c))
  IN try[IF n > 1 /\ d[1] = c /\ d[2] = c THEN 1 ELSE 0]

helper_double_emphasis(e, b, c) ==
  LET d == From(e, b + 1)
      n == Len(d)
      try[i \in 0..n] ==
        LET At(j) ==
              IF j = i THEN Declined
              ELSE IF j + 1 < n /\ d[j + 2] = c /\ ~is_space(d[j])
                THEN Around(b + j + 2, IF c = "~" THEN "del" ELSE "strong", Places(b + 1, b + j))
              ELSE try[j + 1]
        IN IF i = n THEN Declined ELSE At(i + helper_find_emph_char(From(d, i + 1), c))
  IN try[0]

\* Three in a row close both; two or one hand back to the shorter forms, which
\* start inside the opening run.
helper_triple_emphasis(e, c, no_intra) ==
  LET d == From(e, 4)
      n == Len(d)
      try[i \in 0..n] ==
        LET At(j) ==
              IF j = i THEN Declined
              ELSE IF is_space(d[j]) THEN try[j]
              ELSE IF j + 2 < n /\ d[j + 2] = c /\ d[j + 3] = c
                THEN Around(j + 6, "strong emph", Places(4, 3 + j))
              ELSE IF j + 1 < n /\ d[j + 2] = c THEN helper_emphasis(e, 1, c, no_intra)
              ELSE helper_double_emphasis(e, 2, c)
        IN IF i = n THEN Declined ELSE At(i + helper_find_emph_char(From(d, i + 1), c))
  IN try[0]

\* The closing half, by the length of the opening run.
Opened(e, c, run, no_intra) ==
  IF \/ run > 3 \/ Len(e) < run + 2 \/ is_space(e[run + 1])
     \/ c = "~" /\ run # 2
    THEN Declined
  ELSE CASE run = 1 -> helper_emphasis(e, 1, c, no_intra)
         [] run = 2 -> helper_double_emphasis(e, 2, c)
         [] run = 3 -> helper_triple_emphasis(e, c, no_intra)

emphasis(d, o) ==
  Opened(From(d, o), d[o], Past(d, o, LAMBDA x : x = d[o]) - o, "no_intra_emphasis" \in ext)

-----------------------------------------------------------------------------
\* A code span closes at the first run as long as the one that opened it.
code_span(d, o) ==
  LET Shown(end, S) == IF S = {} THEN Nothing(end) ELSE Leaf(end, "code", Places(Min(S), Max(S)))
      Closed(e, nb, end) == Shown(end, {k \in nb + 1..end - nb : e[k] # " "})
      Opens(e, nb, ends) == IF ends = {} THEN Declined ELSE Closed(e, nb, Min(ends))
      Run(e, nb) == Opens(e, nb, {k \in 2 * nb..Len(e) : \A j \in k - nb + 1..k : e[j] = "tick"})
  IN Run(From(d, o), Past(d, o, LAMBDA x : x = "tick") - o)

maybe_line_break(d, o) ==
  LET To(k) == IF k > Len(d) \/ d[k] # "\n" THEN Declined
               ELSE IF k - o >= 2 THEN Leaf(k - o + 1, "br", Nowhere) ELSE Nothing(k - o)
  IN To(Past(d, o, LAMBDA x : x = " "))

line_break == IF "hard_line_break" \in ext THEN Leaf(1, "br", Nowhere) ELSE Declined

\* Mutant: a backslash takes no emphasis delimiter.
EscapeFew(d, o) ==
  IF o < Len(d) /\ d[o + 1] \in {"\\", "tick", "[", "]", "&", "<"}
    THEN Leaf(2, "text", Places(2, 2)) ELSE Declined

escape(d, o) ==
  LET escapable == {"\\", "tick", "*", "_", "{", "}", "[", "]", "(", ")", "#", "+", "-", ".",
                    "!", ":", "|", "&", "<", ">", "~"}
  IN IF o = Len(d) THEN Nothing(2)
     ELSE IF d[o + 1] = "\n" /\ "backslash_line_break" \in ext THEN Leaf(2, "br", Nowhere)
     ELSE IF d[o + 1] \in escapable THEN Leaf(2, "text", Places(2, 2))
     ELSE Declined

\* Mutant: the semicolon is not consumed.
EntityShort(d, o) ==
  LET e == From(d, o)
      k == Past(e, 2, is_alnum)
  IN IF k > Len(e) \/ e[k] # ";" THEN Declined ELSE Leaf(k - 1, "entity", Places(1, k))

\* An entity is one text, and &amp; the ampersand alone.
entity_at(d, o) ==
  LET To(e, k) == IF k > Len(e) \/ e[k] # ";" THEN Declined
                  ELSE Leaf(k, "entity", IF SubSeq(e, 1, k) = <<"&", "a", "m", "p", ";">> THEN Places(1, 1)
                                                                                       ELSE Places(1, k))
      Name(e) == To(e, Past(e, IF Len(e) > 1 /\ e[2] = "#" THEN 3 ELSE 2, is_alnum))
  IN Name(From(d, o))

-----------------------------------------------------------------------------
(***************************************************************************)
(* Brackets.                                                               *)
(***************************************************************************)
is_backslash_escaped(d, i) ==
  LET slashes == {j \in 1..i - 1 : \A k \in j..i - 1 : d[k] = "\\"}
  IN Cardinality(slashes) % 2 = 1

\* The bracket that closes the one before `first`, or past the end.
Closing(d, first) ==
  LET counted(i, c) == {k \in first..i : d[k] = c /\ ~is_backslash_escaped(d, k)}
      ends == {i \in first..Len(d) : Cardinality(counted(i, "]")) > Cardinality(counted(i, "["))}
  IN IF ends = {} THEN Len(d) + 1 ELSE CHOOSE i \in ends : \A j \in ends : i <= j

\* Forward to one of S, two places past every backslash.
PastEscapes(d, i, S) ==
  LET go[j \in 1..(Len(d) + 2)] ==
        IF j > Len(d) \/ d[j] \in S THEN j
        ELSE IF d[j] = "\\" THEN go[j + 2] ELSE go[j + 1]
  IN go[i]

\* (destination "title"), from the place after the parenthesis: the destination,
\* and the place of the closing one, past the end when the form is broken.
Destination(d, i) ==
  LET n == Len(d)
      Text(a, b) == {k \in a..b : ~is_space(d[k])}
      Ending(S, none) == IF S = {} THEN none ELSE Max(S)
      Quoted(stop, close) ==
        close = stop + 1 \/ d[Ending(Text(stop + 1, close - 1), close)] \in {"'", "\""}
      Trimmed(b, last) ==
        Places(IF d[b] = "<" THEN b + 1 ELSE b, IF d[last] = ">" THEN last - 1 ELSE last)
      Link(b, end) == Trimmed(b, Ending(Text(b, end - 1), b - 1))
      Form(b, stop, close) ==
        IF close > n THEN [close |-> n + 1, link |-> Nowhere]
        ELSE [close |-> close,
              link |-> Link(b, IF close # stop /\ ~Quoted(stop, close) THEN close ELSE stop)]
      Stopped(b, stop) ==
        Form(b, stop, IF stop <= n /\ d[stop] # ")" THEN PastEscapes(d, stop + 1, {")"}) ELSE stop)
      Begun(b) == Stopped(b, PastEscapes(d, b, {")", "'", "\""}))
  IN Begun(Past(d, i, is_space))

\* Text that spans lines as an id: a newline is a space unless one precedes it.
collapse_newlines(s) ==
  FlattenSeq([k \in DOMAIN s |-> IF s[k] # "\n" THEN <<s[k]>>
                                 ELSE IF k > 1 /\ s[k - 1] = " " THEN << >> ELSE <<" ">>])

Unbackslashed(s) ==
  LET from[i \in 1..(Len(s) + 2)] ==
        IF i > Len(s) \/ (s[i] = "\\" /\ i = Len(s)) THEN << >>
        ELSE IF s[i] = "\\" THEN <<s[i + 1]>> \o from[i + 2] ELSE <<s[i]>> \o from[i + 1]
  IN from[1]

LinkType(d, o) ==
  IF "footnotes" \in ext /\ o < Len(d) /\ d[o + 1] = "^" THEN "deferred"
  ELSE IF d[o] = "!" THEN "image"
  ELSE IF "footnotes" \in ext /\ d[o] = "^" THEN "inline note"
  ELSE "normal"

\* No link for want of a destination or of something to click on; otherwise the
\* node: a link's text is parsed unless the reference brings its own.
Linked(t, used, close, dest, alt) ==
  IF \/ t \in {"normal", "image"} /\ Unbackslashed(dest) = << >>
     \/ t = "normal" /\ close <= 2
    THEN Declined
  ELSE CASE t = "normal" -> IF alt # << >> THEN Leaf(used, "titled link", Nowhere)
                            ELSE Around(used, "link", Places(2, close - 1))
         [] t = "image" -> Leaf(used + 1, "image", Places(2, close - 1))
         [] t = "inline note" -> Leaf(used + 1, "note", Places(2, close - 1))
         [] t = "deferred" -> Leaf(used, "note", Nowhere)

is_reference_style_link(e, i, t) ==
  t # "deferred" /\ i < Len(e) /\ e[i] = "[" /\ e[i + 1] # "^"

\* The link in e whose text closes at close and which goes on at i.
LinkAt(e, t, close, i) ==
  LET n == Len(e)
      shown == SubSeq(e, IF t = "deferred" THEN 3 ELSE 2, close - 1)
      lines == \E k \in 1..Len(shown) : shown[k] = "\n"
      id == IF lines THEN collapse_newlines(SubSeq(e, 2, close - 1)) ELSE shown
      Inlined(dest) ==
        IF dest.close <= n
          THEN Linked(t, dest.close, close, SubSeq(e, dest.link.from, dest.link.to), << >>) ELSE Declined
      Found(end, name, own) ==
        IF name \in DOMAIN refs
          THEN Linked(t, end, close, refs[name].link, IF own THEN refs[name].text ELSE << >>) ELSE Declined
      Referred(end) ==
        IF end > n THEN Declined
        ELSE IF end = i + 1 THEN Found(end, id, ~lines)
        ELSE Found(end, SubSeq(e, i + 1, end - 1), FALSE)
  IN IF i <= n /\ e[i] = "(" THEN Inlined(Destination(e, i + 1))
     ELSE IF is_reference_style_link(e, i, t) THEN Referred(Upto(e, i + 1, LAMBDA x : x = "]"))
     ELSE IF t = "inline note" THEN Linked(t, close, close, << >>, << >>)
     ELSE Found(close, id, FALSE)

link(d, o, inside_link) ==
  LET Moved(a, by) == [a EXCEPT !.lit = Rebased(@, by), !.inner = Rebased(@, by)]
      Closed(e, t, close) ==
        IF close > Len(e) THEN Declined ELSE LinkAt(e, t, close, Past(e, close + 1, is_space))
      Text(e, t) == Closed(e, t, Closing(e, IF t = "deferred" THEN 3 ELSE 2))
      Typed(t, by) == Moved(Text(From(d, o + by), t), by)
      Of(t) == Typed(t, IF t \in {"image", "inline note"} THEN 1 ELSE 0)
  IN IF inside_link /\ ((o > 1 /\ d[o - 1] = "[") \/ (o < Len(d) /\ d[o + 1] = "^"))
       THEN Declined ELSE Of(LinkType(d, o))

\* maybe_image and maybe_inline_footnote: only before a bracket.
Bracketed(d, o, inside_link) ==
  IF o < Len(d) /\ d[o + 1] = "[" THEN link(d, o, inside_link) ELSE Declined

-----------------------------------------------------------------------------
(***************************************************************************)
(* Angle brackets: tags, comments and autolinks.                           *)
(***************************************************************************)
is_mailto_auto_link(d) ==
  LET To(k) == IF k <= Len(d) /\ d[k] = ">" /\ Cardinality({j \in 1..k - 1 : d[j] = "@"}) = 1
                 THEN k ELSE 0
  IN To(Past(d, 1, LAMBDA c : is_alnum(c) \/ c \in {"@", "-", ".", "_"}))

Tag(kind, n) == [kind |-> kind, size |-> n]

\* tag_length: what the angle bracket opens, and how long it is.  Without a
\* closing bracket the length is what had been looked at.
tag_length(d) ==
  LET n == Len(d)
      Bound(k, e) == IF e > n THEN k - 1 ELSE e
      Html(k) == Tag("html", Bound(k, Upto(d, k, LAMBDA c : c = ">")))
      Uri(body, stop) ==
        IF stop > n THEN Tag("uri", 0)
        ELSE IF stop > body /\ d[stop] = ">" THEN Tag("uri", stop)
        ELSE Html(stop)
      Scheme(i) ==
        IF i <= n /\ d[i] = ":" /\ (i > 3 \/ d[2] \in Words)
          THEN IF i = n THEN Html(i + 1)
               ELSE Uri(i + 1, PastEscapes(d, i + 1, {">", "'", "\"", " ", "\t", "\n"}))
          ELSE Html(i)
      Addressed(i, mail) == IF mail > 0 THEN Tag("email", i - 1 + mail) ELSE Scheme(i)
      To(i) == Addressed(i, IF i > 2 /\ i <= n /\ d[i] = "@" THEN is_mailto_auto_link(From(d, i)) ELSE 0)
      Name(first) == IF ~is_alnum(d[first]) THEN Tag("html", 0)
                     ELSE To(Past(d, first, LAMBDA c : is_alnum(c) \/ c \in {".", "+", "-"}))
  IN IF n < 3 THEN Tag("html", 0) ELSE Name(IF d[2] = "/" THEN 3 ELSE 2)

\* inline_html_comment: the end is looked for from the fifth character on.
inline_html_comment(d) ==
  LET ends == {k \in 6..Len(d) : SubSeq(d, k - 2, k) = <<"-", "-", ">">>}
  IN IF StartsWith(d, <<"<", "!", "-", "-">>) /\ ends # {}
       THEN CHOOSE k \in ends : \A j \in ends : k <= j ELSE 0

\* How much strip_mailto takes away.
strip_mailto(s) ==
  IF StartsWith(s, <<"m", ":", "/">>) THEN 3 ELSE IF StartsWith(s, <<"m", ":">>) THEN 2 ELSE 0

left_angle(d, o) ==
  LET Address(e, end, s) == IF Unbackslashed(s) = << >> THEN Nothing(end)
                            ELSE Leaf(end, "autolink", Places(2 + strip_mailto(s), end - 1))
      Sized(e, kind, end) ==
        IF end = 0 \/ (end = 2 /\ e[2] \notin Words) THEN Nothing(end)
        ELSE IF kind = "html" THEN Leaf(end, "html", Places(1, end))
        ELSE Address(e, end, SubSeq(e, 2, end - 1))
      Tagged(e, tag, comment) == Sized(e, tag.kind, IF comment > 0 THEN comment ELSE tag.size)
      At(e) == Tagged(e, tag_length(e), inline_html_comment(e))
  IN At(From(d, o))

-----------------------------------------------------------------------------
(***************************************************************************)
(* Bare links.                                                             *)
(***************************************************************************)
Protocols == {<<"h", ":", "/">>, <<"m", ":">>}
VALID_URIS == {<<"h", ":", "/">>, <<"m", ":", "/">>}
VALID_PATHS == {<<"/">>, <<".", "/">>, <<".", ".", "/">>}

is_safe_link(s) ==
  \/ \E p \in VALID_PATHS : StartsWith(s, p) /\ (s = p \/ is_alnum(s[Len(p) + 1]))
  \/ \E p \in VALID_URIS : StartsWith(s, p) /\ Len(s) > Len(p) /\ is_alnum(s[Len(p) + 1])

\* htmlEntityRe: a name of two letters or more with two digits at most, or a number.
html_entity_len(d) ==
  LET ByName(a, b) == (a >= 4 \/ (a = 3 /\ d[2] \in Words)) /\ b - a <= 2
      ByNumber(b) == Len(d) > 1 /\ d[2] = "#" /\ b > 3
      Known(a, b) == IF StartsAt(d, b, <<";">>) /\ (ByName(a, b) \/ ByNumber(b)) THEN b ELSE 0
      Hex(h) == IF h > 4 /\ d[2] = "#" /\ StartsAt(d, h, <<";">>) THEN h ELSE 0
      Name(a) == Known(a, Past(d, IF a > 2 THEN a ELSE 3, LAMBDA c : c \in Digits))
      Either(h) == IF h > 0 THEN h ELSE Name(Past(d, 2, is_letter))
  IN Either(IF StartsAt(d, 3, <<"x">>) THEN Hex(Past(d, 4, LAMBDA c : c \in DOMAIN HexDigits)) ELSE 0)

find_html_entities(d) ==
  {r \in {Places(k, k + html_entity_len(From(d, k)) - 1) : k \in {j \in DOMAIN d : d[j] = "&"}} : ~Empty(r)}

link_ends_with_entity(d) == \E r \in find_html_entities(d) : r.to = Len(d)

is_url_char(c) == is_alnum(c) \/ c \in {"-", "+", "&", "@", "#", "/", "%", "?", "=", "~", "_", "|", "!",
                                        ":", ",", ".", ";", "(", ")"}

\* The place behind the address at i, or 0.
url_len(d, i) ==
  LET To(a, k) == IF k > a THEN k ELSE 0
      Begun(a) == IF a = 0 THEN 0 ELSE To(a, Past(d, a, is_url_char))
  IN Begun(IF StartsAt(d, i, <<"h", ":", "/">>) THEN i + 3 ELSE IF StartsAt(d, i, <<"/">>) THEN i + 1 ELSE 0)

anchor_close(d, i) ==
  LET To(k) == IF k > 0 /\ StartsAt(d, k, <<"<", "/", "a", ">">>) THEN k + 3 ELSE 0
  IN IF StartsAt(d, i, <<">">>) THEN To(url_len(d, i + 1)) ELSE 0

anchor_tail(d, i) ==
  LET Either(spaced) == IF spaced > 0 THEN spaced ELSE anchor_close(d, i)
  IN Either(IF i <= Len(d) /\ is_space(d[i]) THEN anchor_close(d, i + 1) ELSE 0)

\* A whole anchor, tag, address and closing tag.
anchor_match_len(d) == IF StartsWith(d, <<"<", "A">>) THEN anchor_tail(d, 3) ELSE 0

\* Whether a bracket before the link's last character, on its line, is the one
\* that character closes: in the link or not, the closing one is then left out.
Unopened(d, opener) ==
  LET n == Len(d)
      line == {k \in 1..n - 1 : \A j \in k..n - 1 : d[j] # "\n"}
      opens(k) == Cardinality({j \in line : j >= k /\ d[j] = opener})
      closes(k) == Cardinality({j \in line : j >= k /\ d[j] = d[n]})
  IN \E k \in line : opens(k) = closes(k) + 1

is_end_of_link(c) == is_space(c) \/ c = "<"

OpenerOf(c) == CASE c = ")" -> "(" [] c = "]" -> "[" [] c = "}" -> "{" [] OTHER -> c

\* How much of e, up to stop, is the link: a full stop, a comma, a semicolon that
\* ends no entity and a closing bracket without its opener are left out.
LinkEnd(d, e, stop, before) ==
  LET Cut(k, S) == e[k] \in S /\ e[k - 1] # "\\"
      Bracket(k) == IF /\ e[k] \in {"\"", "'", ")", "]", "}"}
                       /\ Unopened(SubSeq(d, 1, before + k), OpenerOf(e[k]))
                      THEN k - 1 ELSE k
      Semicolon(k) == Bracket(IF Cut(k, {";"}) /\ ~link_ends_with_entity(SubSeq(e, 1, k))
                                THEN k - 1 ELSE k)
  IN Semicolon(IF Cut(stop, {".", ","}) THEN stop - 1 ELSE stop)

auto_link(d, o) ==
  LET Linking(e, rewind, end) ==
        IF Unbackslashed(SubSeq(e, 1, end)) = << >> THEN Nothing(end)
        ELSE Leaf(end, "autolink", Places(1 - rewind, end - rewind))
      Rewound(e, rewind) ==
        IF rewind > MaxRewind \/ ~is_safe_link(e) THEN Declined
        ELSE Linking(e, rewind, LinkEnd(d, e, Upto(e, 1, is_end_of_link) - 1, o - rewind - 1))
      Bare(first) == Rewound(From(d, first), o - first)
      Anchored(len) == IF len > 0 THEN Leaf(len, "html", Places(1, len))
                       ELSE Bare(Max({0} \cup {k \in 1..o - 1 : ~is_letter(d[k])}) + 1)
      Anchor(start, len) == Anchored(IF len > 0 THEN len - (o - start) ELSE 0)
      At(start) == Anchor(start, anchor_match_len(From(d, start)))
  IN At(Max({k \in 1..o : k = 1 \/ d[k] = "<"}))

maybe_auto_link(d, o, inside_link) ==
  IF ~inside_link /\ \E p \in Protocols : StartsAt(d, o, p) THEN auto_link(d, o) ELSE Declined

-----------------------------------------------------------------------------
(***************************************************************************)
(* The loop of Markdown::inline.                                           *)
(***************************************************************************)

\* callbacks: the characters the extensions give a handler.
Handled ==
  {" ", "*", "_", "tick", "\n", "[", "<", "\\", "&", "!", "^"}
    \cup (IF "strikethrough" \in ext THEN {"~"} ELSE {})
    \cup (IF "autolink" \in ext THEN Words ELSE {})

Handler(d, o, inside_link) ==
  CASE d[o] = " " -> maybe_line_break(d, o)
    [] d[o] \in {"*", "_", "~"} -> emphasis(d, o)
    [] d[o] = "tick" -> code_span(d, o)
    [] d[o] = "\n" -> line_break
    [] d[o] = "[" -> link(d, o, inside_link)
    [] d[o] = "<" -> left_angle(d, o)
    [] d[o] = "\\" -> escape(d, o)
    [] d[o] = "&" -> entity_at(d, o)
    [] d[o] \in {"!", "^"} -> Bracketed(d, o, inside_link)
    [] OTHER -> maybe_auto_link(d, o, inside_link)

\* A call of inline: its slice of the text, the first place not yet written and
\* the next to look at, both in the slice, and p.inside_link.
Call(r, inside) == [slice |-> r, beg |-> 1, end |-> 1, inside |-> inside]

\* A node: the places it takes and those its content and its literal do.
Node(kind, span, inner, lit, depth) ==
  [kind |-> kind, span |-> span, inner |-> inner, lit |-> lit, depth |-> depth]
TextNode(r, depth) == Node("text", r, Nowhere, r, depth)

Init ==
  \E c \in Cases : \E t \in c.texts :
    /\ ext = c.ext /\ text = t /\ refs = Refs
    /\ nodes = << >>
    /\ frames = IF t = << >> THEN << >> ELSE <<Call(Places(1, Len(t)), FALSE)>>

\* The nodes a handler's answer makes, for a handler that stood at `at`.
Made(a, at) ==
  LET depth == Len(frames)
      span == Places(at, at + a.used - 1)
      node(kind) == Node(kind, span, Rebased(a.inner, at - 1), Rebased(a.lit, at - 1), depth)
  IN CASE a.kind = "none" -> << >>
       [] a.kind = "strong emph" -> <<node("strong"), node("emph")>>
       [] OTHER -> <<node(a.kind)>>

\* What the next character with a handler makes of the call's slice: the place it
\* stands at, past the end if there is none, and the handler's answer.
Slice(f) == SubSeq(text, f.slice.from, f.slice.to)
Place(f, k) == f.slice.from + k - 1

Answered(f) ==
  LET d == Slice(f)
      at == Upto(d, f.end, LAMBDA c : c \in Handled)
  IN [at |-> at, a |-> IF at > Len(d) THEN Declined ELSE Handler(d, at, f.inside)]

TextBefore(f, k) ==
  TextNode(Places(Place(f, f.beg), Place(f, k - 1)), Len(frames))

Decline(f, at, a) ==
  /\ at <= Len(Slice(f)) /\ a.used = 0
  /\ frames' = Append(Front(frames), [f EXCEPT !.end = at + 1])
  /\ UNCHANGED nodes

\* The text before and the handler's node are appended, and the node's own
\* content is parsed before the loop goes on, unless that nests too deep.
Take(f, at, a) ==
  /\ a.used > 0
  /\ nodes' = nodes \o <<TextBefore(f, at)>> \o Made(a, Place(f, at))
  /\ LET on == Append(Front(frames), [f EXCEPT !.beg = at + a.used, !.end = at + a.used])
     IN frames' = IF Empty(a.inner) \/ Len(frames) >= MaxNesting THEN on
                  ELSE Append(on, Call(Rebased(a.inner, Place(f, at) - 1),
                                       f.inside \/ a.kind = "link"))

\* The end of the slice: one newline at the very end is dropped.
Return(f, at) ==
  /\ at > Len(Slice(f))
  /\ frames' = Front(frames)
  /\ nodes' = IF f.beg >= at THEN nodes
              ELSE Append(nodes, TextBefore(f, IF Last(Slice(f)) = "\n" THEN at - 1 ELSE at))

Turn ==
  /\ frames # << >>
  /\ \E f \in {Last(frames)} : \E x \in {Answered(f)} :
       Decline(f, x.at, x.a) \/ Take(f, x.at, x.a) \/ Return(f, x.at)
  /\ UNCHANGED <<ext, text, refs>>

InlineSpec == Init /\ [][Turn]_ivars

-----------------------------------------------------------------------------
Within(k, r) == k \in r.from..r.to

\* Literals follow each other as they do in the text and share no character,
\* however constructs that look ahead, rewind or give up are mixed.
NothingTwice ==
  \A i, j \in DOMAIN nodes :
    i < j /\ ~Empty(nodes[i].lit) /\ ~Empty(nodes[j].lit) => nodes[i].lit.to < nodes[j].lit.from

\* No letter is lost either: at the end each is in a literal, in the destination, title
\* or name that a link, image or note keeps, or in content nested too deep to be
\* parsed.  The one exception is the code's own: the letter of a one-letter tag
\* that is never closed, which tag_length says is as long as it has looked.
NothingLost ==
  frames = << >> =>
    \A k \in DOMAIN text : text[k] \in Letters =>
      \/ \E i \in DOMAIN nodes :
           LET n == nodes[i] IN
           \/ Within(k, n.lit)
           \/ /\ n.kind \in {"link", "titled link", "image", "note", "autolink", "entity"}
              /\ Within(k, n.span) /\ ~Within(k, n.inner)
           \/ n.depth = MaxNesting /\ Within(k, n.inner)
      \/ k > 1 /\ text[k - 1] = "<" /\ tag_length(From(text, k - 1)).size = 2

\* However constructs look ahead, rewind or give up, every letter goes to one place.
TextsOnce == NothingTwice /\ NothingLost

\* A delimiter behind an odd number of backslashes neither opens nor closes an
\* emphasis, where no code span or bracket hides the backslash from the search.
EscapedDelimiters ==
  \A i \in DOMAIN nodes :
    nodes[i].kind \in {"emph", "strong", "del"} /\ (\A k \in DOMAIN text : text[k] \notin {"tick", "["})
      => /\ ~is_backslash_escaped(text, nodes[i].span.from)
         /\ ~is_backslash_escaped(text, nodes[i].inner.to + 1)

\* The loop ends, whatever the handlers look past: every turn takes the innermost
\* call on, or goes into content that lies wholly behind the place that call has
\* moved on to and is shorter than its slice, or returns from it.
Size(f) == f.slice.to - f.slice.from + 1

InlineAdvances ==
  [][frames # << >> =>
     LET n == Len(frames)  f == Last(frames) IN
     \/ frames' = Front(frames)
     \/ /\ SubSeq(frames', 1, n - 1) = Front(frames)
        /\ frames'[n].end > f.end
        /\ Len(frames') = n + 1 =>
             /\ Size(frames'[n + 1]) < Size(f)
             /\ frames'[n + 1].slice.from > f.slice.from
             /\ frames'[n + 1].slice.to < Place(f, frames'[n].end) - 1 ]_ivars

=============================================================================
