----------------------------- MODULE Rewriting -----------------------------
(***************************************************************************)
(* What the program makes of a whole text without parsing it: the block    *)
(* parser's own unescape_string, for the info string of a fence, and the   *)
(* address and attributes of a link in src/html.rs.  Then what these and   *)
(* the conversions of Escapes and Chars owe the text they are given.       *)
(***************************************************************************)
EXTENDS Inline

\* charEntity: a name of two characters or more, or up to eight digits; the length
\* of the one at i, or 0.
char_entity_len(s, i) ==
  LET Ending(k, long) == IF long /\ k <= Len(s) /\ s[k] = ";" THEN k + 1 - i ELSE 0
      Numbered(first, k) == Ending(k, k - first \in 1..8)
      Worded(k) == Ending(k, is_letter(s[i + 1]) /\ k - i - 1 \in 2..32)
  IN IF s[i] # "&" \/ i = Len(s) THEN 0
     ELSE IF s[i + 1] # "#" THEN Worded(Past(s, i + 1, is_alnum))
     ELSE IF i + 2 <= Len(s) /\ s[i + 2] \in {"x", "X"}
       THEN Numbered(i + 3, Past(s, i + 3, LAMBDA c : c \in DOMAIN HexDigits))
     ELSE Numbered(i + 2, Past(s, i + 2, LAMBDA c : c \in Digits))

\* unescape_string of src/block.rs, which looks at backslashes only when there is an
\* ampersand (BUGS.md).
unescape_info(s) ==
  LET from[i \in 1..(Len(s) + 1)] ==
        LET Then(n) == IF n > 0 THEN unescape_string(SubSeq(s, i, i + n - 1)) \o from[i + n]
                       ELSE <<s[i]>> \o from[i + 1]
        IN IF i > Len(s) THEN << >>
           ELSE IF s[i] = "\\" /\ i < Len(s) /\ is_punct(s[i + 1]) THEN <<s[i + 1]>> \o from[i + 2]
           ELSE Then(char_entity_len(s, i))
  IN IF "&" \in ToSet(s) THEN from[1] ELSE s

-----------------------------------------------------------------------------
is_relative_link(l) ==
  \/ l[1] = "#" \/ l = <<"/">>
  \/ Len(l) > 1 /\ l[1] = "/" /\ l[2] # "/"
  \/ StartsWith(l, <<".", "/">>) \/ StartsWith(l, <<".", ".", "/">>)

add_abs_prefix(prefix, l) ==
  IF prefix # << >> /\ l # << >> /\ is_relative_link(l) /\ l[1] # "."
    THEN prefix \o (IF l[1] # "/" THEN <<"/">> ELSE << >>) \o l ELSE l

is_mailto(l) == StartsWith(l, <<"m", ":">>)

need_skip_link(flags, l) ==
  "SKIP_LINKS" \in flags \/ ("SAFELINK" \in flags /\ ~is_safe_link(l) /\ ~is_mailto(l))

Rels == {"NOFOLLOW_LINKS", "NOREFERRER_LINKS", "NOOPENER_LINKS"}

append_link_attrs(flags, l) ==
  IF is_relative_link(l) THEN {}
  ELSE (flags \cap {"HREF_TARGET_BLANK"}) \cup (IF flags \cap Rels # {} THEN {"rel"} ELSE {})

-----------------------------------------------------------------------------
(* What the conversions of bytes do to any text; looked at before it is    *)
(* parsed.                                                                 *)
Unparsed == nodes = << >> /\ Len(frames) = 1 /\ frames[1].end = 1

\* Escaping loses nothing: reading the references back gives the text.
EscapedReadsBack == unescape_string(escape_all_html(text)) = text

\* What escape_html and esc_link write can stand in HTML: no bare bracket or
\* quote, every ampersand the start of an entity that is known, although they
\* copy the entities they find; and escaping again changes nothing.
EscapedStaysEscaped ==
  \A s \in {escape_html(text), esc_link(text)} :
    /\ \A k \in DOMAIN s : s[k] \in Escapable => s[k] = "&" /\ node_is_entity(s, k) > 0
    /\ escape_html(s) = s

\* slugify and sanitized_anchor_name, written with loops of different kinds, agree on
\* ASCII but for the case and for a text of symbols only; each leaves its own names.
NamesAgree ==
  LET Lower(s) == [k \in DOMAIN s |-> simple_to_lower(s[k])]
      Kept(slug, name) ==
        /\ slugify(slug) = slug /\ sanitized_anchor_name(name) = name
        /\ ToSet(text) \cap {"U+C9", "U+E9"} = {} =>
             name = IF \E k \in DOMAIN text : is_alnum(text[k]) THEN Lower(slug) ELSE << >>
  IN Kept(slugify(text), sanitized_anchor_name(text))

\* The info string of a fence reads the references that escaping writes as
\* unescape_string does, where no backslash is in the way.
InfoReadsBack == "\\" \notin ToSet(text) => unescape_info(escape_all_html(text)) = text

\* A link is given its prefix once.  The prefix makes no link one to skip, although what
\* is skipped is decided without it, and a link that is safe is one that is_relative_link
\* knows or has a protocol: two tests, of which only one sees a double slash.  Of the links
\* under the prefix only those that start with a dot are spared the attributes.
Prefix == <<"h", ":", "/", "a">>

LinksKept ==
  LET safe == {"SAFELINK"}
      given == add_abs_prefix(Prefix, text)
  IN /\ add_abs_prefix(Prefix, given) = given
     /\ ~need_skip_link(safe, text) => ~need_skip_link(safe, given)
     /\ is_safe_link(text) => \/ is_relative_link(text)
                              \/ \E u \in VALID_URIS : StartsWith(text, u)
     /\ append_link_attrs({"NOFOLLOW_LINKS"}, given) = {} => text[1] = "."

\* What the program writes of a text, escaped, unescaped, made a name or an address, reads
\* back as that text, can stand where it is put, and is not changed by doing it again.
Conversions ==
  Unparsed => /\ EscapedReadsBack /\ EscapedStaysEscaped /\ NamesAgree
              /\ InfoReadsBack /\ LinksKept

=============================================================================
