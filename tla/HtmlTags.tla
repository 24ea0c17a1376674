------------------------------ MODULE HtmlTags ------------------------------
(***************************************************************************)
(* html_tag_prefix_len of src/html.rs and the matchers behind it, written  *)
(* by hand where upstream has a regular expression, next to the patterns   *)
(* their comments quote and a matcher for patterns.                        *)
(*                                                                         *)
(* A length of 0 is None.  "CDATA" is one character.                       *)
(***************************************************************************)
EXTENDS Chars

re_space(d, i) == Past(d, i, is_space)

tag_name_len(d, i) ==
  IF i > Len(d) \/ ~is_letter(d[i]) THEN 0
  ELSE Past(d, i + 1, LAMBDA c : is_alnum(c) \/ c = "-") - i

attribute_value_len(d, i) ==
  LET j == Upto(d, i, LAMBDA c : is_space(c) \/ c \in {"\"", "'", "=", "<", ">", "tick"})
      quote == Upto(d, i + 1, LAMBDA c : c = d[i])
  IN IF i > Len(d) THEN 0
     ELSE IF j > i THEN j - i
     ELSE IF d[i] \in {"'", "\""} /\ quote <= Len(d) THEN quote + 1 - i ELSE 0

\* An equals sign with no value behind it is not part of the attribute.
attribute_len(d, i) ==
  LET Valued(stop, value, n) == IF n > 0 THEN value + n - i ELSE stop - i
      Value(stop, value) == Valued(stop, value, attribute_value_len(d, value))
      Equals(stop, at) == IF StartsAt(d, at, <<"=">>) THEN Value(stop, re_space(d, at + 1)) ELSE stop - i
      Stops(stop) == Equals(stop, re_space(d, stop))
      Name(at) == IF at = i \/ at > Len(d) \/ ~(is_letter(d[at]) \/ d[at] \in {"_", ":"}) THEN 0
                  ELSE Stops(Past(d, at + 1, LAMBDA c : is_alnum(c) \/ c \in {":", ".", "_", "-"}))
  IN Name(re_space(d, i))

open_tag_len(d) ==
  LET after[i \in 1..Len(d) + 1] ==
        LET Then(n) == IF n = 0 THEN i ELSE after[i + n] IN Then(attribute_len(d, i))
      Closed(end) == IF StartsAt(d, end, <<">">>) THEN end ELSE 0
      Ending(i) == Closed(IF StartsAt(d, i, <<"/">>) THEN i + 1 ELSE i)
      Name(n) == IF n = 0 THEN 0 ELSE Ending(re_space(d, after[2 + n]))
  IN IF StartsWith(d, <<"<">>) THEN Name(tag_name_len(d, 2)) ELSE 0

close_tag_len(d) ==
  LET Closed(end) == IF StartsAt(d, end, <<">">>) THEN end ELSE 0
      Name(n) == IF n = 0 THEN 0 ELSE Closed(re_space(d, 3 + n))
  IN IF StartsWith(d, <<"<", "/">>) THEN Name(tag_name_len(d, 3)) ELSE 0

\* Mutant: the first unit of a comment may be the end of another.
CommentAtOnce(d) ==
  LET ends == {k \in 6..Len(d) : SubSeq(d, k - 2, k) = <<"-", "-", ">">>}
  IN IF StartsWith(d, <<"<", "!", "-", "-">>) /\ ends # {}
       THEN CHOOSE k \in ends : \A j \in ends : k <= j ELSE 0

\* Units of one character that may have a dash before it; the first unit is no ">".
html_comment_len(d) ==
  LET Behind(i) == IF StartsAt(d, i, <<"-">>) THEN i + 1 ELSE i
      units[i \in 1..Len(d) + 1] ==
        LET Unit(k) == IF k > Len(d) \/ d[k] = "-" THEN 0 ELSE units[k + 1]
        IN IF StartsAt(d, i, <<"-", "-", ">">>) THEN i + 2 ELSE Unit(Behind(i))
      First(k) == IF k > Len(d) \/ d[k] \in {">", "-"} THEN 0 ELSE units[k + 1]
  IN IF StartsWith(d, <<"<", "!", "-", "-", "-", "-", ">">>) THEN 7
     ELSE IF ~StartsWith(d, <<"<", "!", "-", "-">>) THEN 0 ELSE First(Behind(5))

processing_instruction_len(d) ==
  LET end == Upto(d, 3, LAMBDA c : c = "\n")
      marks == {k \in 4..end - 1 : d[k - 1] = "?" /\ d[k] = ">"}
  IN IF StartsWith(d, <<"<", "?">>) /\ marks # {}
       THEN CHOOSE k \in marks : \A j \in marks : k <= j ELSE 0

declaration_len(d) ==
  LET Ending(end) == IF end <= Len(d) THEN end ELSE 0
      Name(i) == IF i > 3 /\ i <= Len(d) /\ is_space(d[i]) THEN Ending(Upto(d, i, LAMBDA c : c = ">"))
                 ELSE 0
  IN IF StartsWith(d, <<"<", "!">>) THEN Name(Past(d, 3, is_letter)) ELSE 0

cdata_len(d) ==
  LET marks == {k \in 8..Len(d) : SubSeq(d, k - 2, k) = <<"]", "]", ">">>}
  IN IF StartsWith(d, <<"<", "!", "[", "CDATA", "[">>) /\ marks # {}
       THEN CHOOSE k \in marks : \A j \in marks : k <= j ELSE 0

\* The first that matches, in this order.
html_tag_prefix_len(d) ==
  LET Tried(k, lengths) == IF k > Len(lengths) THEN 0 ELSE lengths[k]
      First(lengths) == Tried(Upto(lengths, 1, LAMBDA n : n > 0), lengths)
  IN First(<<open_tag_len(d), close_tag_len(d), html_comment_len(d),
             processing_instruction_len(d), declaration_len(d), cdata_len(d)>>)

-----------------------------------------------------------------------------
(* The scanner is_html_tag has of its own.                                 *)

\* The first ch outside quotes of every kind, or start if there is none.
skip_until_char_ignore_quotes(html, start, ch) ==
  LET open(q, k) == Cardinality({j \in start..k - 1 : html[j] = q}) % 2 = 1
      S == {k \in start..Len(html) : html[k] = ch /\ \A q \in {"'", "\"", "tick"} : ~open(q, k)}
  IN IF S = {} THEN start ELSE CHOOSE k \in S : \A j \in S : k <= j

skip_space(tag, i) == Past(tag, i, is_space)

\* The place of the tag's closing bracket, 0 for a tag of another name.
find_html_tag_pos(tag, tagname) ==
  LET Matches(b, there) == \A k \in there : simple_to_lower(tag[b + k - 1]) = tagname[k]
      Behind(i) == IF i = Len(tag) + 1 THEN 0 ELSE skip_until_char_ignore_quotes(tag, i, ">")
      Name(b, there) == IF Matches(b, there) THEN Behind(b + Cardinality(there)) ELSE 0
      NameAt(b) == Name(b, {k \in DOMAIN tagname : b + k - 1 <= Len(tag)})
      Slash(a) == NameAt(skip_space(tag, IF StartsAt(tag, a, <<"/">>) THEN a + 1 ELSE a))
  IN IF tag # << >> /\ tag[1] # "<" THEN 0 ELSE Slash(skip_space(tag, 2))

is_html_tag(tag, tagname) == find_html_tag_pos(tag, tagname) > 0

-----------------------------------------------------------------------------
(***************************************************************************)
(* Patterns, and the places at which a match can end that starts at one of *)
(* I.                                                                      *)
(***************************************************************************)
In(S) == [op |-> "in", set |-> S]
NotIn(S) == [op |-> "not in", set |-> S]
InTurn(parts) == [op |-> "in turn", parts |-> parts]
EitherOf(parts) == [op |-> "either", parts |-> parts]
AnyNumber(p) == [op |-> "any number", of |-> p]

RECURSIVE Ends(_, _, _)
Ends(p, s, I) ==
  CASE p.op = "in" -> {i + 1 : i \in {k \in I : k <= Len(s) /\ s[k] \in p.set}}
    [] p.op = "not in" -> {i + 1 : i \in {k \in I : k <= Len(s) /\ s[k] \notin p.set}}
    [] p.op = "in turn" -> FoldLeft(LAMBDA J, part : Ends(part, s, J), I, p.parts)
    [] p.op = "either" -> UNION {Ends(p.parts[k], s, I) : k \in DOMAIN p.parts}
    [] p.op = "any number" ->
         LET on == I \cup Ends(p.of, s, I) IN IF on = I THEN I ELSE Ends(p, s, on)

Literally(t) == InTurn([k \in DOMAIN t |-> In({t[k]})])
AtLeastOne(p) == InTurn(<<p, AnyNumber(p)>>)
Perhaps(p) == EitherOf(<<p, InTurn(<< >>)>>)

Spaces == AnyNumber(In({" ", "\t", "\n", "\r", "\f"}))
Space == AtLeastOne(In({" ", "\t", "\n", "\r", "\f"}))
TagName == InTurn(<<In(Letters), AnyNumber(In(Letters \cup Digits \cup {"-"}))>>)
AttributeName == InTurn(<<In(Letters \cup {"_", ":"}),
                          AnyNumber(In(Letters \cup Digits \cup {":", ".", "_", "-"}))>>)
Quoted(q) == InTurn(<<In({q}), AnyNumber(NotIn({q})), In({q})>>)
AttributeValue ==
  EitherOf(<<AtLeastOne(NotIn({"\"", "'", "=", "<", ">", "tick", " ", "\t", "\n", "\r", "\f"})),
             Quoted("'"), Quoted("\"")>>)
Attribute ==
  InTurn(<<Space, AttributeName, Perhaps(InTurn(<<Spaces, In({"="}), Spaces, AttributeValue>>))>>)
Comment ==
  EitherOf(<<Literally(<<"<", "!", "-", "-", "-", "-", ">">>),
             InTurn(<<Literally(<<"<", "!", "-", "-">>), Perhaps(In({"-"})), NotIn({">", "-"}),
                      AnyNumber(InTurn(<<Perhaps(In({"-"})), NotIn({"-"})>>)),
                      Literally(<<"-", "-", ">">>)>>)>>)

HtmlTag ==
  EitherOf(<<InTurn(<<In({"<"}), TagName, AnyNumber(Attribute), Spaces, Perhaps(In({"/"})), In({">"})>>),
             InTurn(<<Literally(<<"<", "/">>), TagName, Spaces, In({">"})>>),
             Comment,
             InTurn(<<Literally(<<"<", "?">>), AnyNumber(NotIn({"\n"})), Literally(<<"?", ">">>)>>),
             InTurn(<<Literally(<<"<", "!">>), AtLeastOne(In(Letters)), Space, AnyNumber(NotIn({">"})),
                      In({">"})>>),
             InTurn(<<Literally(<<"<", "!", "[", "CDATA", "[">>), AnyNumber(NotIn({})),
                      Literally(<<"]", "]", ">">>)>>)>>)

=============================================================================
