----------------------------- MODULE MCDocument -----------------------------
(***************************************************************************)
(* Texts for inline and documents for block: one set for each family of    *)
(* constructs, with the extensions it needs, made of the pieces that       *)
(* interact.                                                               *)
(***************************************************************************)
EXTENDS Document

Char(S) == {<<c>> : c \in S}
Case(e, t) == [ext |-> e, texts |-> t]

Indent4 == <<" ", " ", " ", " ">>
After(start, texts) == {start \o t : t \in texts}

MCCases ==
  { Case({"no_intra_emphasis"}, Composed(Char({"a", "*", "_", " ", "\\"}), 5)),
    Case({"strikethrough", "footnotes"}, Composed(Char({"*", "a", "~", "tick", "["}), 5)),
    Case({}, After(<<"*", "*", "*">>, Composed(Char({"*", "a", " ", "\\"}), 5))),
    Case({"footnotes"}, After(<<"[">>,
       Composed({<<"[">>, <<"]">>, <<"a">>, <<"^", "[">>, <<"]", "(">>, <<")">>, <<"\n">>}, 4))),
    Case({"footnotes"}, Composed({<<"[", "a", "]">>, <<"[", "]">>, <<"!">>, <<"[", "^", "a", "]">>,
       <<"(", "a", " ">>, <<"\"">>, <<")">>}, 4)),
    Case({"autolink"}, Composed({<<"<">>, <<"a">>, <<">">>, <<"@">>, <<":">>, <<"/">>, <<"m", ":">>,
       <<"!", "-", "-">>, <<" ">>}, 4)),
    Case({"autolink"}, After(<<"h", ":", "/", "a">>, Composed({<<"(">>, <<")">>, <<";">>,
       <<"&", "a", "m", "p">>, <<".">>, <<"[">>}, 4))),
    Case({"autolink"}, Composed({<<"h", ":", "/", "a">>, <<"m", ":">>, <<"<", "A", ">">>,
       <<"<", "/", "a", ">">>, <<" ">>}, 4)),
    Case({"hard_line_break", "backslash_line_break"},
       Composed(Char({"a", " ", "\n", "\\", "&", ";"}), 4)),
    Case({}, Composed(Char({"a", " ", "\n", "tick"}), 5)),
    Case({}, Composed({<<"&">>, <<"#">>, <<"1">>, <<"3">>, <<"x">>, <<";">>, <<"l", "t">>, <<"n">>,
       <<"<">>}, 4)),
    Case({}, Composed(Char({"a", "A", "U+C9", "!", "-", "1"}), 4)),
    Case({}, Composed({<<"h", ":", "/">>, <<"m", ":">>, <<"/">>, <<".">>, <<"#">>, <<"a">>}, 4)),
    Case({}, After(<<"<", "a", " ", "b">>,
       Composed({<<"=">>, <<"=", "\"">>, <<"\"">>, <<"'">>, <<">">>, <<"/">>, <<" ">>, <<"c">>}, 4))),
    Case({}, After(<<"<", "!">>, Composed(Char({"-", "a", ">", " "}), 6))),
    Case({}, After(<<"<">>,
       Composed({<<"/">>, <<"?">>, <<">">>, <<"\n">>, <<"a">>, <<"!", "[", "CDATA", "[">>, <<"]">>}, 4))) }

MCDocuments ==
  { Case({"heading_ids"}, Composed({<<"#">>, <<" ">>, <<"a">>, <<"{", "#", "b", "}">>, <<"\n">>, <<"\\">>}, 4)),
    Case({"title_block", "no_empty_line_before_block"},
       Composed({<<"a">>, <<"\n">>, <<"=", "\n">>, <<"-", " ">>, <<"%", " ">>, <<"*", "*", "*">>}, 5)),
    Case({"fenced_code"}, Composed({<<">", " ">>, <<"a">>, <<"\n">>, <<"~", "~", "~">>}, 6)),
    Case({"fenced_code"}, After(<<"*", " ", "a", "\n">>,
       Composed({<<"*", " ">>, <<"1", ".", " ">>, <<"b">>, <<"\n">>, Indent4, <<"~", "~", "~", "\n">>}, 5))),
    Case({}, Composed({<<"\t">>, Indent4, <<"a">>, <<"\n">>, <<" ">>}, 5)),
    Case({"tables"}, After(<<"a", "|", "b", "\n", "-", "-", "-", "|", "-", "-", "-", "\n">>,
       Composed({<<"c">>, <<"|">>, <<"\n">>, <<"\\">>}, 5))),
    Case({"tables"}, After(<<"a", "|">>,
       Composed({<<"b">>, <<"|">>, <<"\n">>, <<"-", "-", "-">>, <<":", "-", "-">>, <<" ">>}, 5))),
    Case({"lax_html_blocks"}, Composed({<<"<", "p", ">">>, <<"<", "/", "p", ">">>, <<"\n">>, <<"a">>,
       <<"<", "h", "r", ">">>, <<"<", "!", "-", "-">>, <<" ", "-", "-", ">">>}, 4)),
    Case({}, After(<<"<", "p", ">", "a">>, Composed({<<"<", "/", "p", ">">>, <<"\n">>, <<"b">>}, 5))),
    Case({"footnotes"}, After(<<"[", "a", "]", "a", "\n">>,
       Composed({<<"[", "a", "]", ":">>, <<"[", "^", "b", "]", ":">>, <<"c">>, <<" ">>, <<"\n">>, <<"\"">>, Indent4}, 5))),
    Case({"definition_lists"}, Composed({<<"\n", "a", "\n">>, <<":", " ", "b", "\n">>,
       <<"\n", "*", " ", "c", "\n">>, <<"\n">>, <<"\n">> \o Indent4 \o <<"d", "\n">>}, 5)),
    Case({"definition_lists"}, Composed({<<"a", "\n">>, <<":", " ", "b", "\n">>, <<"\n">>,
       <<"\t", "+", " ", "c", "\n">>, <<"\t", "+", " ", "\n">>, <<":", " ">>}, 5)),
    Case({}, After(<<"[", "a", "]", ":">>,
       Composed({<<"<">>, <<">">>, <<"c">>, <<"\"">>, <<"\n">>, <<"\n", "\r">>, <<" ">>}, 4))) }

\* What may stand behind a definition and a blank line.
MCEndings ==
  { Case({"definition_lists"},
         After(<<"a", "\n", ":", " ", "b", "\n", "\n">>, Composed({<<"c">>, <<"\n">>}, 4))) }

MCRefs == <<"a">> :> [link |-> <<"b">>, text |-> <<"c">>]
MCCoded == 1 :> "a" @@ 2 :> "&" @@ 3 :> "<"
=============================================================================
