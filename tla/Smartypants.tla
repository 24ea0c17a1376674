---------------------------- MODULE Smartypants ----------------------------
(***************************************************************************)
(* The typographic rewriting of src/smartypants.rs: SpRenderer::process,   *)
(* which runs over one text node after the other, copies the bytes nobody  *)
(* handles, and lets a handler consume the byte it was called on and as    *)
(* many more as it reports.                                                *)
(*                                                                         *)
(* A text is a sequence of characters after HTML escaping, in which        *)
(* &quot;, &#0; and U+2044 are one character each; what is written is      *)
(* recorded as segments of the text with the name of what replaced them,   *)
(* a quote's being the entity written (angled ones count as double).       *)
(***************************************************************************)
EXTENDS Integers, Sequences

CONSTANT Configs  \* a renderer's flags with the texts to give it:
                  \* [dashes, fractions, alphabet, length], bounds the run

Quot == "&quot;"
Nul == "&#0;"
Digits == {"1", "2", "3", "4"}
Slashes == {"/", "frasl"}
Letters == {"a", "s", "t", "m", "d", "r", "e", "l", "v", "h", "c"}

ASSUME SmartAssumption ==
  \A c \in Configs :
    /\ c.dashes \in {"none", "dash", "latex"} /\ c.fractions \in BOOLEAN
    /\ c.length \in Nat
    /\ c.alphabet \subseteq Digits \cup Letters \cup
         {Quot, Nul, " ", "'", "tick", "-", ".", "/", "frasl", "(", ")", "<", ">"}

VARIABLES
  config,            \* the flags the renderer was built with, and its texts
  text,              \* the text being processed
  pos, mark,         \* i and mark of process
  out,               \* segments written: [from, to, as]
  open,              \* in_double_quote and in_single_quote
  lastQuote          \* the latest quote written of either kind: history, for
                     \* the property only

svars == <<config, text, pos, mark, out, open, lastQuote>>

Texts == UNION {[1..n -> config.alphabet] : n \in 0..config.length}
Kinds == {"double", "single"}

SmartInit ==
  /\ config \in Configs
  /\ text \in Texts
  /\ pos = 1 /\ mark = 1 /\ out = << >>
  /\ open = [k \in Kinds |-> FALSE]
  /\ lastQuote = [k \in Kinds |-> "none"]

-----------------------------------------------------------------------------
\* The character at i, NUL beyond either edge of the text.
Ch(i) == IF i \in DOMAIN text THEN text[i] ELSE "NUL"
Reads(i, s) == \A j \in DOMAIN s : Ch(i + j - 1) = s[j]

\* is_space, is_punct or neither, as the bytes of U+2044 are.
Class(c) == CASE c = "NUL" -> "edge"
              [] c = " " -> "space"
              [] c \in Digits \cup Letters \cup {"frasl"} -> "word"
              [] OTHER -> "punct"
WordBoundary(c) == Class(c) # "word"

\* What a handler decides: how much more it consumes, what it writes, and which
\* of the two states it sets to what.
Does(n, as) == [more |-> n, as |-> as, sets |-> "none", to |-> FALSE]
Copy == Does(0, "copy")

\* smart_quote_helper: sixteen cases of what stands on either side.
Toggling == {<<"edge", "edge">>, <<"space", "space">>, <<"punct", "punct">>}
Opening == {<<"space", "edge">>, <<"space", "punct">>, <<"edge", "word">>,
            <<"space", "word">>, <<"punct", "word">>}
Opens(p, n, isOpen) ==
  LET sides == <<Class(p), Class(n)>> IN
  sides \in Opening \/ (sides \in Toggling /\ ~isOpen)

Entity(quote, left) ==
  CASE quote = "d" -> (IF left THEN "ldquo" ELSE "rdquo")
    [] quote = "s" -> (IF left THEN "lsquo" ELSE "rsquo")

\* The letter of the entity and the state to read and set are two arguments,
\* and it is up to the handlers that they belong together.
Quote(quote, state, more) ==
  LET left == Opens(Ch(pos - 1), Ch(pos + more + 1), open[state]) IN
  [more |-> more, as |-> Entity(quote, left), sets |-> state, to |-> left]

\* The contractions of one and two letters.
Contracts ==
  \/ Ch(pos + 1) \in {"s", "t", "m", "d"} /\ WordBoundary(Ch(pos + 2))
  \/ /\ \E s \in {<<"r", "e">>, <<"l", "l">>, <<"v", "e">>} : Reads(pos + 1, s)
     /\ WordBoundary(Ch(pos + 3))

\* Mutant: two apostrophes count as a single quote, and still write a double one.
ApostropheOwn ==
  IF Ch(pos + 1) = "'" THEN Quote("d", "single", 1)
  ELSE IF Contracts THEN Does(0, "apos")
  ELSE Quote("s", "single", 0)

\* smart_single_quote: a double quote spelled '', a contraction, whose &rsquo;
\* leaves the state alone, or a quote.
Apostrophe ==
  IF Ch(pos + 1) = "'" THEN Quote("d", "double", 1)
  ELSE IF Contracts THEN Does(0, "apos")
  ELSE Quote("s", "single", 0)

Parens ==
  IF Reads(pos + 1, <<"c", ")">>) THEN Does(2, "copy sign")
  ELSE IF Reads(pos + 1, <<"r", ")">>) THEN Does(2, "reg")
  ELSE IF Reads(pos + 1, <<"t", "m", ")">>) THEN Does(3, "trade")
  ELSE Copy

\* smart_dash and smart_dash_latex.
DashSimple ==
  IF Ch(pos + 1) = "-" THEN Does(1, "mdash")
  ELSE IF /\ Ch(pos + 1) # "NUL" /\ WordBoundary(Ch(pos - 1)) /\ WordBoundary(Ch(pos + 1))
    THEN Does(0, "ndash")
    ELSE Copy

DashLatex ==
  IF Reads(pos + 1, <<"-", "-">>) THEN Does(2, "mdash")
  ELSE IF Ch(pos + 1) = "-" THEN Does(1, "ndash")
  ELSE Copy

Dash == IF config.dashes = "latex" THEN DashLatex ELSE DashSimple

Period ==
  IF Reads(pos + 1, <<".", ".">>) THEN Does(2, "hellip")
  ELSE IF Reads(pos + 1, <<" ", ".", " ", ".">>) THEN Does(4, "hellip")
  ELSE Copy

\* The end of the run of digits that starts at i, exclusive.
DigitsEnd(i) == CHOOSE e \in i..Len(text) + 1 :
                  Ch(e) \notin Digits /\ \A j \in i..e - 1 : Ch(j) \in Digits

StartsNumber == WordBoundary(Ch(pos - 1)) /\ Ch(pos - 1) # "/"

\* Mutant: a date is not told from a fraction.
EndsNumberDated(e) == WordBoundary(Ch(e))
EndsNumber(e) == WordBoundary(Ch(e)) /\ Ch(e) # "/"

\* smart_number_generic.
AnyFraction ==
  LET numEnd == DigitsEnd(pos)
      denEnd == DigitsEnd(numEnd + 1) IN
  IF /\ StartsNumber /\ Ch(numEnd) \in Slashes
     /\ denEnd > numEnd + 1 /\ EndsNumber(denEnd)
  THEN Does(denEnd - 1 - pos, "frac") ELSE Copy

\* smart_number: the three fractions HTML names, two of them also as ordinals.
NamedFraction ==
  IF /\ StartsNumber
     /\ \/ /\ \E s \in {<<"1", "/", "2">>, <<"1", "/", "4">>, <<"3", "/", "4">>} : Reads(pos, s)
           /\ EndsNumber(pos + 3)
        \/ Reads(pos, <<"1", "/", "4", "t", "h">>)
        \/ Reads(pos, <<"3", "/", "4", "t", "h", "s">>)
  THEN Does(2, "frac") ELSE Copy

\* smart_left_angle: through the end of the tag, or of the text.
LeftAngle ==
  LET ends == {j \in pos..Len(text) : text[j] = ">"} IN
  IF ends = {} THEN Does(Len(text) + 1 - pos, "copy")
  ELSE Does((CHOOSE j \in ends : \A k \in ends : j <= k) - pos, "copy")

\* smart_amp_variant, at the entity of a quote or of a NUL, and smart_backtick.
Ampersand == IF text[pos] = Quot THEN Quote("d", "double", 0) ELSE Does(0, "nothing")
Backtick == IF Ch(pos + 1) = "tick" THEN Quote("d", "double", 1) ELSE Copy

\* SpRenderer::new's table, and dispatch.
Handlers == {"'", "(", ".", "<", "tick", Quot, Nul}
              \cup (IF config.dashes = "none" THEN {} ELSE {"-"})
              \cup (IF config.fractions THEN Digits ELSE {"1", "3"})

Dispatched ==
  LET c == text[pos] IN
  CASE c \in {Quot, Nul} -> Ampersand
    [] c = "'"  -> Apostrophe
    [] c = "tick" -> Backtick
    [] c = "("  -> Parens
    [] c = "-"  -> Dash
    [] c = "."  -> Period
    [] c = "<"  -> LeftAngle
    [] OTHER    -> IF config.fractions THEN AnyFraction ELSE NamedFraction

-----------------------------------------------------------------------------
\* min(i + 1): an unclosed tag runs to the end of the text.
Clip(i) == IF i > Len(text) THEN Len(text) ELSE i
Flushed == IF pos > mark THEN << [from |-> mark, to |-> pos - 1, as |-> "copy"] >>
                         ELSE << >>

\* The loop passes over a character without a handler.
Pass ==
  /\ pos \in DOMAIN text /\ text[pos] \notin Handlers
  /\ pos' = pos + 1
  /\ UNCHANGED <<config, text, mark, out, open, lastQuote>>

\* What the history makes of an entity written; a contraction is no quote.
Lefts == {"ldquo", "lsquo"}
KindOf(as) == CASE as \in {"ldquo", "rdquo"} -> "double"
                [] as \in {"lsquo", "rsquo"} -> "single"
                [] OTHER -> "none"

Record(as) == lastQuote' = [k \in Kinds |-> IF KindOf(as) = k THEN as ELSE lastQuote[k]]

\* Mutant: what is copied next starts with what was just replaced.
HandleMarkHere ==
  /\ pos \in DOMAIN text /\ text[pos] \in Handlers
  /\ LET d == Dispatched IN
     /\ out' = out \o Flushed \o
          << [from |-> pos, to |-> Clip(pos + d.more), as |-> d.as] >>
     /\ pos' = pos + d.more + 1
     /\ mark' = pos + d.more
     /\ open' = IF d.sets \in Kinds THEN [open EXCEPT ![d.sets] = d.to] ELSE open
     /\ Record(d.as)
  /\ UNCHANGED <<config, text>>

Handle ==
  /\ pos \in DOMAIN text /\ text[pos] \in Handlers
  /\ LET d == Dispatched IN
     /\ out' = out \o Flushed \o
          << [from |-> pos, to |-> Clip(pos + d.more), as |-> d.as] >>
     /\ pos' = pos + d.more + 1
     /\ mark' = pos + d.more + 1
     /\ open' = IF d.sets \in Kinds THEN [open EXCEPT ![d.sets] = d.to] ELSE open
     /\ Record(d.as)
  /\ UNCHANGED <<config, text>>

\* The rest is copied, if any: afterwards `mark` is past the text.
Finish ==
  /\ pos > Len(text) /\ mark <= Len(text)
  /\ out' = out \o Flushed
  /\ mark' = pos
  /\ UNCHANGED <<config, text, pos, open, lastQuote>>

\* process returns; between two calls pos is 0.
Leave ==
  /\ pos > Len(text) /\ mark > Len(text)
  /\ text' = << >>
  /\ pos' = 0 /\ mark' = 0 /\ out' = << >>
  /\ UNCHANGED <<config, open, lastQuote>>

\* It is called for the next text node, of this document or of the next one.
Enter ==
  /\ pos = 0
  /\ text' \in Texts
  /\ pos' = 1 /\ mark' = 1
  /\ UNCHANGED <<config, out, open, lastQuote>>

SmartNext == Pass \/ Handle \/ Finish \/ Leave \/ Enter
SmartSpec == SmartInit /\ [][SmartNext]_svars

-----------------------------------------------------------------------------
\* What each replacement may stand for.
Spellings(as) ==
  CASE as = "hellip" -> {<<".", ".", ".">>, <<".", " ", ".", " ", ".">>}
    [] as = "mdash"  -> IF config.dashes = "latex" THEN {<<"-", "-", "-">>} ELSE {<<"-", "-">>}
    [] as = "ndash"  -> IF config.dashes = "latex" THEN {<<"-", "-">>} ELSE {<<"-">>}
    [] as = "copy sign" -> {<<"(", "c", ")">>}
    [] as = "reg"    -> {<<"(", "r", ")">>}
    [] as = "trade"  -> {<<"(", "t", "m", ")">>}
    [] as = "apos"   -> {<<"'">>}
    [] as = "nothing" -> {<<Nul>>}
    [] as \in {"ldquo", "rdquo"} -> {<<Quot>>, <<"'", "'">>, <<"tick", "tick">>}
    [] as \in {"lsquo", "rsquo"} -> {<<"'">>}
    [] OTHER -> {}

\* Digits, one slash of either kind, and digits.
IsFraction(piece) ==
  \E i \in 2..Len(piece) - 1 :
    piece[i] \in Slashes /\ \A j \in DOMAIN piece \ {i} : piece[j] \in Digits

\* Every character of a text is read once and in order, whatever the handlers
\* consume: what is written never drops or repeats a piece of the text, and a
\* replacement stands for exactly the characters that spell it.
EachReadOnce ==
  /\ \A i \in DOMAIN out :
       LET piece == SubSeq(text, out[i].from, out[i].to) IN
       /\ out[i].from = IF i = 1 THEN 1 ELSE out[i - 1].to + 1
       /\ out[i].as \notin {"copy", "frac"} => piece \in Spellings(out[i].as)
       /\ out[i].as = "frac" => IsFraction(piece)
  /\ mark > Len(text) /\ text # << >> => out[Len(out)].to = Len(text)

\* Where its neighbours decide nothing, a quote opens exactly if the last one
\* written of its kind did not: quotes left to the state alternate, in whatever
\* of its spellings each is written, across contractions, quotes the neighbours
\* decided, text nodes, titles and documents.
QuotesAlternate ==
  [][\A i \in DOMAIN out' \ DOMAIN out :
       LET s == out'[i]  k == KindOf(s.as) IN
       k \in Kinds /\ <<Class(Ch(s.from - 1)), Class(Ch(s.to + 1))>> \in Toggling
         => (s.as \in Lefts <=> lastQuote[k] \notin Lefts)]_svars

\* A fraction is never cut out of a longer run of digits and slashes, such as
\* a date, although its parts are offered to the handlers one by one.
DatesKept ==
  \A i \in DOMAIN out : out[i].as = "frac" =>
    \A c \in {Ch(out[i].from - 1), Ch(out[i].to + 1)} : c \notin Digits \cup Slashes

=============================================================================
