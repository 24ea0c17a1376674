------------------------------- MODULE Chars -------------------------------
(***************************************************************************)
(* Characters and scanning: the classes of src/util.rs over the characters *)
(* that the other modules' texts are made of, and the one shape nearly all *)
(* loops of the parser have: go forward to the first character that ...    *)
(*                                                                         *)
(* A text is a sequence of characters; "tick" is the backquote.  A few     *)
(* stand for a run only ever looked at whole: "h" is a protocol (http,     *)
(* https, ftp), "m" is mailto, a "/" after a colon is the double slash,    *)
(* and "A" in <A> is all that lies between the brackets of an anchor's tag.*)
(* "U+C9" and "U+E9" are a letter outside ASCII, whose bytes the classes   *)
(* of util.rs count as nothing.                                            *)
(***************************************************************************)
EXTENDS Integers, Sequences, FiniteSets, SequencesExt

LowerCase == {"a", "b", "c", "d", "e", "f", "g", "h", "i", "l", "m", "n", "o", "p", "q", "r",
              "s", "t", "u", "v", "w", "x", "y", "z"}
Words == {"h", "m"}     \* the characters that stand for several letters
Letters == LowerCase \cup {"A", "B", "X"}
Digits == {"0", "1", "2", "3", "8", "9"}

is_punct(c) == c \in {"!", "\"", "#", "$", "%", "&", "'", "(", ")", "*", "+", ",", "-", ".", "/",
                      ":", ";", "<", "=", ">", "?", "@", "[", "\\", "]", "^", "_", "tick", "{", "|",
                      "}", "~"}
is_horizontal_space(c) == c \in {" ", "\t"}
is_vertical_space(c) == c \in {"\n", "\r", "\f"}
is_space(c) == is_horizontal_space(c) \/ is_vertical_space(c)
is_letter(c) == c \in Letters
is_alnum(c) == c \in Letters \cup Digits

-----------------------------------------------------------------------------
\* The first index from i on whose character satisfies P, past the end if none.
Upto(s, i, P(_)) ==
  IF \E j \in i..Len(s) : P(s[j])
    THEN CHOOSE j \in i..Len(s) : P(s[j]) /\ \A k \in i..(j - 1) : ~P(s[k])
    ELSE IF i > Len(s) THEN i ELSE Len(s) + 1

Past(s, i, P(_)) == Upto(s, i, LAMBDA c : ~P(c))

From(s, i) == SubSeq(s, i, Len(s))

StartsAt(s, i, t) == i + Len(t) - 1 <= Len(s) /\ SubSeq(s, i, i + Len(t) - 1) = t
StartsWith(s, t) == StartsAt(s, 1, t)

\* Texts made of up to n pieces.
Composed(pieces, n) == {FlattenSeq(p) : p \in UNION {[1..k -> pieces] : k \in 0..n}}

-----------------------------------------------------------------------------
\* is_indented: a tab counts one, whatever the size asked for.
is_indented(s, size) ==
  IF StartsWith(s, <<"\t">>) THEN 1
  ELSE IF Len(s) >= size /\ \A k \in 1..size : s[k] = " " THEN size
  ELSE 0

(***************************************************************************)
(* slugify: a run of characters that are not alphanumeric becomes one dash *)
(* and dashes at the ends go, except one that is all there is.             *)
(***************************************************************************)
Dashed(s) ==
  [k \in DOMAIN s |-> IF is_alnum(s[k]) THEN <<s[k]>>
                      ELSE IF k > 1 /\ ~is_alnum(s[k - 1]) THEN << >> ELSE <<"-">>]

slugify(s) ==
  LET Cut(out) == SubSeq(out, IF \E k \in DOMAIN out : out[k] # "-"
                                THEN Upto(out, 1, LAMBDA c : c # "-") ELSE Len(out),
                         Max({1} \cup {k \in DOMAIN out : out[k] # "-"}))
  IN IF s = << >> THEN << >> ELSE Cut(FlattenSeq(Dashed(s)))

(***************************************************************************)
(* sanitized_anchor_name of src/block.rs: a dash is due once a character   *)
(* was left out, and written before the next that is kept, in lower case.  *)
(***************************************************************************)
is_letter_or_number(c) == is_alnum(c) \/ c \in {"U+C9", "U+E9"}

SIMPLE_LOWER == [A |-> "a", B |-> "b", X |-> "x"] @@ ("U+C9" :> "U+E9")
simple_to_lower(c) == IF c \in DOMAIN SIMPLE_LOWER THEN SIMPLE_LOWER[c] ELSE c

sanitized_anchor_name(text) ==
  LET step(r, c) ==
        IF ~is_letter_or_number(c) THEN [r EXCEPT !.future_dash = TRUE]
        ELSE [future_dash |-> FALSE,
              name |-> r.name \o (IF r.future_dash /\ r.name # << >> THEN <<"-">> ELSE << >>)
                         \o <<simple_to_lower(c)>>]
  IN FoldLeft(step, [future_dash |-> FALSE, name |-> << >>], text).name

=============================================================================
