------------------------------ MODULE Escapes ------------------------------
(***************************************************************************)
(* Character references, written and read: escape_html, escape_all_html    *)
(* and esc_link of src/esc.rs, unescape_string of src/unescape.rs with its *)
(* wrapping arithmetic, and the tables both consult.                       *)
(*                                                                         *)
(* The tables are kept to a few names: enough to have a name that is the   *)
(* beginning of another run of letters, one that needs its semicolon and   *)
(* one that stands for two characters.  The numbers are scaled down with   *)
(* the width they wrap at.                                                 *)
(***************************************************************************)
EXTENDS Chars

CONSTANTS Width,        \* values of the number of a numeric reference: 2^32
          MaxRune,      \* the last code point: 0x10FFFF
          Surrogates,   \* codes that are no character: 0xD800..0xDFFF
          Windows,      \* codes replaced as in windows-1252: 0x80..0x9F
          Coded         \* the characters that have a code here: code -> character

ASSUME EscapeAssumption ==
  /\ Width \in Nat \ {0, 1} /\ Width % 2 = 0
  /\ MaxRune \in 1..(Width \div 2 - 1)
  /\ Surrogates \subseteq 1..MaxRune /\ Windows \subseteq 1..MaxRune
  /\ \A c \in DOMAIN Coded : c \in 1..MaxRune

Replacement == "U+FFFD"
OtherRune == "U+"       \* any character but those of Coded
WindowsRune == "U+20AC"

-----------------------------------------------------------------------------
\* ENTITIES of entities.rs: ampersand, name and semicolon.
ENTITIES == {<<"&", "a", "m", "p", ";">>, <<"&", "l", "t", ";">>, <<"&", "g", "t", ";">>,
             <<"&", "q", "u", "o", "t", ";">>, <<"&", "n", "o", "t", ";">>, <<"&", "n", "e", ";">>}

is_entity(candidate) == candidate \in ENTITIES

\* ENTITY of html_entities.rs: names with and without their semicolon.
Valued(name, char) == {<<name, char>>, <<name \o <<";">>, char>>}
ENTITY == Valued(<<"a", "m", "p">>, "&") \cup Valued(<<"l", "t">>, "<")
            \cup Valued(<<"g", "t">>, ">") \cup Valued(<<"q", "u", "o", "t">>, "\"")
            \cup Valued(<<"n", "o", "t">>, "U+AC") \cup {<< <<"n", "e", ";">>, "U+2260">>}
ENTITY2 == {<< <<"n", "l", "t", ";">>, <<"<", "U+20D2">> >>}

LONGEST_ENTITY_WITHOUT_SEMICOLON == 6

entity(name) == {e[2] : e \in {x \in ENTITY : x[1] = name}}
entity2(name) == {e[2] : e \in {x \in ENTITY2 : x[1] = name}}

-----------------------------------------------------------------------------
html_escape_seq(c) ==
  CASE c = "&"  -> <<"&", "a", "m", "p", ";">>
    [] c = "<"  -> <<"&", "l", "t", ";">>
    [] c = ">"  -> <<"&", "g", "t", ";">>
    [] c = "\"" -> <<"&", "q", "u", "o", "t", ";">>
    [] OTHER -> <<c>>

Escapable == {"&", "<", ">", "\""}

\* Mutant: whatever lies between an ampersand and a semicolon is an entity.
AnyRun(s, k) ==
  LET e == Upto(s, k + 1, LAMBDA c : c = ";")
  IN IF s[k] = "&" /\ e <= Len(s) THEN e ELSE 0

\* node_is_entity: the end of the known entity that starts at k, or 0.
node_is_entity(s, k) ==
  LET stop == Past(s, k + 1, LAMBDA c : is_alnum(c) \/ c \in {"&", "#"})
  IN IF s[k] = "&" /\ stop <= Len(s) /\ s[stop] = ";" /\ is_entity(SubSeq(s, k, stop))
       THEN stop ELSE 0

\* escape_entities: what is inside an entity is copied with it.
escape_entities(s, escape_valid_entities) ==
  LET copied(k) == ~escape_valid_entities /\ \E j \in 1..k : node_is_entity(s, j) >= k
  IN FlattenSeq([k \in DOMAIN s |->
       IF s[k] \in Escapable /\ ~copied(k) THEN html_escape_seq(s[k]) ELSE <<s[k]>>])

escape_html(s) == escape_entities(s, FALSE)
escape_all_html(s) == escape_entities(s, TRUE)

-----------------------------------------------------------------------------
(***************************************************************************)
(* unescape_entity: what the reference at i stands for, and where the text *)
(* goes on.  The number is a signed integer that wraps as it is read.      *)
(***************************************************************************)
Read(chars, next) == [chars |-> chars, next |-> next]

HexDigits == "0" :> 0 @@ "1" :> 1 @@ "2" :> 2 @@ "3" :> 3 @@ "8" :> 8 @@ "9" :> 9
               @@ "a" :> 10 @@ "b" :> 11
Decimals == [c \in Digits |-> HexDigits[c]]

Wrapped(x) == LET r == x % Width IN IF 2 * r >= Width THEN r - Width ELSE r

Number(digits, base) ==
  FoldLeft(LAMBDA x, c : Wrapped(x * base + HexDigits[c]), 0, digits)

Rune(x) ==
  IF x \in Windows THEN WindowsRune
  ELSE IF x <= 0 \/ x \in Surrogates \/ x > MaxRune THEN Replacement
  ELSE IF x \in DOMAIN Coded THEN Coded[x] ELSE OtherRune

\* Where a reference that goes up to stop ends, its semicolon included.
Terminated(s, stop) == IF StartsAt(s, stop, <<";">>) THEN stop + 1 ELSE stop

Numeric(s, i) ==
  LET Digit(first, base, stop, next) ==
        IF Len(s) - i < 3 \/ next - i <= 3
          THEN Read(<<"&">>, i + 1)
          ELSE Read(<<Rune(Number(SubSeq(s, first, stop - 1), base))>>, next)
      Upon(first, base, stop) == Digit(first, base, stop, Terminated(s, stop))
  IN IF s[i + 2] \in {"x", "X"}
       THEN Upon(i + 3, 16, Past(s, i + 3, LAMBDA c : c \in DOMAIN HexDigits))
       ELSE Upon(i + 2, 10, Past(s, i + 2, LAMBDA c : c \in Digits))

\* The longest proper beginning of the name, of two letters or more, that is known.
Shorter(name) ==
  LET Longest(known) == IF known = {} THEN 0 ELSE CHOOSE j \in known : \A k \in known : k <= j
  IN Longest({j \in 2..LONGEST_ENTITY_WITHOUT_SEMICOLON :
                j < Len(name) /\ entity(SubSeq(name, 1, j)) # {}})

Named(s, i) ==
  LET One(S) == CHOOSE c \in S : TRUE
      Short(j, all) == IF j = 0 THEN all
                       ELSE Read(<<One(entity(SubSeq(s, i + 1, i + j)))>>, i + j + 1)
      Known(name, one, two, next) ==
        IF one # {} THEN Read(<<One(one)>>, next)
        ELSE IF two # {} THEN Read(One(two), next)
        ELSE Short(Shorter(name), Read(SubSeq(s, i, next - 1), next))
      Upon(name, next) == Known(name, entity(name), entity2(name), next)
      To(next) == Upon(SubSeq(s, i + 1, next - 1), next)
  IN To(Terminated(s, Past(s, i + 1, is_alnum)))

unescape_entity(s, i) ==
  IF i = Len(s) THEN Read(<<"&">>, i + 1)
  ELSE IF s[i + 1] = "#"
         THEN IF Len(s) - i < 3 THEN Read(<<"&">>, i + 1) ELSE Numeric(s, i)
  ELSE Named(s, i)

unescape_string(s) ==
  LET from[i \in 1..(Len(s) + 1)] ==
        LET Then(r) == r.chars \o from[r.next]
        IN IF i > Len(s) THEN << >>
           ELSE IF s[i] # "&" THEN <<s[i]>> \o from[i + 1]
           ELSE Then(unescape_entity(s, i))
  IN from[1]

esc_link(s) == escape_html(unescape_string(s))

=============================================================================
