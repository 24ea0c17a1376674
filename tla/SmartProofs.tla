---------------------------- MODULE SmartProofs ----------------------------
(***************************************************************************)
(* For texts of any length, in every mode and after any history of earlier *)
(* texts: the text is read through once, a replacement stands for what it  *)
(* spells, a date is never cut and the quotes left to the state alternate. *)
(***************************************************************************)
EXTENDS Smartypants, SequenceTheorems, WellFoundedInduction, TLAPS

Quotes == {"ldquo", "rdquo", "lsquo", "rsquo"}
Outcomes == Quotes \cup {"copy", "nothing", "apos", "copy sign", "reg", "trade",
                        "mdash", "ndash", "hellip", "frac"}
Segment == [from : Nat, to : Nat, as : Outcomes]
Decision == [more : Nat, as : Outcomes, sets : Kinds \cup {"none"}, to : BOOLEAN]

SmartTypes ==
  /\ config \in Configs
  /\ text \in Seq(config.alphabet)
  /\ pos \in Nat /\ mark \in Nat
  /\ out \in Seq(Segment)
  /\ open \in [Kinds -> BOOLEAN]
  /\ lastQuote \in [Kinds -> Outcomes \cup {"none"}]

\* What a segment written alone is right about.
Spelled(s) ==
  /\ s.as \notin {"copy", "frac"} => SubSeq(text, s.from, s.to) \in Spellings(s.as)
  /\ s.as = "frac" => IsFraction(SubSeq(text, s.from, s.to))
Apart(s) ==
  s.as = "frac" => \A c \in {Ch(s.from - 1), Ch(s.to + 1)} : c \notin Digits \cup Slashes

InOrder(o) == \A i \in DOMAIN o : o[i].from = IF i = 1 THEN 1 ELSE o[i - 1].to + 1
EachRight(o) == \A i \in DOMAIN o : Spelled(o[i]) /\ Apart(o[i])

\* What is written ends where `mark` begins, and nothing is pending beyond the
\* text: without this the next segment could start anywhere.
Ends(o, m) ==
  IF o = << >> THEN m <= 1
  ELSE o[Len(o)].to = IF m > Len(text) THEN Len(text) ELSE m - 1

Marked ==
  /\ pos = 0 => mark = 0 /\ out = << >> /\ text = << >>
  /\ pos > 0 => mark > 0 /\ mark <= pos
  /\ pos <= Len(text) + 1 \/ mark = pos
  /\ Ends(out, mark)

\* The renderer remembers a quote as open exactly when the last one it wrote of
\* that kind was an opening one: what makes those left to the state alternate.
OpenIsLastWritten ==
  \A k \in Kinds : open[k] <=> lastQuote[k] \in Lefts

SmartInv == SmartTypes /\ Marked /\ InOrder(out) /\ EachRight(out) /\ OpenIsLastWritten

-----------------------------------------------------------------------------
(***************************************************************************)
(* What is read.                                                           *)
(***************************************************************************)

\* The least element of a set of numbers.
LEMMA Least ==
  ASSUME NEW S, S \subseteq Nat, S # {}
  PROVE  \E m \in S : \A n \in S : m <= n
<1> DEFINE R == {ss \in Nat \X Nat : ss[1] < ss[2]}
<1>1. IsWellFoundedOn(R, Nat)
  BY NatLessThanWellFounded DEF OpToRel
<1>2. \A a, b \in Nat : a < b => <<a, b>> \in R
  OBVIOUS
<1> HIDE DEF R
<1>3. PICK m \in S : \A n \in S : <<n, m>> \notin R
  BY <1>1, WFMin
<1>4. ASSUME NEW n \in S  PROVE m <= n
  <2>1. n \in Nat /\ m \in Nat /\ ~(n < m)
    BY <1>2, <1>3
  <2> QED BY <2>1
<1> QED BY <1>4

\* Every character is one of the alphabet, and the NUL beyond the edges is none.
LEMMA Characters ==
  ASSUME SmartTypes
  PROVE  /\ config.dashes \in {"none", "dash", "latex"} /\ config.fractions \in BOOLEAN
         /\ "NUL" \notin config.alphabet
         /\ Len(text) \in Nat /\ DOMAIN text = 1..Len(text)
         /\ \A i \in 1..Len(text) : Ch(i) = text[i] /\ text[i] \in config.alphabet
         /\ \A i \in Int : Ch(i) # "NUL" => i \in 1..Len(text)
<1>1. /\ config.dashes \in {"none", "dash", "latex"} /\ config.fractions \in BOOLEAN
      /\ "NUL" \notin config.alphabet
  BY SmartAssumption DEF SmartTypes, Digits, Letters, Quot, Nul
<1>2. /\ Len(text) \in Nat /\ DOMAIN text = 1..Len(text)
      /\ \A i \in 1..Len(text) : text[i] \in config.alphabet
  BY DEF SmartTypes
<1>3. \A i \in 1..Len(text) : Ch(i) = text[i]
  BY <1>2 DEF Ch
<1>4. \A i \in Int : Ch(i) # "NUL" => i \in 1..Len(text)
  BY <1>2 DEF Ch
<1> QED BY <1>1, <1>2, <1>3, <1>4

\* What reads as s is a piece of the text, and is s.
LEMMA ReadPiece ==
  ASSUME SmartTypes, NEW i \in Nat \ {0}, NEW S, NEW s \in Seq(S), s # << >>, Reads(i, s),
         \A j \in 1..Len(s) : s[j] # "NUL"
  PROVE  i + Len(s) - 1 <= Len(text) /\ SubSeq(text, i, i + Len(s) - 1) = s
<1>1. Len(s) \in Nat \ {0} /\ DOMAIN s = 1..Len(s)
  BY EmptySeq, LenProperties
<1>2. \A j \in 1..Len(s) : Ch(i + j - 1) = s[j]
  BY <1>1 DEF Reads
<1>3. \A j \in 1..Len(s) : i + j - 1 \in 1..Len(text)
  BY <1>1, <1>2, Characters
<1>4. i + Len(s) - 1 \in 1..Len(text)
  BY <1>1, <1>3
<1>5. \A n \in i..(i + Len(s) - 1) : text[n] \in config.alphabet \cup S
  BY <1>1, <1>4, Characters
<1> DEFINE piece == SubSeq(text, i, i + Len(s) - 1)
<1>6. /\ piece \in Seq(config.alphabet \cup S) /\ Len(piece) = Len(s)
      /\ \A j \in 1..Len(s) : piece[j] = text[i + j - 1]
  BY <1>1, <1>5, SubSeqProperties
<1>7. \A j \in 1..Len(s) : piece[j] = s[j]
  BY <1>2, <1>3, <1>6, Characters
<1>8. s \in Seq(config.alphabet \cup S)
  BY SeqMonotonic
<1> HIDE DEF piece
<1>9. piece = s
  BY <1>6, <1>7, <1>8, SeqEqual
<1> QED BY <1>4, <1>9 DEF piece

\* A run of digits that starts at i ends, at the latest with the text.
LEMMA RunEnds ==
  ASSUME SmartTypes, NEW i \in Nat \ {0}, i <= Len(text) + 1
  PROVE  /\ DigitsEnd(i) \in i..(Len(text) + 1)
         /\ Ch(DigitsEnd(i)) \notin Digits
         /\ \A j \in i..(DigitsEnd(i) - 1) : Ch(j) \in Digits
<1> DEFINE E == {e \in i..(Len(text) + 1) : Ch(e) \notin Digits}
<1>1. Len(text) + 1 \in E
  BY Characters DEF Ch, Digits
<1>2. PICK e \in E : \A n \in E : e <= n
  <2>1. E \subseteq Nat /\ E # {}
    BY <1>1, Characters
  <2> HIDE DEF E
  <2> QED BY <2>1, Least
<1>3. /\ e \in i..Len(text) + 1
      /\ Ch(e) \notin Digits /\ \A j \in i..e - 1 : Ch(j) \in Digits
  BY <1>2, Characters
<1> QED BY <1>3 DEF DigitsEnd

-----------------------------------------------------------------------------
(***************************************************************************)
(* What the handlers decide: how far they read, and what for.  Beyond the  *)
(* end of the text only the handler of an unclosed tag reports, by one.    *)
(***************************************************************************)
SoundAt(n, as) ==
  /\ pos + n <= Len(text) + 1
  /\ as # "copy" => pos + n <= Len(text)
  /\ Spelled([from |-> pos, to |-> pos + n, as |-> as])
  /\ Apart([from |-> pos, to |-> pos + n, as |-> as])

\* The entity is of the kind whose state is set, and set to what is written,
\* which that state decides where the neighbours do not.
OwnState(d) ==
  /\ KindOf(d.as) = d.sets
  /\ d.sets \in Kinds =>
       /\ d.to = (d.as \in Lefts)
       /\ d.to = Opens(Ch(pos - 1), Ch(pos + d.more + 1), open[d.sets])

Sound(d) == d \in Decision /\ SoundAt(d.more, d.as) /\ OwnState(d)

\* What writes no quote touches no state.
LEMMA SoundOther ==
  ASSUME NEW n \in Nat, NEW as \in Outcomes \ Quotes, SoundAt(n, as)
  PROVE  Sound(Does(n, as))
<1>1. Does(n, as) \in Decision
  BY DEF Does, Decision
<1>2. KindOf(as) = "none"
  BY DEF KindOf, Quotes
<1>3. OwnState(Does(n, as))
  BY <1>2 DEF OwnState, Does, Kinds
<1> QED BY <1>1, <1>3 DEF Sound, Does

\* A decision to put `as` for s, which is what stands here, is sound.
LEMMA SoundPiece ==
  ASSUME SmartTypes, pos \in DOMAIN text,
         NEW S, NEW s \in Seq(S), Reads(pos, s), \A j \in 1..Len(s) : s[j] # "NUL",
         NEW n \in Nat, Len(s) = n + 1,
         NEW as \in Outcomes \ {"copy", "frac"}, s \in Spellings(as)
  PROVE  SoundAt(n, as)
<1>1. pos \in Nat \ {0} /\ s # << >> /\ pos + Len(s) - 1 = pos + n
  BY Characters, EmptySeq
<1>2. pos + n <= Len(text) /\ SubSeq(text, pos, pos + n) = s
  BY <1>1, ReadPiece
<1> DEFINE seg == [from |-> pos, to |-> pos + n, as |-> as]
<1>3. Spelled(seg) /\ Apart(seg)
  BY <1>2 DEF Spelled, Apart
<1> HIDE DEF seg
<1>4. pos + n <= Len(text) + 1
  BY <1>1, <1>2, Characters
<1> QED BY <1>2, <1>3, <1>4 DEF SoundAt, seg

\* Copying the character itself always is, and so is going on to the end.
LEMMA SoundCopy ==
  ASSUME SmartTypes, pos \in DOMAIN text, NEW n \in Nat, pos + n <= Len(text) + 1
  PROVE  Sound(Does(n, "copy"))
<1> DEFINE seg == [from |-> pos, to |-> pos + n, as |-> "copy"]
<1>1. Spelled(seg) /\ Apart(seg)
  BY DEF Spelled, Apart
<1>2. SoundAt(n, "copy")
  BY <1>1 DEF SoundAt
<1> QED BY <1>2, SoundOther DEF Outcomes, Quotes

\* The sounds of one, two, three, four and five characters.
LEMMA SoundWords ==
  ASSUME SmartTypes, pos \in DOMAIN text, NEW as \in Outcomes \ {"copy", "frac"},
         NEW a, NEW b, NEW c, NEW d, NEW e, "NUL" \notin {a, b, c, d, e}
  PROVE  /\ Reads(pos, <<a>>) /\ <<a>> \in Spellings(as) => SoundAt(0, as)
         /\ Reads(pos, <<a, b>>) /\ <<a, b>> \in Spellings(as) => SoundAt(1, as)
         /\ Reads(pos, <<a, b, c>>) /\ <<a, b, c>> \in Spellings(as) => SoundAt(2, as)
         /\ Reads(pos, <<a, b, c, d>>) /\ <<a, b, c, d>> \in Spellings(as) => SoundAt(3, as)
         /\ Reads(pos, <<a, b, c, d, e>>) /\ <<a, b, c, d, e>> \in Spellings(as) => SoundAt(4, as)
<1> DEFINE S == {a, b, c, d, e}
<1>1. <<a>> \in Seq(S) /\ Len(<<a>>) = 1 /\ \A j \in 1..1 : <<a>>[j] # "NUL"
  OBVIOUS
<1>2. /\ <<a, b>> \in Seq(S) /\ Len(<<a, b>>) = 2
      /\ \A j \in 1..2 : <<a, b>>[j] # "NUL"
  OBVIOUS
<1>3. /\ <<a, b, c>> \in Seq(S) /\ Len(<<a, b, c>>) = 3
      /\ \A j \in 1..3 : <<a, b, c>>[j] # "NUL"
  OBVIOUS
<1>4. /\ <<a, b, c, d>> \in Seq(S) /\ Len(<<a, b, c, d>>) = 4
      /\ \A j \in 1..4 : <<a, b, c, d>>[j] # "NUL"
  OBVIOUS
<1>5. /\ <<a, b, c, d, e>> \in Seq(S) /\ Len(<<a, b, c, d, e>>) = 5
      /\ \A j \in 1..5 : <<a, b, c, d, e>>[j] # "NUL"
  OBVIOUS
<1>6. Reads(pos, <<a>>) /\ <<a>> \in Spellings(as) => SoundAt(0, as)
  <2> DEFINE s == <<a>>
  <2>1. s \in Seq(S) /\ Len(s) = 1 /\ \A j \in 1..Len(s) : s[j] # "NUL"
    BY <1>1
  <2> HIDE DEF s, S
  <2>2. PICK n \in Nat : n = 0
    OBVIOUS
  <2>3. ASSUME Reads(pos, s), s \in Spellings(as)  PROVE SoundAt(n, as)
    <3>1. Len(s) = n + 1
      BY <2>1, <2>2
    <3> QED BY <2>1, <2>3, <3>1, SoundPiece
  <2> QED BY <2>2, <2>3 DEF s
<1>7. Reads(pos, <<a, b>>) /\ <<a, b>> \in Spellings(as) => SoundAt(1, as)
  <2> DEFINE s == <<a, b>>
  <2>1. s \in Seq(S) /\ Len(s) = 2 /\ \A j \in 1..Len(s) : s[j] # "NUL"
    BY <1>2
  <2> HIDE DEF s, S
  <2>2. PICK n \in Nat : n = 1
    OBVIOUS
  <2>3. ASSUME Reads(pos, s), s \in Spellings(as)  PROVE SoundAt(n, as)
    <3>1. Len(s) = n + 1
      BY <2>1, <2>2
    <3> QED BY <2>1, <2>3, <3>1, SoundPiece
  <2> QED BY <2>2, <2>3 DEF s
<1>8. Reads(pos, <<a, b, c>>) /\ <<a, b, c>> \in Spellings(as) => SoundAt(2, as)
  <2> DEFINE s == <<a, b, c>>
  <2>1. s \in Seq(S) /\ Len(s) = 3 /\ \A j \in 1..Len(s) : s[j] # "NUL"
    BY <1>3
  <2> HIDE DEF s, S
  <2>2. PICK n \in Nat : n = 2
    OBVIOUS
  <2>3. ASSUME Reads(pos, s), s \in Spellings(as)  PROVE SoundAt(n, as)
    <3>1. Len(s) = n + 1
      BY <2>1, <2>2
    <3> QED BY <2>1, <2>3, <3>1, SoundPiece
  <2> QED BY <2>2, <2>3 DEF s
<1>9. Reads(pos, <<a, b, c, d>>) /\ <<a, b, c, d>> \in Spellings(as) => SoundAt(3, as)
  <2> DEFINE s == <<a, b, c, d>>
  <2>1. s \in Seq(S) /\ Len(s) = 4 /\ \A j \in 1..Len(s) : s[j] # "NUL"
    BY <1>4
  <2> HIDE DEF s, S
  <2>2. PICK n \in Nat : n = 3
    OBVIOUS
  <2>3. ASSUME Reads(pos, s), s \in Spellings(as)  PROVE SoundAt(n, as)
    <3>1. Len(s) = n + 1
      BY <2>1, <2>2
    <3> QED BY <2>1, <2>3, <3>1, SoundPiece
  <2> QED BY <2>2, <2>3 DEF s
<1>10. Reads(pos, <<a, b, c, d, e>>) /\ <<a, b, c, d, e>> \in Spellings(as) => SoundAt(4, as)
  <2> DEFINE s == <<a, b, c, d, e>>
  <2>1. s \in Seq(S) /\ Len(s) = 5 /\ \A j \in 1..Len(s) : s[j] # "NUL"
    BY <1>5
  <2> HIDE DEF s, S
  <2>2. PICK n \in Nat : n = 4
    OBVIOUS
  <2>3. ASSUME Reads(pos, s), s \in Spellings(as)  PROVE SoundAt(n, as)
    <3>1. Len(s) = n + 1
      BY <2>1, <2>2
    <3> QED BY <2>1, <2>3, <3>1, SoundPiece
  <2> QED BY <2>2, <2>3 DEF s
<1> QED BY <1>6, <1>7, <1>8, <1>9, <1>10

\* A handler reads on from the character it was called on.
LEMMA ReadOn ==
  ASSUME SmartTypes, pos \in DOMAIN text
  PROVE  /\ pos \in Nat \ {0} /\ pos <= Len(text) /\ Ch(pos) = text[pos]
         /\ Reads(pos, <<text[pos]>>)
         /\ \A a : Ch(pos + 1) = a => Reads(pos, <<text[pos], a>>)
         /\ \A a, b : Reads(pos + 1, <<a, b>>) => Reads(pos, <<text[pos], a, b>>)
         /\ \A a, b, c : Reads(pos + 1, <<a, b, c>>) => Reads(pos, <<text[pos], a, b, c>>)
         /\ \A a, b, c, d :
              Reads(pos + 1, <<a, b, c, d>>) => Reads(pos, <<text[pos], a, b, c, d>>)
<1>1. pos \in Nat \ {0} /\ pos <= Len(text) /\ Ch(pos) = text[pos]
  BY Characters
<1>2. Reads(pos, <<text[pos]>>)
  BY <1>1 DEF Reads
<1>3. ASSUME NEW a, Ch(pos + 1) = a  PROVE Reads(pos, <<text[pos], a>>)
  BY <1>1, <1>3 DEF Reads
<1>4. ASSUME NEW a, NEW b, Reads(pos + 1, <<a, b>>)  PROVE Reads(pos, <<text[pos], a, b>>)
  BY <1>1, <1>4 DEF Reads
<1>5. ASSUME NEW a, NEW b, NEW c, Reads(pos + 1, <<a, b, c>>)
      PROVE  Reads(pos, <<text[pos], a, b, c>>)
  BY <1>1, <1>5 DEF Reads
<1>6. ASSUME NEW a, NEW b, NEW c, NEW d, Reads(pos + 1, <<a, b, c, d>>)
      PROVE  Reads(pos, <<text[pos], a, b, c, d>>)
  <2> DEFINE s == <<a, b, c, d>>
  <2>1. \A j \in 1..4 : Ch(pos + j) = s[j]
    <3>1. DOMAIN s = 1..4 /\ \A j \in 1..4 : pos + 1 + j - 1 = pos + j
      BY <1>1
    <3> QED BY <1>6, <3>1 DEF Reads
  <2>2. Ch(pos + 1) = a /\ Ch(pos + 2) = b /\ Ch(pos + 3) = c /\ Ch(pos + 4) = d
    BY <2>1
  <2> HIDE DEF s
  <2> DEFINE w == <<text[pos], a, b, c, d>>
  <2>3. DOMAIN w = {1, 2, 3, 4, 5}
    OBVIOUS
  <2>4. w[1] = text[pos] /\ w[2] = a /\ w[3] = b /\ w[4] = c /\ w[5] = d
    OBVIOUS
  <2>5. /\ pos + 1 - 1 = pos /\ pos + 2 - 1 = pos + 1 /\ pos + 3 - 1 = pos + 2
        /\ pos + 4 - 1 = pos + 3 /\ pos + 5 - 1 = pos + 4
    BY <1>1
  <2> HIDE DEF w
  <2>6. \A j \in DOMAIN w : Ch(pos + j - 1) = w[j]
    BY <1>1, <2>2, <2>3, <2>4, <2>5
  <2> QED BY <2>6 DEF Reads, w
<1> QED BY <1>1, <1>2, <1>3, <1>4, <1>5, <1>6

LEMMA SoundParens ==
  ASSUME SmartTypes, pos \in DOMAIN text, text[pos] = "("
  PROVE  Sound(Parens)
<1>1. ASSUME Reads(pos + 1, <<"c", ")">>)  PROVE Sound(Does(2, "copy sign"))
  <2>1. Reads(pos, <<"(", "c", ")">>)
    BY <1>1, ReadOn
  <2>2. <<"(", "c", ")">> \in Spellings("copy sign")
    BY DEF Spellings
  <2>3. SoundAt(2, "copy sign")
    BY <2>1, <2>2, SoundWords DEF Outcomes
  <2> QED BY <2>3, SoundOther DEF Outcomes, Quotes
<1>2. ASSUME Reads(pos + 1, <<"r", ")">>)  PROVE Sound(Does(2, "reg"))
  <2>1. Reads(pos, <<"(", "r", ")">>)
    BY <1>2, ReadOn
  <2>2. <<"(", "r", ")">> \in Spellings("reg")
    BY DEF Spellings
  <2>3. SoundAt(2, "reg")
    BY <2>1, <2>2, SoundWords DEF Outcomes
  <2> QED BY <2>3, SoundOther DEF Outcomes, Quotes
<1>3. ASSUME Reads(pos + 1, <<"t", "m", ")">>)  PROVE Sound(Does(3, "trade"))
  <2>1. Reads(pos, <<"(", "t", "m", ")">>)
    BY <1>3, ReadOn
  <2>2. <<"(", "t", "m", ")">> \in Spellings("trade")
    BY DEF Spellings
  <2>3. SoundAt(3, "trade")
    BY <2>1, <2>2, SoundWords DEF Outcomes
  <2> QED BY <2>3, SoundOther DEF Outcomes, Quotes
<1>4. Sound(Copy)
  BY SoundCopy, ReadOn DEF Copy
<1> QED BY <1>1, <1>2, <1>3, <1>4 DEF Parens

LEMMA SoundDash ==
  ASSUME SmartTypes, pos \in DOMAIN text, text[pos] = "-"
  PROVE  Sound(Dash)
<1>1. ASSUME Reads(pos + 1, <<"-", "-">>), config.dashes = "latex"
      PROVE  Sound(Does(2, "mdash"))
  <2>1. Reads(pos, <<"-", "-", "-">>)
    BY <1>1, ReadOn
  <2>2. <<"-", "-", "-">> \in Spellings("mdash")
    BY <1>1 DEF Spellings
  <2>3. SoundAt(2, "mdash")
    BY <2>1, <2>2, SoundWords DEF Outcomes
  <2> QED BY <2>3, SoundOther DEF Outcomes, Quotes
<1>2. ASSUME Ch(pos + 1) = "-", config.dashes = "latex"
      PROVE  Sound(Does(1, "ndash"))
  <2>1. Reads(pos, <<"-", "-">>)
    BY <1>2, ReadOn
  <2>2. <<"-", "-">> \in Spellings("ndash")
    BY <1>2 DEF Spellings
  <2>3. SoundAt(1, "ndash")
    BY <2>1, <2>2, SoundWords DEF Outcomes
  <2> QED BY <2>3, SoundOther DEF Outcomes, Quotes
<1>3. ASSUME Ch(pos + 1) = "-", config.dashes # "latex"
      PROVE  Sound(Does(1, "mdash"))
  <2>1. Reads(pos, <<"-", "-">>)
    BY <1>3, ReadOn
  <2>2. <<"-", "-">> \in Spellings("mdash")
    BY <1>3 DEF Spellings
  <2>3. SoundAt(1, "mdash")
    BY <2>1, <2>2, SoundWords DEF Outcomes
  <2> QED BY <2>3, SoundOther DEF Outcomes, Quotes
<1>4. ASSUME config.dashes # "latex"  PROVE Sound(Does(0, "ndash"))
  <2>1. Reads(pos, <<"-">>)
    BY ReadOn
  <2>2. <<"-">> \in Spellings("ndash")
    BY <1>4 DEF Spellings
  <2>3. SoundAt(0, "ndash")
    BY <2>1, <2>2, SoundWords DEF Outcomes
  <2> QED BY <2>3, SoundOther DEF Outcomes, Quotes
<1>5. Sound(Copy)
  BY SoundCopy, ReadOn DEF Copy
<1> QED BY <1>1, <1>2, <1>3, <1>4, <1>5 DEF Dash, DashSimple, DashLatex

LEMMA SoundPeriod ==
  ASSUME SmartTypes, pos \in DOMAIN text, text[pos] = "."
  PROVE  Sound(Period)
<1>1. ASSUME Reads(pos + 1, <<".", ".">>)  PROVE Sound(Does(2, "hellip"))
  <2>1. Reads(pos, <<".", ".", ".">>)
    BY <1>1, ReadOn
  <2>2. <<".", ".", ".">> \in Spellings("hellip")
    BY DEF Spellings
  <2>3. SoundAt(2, "hellip")
    BY <2>1, <2>2, SoundWords DEF Outcomes
  <2> QED BY <2>3, SoundOther DEF Outcomes, Quotes
<1>2. ASSUME Reads(pos + 1, <<" ", ".", " ", ".">>)  PROVE Sound(Does(4, "hellip"))
  <2>1. Reads(pos, <<".", " ", ".", " ", ".">>)
    BY <1>2, ReadOn
  <2>2. <<".", " ", ".", " ", ".">> \in Spellings("hellip")
    BY DEF Spellings
  <2>3. SoundAt(4, "hellip")
    BY <2>1, <2>2, SoundWords DEF Outcomes
  <2> QED BY <2>3, SoundOther DEF Outcomes, Quotes
<1>3. Sound(Copy)
  BY SoundCopy, ReadOn DEF Copy
<1> QED BY <1>1, <1>2, <1>3 DEF Period

\* A quote that turns as its own state says.
LEMMA SoundTurn ==
  ASSUME NEW n \in Nat, NEW state \in Kinds, NEW as \in Quotes, NEW left \in BOOLEAN,
         KindOf(as) = state, left = (as \in Lefts), SoundAt(n, as),
         left = Opens(Ch(pos - 1), Ch(pos + n + 1), open[state])
  PROVE  Sound([more |-> n, as |-> as, sets |-> state, to |-> left])
<1> DEFINE d == [more |-> n, as |-> as, sets |-> state, to |-> left]
<1>1. d \in Decision
  BY DEF Decision, Outcomes
<1>2. d.more = n /\ d.as = as /\ d.sets = state /\ d.to = left
  OBVIOUS
<1> HIDE DEF d
<1>3. OwnState(d) /\ SoundAt(d.more, d.as)
  BY <1>2 DEF OwnState
<1> QED BY <1>1, <1>3 DEF Sound, d

\* A quote of one of its four spellings, whichever way it turns.
LEMMA SoundQuote ==
  ASSUME SmartTypes, pos \in DOMAIN text
  PROVE  /\ text[pos] = Quot => Sound(Quote("d", "double", 0))
         /\ text[pos] = "'" => Sound(Quote("s", "single", 0))
         /\ text[pos] \in {"'", "tick"} /\ Ch(pos + 1) = text[pos]
              => Sound(Quote("d", "double", 1))
<1>1. ASSUME NEW n \in Nat, SoundAt(n, "ldquo"), SoundAt(n, "rdquo")
      PROVE  Sound(Quote("d", "double", n))
  <2> DEFINE left == Opens(Ch(pos - 1), Ch(pos + n + 1), open["double"])
             as == IF left THEN "ldquo" ELSE "rdquo"
  <2>1. left \in BOOLEAN /\ as \in Quotes /\ KindOf(as) = "double" /\ left = (as \in Lefts)
        /\ SoundAt(n, as)
    BY <1>1 DEF Opens, Quotes, KindOf, Lefts
  <2>2. Quote("d", "double", n) = [more |-> n, as |-> as, sets |-> "double", to |-> left]
    BY DEF Quote, Entity
  <2>3. "double" \in Kinds /\ n \in Nat /\ left = Opens(Ch(pos - 1), Ch(pos + n + 1), open["double"])
    BY DEF Kinds
  <2> HIDE DEF left, as
  <2> QED BY <2>1, <2>2, <2>3, SoundTurn
<1>2. ASSUME SoundAt(0, "lsquo"), SoundAt(0, "rsquo")
      PROVE  Sound(Quote("s", "single", 0))
  <2> DEFINE left == Opens(Ch(pos - 1), Ch(pos + 0 + 1), open["single"])
             as == IF left THEN "lsquo" ELSE "rsquo"
  <2>1. left \in BOOLEAN /\ as \in Quotes /\ KindOf(as) = "single" /\ left = (as \in Lefts)
        /\ SoundAt(0, as)
    BY <1>2 DEF Opens, Quotes, KindOf, Lefts
  <2>2. Quote("s", "single", 0) = [more |-> 0, as |-> as, sets |-> "single", to |-> left]
    BY DEF Quote, Entity
  <2>3. "single" \in Kinds /\ 0 \in Nat /\ left = Opens(Ch(pos - 1), Ch(pos + 0 + 1), open["single"])
    BY DEF Kinds
  <2> HIDE DEF left, as
  <2> QED BY <2>1, <2>2, <2>3, SoundTurn
<1>3. ASSUME text[pos] = Quot, NEW as \in {"ldquo", "rdquo"}
      PROVE  SoundAt(0, as)
  <2>1. <<text[pos]>> \in Spellings(as)
    BY <1>3 DEF Spellings
  <2> QED BY <1>3, <2>1, ReadOn, SoundWords DEF Outcomes, Quotes, Quot
<1>4. ASSUME text[pos] = "'", NEW as \in {"lsquo", "rsquo"}
      PROVE  SoundAt(0, as)
  <2>1. <<text[pos]>> \in Spellings(as)
    BY <1>4 DEF Spellings
  <2> QED BY <1>4, <2>1, ReadOn, SoundWords DEF Outcomes, Quotes
<1>5. ASSUME text[pos] \in {"'", "tick"}, Ch(pos + 1) = text[pos], NEW as \in {"ldquo", "rdquo"}
      PROVE  SoundAt(1, as)
  <2>1. <<text[pos], text[pos]>> \in Spellings(as)
    BY <1>5 DEF Spellings
  <2>2. Reads(pos, <<text[pos], text[pos]>>)
    BY <1>5, ReadOn
  <2> QED BY <1>5, <2>1, <2>2, SoundWords DEF Outcomes, Quotes
<1> QED BY <1>1, <1>2, <1>3, <1>4, <1>5

LEMMA SoundApostrophe ==
  ASSUME SmartTypes, pos \in DOMAIN text, text[pos] = "'"
  PROVE  Sound(Apostrophe)
<1>1. Sound(Does(0, "apos"))
  <2>1. <<"'">> \in Spellings("apos")
    BY DEF Spellings
  <2>2. SoundAt(0, "apos")
    BY <2>1, ReadOn, SoundWords DEF Outcomes
  <2> QED BY <2>2, SoundOther DEF Outcomes, Quotes
<1>2. /\ Sound(Quote("s", "single", 0))
      /\ Ch(pos + 1) = "'" => Sound(Quote("d", "double", 1))
  BY SoundQuote
<1> QED BY <1>1, <1>2 DEF Apostrophe

LEMMA SoundAmpersand ==
  ASSUME SmartTypes, pos \in DOMAIN text, text[pos] \in {Quot, Nul}
  PROVE  Sound(Ampersand)
<1>1. ASSUME text[pos] = Nul  PROVE Sound(Does(0, "nothing"))
  <2>1. <<Nul>> \in Spellings("nothing")
    BY DEF Spellings
  <2>2. SoundAt(0, "nothing")
    BY <1>1, <2>1, ReadOn, SoundWords DEF Outcomes, Nul
  <2> QED BY <2>2, SoundOther DEF Outcomes, Quotes
<1>2. text[pos] = Quot => Sound(Quote("d", "double", 0))
  BY SoundQuote
<1> QED BY <1>1, <1>2 DEF Ampersand

LEMMA SoundBacktick ==
  ASSUME SmartTypes, pos \in DOMAIN text, text[pos] = "tick"
  PROVE  Sound(Backtick)
<1>1. Ch(pos + 1) = "tick" => Sound(Quote("d", "double", 1))
  BY SoundQuote
<1>2. Sound(Copy)
  BY SoundCopy, ReadOn DEF Copy
<1> QED BY <1>1, <1>2 DEF Backtick

\* The tag ends within the text or one past it.
LEMMA SoundAngle ==
  ASSUME SmartTypes, pos \in DOMAIN text
  PROVE  Sound(LeftAngle)
<1> DEFINE ends == {j \in pos..Len(text) : text[j] = ">"}
           end == CHOOSE j \in ends : \A k \in ends : j <= k
<1>1. pos \in Nat \ {0} /\ pos <= Len(text) /\ Len(text) \in Nat
  BY ReadOn, Characters
<1>2. ends \subseteq Nat
  BY <1>1
<1>3. CASE ends = {}
  <2>1. Len(text) + 1 - pos \in Nat /\ pos + (Len(text) + 1 - pos) <= Len(text) + 1
    BY <1>1
  <2>2. Sound(Does(Len(text) + 1 - pos, "copy"))
    BY <2>1, SoundCopy
  <2> QED BY <1>3, <2>2 DEF LeftAngle
<1>4. CASE ends # {}
  <2>1. end \in ends
    <3> HIDE DEF ends
    <3>1. \E j \in ends : \A k \in ends : j <= k
      BY <1>2, <1>4, Least
    <3> QED BY <3>1
  <2>2. end - pos \in Nat /\ pos + (end - pos) <= Len(text) + 1
    BY <1>1, <2>1
  <2>3. Sound(Does(end - pos, "copy"))
    <3> HIDE DEF end
    <3> QED BY <2>2, SoundCopy
  <2> QED BY <1>4, <2>3 DEF LeftAngle
<1> QED BY <1>3, <1>4

-----------------------------------------------------------------------------
(***************************************************************************)
(* Fractions.                                                              *)
(***************************************************************************)

\* A word boundary is no digit and not U+2044.
LEMMA BoundaryNoDigit ==
  ASSUME NEW c, WordBoundary(c)
  PROVE  c \notin Digits \cup {"frasl"}
<1>1. ASSUME c \in Digits \cup {"frasl"}  PROVE Class(c) = "word"
  BY <1>1 DEF Class, Digits, Letters
<1> QED BY <1>1 DEF WordBoundary

\* Digits, a slash and digits are a fraction.
LEMMA FractionPiece ==
  ASSUME SmartTypes, NEW from \in Nat \ {0}, NEW to \in Nat, to <= Len(text),
         NEW i \in from + 1..to - 1, Ch(i) \in Slashes,
         \A j \in from..to : j # i => Ch(j) \in Digits
  PROVE  IsFraction(SubSeq(text, from, to))
<1> DEFINE piece == SubSeq(text, from, to)
<1>1. /\ i \in Nat /\ Len(text) \in Nat
      /\ \A j \in from..to : j \in 1..Len(text) /\ text[j] = Ch(j) /\ text[j] \in config.alphabet
  BY Characters
<1>2. /\ Len(piece) = to - from + 1 /\ DOMAIN piece = 1..(to - from + 1)
      /\ \A j \in 1..(to - from + 1) : piece[j] = text[from + j - 1]
  BY <1>1, SubSeqProperties
<1>3. \A j \in 1..(to - from + 1) : piece[j] = Ch(from + j - 1) /\ from + j - 1 \in from..to
  BY <1>1, <1>2
<1> HIDE DEF piece
<1>4. PICK k \in 2..Len(piece) - 1 : k = i - from + 1
  BY <1>1, <1>2
<1>5. k \in 1..(to - from + 1) /\ from + k - 1 = i
  BY <1>1, <1>2, <1>4
<1>6. piece[k] \in Slashes
  BY <1>3, <1>5
<1>7. ASSUME NEW j \in DOMAIN piece \ {k}  PROVE piece[j] \in Digits
  <2>1. j \in 1..(to - from + 1) /\ from + j - 1 # i
    BY <1>1, <1>2, <1>5
  <2> QED BY <1>3, <2>1
<1>8. IsFraction(piece)
  BY <1>6, <1>7, Zenon DEF IsFraction
<1> QED BY <1>8 DEF piece

\* The characters from here up to one that may follow a number make a fraction
\* that is apart from its neighbours.
LEMMA SoundFraction ==
  ASSUME SmartTypes, pos \in DOMAIN text, StartsNumber,
         NEW n \in Nat, pos + n <= Len(text), IsFraction(SubSeq(text, pos, pos + n)),
         Ch(pos + n + 1) \notin Digits \cup Slashes
  PROVE  Sound(Does(n, "frac"))
<1>1. Ch(pos - 1) \notin Digits \cup Slashes
  BY BoundaryNoDigit DEF StartsNumber, Slashes
<1> DEFINE seg == [from |-> pos, to |-> pos + n, as |-> "frac"]
<1>2. /\ seg.from - 1 = pos - 1 /\ seg.to + 1 = pos + n + 1 /\ seg.as = "frac"
      /\ seg.from = pos /\ seg.to = pos + n
  OBVIOUS
<1> HIDE DEF seg
<1>3. Spelled(seg) /\ Apart(seg)
  BY <1>1, <1>2 DEF Spelled, Apart
<1>4. pos + n <= Len(text) + 1
  BY ReadOn, Characters
<1>5. SoundAt(n, "frac")
  BY <1>3, <1>4 DEF SoundAt, seg
<1> QED BY <1>5, SoundOther DEF Outcomes, Quotes

LEMMA SoundAny ==
  ASSUME SmartTypes, pos \in DOMAIN text, text[pos] \in Digits
  PROVE  Sound(AnyFraction)
<1> DEFINE numEnd == DigitsEnd(pos)
           denEnd == DigitsEnd(numEnd + 1)
<1>1. pos \in Nat \ {0} /\ pos <= Len(text) /\ Len(text) \in Nat
  BY ReadOn, Characters
<1>2. Sound(Copy)
  BY <1>1, SoundCopy DEF Copy
<1>3. ASSUME /\ StartsNumber /\ Ch(numEnd) \in Slashes
             /\ denEnd > numEnd + 1 /\ EndsNumber(denEnd)
      PROVE  Sound(Does(denEnd - 1 - pos, "frac"))
  <2>1. numEnd \in pos..(Len(text) + 1)
    BY <1>1, RunEnds
  <2>2. numEnd \in 1..Len(text) /\ numEnd > pos
    <3>1. Ch(numEnd) # "NUL" /\ Ch(numEnd) \notin Digits
      BY <1>3 DEF Slashes, Digits
    <3>2. Ch(pos) \in Digits
      BY Characters
    <3> HIDE DEF numEnd
    <3> QED BY <1>1, <2>1, <3>1, <3>2, Characters
  <2>3. denEnd \in (numEnd + 1)..(Len(text) + 1)
    <3> HIDE DEF numEnd
    <3> QED BY <1>1, <2>2, RunEnds
  <2>a. \A j \in pos..(numEnd - 1) : Ch(j) \in Digits
    BY <1>1, RunEnds
  <2>b. \A j \in (numEnd + 1)..(denEnd - 1) : Ch(j) \in Digits
    <3> HIDE DEF numEnd
    <3> QED BY <1>1, <2>2, RunEnds
  <2> HIDE DEF numEnd, denEnd
  <2>4. PICK n \in Nat : n = denEnd - 1 - pos
    BY <1>1, <2>1, <2>3
  <2>5. pos + n <= Len(text) /\ pos + n + 1 = denEnd
    BY <1>1, <2>1, <2>2, <2>3, <2>4
  <2>6. Ch(pos + n + 1) \notin Digits \cup Slashes
    BY <1>3, <2>5, BoundaryNoDigit DEF EndsNumber, Slashes
  <2>c. IsFraction(SubSeq(text, pos, pos + n))
    <3>1. numEnd \in pos + 1..pos + n - 1
      BY <1>1, <1>3, <2>1, <2>2, <2>3, <2>5
    <3>2. \A j \in pos..pos + n : j # numEnd => Ch(j) \in Digits
      BY <1>1, <2>1, <2>2, <2>3, <2>5, <2>a, <2>b
    <3>3. Ch(numEnd) \in Slashes
      BY <1>3
    <3> QED BY <1>1, <2>5, <3>1, <3>2, <3>3, FractionPiece
  <2>7. Sound(Does(n, "frac"))
    BY <1>3, <2>5, <2>6, <2>c, SoundFraction
  <2> QED BY <2>4, <2>7
<1> QED BY <1>2, <1>3 DEF AnyFraction

\* 1/2, 1/4 and 3/4, alone or as ordinals.
LEMMA SoundNamed ==
  ASSUME SmartTypes, pos \in DOMAIN text
  PROVE  Sound(NamedFraction)
<1> DEFINE Named == {<<"1", "/", "2">>, <<"1", "/", "4">>, <<"3", "/", "4">>}
<1>1. pos \in Nat \ {0} /\ pos <= Len(text) /\ Len(text) \in Nat
  BY ReadOn, Characters
<1>2. Sound(Copy)
  BY <1>1, SoundCopy DEF Copy
<1>3. ASSUME Ch(pos) \in Digits, Ch(pos + 1) = "/", Ch(pos + 2) \in Digits,
             Ch(pos + 3) \notin Digits \cup Slashes, StartsNumber
      PROVE  Sound(Does(2, "frac"))
  <2>1. pos + 2 <= Len(text)
    BY <1>1, <1>3, Characters DEF Digits
  <2>2. PICK n \in Nat : n = 2
    OBVIOUS
  <2>3. pos + n + 1 = pos + 3 /\ pos + n <= Len(text)
    BY <1>1, <2>1, <2>2
  <2>a. IsFraction(SubSeq(text, pos, pos + n))
    <3>1. PICK m \in pos + 1..pos + n - 1 : m = pos + 1
      BY <1>1, <2>2
    <3>2. \A j \in pos..pos + n : j # m => j = pos \/ j = pos + 2
      BY <1>1, <2>2, <3>1
    <3>3. \A j \in pos..pos + n : j # m => Ch(j) \in Digits
      BY <1>3, <3>2
    <3>4. Ch(m) \in Slashes
      BY <1>3, <3>1 DEF Slashes
    <3>5. pos \in Nat \ {0} /\ pos + n \in Nat /\ pos + n <= Len(text)
      BY <1>1, <2>3
    <3> DEFINE to == pos + n
    <3>6. /\ pos \in Nat \ {0} /\ to \in Nat /\ to <= Len(text) /\ m \in pos + 1..to - 1
          /\ \A j \in pos..to : j # m => Ch(j) \in Digits
      BY <3>1, <3>3, <3>5
    <3> HIDE DEF to
    <3>7. IsFraction(SubSeq(text, pos, to))
      BY <3>4, <3>6, FractionPiece
    <3> QED BY <3>7 DEF to
  <2>4. Sound(Does(n, "frac"))
    BY <1>3, <2>3, <2>a, SoundFraction
  <2> QED BY <2>2, <2>4
<1>4. ASSUME NEW s \in Named, Reads(pos, s), EndsNumber(pos + 3)
      PROVE  /\ Ch(pos) \in Digits /\ Ch(pos + 1) = "/" /\ Ch(pos + 2) \in Digits
             /\ Ch(pos + 3) \notin Digits \cup Slashes
  <2>1. Ch(pos) = s[1] /\ Ch(pos + 1) = s[2] /\ Ch(pos + 2) = s[3]
    <3>1. /\ DOMAIN s = {1, 2, 3}
          /\ pos + 1 - 1 = pos /\ pos + 2 - 1 = pos + 1 /\ pos + 3 - 1 = pos + 2
      BY <1>1
    <3> QED BY <1>4, <3>1 DEF Reads
  <2>2. s[1] \in Digits /\ s[2] = "/" /\ s[3] \in Digits
    BY DEF Digits
  <2> QED BY <1>4, <2>1, <2>2, BoundaryNoDigit DEF EndsNumber, Slashes
<1>5. ASSUME Reads(pos, <<"1", "/", "4", "t", "h">>) \/ Reads(pos, <<"3", "/", "4", "t", "h", "s">>)
      PROVE  /\ Ch(pos) \in Digits /\ Ch(pos + 1) = "/" /\ Ch(pos + 2) \in Digits
             /\ Ch(pos + 3) \notin Digits \cup Slashes
  <2>1. Ch(pos) \in {"1", "3"} /\ Ch(pos + 1) = "/" /\ Ch(pos + 2) = "4" /\ Ch(pos + 3) = "t"
    BY <1>1, <1>5 DEF Reads
  <2> QED BY <2>1 DEF Digits, Slashes
<1> QED BY <1>2, <1>3, <1>4, <1>5 DEF NamedFraction

\* Whatever handler the character at hand has, it decides soundly.
LEMMA SoundDispatched ==
  ASSUME SmartTypes, pos \in DOMAIN text, text[pos] \in Handlers
  PROVE  Sound(Dispatched)
<1>1. CASE text[pos] \in {Quot, Nul}
  BY <1>1, SoundAmpersand DEF Dispatched, Quot, Nul
<1>2. CASE text[pos] = "'"
  BY <1>2, SoundApostrophe DEF Dispatched, Quot, Nul
<1>3. CASE text[pos] = "tick"
  BY <1>3, SoundBacktick DEF Dispatched, Quot, Nul
<1>4. CASE text[pos] = "("
  BY <1>4, SoundParens DEF Dispatched, Quot, Nul
<1>5. CASE text[pos] = "-"
  BY <1>5, SoundDash DEF Dispatched, Quot, Nul
<1>6. CASE text[pos] = "."
  BY <1>6, SoundPeriod DEF Dispatched, Quot, Nul
<1>7. CASE text[pos] = "<"
  BY <1>7, SoundAngle DEF Dispatched, Quot, Nul
<1>8. CASE text[pos] \in Digits
  <2>1. Dispatched = IF config.fractions THEN AnyFraction ELSE NamedFraction
    BY <1>8 DEF Dispatched, Quot, Nul, Digits
  <2> QED BY <1>8, <2>1, SoundAny, SoundNamed
<1> QED BY <1>1, <1>2, <1>3, <1>4, <1>5, <1>6, <1>7, <1>8 DEF Handlers, Digits
-----------------------------------------------------------------------------
(***************************************************************************)
(* What is written.                                                        *)
(***************************************************************************)
Written(o) == o \in Seq(Segment) /\ InOrder(o) /\ EachRight(o)

\* A segment that begins where the last one ended may follow it.
LEMMA Extended ==
  ASSUME NEW o, Written(o), NEW s \in Segment, Spelled(s), Apart(s),
         s.from = IF o = << >> THEN 1 ELSE o[Len(o)].to + 1
  PROVE  LET w == o \o <<s>> IN Written(w) /\ w # << >> /\ w[Len(w)] = s
<1> DEFINE w == o \o <<s>>
<1>1. o \in Seq(Segment) /\ w = Append(o, s)
  BY AppendIsConcat DEF Written
<1> HIDE DEF w
<1>2. /\ w \in Seq(Segment) /\ w # << >> /\ Len(w) = Len(o) + 1 /\ w[Len(o) + 1] = s
      /\ \A i \in 1..Len(o) : w[i] = o[i]
  BY <1>1, AppendProperties
<1>3. Len(o) \in Nat /\ DOMAIN o = 1..Len(o) /\ DOMAIN w = 1..(Len(o) + 1)
  BY <1>1, <1>2, LenProperties
<1>4. ASSUME NEW i \in 1..(Len(o) + 1)
      PROVE  /\ w[i].from = IF i = 1 THEN 1 ELSE w[i - 1].to + 1
             /\ Spelled(w[i]) /\ Apart(w[i])
  <2>1. CASE i \in 1..Len(o)
    <3>1. w[i] = o[i] /\ (i # 1 => w[i - 1] = o[i - 1])
      BY <1>2, <1>3, <2>1
    <3> QED BY <1>3, <2>1, <3>1 DEF Written, InOrder, EachRight
  <2>2. CASE i = Len(o) + 1
    <3>1. w[i] = s /\ (i # 1 => w[i - 1] = o[Len(o)])
      BY <1>2, <1>3, <2>2
    <3>2. i = 1 <=> o = << >>
      BY <1>1, <1>3, <2>2, EmptySeq
    <3> QED BY <3>1, <3>2
  <2> QED BY <1>3, <2>1, <2>2
<1>5. Written(w)
  BY <1>2, <1>3, <1>4 DEF Written, InOrder, EachRight
<1> QED BY <1>2, <1>5 DEF w

\* Copying what is pending brings what is written up to pos.
LEMMA FlushedUp ==
  ASSUME SmartTypes, Marked, Written(out), pos > 0,
         pos \in DOMAIN text \/ mark <= Len(text)
  PROVE  Written(out \o Flushed) /\ Ends(out \o Flushed, pos) /\ pos <= Len(text) + 1
<1>1. /\ pos \in Nat /\ mark \in Nat /\ Len(text) \in Nat
      /\ 1 <= mark /\ mark <= pos /\ pos <= Len(text) + 1 /\ mark <= Len(text)
  BY Characters DEF SmartTypes, Marked
<1>2. CASE pos > mark
  <2> DEFINE s == [from |-> mark, to |-> pos - 1, as |-> "copy"]
  <2>1. s \in Segment /\ s.from = mark /\ s.to = pos - 1 /\ s.as = "copy"
    BY <1>1, <1>2 DEF Segment, Outcomes
  <2>2. Flushed = <<s>>
    BY <1>2 DEF Flushed
  <2> HIDE DEF s
  <2>3. Spelled(s) /\ Apart(s)
    BY <2>1 DEF Spelled, Apart
  <2>4. s.from = IF out = << >> THEN 1 ELSE out[Len(out)].to + 1
    BY <1>1, <2>1 DEF Marked, Ends
  <2> DEFINE w == out \o Flushed
  <2>5. Written(w) /\ w # << >> /\ w[Len(w)] = s
    BY <2>1, <2>2, <2>3, <2>4, Extended
  <2> HIDE DEF w
  <2>6. Ends(w, pos)
    BY <1>1, <2>1, <2>5 DEF Ends
  <2> QED BY <1>1, <2>5, <2>6 DEF w
<1>3. CASE pos = mark
  <2>1. out \o Flushed = out
    BY <1>1, <1>3, ConcatEmptySeq DEF Flushed, Written
  <2> QED BY <1>1, <1>3, <2>1 DEF Marked
<1> QED BY <1>1, <1>2, <1>3

LEMMA SmartInitially == SmartInit => SmartInv
<1> SUFFICES ASSUME SmartInit  PROVE SmartInv
  OBVIOUS
<1>1. text \in Seq(config.alphabet)
  <2>1. config.length \in Nat
    BY SmartAssumption DEF SmartInit
  <2> QED BY <2>1, SeqDef DEF SmartInit, Texts
<1>2. SmartTypes
  BY <1>1 DEF SmartInit, SmartTypes
<1>3. Len(text) \in Nat
  BY <1>1
<1>4. Marked /\ InOrder(out) /\ EachRight(out)
  BY <1>3 DEF SmartInit, Marked, Ends, InOrder, EachRight
<1> QED BY <1>2, <1>4 DEF SmartInv, OpenIsLastWritten, SmartInit, Lefts

\* A step that reads the same text with the same flags keeps what is written right.
LEMMA StillWritten ==
  ASSUME Written(out'), UNCHANGED <<config, text>>
  PROVE  InOrder(out)' /\ EachRight(out)'
<1>1. InOrder(out)'
  BY DEF Written, InOrder
<1>2. /\ text' = text /\ config' = config
      /\ \A i \in DOMAIN out' : Spelled(out'[i]) /\ Apart(out'[i])
  BY DEF Written, EachRight
<1>3. \A i \in DOMAIN out' : Spelled(out[i])'
  <2> SUFFICES ASSUME NEW i \in DOMAIN out'  PROVE Spelled(out[i])'
    OBVIOUS
  <2>1. Spelled(out'[i])
    BY <1>2
  <2>2. (out[i].as = "frac" => IsFraction(SubSeq(text, out[i].from, out[i].to)))'
    BY <1>2, <2>1 DEF Spelled
  <2>3. (out[i].as \notin {"copy", "frac"}
           => SubSeq(text, out[i].from, out[i].to) \in Spellings(out[i].as))'
    BY <1>2, <2>1 DEF Spelled, Spellings
  <2> QED BY <2>2, <2>3 DEF Spelled
<1>4. \A i \in DOMAIN out' : Apart(out[i])'
  BY <1>2 DEF Apart, Ch
<1> QED BY <1>1, <1>3, <1>4 DEF EachRight

\* Every step keeps the strengthened invariant.
LEMMA SmartStepwise == SmartInv /\ [SmartNext]_svars => SmartInv'
<1> SUFFICES ASSUME SmartInv, [SmartNext]_svars
             PROVE  SmartInv'
  OBVIOUS
<1>1. SmartTypes /\ Marked /\ Written(out) /\ OpenIsLastWritten
  BY DEF SmartInv, SmartTypes, Written
<1>2. pos \in Nat /\ mark \in Nat /\ Len(text) \in Nat /\ DOMAIN text = 1..Len(text)
  BY <1>1, Characters DEF SmartTypes
<1>3. CASE Pass
  <2>1. SmartTypes'
    BY <1>1, <1>2, <1>3 DEF SmartTypes, Pass
  <2>2. Marked'
    BY <1>1, <1>2, <1>3 DEF Pass, Marked, Ends
  <2>3. InOrder(out)' /\ EachRight(out)'
    BY <1>1, <1>3, StillWritten DEF Pass
  <2> QED BY <1>1, <1>3, <2>1, <2>2, <2>3 DEF SmartInv, Pass, OpenIsLastWritten
<1>4. CASE Handle
  <2> DEFINE d == Dispatched
             s == [from |-> pos, to |-> Clip(pos + d.more), as |-> d.as]
             o == out \o Flushed
  <2>1. Sound(d)
    BY <1>1, <1>4, SoundDispatched DEF Handle
  <2>2. /\ out' = o \o <<s>> /\ pos' = pos + d.more + 1 /\ mark' = pos + d.more + 1
        /\ open' = IF d.sets \in Kinds THEN [open EXCEPT ![d.sets] = d.to] ELSE open
        /\ lastQuote' = [k \in Kinds |-> IF KindOf(d.as) = k THEN d.as ELSE lastQuote[k]]
        /\ UNCHANGED <<config, text>> /\ pos \in 1..Len(text)
    BY <1>2, <1>4 DEF Handle, Record
  <2>3. Written(o) /\ Ends(o, pos)
    BY <1>1, <1>2, <2>2, FlushedUp
  <2> HIDE DEF d
  <2>4. d \in Decision /\ d.more \in Nat /\ d.as \in Outcomes /\ pos + d.more <= Len(text) + 1
    BY <2>1 DEF Sound, SoundAt, Decision
  <2>5. /\ s.from = pos /\ s.as = d.as
        /\ s.to = IF pos + d.more > Len(text) THEN Len(text) ELSE pos + d.more
    BY DEF Clip
  <2>6. s \in Segment
    BY <1>2, <2>4 DEF Segment, Clip
  <2>7. Spelled(s) /\ Apart(s)
    <3>1. CASE d.as = "copy"
      BY <2>5, <3>1 DEF Spelled, Apart
    <3>2. CASE d.as # "copy"
      <4>1. s = [from |-> pos, to |-> pos + d.more, as |-> d.as]
        BY <1>2, <2>1, <2>4, <3>2 DEF Sound, SoundAt, Clip
      <4> QED BY <2>1, <4>1 DEF Sound, SoundAt
    <3> QED BY <3>1, <3>2
  <2> HIDE DEF s
  <2>8. s.from = IF o = << >> THEN 1 ELSE o[Len(o)].to + 1
    BY <1>2, <2>2, <2>3, <2>5 DEF Ends
  <2> HIDE DEF o
  <2>9. Written(out') /\ out' # << >> /\ out'[Len(out')] = s
    BY <2>2, <2>3, <2>6, <2>7, <2>8, Extended
  <2>10. SmartTypes'
    BY <1>1, <1>2, <2>2, <2>4, <2>9 DEF SmartTypes, Written, Decision
  <2>11. Marked'
    <3>1. mark' = pos' /\ pos' # 0 /\ mark' > 0 /\ mark' <= pos'
      BY <1>2, <2>2, <2>4
    <3>2. out'[Len(out')].to = IF mark' > Len(text') THEN Len(text') ELSE mark' - 1
      <4>1. s.to = IF pos + d.more + 1 > Len(text) THEN Len(text) ELSE (pos + d.more + 1) - 1
        <5> DEFINE L == Len(text)  m == d.more
        <5>1. L \in Nat /\ m \in Nat /\ pos \in Nat /\ pos + m <= L + 1
          BY <1>2, <2>2, <2>4
        <5>2. s.to = IF pos + m > L THEN L ELSE pos + m
          BY <2>5
        <5> HIDE DEF L, m
        <5>3. s.to = IF pos + m + 1 > L THEN L ELSE (pos + m + 1) - 1
          BY <5>1, <5>2
        <5> QED BY <5>3 DEF L, m
      <4>2. /\ out'[Len(out')] = s /\ mark' = pos + d.more + 1 /\ text' = text
        BY <2>2, <2>9
      <4> QED BY <4>1, <4>2, Zenon
    <3> QED BY <2>9, <3>1, <3>2 DEF Marked, Ends
  <2>12. OpenIsLastWritten'
    BY <1>1, <2>1, <2>2 DEF OpenIsLastWritten, SmartTypes, Sound, OwnState
  <2>13. InOrder(out)' /\ EachRight(out)'
    BY <2>2, <2>9, StillWritten
  <2> QED BY <2>10, <2>11, <2>12, <2>13 DEF SmartInv
<1>5. CASE Finish
  <2>1. /\ out' = out \o Flushed /\ mark' = pos /\ pos > Len(text) /\ mark <= Len(text)
        /\ UNCHANGED <<config, text, pos, open, lastQuote>>
    BY <1>5 DEF Finish
  <2>2. pos > 0
    BY <1>2, <2>1
  <2>3. Written(out') /\ Ends(out', pos) /\ pos <= Len(text) + 1
    BY <1>1, <2>1, <2>2, FlushedUp
  <2>4. SmartTypes'
    BY <1>1, <2>1, <2>3 DEF SmartTypes, Written
  <2>5. Marked'
    BY <1>2, <2>1, <2>2, <2>3 DEF Marked, Ends
  <2>6. InOrder(out)' /\ EachRight(out)'
    BY <2>1, <2>3, StillWritten
  <2> QED BY <1>1, <2>1, <2>4, <2>5, <2>6 DEF SmartInv, OpenIsLastWritten
<1>6. CASE Leave
  <2>1. SmartTypes'
    BY <1>1, <1>6 DEF Leave, SmartTypes
  <2>2. Marked'
    BY <1>6 DEF Leave, Marked, Ends
  <2> QED BY <1>1, <1>6, <2>1, <2>2 DEF SmartInv, Leave, InOrder, EachRight, OpenIsLastWritten
<1>7. CASE Enter
  <2>1. out = << >> /\ UNCHANGED <<config, out, open, lastQuote>> /\ pos' = 1 /\ mark' = 1
    BY <1>1, <1>7 DEF Enter, Marked
  <2>2. text' \in Seq(config.alphabet)
    <3>1. config.length \in Nat /\ text' \in Texts
      BY <1>1, <1>7, SmartAssumption DEF Enter, SmartTypes
    <3> QED BY <3>1, SeqDef DEF Texts
  <2>3. SmartTypes'
    BY <1>1, <2>1, <2>2 DEF SmartTypes
  <2>4. Marked'
    <3>1. Len(text') \in Nat
      BY <2>2
    <3> QED BY <2>1, <3>1 DEF Marked, Ends
  <2> QED BY <1>1, <2>1, <2>3, <2>4 DEF SmartInv, InOrder, EachRight, OpenIsLastWritten
<1>8. CASE UNCHANGED svars
  <2>1. UNCHANGED <<config, text, pos, mark, out, open, lastQuote>>
    BY <1>8 DEF svars
  <2>2. SmartTypes' /\ OpenIsLastWritten'
    BY <1>1, <2>1 DEF SmartTypes, OpenIsLastWritten
  <2>3. Marked'
    BY <1>1, <2>1 DEF Marked, Ends
  <2>4. InOrder(out)' /\ EachRight(out)'
    BY <1>1, <2>1, StillWritten
  <2> QED BY <2>2, <2>3, <2>4 DEF SmartInv
<1> QED BY <1>3, <1>4, <1>5, <1>6, <1>7, <1>8 DEF SmartNext

\* EachReadOnce for texts of any length: process copies or replaces each character
\* once, in order and by what it spells, also past an unclosed tag.
THEOREM TextsReadOnce == SmartSpec => []EachReadOnce
<1>1. SmartInv => EachReadOnce
  <2> SUFFICES ASSUME SmartInv  PROVE EachReadOnce
    OBVIOUS
  <2>1. \A i \in DOMAIN out :
          /\ out[i].from = IF i = 1 THEN 1 ELSE out[i - 1].to + 1
          /\ out[i].as \notin {"copy", "frac"} =>
               SubSeq(text, out[i].from, out[i].to) \in Spellings(out[i].as)
          /\ out[i].as = "frac" => IsFraction(SubSeq(text, out[i].from, out[i].to))
    BY DEF SmartInv, InOrder, EachRight, Spelled
  <2>2. ASSUME mark > Len(text), text # << >>  PROVE out[Len(out)].to = Len(text)
    <3>1. Len(text) \in Nat \ {0} /\ mark \in Nat
      BY <2>2, EmptySeq DEF SmartInv, SmartTypes
    <3> QED BY <2>2, <3>1 DEF SmartInv, Marked, Ends
  <2> QED BY <2>1, <2>2 DEF EachReadOnce
<1> QED
  BY <1>1, SmartInitially, SmartStepwise, PTL DEF SmartSpec

\* What a handler writes turns as the last quote of its kind says.
LEMMA QuoteTurns ==
  ASSUME SmartInv, Handle, NEW i \in DOMAIN out' \ DOMAIN out, KindOf(out'[i].as) \in Kinds,
         <<Class(Ch(out'[i].from - 1)), Class(Ch(out'[i].to + 1))>> \in Toggling
  PROVE  out'[i].as \in Lefts <=> lastQuote[KindOf(out'[i].as)] \notin Lefts
<1> DEFINE d == Dispatched
           o == out \o Flushed
           s == [from |-> pos, to |-> Clip(pos + d.more), as |-> d.as]
<1>1. Sound(d) /\ SmartTypes /\ pos \in Nat /\ Len(text) \in Nat
  BY SoundDispatched, Characters DEF Handle, SmartInv, SmartTypes
<1>2. out' = o \o << s >>
  BY DEF Handle
<1>3. out'[i] = s
  <2>1. out \in Seq(Segment)
    BY <1>1 DEF SmartTypes
  <2>2. CASE Flushed = << >>
    <3>1. out' = Append(out, s)
      BY <1>2, <2>1, <2>2
    <3> HIDE DEF s
    <3> QED BY <2>1, <3>1
  <2>3. CASE Flushed # << >>
    <3> DEFINE f == [from |-> mark, to |-> pos - 1, as |-> "copy"]
    <3>1. Flushed = << f >>
      BY <2>3 DEF Flushed
    <3>2. out' = Append(Append(out, f), s)
      BY <1>2, <2>1, <3>1
    <3>3. KindOf(f.as) \notin Kinds
      BY DEF KindOf, Kinds
    <3> HIDE DEF s, f
    <3>4. out'[i] = f \/ out'[i] = s
      BY <2>1, <3>2
    <3> QED BY <3>3, <3>4
  <2> QED BY <2>2, <2>3
<1>4. s.from = pos /\ s.as = d.as /\ d.sets = KindOf(d.as) /\ d.sets \in Kinds
  BY <1>1, <1>3 DEF Sound, OwnState
<1>5. s.to = pos + d.more
  <2>1. d.as # "copy"
    BY <1>4 DEF KindOf, Kinds
  <2>2. pos + d.more <= Len(text) /\ d.more \in Nat
    BY <1>1, <2>1 DEF Sound, SoundAt, Decision
  <2> HIDE DEF d
  <2> QED BY <1>1, <2>2 DEF Clip
<1>6. /\ d.as \in Lefts <=> Opens(Ch(pos - 1), Ch(pos + d.more + 1), open[d.sets])
      /\ open[d.sets] \in BOOLEAN /\ (open[d.sets] <=> lastQuote[d.sets] \in Lefts)
  BY <1>1, <1>4 DEF Sound, OwnState, SmartTypes, SmartInv, OpenIsLastWritten
<1>7. <<Class(Ch(pos - 1)), Class(Ch(pos + d.more + 1))>> \in Toggling
  BY <1>3, <1>4, <1>5
<1>8. Opens(Ch(pos - 1), Ch(pos + d.more + 1), open[d.sets]) <=> ~open[d.sets]
  <2> HIDE DEF d
  <2>1. Toggling \cap Opening = {}
    BY DEF Toggling, Opening
  <2> QED BY <1>7, <2>1 DEF Opens
<1> QED BY <1>3, <1>4, <1>6, <1>8

\* QuotesAlternate, for texts of any length and any number of them given to one
\* renderer: two quotes of a kind that are both left to the state never turn the
\* same way.
THEOREM QuotesTakeTurns == SmartSpec => QuotesAlternate
<1> DEFINE Turns(i) ==
      LET s == out'[i]  k == KindOf(s.as) IN
      k \in Kinds /\ <<Class(Ch(s.from - 1)), Class(Ch(s.to + 1))>> \in Toggling
        => (s.as \in Lefts <=> lastQuote[k] \notin Lefts)
<1>1. ASSUME SmartInv, [SmartNext]_svars, NEW i \in DOMAIN out' \ DOMAIN out
      PROVE  Turns(i)
  <2>1. CASE Handle
    BY <1>1, <2>1, QuoteTurns
  <2>2. CASE Finish
    <3>1. out \in Seq(Segment) /\ out' = out \o Flushed
      BY <1>1, <2>2 DEF Finish, SmartInv, SmartTypes
    <3>2. CASE Flushed = << >>
      <4>1. out' = out
        BY <3>1, <3>2
      <4> QED BY <1>1, <4>1
    <3>3. CASE Flushed # << >>
      <4> DEFINE f == [from |-> mark, to |-> pos - 1, as |-> "copy"]
      <4>1. out' = Append(out, f)
        BY <3>1, <3>3 DEF Flushed
      <4>2. KindOf(f.as) \notin Kinds
        BY DEF KindOf, Kinds
      <4> HIDE DEF f
      <4>3. out'[i] = f
        BY <1>1, <3>1, <4>1
      <4> QED BY <4>2, <4>3
    <3> QED BY <3>2, <3>3
  <2>3. CASE Pass \/ Leave \/ Enter \/ UNCHANGED svars
    <3>1. out' = out \/ out' = << >>
      BY <2>3 DEF Pass, Leave, Enter, svars
    <3>2. DOMAIN << >> = {}
      OBVIOUS
    <3> QED BY <1>1, <3>1, <3>2
  <2> QED BY <1>1, <2>1, <2>2, <2>3 DEF SmartNext
<1>2. SmartInv /\ [SmartNext]_svars => [\A i \in DOMAIN out' \ DOMAIN out : Turns(i)]_svars
  BY <1>1
<1> QED
  BY <1>2, SmartInitially, SmartStepwise, PTL DEF SmartSpec, QuotesAlternate

\* DatesKept for texts of any length: no handler of a digit makes a fraction of
\* what has a digit or a slash next to it.
THEOREM DatesStayWhole == SmartSpec => []DatesKept
<1>1. SmartInv => DatesKept
  BY DEF SmartInv, DatesKept, EachRight, Apart
<1> QED
  BY <1>1, SmartInitially, SmartStepwise, PTL DEF SmartSpec
=============================================================================
