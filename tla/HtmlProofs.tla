----------------------------- MODULE HtmlProofs -----------------------------
(***************************************************************************)
(* The HTML renderer, for documents of any size.                           *)
(*                                                                         *)
(* Headings: with any given ids and any number of renders, the heading ids *)
(* of a document are unique, the renderer's table counts exactly what it   *)
(* handed out, the links in the contents of a first document all have      *)
(* their anchor, and the contents are well nested.                         *)
(*                                                                         *)
(* The output as a whole: with any flags it is well-formed, it has every   *)
(* text to be shown once and in order, and it starts without a blank line. *)
(***************************************************************************)
EXTENDS Headings, HtmlRender, SequenceTheorems, NaturalsInduction, WellFoundedInduction, TLAPS

(***************************************************************************)
(* IdsUnique is not inductive: a fresh id is only known to differ from the *)
(* emitted ones because each of those is in the table.                     *)
(***************************************************************************)
EmittedSeen == \A j \in DOMAIN emitted : emitted[j].id \in Seen

TypedHeading == [level : Levels, heading_id : Id, is_titleblock : BOOLEAN]
Attribute == [prefixed : BOOLEAN, id : Id]

IdsTypes ==
  /\ headings \in Seq(TypedHeading)
  /\ k \in Nat \ {0} /\ heading_count \in Nat
  /\ heading_ids \in [Seen -> Nat] /\ Seen \subseteq Id
  /\ candidate \in Id
  /\ emitted \in Seq(Attribute)

IdsInv == IdsTypes /\ EmittedSeen /\ IdsUnique /\ CountsTaken

\* Each heading the parser can produce is typed.
LEMMA HeadingsTyped == Heading \subseteq TypedHeading
<1> SUFFICES ASSUME NEW h \in Heading  PROVE h \in TypedHeading
  OBVIOUS
<1>1. NoId \in Id /\ GivenIds \subseteq Id
  BY HeadingAssumption, EmptySeq DEF NoId, Id
<1>2. CASE h \in [level : Levels, heading_id : GivenIds \cup {NoId}, is_titleblock : {FALSE}]
  BY <1>1, <1>2 DEF TypedHeading
<1>3. CASE h \in [level : Levels \cap {1}, heading_id : {NoId}, is_titleblock : {TRUE}]
  BY <1>1, <1>3 DEF TypedHeading
<1> QED
  BY <1>2, <1>3 DEF Heading

\* A document's headings form a typed sequence.
LEMMA DocumentTyped ==
  ASSUME NEW n \in Nat, NEW h \in [1..n -> Heading]
  PROVE  h \in Seq(TypedHeading)
<1>1. h \in [1..n -> TypedHeading]
  BY HeadingsTyped
<1> QED
  BY <1>1, SeqDef

\* Numbering an id gives an id.
LEMMA NumberedTyped ==
  ASSUME NEW id \in Id, NEW n \in Nat
  PROVE  Append(id, n) \in Id
  BY DEF Id

\* Recording an id keeps the table a table, and changes no other entry.
LEMMA PutFacts ==
  ASSUME IdsTypes, NEW id \in Id, NEW n \in Nat, heading_ids' = Put(id, n)
  PROVE  /\ Seen' = Seen \cup {id} /\ Seen' \subseteq Id
         /\ heading_ids' \in [Seen' -> Nat]
         /\ heading_ids'[id] = n
         /\ \A i \in Seen : i # id => heading_ids'[i] = heading_ids[i]
  BY DEF Put, Seen, IdsTypes

\* Appending a new attribute to the emitted ones.
LEMMA EmitFacts ==
  ASSUME NEW s \in Seq(Attribute), NEW e \in Attribute
  PROVE  /\ Append(s, e) \in Seq(Attribute)
         /\ DOMAIN Append(s, e) = DOMAIN s \cup {Len(s) + 1}
         /\ Append(s, e)[Len(s) + 1] = e
         /\ \A j \in DOMAIN s : Append(s, e)[j] = s[j] /\ j # Len(s) + 1
<1>1. Len(s) \in Nat /\ DOMAIN s = 1..Len(s)
  BY LenProperties
<1> QED
  BY <1>1

\* Before any document nothing is emitted and the table is empty.
LEMMA IdsInitially == Init => IdsInv
  BY HeadingAssumption, EmptySeq
     DEF Init, IdsInv, IdsTypes, EmittedSeen, IdsUnique, CountsTaken, Seen, Id, NoId

\* Every step keeps the invariant.
LEMMA IdsStepwise == IdsInv /\ [Next]_vars => IdsInv'
<1> SUFFICES ASSUME IdsInv, [Next]_vars
             PROVE  IdsInv'
  OBVIOUS
<1> USE HeadingAssumption DEF IdsInv
<1> USE DEF IdsTypes, table
<1>1. CASE Render
  <2>1. PICK n \in 0..MaxHeadings : headings' \in [1..n -> Heading]
    BY <1>1 DEF Render
  <2>2. headings' \in Seq(TypedHeading)
    BY <2>1, DocumentTyped
  <2>3. emitted' = << >> /\ heading_count' = 0 /\ k' = 1
    BY <1>1 DEF Render
  <2>4. emitted' \in Seq(Attribute) /\ DOMAIN emitted' = {}
    BY <2>3, EmptySeq
  <2>5. UNCHANGED table /\ pc # "unique"
    BY <1>1 DEF Render
  <2>6. CountsTaken'
    BY <2>5 DEF CountsTaken, Seen
  <2> QED
    BY <2>2, <2>3, <2>4, <2>5, <2>6 DEF EmittedSeen, IdsUnique, Seen
<1>2. CASE TocEnter
  <2>a. /\ pc = "toc" /\ k <= Len(headings)
        /\ headings' = [headings EXCEPT ![k].heading_id = TocId(heading_count)]
        /\ heading_count' = heading_count + 1
        /\ UNCHANGED <<k, heading_ids, candidate, emitted>>
    <3> HIDE DEF IdsInv, IdsTypes
    <3> QED BY <1>2 DEF TocEnter
  <2>1. k \in 1..Len(headings) /\ headings[k] \in TypedHeading
    <3>1. k \in 1..Len(headings)
      BY <2>a, LenProperties
    <3> QED
      BY <3>1, ElementOfSeq
  <2>2. TocId(heading_count) \in Id
    BY DEF TocId, Id
  <2> DEFINE renamed == [headings[k] EXCEPT !.heading_id = TocId(heading_count)]
  <2>3. headings' = [headings EXCEPT ![k] = renamed]
    BY <2>a
  <2>4. renamed \in TypedHeading
    BY <2>1, <2>2 DEF TypedHeading
  <2> HIDE DEF renamed
  <2>5. headings' \in Seq(TypedHeading)
    BY <2>1, <2>3, <2>4, ExceptSeq
  <2>6. UNCHANGED <<k, table, emitted>> /\ pc = "toc" /\ heading_count' \in Nat
    BY <2>a
  <2>7. CountsTaken'
    BY <2>6 DEF CountsTaken, Seen
  <2> QED
    BY <2>5, <2>6, <2>7 DEF EmittedSeen, IdsUnique, Seen
<1>3. CASE TocLeave \/ TocSkip \/ TocEnd \/ BodySkip \/ BodyEnd
  <2>1. /\ UNCHANGED <<headings, heading_count, table, emitted>> /\ pc # "unique"
        /\ k' \in {k, k + 1, 1}
    <3> HIDE DEF IdsInv, IdsTypes
    <3>1. CASE TocLeave
      BY <3>1 DEF TocLeave
    <3>2. CASE TocSkip
      BY <3>2 DEF TocSkip, toc
    <3>3. CASE TocEnd
      BY <3>3 DEF TocEnd
    <3>4. CASE BodySkip \/ BodyEnd
      BY <3>4 DEF BodySkip, BodyEnd, toc
    <3> QED BY <1>3, <3>1, <3>2, <3>3, <3>4
  <2>2. CountsTaken'
    BY <2>1 DEF CountsTaken, Seen
  <2> QED
    BY <2>1, <2>2 DEF EmittedSeen, IdsUnique, Seen
<1>4. CASE BodyHeading
  <2>1. candidate' \in Id
    <3>1. k \in 1..Len(headings)
      BY <1>4, LenProperties DEF BodyHeading
    <3>2. headings[k] \in TypedHeading
      BY <3>1, ElementOfSeq
    <3> QED
      BY <1>4, <3>2 DEF BodyHeading, TypedHeading
  <2>2. UNCHANGED <<headings, k, heading_count, heading_ids, emitted>> /\ pc # "unique"
    BY <1>4 DEF BodyHeading, toc
  <2>3. CountsTaken'
    BY <2>2 DEF CountsTaken, Seen
  <2> QED
    BY <2>1, <2>2, <2>3 DEF EmittedSeen, IdsUnique, Seen
<1>5. CASE UniqueNumber
  <2> DEFINE n == heading_ids[candidate] + 1
  <2>1. /\ pc = "unique" /\ pc' = "unique" /\ candidate \in Seen
        /\ heading_ids' = Put(candidate, n) /\ candidate' = Append(candidate, n)
        /\ UNCHANGED <<headings, k, heading_count, emitted>>
    BY <1>5 DEF UniqueNumber, Numbered, toc
  <2>2. n \in Nat
    BY <2>1
  <2>3. candidate' \in Id
    BY <2>1, <2>2, NumberedTyped
  <2>4. /\ Seen' = Seen \cup {candidate} /\ heading_ids' \in [Seen' -> Nat] /\ Seen' \subseteq Id
        /\ heading_ids'[candidate] = n
        /\ \A i \in Seen : i # candidate => heading_ids'[i] = heading_ids[i]
    <3> HIDE DEF n
    <3> QED BY <2>1, <2>2, PutFacts
  <2>5. Seen' = Seen
    BY <2>1, <2>4
  <2>6. ASSUME NEW id \in Seen, NEW m \in 1..heading_ids'[id]
        PROVE  Append(id, m) \in Seen \/ Append(id, m) = candidate'
    <3>1. CASE id # candidate \/ m # n
      <4>1. m \in 1..heading_ids[id]
        BY <2>4, <2>6, <2>1, <3>1
      <4> QED
        BY <4>1, <2>1 DEF CountsTaken
    <3>2. CASE id = candidate /\ m = n
      BY <3>2, <2>1
    <3> QED
      BY <3>1, <3>2
  <2> HIDE DEF n
  <2>7. CountsTaken'
    BY <2>1, <2>5, <2>6 DEF CountsTaken
  <2> QED
    BY <2>1, <2>3, <2>4, <2>5, <2>7 DEF EmittedSeen, IdsUnique
<1>6. CASE UniqueRetry
  <2>1. /\ pc = "unique" /\ candidate \in Seen /\ candidate' = Append(candidate, 1)
        /\ UNCHANGED <<headings, k, heading_count, heading_ids, emitted>>
    BY <1>6 DEF UniqueRetry, toc
  <2>2. candidate' \in Id
    BY <2>1, NumberedTyped
  <2>3. CountsTaken'
    BY <2>1 DEF CountsTaken, Seen
  <2> QED
    BY <2>1, <2>2, <2>3 DEF EmittedSeen, IdsUnique, Seen
<1>7. CASE Emit
  <2>1. /\ pc = "unique" /\ pc' = "body" /\ candidate \notin Seen
        /\ heading_ids' = Put(candidate, 0)
        /\ emitted' = Append(emitted, Written(candidate))
        /\ UNCHANGED <<headings, heading_count, candidate>> /\ k' = k + 1
    BY <1>7 DEF Emit, toc
  <2>2. Written(candidate) \in Attribute /\ Written(candidate).id = candidate
    BY HeadingAssumption DEF Written, Attribute
  <2>3. /\ Seen' = Seen \cup {candidate} /\ heading_ids' \in [Seen' -> Nat] /\ Seen' \subseteq Id
        /\ heading_ids'[candidate] = 0
        /\ \A i \in Seen : i # candidate => heading_ids'[i] = heading_ids[i]
    BY <2>1, PutFacts
  <2> DEFINE last == Len(emitted) + 1
  <2>4. /\ emitted' \in Seq(Attribute) /\ DOMAIN emitted' = DOMAIN emitted \cup {last}
        /\ emitted'[last] = Written(candidate)
        /\ \A j \in DOMAIN emitted : emitted'[j] = emitted[j] /\ j # last
    BY <2>1, <2>2, EmitFacts
  <2> HIDE DEF last
  <2>5. EmittedSeen'
    BY <2>2, <2>3, <2>4 DEF EmittedSeen
  <2>6. IdsUnique'
    <3>1. \A j \in DOMAIN emitted : emitted[j] # Written(candidate)
      BY <2>1, <2>2 DEF EmittedSeen
    <3> QED
      BY <2>4, <3>1 DEF IdsUnique
  <2>7. CountsTaken'
    <3> SUFFICES ASSUME NEW id \in Seen', NEW m \in 1..heading_ids'[id]
                 PROVE  Append(id, m) \in Seen'
      BY DEF CountsTaken
    <3>1. id \in Seen /\ m \in 1..heading_ids[id]
      BY <2>1, <2>3
    <3> QED
      BY <3>1, <2>3 DEF CountsTaken
  <2> QED
    BY <2>1, <2>3, <2>4, <2>5, <2>6, <2>7
<1>8. CASE UNCHANGED vars
  <2>1. UNCHANGED <<pc, headings, k, heading_count, table, emitted>>
    BY <1>8 DEF vars, toc
  <2>2. CountsTaken'
    BY <2>1 DEF CountsTaken, Seen
  <2> QED
    BY <2>1, <2>2 DEF EmittedSeen, IdsUnique, Seen
<1> QED
  BY <1>1, <1>2, <1>3, <1>4, <1>5, <1>6, <1>7, <1>8 DEF Next

\* IdsUnique for documents of any size, any ids the text gives and any number of
\* renders: no two headings of a document get the same id attribute.
THEOREM HeadingIdsUnique == Spec => []IdsUnique
<1>1. IdsInv => IdsUnique
  BY DEF IdsInv
<1> QED
  BY <1>1, IdsInitially, IdsStepwise, PTL DEF Spec

\* CountsTaken, likewise: ensure_unique_heading_id never counts past a free id.
THEOREM TableCounts == Spec => []CountsTaken
<1>1. IdsInv => CountsTaken
  BY DEF IdsInv
<1> QED
  BY <1>1, IdsInitially, IdsStepwise, PTL DEF Spec


-----------------------------------------------------------------------------
(***************************************************************************)
(* The anchors of the first document.  The contents gave its headings      *)
(* names of their own, no other heading has any, and a name is only taken  *)
(* in the table once its heading has been written with it.                 *)
(***************************************************************************)
Names(c) == {TocId(n) : n \in 0..c - 1}

\* Of the headings hs the first b carry the c names, one each, or none.
Renamed(hs, c, b) ==
  /\ \A j \in 1..b : hs[j].heading_id \in Names(c) \cup {NoId}
  /\ \A name \in Names(c) : \E j \in 1..b : hs[j].heading_id = name
  /\ \A i, j \in 1..b : hs[i].heading_id = hs[j].heading_id /\ hs[i].heading_id # NoId => i = j

TitlesUnnamed == \A j \in DOMAIN headings : headings[j].is_titleblock => headings[j].heading_id = NoId

NamesKept ==
  \A j \in DOMAIN headings : headings[j].heading_id # NoId =>
    /\ j < k => \E e \in DOMAIN emitted : emitted[e] = Written(headings[j].heading_id)
    /\ j >= k => headings[j].heading_id \notin Seen

ContentsNamed ==
  /\ hrefs = {Bare(name) : name \in Names(heading_count)}
  /\ pc = "toc" => k <= Len(headings) + 1 /\ Renamed(headings, heading_count, k - 1)
  /\ pc = "toc heading" => k <= Len(headings) /\ Renamed(headings, heading_count, k)
  /\ pc \in {"body", "unique", "idle"} /\ heading_count > 0 =>
       Renamed(headings, heading_count, Len(headings))

FirstNames ==
  renders <= 1 =>
    /\ renders = 0 => pc = "idle" /\ heading_count = 0
    /\ renders = 0 \/ pc \in {"toc", "toc heading"} => Seen = {}
    /\ pc \in {"body", "unique", "idle"} /\ heading_count > 0 => NamesKept
    /\ pc = "unique" => k <= Len(headings) /\ candidate # NoId
    /\ pc = "unique" /\ heading_count > 0 => candidate = headings[k].heading_id
    /\ pc = "idle" /\ heading_count > 0 => k > Len(headings)

AnchorInv == IdsTypes /\ renders \in Nat /\ TitlesUnnamed /\ ContentsNamed /\ FirstNames

\* The next name of the contents is a new one.
LEMMA NextName ==
  ASSUME NEW c \in Nat
  PROVE  /\ Names(c + 1) = Names(c) \cup {TocId(c)}
         /\ TocId(c) \notin Names(c)
         /\ TocId(c) # NoId
<1>1. \A m, n \in Nat : TocId(m) = TocId(n) => m = n
  <2> SUFFICES ASSUME NEW m \in Nat, NEW n \in Nat, TocId(m) = TocId(n)  PROVE m = n
    OBVIOUS
  <2>1. TocId(m)[2] = m /\ TocId(n)[2] = n
    BY DEF TocId
  <2> QED BY <2>1
<1>2. TocId(c) # NoId
  BY DEF TocId, NoId
<1>3. 0..(c + 1) - 1 = (0..c - 1) \cup {c}
  OBVIOUS
<1>4. \A n \in 0..c - 1 : n \in Nat /\ n # c
  OBVIOUS
<1>5. Names(c + 1) = Names(c) \cup {TocId(c)}
  BY <1>3 DEF Names
<1>6. TocId(c) \notin Names(c)
  BY <1>1, <1>4 DEF Names
<1> QED BY <1>2, <1>5, <1>6

\* Naming heading b, unnamed until then, after the b - 1 before it.
LEMMA RenamedNext ==
  ASSUME NEW hs, NEW hs2, NEW c \in Nat, NEW b \in Nat \ {0},
         Renamed(hs, c, b - 1),
         \A j \in 1..b - 1 : hs2[j] = hs[j],
         hs2[b].heading_id = TocId(c)
  PROVE  Renamed(hs2, c + 1, b)
<1>1. /\ Names(c + 1) = Names(c) \cup {TocId(c)}
      /\ TocId(c) \notin Names(c)
      /\ TocId(c) # NoId
  BY NextName
<1> DEFINE name == TocId(c)
<1> HIDE DEF name
<1>2. \A j : j \in 1..b <=> (j \in 1..b - 1 \/ j = b)
  OBVIOUS
<1>3. \A j \in 1..b - 1 : hs2[j].heading_id = hs[j].heading_id /\ hs[j].heading_id \in Names(c) \cup {NoId}
  BY DEF Renamed
<1>4. \A j \in 1..b : hs2[j].heading_id \in Names(c + 1) \cup {NoId}
  BY <1>1, <1>2, <1>3
<1>5. ASSUME NEW x \in Names(c + 1)  PROVE \E j \in 1..b : hs2[j].heading_id = x
  <2>1. CASE x \in Names(c)
    <3>1. PICK j \in 1..b - 1 : hs[j].heading_id = x
      BY <2>1 DEF Renamed
    <3> QED BY <1>2, <1>3, <3>1
  <2>2. CASE x = TocId(c)
    BY <1>2, <2>2
  <2> QED BY <1>1, <2>1, <2>2
<1>6. ASSUME NEW i \in 1..b, NEW j \in 1..b,
             hs2[i].heading_id = hs2[j].heading_id, hs2[i].heading_id # NoId
      PROVE  i = j
  <2>1. CASE i = b /\ j # b
    BY <1>1, <1>2, <1>3, <1>6, <2>1
  <2>2. CASE j = b /\ i # b
    BY <1>1, <1>2, <1>3, <1>6, <2>2
  <2>3. CASE i \in 1..b - 1 /\ j \in 1..b - 1
    BY <1>3, <1>6, <2>3 DEF Renamed
  <2> QED BY <1>2, <2>1, <2>2, <2>3
<1> QED BY <1>4, <1>5, <1>6 DEF Renamed

\* Before any document there are no links and no names.
LEMMA AnchorsInitially == Init => AnchorInv
<1> SUFFICES ASSUME Init  PROVE AnchorInv
  OBVIOUS
<1>1. IdsTypes
  BY IdsInitially DEF IdsInv
<1>2. renders = 0 /\ headings = << >> /\ heading_count = 0 /\ hrefs = {} /\ pc = "idle"
  BY DEF Init
<1>3. Names(0) = {}
  BY DEF Names
<1>4. Seen = {}
  BY DEF Init, Seen
<1> QED BY <1>1, <1>2, <1>3, <1>4 DEF AnchorInv, TitlesUnnamed, ContentsNamed, FirstNames

\* Away from idle, a document has been begun.
LEMMA BegunOnce ==
  ASSUME AnchorInv, pc # "idle"
  PROVE  renders # 0
<1> SUFFICES ASSUME renders = 0  PROVE FALSE
  OBVIOUS
<1>1. renders <= 1
  OBVIOUS
<1> QED BY <1>1 DEF AnchorInv, FirstNames

\* A new document has no names, and as a first one nothing in the table.
LEMMA RenderNames ==
  ASSUME AnchorInv, Render, IdsTypes'
  PROVE  AnchorInv'
<1>1. PICK n \in 0..MaxHeadings : headings' \in [1..n -> Heading]
  BY DEF Render
<1>2. /\ pc = "idle" /\ pc' \in {"toc", "body"} /\ k' = 1 /\ heading_count' = 0 /\ hrefs' = {}
      /\ emitted' = << >> /\ renders' = renders + 1 /\ UNCHANGED heading_ids
  BY DEF Render, table
<1>3. renders \in Nat /\ renders' \in Nat
  BY <1>2 DEF AnchorInv
<1>4. TitlesUnnamed'
  <2> SUFFICES ASSUME NEW j \in DOMAIN headings', headings'[j].is_titleblock
               PROVE  headings'[j].heading_id = NoId
    BY DEF TitlesUnnamed, NoId
  <2>1. headings'[j] \in Heading
    BY <1>1
  <2> QED BY <2>1 DEF Heading
<1>5. Names(0) = {}
  BY DEF Names
<1>6. Renamed(headings', 0, 0)
  BY <1>5 DEF Renamed
<1>7. Len(headings') \in Nat
  BY DEF IdsTypes
<1>8. ContentsNamed'
  <2>1. k' - 1 = 0 /\ k' <= Len(headings') + 1
    BY <1>2, <1>7
  <2>2. Renamed(headings', heading_count', k' - 1)
    BY <1>2, <1>6, <2>1
  <2>3. hrefs' = {Bare(name) : name \in Names(heading_count')}
    BY <1>2, <1>5
  <2>4. pc' # "toc heading"
    BY <1>2
  <2>5. ~(heading_count' > 0)
    <3>1. heading_count' = 0
      BY <1>2
    <3> QED BY ONLY <3>1
  <2> QED BY ONLY <2>1, <2>2, <2>3, <2>4, <2>5 DEF ContentsNamed
<1>9. FirstNames'
  <2> SUFFICES ASSUME renders' <= 1  PROVE FirstNames'
    BY DEF FirstNames
  <2>1. renders = 0 /\ renders' # 0
    BY <1>2, <1>3
  <2>2. Seen' = {}
    <3>1. Seen = {}
      BY <2>1 DEF AnchorInv, FirstNames
    <3> QED BY <1>2, <3>1 DEF Seen
  <2> QED BY <1>2, <2>1, <2>2 DEF FirstNames
<1> QED BY <1>3, <1>4, <1>8, <1>9 DEF AnchorInv

\* The heading entered gets the next name, and the contents a link to it.
LEMMA EnterNames ==
  ASSUME AnchorInv, TocEnter, IdsTypes'
  PROVE  AnchorInv'
<1> DEFINE name == TocId(heading_count)
           renamed == [headings[k] EXCEPT !.heading_id = name]
<1>1. /\ pc = "toc" /\ k <= Len(headings) /\ ~headings[k].is_titleblock
      /\ headings' = [headings EXCEPT ![k] = renamed]
      /\ hrefs' = hrefs \cup {Bare(name)} /\ heading_count' = heading_count + 1
      /\ pc' = "toc heading"
      /\ UNCHANGED <<k, heading_ids, emitted, renders>>
  BY DEF TocEnter, table, Target
<1>2. heading_count \in Nat /\ k \in Nat \ {0} /\ headings \in Seq(TypedHeading) /\ renders \in Nat
  BY DEF AnchorInv, IdsTypes
<1>3. DOMAIN headings = 1..Len(headings) /\ Len(headings) \in Nat
  BY <1>2, LenProperties
<1>4. k \in DOMAIN headings
  <2>1. k <= Len(headings)
    BY <1>1
  <2> QED BY ONLY <1>2, <1>3, <2>1
<1>5. headings[k] \in TypedHeading
  BY <1>2, <1>3, <1>4, ElementOfSeq
<1>6. renamed.heading_id = name /\ renamed.is_titleblock = headings[k].is_titleblock
  BY <1>5 DEF TypedHeading
<1>7. Names(heading_count + 1) = Names(heading_count) \cup {name}
  BY <1>2, NextName
<1>8. headings \in [1..Len(headings) -> TypedHeading]
  BY <1>2, LenProperties
<1> HIDE DEF renamed, name
<1>9. DOMAIN headings' = DOMAIN headings
  BY <1>1
<1>10. headings'[k] = renamed /\ \A j \in DOMAIN headings : j # k => headings'[j] = headings[j]
  BY <1>1, <1>4, <1>8
<1>11. Len(headings') = Len(headings)
  <2>1. headings' \in Seq(TypedHeading)
    BY DEF IdsTypes
  <2>2. DOMAIN headings' = 1..Len(headings') /\ Len(headings') \in Nat
    BY <2>1, LenProperties
  <2> QED BY <1>3, <1>9, <2>2
<1>12. TitlesUnnamed'
  <2> SUFFICES ASSUME NEW j \in DOMAIN headings, headings'[j].is_titleblock
               PROVE  headings'[j].heading_id = NoId
    BY <1>9 DEF TitlesUnnamed, NoId
  <2>1. j # k
    BY <1>1, <1>6, <1>10
  <2> QED BY <1>10, <2>1 DEF AnchorInv, TitlesUnnamed
<1>13. Renamed(headings', heading_count', k')
  <2>1. Renamed(headings, heading_count, k - 1)
    BY <1>1 DEF AnchorInv, ContentsNamed
  <2>2. \A j \in 1..k - 1 : j \in DOMAIN headings /\ j # k
    <3>1. k <= Len(headings)
      BY <1>1
    <3> QED BY ONLY <1>2, <1>3, <3>1
  <2>3. \A j \in 1..k - 1 : headings'[j] = headings[j]
    BY <1>10, <2>2
  <2>4. headings'[k].heading_id = TocId(heading_count)
    BY <1>6, <1>10 DEF name
  <2>5. Renamed(headings', heading_count + 1, k)
    BY ONLY <1>2, <2>1, <2>3, <2>4, RenamedNext
  <2> QED BY <1>1, <2>5
<1>14. ContentsNamed'
  <2>1. hrefs = {Bare(x) : x \in Names(heading_count)}
    BY DEF AnchorInv, ContentsNamed
  <2>2. hrefs' = {Bare(x) : x \in Names(heading_count')}
    BY <1>1, <1>7, <2>1
  <2> QED BY <1>1, <1>11, <1>13, <2>2 DEF ContentsNamed
<1>15. FirstNames'
  <2>1. Seen' = Seen
    BY <1>1 DEF Seen
  <2>2. renders # 0
    BY <1>1, BegunOnce
  <2> QED BY <1>1, <2>1, <2>2 DEF AnchorInv, FirstNames
<1> QED BY <1>1, <1>2, <1>12, <1>14, <1>15 DEF AnchorInv

\* The walk over the contents goes on, or ends and the body begins.
LEMMA TocNames ==
  ASSUME AnchorInv, TocLeave \/ TocSkip \/ TocEnd, IdsTypes'
  PROVE  AnchorInv'
<1>1. /\ UNCHANGED <<headings, heading_count, hrefs, heading_ids, emitted, renders>>
      /\ pc \in {"toc", "toc heading"} /\ pc' \in {"toc", "body"}
  BY DEF TocLeave, TocSkip, TocEnd, toc, table
<1>2. heading_count \in Nat /\ k \in Nat \ {0} /\ headings \in Seq(TypedHeading) /\ renders \in Nat
  BY DEF AnchorInv, IdsTypes
<1>3. DOMAIN headings = 1..Len(headings) /\ Len(headings) \in Nat
  BY <1>2, LenProperties
<1>4. TitlesUnnamed'
  BY <1>1 DEF AnchorInv, TitlesUnnamed
<1>5. Seen' = Seen
  BY <1>1 DEF Seen
<1>6. renders # 0 /\ (renders <= 1 => Seen = {})
  <2>1. renders # 0
    BY <1>1, BegunOnce
  <2> QED BY <1>1, <2>1 DEF AnchorInv, FirstNames
<1>7. /\ pc' = "toc" => k' <= Len(headings) + 1 /\ Renamed(headings, heading_count, k' - 1)
      /\ pc' = "body" => k' = 1 /\ Renamed(headings, heading_count, Len(headings))
  <2>1. CASE TocLeave
    <3>1. pc = "toc heading" /\ k' = k + 1 /\ pc' = "toc"
      BY <2>1 DEF TocLeave
    <3>2. k <= Len(headings) /\ Renamed(headings, heading_count, k)
      BY <3>1 DEF AnchorInv, ContentsNamed
    <3>3. k' - 1 = k /\ k' <= Len(headings) + 1
      <4>1. k' = k + 1 /\ k <= Len(headings)
        BY <3>1, <3>2
      <4> QED BY ONLY <1>2, <1>3, <4>1
    <3> QED BY <3>1, <3>2, <3>3
  <2>2. CASE TocSkip
    <3>1. pc = "toc" /\ k' = k + 1 /\ pc' = "toc" /\ k <= Len(headings) /\ headings[k].is_titleblock
      BY <2>2 DEF TocSkip
    <3>2. Renamed(headings, heading_count, k - 1)
      BY <3>1 DEF AnchorInv, ContentsNamed
    <3>3. headings[k].heading_id = NoId
      <4>1. k \in DOMAIN headings
        BY ONLY <1>2, <1>3, <3>1
      <4> QED BY <3>1, <4>1 DEF AnchorInv, TitlesUnnamed
    <3>4. \A j : j \in 1..k <=> (j \in 1..k - 1 \/ j = k)
      BY <1>2
    <3>5. Renamed(headings, heading_count, k)
      BY <3>2, <3>3, <3>4 DEF Renamed
    <3>6. k' - 1 = k /\ k' <= Len(headings) + 1
      BY <1>2, <1>3, <3>1
    <3> QED BY <3>1, <3>5, <3>6
  <2>3. CASE TocEnd
    <3>1. pc = "toc" /\ k' = 1 /\ pc' = "body" /\ k > Len(headings)
      BY <2>3 DEF TocEnd
    <3>2. k <= Len(headings) + 1 /\ Renamed(headings, heading_count, k - 1)
      BY <3>1 DEF AnchorInv, ContentsNamed
    <3>3. k - 1 = Len(headings)
      BY <1>2, <1>3, <3>1, <3>2
    <3> QED BY <3>1, <3>2, <3>3
  <2> QED BY <2>1, <2>2, <2>3
<1>8. hrefs = {Bare(x) : x \in Names(heading_count)}
  BY DEF AnchorInv, ContentsNamed
<1>9. ContentsNamed'
  BY <1>1, <1>7, <1>8 DEF ContentsNamed
<1>10. renders <= 1 /\ pc' = "body" => NamesKept'
  <2> SUFFICES ASSUME renders <= 1, pc' = "body"  PROVE NamesKept'
    OBVIOUS
  <2>1. \A j \in DOMAIN headings : ~(j < 1)
    BY <1>3
  <2>2. k' = 1 /\ Seen' = {}
    BY <1>5, <1>6, <1>7
  <2> QED BY <1>1, <2>1, <2>2 DEF NamesKept
<1>11. FirstNames'
  BY <1>1, <1>5, <1>6, <1>10 DEF FirstNames
<1> QED BY <1>1, <1>2, <1>4, <1>9, <1>11 DEF AnchorInv

\* The body before the loop of ensure_unique_heading_id, and after the last heading.
LEMMA BodyNames ==
  ASSUME AnchorInv, BodyHeading \/ BodySkip \/ BodyEnd \/ UNCHANGED vars, IdsTypes'
  PROVE  AnchorInv'
<1>1. UNCHANGED <<headings, heading_count, hrefs, heading_ids, emitted, renders>>
  BY DEF BodyHeading, BodySkip, BodyEnd, vars, toc, table
<1>2. heading_count \in Nat /\ k \in Nat \ {0} /\ headings \in Seq(TypedHeading) /\ renders \in Nat
  BY DEF AnchorInv, IdsTypes
<1>3. DOMAIN headings = 1..Len(headings) /\ Len(headings) \in Nat
  BY <1>2, LenProperties
<1>4. TitlesUnnamed' /\ Seen' = Seen
  BY <1>1 DEF AnchorInv, TitlesUnnamed, Seen
<1>5. CASE UNCHANGED vars
  BY <1>5 DEF vars, toc, table, AnchorInv, TitlesUnnamed, ContentsNamed, FirstNames, NamesKept, Seen, IdsTypes
<1>6. ASSUME BodyHeading \/ BodySkip \/ BodyEnd  PROVE AnchorInv'
  <2>1. pc = "body" /\ pc' \in {"body", "unique", "idle"}
    BY <1>6 DEF BodyHeading, BodySkip, BodyEnd
  <2>2. ContentsNamed'
    BY <1>1, <2>1 DEF AnchorInv, ContentsNamed
  <2>3. renders <= 1 => renders # 0 /\ (heading_count > 0 => NamesKept)
    BY <1>2, <2>1 DEF AnchorInv, FirstNames
  <2>4. NamesKept => NamesKept'
    <3>1. CASE BodyHeading \/ BodyEnd
      <4>1. k' = k
        BY <3>1 DEF BodyHeading, BodyEnd
      <4> QED BY <1>1, <1>4, <4>1 DEF NamesKept
    <3>2. CASE BodySkip
      <4>1. k' = k + 1 /\ headings[k].heading_id = NoId
        BY <3>2 DEF BodySkip
      <4>2. \A j \in DOMAIN headings : (j < k' => j < k \/ j = k) /\ (j >= k' => j >= k)
        BY <1>2, <1>3, <4>1
      <4> QED BY <1>1, <1>4, <4>1, <4>2 DEF NamesKept
    <3> QED BY <1>6, <3>1, <3>2
  <2>5. pc' = "unique" => k' = k /\ k <= Len(headings) /\ candidate' = headings[k].heading_id /\ candidate' # NoId
    BY <1>6, <2>1 DEF BodyHeading, BodySkip, BodyEnd
  <2>6. pc' = "idle" => k' = k /\ k > Len(headings)
    BY <1>6, <2>1 DEF BodyHeading, BodySkip, BodyEnd
  <2>7. FirstNames'
    BY <1>1, <2>1, <2>3, <2>4, <2>5, <2>6 DEF FirstNames
  <2> QED BY <1>1, <1>2, <1>4, <2>2, <2>7 DEF AnchorInv
<1> QED BY <1>5, <1>6

\* Numbering: never a name of the contents in the first document, where none is
\* in the table before its heading is written.
LEMMA NumberNames ==
  ASSUME AnchorInv, UniqueNumber \/ UniqueRetry, IdsTypes'
  PROVE  AnchorInv'
<1>1. /\ UNCHANGED <<pc, headings, k, heading_count, hrefs, emitted, renders>>
      /\ pc = "unique" /\ candidate \in Seen
      /\ \E n \in Nat : candidate' = Append(candidate, n)
  BY DEF UniqueNumber, UniqueRetry, toc, AnchorInv, IdsTypes, Seen, Numbered
<1>2. heading_count \in Nat /\ k \in Nat \ {0} /\ headings \in Seq(TypedHeading) /\ renders \in Nat /\ candidate \in Seq(Nat)
  BY DEF AnchorInv, IdsTypes, Id
<1>3. DOMAIN headings = 1..Len(headings) /\ Len(headings) \in Nat
  BY <1>2, LenProperties
<1>4. TitlesUnnamed' /\ ContentsNamed'
  BY <1>1 DEF AnchorInv, TitlesUnnamed, ContentsNamed
<1>5. candidate' # NoId
  <2>1. PICK n \in Nat : candidate' = Append(candidate, n)
    BY <1>1
  <2> QED BY <1>2, <2>1 DEF NoId
<1>6. renders <= 1 => renders # 0 /\ ~(heading_count > 0) /\ k <= Len(headings)
  <2> SUFFICES ASSUME renders <= 1  PROVE renders # 0 /\ ~(heading_count > 0) /\ k <= Len(headings)
    OBVIOUS
  <2>1. k <= Len(headings) /\ candidate # NoId /\ renders # 0
    BY <1>1 DEF AnchorInv, FirstNames
  <2>2. ASSUME heading_count > 0  PROVE FALSE
    <3>1. NamesKept /\ candidate = headings[k].heading_id
      BY <1>1, <2>2 DEF AnchorInv, FirstNames
    <3>2. k \in DOMAIN headings /\ k >= k
      BY <1>2, <1>3, <2>1
    <3> QED BY <1>1, <2>1, <3>1, <3>2 DEF NamesKept
  <2> QED BY <2>1, <2>2
<1>7. FirstNames'
  BY <1>1, <1>5, <1>6 DEF FirstNames
<1> QED BY <1>1, <1>2, <1>4, <1>7 DEF AnchorInv

\* The name is written and taken; the names still to come are others.
LEMMA EmitNames ==
  ASSUME AnchorInv, Emit, IdsTypes'
  PROVE  AnchorInv'
<1>1. /\ UNCHANGED <<headings, heading_count, hrefs, renders>>
      /\ pc = "unique" /\ pc' = "body" /\ k' = k + 1
      /\ emitted' = Append(emitted, Written(candidate))
      /\ heading_ids' = Put(candidate, 0)
  BY DEF Emit, toc
<1>2. heading_count \in Nat /\ k \in Nat \ {0} /\ headings \in Seq(TypedHeading) /\ renders \in Nat
      /\ candidate \in Id /\ emitted \in Seq(Attribute) /\ IdsTypes
  BY DEF AnchorInv, IdsTypes
<1>3. DOMAIN headings = 1..Len(headings) /\ Len(headings) \in Nat
  BY <1>2, LenProperties
<1>4. TitlesUnnamed' /\ ContentsNamed'
  BY <1>1 DEF AnchorInv, TitlesUnnamed, ContentsNamed
<1>5. Seen' = Seen \cup {candidate}
  BY <1>1, <1>2, PutFacts
<1>6. Written(candidate) \in Attribute
  BY <1>2, HeadingAssumption DEF Written, Attribute
<1>7. /\ \A e \in DOMAIN emitted : e \in DOMAIN emitted' /\ emitted'[e] = emitted[e]
      /\ \E e \in DOMAIN emitted' : emitted'[e] = Written(candidate)
  BY <1>1, <1>2, <1>6, EmitFacts
<1>8. ASSUME renders <= 1, heading_count > 0  PROVE NamesKept'
  <2>1. NamesKept /\ candidate = headings[k].heading_id /\ k <= Len(headings) /\ candidate # NoId
    BY <1>1, <1>8 DEF AnchorInv, FirstNames
  <2>2. Renamed(headings, heading_count, Len(headings))
    BY <1>1, <1>8 DEF AnchorInv, ContentsNamed
  <2> SUFFICES ASSUME NEW j \in DOMAIN headings, headings[j].heading_id # NoId
               PROVE  /\ j < k' => \E e \in DOMAIN emitted' : emitted'[e] = Written(headings[j].heading_id)
                      /\ j >= k' => headings[j].heading_id \notin Seen'
    BY <1>1 DEF NamesKept, NoId, Written
  <2>3. k \in DOMAIN headings /\ (j < k' => j < k \/ j = k) /\ (j >= k' => j >= k /\ j # k)
    BY <1>1, <1>2, <1>3, <2>1
  <2>4. ASSUME j < k'  PROVE \E e \in DOMAIN emitted' : emitted'[e] = Written(headings[j].heading_id)
    <3>1. CASE j = k
      BY <1>7, <2>1, <3>1
    <3>2. CASE j < k
      <4>1. PICK e \in DOMAIN emitted : emitted[e] = Written(headings[j].heading_id)
        BY <2>1, <3>2 DEF NamesKept
      <4> QED BY <1>7, <4>1
    <3> QED BY <2>3, <2>4, <3>1, <3>2
  <2>5. ASSUME j >= k'  PROVE headings[j].heading_id \notin Seen'
    <3>1. headings[j].heading_id \notin Seen
      BY <2>1, <2>3, <2>5 DEF NamesKept
    <3>2. headings[j].heading_id # candidate
      BY <1>3, <2>1, <2>2, <2>3, <2>5 DEF Renamed
    <3> QED BY <1>5, <3>1, <3>2
  <2> QED BY <2>4, <2>5
<1>9. renders <= 1 => renders # 0
  BY <1>1 DEF AnchorInv, FirstNames
<1>10. FirstNames'
  BY <1>1, <1>8, <1>9 DEF FirstNames
<1> QED BY <1>1, <1>2, <1>4, <1>10 DEF AnchorInv

\* Every step keeps the invariant.
LEMMA AnchorsStepwise == AnchorInv /\ IdsInv /\ [Next]_vars => AnchorInv'
<1> SUFFICES ASSUME AnchorInv, IdsInv, [Next]_vars  PROVE AnchorInv'
  OBVIOUS
<1>1. IdsTypes'
  BY IdsStepwise DEF IdsInv
<1>2. CASE Render  BY <1>1, <1>2, RenderNames
<1>3. CASE TocEnter  BY <1>1, <1>3, EnterNames
<1>4. CASE TocLeave \/ TocSkip \/ TocEnd  BY <1>1, <1>4, TocNames
<1>5. CASE BodyHeading \/ BodySkip \/ BodyEnd \/ UNCHANGED vars  BY <1>1, <1>5, BodyNames
<1>6. CASE UniqueNumber \/ UniqueRetry  BY <1>1, <1>6, NumberNames
<1>7. CASE Emit  BY <1>1, <1>7, EmitNames
<1> QED BY <1>2, <1>3, <1>4, <1>5, <1>6, <1>7 DEF Next

\* FirstAnchorsResolve for every first document: each link write_toc put in the
\* contents is the id attribute of a heading the body wrote.
THEOREM FirstAnchors == Spec => []FirstAnchorsResolve
<1>1. AnchorInv => FirstAnchorsResolve
  <2> SUFFICES ASSUME AnchorInv, renders = 1, ~Prefixed, pc = "idle", NEW h \in hrefs
               PROVE  \E e \in DOMAIN emitted : emitted[e] = h
    BY DEF FirstAnchorsResolve, AnchorsResolve
  <2>1. PICK name \in Names(heading_count) : h = Bare(name)
    BY DEF AnchorInv, ContentsNamed
  <2>2. heading_count \in Nat /\ k \in Nat /\ headings \in Seq(TypedHeading)
    BY DEF AnchorInv, IdsTypes
  <2>3. heading_count > 0
    BY <2>1, <2>2 DEF Names
  <2>4. k > Len(headings) /\ NamesKept /\ Renamed(headings, heading_count, Len(headings))
    BY <2>3 DEF AnchorInv, FirstNames, ContentsNamed
  <2>5. PICK j \in 1..Len(headings) : headings[j].heading_id = name
    BY <2>1, <2>4 DEF Renamed
  <2>6. name # NoId
    BY <2>1 DEF Names, TocId, NoId
  <2>7. j \in DOMAIN headings /\ j < k
    BY <2>2, <2>4, LenProperties
  <2>8. Bare(name) = Written(name)
    BY HeadingAssumption DEF Bare, Written
  <2> QED BY <2>1, <2>4, <2>5, <2>6, <2>7, <2>8 DEF NamesKept
<1>2. Init => IdsInv /\ AnchorInv
  BY IdsInitially, AnchorsInitially
<1>3. IdsInv /\ AnchorInv /\ [Next]_vars => (IdsInv /\ AnchorInv)'
  BY IdsStepwise, AnchorsStepwise
<1> QED BY <1>1, <1>2, <1>3, PTL DEF Spec

-----------------------------------------------------------------------------
(***************************************************************************)
(* The contents, for levels that jump in any way.                          *)
(***************************************************************************)
\* The element at depth m of the contents, and the first m of them.
NestElement(m) == IF m % 2 = 1 THEN "ul" ELSE "li"
Nest(m) == [j \in 1..m |-> NestElement(j)]
NestState(m) == [open |-> Nest(m), crossed |-> FALSE]

\* The tags lead from state s to state u.
Leads(s, tags, u) ==
  \E w : /\ w[0] = s /\ w[Len(tags)] = u
         /\ \A i \in 1..Len(tags) : w[i] = Step(w[i - 1], tags[i])

Tag == [element : {"ul", "li", "a"}, closing : BOOLEAN]

\* Between two headings only lists are open, as many as toc_level says.
NestInv ==
  /\ pc \in {"idle", "toc", "toc heading", "body", "unique"}
  /\ toc_level \in Nat /\ crossed = FALSE
  /\ pc = "toc" => open = Nest(2 * toc_level)
  /\ pc = "toc heading" => open = Append(Nest(2 * toc_level), "a")
  /\ pc \notin {"toc", "toc heading"} => open = << >>

\* Depths are even in front of a list and odd in front of an item.
LEMMA Parity ==
  ASSUME NEW c \in Nat, NEW i \in Nat
  PROVE  /\ NestElement(2 * c + i) = NestElement(i)
         /\ i <= 2 * c => NestElement((2 * c - i) + 1) = IF i % 2 = 1 THEN "li" ELSE "ul"
<1>1. (2 * c + i) % 2 = i % 2
  OBVIOUS
<1>2. i <= 2 * c => (((2 * c - i) + 1) % 2 = 1 <=> i % 2 # 1)
  OBVIOUS
<1> QED BY <1>1, <1>2 DEF NestElement

\* Elements repeated.
LEMMA Repeated ==
  ASSUME NEW n \in Nat, NEW x, NEW y
  PROVE  /\ Times(n, <<x, y>>) = [i \in 1..2 * n |-> IF i % 2 = 1 THEN x ELSE y]
<1>1. n * Len(<<x, y>>) = 2 * n /\ Len(<<x, y>>) = 2
  OBVIOUS
<1>2. ASSUME NEW i \in 1..2 * n  PROVE <<x, y>>[((i - 1) % 2) + 1] = IF i % 2 = 1 THEN x ELSE y
  <2>1. CASE i % 2 = 1
    <3>1. (i - 1) % 2 = 0
      BY <2>1
    <3> QED BY <2>1, <3>1
  <2>2. CASE i % 2 # 1
    <3>1. (i - 1) % 2 = 1
      BY <2>2
    <3> QED BY <2>2, <3>1
  <2> QED BY <2>1, <2>2
<1> QED BY <1>1, <1>2 DEF Times

\* The next element opened.
LEMMA Deepened ==
  ASSUME NEW m \in Nat
  PROVE  Step(NestState(m), Opening(NestElement(m + 1))) = NestState(m + 1)
<1>1. Append(Nest(m), NestElement(m + 1)) = Nest(m + 1)
  <2>1. Nest(m) \in Seq({NestElement(j) : j \in 1..m}) /\ Len(Nest(m)) = m
    BY DEF Nest
  <2> QED BY <2>1 DEF Nest
<1> QED BY <1>1 DEF Step, Opening, NestState

\* The element at the end closed again.
LEMMA Risen ==
  ASSUME NEW m \in Nat
  PROVE  Step(NestState(m + 1), Closing(NestElement(m + 1))) = NestState(m)
<1> DEFINE s == Nest(m + 1)
<1>1. Len(s) = m + 1 /\ s # << >> /\ Last(s) = NestElement(m + 1)
  BY DEF Nest, Last
<1>2. Front(s) = Nest(m)
  BY DEF Nest, Front
<1> QED BY <1>1, <1>2 DEF Step, Closing, NestState

\* One tag more.
LEMMA LeadsOn ==
  ASSUME NEW s, NEW u, NEW D, NEW tags \in Seq(D), Leads(s, tags, u), NEW t \in D
  PROVE  Leads(s, Append(tags, t), Step(u, t))
<1> DEFINE l == Len(tags)
           more == Append(tags, t)
<1>1. l \in Nat /\ Len(more) = l + 1 /\ more[l + 1] = t /\ \A i \in 1..l : more[i] = tags[i]
  OBVIOUS
<1>2. PICK w : w[0] = s /\ w[l] = u /\ \A i \in 1..l : w[i] = Step(w[i - 1], tags[i])
  BY DEF Leads
<1> HIDE DEF l, more
<1> DEFINE v == [i \in 0..l + 1 |-> IF i = l + 1 THEN Step(u, t) ELSE w[i]]
<1>3. v[0] = s /\ v[l + 1] = Step(u, t) /\ v[l] = u
  BY <1>1, <1>2
<1>4. ASSUME NEW i \in 1..l + 1  PROVE v[i] = Step(v[i - 1], more[i])
  <2>1. CASE i = l + 1
    <3>1. i - 1 = l
      BY <1>1, <2>1
    <3> HIDE DEF v
    <3> QED BY <1>1, <1>3, <2>1, <3>1
  <2>2. CASE i # l + 1
    <3>1. i \in 1..l /\ i \in 0..l + 1 /\ i - 1 \in 0..l + 1 /\ i - 1 # l + 1
      BY <1>1, <2>2
    <3>2. v[i] = w[i] /\ v[i - 1] = w[i - 1]
      BY <2>2, <3>1
    <3> HIDE DEF v
    <3> QED BY <1>1, <1>2, <3>1, <3>2
  <2> QED BY <2>1, <2>2
<1> HIDE DEF v
<1>5. Leads(s, more, Step(u, t))
  BY <1>1, <1>3, <1>4 DEF Leads
<1> QED BY <1>5 DEF more

\* A set of numbers that is not empty has a least one.
LEMMA LeastNumber ==
  ASSUME NEW S, S \subseteq Nat, S # {}
  PROVE  \E m \in S : \A n \in S : m <= n
<1> DEFINE R == {ss \in Nat \X Nat : ss[1] < ss[2]}
<1>1. IsWellFoundedOn(R, Nat)
  BY NatLessThanWellFounded DEF OpToRel
<1>2. \A a, b \in Nat : a < b => <<a, b>> \in R
  OBVIOUS
<1> HIDE DEF R
<1>3. PICK m \in S : \A n \in S : <<n, m>> \notin R
  BY <1>1, WFMin
<1>4. ASSUME NEW n \in S  PROVE m <= n
  <2>1. n \in Nat /\ m \in Nat /\ ~(n < m)
    BY <1>2, <1>3
  <2> QED BY <2>1
<1> QED BY <1>4

\* After computes where the tags lead: the least place at which it would not is none.
LEMMA LeadsAfter ==
  ASSUME NEW s, NEW u, NEW D, NEW tags \in Seq(D), Leads(s, tags, u)
  PROVE  After(s, tags) = u
<1> DEFINE l == Len(tags)
           Unfolds(g) == g = [i \in 0..l |-> IF i = 0 THEN s ELSE Step(g[i - 1], tags[i])]
           after == CHOOSE g : Unfolds(g)
<1>1. l \in Nat
  OBVIOUS
<1>2. PICK w : w[0] = s /\ w[l] = u /\ \A i \in 1..l : w[i] = Step(w[i - 1], tags[i])
  BY DEF Leads
<1>3. After(s, tags) = after[l]
  BY DEF After
<1> HIDE DEF l
<1>4. Unfolds([i \in 0..l |-> w[i]])
  <2> DEFINE f == [i \in 0..l |-> w[i]]
  <2>1. ASSUME NEW i \in 0..l
        PROVE  f[i] = IF i = 0 THEN s ELSE Step(f[i - 1], tags[i])
    <3>1. i # 0 => i \in 1..l /\ i - 1 \in 0..l
      BY <1>1
    <3> QED BY <1>2, <3>1
  <2>2. f = [i \in 0..l |-> f[i]]
    OBVIOUS
  <2> HIDE DEF f
  <2>3. Unfolds(f)
    BY <2>1, <2>2
  <2> QED BY <2>3 DEF f
<1>5. Unfolds(after)
  BY <1>4
<1> HIDE DEF after
<1>6. \A i \in 0..l : after[i] = IF i = 0 THEN s ELSE Step(after[i - 1], tags[i])
  BY <1>5
<1> HIDE DEF Unfolds
<1> DEFINE Wrong == {i \in 0..l : after[i] # w[i]}
<1>7. ASSUME Wrong # {}  PROVE FALSE
  <2>1. PICK i \in Wrong : \A j \in Wrong : i <= j
    <3>1. Wrong \subseteq Nat
      BY <1>1
    <3> HIDE DEF Wrong
    <3> QED BY <1>7, <3>1, LeastNumber
  <2>2. i \in 0..l /\ after[i] # w[i]
    BY <2>1
  <2>3. i # 0
    BY <1>2, <1>6, <2>2
  <2>4. i \in 1..l /\ i - 1 \in 0..l /\ ~(i <= i - 1)
    BY <1>1, <2>2, <2>3
  <2>5. after[i - 1] = w[i - 1]
    BY <2>1, <2>4
  <2> HIDE DEF Wrong
  <2>6. after[i] = Step(after[i - 1], tags[i]) /\ w[i] = Step(w[i - 1], tags[i])
    BY <1>2, <1>6, <2>2, <2>3, <2>4
  <2> QED BY <2>2, <2>5, <2>6
<1>8. l \in 0..l
  BY <1>1
<1> QED BY <1>2, <1>3, <1>7, <1>8

\* Lists opened one in the other, and closed again.
LEMMA LeadDeeper ==
  ASSUME NEW c \in Nat, NEW n \in Nat
  PROVE  /\ Times(n, Deeper) \in Seq(Tag)
         /\ Leads(NestState(2 * c), Times(n, Deeper), NestState(2 * (c + n)))
<1> DEFINE tags == Times(n, Deeper)
           w == [i \in 0..2 * n |-> NestState(2 * c + i)]
<1>1. tags = [i \in 1..2 * n |-> IF i % 2 = 1 THEN Opening("ul") ELSE Opening("li")]
  <2>1. PICK x, y : x = Opening("ul") /\ y = Opening("li")
    OBVIOUS
  <2>2. Times(n, <<x, y>>) = [i \in 1..2 * n |-> IF i % 2 = 1 THEN x ELSE y]
    BY Repeated
  <2>3. Deeper = <<x, y>>
    BY <2>1 DEF Deeper
  <2> QED BY <2>1, <2>2, <2>3
<1> HIDE DEF tags
<1>2. tags \in Seq(Tag) /\ Len(tags) = 2 * n
  <2>1. 2 * n \in Nat
    OBVIOUS
  <2>2. Opening("ul") \in Tag /\ Opening("li") \in Tag
    BY DEF Tag, Opening
  <2> QED BY <1>1, <2>1, <2>2
<1>3. ASSUME NEW i \in 1..2 * n  PROVE w[i] = Step(w[i - 1], tags[i])
  <2>1. i \in 0..2 * n /\ i - 1 \in 0..2 * n /\ i \in Nat
    OBVIOUS
  <2>2. PICK m \in Nat : m = 2 * c + (i - 1) /\ m + 1 = 2 * c + i
    OBVIOUS
  <2>3. w[i - 1] = NestState(m) /\ w[i] = NestState(m + 1)
    BY <2>1, <2>2
  <2>4. tags[i] = Opening(NestElement(i)) /\ NestElement(m + 1) = NestElement(i)
    <3>1. NestElement(2 * c + i) = NestElement(i)
      BY <2>1, Parity
    <3> QED BY <1>1, <2>2, <3>1 DEF NestElement
  <2> HIDE DEF w
  <2> QED BY <2>3, <2>4, Deepened
<1>4. w[0] = NestState(2 * c) /\ w[2 * n] = NestState(2 * (c + n))
  <2>1. 0 \in 0..2 * n /\ 2 * n \in 0..2 * n /\ 2 * c + 0 = 2 * c /\ 2 * c + 2 * n = 2 * (c + n)
    OBVIOUS
  <2> QED BY <2>1
<1> HIDE DEF w
<1>5. Leads(NestState(2 * c), tags, NestState(2 * (c + n)))
  BY <1>2, <1>3, <1>4 DEF Leads
<1> QED BY <1>2, <1>5 DEF tags

\* Levels of the contents closed one by one.
LEMMA LeadShallower ==
  ASSUME NEW c \in Nat, NEW n \in Nat, n <= c
  PROVE  /\ Times(n, Shallower) \in Seq(Tag)
         /\ Leads(NestState(2 * c), Times(n, Shallower), NestState(2 * (c - n)))
<1> DEFINE tags == Times(n, Shallower)
           w == [i \in 0..2 * n |-> NestState(2 * c - i)]
<1>1. tags = [i \in 1..2 * n |-> IF i % 2 = 1 THEN Closing("li") ELSE Closing("ul")]
  <2>1. PICK x, y : x = Closing("li") /\ y = Closing("ul")
    OBVIOUS
  <2>2. Times(n, <<x, y>>) = [i \in 1..2 * n |-> IF i % 2 = 1 THEN x ELSE y]
    BY Repeated
  <2>3. Shallower = <<x, y>>
    BY <2>1 DEF Shallower
  <2> QED BY <2>1, <2>2, <2>3
<1> HIDE DEF tags
<1>2. tags \in Seq(Tag) /\ Len(tags) = 2 * n
  <2>1. 2 * n \in Nat
    OBVIOUS
  <2>2. Closing("ul") \in Tag /\ Closing("li") \in Tag
    BY DEF Tag, Closing
  <2> QED BY <1>1, <2>1, <2>2
<1>3. ASSUME NEW i \in 1..2 * n  PROVE w[i] = Step(w[i - 1], tags[i])
  <2>1. i \in 0..2 * n /\ i - 1 \in 0..2 * n /\ i \in Nat /\ i <= 2 * c
    OBVIOUS
  <2>2. PICK m \in Nat : m = 2 * c - i /\ m + 1 = 2 * c - (i - 1)
    <3>1. 2 * c - i \in Nat /\ (2 * c - i) + 1 = 2 * c - (i - 1)
      BY <2>1
    <3> QED BY <3>1
  <2>3. w[i - 1] = NestState(m + 1) /\ w[i] = NestState(m)
    BY <2>1, <2>2
  <2>4. tags[i] = Closing(NestElement(m + 1))
    <3>1. NestElement((2 * c - i) + 1) = IF i % 2 = 1 THEN "li" ELSE "ul"
      BY <2>1, Parity
    <3> QED BY <1>1, <2>2, <3>1
  <2> HIDE DEF w
  <2> QED BY <2>3, <2>4, Risen
<1>4. w[0] = NestState(2 * c) /\ w[2 * n] = NestState(2 * (c - n))
  <2>1. 0 \in 0..2 * n /\ 2 * n \in 0..2 * n /\ 2 * c - 0 = 2 * c /\ 2 * c - 2 * n = 2 * (c - n)
    OBVIOUS
  <2> QED BY <2>1
<1> HIDE DEF w
<1>5. Leads(NestState(2 * c), tags, NestState(2 * (c - n)))
  BY <1>2, <1>3, <1>4 DEF Leads
<1> QED BY <1>2, <1>5 DEF tags

\* Before any tag.
LEMMA LeadsNowhere ==
  ASSUME NEW s
  PROVE  Leads(s, << >>, s)
<1> DEFINE w == [i \in {0} |-> s]
<1>1. w[0] = s
  OBVIOUS
<1> HIDE DEF w
<1>2. Len(<< >>) = 0 /\ \A i \in 1..0 : w[i] = Step(w[i - 1], << >>[i])
  OBVIOUS
<1> QED BY <1>1, <1>2 DEF Leads

\* An entry of the contents leads from the list of one level to that of the other.
LEMMA EntryLeads ==
  ASSUME toc_level \in Nat, NEW l \in Nat \ {0}
  PROVE  Entry(l) \in Seq(Tag) /\ Leads(NestState(2 * toc_level), Entry(l), NestState(2 * l))
<1>1. CASE l > toc_level
  <2>1. PICK n \in Nat : n = l - toc_level /\ toc_level + n = l
    BY <1>1
  <2>2. Entry(l) = Times(n, Deeper)
    BY <1>1, <2>1 DEF Entry
  <2> QED BY <2>1, <2>2, LeadDeeper
<1>2. CASE ~(l > toc_level)
  <2> DEFINE c == Closing("li")
             o == Opening("li")
  <2>1. PICK n \in Nat : n = toc_level - l /\ toc_level - n = l /\ n <= toc_level
    BY <1>2
  <2> DEFINE tags == Times(n, Shallower)
             s == NestState(2 * toc_level)
             u == NestState(2 * l)
  <2>2. Entry(l) = tags \o <<c, o>>
    BY <1>2, <2>1 DEF Entry, Sibling
  <2>3. tags \in Seq(Tag) /\ Leads(s, tags, u)
    BY <2>1, LeadShallower
  <2>4. c \in Tag /\ o \in Tag
    BY DEF Tag, Closing, Opening
  <2>5. PICK m \in Nat : m + 1 = 2 * l
    <3>1. 2 * l - 1 \in Nat /\ (2 * l - 1) + 1 = 2 * l
      OBVIOUS
    <3> QED BY <3>1
  <2>6. Step(u, c) = NestState(m) /\ Step(NestState(m), o) = u
    <3>1. NestElement(m + 1) = "li"
      BY <2>5 DEF NestElement
    <3>2. Step(NestState(m + 1), Closing(NestElement(m + 1))) = NestState(m)
      BY Risen
    <3>3. Step(NestState(m), Opening(NestElement(m + 1))) = NestState(m + 1)
      BY Deepened
    <3> QED BY <2>5, <3>1, <3>2, <3>3
  <2> HIDE DEF tags, s, u, c, o
  <2>7. tags \o <<c, o>> = Append(Append(tags, c), o) /\ Append(tags, c) \in Seq(Tag) /\ tags \o <<c, o>> \in Seq(Tag)
    BY <2>3, <2>4
  <2>8. Leads(s, Append(tags, c), NestState(m))
    BY <2>3, <2>4, <2>6, LeadsOn
  <2>9. Leads(s, Append(Append(tags, c), o), u)
    BY <2>4, <2>6, <2>7, <2>8, LeadsOn
  <2> QED BY <2>2, <2>7, <2>9 DEF s, u
<1> QED BY <1>1, <1>2

\* What is written is what the tags lead to.
LEMMA WriteLeads ==
  ASSUME NEW tags \in Seq(Tag), Write(tags), NEW s, NEW u, Leads(s, tags, u),
         s = [open |-> open, crossed |-> crossed]
  PROVE  open' = u.open /\ crossed' = u.crossed
<1>1. After(s, tags) = u
  BY LeadsAfter
<1>2. open' = After(s, tags).open /\ crossed' = After(s, tags).crossed
  BY DEF Write
<1> QED BY <1>1, <1>2

\* Every step leaves the contents nested.
LEMMA NestStepwise == IdsInv /\ NestInv /\ [Next]_vars => NestInv'
<1> SUFFICES ASSUME IdsInv, NestInv, [Next]_vars  PROVE NestInv'
  OBVIOUS
<1>1. CASE Render
  <2>1. pc' \in {"toc", "body"} /\ toc_level' = 0 /\ open' = << >> /\ crossed' = FALSE
    BY <1>1 DEF Render
  <2>2. Nest(2 * 0) = << >>
    BY DEF Nest
  <2> QED BY <2>1, <2>2 DEF NestInv
<1>2. CASE TocEnter
  <2> DEFINE l == headings[k].level
             s == NestState(2 * toc_level)
             u == NestState(2 * l)
             q == Step(u, Opening("a"))
  <2>1. /\ pc = "toc" /\ Write(Append(Entry(l), Opening("a"))) /\ toc_level' = l /\ pc' = "toc heading"
        /\ k <= Len(headings)
    BY <1>2 DEF TocEnter
  <2>2. l \in Nat \ {0}
    <3>1. headings \in Seq(TypedHeading) /\ k \in Nat \ {0}
      BY DEF IdsInv, IdsTypes
    <3>2. k \in 1..Len(headings)
      <4>1. k \in Nat /\ k # 0 /\ Len(headings) \in Nat /\ k <= Len(headings)
        BY <2>1, <3>1, LenProperties
      <4> QED BY <4>1
    <3>3. headings[k] \in TypedHeading
      BY <3>1, <3>2, ElementOfSeq
    <3> QED BY <3>3, HeadingAssumption DEF TypedHeading
  <2> HIDE DEF l
  <2>3. Entry(l) \in Seq(Tag) /\ Leads(s, Entry(l), u)
    BY <2>2, EntryLeads DEF NestInv
  <2>4. Opening("a") \in Tag
    BY DEF Tag, Opening
  <2>5. Append(Entry(l), Opening("a")) \in Seq(Tag)
    BY <2>3, <2>4
  <2>6. s = [open |-> open, crossed |-> crossed]
    BY <2>1 DEF NestInv, NestState
  <2>7. q.open = Append(Nest(2 * l), "a") /\ q.crossed = FALSE
    BY DEF Step, Opening, NestState
  <2> HIDE DEF s, u, q
  <2>8. Leads(s, Append(Entry(l), Opening("a")), q)
    BY <2>3, <2>4, LeadsOn DEF q
  <2>9. open' = q.open /\ crossed' = q.crossed
    BY <2>1, <2>5, <2>6, <2>8, WriteLeads
  <2> QED BY <2>1, <2>2, <2>7, <2>9 DEF NestInv
<1>3. CASE TocLeave
  <2> DEFINE s == [open |-> open, crossed |-> crossed]
             t == Closing("a")
             q == Step(s, t)
  <2>1. pc = "toc heading" /\ Write(<<t>>) /\ pc' = "toc" /\ toc_level' = toc_level
    BY <1>3 DEF TocLeave
  <2>2. toc_level \in Nat /\ open = Append(Nest(2 * toc_level), "a") /\ crossed = FALSE
    BY <2>1 DEF NestInv
  <2>3. q.open = Nest(2 * toc_level) /\ q.crossed = FALSE
    <3> DEFINE n == Nest(2 * toc_level)
    <3>1. 2 * toc_level \in Nat
      BY <2>2
    <3>2. PICK m \in Nat : m = 2 * toc_level
      BY <3>1
    <3>3. n \in Seq({NestElement(j) : j \in 1..m})
      BY <3>2 DEF Nest
    <3> HIDE DEF n
    <3>4. Append(n, "a") # << >> /\ Last(Append(n, "a")) = "a" /\ Front(Append(n, "a")) = n
      BY <3>3 DEF Last, Front
    <3> QED BY <2>2, <3>4 DEF Step, Closing, n
  <2>4. t \in Tag /\ <<t>> = Append(<< >>, t) /\ << >> \in Seq(Tag)
    BY DEF Tag, Closing
  <2> HIDE DEF s, t, q
  <2>5. Leads(s, <<t>>, q) /\ <<t>> \in Seq(Tag)
    <3>1. PICK none \in Seq(Tag) : none = << >>
      BY <2>4
    <3>2. Leads(s, none, s)
      BY <3>1, LeadsNowhere
    <3>3. Leads(s, Append(none, t), Step(s, t))
      BY <2>4, <3>2, LeadsOn
    <3> QED BY <2>4, <3>1, <3>3 DEF q
  <2>6. open' = q.open /\ crossed' = q.crossed
    BY <2>1, <2>5, WriteLeads DEF s
  <2> QED BY <2>1, <2>2, <2>3, <2>6 DEF NestInv
<1>4. CASE TocSkip
  BY <1>4 DEF TocSkip, NestInv, toc
<1>5. CASE TocEnd
  <2> DEFINE s == NestState(2 * toc_level)
             u == NestState(2 * 0)
             tags == Times(toc_level, Shallower)
  <2>1. pc = "toc" /\ Write(tags) /\ toc_level' = 0 /\ pc' = "body"
    BY <1>5 DEF TocEnd
  <2>2. tags \in Seq(Tag) /\ Leads(s, tags, u)
    <3>1. toc_level \in Nat
      BY DEF NestInv
    <3>2. PICK c \in Nat : c = toc_level /\ c <= c /\ c - c = 0
      BY <3>1
    <3> QED BY <3>2, LeadShallower
  <2>3. s = [open |-> open, crossed |-> crossed]
    BY <2>1 DEF NestInv, NestState
  <2>4. u.open = << >> /\ u.crossed = FALSE
    BY DEF NestState, Nest
  <2> HIDE DEF s, u, tags
  <2>5. open' = u.open /\ crossed' = u.crossed
    BY <2>1, <2>2, <2>3, WriteLeads
  <2> QED BY <2>1, <2>4, <2>5 DEF NestInv
<1>6. CASE BodyHeading
  BY <1>6 DEF BodyHeading, NestInv, toc
<1>7. CASE BodySkip
  BY <1>7 DEF BodySkip, NestInv, toc
<1>8. CASE UniqueNumber
  BY <1>8 DEF UniqueNumber, NestInv, toc
<1>9. CASE UniqueRetry
  BY <1>9 DEF UniqueRetry, NestInv, toc
<1>10. CASE Emit
  BY <1>10 DEF Emit, NestInv, toc
<1>11. CASE BodyEnd
  BY <1>11 DEF BodyEnd, NestInv, toc
<1>12. CASE UNCHANGED vars
  BY <1>12 DEF vars, NestInv, toc
<1> QED BY <1>1, <1>2, <1>3, <1>4, <1>5, <1>6, <1>7, <1>8, <1>9, <1>10, <1>11, <1>12 DEF Next

\* ContentsNested, for any number of headings and any levels, however they jump.
THEOREM ContentsWellNested == Spec => []ContentsNested
<1>1. Init => NestInv
  BY DEF Init, NestInv
<1>2. NestInv => ContentsNested
  <2> SUFFICES ASSUME NestInv  PROVE ContentsNested
    OBVIOUS
  <2>1. toc_level \in Nat
    BY DEF NestInv
  <2>2. PICK x, y : x = "ul" /\ y = "li"
    OBVIOUS
  <2>3. Times(toc_level, <<x, y>>) = [i \in 1..2 * toc_level |-> IF i % 2 = 1 THEN x ELSE y]
    BY <2>1, Repeated
  <2>4. Times(toc_level, <<"ul", "li">>) = Nest(2 * toc_level)
    BY <2>2, <2>3 DEF Nest, NestElement
  <2> QED BY <2>4 DEF NestInv, ContentsNested
<1> QED BY <1>1, <1>2, IdsInitially, IdsStepwise, NestStepwise, PTL DEF Spec

-----------------------------------------------------------------------------
(***************************************************************************)
(* What a sequence of calls to the writers does to the output is told by   *)
(* the elements it leaves open, the texts it has written and whether it    *)
(* has begun.                                                              *)
(***************************************************************************)
Page == {"html", "body"}
Inside == {"sup", "sub", "a", "tt", "alt", "p", "h", "div", "ol", "ul", "dl", "dt",
           "dd", "li", "td", "pre", "code", "blockquote", "table", "thead",
           "tbody", "tr", "em", "strong", "del"}
Tags == Page \cup Inside
Marks == {<<"hr">>, <<"br">>, <<"space">>} \cup ({"number", "html"} \X Nat)
Words == {"text", "smart"} \X Nat
Token == ({"open", "close"} \X Tags) \cup Words \cup Marks \cup {NL}

\* The elements x open after the tokens o.
Opens(o, x) ==
  \E w : /\ w[0] = << >> /\ w[Len(o)] = x
         /\ \A j \in 1..Len(o) : w[j] = Element(w[j - 1], o[j])

\* The texts written in the tokens o; that they are in order; that more than the
\* head of a page and newlines is written, and that it is before any newline.
TextsAt(o) == {j \in DOMAIN o : o[j][1] \in {"text", "smart"}}
TextsOf(o) == {o[j][2] : j \in TextsAt(o)}
Ordered(o) == \A i, j \in TextsAt(o) : i < j => o[i][2] < o[j][2]
Blank == {NL, Opn("html"), Opn("body")}
Started(o) == \E j \in DOMAIN o : o[j] \notin Blank
Clean(o) == \A j \in DOMAIN o : o[j] = NL => \E i \in 1..j - 1 : o[i] \notin Blank

\* A view: the elements open, the texts written, whether more than the page's
\* head and newlines is known to be written.
View(x, w, b) == [open |-> x, texts |-> w, begun |-> b]

Shows(o, v) ==
  /\ o \in Seq(Token) /\ v.open \in Seq(Tags)
  /\ Opens(o, v.open) /\ Ordered(o) /\ TextsOf(o) = v.texts
  /\ v.begun => Started(o)
  /\ reused \/ Clean(o)

\* Writing the tokens takes any output of view v to one of view q.
Adds(toks, v, q) ==
  /\ toks \in Seq(Token)
  /\ \A o : Shows(o, v) => Shows(o \o toks, q)

\* The last element of a stack that another was put on, and the rest of it.
LEMMA StackTop ==
  ASSUME NEW S, NEW x \in Seq(S), NEW e \in S
  PROVE  /\ Append(x, e) \in Seq(S) /\ Append(x, e) # << >>
         /\ Last(Append(x, e)) = e /\ Front(Append(x, e)) = x
<1>1. /\ Append(x, e) \in Seq(S) /\ Append(x, e) # << >>
      /\ Len(Append(x, e)) = Len(x) + 1 /\ Len(x) \in Nat
      /\ Append(x, e)[Len(x) + 1] = e /\ \A i \in 1..Len(x) : Append(x, e)[i] = x[i]
  OBVIOUS
<1>2. Front(Append(x, e)) = SubSeq(Append(x, e), 1, Len(x))
  BY <1>1 DEF Front
<1>3. SubSeq(Append(x, e), 1, Len(x)) = x
  BY <1>1
<1> QED
  BY <1>1, <1>2, <1>3 DEF Last

\* One more token takes the stack one step further.
LEMMA OpensOn ==
  ASSUME NEW o \in Seq(Token), NEW t \in Token, NEW x, Opens(o, x)
  PROVE  Opens(Append(o, t), Element(x, t))
<1> DEFINE l == Len(o)
           p == Append(o, t)
<1>1. l \in Nat /\ Len(p) = l + 1 /\ p[l + 1] = t /\ \A j \in 1..l : p[j] = o[j]
  OBVIOUS
<1>2. PICK w : w[0] = << >> /\ w[l] = x /\ \A j \in 1..l : w[j] = Element(w[j - 1], o[j])
  BY DEF Opens
<1> HIDE DEF l, p
<1> DEFINE y == Element(x, t)
           f == [j \in 0..l + 1 |-> IF j = l + 1 THEN y ELSE w[j]]
<1> HIDE DEF y
<1>3. f[l + 1] = y /\ \A j \in 0..l : f[j] = w[j]
  BY <1>1
<1>4. f[0] = << >>
  BY <1>1, <1>2, <1>3
<1> HIDE DEF f
<1>5. ASSUME NEW j \in 1..l + 1  PROVE f[j] = Element(f[j - 1], p[j])
  <2>1. CASE j = l + 1
    <3>1. j - 1 = l /\ l \in 0..l
      BY <1>1, <2>1
    <3> QED
      BY <1>1, <1>2, <1>3, <2>1, <3>1 DEF y
  <2>2. CASE j # l + 1
    <3>1. j \in 1..l /\ j \in 0..l /\ j - 1 \in 0..l
      BY <1>1, <2>2
    <3> QED
      BY <1>1, <1>2, <1>3, <3>1
  <2> QED BY <2>1, <2>2
<1> QED
  BY <1>1, <1>3, <1>4, <1>5 DEF Opens, y, p

\* One more token, whatever it is.
LEMMA AppendFacts ==
  ASSUME NEW o \in Seq(Token), NEW t \in Token
  PROVE  /\ Append(o, t) \in Seq(Token) /\ DOMAIN o = 1..Len(o) /\ Len(o) \in Nat
         /\ DOMAIN Append(o, t) = 1..Len(o) + 1
         /\ Append(o, t)[Len(o) + 1] = t
         /\ \A j \in DOMAIN o : Append(o, t)[j] = o[j]
OBVIOUS

\* Once begun, the output stays begun; a token that is not bare begins it.
LEMMA StartsOn ==
  ASSUME NEW o \in Seq(Token), NEW t \in Token
  PROVE  Started(o) \/ t \notin Blank => Started(Append(o, t))
<1> HIDE DEF Blank
<1> QED
  BY AppendFacts DEF Started

\* Only a newline can spoil the start of the body.
LEMMA CleanOn ==
  ASSUME NEW o \in Seq(Token), NEW t \in Token, Clean(o), t = NL => Started(o)
  PROVE  Clean(Append(o, t))
<1> HIDE DEF Blank
<1> DEFINE p == Append(o, t)
<1>1. /\ DOMAIN o = 1..Len(o) /\ DOMAIN p = 1..Len(o) + 1 /\ Len(o) \in Nat
      /\ p[Len(o) + 1] = t /\ \A j \in DOMAIN o : p[j] = o[j]
  BY AppendFacts
<1> HIDE DEF p
<1>2. ASSUME NEW j \in DOMAIN p, p[j] = NL
      PROVE  \E i \in 1..j - 1 : p[i] \notin Blank
  <2>1. CASE j = Len(o) + 1
    <3>1. PICK i \in DOMAIN o : o[i] \notin Blank
      BY <1>1, <1>2, <2>1 DEF Started
    <3>2. i \in 1..j - 1
      BY <1>1, <2>1, <3>1
    <3> QED
      BY <1>1, <3>1, <3>2
  <2>2. CASE j # Len(o) + 1
    <3>1. j \in DOMAIN o
      BY <1>1, <2>2
    <3>2. PICK i \in 1..j - 1 : o[i] \notin Blank
      BY <1>1, <1>2, <3>1 DEF Clean
    <3>3. i \in DOMAIN o
      BY <1>1, <3>1, <3>2
    <3> QED
      BY <1>1, <3>2, <3>3
  <2> QED BY <2>1, <2>2
<1> QED
  BY <1>2 DEF Clean, p

\* A token that is no text leaves the texts as they are.
LEMMA TextsKept ==
  ASSUME NEW o \in Seq(Token), NEW t \in Token, t[1] \notin {"text", "smart"}
  PROVE  /\ TextsOf(Append(o, t)) = TextsOf(o)
         /\ Ordered(o) => Ordered(Append(o, t))
<1> DEFINE p == Append(o, t)
<1>1. /\ DOMAIN o = 1..Len(o) /\ DOMAIN p = 1..Len(o) + 1 /\ Len(o) \in Nat
      /\ p[Len(o) + 1] = t /\ \A j \in DOMAIN o : p[j] = o[j]
  BY AppendFacts
<1> HIDE DEF p
<1>2. TextsAt(p) = TextsAt(o)
  BY <1>1 DEF TextsAt
<1>3. \A j \in TextsAt(o) : p[j] = o[j]
  BY <1>1 DEF TextsAt
<1>4. TextsOf(p) = TextsOf(o) /\ (Ordered(o) => Ordered(p))
  BY <1>2, <1>3 DEF TextsOf, Ordered
<1> QED
  BY <1>4 DEF p

\* A text later than those before it keeps them in order.
LEMMA TextsOn ==
  ASSUME NEW o \in Seq(Token), NEW t \in Words, \A n \in TextsOf(o) : n < t[2]
  PROVE  /\ TextsOf(Append(o, t)) = TextsOf(o) \cup {t[2]}
         /\ Ordered(o) => Ordered(Append(o, t))
<1> DEFINE p == Append(o, t)
<1>1. /\ DOMAIN o = 1..Len(o) /\ DOMAIN p = 1..Len(o) + 1 /\ Len(o) \in Nat
      /\ p[Len(o) + 1] = t /\ \A j \in DOMAIN o : p[j] = o[j]
  <2>1. t \in Token
    BY DEF Token
  <2> QED BY <2>1, AppendFacts
<1>2. t[1] \in {"text", "smart"}
  BY DEF Words
<1> HIDE DEF p
<1>3. TextsAt(p) = TextsAt(o) \cup {Len(o) + 1}
  BY <1>1, <1>2 DEF TextsAt
<1>4. \A j \in TextsAt(o) : p[j] = o[j] /\ j \in 1..Len(o)
  BY <1>1 DEF TextsAt
<1>5. TextsOf(p) = TextsOf(o) \cup {t[2]}
  BY <1>1, <1>3, <1>4 DEF TextsOf
<1>6. ASSUME Ordered(o), NEW i \in TextsAt(p), NEW j \in TextsAt(p), i < j
      PROVE  p[i][2] < p[j][2]
  <2>1. i \in TextsAt(o)
    BY <1>1, <1>3, <1>4, <1>6
  <2>2. CASE j \in TextsAt(o)
    BY <1>4, <1>6, <2>1, <2>2 DEF Ordered
  <2>3. CASE j = Len(o) + 1
    BY <1>1, <1>4, <2>1, <2>3 DEF TextsOf
  <2> QED BY <1>3, <2>2, <2>3
<1> QED
  BY <1>5, <1>6 DEF Ordered, p

\* A single token written after the output.
LEMMA OneToken ==
  ASSUME NEW o \in Seq(Token), NEW t \in Token
  PROVE  o \o <<t>> = Append(o, t) /\ <<t>> \in Seq(Token)
OBVIOUS

\* A token adds to a view when it takes the stack from x to y, and is a text
\* later than the others or no text at all.
LEMMA AddsToken ==
  ASSUME NEW t \in Token, NEW x, NEW w, NEW b \in BOOLEAN, NEW y \in Seq(Tags), NEW z,
         NEW c \in BOOLEAN,
         Element(x, t) = y,
         \/ t \in Words /\ (\A n \in w : n < t[2]) /\ z = w \cup {t[2]}
         \/ t[1] \notin {"text", "smart"} /\ z = w,
         t = NL => b \/ reused,
         c => b \/ t \notin Blank
  PROVE  Adds(<<t>>, View(x, w, b), View(y, z, c))
<1> SUFFICES ASSUME NEW o, Shows(o, View(x, w, b))
             PROVE  Shows(o \o <<t>>, View(y, z, c))
  BY OneToken, EmptySeq DEF Adds
<1>1. /\ o \in Seq(Token) /\ x \in Seq(Tags) /\ Opens(o, x) /\ Ordered(o)
      /\ TextsOf(o) = w /\ (b => Started(o)) /\ (reused \/ Clean(o))
  BY DEF Shows, View
<1> DEFINE p == Append(o, t)
<1>2. o \o <<t>> = p /\ p \in Seq(Token)
  BY <1>1, OneToken, AppendFacts
<1>3. Opens(p, y)
  BY <1>1, OpensOn
<1>4. TextsOf(p) = z /\ Ordered(p)
  BY <1>1, TextsKept, TextsOn
<1>5. c => Started(p)
  <2> HIDE DEF Blank
  <2> QED
    BY <1>1, StartsOn
<1>6. reused \/ Clean(p)
  BY <1>1, CleanOn
<1> HIDE DEF p
<1> QED
  BY <1>2, <1>3, <1>4, <1>5, <1>6 DEF Shows, View

\* An element opened.
LEMMA AddsOpen ==
  ASSUME NEW e \in Inside, NEW x \in Seq(Tags), NEW w, NEW b \in BOOLEAN, NEW c \in BOOLEAN
  PROVE  Adds(<<Opn(e)>>, View(x, w, b), View(Append(x, e), w, c))
<1> DEFINE t == Opn(e)
<1>1. t \in Token /\ t[1] \notin {"text", "smart"} /\ t \notin Blank /\ t # NL
  BY DEF Opn, Token, Tags, Inside, Blank, NL
<1>2. Element(x, t) = Append(x, e)
  BY DEF Opn, Element
<1>3. Append(x, e) \in Seq(Tags)
  BY StackTop DEF Tags
<1> HIDE DEF t
<1>4. Adds(<<t>>, View(x, w, b), View(Append(x, e), w, c))
  BY <1>1, <1>2, <1>3, AddsToken
<1> QED
  BY <1>4 DEF t

\* The innermost element closed.
LEMMA AddsClose ==
  ASSUME NEW e \in Tags, NEW x \in Seq(Tags), NEW w, NEW b \in BOOLEAN, NEW c \in BOOLEAN
  PROVE  Adds(<<Cls(e)>>, View(Append(x, e), w, b), View(x, w, c))
<1> DEFINE t == Cls(e)
           y == Append(x, e)
<1>1. t \in Token /\ t[1] \notin {"text", "smart"} /\ t \notin Blank /\ t # NL
  BY DEF Cls, Opn, Token, Tags, Inside, Blank, NL
<1>2. y # << >> /\ Last(y) = e /\ Front(y) = x
  BY StackTop
<1> HIDE DEF y
<1>3. Element(y, t) = x
  BY <1>2 DEF Cls, Element
<1> HIDE DEF t
<1>4. Adds(<<t>>, View(y, w, b), View(x, w, c))
  BY <1>1, <1>3, AddsToken
<1> QED
  BY <1>4 DEF t, y

\* The page's elements opened.
LEMMA AddsPage ==
  ASSUME NEW e \in Page, NEW x \in Seq(Tags), NEW w, NEW b \in BOOLEAN
  PROVE  Adds(<<Opn(e)>>, View(x, w, b), View(Append(x, e), w, b))
<1> DEFINE t == Opn(e)
<1>1. t \in Token /\ t[1] \notin {"text", "smart"} /\ t # NL
  BY DEF Opn, Token, Tags, NL
<1>2. Element(x, t) = Append(x, e)
  BY DEF Opn, Element
<1>3. Append(x, e) \in Seq(Tags)
  BY StackTop DEF Tags
<1> HIDE DEF t
<1>4. Adds(<<t>>, View(x, w, b), View(Append(x, e), w, b))
  BY <1>1, <1>2, <1>3, AddsToken
<1> QED
  BY <1>4 DEF t

\* A rule, a break, a number or a piece of HTML.
LEMMA AddsMark ==
  ASSUME NEW t \in Marks, NEW x \in Seq(Tags), NEW w, NEW b \in BOOLEAN, NEW c \in BOOLEAN
  PROVE  Adds(<<t>>, View(x, w, b), View(x, w, c))
<1>1. /\ t \in Token /\ t[1] \notin {"text", "smart", "open", "close"} /\ t \notin Blank /\ t # NL
  BY DEF Marks, Token, Opn, Blank, NL
<1>2. Element(x, t) = x
  BY <1>1 DEF Element
<1> QED
  BY <1>1, <1>2, AddsToken

\* A text.
LEMMA AddsText ==
  ASSUME NEW t \in Words, NEW x \in Seq(Tags), NEW w, \A n \in w : n < t[2],
         NEW b \in BOOLEAN, NEW c \in BOOLEAN
  PROVE  Adds(<<t>>, View(x, w, b), View(x, w \cup {t[2]}, c))
<1>1. /\ t \in Token /\ t[1] \notin {"open", "close"} /\ t \notin Blank /\ t # NL
  BY DEF Words, Token, Opn, Blank, NL
<1>2. Element(x, t) = x
  BY <1>1 DEF Element
<1> QED
  BY <1>1, <1>2, AddsToken

\* A newline, once the output has begun or is not fresh.
LEMMA AddsNL ==
  ASSUME NEW x \in Seq(Tags), NEW w, NEW b \in BOOLEAN, b \/ reused
  PROVE  Adds(<<NL>>, View(x, w, b), View(x, w, b))
<1> DEFINE t == NL
<1>1. t \in Token /\ t[1] \notin {"text", "smart", "open", "close"} /\ t = NL
  BY DEF Token, NL
<1>2. Element(x, t) = x
  BY <1>1 DEF Element
<1> HIDE DEF t
<1>3. Adds(<<t>>, View(x, w, b), View(x, w, b))
  BY <1>1, <1>2, AddsToken
<1> QED
  BY <1>3 DEF t

\* One sequence of tokens after another.
LEMMA AddsBoth ==
  ASSUME NEW s, NEW t, NEW u, NEW v, NEW q, Adds(s, u, v), Adds(t, v, q)
  PROVE  Adds(s \o t, u, q)
<1>1. s \in Seq(Token) /\ t \in Seq(Token)
  BY DEF Adds
<1>2. s \o t \in Seq(Token)
  BY <1>1
<1>3. ASSUME NEW o, Shows(o, u)  PROVE Shows(o \o (s \o t), q)
  <2>1. o \in Seq(Token)
    BY <1>3 DEF Shows
  <2>2. Shows((o \o s) \o t, q)
    BY <1>3 DEF Adds
  <2>3. o \o (s \o t) = (o \o s) \o t
    BY <1>1, <2>1, ConcatAssociative
  <2> QED BY <2>2, <2>3
<1> QED
  BY <1>2, <1>3 DEF Adds

\* A call of a writer, and a renderer.
Called == [op : {"out", "cr", "raw", "tag", "disable", "enable"}, toks : Seq(Token)]
Renderer == [out : Seq(Token), last : BOOLEAN, disabled : Nat]

\* The calls cs take a renderer from s to t.
Brings(s, cs, t) ==
  \E w : /\ w[0] = s /\ w[Len(cs)] = t
         /\ \A n \in 1..Len(cs) : w[n] = Done(w[n - 1], cs[n])

\* A renderer with d levels of disabled tags whose output is of view v.  What
\* tells cr to write is only set once a fresh output has begun.
Stands(s, d, v) ==
  /\ s \in Renderer /\ s.disabled = d /\ Shows(s.out, v)
  /\ ~reused /\ s.last => Started(s.out)

\* The calls take any renderer that stands at d and v to one at e and q.
Turns(cs, d, v, e, q) ==
  /\ cs \in Seq(Called)
  /\ \A s : Stands(s, d, v) => \E t : Brings(s, cs, t) /\ Stands(t, e, q)

\* No calls.
LEMMA TurnsNone ==
  ASSUME NEW d, NEW v
  PROVE  Turns(<< >>, d, v, d, v)
<1>1. << >> \in Seq(Called) /\ Len(<< >>) = 0
  BY EmptySeq
<1>2. ASSUME NEW s  PROVE Brings(s, << >>, s)
  <2> DEFINE w == [n \in {0} |-> s]
  <2>1. w[0] = s
    OBVIOUS
  <2> HIDE DEF w
  <2> QED BY <1>1, <2>1 DEF Brings
<1> QED
  BY <1>1, <1>2 DEF Turns

\* One call.
LEMMA TurnsOne ==
  ASSUME NEW c \in Called, NEW d, NEW v, NEW e, NEW q,
         \A s : Stands(s, d, v) => Stands(Done(s, c), e, q)
  PROVE  Turns(<<c>>, d, v, e, q)
<1>1. <<c>> \in Seq(Called) /\ Len(<<c>>) = 1 /\ <<c>>[1] = c
  OBVIOUS
<1>2. ASSUME NEW s  PROVE Brings(s, <<c>>, Done(s, c))
  <2> DEFINE t == Done(s, c)
  <2> HIDE DEF t
  <2> DEFINE w == [n \in 0..1 |-> IF n = 0 THEN s ELSE t]
  <2>1. w[0] = s /\ w[1] = t
    OBVIOUS
  <2> HIDE DEF w
  <2>2. ASSUME NEW n \in 1..1  PROVE w[n] = Done(w[n - 1], <<c>>[n])
    <3>1. n = 1 /\ n - 1 = 0
      OBVIOUS
    <3> QED BY <1>1, <2>1, <3>1 DEF t
  <2> QED BY <1>1, <2>1, <2>2 DEF Brings, t
<1> QED
  BY <1>1, <1>2 DEF Turns

\* Calls after calls.
LEMMA BringsBoth ==
  ASSUME NEW a \in Seq(Called), NEW b \in Seq(Called), NEW s, NEW t, NEW u,
         Brings(s, a, t), Brings(t, b, u)
  PROVE  Brings(s, a \o b, u)
<1> DEFINE m == Len(a)
           n == Len(b)
           ab == a \o b
<1>1. /\ m \in Nat /\ n \in Nat /\ Len(ab) = m + n
      /\ \A i \in 1..m + n : ab[i] = IF i <= m THEN a[i] ELSE b[i - m]
  OBVIOUS
<1>2. PICK w : w[0] = s /\ w[m] = t /\ \A i \in 1..m : w[i] = Done(w[i - 1], a[i])
  BY DEF Brings
<1>3. PICK z : z[0] = t /\ z[n] = u /\ \A i \in 1..n : z[i] = Done(z[i - 1], b[i])
  BY DEF Brings
<1> HIDE DEF m, n, ab
<1> DEFINE f == [i \in 0..m + n |-> IF i <= m THEN w[i] ELSE z[i - m]]
<1>4. \A i \in 0..m + n : f[i] = IF i <= m THEN w[i] ELSE z[i - m]
  OBVIOUS
<1> HIDE DEF f
<1>5. f[0] = s
  BY <1>1, <1>2, <1>4
<1>6. f[m + n] = u
  <2>1. m + n \in 0..m + n /\ m \in 0..m + n /\ (m + n) - m = n
    BY <1>1
  <2>2. CASE n = 0
    <3>1. m + n = m /\ m <= m
      BY <1>1, <2>2
    <3> QED BY <1>2, <1>3, <1>4, <2>1, <2>2, <3>1
  <2>3. CASE n # 0
    <3>1. ~(m + n <= m)
      BY <1>1, <2>3
    <3> QED BY <1>3, <1>4, <2>1, <3>1
  <2> QED BY <2>2, <2>3
<1>7. ASSUME NEW i \in 1..m + n  PROVE f[i] = Done(f[i - 1], ab[i])
  <2>1. CASE i <= m
    <3>1. i \in 1..m /\ i \in 0..m + n /\ i - 1 \in 0..m + n /\ i - 1 <= m
      BY <1>1, <2>1
    <3> QED BY <1>1, <1>2, <1>4, <2>1, <3>1
  <2>2. CASE i = m + 1
    <3>1. /\ i \in 0..m + n /\ ~(i <= m) /\ i - m = 1 /\ i - 1 = m /\ m \in 0..m + n /\ m <= m
          /\ 1 \in 1..n /\ 1 - 1 = 0
      BY <1>1, <2>2
    <3>2. f[i] = z[1] /\ f[i - 1] = w[m] /\ ab[i] = b[1]
      BY <1>1, <1>4, <3>1
    <3> QED BY <1>2, <1>3, <3>1, <3>2
  <2>3. CASE i > m + 1
    <3> DEFINE j == i - m
    <3>1. /\ i \in 0..m + n /\ ~(i <= m) /\ i - 1 \in 0..m + n /\ ~(i - 1 <= m)
          /\ j \in 1..n /\ (i - 1) - m = j - 1
      BY <1>1, <2>3
    <3>2. f[i] = z[j] /\ f[i - 1] = z[(i - 1) - m] /\ ab[i] = b[j]
      BY <1>1, <1>4, <3>1
    <3> HIDE DEF j
    <3> QED BY <1>3, <3>1, <3>2
  <2> QED BY <1>1, <2>1, <2>2, <2>3
<1>8. /\ f[0] = s /\ f[Len(ab)] = u
      /\ \A i \in 1..Len(ab) : f[i] = Done(f[i - 1], ab[i])
  BY <1>1, <1>5, <1>6, <1>7
<1>9. Brings(s, ab, u)
  BY <1>8 DEF Brings
<1> QED
  BY <1>9 DEF ab

\* Calls after calls turn what the first turn further.
LEMMA TurnsBoth ==
  ASSUME NEW a, NEW b, NEW d, NEW v, NEW e, NEW u, NEW f, NEW q,
         Turns(a, d, v, e, u), Turns(b, e, u, f, q)
  PROVE  Turns(a \o b, d, v, f, q)
<1>1. a \in Seq(Called) /\ b \in Seq(Called)
  BY DEF Turns
<1>2. a \o b \in Seq(Called)
  BY <1>1
<1>3. ASSUME NEW s, Stands(s, d, v)
      PROVE  \E t : Brings(s, a \o b, t) /\ Stands(t, f, q)
  <2>1. PICK t : Brings(s, a, t) /\ Stands(t, e, u)
    BY <1>3 DEF Turns
  <2>2. PICK y : Brings(t, b, y) /\ Stands(y, f, q)
    BY <2>1 DEF Turns
  <2> QED BY <1>1, <2>1, <2>2, BringsBoth
<1> QED
  BY <1>2, <1>3 DEF Turns

\* Begun output goes on being begun.
LEMMA StartedOn ==
  ASSUME NEW o \in Seq(Token), NEW toks \in Seq(Token), Started(o)
  PROVE  Started(o \o toks)
<1> HIDE DEF Blank
<1>1. PICK j \in DOMAIN o : o[j] \notin Blank
  BY DEF Started
<1>2. j \in 1..Len(o) /\ j \in DOMAIN (o \o toks) /\ (o \o toks)[j] = o[j]
  OBVIOUS
<1> QED
  BY <1>1, <1>2 DEF Started

\* A renderer with its output, or its mark of having written, replaced.
LEMMA RendererWith ==
  ASSUME NEW s \in Renderer
  PROVE  /\ s.out \in Seq(Token) /\ s.last \in BOOLEAN /\ s.disabled \in Nat
         /\ \A o \in Seq(Token) : LET t == [s EXCEPT !.out = o] IN
              t \in Renderer /\ t.out = o /\ t.last = s.last /\ t.disabled = s.disabled
         /\ \A l \in BOOLEAN : LET t == [s EXCEPT !.last = l] IN
              t \in Renderer /\ t.out = s.out /\ t.last = l /\ t.disabled = s.disabled
         /\ \A d \in Nat : LET t == [s EXCEPT !.disabled = d] IN
              t \in Renderer /\ t.out = s.out /\ t.last = s.last /\ t.disabled = d
BY DEF Renderer

\* Tokens written straight to the buffer.
LEMMA TurnsRaw ==
  ASSUME NEW toks, NEW d, NEW v, NEW q, Adds(toks, v, q)
  PROVE  Turns(W(toks), d, v, d, q)
<1>1. toks \in Seq(Token)
  BY DEF Adds
<1> DEFINE c == Call("raw", toks)
<1>2. c \in Called /\ c.op = "raw" /\ c.toks = toks
  BY <1>1 DEF Called, Call
<1> HIDE DEF c
<1>3. ASSUME NEW s, Stands(s, d, v)  PROVE Stands(Done(s, c), d, q)
  <2> DEFINE o == s.out \o toks
             t == [s EXCEPT !.out = o]
  <2>1. s \in Renderer /\ s.out \in Seq(Token) /\ s.disabled = d /\ Shows(s.out, v)
    BY <1>3, RendererWith DEF Stands
  <2>2. Shows(o, q) /\ o \in Seq(Token)
    BY <1>1, <2>1 DEF Adds
  <2>3. Done(s, c) = t
    BY <1>2 DEF Done
  <2>4. Started(s.out) => Started(o)
    BY <1>1, <2>1, StartedOn
  <2> HIDE DEF o
  <2>5. t \in Renderer /\ t.out = o /\ t.last = s.last /\ t.disabled = s.disabled
    BY <2>1, <2>2, RendererWith
  <2> HIDE DEF t
  <2> QED
    BY <1>3, <2>1, <2>2, <2>3, <2>4, <2>5 DEF Stands
<1> QED
  BY <1>2, <1>3, TurnsOne DEF W, c

\* Tokens written by out or by tag where tags are enabled.
LEMMA TurnsOut ==
  ASSUME NEW toks, NEW v, NEW x, NEW w, NEW b \in BOOLEAN, toks # << >>,
         Adds(toks, v, View(x, w, TRUE)),
         NEW cs, cs = << Call("out", toks) >> \/ cs = << Call("tag", toks) >>
  PROVE  Turns(cs, 0, v, 0, View(x, w, b))
<1>1. toks \in Seq(Token)
  BY DEF Adds
<1>2. PICK c : cs = <<c>> /\ c \in Called /\ c.op \in {"out", "tag"} /\ c.toks = toks
  BY <1>1 DEF Called, Call
<1>3. ASSUME NEW s, Stands(s, 0, v)  PROVE Stands(Done(s, c), 0, View(x, w, b))
  <2> DEFINE o == s.out \o toks
             p == [s EXCEPT !.out = o]
             t == [p EXCEPT !.last = TRUE]
  <2>1. s \in Renderer /\ s.out \in Seq(Token) /\ s.disabled = 0 /\ Shows(s.out, v)
    BY <1>3, RendererWith DEF Stands
  <2>2. Shows(o, View(x, w, TRUE)) /\ o \in Seq(Token)
    <3>1. Shows(o, View(x, w, TRUE))
      BY <2>1 DEF Adds
    <3> QED BY <3>1 DEF Shows
  <2>3. Done(s, c) = t
    <3>1. c.op = "out" => Done(s, c) = Wrote(s, toks)
      BY <1>2 DEF Done
    <3>2. c.op = "tag" => Done(s, c) = t
      BY <1>2 DEF Done
    <3>3. Wrote(s, toks) = t
      <4>1. (toks # << >>) = TRUE /\ ~(s.disabled > 0)
        BY <2>1
      <4> HIDE DEF o
      <4>2. o = s.out \o toks
        BY DEF o
      <4> QED BY <4>1, <4>2 DEF Wrote
    <3> QED BY <1>2, <3>1, <3>2, <3>3
  <2>4. Shows(o, View(x, w, b)) /\ Started(o)
    BY <2>2 DEF Shows, View
  <2> HIDE DEF o
  <2>5. p \in Renderer /\ p.out = o /\ p.disabled = s.disabled
    BY <2>1, <2>2, RendererWith
  <2> HIDE DEF p
  <2>6. t \in Renderer /\ t.out = o /\ t.disabled = s.disabled
    BY <2>5, RendererWith
  <2> HIDE DEF t
  <2> QED
    BY <2>1, <2>3, <2>4, <2>6 DEF Stands
<1> QED
  BY <1>2, <1>3, TurnsOne

\* A newline where something was written before.
LEMMA TurnsCr ==
  ASSUME NEW x \in Seq(Tags), NEW w, NEW b \in BOOLEAN
  PROVE  Turns(Cr, 0, View(x, w, b), 0, View(x, w, b))
<1> DEFINE v == View(x, w, b)
           c == Call("cr", << >>)
<1>1. c \in Called /\ c.op = "cr"
  BY EmptySeq DEF Called, Call
<1> HIDE DEF c
<1>2. ASSUME NEW s, Stands(s, 0, v)  PROVE Stands(Done(s, c), 0, v)
  <2>1. /\ s \in Renderer /\ s.out \in Seq(Token) /\ s.disabled = 0 /\ Shows(s.out, v)
        /\ s.last \in BOOLEAN
    BY <1>2, RendererWith DEF Stands
  <2>2. CASE ~s.last
    <3>1. Done(s, c) = s
      BY <1>1, <2>2 DEF Done
    <3> QED BY <1>2, <3>1
  <2>3. CASE s.last
    <3> DEFINE o == s.out \o <<NL>>
               p == [s EXCEPT !.out = o]
               t == [p EXCEPT !.last = TRUE]
    <3>1. Done(s, c) = t
      <4>1. Done(s, c) = Wrote(s, <<NL>>)
        BY <1>1, <2>3 DEF Done
      <4>2. Wrote(s, <<NL>>) = t
        <5>1. (<<NL>> # << >>) = TRUE /\ ~(s.disabled > 0)
          BY <2>1
        <5> HIDE DEF o
        <5>2. o = s.out \o <<NL>>
          BY DEF o
        <5> QED BY <5>1, <5>2 DEF Wrote
      <4> QED BY <4>1, <4>2
    <3>2. CASE reused
      <4>1. Adds(<<NL>>, v, v)
        BY <3>2, AddsNL
      <4>2. Shows(o, v)
        BY <2>1, <4>1 DEF Adds
      <4>3. o \in Seq(Token)
        BY <4>2 DEF Shows
      <4> HIDE DEF o
      <4>4. p \in Renderer /\ p.out = o /\ p.disabled = s.disabled
        BY <2>1, <4>3, RendererWith
      <4> HIDE DEF p
      <4>5. t \in Renderer /\ t.out = o /\ t.disabled = s.disabled
        BY <4>4, RendererWith
      <4> HIDE DEF t
      <4> QED BY <2>1, <3>1, <3>2, <4>2, <4>5 DEF Stands
    <3>3. CASE ~reused
      <4> DEFINE u == View(x, w, TRUE)
      <4>1. Started(s.out)
        BY <1>2, <2>3, <3>3 DEF Stands
      <4>2. Shows(s.out, u)
        BY <2>1, <4>1 DEF Shows, View
      <4>3. Adds(<<NL>>, u, u)
        BY AddsNL
      <4>4. Shows(o, u)
        BY <4>2, <4>3 DEF Adds
      <4>5. o \in Seq(Token) /\ Started(o) /\ Shows(o, v)
        BY <4>4 DEF Shows, View
      <4> HIDE DEF o
      <4>6. p \in Renderer /\ p.out = o /\ p.disabled = s.disabled
        BY <2>1, <4>5, RendererWith
      <4> HIDE DEF p
      <4>7. t \in Renderer /\ t.out = o /\ t.disabled = s.disabled
        BY <4>6, RendererWith
      <4> HIDE DEF t
      <4> QED BY <2>1, <3>1, <4>5, <4>7 DEF Stands
    <3> QED BY <3>2, <3>3
  <2> QED BY <2>1, <2>2, <2>3
<1> HIDE DEF v
<1>3. Turns(<<c>>, 0, v, 0, v)
  BY <1>1, <1>2, TurnsOne
<1> QED
  BY <1>3 DEF Cr, c, v

\* Tags disabled for an image's text, and enabled again.
LEMMA TurnsDisable ==
  ASSUME NEW v
  PROVE  /\ Turns(<< Call("disable", << >>) >>, 0, v, 1, v)
         /\ Turns(<< Call("enable", << >>) >>, 1, v, 0, v)
<1> DEFINE c == Call("disable", << >>)
           e == Call("enable", << >>)
<1>1. c \in Called /\ c.op = "disable" /\ e \in Called /\ e.op = "enable"
  BY EmptySeq DEF Called, Call
<1> HIDE DEF c, e
<1>2. ASSUME NEW s, Stands(s, 0, v)  PROVE Stands(Done(s, c), 1, v)
  <2> DEFINE t == [s EXCEPT !.disabled = 1]
  <2>1. s \in Renderer /\ s.disabled = 0
    BY <1>2 DEF Stands
  <2>2. Done(s, c) = t
    BY <1>1, <2>1 DEF Done
  <2>3. t \in Renderer /\ t.out = s.out /\ t.last = s.last /\ t.disabled = 1
    BY <2>1, RendererWith
  <2> HIDE DEF t
  <2> QED BY <1>2, <2>2, <2>3 DEF Stands
<1>3. ASSUME NEW s, Stands(s, 1, v)  PROVE Stands(Done(s, e), 0, v)
  <2> DEFINE t == [s EXCEPT !.disabled = 0]
  <2>1. s \in Renderer /\ s.disabled = 1
    BY <1>3 DEF Stands
  <2>2. Done(s, e) = t
    BY <1>1, <2>1 DEF Done
  <2>3. t \in Renderer /\ t.out = s.out /\ t.last = s.last /\ t.disabled = 0
    BY <2>1, RendererWith
  <2> HIDE DEF t
  <2> QED BY <1>3, <2>2, <2>3 DEF Stands
<1>4. Turns(<<c>>, 0, v, 1, v) /\ Turns(<<e>>, 1, v, 0, v)
  BY <1>1, <1>2, <1>3, TurnsOne
<1> QED
  BY <1>4 DEF c, e

\* Ran is what the calls bring the renderer to.
LEMMA RanBrings ==
  ASSUME NEW calls \in Seq(Called), NEW t, Brings(r, calls, t)
  PROVE  Ran(calls) = t
<1> DEFINE l == Len(calls)
           Unfolds(g) == g = [n \in 0..l |-> IF n = 0 THEN r ELSE Done(g[n - 1], calls[n])]
           ran == CHOOSE g : Unfolds(g)
<1>1. l \in Nat
  OBVIOUS
<1>2. PICK w : w[0] = r /\ w[l] = t /\ \A n \in 1..l : w[n] = Done(w[n - 1], calls[n])
  BY DEF Brings
<1>3. Ran(calls) = ran[l]
  BY DEF Ran
<1> HIDE DEF l
<1>4. Unfolds([n \in 0..l |-> w[n]])
  <2> DEFINE f == [n \in 0..l |-> w[n]]
  <2>1. ASSUME NEW n \in 0..l
        PROVE  f[n] = IF n = 0 THEN r ELSE Done(f[n - 1], calls[n])
    <3>1. n # 0 => n \in 1..l /\ n - 1 \in 0..l
      BY <1>1
    <3> QED BY <1>2, <3>1
  <2>2. f = [n \in 0..l |-> f[n]]
    OBVIOUS
  <2> HIDE DEF f
  <2>3. Unfolds(f)
    BY <2>1, <2>2
  <2> QED BY <2>3 DEF f
<1>5. Unfolds(ran)
  BY <1>4
<1> HIDE DEF ran
<1>6. \A n \in 0..l : ran[n] = IF n = 0 THEN r ELSE Done(ran[n - 1], calls[n])
  BY <1>5
<1> HIDE DEF Unfolds
<1> DEFINE Wrong == {n \in 0..l : ran[n] # w[n]}
<1>7. ASSUME Wrong # {}  PROVE FALSE
  <2>1. PICK n \in Wrong : \A m \in Wrong : n <= m
    <3>1. Wrong \subseteq Nat
      BY <1>1
    <3> HIDE DEF Wrong
    <3> QED BY <1>7, <3>1, LeastNumber
  <2>2. n \in 0..l /\ ran[n] # w[n]
    BY <2>1
  <2>3. n # 0
    BY <1>2, <1>6, <2>2
  <2>4. n \in 1..l /\ n - 1 \in 0..l /\ ~(n <= n - 1)
    BY <1>1, <2>2, <2>3
  <2>5. ran[n - 1] = w[n - 1]
    BY <2>1, <2>4
  <2> HIDE DEF Wrong
  <2>6. ran[n] = Done(ran[n - 1], calls[n]) /\ w[n] = Done(w[n - 1], calls[n])
    BY <1>2, <1>6, <2>2, <2>3, <2>4
  <2> QED BY <2>2, <2>5, <2>6
<1>8. l \in 0..l
  BY <1>1
<1> QED BY <1>2, <1>3, <1>7, <1>8

\* OpenElements are the elements the output leaves open.
LEMMA ElementsOpen ==
  ASSUME r.out \in Seq(Token), NEW x, Opens(r.out, x)
  PROVE  OpenElements = x
<1> DEFINE o == r.out
<1>0. o \in Seq(Token) /\ Opens(o, x)
  OBVIOUS
<1> DEFINE l == Len(o)
           Unfolds(g) == g = [n \in 0..l |-> IF n = 0 THEN << >> ELSE Element(g[n - 1], o[n])]
           opened == CHOOSE g : Unfolds(g)
<1>3. OpenElements = opened[l]
  BY DEF OpenElements
<1> HIDE DEF o
<1>1. l \in Nat
  BY <1>0
<1>2. PICK w : w[0] = << >> /\ w[l] = x /\ \A n \in 1..l : w[n] = Element(w[n - 1], o[n])
  BY <1>0 DEF Opens
<1> HIDE DEF l
<1>4. Unfolds([n \in 0..l |-> w[n]])
  <2> DEFINE f == [n \in 0..l |-> w[n]]
  <2>1. ASSUME NEW n \in 0..l
        PROVE  f[n] = IF n = 0 THEN << >> ELSE Element(f[n - 1], o[n])
    <3>1. n # 0 => n \in 1..l /\ n - 1 \in 0..l
      BY <1>1
    <3> QED BY <1>2, <3>1
  <2>2. f = [n \in 0..l |-> f[n]]
    OBVIOUS
  <2> HIDE DEF f
  <2>3. Unfolds(f)
    BY <2>1, <2>2
  <2> QED BY <2>3 DEF f
<1>5. Unfolds(opened)
  BY <1>4
<1> HIDE DEF opened
<1>6. \A n \in 0..l : opened[n] = IF n = 0 THEN << >> ELSE Element(opened[n - 1], o[n])
  BY <1>5
<1> HIDE DEF Unfolds
<1> DEFINE Wrong == {n \in 0..l : opened[n] # w[n]}
<1>7. ASSUME Wrong # {}  PROVE FALSE
  <2>1. PICK n \in Wrong : \A m \in Wrong : n <= m
    <3>1. Wrong \subseteq Nat
      BY <1>1
    <3> HIDE DEF Wrong
    <3> QED BY <1>7, <3>1, LeastNumber
  <2>2. n \in 0..l /\ opened[n] # w[n]
    BY <2>1
  <2>3. n # 0
    BY <1>2, <1>6, <2>2
  <2>4. n \in 1..l /\ n - 1 \in 0..l /\ ~(n <= n - 1)
    BY <1>1, <2>2, <2>3
  <2>5. opened[n - 1] = w[n - 1]
    BY <2>1, <2>4
  <2> HIDE DEF Wrong
  <2>6. opened[n] = Element(opened[n - 1], o[n]) /\ w[n] = Element(w[n - 1], o[n])
    BY <1>2, <1>6, <2>2, <2>3, <2>4
  <2> QED BY <2>2, <2>5, <2>6
<1>8. l \in 0..l
  BY <1>1
<1> QED BY <1>2, <1>3, <1>7, <1>8

\* A turn takes the renderer itself from the one place to the other.
LEMMA RanTurns ==
  ASSUME NEW cs, NEW d, NEW v, NEW e, NEW q, Turns(cs, d, v, e, q), Stands(r, d, v)
  PROVE  Stands(Ran(cs), e, q)
BY RanBrings DEF Turns

\* A sequence that begins with a and goes on as t is the one after the other.
LEMMA Preceded ==
  ASSUME NEW S, NEW a \in S, NEW t \in Seq(S), NEW u \in Seq(S),
         Len(u) = Len(t) + 1, u[1] = a, \A i \in 1..Len(t) : u[i + 1] = t[i]
  PROVE  <<a>> \o t = u
<1> DEFINE s == <<a>>
           p == s \o t
<1>1. s \in Seq(S) /\ Len(s) = 1 /\ s[1] = a /\ Len(t) \in Nat
  OBVIOUS
<1> HIDE DEF s
<1>2. /\ p \in Seq(S) /\ Len(p) = 1 + Len(t)
      /\ \A i \in 1..1 + Len(t) : p[i] = IF i <= 1 THEN s[i] ELSE t[i - 1]
  <2>1. /\ p \in Seq(S) /\ Len(p) = Len(s) + Len(t)
        /\ \A i \in 1..Len(s) + Len(t) : p[i] = IF i <= Len(s) THEN s[i] ELSE t[i - Len(s)]
    BY <1>1, ConcatProperties
  <2> HIDE DEF p
  <2> QED BY <1>1, <2>1
<1> HIDE DEF p
<1>3. ASSUME NEW i \in 1..Len(p)  PROVE p[i] = u[i]
  <2>1. CASE i = 1
    BY <1>1, <1>2, <1>3, <2>1
  <2>2. CASE i # 1
    <3> DEFINE j == i - 1
    <3>1. j \in 1..Len(t) /\ i = j + 1 /\ ~(i <= 1) /\ i \in 1..1 + Len(t)
      BY <1>1, <1>2, <2>2
    <3>2. p[i] = t[j]
      BY <1>2, <3>1
    <3> HIDE DEF j
    <3> QED BY <3>1, <3>2
  <2> QED BY <2>1, <2>2
<1>4. p = u
  <2>1. Len(p) = Len(u)
    BY <1>1, <1>2
  <2> QED BY <1>2, <1>3, <2>1, SeqEqual
<1> QED
  BY <1>4 DEF p, s

\* The sequences of tokens a visit writes, one token at a time.
LEMMA TwoTokens ==
  ASSUME NEW S, NEW a \in S, NEW b \in S
  PROVE  <<a>> \o <<b>> = <<a, b>>
<1> DEFINE t == <<b>>
           u == <<a, b>>
<1>1. /\ t \in Seq(S) /\ u \in Seq(S) /\ Len(t) = 1 /\ Len(u) = 2
      /\ u[1] = a /\ u[2] = b /\ t[1] = b
  OBVIOUS
<1> HIDE DEF t, u
<1>2. ASSUME NEW i \in 1..Len(t)  PROVE u[i + 1] = t[i]
  <2>1. i = 1 /\ i + 1 = 2
    BY <1>1
  <2> QED BY <1>1, <2>1
<1>3. Len(u) = Len(t) + 1 /\ \A i \in 1..Len(t) : u[i + 1] = t[i]
  BY <1>1, <1>2
<1>4. <<a>> \o t = u
  BY <1>1, <1>3, Preceded
<1> QED BY <1>4 DEF t, u

\* The same of three tokens.
LEMMA ThreeTokens ==
  ASSUME NEW S, NEW a \in S, NEW b \in S, NEW c \in S
  PROVE  <<a>> \o <<b, c>> = <<a, b, c>>
<1> DEFINE t == <<b, c>>
           u == <<a, b, c>>
<1>1. /\ t \in Seq(S) /\ u \in Seq(S) /\ Len(t) = 2 /\ Len(u) = 3
      /\ u[1] = a /\ u[2] = b /\ u[3] = c /\ t[1] = b /\ t[2] = c
  OBVIOUS
<1> HIDE DEF t, u
<1>2. ASSUME NEW i \in 1..Len(t)  PROVE u[i + 1] = t[i]
  <2>1. (i = 1 /\ i + 1 = 2) \/ (i = 2 /\ i + 1 = 3)
    BY <1>1
  <2> QED BY <1>1, <2>1
<1>3. Len(u) = Len(t) + 1 /\ \A i \in 1..Len(t) : u[i + 1] = t[i]
  BY <1>1, <1>2
<1>4. <<a>> \o t = u
  BY <1>1, <1>3, Preceded
<1> QED BY <1>4 DEF t, u

\* The same of four tokens.
LEMMA FourTokens ==
  ASSUME NEW S, NEW a \in S, NEW b \in S, NEW c \in S, NEW d \in S
  PROVE  <<a>> \o <<b, c, d>> = <<a, b, c, d>>
<1> DEFINE t == <<b, c, d>>
           u == <<a, b, c, d>>
<1>1. /\ t \in Seq(S) /\ u \in Seq(S) /\ Len(t) = 3 /\ Len(u) = 4
      /\ u[1] = a /\ u[2] = b /\ u[3] = c /\ u[4] = d /\ t[1] = b /\ t[2] = c /\ t[3] = d
  OBVIOUS
<1> HIDE DEF t, u
<1>2. ASSUME NEW i \in 1..Len(t)  PROVE u[i + 1] = t[i]
  <2>1. (i = 1 /\ i + 1 = 2) \/ (i = 2 /\ i + 1 = 3) \/ (i = 3 /\ i + 1 = 4)
    BY <1>1
  <2> QED BY <1>1, <2>1
<1>3. Len(u) = Len(t) + 1 /\ \A i \in 1..Len(t) : u[i + 1] = t[i]
  BY <1>1, <1>2
<1>4. <<a>> \o t = u
  BY <1>1, <1>3, Preceded
<1> QED BY <1>4 DEF t, u

\* The same of five tokens.
LEMMA FiveTokens ==
  ASSUME NEW S, NEW a \in S, NEW b \in S, NEW c \in S, NEW d \in S, NEW e \in S
  PROVE  <<a>> \o <<b, c, d, e>> = <<a, b, c, d, e>>
<1> DEFINE t == <<b, c, d, e>>
           u == <<a, b, c, d, e>>
<1>1. /\ t \in Seq(S) /\ u \in Seq(S) /\ Len(t) = 4 /\ Len(u) = 5
      /\ u[1] = a /\ u[2] = b /\ u[3] = c /\ u[4] = d /\ u[5] = e
      /\ t[1] = b /\ t[2] = c /\ t[3] = d /\ t[4] = e
  OBVIOUS
<1> HIDE DEF t, u
<1>2. ASSUME NEW i \in 1..Len(t)  PROVE u[i + 1] = t[i]
  <2>1. \/ (i = 1 /\ i + 1 = 2) \/ (i = 2 /\ i + 1 = 3)
        \/ (i = 3 /\ i + 1 = 4) \/ (i = 4 /\ i + 1 = 5)
    BY <1>1
  <2> QED BY <1>1, <2>1
<1>3. Len(u) = Len(t) + 1 /\ \A i \in 1..Len(t) : u[i + 1] = t[i]
  BY <1>1, <1>2
<1>4. <<a>> \o t = u
  BY <1>1, <1>3, Preceded
<1> QED BY <1>4 DEF t, u

\* An element opened by out or by tag, and closed.
LEMMA TurnsOpen ==
  ASSUME NEW e \in Inside, NEW x \in Seq(Tags), NEW w, NEW b \in BOOLEAN, NEW c \in BOOLEAN
  PROVE  /\ Turns(O(<<Opn(e)>>), 0, View(x, w, b), 0, View(Append(x, e), w, c))
         /\ Turns(T(e), 0, View(x, w, b), 0, View(Append(x, e), w, c))
<1> DEFINE t == <<Opn(e)>>
           y == Append(x, e)
           v == View(x, w, b)
<1>1. Adds(t, v, View(y, w, TRUE))
  BY AddsOpen
<1>2. t # << >>
  OBVIOUS
<1>3. O(t) = << Call("out", t) >> /\ T(e) = << Call("tag", t) >>
  BY DEF O, T
<1> HIDE DEF t, y, v
<1>4. Turns(O(t), 0, v, 0, View(y, w, c)) /\ Turns(T(e), 0, v, 0, View(y, w, c))
  BY <1>1, <1>2, <1>3, TurnsOut
<1> QED
  BY <1>4 DEF t, y, v

\* An element closed by out.
LEMMA TurnsClose ==
  ASSUME NEW e \in Tags, NEW x \in Seq(Tags), NEW w, NEW b \in BOOLEAN, NEW c \in BOOLEAN
  PROVE  Turns(O(<<Cls(e)>>), 0, View(Append(x, e), w, b), 0, View(x, w, c))
<1> DEFINE t == <<Cls(e)>>
           y == Append(x, e)
           v == View(y, w, b)
<1>1. Adds(t, v, View(x, w, TRUE))
  BY AddsClose
<1>2. t # << >>
  OBVIOUS
<1>3. O(t) = << Call("out", t) >>
  BY DEF O
<1> HIDE DEF t, y, v
<1>4. Turns(O(t), 0, v, 0, View(x, w, c))
  BY <1>1, <1>2, <1>3, TurnsOut
<1> QED
  BY <1>4 DEF t, y, v

\* A rule, a break or a piece of HTML.
LEMMA TurnsMark ==
  ASSUME NEW m \in Marks, NEW x \in Seq(Tags), NEW w, NEW b \in BOOLEAN, NEW c \in BOOLEAN
  PROVE  Turns(O(<<m>>), 0, View(x, w, b), 0, View(x, w, c))
<1> DEFINE t == <<m>>
           v == View(x, w, b)
<1>1. Adds(t, v, View(x, w, TRUE))
  BY AddsMark
<1>2. t # << >>
  OBVIOUS
<1>3. O(t) = << Call("out", t) >>
  BY DEF O
<1> HIDE DEF t, v
<1>4. Turns(O(t), 0, v, 0, View(x, w, c))
  BY <1>1, <1>2, <1>3, TurnsOut
<1> QED
  BY <1>4 DEF t, v

\* Emphasis of any kind: its element is opened on entering and closed on leaving.
LEMMA SpanTurns ==
  ASSUME NEW e \in Inside, NEW x \in Seq(Tags), NEW w, NEW b \in BOOLEAN
  PROVE  /\ Turns(Span(e, TRUE), 0, View(x, w, b), 0, View(Append(x, e), w, b))
         /\ Turns(Span(e, FALSE), 0, View(Append(x, e), w, b), 0, View(x, w, b))
BY TurnsOpen, TurnsClose DEF Span, Tags

\* Three and five tokens one after another.
LEMMA AddsThree ==
  ASSUME NEW a \in Token, NEW b \in Token, NEW c \in Token,
         NEW v, NEW v1, NEW v2, NEW v3,
         Adds(<<a>>, v, v1), Adds(<<b>>, v1, v2), Adds(<<c>>, v2, v3)
  PROVE  Adds(<<a, b, c>>, v, v3)
<1>1. Adds(<<b>> \o <<c>>, v1, v3)
  BY AddsBoth
<1>2. <<b>> \o <<c>> = <<b, c>> /\ <<a>> \o <<b, c>> = <<a, b, c>>
  BY TwoTokens, ThreeTokens
<1>3. Adds(<<a>> \o <<b, c>>, v, v3)
  BY <1>1, <1>2, AddsBoth
<1> QED
  BY <1>2, <1>3

\* Five tokens one after another.
LEMMA AddsFive ==
  ASSUME NEW a \in Token, NEW b \in Token, NEW c \in Token, NEW d \in Token, NEW e \in Token,
         NEW v, NEW v1, NEW v2, NEW v3, NEW v4, NEW v5,
         Adds(<<a>>, v, v1), Adds(<<b>>, v1, v2), Adds(<<c>>, v2, v3),
         Adds(<<d>>, v3, v4), Adds(<<e>>, v4, v5)
  PROVE  Adds(<<a, b, c, d, e>>, v, v5)
<1>1. Adds(<<c, d, e>>, v2, v5)
  BY AddsThree
<1>2. Adds(<<b>> \o <<c, d, e>>, v1, v5)
  BY <1>1, AddsBoth
<1>3. <<b>> \o <<c, d, e>> = <<b, c, d, e>> /\ <<a>> \o <<b, c, d, e>> = <<a, b, c, d, e>>
  <2>1. <<b>> \o <<c, d, e>> = <<b, c, d, e>>
    BY FourTokens
  <2>2. <<a>> \o <<b, c, d, e>> = <<a, b, c, d, e>>
    BY FiveTokens
  <2> QED BY <2>1, <2>2
<1>4. Adds(<<a>> \o <<b, c, d, e>>, v, v5)
  BY <1>2, <1>3, AddsBoth
<1> QED
  BY <1>3, <1>4

\* A text, smart or plain: smart fractions open and close what they need.
LEMMA TextTurns ==
  ASSUME NEW i \in Nat, NEW x \in Seq(Tags), NEW w, \A n \in w : n < i, NEW b \in BOOLEAN, NEW d
  PROVE  /\ Turns(TextCalls(i), d, View(x, w, b), d, View(x, w \cup {i}, b))
         /\ Turns(W(<< <<"text", i>> >>), d, View(x, w, b), d, View(x, w \cup {i}, b))
<1> DEFINE v == View(x, w, b)
           q == View(x, w \cup {i}, b)
<1>1. ASSUME NEW t \in Words, t[2] = i  PROVE Adds(<<t>>, v, q)
  <2>1. \A n \in w : n < t[2]
    BY <1>1
  <2>2. Adds(<<t>>, v, View(x, w \cup {t[2]}, b))
    BY <2>1, AddsText
  <2> QED BY <1>1, <2>2
<1>2. Adds(<< <<"text", i>> >>, v, q) /\ Adds(<< <<"smart", i>> >>, v, q)
  <2>1. /\ <<"text", i>> \in Words /\ <<"text", i>>[2] = i
        /\ <<"smart", i>> \in Words /\ <<"smart", i>>[2] = i
    BY DEF Words
  <2> HIDE DEF v, q
  <2> QED BY <1>1, <2>1
<1>3. \A z, s \in Inside : Adds(<< Opn(z), <<"smart", i>>, Cls(z), Opn(s), Cls(s) >>, v, q)
  <2> TAKE z, s \in Inside
  <2> DEFINE u == View(Append(x, z), w, b)
             p == View(Append(x, z), w \cup {i}, b)
             g == View(Append(x, s), w \cup {i}, b)
             t == <<"smart", i>>
  <2>1. Append(x, z) \in Seq(Tags) /\ z \in Tags /\ s \in Tags
    BY DEF Tags
  <2>2. Adds(<<Opn(z)>>, v, u)
    BY AddsOpen
  <2>3. Adds(<<t>>, u, p)
    <3>1. t \in Words /\ t[2] = i
      BY DEF Words
    <3> HIDE DEF t
    <3>2. \A n \in w : n < t[2]
      BY <3>1
    <3>3. Adds(<<t>>, View(Append(x, z), w, b), View(Append(x, z), w \cup {t[2]}, b))
      BY <2>1, <3>1, <3>2, AddsText
    <3> QED BY <3>1, <3>3
  <2>4. Adds(<<Cls(z)>>, p, q)
    BY <2>1, AddsClose
  <2>5. Adds(<<Opn(s)>>, q, g)
    BY AddsOpen
  <2>6. Adds(<<Cls(s)>>, g, q)
    BY <2>1, AddsClose
  <2>7. PICK t1, t2, t3, t4, t5 \in Token :
          t1 = Opn(z) /\ t2 = t /\ t3 = Cls(z) /\ t4 = Opn(s) /\ t5 = Cls(s)
    BY DEF Token, Words, Opn, Cls, Tags
  <2> HIDE DEF u, p, g, v, q, t
  <2>8. Adds(<< t1, t2, t3, t4, t5 >>, v, q)
    BY <2>2, <2>3, <2>4, <2>5, <2>6, <2>7, AddsFive
  <2> QED BY <2>7, <2>8 DEF t
<1>4. "sup" \in Inside /\ "sub" \in Inside
  BY DEF Inside
<1>5. Adds(<< Opn("sup"), <<"smart", i>>, Cls("sup"), Opn("sub"), Cls("sub") >>, v, q)
  <2> HIDE DEF v, q
  <2> QED BY <1>3, <1>4
<1> HIDE DEF v, q
<1>6. /\ Turns(W(<< <<"text", i>> >>), d, v, d, q)
      /\ Turns(W(<< <<"smart", i>> >>), d, v, d, q)
  BY <1>2, TurnsRaw
<1>7. Turns(W(<< Opn("sup"), <<"smart", i>>, Cls("sup"), Opn("sub"), Cls("sub") >>), d, v, d, q)
  BY <1>5, TurnsRaw
<1>8. Turns(TextCalls(i), d, v, d, q)
  BY <1>6, <1>7 DEF TextCalls
<1> QED
  BY <1>6, <1>8 DEF v, q

\* The tokens of a footnote reference and of a note's way back: each opens
\* what it closes.
LEMMA NoteTokens ==
  ASSUME NEW i \in Nat, NEW x \in Seq(Tags), NEW w, NEW b \in BOOLEAN, NEW c \in BOOLEAN
  PROVE  /\ Adds(<< Opn("sup"), Opn("a"), <<"number", i>>, Cls("a"), Cls("sup") >>,
                 View(x, w, b), View(x, w, c))
         /\ Adds(<< <<"space">>, Opn("a"), Cls("a") >>, View(x, w, b), View(x, w, c))
<1>1. PICK z, s \in Inside : z = "sup" /\ s = "a"
  BY DEF Inside
<1>2. PICK m, n \in Marks : m = <<"number", i>> /\ n = <<"space">>
  BY DEF Marks
<1> DEFINE v == View(x, w, b)
           q == View(x, w, c)
           y == Append(x, z)
           u == View(y, w, TRUE)
           p == View(Append(y, s), w, TRUE)
<1>3. y \in Seq(Tags) /\ z \in Tags /\ s \in Tags
  BY DEF Tags
<1>4. Adds(<<Opn(z)>>, v, u) /\ Adds(<<Cls(z)>>, u, q)
  BY <1>3, AddsOpen, AddsClose
<1>5. Adds(<<Opn(s)>>, u, p) /\ Adds(<<Cls(s)>>, p, u) /\ Adds(<<m>>, p, p)
  <2>1. y \in Seq(Tags) /\ Append(y, s) \in Seq(Tags)
    BY <1>3, StackTop
  <2> HIDE DEF y
  <2>2. Adds(<<m>>, p, p)
    <3> DEFINE h == Append(y, s)
    <3> HIDE DEF h
    <3>1. h \in Seq(Tags)
      BY <2>1 DEF h
    <3>2. Adds(<<m>>, View(h, w, TRUE), View(h, w, TRUE))
      BY <3>1, AddsMark
    <3> QED BY <3>2 DEF h
  <2> QED BY <1>3, <2>1, <2>2, AddsOpen, AddsClose
<1> DEFINE g == View(Append(x, s), w, TRUE)
<1>7. Adds(<<n>>, v, v) /\ Adds(<<Opn(s)>>, v, g) /\ Adds(<<Cls(s)>>, g, q)
  BY <1>3, AddsOpen, AddsClose, AddsMark
<1>8. PICK t1, t2, t3, t4, t5, t6 \in Token :
         /\ t1 = Opn(z) /\ t2 = Opn(s) /\ t3 = m /\ t4 = Cls(s) /\ t5 = Cls(z) /\ t6 = n
  BY <1>3 DEF Token, Opn, Cls
<1> HIDE DEF y, u, p, v, q, g
<1>9. Adds(<< t1, t2, t3, t4, t5 >>, v, q)
  BY <1>4, <1>5, <1>8, AddsFive
<1>10. Adds(<< t6, t2, t4 >>, v, q)
  BY <1>7, <1>8, AddsThree
<1> QED
  BY <1>1, <1>2, <1>8, <1>9, <1>10 DEF v, q

\* What a link of any kind stands in: nothing for a footnote reference that is
\* shown, whose end writes nothing.
LEMMA LinkTurns ==
  ASSUME NEW i \in Nat, NEW x \in Seq(Tags), NEW w, NEW b \in BOOLEAN, NEW c \in BOOLEAN,
         NEW y, y = IF NeedSkipLink(i) THEN Append(x, "tt")
                    ELSE IF In(i, NoteRefs) THEN x ELSE Append(x, "a")
  PROVE  /\ Turns(LinkCalls(i, TRUE), 0, View(x, w, b), 0, View(y, w, c))
         /\ Turns(LinkCalls(i, FALSE), 0, View(y, w, b), 0, View(x, w, b))
<1>1. CASE NeedSkipLink(i)
  <2>1. PICK e \in Inside : e = "tt"
    BY DEF Inside
  <2>2. /\ LinkCalls(i, TRUE) = O(<<Opn(e)>>) /\ LinkCalls(i, FALSE) = O(<<Cls(e)>>)
        /\ y = Append(x, e)
    BY <1>1, <2>1 DEF LinkCalls
  <2> QED BY <2>2, TurnsOpen, TurnsClose DEF Tags
<1>2. CASE ~NeedSkipLink(i) /\ In(i, NoteRefs)
  <2> DEFINE toks == << Opn("sup"), Opn("a"), <<"number", i>>, Cls("a"), Cls("sup") >>
             v == View(x, w, b)
  <2>1. Adds(toks, v, View(x, w, TRUE))
    BY NoteTokens
  <2>2. toks # << >>
    OBVIOUS
  <2>3. LinkCalls(i, TRUE) = << Call("out", toks) >> /\ LinkCalls(i, FALSE) = << >> /\ y = x
    BY <1>2 DEF LinkCalls, When, O
  <2> HIDE DEF toks, v
  <2>4. Turns(LinkCalls(i, TRUE), 0, v, 0, View(x, w, c))
    BY <2>1, <2>2, <2>3, TurnsOut
  <2>5. Turns(LinkCalls(i, FALSE), 0, v, 0, v)
    BY <2>3, TurnsNone
  <2> QED BY <2>3, <2>4, <2>5 DEF v
<1>3. CASE ~NeedSkipLink(i) /\ ~In(i, NoteRefs)
  <2>1. PICK e \in Inside : e = "a"
    BY DEF Inside
  <2>2. /\ LinkCalls(i, TRUE) = T(e) /\ LinkCalls(i, FALSE) = O(<<Cls(e)>>)
        /\ y = Append(x, e)
    BY <1>3, <2>1 DEF LinkCalls
  <2> QED BY <2>2, TurnsOpen, TurnsClose DEF Tags
<1> QED
  BY <1>1, <1>2, <1>3

\* A cr that may be left out.
LEMMA MayCr ==
  ASSUME NEW g \in BOOLEAN, NEW x \in Seq(Tags), NEW w, NEW b \in BOOLEAN
  PROVE  Turns(When(g, Cr), 0, View(x, w, b), 0, View(x, w, b))
BY TurnsCr, TurnsNone DEF When

\* An image's alternative text: tags are disabled inside it.
LEMMA ImageTurns ==
  ASSUME NEW i \in Nat, NEW x \in Seq(Tags), NEW w, NEW b \in BOOLEAN, ~Has("SKIP_IMAGES")
  PROVE  /\ r.disabled = 0 =>
              Turns(ImageCalls(i, TRUE), 0, View(x, w, b), 1, View(Append(x, "alt"), w, b))
         /\ r.disabled = 1 =>
              Turns(ImageCalls(i, FALSE), 1, View(Append(x, "alt"), w, b), 0, View(x, w, b))
<1>1. PICK e \in Inside : e = "alt"
  BY DEF Inside
<1> DEFINE v == View(x, w, b)
           q == View(Append(x, e), w, b)
           off == << Call("disable", << >>) >>
           on == << Call("enable", << >>) >>
<1>2. Turns(O(<<Opn(e)>>), 0, v, 0, q) /\ Turns(O(<<Cls(e)>>), 0, q, 0, v)
  BY TurnsOpen, TurnsClose DEF Tags
<1>3. Turns(off, 0, q, 1, q) /\ Turns(on, 1, q, 0, q)
  BY TurnsDisable
<1> HIDE DEF v, q, off, on
<1>4. ASSUME r.disabled = 0  PROVE Turns(ImageCalls(i, TRUE), 0, v, 1, q)
  <2>1. ImageCalls(i, TRUE) = O(<<Opn(e)>>) \o off
    BY <1>1, <1>4 DEF ImageCalls, When, off
  <2> QED BY <1>2, <1>3, <2>1, TurnsBoth
<1>5. ASSUME r.disabled = 1  PROVE Turns(ImageCalls(i, FALSE), 1, q, 0, v)
  <2>1. ImageCalls(i, FALSE) = on \o O(<<Cls(e)>>)
    BY <1>1, <1>5 DEF ImageCalls, When, on
  <2> QED BY <1>2, <1>3, <2>1, TurnsBoth
<1> QED
  BY <1>1, <1>4, <1>5 DEF v, q

\* A paragraph that is not that of a tight list's item.
LEMMA ParagraphTurns ==
  ASSUME NEW i \in Nat, NEW x \in Seq(Tags), NEW w, NEW b \in BOOLEAN,
         NEW y, y = IF SkipParagraphTags(i) THEN x ELSE Append(x, "p")
  PROVE  /\ Turns(ParagraphCalls(i, TRUE), 0, View(x, w, b), 0, View(y, w, b))
         /\ Turns(ParagraphCalls(i, FALSE), 0, View(y, w, b), 0, View(x, w, b))
<1>1. CASE SkipParagraphTags(i)
  <2>1. ParagraphCalls(i, TRUE) = << >> /\ ParagraphCalls(i, FALSE) = << >> /\ y = x
    BY <1>1 DEF ParagraphCalls
  <2> QED BY <2>1, TurnsNone
<1>2. CASE ~SkipParagraphTags(i)
  <2>1. PICK e \in Inside : e = "p"
    BY DEF Inside
  <2>2. PICK g, h, l \in BOOLEAN :
          /\ ParagraphCalls(i, TRUE) = When(g, Cr) \o When(h, Cr) \o O(<<Opn(e)>>)
          /\ ParagraphCalls(i, FALSE) = O(<<Cls(e)>>) \o When(l, Cr)
    <3>1. /\ (HasPrev(i) /\ In(PrevOf(i), Lists \cup {"HTMLBlock", "Paragraph", "Heading",
                 "CodeBlock", "BlockQuote", "HorizontalRule"})) \in BOOLEAN
          /\ (In(Parent(i), {"BlockQuote"}) /\ ~HasPrev(i)) \in BOOLEAN
          /\ (~LastInItem(i)) \in BOOLEAN
      OBVIOUS
    <3> QED BY <1>2, <2>1, <3>1 DEF ParagraphCalls
  <2> DEFINE v == View(x, w, b)
             q == View(Append(x, e), w, b)
  <2>3. Turns(When(g, Cr), 0, v, 0, v) /\ Turns(When(h, Cr), 0, v, 0, v)
    BY MayCr
  <2>4. Turns(When(l, Cr), 0, v, 0, v)
    BY MayCr
  <2>5. Turns(O(<<Opn(e)>>), 0, v, 0, q) /\ Turns(O(<<Cls(e)>>), 0, q, 0, v)
    BY TurnsOpen, TurnsClose DEF Tags
  <2>6. y = Append(x, e)
    BY <1>2, <2>1
  <2> HIDE DEF v, q
  <2>7. /\ Turns(ParagraphCalls(i, TRUE), 0, v, 0, q)
        /\ Turns(ParagraphCalls(i, FALSE), 0, q, 0, v)
    BY <2>2, <2>3, <2>4, <2>5, TurnsBoth
  <2> QED BY <2>6, <2>7 DEF v, q
<1> QED
  BY <1>1, <1>2

\* A block quote, a table or a part of one.
LEMMA BoxTurns ==
  ASSUME NEW i \in Nat, NEW e \in Inside, NEW x \in Seq(Tags), NEW w, NEW b \in BOOLEAN
  PROVE  /\ Turns(BoxCalls(i, e, TRUE), 0, View(x, w, b), 0, View(Append(x, e), w, b))
         /\ Turns(BoxCalls(i, e, FALSE), 0, View(Append(x, e), w, b), 0, View(x, w, b))
<1> DEFINE v == View(x, w, b)
           q == View(Append(x, e), w, b)
<1>1. PICK g \in BOOLEAN : g = (e = "tbody" /\ ~HasChild(i))
  OBVIOUS
<1>2. Append(x, e) \in Seq(Tags)
  BY DEF Tags
<1>3. Turns(Cr, 0, v, 0, v)
  BY TurnsCr
<1>4. Turns(When(g, Cr), 0, q, 0, q)
  BY <1>2, MayCr
<1>5. Turns(O(<<Opn(e)>>), 0, v, 0, q) /\ Turns(O(<<Cls(e)>>), 0, q, 0, v)
  BY TurnsOpen, TurnsClose DEF Tags
<1>6. /\ BoxCalls(i, e, TRUE) = Cr \o O(<<Opn(e)>>) \o When(g, Cr)
      /\ BoxCalls(i, e, FALSE) = O(<<Cls(e)>>) \o Cr
  BY <1>1 DEF BoxCalls
<1> HIDE DEF v, q
<1>7. Turns(Cr \o O(<<Opn(e)>>), 0, v, 0, q)
  BY <1>3, <1>5, TurnsBoth
<1>8. /\ Turns(BoxCalls(i, e, TRUE), 0, v, 0, q)
      /\ Turns(BoxCalls(i, e, FALSE), 0, q, 0, v)
  BY <1>3, <1>4, <1>5, <1>6, <1>7, TurnsBoth
<1> QED
  BY <1>8 DEF v, q

\* A heading.
LEMMA HeadingTurns ==
  ASSUME NEW i \in Nat, NEW x \in Seq(Tags), NEW w, NEW b \in BOOLEAN
  PROVE  /\ Turns(HeadingCalls(i, TRUE), 0, View(x, w, b), 0, View(Append(x, "h"), w, b))
         /\ Turns(HeadingCalls(i, FALSE), 0, View(Append(x, "h"), w, b), 0, View(x, w, b))
<1>1. PICK e \in Inside : e = "h"
  BY DEF Inside
<1> DEFINE v == View(x, w, b)
           q == View(Append(x, e), w, b)
<1>2. PICK g \in BOOLEAN : g = (~LastInItem(i))
  OBVIOUS
<1>3. Turns(Cr, 0, v, 0, v) /\ Turns(When(g, Cr), 0, v, 0, v)
  BY TurnsCr, MayCr
<1>4. Turns(T(e), 0, v, 0, q) /\ Turns(O(<<Cls(e)>>), 0, q, 0, v)
  BY TurnsOpen, TurnsClose DEF Tags
<1>5. /\ HeadingCalls(i, TRUE) = Cr \o T(e)
      /\ HeadingCalls(i, FALSE) = O(<<Cls(e)>>) \o When(g, Cr)
  BY <1>1, <1>2 DEF HeadingCalls
<1> HIDE DEF v, q
<1>6. /\ Turns(HeadingCalls(i, TRUE), 0, v, 0, q)
      /\ Turns(HeadingCalls(i, FALSE), 0, q, 0, v)
  BY <1>3, <1>4, <1>5, TurnsBoth
<1> QED
  BY <1>1, <1>6 DEF v, q

\* The tokens around the notes: the newline that comes first needs the output
\* to have begun.
LEMMA NotesTokens ==
  ASSUME NEW x \in Seq(Tags), NEW w
  PROVE  /\ Adds(<< NL, Opn("div"), NL, NL >>,
                 View(x, w, TRUE), View(Append(x, "div"), w, TRUE))
         /\ Adds(<< NL, Cls("div"), NL >>,
                 View(Append(x, "div"), w, TRUE), View(x, w, TRUE))
<1>1. PICK e \in Inside : e = "div"
  BY DEF Inside
<1>2. e \in Tags /\ Append(x, e) \in Seq(Tags)
  BY DEF Tags
<1> DEFINE v == View(x, w, TRUE)
           q == View(Append(x, e), w, TRUE)
<1>3. PICK a, b, c \in Token : a = NL /\ b = Opn(e) /\ c = Cls(e)
  BY <1>2 DEF Token, Opn, Cls
<1>4. Adds(<<a>>, v, v) /\ Adds(<<a>>, q, q)
  BY <1>2, <1>3, AddsNL
<1>5. Adds(<<b>>, v, q) /\ Adds(<<c>>, q, v)
  BY <1>2, <1>3, AddsOpen, AddsClose
<1> HIDE DEF v, q
<1>6. Adds(<<b, a, a>>, v, q) /\ Adds(<<a, c, a>>, q, v)
  BY <1>4, <1>5, AddsThree
<1>7. Adds(<<a>> \o <<b, a, a>>, v, q)
  BY <1>4, <1>6, AddsBoth
<1>8. <<a>> \o <<b, a, a>> = <<a, b, a, a>>
  BY FourTokens
<1> QED
  BY <1>1, <1>3, <1>6, <1>7, <1>8 DEF v, q

\* A list of any kind; the notes stand in a division of their own.
LEMMA ListTurns ==
  ASSUME NEW i \in Nat, NEW x \in Seq(Tags), NEW w, NEW b \in BOOLEAN, In(i, {"Notes"}) => b,
         NEW y, y = IF In(i, {"Notes"}) THEN Append(Append(x, "div"), "ol")
                    ELSE Append(x, ListElement(i))
  PROVE  /\ Turns(ListCalls(i, TRUE), 0, View(x, w, b), 0, View(y, w, b))
         /\ Turns(ListCalls(i, FALSE), 0, View(y, w, b), 0, View(x, w, b))
<1>1. PICK e \in Inside : e = ListElement(i)
  BY DEF Inside, ListElement
<1>2. PICK dv \in Inside : dv = "div"
  BY DEF Inside
<1>3. PICK notes, g, h, l \in BOOLEAN :
        /\ notes = In(i, {"Notes"})
        /\ ListCalls(i, TRUE) =
             When(notes, O(<< NL, Opn("div"), NL, NL >>) \o O(<< <<"hr">> >>) \o Cr)
               \o Cr \o When(g, Cr) \o T(e) \o Cr
        /\ ListCalls(i, FALSE) =
             O(<< Cls(e) >>) \o When(h, Cr) \o When(l, Cr)
               \o When(notes, O(<< NL, Cls("div"), NL >>))
  <2>1. /\ In(i, {"Notes"}) \in BOOLEAN
        /\ (In(Parent(i), Items) /\ nodes[Parent(Parent(i))].tight) \in BOOLEAN
        /\ (In(Parent(i), Items) /\ NextOf(i) # 0) \in BOOLEAN
        /\ In(Parent(i), {"Document", "BlockQuote"}) \in BOOLEAN
    BY DEF In
  <2> QED BY <1>1, <2>1 DEF ListCalls
<1> DEFINE o == IF notes THEN Append(x, dv) ELSE x
           v == View(x, w, b)
           u == View(o, w, b)
           q == View(Append(o, e), w, b)
           head == When(notes, O(<< NL, Opn("div"), NL, NL >>) \o O(<< <<"hr">> >>) \o Cr)
           foot == When(notes, O(<< NL, Cls("div"), NL >>))
<1>4. o \in Seq(Tags) /\ Append(o, e) \in Seq(Tags) /\ y = Append(o, e)
  <2>1. dv \in Tags /\ e \in Tags /\ o \in Seq(Tags)
    BY DEF Tags
  <2>2. y = Append(o, e)
    BY <1>1, <1>2, <1>3 DEF ListElement, In
  <2> HIDE DEF o
  <2> QED BY <2>1, <2>2
<1>5. Turns(head, 0, v, 0, u) /\ Turns(foot, 0, u, 0, v)
  <2>1. CASE ~notes
    <3>1. head = << >> /\ foot = << >> /\ u = v
      BY <2>1 DEF When
    <3> QED BY <3>1, TurnsNone
  <2>2. CASE notes
    <3> DEFINE a == << NL, Opn("div"), NL, NL >>
               z == << NL, Cls("div"), NL >>
    <3>1. Adds(a, v, View(o, w, TRUE)) /\ Adds(z, u, View(x, w, TRUE)) /\ b = TRUE
      BY <1>2, <1>3, <2>2, NotesTokens
    <3>2. a # << >> /\ z # << >>
      OBVIOUS
    <3>3. O(a) = << Call("out", a) >> /\ O(z) = << Call("out", z) >>
      BY DEF O
    <3>4. head = O(a) \o O(<< <<"hr">> >>) \o Cr /\ foot = O(z)
      BY <2>2 DEF When
    <3>5. Turns(Cr, 0, u, 0, u)
      BY <1>4, TurnsCr
    <3>6. PICK m \in Marks : m = <<"hr">>
      BY DEF Marks
    <3>7. Turns(O(<<m>>), 0, u, 0, u)
      BY <1>4, TurnsMark
    <3>8. u = View(o, w, b) /\ v = View(x, w, b)
      OBVIOUS
    <3> HIDE DEF a, z, v, u, head, foot, o
    <3>9. Turns(O(a), 0, v, 0, u) /\ Turns(O(z), 0, u, 0, v)
      BY <3>1, <3>2, <3>3, <3>8, TurnsOut
    <3>10. Turns(O(a) \o O(<< <<"hr">> >>), 0, v, 0, u)
      BY <3>6, <3>7, <3>9, TurnsBoth
    <3> QED BY <3>4, <3>5, <3>9, <3>10, TurnsBoth
  <2> QED BY <2>1, <2>2
<1>6. /\ Turns(Cr, 0, u, 0, u) /\ Turns(Cr, 0, q, 0, q) /\ Turns(When(g, Cr), 0, u, 0, u)
      /\ Turns(When(h, Cr), 0, u, 0, u) /\ Turns(When(l, Cr), 0, u, 0, u)
  <2> HIDE DEF o
  <2> QED BY <1>4, TurnsCr, MayCr
<1>7. Turns(T(e), 0, u, 0, q) /\ Turns(O(<<Cls(e)>>), 0, q, 0, u)
  <2> HIDE DEF o
  <2> QED BY <1>4, TurnsOpen, TurnsClose DEF Tags
<1> HIDE DEF u, v, q, head, foot, o
<1>8. Turns(head \o Cr \o When(g, Cr) \o T(e) \o Cr, 0, v, 0, q)
  <2>1. Turns(head \o Cr, 0, v, 0, u)
    BY <1>5, <1>6, TurnsBoth
  <2>2. Turns(head \o Cr \o When(g, Cr), 0, v, 0, u)
    BY <1>6, <2>1, TurnsBoth
  <2>3. Turns(head \o Cr \o When(g, Cr) \o T(e), 0, v, 0, q)
    BY <1>7, <2>2, TurnsBoth
  <2> QED BY <1>6, <2>3, TurnsBoth
<1>9. Turns(O(<<Cls(e)>>) \o When(h, Cr) \o When(l, Cr) \o foot, 0, q, 0, v)
  <2>1. Turns(O(<<Cls(e)>>) \o When(h, Cr), 0, q, 0, u)
    BY <1>6, <1>7, TurnsBoth
  <2>2. Turns(O(<<Cls(e)>>) \o When(h, Cr) \o When(l, Cr), 0, q, 0, u)
    BY <1>6, <2>1, TurnsBoth
  <2> QED BY <1>5, <2>2, TurnsBoth
<1> QED
  BY <1>3, <1>4, <1>8, <1>9 DEF v, q, head, foot

\* An item, a term, a definition or a note; a note's way back closes what it
\* opens.
LEMMA ItemTurns ==
  ASSUME NEW i \in Nat, NEW x \in Seq(Tags), NEW w, NEW b \in BOOLEAN
  PROVE  /\ Turns(ItemCalls(i, TRUE), 0, View(x, w, b), 0, View(Append(x, ItemElement(i)), w, b))
         /\ Turns(ItemCalls(i, FALSE), 0, View(Append(x, ItemElement(i)), w, b), 0, View(x, w, b))
<1>1. PICK e \in Inside : e = ItemElement(i)
  BY DEF Inside, ItemElement
<1> DEFINE back == << <<"space">>, Opn("a"), Cls("a") >>
<1>2. PICK g, h \in BOOLEAN :
        /\ ItemCalls(i, TRUE) = When(g, Cr) \o O(<<Opn(e)>>)
        /\ ItemCalls(i, FALSE) = When(h, O(back)) \o O(<<Cls(e)>>) \o Cr
  <2>1. /\ (HasPrev(i) /\ ~nodes[Parent(i)].tight /\ ~In(Parent(i), {"Definitions"})) \in BOOLEAN
        /\ (In(i, {"Note"}) /\ Has("FOOTNOTE_RETURN_LINKS")) \in BOOLEAN
    OBVIOUS
  <2> QED BY <1>1, <2>1 DEF ItemCalls
<1> DEFINE y == Append(x, e)
           v == View(x, w, b)
           q == View(y, w, b)
<1>3. y \in Seq(Tags)
  BY DEF Tags
<1>4. Turns(When(g, Cr), 0, v, 0, v) /\ Turns(Cr, 0, v, 0, v)
  BY MayCr, TurnsCr
<1>5. Turns(O(<<Opn(e)>>), 0, v, 0, q) /\ Turns(O(<<Cls(e)>>), 0, q, 0, v)
  BY TurnsOpen, TurnsClose DEF Tags
<1> HIDE DEF y
<1>6. Turns(When(h, O(back)), 0, q, 0, q)
  <2>1. Adds(back, q, View(y, w, TRUE))
    <3>1. PICK n \in Nat : n = i
      OBVIOUS
    <3> QED BY <1>3, <3>1, NoteTokens
  <2>2. back # << >>
    OBVIOUS
  <2>3. O(back) = << Call("out", back) >>
    BY DEF O
  <2>4. q = View(y, w, b)
    OBVIOUS
  <2> HIDE DEF back, q
  <2>5. Turns(O(back), 0, q, 0, q)
    BY <2>1, <2>2, <2>3, <2>4, TurnsOut
  <2> QED BY <2>5, TurnsNone DEF When
<1> HIDE DEF v, q, back
<1>7. Turns(ItemCalls(i, TRUE), 0, v, 0, q)
  BY <1>2, <1>4, <1>5, TurnsBoth
<1>8. Turns(When(h, O(back)) \o O(<<Cls(e)>>), 0, q, 0, v)
  BY <1>5, <1>6, TurnsBoth
<1>9. Turns(ItemCalls(i, FALSE), 0, q, 0, v)
  BY <1>2, <1>4, <1>8, TurnsBoth
<1> QED
  BY <1>1, <1>7, <1>9 DEF v, q, y

\* A table's cell.
LEMMA CellTurns ==
  ASSUME NEW i \in Nat, NEW x \in Seq(Tags), NEW w, NEW b \in BOOLEAN
  PROVE  /\ Turns(CellCalls(i, TRUE), 0, View(x, w, b), 0, View(Append(x, "td"), w, b))
         /\ Turns(CellCalls(i, FALSE), 0, View(Append(x, "td"), w, b), 0, View(x, w, b))
<1>1. PICK e \in Inside : e = "td"
  BY DEF Inside
<1> DEFINE v == View(x, w, b)
           q == View(Append(x, e), w, b)
<1>2. PICK g \in BOOLEAN : g = (~HasPrev(i))
  OBVIOUS
<1>3. Turns(Cr, 0, v, 0, v) /\ Turns(When(g, Cr), 0, v, 0, v)
  BY TurnsCr, MayCr
<1>4. Turns(T(e), 0, v, 0, q) /\ Turns(O(<<Cls(e)>>), 0, q, 0, v)
  BY TurnsOpen, TurnsClose DEF Tags
<1>5. /\ CellCalls(i, TRUE) = When(g, Cr) \o T(e)
      /\ CellCalls(i, FALSE) = O(<<Cls(e)>>) \o Cr
  BY <1>1, <1>2 DEF CellCalls
<1> HIDE DEF v, q
<1>6. Turns(CellCalls(i, TRUE), 0, v, 0, q) /\ Turns(CellCalls(i, FALSE), 0, q, 0, v)
  BY <1>3, <1>4, <1>5, TurnsBoth
<1> QED
  BY <1>1, <1>6 DEF v, q

\* Code in a block and in a line.
LEMMA CodeTurns ==
  ASSUME NEW i \in Nat, NEW x \in Seq(Tags), NEW w, \A n \in w : n < i, NEW b \in BOOLEAN
  PROVE  /\ Turns(CodeBlockCalls(i), 0, View(x, w, b), 0, View(x, w \cup {i}, b))
         /\ Turns(O(<< Opn("code") >>) \o W(<< <<"text", i>> >>) \o O(<< Cls("code") >>),
                  0, View(x, w, b), 0, View(x, w \cup {i}, b))
<1>1. PICK e, z \in Inside : e = "code" /\ z = "pre"
  BY DEF Inside
<1> DEFINE y == Append(x, z)
           t == w \cup {i}
           v == View(x, w, b)
           q == View(x, t, b)
           word == W(<< <<"text", i>> >>)
<1>2. y \in Seq(Tags) /\ Append(x, e) \in Seq(Tags) /\ e \in Tags /\ z \in Tags
  BY DEF Tags
<1>3. PICK g \in BOOLEAN : g = (~In(Parent(i), Items))
  OBVIOUS
<1>4. Turns(Cr, 0, v, 0, v) /\ Turns(When(g, Cr), 0, q, 0, q)
  <2> HIDE DEF t
  <2> QED BY MayCr, TurnsCr
<1>5. Turns(O(<<Opn(z)>>), 0, v, 0, View(y, w, b))
  BY TurnsOpen
<1>6. Turns(O(<<Cls(z)>>), 0, View(y, t, b), 0, q)
  <2> HIDE DEF t
  <2> QED BY <1>2, TurnsClose
<1>7. ASSUME NEW s \in Seq(Tags)
      PROVE  /\ Turns(O(<<Opn(e)>>), 0, View(s, w, b), 0, View(Append(s, e), w, b))
             /\ Turns(T(e), 0, View(s, w, b), 0, View(Append(s, e), w, b))
             /\ Turns(word, 0, View(Append(s, e), w, b), 0, View(Append(s, e), t, b))
             /\ Turns(O(<<Cls(e)>>), 0, View(Append(s, e), t, b), 0, View(s, t, b))
  <2>1. /\ Turns(O(<<Opn(e)>>), 0, View(s, w, b), 0, View(Append(s, e), w, b))
        /\ Turns(T(e), 0, View(s, w, b), 0, View(Append(s, e), w, b))
    BY <1>7, TurnsOpen
  <2>2. Turns(O(<<Cls(e)>>), 0, View(Append(s, e), t, b), 0, View(s, t, b))
    <3> HIDE DEF t
    <3> QED BY <1>2, <1>7, TurnsClose
  <2>3. Turns(word, 0, View(Append(s, e), w, b), 0, View(Append(s, e), t, b))
    <3> DEFINE p == Append(s, e)
    <3>1. p \in Seq(Tags)
      BY <1>2, <1>7
    <3> HIDE DEF p
    <3>2. Turns(word, 0, View(p, w, b), 0, View(p, t, b))
      BY <3>1, TextTurns
    <3> QED BY <3>2 DEF p
  <2> QED BY <2>1, <2>2, <2>3
<1>8. PICK v1, v2, v3, q1, q2, q3 :
        /\ v1 = View(y, w, b) /\ v2 = View(Append(y, e), w, b) /\ v3 = View(Append(x, e), w, b)
        /\ q1 = View(y, t, b) /\ q2 = View(Append(y, e), t, b) /\ q3 = View(Append(x, e), t, b)
  OBVIOUS
<1>9. /\ Turns(T(e), 0, v1, 0, v2) /\ Turns(word, 0, v2, 0, q2)
      /\ Turns(O(<<Cls(e)>>), 0, q2, 0, q1)
  BY <1>2, <1>7, <1>8
<1>10. /\ Turns(O(<<Opn(e)>>), 0, v, 0, v3) /\ Turns(word, 0, v3, 0, q3)
       /\ Turns(O(<<Cls(e)>>), 0, q3, 0, q)
  BY <1>7, <1>8
<1>11. Turns(O(<<Opn(z)>>), 0, v, 0, v1) /\ Turns(O(<<Cls(z)>>), 0, q1, 0, q)
  BY <1>5, <1>6, <1>8
<1>12. CodeBlockCalls(i) = Cr \o O(<<Opn(z)>>) \o T(e) \o word \o O(<<Cls(e)>>) \o O(<<Cls(z)>>)
                             \o When(g, Cr)
  BY <1>1, <1>3 DEF CodeBlockCalls
<1> HIDE DEF v, q, word, y, t
<1>13. Turns(CodeBlockCalls(i), 0, v, 0, q)
  <2>1. Turns(Cr \o O(<<Opn(z)>>), 0, v, 0, v1)
    BY <1>4, <1>11, TurnsBoth
  <2>2. Turns(Cr \o O(<<Opn(z)>>) \o T(e), 0, v, 0, v2)
    BY <1>9, <2>1, TurnsBoth
  <2>3. Turns(Cr \o O(<<Opn(z)>>) \o T(e) \o word, 0, v, 0, q2)
    BY <1>9, <2>2, TurnsBoth
  <2>4. Turns(Cr \o O(<<Opn(z)>>) \o T(e) \o word \o O(<<Cls(e)>>), 0, v, 0, q1)
    BY <1>9, <2>3, TurnsBoth
  <2>5. Turns(Cr \o O(<<Opn(z)>>) \o T(e) \o word \o O(<<Cls(e)>>) \o O(<<Cls(z)>>), 0, v, 0, q)
    BY <1>11, <2>4, TurnsBoth
  <2> QED BY <1>4, <1>12, <2>5, TurnsBoth
<1>14. Turns(O(<<Opn(e)>>) \o word \o O(<<Cls(e)>>), 0, v, 0, q)
  <2>1. Turns(O(<<Opn(e)>>) \o word, 0, v, 0, q3)
    BY <1>10, TurnsBoth
  <2> QED BY <1>10, <2>1, TurnsBoth
<1> QED
  BY <1>1, <1>13, <1>14 DEF v, q, word, t

USE DEF NoteRefs

\* The kinds of node whose text is written, and the texts a node has of its own.
Shown == {"Text", "Fraction", "Code", "CodeBlock"}
TextsAtNode(i) == IF In(i, Shown) THEN {i} ELSE {}

\* The elements open inside a node, x being open outside of it.
Within(i, x) ==
  CASE In(i, {"Notes"}) -> Append(Append(x, "div"), "ol")
    [] In(i, {"Bullets", "Definitions"}) -> Append(x, ListElement(i))
    [] In(i, Items) -> Append(x, ItemElement(i))
    [] In(i, {"Emph"}) -> Append(x, "em")
    [] In(i, {"Strong"}) -> Append(x, "strong")
    [] In(i, {"Del"}) -> Append(x, "del")
    [] In(i, {"Link", "Unsafe"}) -> Append(x, IF NeedSkipLink(i) THEN "tt" ELSE "a")
    [] In(i, NoteRefs) -> IF NeedSkipLink(i) THEN Append(x, "tt") ELSE x
    [] In(i, {"Image"}) -> Append(x, "alt")
    [] In(i, {"Paragraph"}) -> IF SkipParagraphTags(i) THEN x ELSE Append(x, "p")
    [] In(i, {"BlockQuote"}) -> Append(x, "blockquote")
    [] In(i, {"Heading"}) -> Append(x, "h")
    [] In(i, {"Table"}) -> Append(x, "table")
    [] In(i, {"TableHead"}) -> Append(x, "thead")
    [] In(i, {"TableBody"}) -> Append(x, "tbody")
    [] In(i, {"TableRow"}) -> Append(x, "tr")
    [] In(i, {"TableCell"}) -> Append(x, "td")
    [] OTHER -> x

Kinds == Blocks \cup Inlines \cup Items \cup
           {"Document", "Notes", "TableHead", "TableBody", "TableRow", "TableCell"}

\* What is open inside a node is a stack of known elements.
LEMMA WithinTyped ==
  ASSUME NEW i, NEW x \in Seq(Tags)
  PROVE  Within(i, x) \in Seq(Tags)
<1>1. ListElement(i) \in Tags /\ ItemElement(i) \in Tags
  BY DEF ListElement, ItemElement, Tags, Inside
<1>2. /\ "div" \in Tags /\ "ol" \in Tags /\ "em" \in Tags /\ "strong" \in Tags /\ "del" \in Tags
      /\ "tt" \in Tags /\ "a" \in Tags /\ "alt" \in Tags /\ "p" \in Tags /\ "blockquote" \in Tags
      /\ "h" \in Tags /\ "table" \in Tags /\ "thead" \in Tags /\ "tbody" \in Tags /\ "tr" \in Tags
      /\ "td" \in Tags
  BY DEF Tags, Inside
<1>3. \A e, f \in Tags : Append(x, e) \in Seq(Tags) /\ Append(Append(x, e), f) \in Seq(Tags)
  OBVIOUS
<1> HIDE DEF Tags
<1> QED
  BY <1>1, <1>2, <1>3 DEF Within

\* A leaf's only visit leaves open what was, and writes the texts of the node.
LEMMA LeafTurns ==
  ASSUME NEW i \in Nat, In(i, Leaves), NEW x \in Seq(Tags), NEW w, \A n \in w : n < i,
         NEW b \in BOOLEAN, NEW d, d = 0 \/ In(i, {"Text", "Fraction"})
  PROVE  Turns(Calls(i, TRUE), d, View(x, w, b), d, View(x, w \cup TextsAtNode(i), b))
<1>1. CASE In(i, {"Text", "Fraction"})
  <2>1. Calls(i, TRUE) = TextCalls(i) /\ TextsAtNode(i) = {i}
    BY <1>1 DEF In, Calls, TextsAtNode, Shown, Lists, Items
  <2> QED BY <2>1, TextTurns
<1>2. CASE In(i, {"Code"})
  <2>1. /\ Calls(i, TRUE) = O(<< Opn("code") >>) \o W(<< <<"text", i>> >>) \o O(<< Cls("code") >>)
        /\ TextsAtNode(i) = {i} /\ d = 0
    BY <1>2 DEF In, Calls, TextsAtNode, Shown, Lists, Items
  <2> QED BY <2>1, CodeTurns
<1>3. CASE In(i, {"CodeBlock"})
  <2>1. Calls(i, TRUE) = CodeBlockCalls(i) /\ TextsAtNode(i) = {i} /\ d = 0
    BY <1>3 DEF In, Calls, TextsAtNode, Shown, Lists, Items
  <2> QED BY <2>1, CodeTurns
<1>4. CASE In(i, {"HTMLSpan", "Softbreak", "Hardbreak", "HorizontalRule", "HTMLBlock"})
  <2> DEFINE v == View(x, w, b)
  <2>1. w \cup TextsAtNode(i) = w /\ d = 0
    BY <1>4 DEF In, TextsAtNode, Shown
  <2>2. PICK m, h, z \in Marks : m = <<"br">> /\ h = <<"html", i>> /\ z = <<"hr">>
    BY DEF Marks
  <2>3. /\ Turns(Cr, 0, v, 0, v) /\ Turns(O(<<m>>), 0, v, 0, v) /\ Turns(O(<<h>>), 0, v, 0, v)
        /\ Turns(O(<<z>>), 0, v, 0, v) /\ Turns(<< >>, 0, v, 0, v)
    BY TurnsCr, TurnsMark, TurnsNone
  <2> HIDE DEF v
  <2>4. /\ Turns(O(<<m>>) \o Cr, 0, v, 0, v) /\ Turns(Cr \o O(<<h>>) \o Cr, 0, v, 0, v)
        /\ Turns(Cr \o O(<<z>>) \o Cr, 0, v, 0, v)
    BY <2>3, TurnsBoth
  <2>5. \/ Calls(i, TRUE) = When(~Has("SKIP_HTML"), O(<<h>>))
        \/ Calls(i, TRUE) = Cr
        \/ Calls(i, TRUE) = O(<<m>>) \o Cr
        \/ Calls(i, TRUE) = Cr \o O(<<z>>) \o Cr
        \/ Calls(i, TRUE) = When(~Has("SKIP_HTML"), Cr \o O(<<h>>) \o Cr)
    BY <1>4, <2>2 DEF In, Calls, Lists, Items
  <2>6. Turns(Calls(i, TRUE), 0, v, 0, v)
    BY <2>3, <2>4, <2>5 DEF When
  <2> QED BY <2>1, <2>6 DEF v
<1> QED
  BY <1>1, <1>2, <1>3, <1>4 DEF In, Leaves

\* The two visits of any other node but an image: the first leaves open what
\* stands inside the node, and the second closes just that.
LEMMA NodeTurns ==
  ASSUME NEW i \in Nat, KindOf(i) \in Kinds, ~In(i, Leaves), ~In(i, {"Image"}),
         NEW x \in Seq(Tags), NEW w, NEW b \in BOOLEAN, In(i, {"Notes"}) => b
  PROVE  /\ Turns(Calls(i, TRUE), 0, View(x, w, b), 0, View(Within(i, x), w, b))
         /\ Turns(Calls(i, FALSE), 0, View(Within(i, x), w, b), 0, View(x, w, b))
<1> DEFINE Goal == /\ Turns(Calls(i, TRUE), 0, View(x, w, b), 0, View(Within(i, x), w, b))
                   /\ Turns(Calls(i, FALSE), 0, View(Within(i, x), w, b), 0, View(x, w, b))
<1>1. CASE In(i, {"Emph", "Strong", "Del"})
  <2>1. PICK e \in Inside : /\ e = CASE In(i, {"Emph"}) -> "em" [] In(i, {"Strong"}) -> "strong"
                                     [] In(i, {"Del"}) -> "del"
    BY <1>1 DEF Inside, In
  <2>2. /\ Calls(i, TRUE) = Span(e, TRUE) /\ Calls(i, FALSE) = Span(e, FALSE)
        /\ Within(i, x) = Append(x, e)
    BY <1>1, <2>1 DEF In, Calls, Within, Lists, Items
  <2> QED BY <2>2, SpanTurns
<1>2. CASE In(i, {"Link", "Unsafe"} \cup NoteRefs)
  <2>1. /\ Calls(i, TRUE) = LinkCalls(i, TRUE) /\ Calls(i, FALSE) = LinkCalls(i, FALSE)
        /\ Within(i, x) = IF NeedSkipLink(i) THEN Append(x, "tt")
                          ELSE IF In(i, NoteRefs) THEN x ELSE Append(x, "a")
    BY <1>2 DEF In, Calls, Within, Lists, Items
  <2> QED BY <2>1, LinkTurns
<1>3. CASE In(i, {"Paragraph"})
  <2>1. /\ Calls(i, TRUE) = ParagraphCalls(i, TRUE) /\ Calls(i, FALSE) = ParagraphCalls(i, FALSE)
        /\ Within(i, x) = IF SkipParagraphTags(i) THEN x ELSE Append(x, "p")
    BY <1>3 DEF In, Calls, Within, Lists, Items
  <2> QED BY <2>1, ParagraphTurns
<1>4. CASE In(i, {"BlockQuote", "Table", "TableHead", "TableBody", "TableRow"})
  <2>1. PICK e \in Inside : e = CASE In(i, {"BlockQuote"}) -> "blockquote"
                                  [] In(i, {"Table"}) -> "table" [] In(i, {"TableHead"}) -> "thead"
                                  [] In(i, {"TableBody"}) -> "tbody" [] In(i, {"TableRow"}) -> "tr"
    BY <1>4 DEF Inside, In
  <2>2. /\ Calls(i, TRUE) = BoxCalls(i, e, TRUE) /\ Calls(i, FALSE) = BoxCalls(i, e, FALSE)
        /\ Within(i, x) = Append(x, e)
    BY <1>4, <2>1 DEF In, Calls, Within, Lists, Items
  <2> QED BY <2>2, BoxTurns
<1>5. CASE In(i, {"Heading"})
  <2>1. /\ Calls(i, TRUE) = HeadingCalls(i, TRUE) /\ Calls(i, FALSE) = HeadingCalls(i, FALSE)
        /\ Within(i, x) = Append(x, "h")
    BY <1>5 DEF In, Calls, Within, Lists, Items
  <2> QED BY <2>1, HeadingTurns
<1>6. CASE In(i, Lists)
  <2>1. /\ Calls(i, TRUE) = ListCalls(i, TRUE) /\ Calls(i, FALSE) = ListCalls(i, FALSE)
        /\ Within(i, x) = IF In(i, {"Notes"}) THEN Append(Append(x, "div"), "ol")
                          ELSE Append(x, ListElement(i))
    BY <1>6 DEF In, Calls, Within, Lists, Items
  <2> QED BY <2>1, ListTurns
<1>7. CASE In(i, Items)
  <2>1. /\ Calls(i, TRUE) = ItemCalls(i, TRUE) /\ Calls(i, FALSE) = ItemCalls(i, FALSE)
        /\ Within(i, x) = Append(x, ItemElement(i))
    BY <1>7 DEF In, Calls, Within, Lists, Items
  <2> QED BY <2>1, ItemTurns
<1>8. CASE In(i, {"TableCell"})
  <2>1. /\ Calls(i, TRUE) = CellCalls(i, TRUE) /\ Calls(i, FALSE) = CellCalls(i, FALSE)
        /\ Within(i, x) = Append(x, "td")
    BY <1>8 DEF In, Calls, Within, Lists, Items
  <2> QED BY <2>1, CellTurns
<1>9. CASE In(i, {"Document"})
  <2>1. Calls(i, TRUE) = << >> /\ Calls(i, FALSE) = << >> /\ Within(i, x) = x
    BY <1>9 DEF In, Calls, Within, Lists, Items
  <2> QED BY <2>1, TurnsNone
<1> QED
  BY <1>1, <1>2, <1>3, <1>4, <1>5, <1>6, <1>7, <1>8, <1>9
     DEF In, Kinds, Blocks, Inlines, Leaves, Lists, Items

\* A footnote reference writes something.
LEMMA NoteRefBegins ==
  ASSUME NEW i \in Nat, In(i, NoteRefs), NEW x \in Seq(Tags), NEW w, NEW b \in BOOLEAN
  PROVE  Turns(Calls(i, TRUE), 0, View(x, w, b), 0, View(Within(i, x), w, TRUE))
<1>1. /\ Calls(i, TRUE) = LinkCalls(i, TRUE)
      /\ Within(i, x) = IF NeedSkipLink(i) THEN Append(x, "tt")
                        ELSE IF In(i, NoteRefs) THEN x ELSE Append(x, "a")
  BY DEF In, Calls, Within, Lists, Items
<1> QED
  BY <1>1, LinkTurns

(***************************************************************************)
(* The document: the nodes are in preorder, so that a node and those under *)
(* it are consecutive.                                                     *)
(***************************************************************************)
Node == [kind : Kinds, parent : Nat, tight : BOOLEAN]
IsTree(ns) ==
  /\ ns \in Seq(Node) /\ Len(ns) >= 1
  /\ ns[1].kind = "Document" /\ ns[1].parent = 0
  /\ \A i \in 2..Len(ns) :
       ns[i].parent \in 1..i - 1 /\ ns[i].kind \in Under(ns[ns[i].parent].kind)
  /\ \A i, j \in 2..Len(ns) : ns[j].parent < i /\ i < j => ns[i].parent >= ns[j].parent
  /\ \A i \in 2..Len(ns) : ns[ns[i].parent].kind = "Image" => ns[i].parent = i - 1
  /\ \A i \in 2..Len(ns) : ns[i].kind = "Notes" => \E j \in 1..i - 1 : ns[j].kind \in NoteRefs

\* The elements the page stands in.
Base == IF Has("COMPLETE_PAGE") THEN <<"html", "body">> ELSE << >>

\* The elements open outside of each node.
Stacked(stack) ==
  /\ stack \in Seq(Seq(Tags)) /\ Len(stack) = Len(nodes) /\ stack[1] = Base
  /\ \A i \in 2..Len(nodes) : stack[i] = Within(Parent(i), stack[Parent(i)])

\* The texts and footnote references up to node n that the renderer shows.
HiddenText(i) == In(Parent(i), {"Image"}) /\ Has("SKIP_IMAGES")
TextsTo(n) == {i \in DOMAIN nodes : i <= n /\ In(i, Shown) /\ ~HiddenText(i)}
Noted(n) == \E i \in DOMAIN nodes : i <= n /\ In(i, NoteRefs)
Viewed(x, n) == View(x, TextsTo(n), Noted(n))

\* Node i and those under it are the nodes i to v.
Ends(i, v) ==
  /\ v \in i..Len(nodes) /\ \A j \in i + 1..v : Parent(j) >= i
  /\ v < Len(nodes) => Parent(v + 1) < i

\* The levels of disabled tags under node i.
Muted(i) == IF In(i, {"Image"}) THEN 1 ELSE 0

\* The walk enters node a: everything before it is written.
Enters(stack, a, s) ==
  /\ a \in DOMAIN nodes /\ ~HiddenText(a)
  /\ Stands(s, Muted(Parent(a)), Viewed(stack[a], a - 1))

\* The walk is about to leave node a: everything up to the last node under it
\* is written.
Departs(stack, a, s) ==
  /\ a \in DOMAIN nodes /\ ~HiddenText(a) /\ ~In(a, Leaves) /\ ~Skips(a)
  /\ \E v \in DOMAIN nodes :
       Ends(a, v) /\ Stands(s, Muted(a), Viewed(Within(a, stack[a]), v))

\* What is written in each phase, the elements outside of each node being given.
Walked(stack) ==
  /\ phase \in {"parse", "walk", "footer", "ended"} /\ entering \in BOOLEAN
  /\ phase = "parse" => at = 1 /\ entering = TRUE /\ Stands(r, 0, View(<< >>, {}, FALSE))
  /\ phase = "walk" => IF entering THEN Enters(stack, at, r) ELSE Departs(stack, at, r)
  /\ phase = "footer" => Stands(r, 0, Viewed(Base, Len(nodes)))
  /\ phase = "ended" => Stands(r, 0, Viewed(<< >>, Len(nodes)))

\* Only known kinds are put under a node, and never a document.
LEMMA UnderKnown ==
  ASSUME NEW a, NEW c \in Under(a)
  PROVE  /\ c \in Kinds /\ c # "Document" /\ a \notin Leaves
         /\ a = "Image" => c \in {"Text", "Fraction"}
BY DEF Under, Kinds, Blocks, Inlines, Items, Leaves

\* The facts of a tree that concern one node.
LEMMA NodeFacts ==
  ASSUME IsTree(nodes), NEW i \in DOMAIN nodes
  PROVE  /\ DOMAIN nodes = 1..Len(nodes) /\ Len(nodes) \in Nat /\ i \in Nat /\ i # 0
         /\ nodes[i] \in Node /\ KindOf(i) = nodes[i].kind /\ KindOf(i) \in Kinds
         /\ Parent(i) \in Nat /\ Parent(i) < i
         /\ Parent(i) = 0 <=> i = 1
         /\ i # 1 => Parent(i) \in DOMAIN nodes /\ KindOf(i) \in Under(KindOf(Parent(i)))
<1>1. DOMAIN nodes = 1..Len(nodes) /\ Len(nodes) \in Nat /\ Len(nodes) >= 1
  BY LenProperties DEF IsTree
<1>2. nodes[i] \in Node
  <2>1. i \in 1..Len(nodes) /\ nodes \in Seq(Node)
    BY <1>1 DEF IsTree
  <2> QED BY <2>1, ElementOfSeq
<1>3. i \in Nat /\ i # 0 /\ KindOf(i) = nodes[i].kind /\ KindOf(i) \in Kinds
  BY <1>1, <1>2 DEF KindOf, Node
<1>4. CASE i = 1
  <2>1. Parent(i) = 0
    BY <1>4 DEF IsTree, Parent
  <2> QED BY <1>1, <1>2, <1>3, <1>4, <2>1
<1>5. CASE i # 1
  <2>1. i \in 2..Len(nodes)
    BY <1>1, <1>5
  <2>2. Parent(i) \in 1..i - 1 /\ nodes[i].kind \in Under(nodes[Parent(i)].kind)
    BY <2>1 DEF IsTree, Parent
  <2>3. Parent(i) \in DOMAIN nodes /\ Parent(i) \in Nat /\ Parent(i) < i /\ Parent(i) # 0
    BY <1>1, <1>3, <2>2
  <2>4. KindOf(i) \in Under(KindOf(Parent(i)))
    BY <1>3, <2>2, <2>3 DEF KindOf
  <2> QED BY <1>1, <1>2, <1>3, <1>5, <2>2, <2>3, <2>4
<1> QED
  BY <1>4, <1>5

\* A node with something under it is no leaf.
LEMMA LeavesBare ==
  ASSUME IsTree(nodes), NEW i \in DOMAIN nodes, i # 1
  PROVE  /\ ~In(Parent(i), Leaves) /\ ~In(i, {"Document"})
         /\ In(Parent(i), {"Image"}) => In(i, {"Text", "Fraction"}) /\ In(i, Leaves)
BY NodeFacts, UnderKnown DEF In, Leaves

\* One step of the parsers: a node at the end, on the right edge.
LEMMA GrowFacts ==
  ASSUME IsTree(nodes), NEW c \in config.kinds, NEW p \in Nat, NEW tight \in BOOLEAN,
         Grow(c, p, tight)
  PROVE  \E new \in Node :
           /\ new.kind = c /\ new.parent = p
           /\ nodes \in Seq(Node) /\ Len(nodes) \in Nat /\ Len(nodes) >= 1
           /\ nodes' = Append(nodes, new) /\ p \in 1..Len(nodes)
           /\ c \in Under(nodes[p].kind)
           /\ \A j \in 1..Len(nodes) : j > p => nodes[j].parent >= p
           /\ nodes[p].kind = "Image" => p = Len(nodes)
           /\ c = "Notes" => \E j \in 1..Len(nodes) : nodes[j].kind \in NoteRefs
<1> DEFINE n == Len(nodes)
           new == [kind |-> c, parent |-> p, tight |-> tight]
<1>1. nodes \in Seq(Node) /\ n \in Nat /\ DOMAIN nodes = 1..n /\ n >= 1
  BY LenProperties DEF IsTree
<1>2. /\ p \in 1..n /\ nodes' = Append(nodes, new) /\ c \in Under(nodes[p].kind)
      /\ \A j \in 1..n : j > p => nodes[j].parent >= p
      /\ nodes[p].kind = "Image" => p = n
      /\ c = "Notes" => \E j \in 1..n : nodes[j].kind \in NoteRefs
  BY <1>1 DEF Grow, Parent
<1>3. new \in Node /\ new.kind = c /\ new.parent = p
  BY <1>2, UnderKnown DEF Node
<1> HIDE DEF new, n
<1> QED
  BY <1>1, <1>2, <1>3 DEF n

\* A node added on the right edge of a tree leaves a tree.
LEMMA GrownTree ==
  ASSUME NEW ns, IsTree(ns), NEW new \in Node, NEW ms, ms = Append(ns, new),
         NEW n \in Nat, n = Len(ns), NEW p \in 1..n, new.parent = p,
         new.kind \in Under(ns[p].kind),
         \A j \in 1..n : j > p => ns[j].parent >= p,
         ns[p].kind = "Image" => p = n,
         new.kind = "Notes" => \E j \in 1..n : ns[j].kind \in NoteRefs
  PROVE  IsTree(ms)
<1>1. /\ ns \in Seq(Node) /\ n >= 1
      /\ ns[1].kind = "Document" /\ ns[1].parent = 0
      /\ \A i \in 2..n : ns[i].parent \in 1..i - 1 /\ ns[i].kind \in Under(ns[ns[i].parent].kind)
      /\ \A i, j \in 2..n : ns[j].parent < i /\ i < j => ns[i].parent >= ns[j].parent
      /\ \A i \in 2..n : ns[ns[i].parent].kind = "Image" => ns[i].parent = i - 1
      /\ \A i \in 2..n : ns[i].kind = "Notes" => \E j \in 1..i - 1 : ns[j].kind \in NoteRefs
  BY DEF IsTree
<1>2. /\ ms \in Seq(Node) /\ Len(ms) = n + 1 /\ ms[n + 1] = new
      /\ \A i \in 1..n : ms[i] = ns[i]
  BY <1>1
<1>3. ms[1].kind = "Document" /\ ms[1].parent = 0
  BY <1>1, <1>2
<1>4. ASSUME NEW i \in 2..n + 1
      PROVE  /\ ms[i].parent \in 1..i - 1 /\ ms[i].kind \in Under(ms[ms[i].parent].kind)
             /\ ms[ms[i].parent].kind = "Image" => ms[i].parent = i - 1
             /\ ms[i].kind = "Notes" => \E j \in 1..i - 1 : ms[j].kind \in NoteRefs
  <2>1. CASE i = n + 1
    <3>1. ms[i] = new /\ i - 1 = n /\ ms[p] = ns[p]
      BY <1>2, <2>1
    <3>2. ms[ms[i].parent].kind = ns[p].kind
      BY <3>1
    <3>3. ms[i].kind = "Notes" => \E j \in 1..n : ms[j].kind \in NoteRefs
      BY <1>2, <3>1
    <3> QED BY <3>1, <3>2, <3>3
  <2>2. CASE i # n + 1
    <3>1. i \in 2..n /\ i \in 1..n
      BY <2>2
    <3>2. PICK q \in 1..i - 1 : q = ns[i].parent
      BY <1>1, <3>1
    <3>3. ms[i] = ns[i] /\ q \in 1..n /\ \A j \in 1..i - 1 : ms[j] = ns[j]
      BY <1>2, <3>1
    <3>4. ms[ms[i].parent].kind = ns[ns[i].parent].kind
      BY <3>2, <3>3
    <3>5. ms[i].kind = "Notes" => \E j \in 1..i - 1 : ms[j].kind \in NoteRefs
      BY <1>1, <3>1, <3>3
    <3> QED BY <1>1, <3>1, <3>3, <3>4, <3>5
  <2> QED BY <2>1, <2>2
<1>5. ASSUME NEW i \in 2..n + 1, NEW j \in 2..n + 1, ms[j].parent < i, i < j
      PROVE  ms[i].parent >= ms[j].parent
  <2>1. i \in 2..n /\ i \in 1..n /\ ms[i] = ns[i]
    BY <1>2, <1>5
  <2>2. CASE j = n + 1
    BY <1>2, <1>5, <2>1, <2>2
  <2>3. CASE j # n + 1
    <3>1. j \in 2..n /\ ms[j] = ns[j]
      BY <1>2, <2>3
    <3> QED BY <1>1, <1>5, <2>1, <3>1
  <2> QED BY <2>2, <2>3
<1>6. Len(ms) >= 1 /\ 2..Len(ms) = 2..n + 1
  BY <1>2
<1>7. \A i \in 2..Len(ms) : ms[i].parent \in 1..i - 1 /\ ms[i].kind \in Under(ms[ms[i].parent].kind)
  BY <1>4, <1>6
<1>8. \A i, j \in 2..Len(ms) : ms[j].parent < i /\ i < j => ms[i].parent >= ms[j].parent
  BY <1>5, <1>6
<1>9. /\ \A i \in 2..Len(ms) : ms[ms[i].parent].kind = "Image" => ms[i].parent = i - 1
      /\ \A i \in 2..Len(ms) : ms[i].kind = "Notes" => \E j \in 1..i - 1 : ms[j].kind \in NoteRefs
  BY <1>4, <1>6
<1> QED
  BY <1>2, <1>3, <1>6, <1>7, <1>8, <1>9 DEF IsTree

\* The parsers build a tree.
LEMMA GrowTree ==
  ASSUME IsTree(nodes), NEW c \in config.kinds, NEW p \in Nat, NEW tight \in BOOLEAN,
         Grow(c, p, tight)
  PROVE  IsTree(nodes')
<1>1. PICK new \in Node :
        /\ new.kind = c /\ new.parent = p /\ Len(nodes) \in Nat
        /\ nodes' = Append(nodes, new) /\ p \in 1..Len(nodes)
        /\ c \in Under(nodes[p].kind)
        /\ \A j \in 1..Len(nodes) : j > p => nodes[j].parent >= p
        /\ nodes[p].kind = "Image" => p = Len(nodes)
        /\ c = "Notes" => \E j \in 1..Len(nodes) : nodes[j].kind \in NoteRefs
  BY GrowFacts
<1>2. PICK n \in Nat : n = Len(nodes)
  BY <1>1
<1>3. PICK ns, ms : ns = nodes /\ ms = nodes'
  OBVIOUS
<1>4. IsTree(ms)
  BY <1>1, <1>2, <1>3, GrownTree
<1> QED
  BY <1>3, <1>4

\* What the order of the nodes says of their parents.
LEMMA Preorder ==
  ASSUME IsTree(nodes)
  PROVE  /\ DOMAIN nodes = 1..Len(nodes) /\ Len(nodes) \in Nat /\ Len(nodes) >= 1
         /\ Parent(1) = 0
         /\ \A i \in 2..Len(nodes) : Parent(i) \in 1..i - 1
         /\ \A i, j \in 2..Len(nodes) : Parent(j) < i /\ i < j => Parent(i) >= Parent(j)
BY LenProperties DEF IsTree, Parent

\* A node with nothing under it ends itself.
LEMMA EndsAlone ==
  ASSUME IsTree(nodes), NEW i \in DOMAIN nodes, ~HasChild(i)
  PROVE  Ends(i, i)
<1>1. ASSUME i < Len(nodes)  PROVE Parent(i + 1) < i
  <2>1. i + 1 \in 2..Len(nodes) /\ Parent(i + 1) # i /\ i \in Nat
    BY <1>1, Preorder DEF HasChild
  <2>2. Parent(i + 1) \in 1..(i + 1) - 1
    BY <2>1, Preorder
  <2> QED BY <2>1, <2>2
<1> QED
  BY <1>1, Preorder DEF Ends

\* An image and its text end at the text.
LEMMA EndsImage ==
  ASSUME IsTree(nodes), NEW i \in DOMAIN nodes, In(i, {"Image"}), HasChild(i)
  PROVE  Ends(i, i + 1) /\ i + 1 \in DOMAIN nodes /\ Parent(i + 1) = i
<1>1. /\ DOMAIN nodes = 1..Len(nodes) /\ i \in Nat /\ Len(nodes) \in Nat
      /\ i + 1 \in DOMAIN nodes /\ Parent(i + 1) = i /\ i + 1 # 1
  BY Preorder DEF HasChild
<1>2. ASSUME i + 1 < Len(nodes)  PROVE Parent(i + 2) < i
  <2>1. i + 2 \in 2..Len(nodes) /\ i + 2 \in DOMAIN nodes /\ i + 2 # 1
    BY <1>1, <1>2
  <2>2. Parent(i + 2) \in 1..(i + 2) - 1
    BY <2>1, Preorder
  <2>3. Parent(i + 2) # i + 1
    <3>1. In(i + 1, Leaves)
      BY <1>1, LeavesBare
    <3> QED BY <2>1, <3>1, LeavesBare
  <2>4. Parent(i + 2) # i
    <3>1. nodes[i].kind = "Image"
      BY NodeFacts DEF In
    <3>2. Parent(i + 2) = i => i = (i + 2) - 1
      BY <2>1, <3>1 DEF IsTree, Parent
    <3> QED BY <1>1, <3>2
  <2> QED BY <1>1, <2>2, <2>3, <2>4
<1>3. \A j \in i + 1..i + 1 : j = i + 1
  BY <1>1
<1>4. (i + 1) + 1 = i + 2
  BY <1>1
<1> QED
  BY <1>1, <1>2, <1>3, <1>4 DEF Ends

\* Where the walk goes when node i and those under it are done: to the node
\* after them, if it is a sibling, and otherwise back to the parent, which
\* ends there too.
LEMMA Onward ==
  ASSUME IsTree(nodes), NEW i \in DOMAIN nodes, NEW v, Ends(i, v)
  PROVE  /\ v \in DOMAIN nodes /\ v \in Nat /\ i <= v
         /\ i = 1 => v = Len(nodes)
         /\ NextOf(i) # 0 =>
              NextOf(i) = v + 1 /\ v + 1 \in DOMAIN nodes /\ Parent(v + 1) = Parent(i)
         /\ i # 1 /\ NextOf(i) = 0 => Ends(Parent(i), v)
<1> DEFINE after == {j \in Siblings(i) : j > i}
<1>1. PICK n \in Nat : n = Len(nodes)
  BY Preorder
<1>2. /\ DOMAIN nodes = 1..n /\ i \in 1..n
      /\ \A j \in 1..n : Parent(j) \in Nat /\ Parent(j) < j
      /\ \A j, l \in 2..n : Parent(l) < j /\ j < l => Parent(j) >= Parent(l)
  <2>1. \A j \in DOMAIN nodes : Parent(j) \in Nat /\ Parent(j) < j
    BY NodeFacts
  <2> QED BY <1>1, <2>1, Preorder
<1>3. v \in i..n /\ (\A j \in i + 1..v : Parent(j) >= i) /\ (v < n => Parent(v + 1) < i)
  BY <1>1 DEF Ends
<1>4. i \in 1..n /\ i \in Nat /\ v \in 1..n /\ v \in Nat /\ i <= v /\ v <= n
  BY <1>2, <1>3
<1>5. NextOf(i) = IF after = {} THEN 0 ELSE CHOOSE j \in after : \A l \in after : j <= l
  BY DEF NextOf
<1>6. \A j : j \in after <=> j \in 1..n /\ j > i /\ Parent(j) = Parent(i)
  BY <1>2 DEF Siblings
<1> HIDE DEF after
<1>7. PICK a \in Nat : a = Parent(i) /\ a < i /\ (i # 1 => a \in 1..n)
  <2>1. i # 1 => Parent(i) \in 1..n
    BY <1>2, NodeFacts
  <2> QED BY <1>2, <2>1
<1>8. i = 1 => v = n
  <2>1. ASSUME i = 1, v < n  PROVE FALSE
    <3>1. v + 1 \in DOMAIN nodes /\ v + 1 # 1
      BY <1>2, <1>4, <2>1
    <3>2. Parent(v + 1) # 0 /\ Parent(v + 1) \in Nat
      BY <3>1, NodeFacts
    <3> QED BY <1>3, <2>1, <3>2
  <2> QED BY <1>4, <2>1
<1>9. ASSUME NEW j \in after  PROVE j \in 1..n /\ j \in Nat /\ Parent(j) = a /\ j > v
  <2>1. j \in 1..n /\ j > i /\ Parent(j) = a
    BY <1>6, <1>7
  <2>2. ASSUME j <= v  PROVE FALSE
    <3>1. j \in i + 1..v
      BY <1>4, <2>1, <2>2
    <3>2. Parent(j) >= i
      BY <1>3, <3>1
    <3> QED BY <1>4, <1>7, <2>1, <3>2
  <2> QED BY <1>4, <2>1, <2>2
<1>10. CASE v < n /\ Parent(v + 1) = a
  <2>1. v + 1 \in 1..n /\ v + 1 > i /\ v + 1 # 0
    BY <1>4, <1>10
  <2>2. v + 1 \in after
    BY <1>6, <1>7, <1>10, <2>1
  <2>3. PICK m : m = CHOOSE j \in after : \A l \in after : j <= l
    OBVIOUS
  <2>4. \A l \in after : v + 1 <= l
    BY <1>4, <1>9
  <2>5. m \in after /\ \A l \in after : m <= l
    BY <2>2, <2>3, <2>4
  <2>6. m = v + 1
    <3>1. m <= v + 1 /\ v + 1 <= m /\ m \in Nat
      BY <1>9, <2>2, <2>4, <2>5
    <3> QED BY <1>4, <3>1
  <2>7. NextOf(i) = v + 1
    BY <1>5, <2>2, <2>3, <2>6
  <2> QED BY <1>1, <1>2, <1>4, <1>7, <1>8, <1>10, <2>1, <2>7
<1>11. CASE ~(v < n /\ Parent(v + 1) = a)
  <2>1. ASSUME v < n, i # 1  PROVE Parent(v + 1) \in Nat /\ Parent(v + 1) < a
    <3>1. v + 1 \in 2..n /\ v + 1 \in 1..n /\ i \in 2..n /\ i < v + 1
      BY <1>4, <2>1
    <3>2. PICK b \in Nat : b = Parent(v + 1)
      BY <1>2, <3>1
    <3>3. b < i /\ b # a
      BY <1>3, <1>11, <2>1, <3>2
    <3>4. a >= b
      BY <1>2, <1>7, <3>1, <3>2, <3>3
    <3> QED BY <1>7, <3>2, <3>3, <3>4
  <2>2. ASSUME NEW j \in after  PROVE FALSE
    <3>1. j \in 1..n /\ j \in Nat /\ Parent(j) = a /\ j > v
      BY <1>9
    <3>2. v < n /\ j # v + 1
      BY <1>4, <1>11, <3>1
    <3>3. v + 1 < j /\ v + 1 \in 2..n /\ j \in 2..n /\ i # 1 /\ a < v + 1
      BY <1>4, <1>7, <1>8, <3>1, <3>2
    <3>4. PICK b \in Nat : b = Parent(v + 1) /\ b < a
      BY <2>1, <3>2, <3>3
    <3>5. b >= a
      BY <1>2, <3>1, <3>3, <3>4
    <3> QED BY <1>7, <3>4, <3>5
  <2>3. NextOf(i) = 0
    BY <1>5, <2>2
  <2>4. ASSUME i # 1  PROVE Ends(a, v)
    <3>1. i \in 2..n /\ a \in 1..n
      BY <1>4, <1>7, <2>4, <1>2
    <3>2. ASSUME NEW j \in a + 1..v  PROVE Parent(j) >= a
      <4>1. j \in 2..n /\ j \in 1..n /\ j \in Nat
        BY <1>4, <3>1
      <4>2. PICK b \in Nat : b = Parent(j)
        BY <1>2, <4>1
      <4>3. CASE j < i
        <5>1. a < j
          BY <1>7, <4>1
        <5>2. Parent(j) >= Parent(i)
          BY <1>2, <1>7, <3>1, <4>1, <4>3, <5>1
        <5> QED BY <1>7, <5>2
      <4>4. CASE j = i
        BY <1>7, <4>4
      <4>5. CASE j > i
        <5>1. j \in i + 1..v
          BY <1>4, <4>1, <4>5
        <5>2. b >= i
          BY <1>3, <4>2, <5>1
        <5> QED BY <1>4, <1>7, <4>2, <5>2
      <4> QED BY <1>4, <4>1, <4>3, <4>4, <4>5
    <3>3. v \in a..n
      BY <1>4, <1>7
    <3>4. v < n => Parent(v + 1) < a
      BY <2>1, <2>4
    <3> QED BY <1>1, <3>2, <3>3, <3>4 DEF Ends
  <2> QED BY <1>1, <1>2, <1>4, <1>7, <1>8, <2>3, <2>4
<1> QED
  BY <1>10, <1>11

\* The texts and references up to a node, and up to the one before it.
LEMMA TextsNext ==
  ASSUME IsTree(nodes), NEW i \in DOMAIN nodes
  PROVE  /\ ~HiddenText(i) => TextsTo(i) = TextsTo(i - 1) \cup TextsAtNode(i)
         /\ HiddenText(i) \/ TextsAtNode(i) = {} => TextsTo(i) = TextsTo(i - 1)
         /\ \A m \in TextsTo(i - 1) : m < i
         /\ Noted(i - 1) => Noted(i)
         /\ Noted(i) => Noted(i - 1) \/ In(i, NoteRefs)
         /\ In(i, NoteRefs) => Noted(i)
<1>1. i \in Nat /\ \A j \in DOMAIN nodes : j \in Nat
  BY NodeFacts
<1>2. \A j \in DOMAIN nodes : (j <= i <=> j <= i - 1 \/ j = i)
  BY <1>1
<1>3. \A j \in DOMAIN nodes : j <= i - 1 => j < i
  BY <1>1
<1>4. i <= i
  BY <1>1
<1> QED
  BY <1>2, <1>3, <1>4 DEF TextsTo, TextsAtNode, Noted

\* A list of notes comes after a reference.
LEMMA NotesNoted ==
  ASSUME IsTree(nodes), NEW i \in DOMAIN nodes, In(i, {"Notes"})
  PROVE  Noted(i - 1)
<1>1. i \in Nat /\ i # 0 /\ KindOf(i) = nodes[i].kind /\ DOMAIN nodes = 1..Len(nodes)
      /\ Len(nodes) \in Nat
  BY NodeFacts
<1>2. nodes[i].kind = "Notes"
  BY <1>1 DEF In
<1>3. i # 1
  BY <1>2 DEF IsTree
<1>4. i \in 2..Len(nodes)
  BY <1>1, <1>3
<1>5. PICK j \in 1..i - 1 : nodes[j].kind \in NoteRefs
  BY <1>2, <1>4 DEF IsTree
<1>6. j \in DOMAIN nodes /\ j <= i - 1 /\ j # 0
  BY <1>1, <1>4, <1>5
<1>7. In(j, NoteRefs)
  BY <1>5, <1>6 DEF In, KindOf
<1> QED
  BY <1>6, <1>7 DEF Noted

\* What is noted up to a node is noted up to a later one.
LEMMA NotedOn ==
  ASSUME IsTree(nodes), NEW i \in DOMAIN nodes, NEW v \in DOMAIN nodes, i <= v, Noted(i - 1)
  PROVE  Noted(v)
<1>1. i \in Nat /\ v \in Nat /\ \A j \in DOMAIN nodes : j \in Nat
  BY NodeFacts
<1>2. \A j \in DOMAIN nodes : j <= i - 1 => j <= v
  BY <1>1
<1> QED
  BY <1>2 DEF Noted

\* Where nothing hides node i, nothing hides or mutes what is around it.
LEMMA ParentShown ==
  ASSUME IsTree(nodes), NEW i \in DOMAIN nodes, i # 1, ~HiddenText(i)
  PROVE  LET p == Parent(i) IN
         p \in DOMAIN nodes /\ ~In(p, Leaves) /\ ~Skips(p) /\ ~HiddenText(p)
<1> DEFINE p == Parent(i)
<1>1. p \in DOMAIN nodes /\ ~In(p, Leaves)
  BY NodeFacts, LeavesBare
<1>2. ~Skips(p)
  BY DEF HiddenText, Skips
<1> HIDE DEF p
<1>3. ~In(Parent(p), {"Image"})
  <2>1. CASE p = 1
    <3>1. Parent(p) = 0
      BY <2>1 DEF IsTree, Parent
    <3> QED BY <3>1 DEF In, KindOf
  <2>2. CASE p # 1
    BY <1>1, <2>2, LeavesBare
  <2> QED BY <2>1, <2>2
<1> QED
  BY <1>1, <1>2, <1>3 DEF HiddenText, p

\* Tags are only disabled in an image.
LEMMA MutedLeaf ==
  ASSUME IsTree(nodes), NEW i \in DOMAIN nodes
  PROVE  Muted(Parent(i)) = 0 \/ In(i, {"Text", "Fraction"})
<1>1. CASE i = 1
  <2>1. Parent(i) = 0
    BY <1>1 DEF IsTree, Parent
  <2> QED BY <2>1 DEF In, KindOf, Muted
<1>2. CASE i # 1
  BY <1>2, LeavesBare DEF Muted
<1> QED
  BY <1>1, <1>2

\* Where the walk is after node i, which ends at v.
LEMMA AfterNode ==
  ASSUME IsTree(nodes), NEW stack, Stacked(stack), NEW i \in DOMAIN nodes, ~HiddenText(i),
         NEW v, Ends(i, v), NEW s, Stands(s, Muted(Parent(i)), Viewed(stack[i], v))
  PROVE  /\ i = 1 => Stands(s, 0, Viewed(Base, Len(nodes)))
         /\ i # 1 /\ NextOf(i) # 0 => Enters(stack, NextOf(i), s)
         /\ i # 1 /\ NextOf(i) = 0 => Departs(stack, Parent(i), s)
<1>1. /\ v \in DOMAIN nodes /\ v \in Nat /\ i <= v /\ (i = 1 => v = Len(nodes))
      /\ NextOf(i) # 0 => /\ NextOf(i) = v + 1 /\ v + 1 \in DOMAIN nodes
                          /\ Parent(v + 1) = Parent(i)
      /\ i # 1 /\ NextOf(i) = 0 => Ends(Parent(i), v)
  BY Onward
<1>2. /\ DOMAIN nodes = 1..Len(nodes) /\ Len(nodes) \in Nat /\ i \in Nat /\ i # 0
      /\ (Parent(i) = 0 <=> i = 1)
  BY NodeFacts
<1>3. ASSUME i = 1  PROVE Stands(s, 0, Viewed(Base, Len(nodes)))
  <2>1. Muted(Parent(i)) = 0
    BY <1>2, <1>3 DEF Muted, In, KindOf
  <2>2. stack[i] = Base
    BY <1>3 DEF Stacked
  <2> QED BY <1>1, <1>3, <2>1, <2>2
<1>4. ASSUME i # 1, NextOf(i) # 0  PROVE Enters(stack, NextOf(i), s)
  <2>1. PICK m : m = v + 1 /\ m = NextOf(i) /\ m \in DOMAIN nodes /\ Parent(m) = Parent(i)
    BY <1>1, <1>4
  <2>2. i \in 2..Len(nodes) /\ m \in 2..Len(nodes) /\ m - 1 = v
    BY <1>1, <1>2, <1>4, <2>1
  <2>3. stack[m] = stack[i]
    BY <2>1, <2>2 DEF Stacked
  <2>4. ~HiddenText(m)
    BY <2>1 DEF HiddenText
  <2> QED BY <2>1, <2>2, <2>3, <2>4 DEF Enters
<1>5. ASSUME i # 1, NextOf(i) = 0  PROVE Departs(stack, Parent(i), s)
  <2>1. PICK p : p = Parent(i)
    OBVIOUS
  <2>2. p \in DOMAIN nodes /\ ~In(p, Leaves) /\ ~Skips(p) /\ ~HiddenText(p)
    BY <1>5, <2>1, ParentShown
  <2>3. i \in 2..Len(nodes)
    BY <1>2, <1>5
  <2>4. stack[i] = Within(p, stack[p])
    BY <2>1, <2>3 DEF Stacked
  <2> QED BY <1>1, <1>5, <2>1, <2>2, <2>4 DEF Departs
<1> QED
  BY <1>3, <1>4, <1>5

\* Where the walk is when it has entered node i, which may have others under it.
LEMMA InsideNode ==
  ASSUME IsTree(nodes), NEW stack, Stacked(stack), NEW i \in DOMAIN nodes, ~HiddenText(i),
         ~In(i, Leaves), ~Skips(i),
         NEW s, Stands(s, Muted(i), Viewed(Within(i, stack[i]), i))
  PROVE  /\ HasChild(i) => Enters(stack, i + 1, s)
         /\ ~HasChild(i) => Departs(stack, i, s)
<1>1. /\ DOMAIN nodes = 1..Len(nodes) /\ Len(nodes) \in Nat /\ i \in Nat /\ i # 0
  BY NodeFacts
<1>2. ASSUME HasChild(i)  PROVE Enters(stack, i + 1, s)
  <2>1. PICK m : m = i + 1
    OBVIOUS
  <2>2. m \in 2..Len(nodes) /\ m \in DOMAIN nodes /\ m - 1 = i /\ Parent(m) = i
    BY <1>1, <1>2, <2>1 DEF HasChild
  <2>3. stack[m] = Within(i, stack[i])
    BY <2>2 DEF Stacked
  <2>4. ~HiddenText(m)
    BY <2>2 DEF HiddenText, Skips
  <2> QED BY <2>1, <2>2, <2>3, <2>4 DEF Enters
<1>3. ASSUME ~HasChild(i)  PROVE Departs(stack, i, s)
  <2>1. Ends(i, i)
    BY <1>3, EndsAlone
  <2> QED BY <2>1 DEF Departs
<1> QED
  BY <1>2, <1>3

\* What the visits of node i know of it.
LEMMA VisitFacts ==
  ASSUME IsTree(nodes), NEW stack, Stacked(stack), NEW i \in DOMAIN nodes
  PROVE  /\ i \in Nat /\ KindOf(i) \in Kinds /\ stack[i] \in Seq(Tags)
         /\ Noted(i - 1) \in BOOLEAN /\ \A v : Noted(v) \in BOOLEAN
         /\ In(i, {"Image"}) =>
              /\ Muted(i) = 1 /\ ~In(i, Leaves) /\ ~In(i, Shown) /\ ~In(i, NoteRefs)
              /\ \A x : Within(i, x) = Append(x, "alt")
              /\ \A e \in BOOLEAN : Calls(i, e) = ImageCalls(i, e)
         /\ ~In(i, {"Image"}) => Muted(i) = 0 /\ ~Skips(i)
         /\ In(i, Leaves) => ~In(i, {"Image"}) /\ ~In(i, NoteRefs) /\ ~HasChild(i)
         /\ ~In(i, Leaves) => TextsAtNode(i) = {} /\ Muted(Parent(i)) = 0
<1>1. i \in Nat /\ KindOf(i) \in Kinds /\ DOMAIN nodes = 1..Len(nodes)
      /\ Len(nodes) \in Nat
  BY NodeFacts
<1>2. stack[i] \in Seq(Tags)
  <2>1. stack \in Seq(Seq(Tags)) /\ i \in 1..Len(stack)
    BY <1>1 DEF Stacked
  <2> QED BY <2>1, ElementOfSeq
<1>3. Noted(i - 1) \in BOOLEAN /\ \A v : Noted(v) \in BOOLEAN
  BY DEF Noted
<1>4. In(i, {"Image"}) =>
              /\ Muted(i) = 1 /\ ~In(i, Leaves) /\ ~In(i, Shown) /\ ~In(i, NoteRefs)
              /\ \A x : Within(i, x) = Append(x, "alt")
              /\ \A e \in BOOLEAN : Calls(i, e) = ImageCalls(i, e)
  BY DEF In, Muted, Leaves, Shown, Within, Calls, Lists, Items
<1>5. ~In(i, {"Image"}) => Muted(i) = 0 /\ ~Skips(i)
  BY DEF Muted, Skips
<1>6. In(i, Leaves) => ~In(i, {"Image"}) /\ ~In(i, NoteRefs)
  BY DEF In, Leaves
<1>7. In(i, Leaves) => ~HasChild(i)
  <2>1. HasChild(i) => i + 1 \in DOMAIN nodes /\ i + 1 # 1 /\ Parent(i + 1) = i
    BY <1>1, NodeFacts DEF HasChild
  <2> QED BY <2>1, LeavesBare
<1>8. ~In(i, Leaves) => TextsAtNode(i) = {}
  BY DEF In, Leaves, TextsAtNode, Shown
<1>9. ~In(i, Leaves) => Muted(Parent(i)) = 0
  <2>1. In(i, {"Text", "Fraction"}) => In(i, Leaves)
    BY DEF In, Leaves
  <2> QED BY <2>1, MutedLeaf
<1> QED
  BY <1>1, <1>2, <1>3, <1>4, <1>5, <1>6, <1>7, <1>8, <1>9

\* The walk enters a leaf, or an image it leaves out, and is done with it.
LEMMA EnterAndLeave ==
  ASSUME IsTree(nodes), NEW stack, Stacked(stack), NEW i, Enters(stack, i, r),
         Skips(i) \/ In(i, Leaves)
  PROVE  \E v : Ends(i, v) /\ Stands(Ran(Calls(i, TRUE)), Muted(Parent(i)), Viewed(stack[i], v))
<1>0. i \in DOMAIN nodes /\ ~HiddenText(i)
  BY DEF Enters
<1> DEFINE d == Muted(Parent(i))
           t == Ran(Calls(i, TRUE))
<1>1. Stands(r, d, View(stack[i], TextsTo(i - 1), Noted(i - 1)))
  BY DEF Enters, Viewed
<1>2. CASE In(i, Leaves)
  <2>1. PICK x, w, b : x = stack[i] /\ w = TextsTo(i - 1) /\ b = Noted(i - 1)
    OBVIOUS
  <2>2. /\ x \in Seq(Tags) /\ b \in BOOLEAN /\ (\A m \in w : m < i) /\ i \in Nat
        /\ ~HasChild(i) /\ (d = 0 \/ In(i, {"Text", "Fraction"}))
    BY <1>0, <1>2, <2>1, VisitFacts, TextsNext, MutedLeaf
  <2> HIDE DEF d
  <2>3. Turns(Calls(i, TRUE), d, View(x, w, b), d, View(x, w \cup TextsAtNode(i), b))
    BY <1>2, <2>2, LeafTurns
  <2>4. Stands(t, d, View(x, w \cup TextsAtNode(i), b))
    BY <1>1, <2>1, <2>3, RanTurns
  <2>5. TextsTo(i) = w \cup TextsAtNode(i)
    BY <1>0, <2>1, TextsNext
  <2>6. Noted(i) = b
    <3>1. Noted(i) <=> Noted(i - 1)
      BY <1>0, <1>2, TextsNext, VisitFacts
    <3> QED BY <2>1, <3>1 DEF Noted
  <2>7. Stands(t, d, Viewed(x, i))
    BY <2>4, <2>5, <2>6 DEF Viewed
  <2>8. Ends(i, i)
    BY <1>0, <2>2, EndsAlone
  <2> QED BY <2>1, <2>7, <2>8 DEF d
<1>3. CASE Skips(i)
  <2>1. /\ In(i, {"Image"}) /\ Has("SKIP_IMAGES")
        /\ Calls(i, TRUE) = ImageCalls(i, TRUE) /\ ~In(i, Leaves) /\ ~In(i, NoteRefs)
    BY <1>0, <1>3, VisitFacts DEF Skips
  <2>2. Calls(i, TRUE) = << >>
    BY <2>1 DEF ImageCalls
  <2> HIDE DEF d
  <2>3. Stands(t, d, Viewed(stack[i], i - 1))
    BY <1>1, <2>2, TurnsNone, RanTurns DEF Viewed
  <2>4. TextsTo(i) = TextsTo(i - 1) /\ (Noted(i) <=> Noted(i - 1))
    BY <1>0, <2>1, TextsNext, VisitFacts
  <2>5. CASE ~HasChild(i)
    <3>1. Ends(i, i)
      BY <1>0, <2>5, EndsAlone
    <3>2. Stands(t, d, Viewed(stack[i], i))
      BY <2>3, <2>4 DEF Viewed, Noted
    <3> QED BY <3>1, <3>2 DEF d
  <2>6. CASE HasChild(i)
    <3>1. PICK m : m = i + 1 /\ m - 1 = i /\ m # 1
      BY <1>0, NodeFacts
    <3>2. Ends(i, m) /\ m \in DOMAIN nodes /\ Parent(m) = i
      BY <1>0, <2>1, <2>6, <3>1, EndsImage
    <3>3. HiddenText(m)
      BY <2>1, <3>2 DEF HiddenText
    <3>4. ~In(m, NoteRefs)
      <4>1. In(m, Leaves)
        BY <2>1, <3>1, <3>2, LeavesBare
      <4> QED BY <4>1 DEF In, Leaves
    <3>5. TextsTo(m) = TextsTo(i) /\ (Noted(m) <=> Noted(i))
      BY <3>1, <3>2, <3>3, <3>4, TextsNext
    <3>6. TextsTo(m) = TextsTo(i - 1) /\ (Noted(m) <=> Noted(i - 1))
      BY <2>4, <3>5
    <3>7. Stands(t, d, Viewed(stack[i], m))
      BY <2>3, <3>6 DEF Viewed, Noted
    <3> QED BY <3>2, <3>7 DEF d
  <2> QED BY <2>5, <2>6
<1> QED
  BY <1>2, <1>3

\* The walk enters any other node, and what it leaves open is what stands
\* inside of it.
LEMMA EnterInside ==
  ASSUME IsTree(nodes), NEW stack, Stacked(stack), NEW i, Enters(stack, i, r),
         ~Skips(i), ~In(i, Leaves)
  PROVE  Stands(Ran(Calls(i, TRUE)), Muted(i), Viewed(Within(i, stack[i]), i))
<1>0. i \in DOMAIN nodes /\ ~HiddenText(i)
  BY DEF Enters
<1> DEFINE t == Ran(Calls(i, TRUE))
<1>1. PICK x, w, b : x = stack[i] /\ w = TextsTo(i - 1) /\ b = Noted(i - 1)
  OBVIOUS
<1>2. /\ x \in Seq(Tags) /\ b \in BOOLEAN /\ i \in Nat /\ KindOf(i) \in Kinds
      /\ Muted(Parent(i)) = 0 /\ TextsAtNode(i) = {}
  BY <1>0, <1>1, VisitFacts
<1>3. Stands(r, 0, View(x, w, b))
  BY <1>1, <1>2 DEF Enters, Viewed
<1>4. TextsTo(i) = w
  BY <1>0, <1>1, <1>2, TextsNext
<1>5. CASE In(i, NoteRefs)
  <2>1. Muted(i) = 0
    BY <1>5 DEF Muted, In
  <2>2. Stands(t, 0, View(Within(i, x), w, TRUE))
    BY <1>2, <1>3, <1>5, NoteRefBegins, RanTurns
  <2>3. Noted(i) = TRUE
    BY <1>0, <1>5, TextsNext DEF Noted
  <2> QED BY <1>1, <1>4, <2>1, <2>2, <2>3 DEF Viewed
<1>6. CASE ~In(i, NoteRefs)
  <2>1. Noted(i) = b
    <3>1. Noted(i) <=> Noted(i - 1)
      BY <1>0, <1>6, TextsNext
    <3> QED BY <1>1, <3>1 DEF Noted
  <2>2. CASE In(i, {"Image"})
    <3>1. /\ Muted(i) = 1 /\ Within(i, x) = Append(x, "alt")
          /\ Calls(i, TRUE) = ImageCalls(i, TRUE)
      BY <1>0, <2>2, VisitFacts
    <3>2. ~Has("SKIP_IMAGES") /\ r.disabled = 0
      BY <1>3, <2>2 DEF Skips, Stands
    <3>3. Turns(Calls(i, TRUE), 0, View(x, w, b), 1, View(Append(x, "alt"), w, b))
      BY <1>2, <3>1, <3>2, ImageTurns
    <3>4. Stands(t, 1, View(Append(x, "alt"), w, b))
      BY <1>3, <3>3, RanTurns
    <3> QED BY <1>1, <1>4, <2>1, <3>1, <3>4 DEF Viewed
  <2>3. CASE ~In(i, {"Image"})
    <3>1. Muted(i) = 0 /\ (In(i, {"Notes"}) => b)
      BY <1>0, <1>1, <2>3, VisitFacts, NotesNoted
    <3>2. Turns(Calls(i, TRUE), 0, View(x, w, b), 0, View(Within(i, x), w, b))
      BY <1>2, <2>3, <3>1, NodeTurns
    <3>3. Stands(t, 0, View(Within(i, x), w, b))
      BY <1>3, <3>2, RanTurns
    <3> QED BY <1>1, <1>4, <2>1, <3>1, <3>3 DEF Viewed
  <2> QED BY <2>2, <2>3
<1> QED
  BY <1>5, <1>6

\* The walk leaves a node, and closes what stood open inside of it.
LEMMA LeaveNode ==
  ASSUME IsTree(nodes), NEW stack, Stacked(stack), NEW i, Departs(stack, i, r)
  PROVE  \E v : Ends(i, v) /\ Stands(Ran(Calls(i, FALSE)), Muted(Parent(i)), Viewed(stack[i], v))
<1>0. i \in DOMAIN nodes /\ ~HiddenText(i) /\ ~In(i, Leaves) /\ ~Skips(i)
  BY DEF Departs
<1>1. PICK v \in DOMAIN nodes :
        Ends(i, v) /\ Stands(r, Muted(i), Viewed(Within(i, stack[i]), v))
  BY DEF Departs
<1> DEFINE t == Ran(Calls(i, FALSE))
<1>2. PICK x, w, b : x = stack[i] /\ w = TextsTo(v) /\ b = Noted(v)
  OBVIOUS
<1>3. /\ x \in Seq(Tags) /\ b \in BOOLEAN /\ i \in Nat /\ KindOf(i) \in Kinds
      /\ Muted(Parent(i)) = 0
  BY <1>0, <1>2, VisitFacts
<1>4. Stands(r, Muted(i), View(Within(i, x), w, b))
  BY <1>1, <1>2 DEF Viewed
<1>5. Stands(t, 0, View(x, w, b))
  <2>1. CASE In(i, {"Image"})
    <3>1. /\ Muted(i) = 1 /\ Within(i, x) = Append(x, "alt")
          /\ Calls(i, FALSE) = ImageCalls(i, FALSE)
      BY <1>0, <2>1, VisitFacts
    <3>2. ~Has("SKIP_IMAGES") /\ r.disabled = 1
      BY <1>0, <1>4, <2>1, <3>1 DEF Skips, Stands
    <3>3. Turns(Calls(i, FALSE), 1, View(Append(x, "alt"), w, b), 0, View(x, w, b))
      BY <1>3, <3>1, <3>2, ImageTurns
    <3>4. Stands(r, 1, View(Append(x, "alt"), w, b))
      BY <1>4, <3>1
    <3> QED BY <3>3, <3>4, RanTurns
  <2>2. CASE ~In(i, {"Image"})
    <3>1. In(i, {"Notes"}) => b
      <4>1. i <= v
        BY <1>0, <1>1, Onward
      <4> QED BY <1>0, <1>2, <4>1, NotesNoted, NotedOn
    <3>2. Muted(i) = 0
      BY <1>0, <2>2, VisitFacts
    <3>3. Turns(Calls(i, FALSE), 0, View(Within(i, x), w, b), 0, View(x, w, b))
      BY <1>0, <1>3, <2>2, <3>1, NodeTurns
    <3>4. Stands(r, 0, View(Within(i, x), w, b))
      BY <1>4, <3>2
    <3> QED BY <3>3, <3>4, RanTurns
  <2> QED BY <2>1, <2>2
<1> QED
  BY <1>1, <1>2, <1>3, <1>5 DEF Viewed

\* The invariant: the document is a tree, and the walk has written what comes
\* before the place where it stands.
RenderInv == IsTree(nodes) /\ \E stack : Stacked(stack) /\ Walked(stack)

\* While no document is added to and the renderer is the same one, what a step
\* means for the walk can be told from the state before it.
LEMMA SameDocument ==
  ASSUME nodes' = nodes, config' = config, reused' = reused
  PROVE  /\ IsTree(nodes)' <=> IsTree(nodes)
         /\ \A s, d, v : Stands(s, d, v)' <=> Stands(s, d, v)
         /\ \A x, n : Viewed(x, n)' = Viewed(x, n)
         /\ Base' = Base /\ Len(nodes)' = Len(nodes)
         /\ \A stack : Stacked(stack)' <=> Stacked(stack)
         /\ \A stack, i, s : Enters(stack, i, s)' <=> Enters(stack, i, s)
         /\ \A stack, i, s : Departs(stack, i, s)' <=> Departs(stack, i, s)
<1>1. /\ \A i : Parent(i)' = Parent(i)
      /\ \A i : KindOf(i)' = KindOf(i)
      /\ \A i, ks : In(i, ks)' <=> In(i, ks)
      /\ \A f : Has(f)' <=> Has(f)
  BY DEF Parent, KindOf, In, Has
<1>2. \A i : /\ SkipParagraphTags(i)' <=> SkipParagraphTags(i)
             /\ NeedSkipLink(i)' <=> NeedSkipLink(i)
             /\ ListElement(i)' = ListElement(i) /\ ItemElement(i)' = ItemElement(i)
             /\ HiddenText(i)' <=> HiddenText(i)
             /\ Skips(i)' <=> Skips(i)
             /\ Muted(i)' = Muted(i)
  BY <1>1 DEF SkipParagraphTags, NeedSkipLink, ListElement, ItemElement, HiddenText, Skips, Muted
<1>3. \A i, x : Within(i, x)' = Within(i, x)
  BY <1>1, <1>2 DEF Within
<1>4. \A n : TextsTo(n)' = TextsTo(n) /\ Noted(n)' = Noted(n)
  BY <1>1, <1>2 DEF TextsTo, Noted
<1>5. \A i, v : Ends(i, v)' <=> Ends(i, v)
  BY <1>1 DEF Ends
<1>6. Base' = Base /\ Len(nodes)' = Len(nodes) /\ (IsTree(nodes)' <=> IsTree(nodes))
  BY <1>1 DEF Base
<1>7. \A s, d, v : Stands(s, d, v)' <=> Stands(s, d, v)
  BY DEF Stands, Shows
<1>8. \A x, n : Viewed(x, n)' = Viewed(x, n)
  BY <1>4 DEF Viewed
<1>9. \A stack : Stacked(stack)' <=> Stacked(stack)
  BY <1>1, <1>3, <1>6 DEF Stacked
<1>10. ASSUME NEW stack, NEW i, NEW s  PROVE Enters(stack, i, s)' <=> Enters(stack, i, s)
  <2>1. PICK d : d = Muted(Parent(i)) /\ d = Muted(Parent(i))'
    BY <1>1, <1>2
  <2>2. PICK q : q = Viewed(stack[i], i - 1) /\ q = Viewed(stack[i], i - 1)'
    BY <1>8
  <2>3. Stands(s, d, q)' <=> Stands(s, d, q)
    BY <1>7
  <2>4. (i \in DOMAIN nodes /\ ~HiddenText(i))' <=> (i \in DOMAIN nodes /\ ~HiddenText(i))
    BY <1>2
  <2> QED BY <2>1, <2>2, <2>3, <2>4 DEF Enters
<1>11. ASSUME NEW stack, NEW i, NEW s  PROVE Departs(stack, i, s)' <=> Departs(stack, i, s)
  <2>1. PICK d : d = Muted(i) /\ d = Muted(i)'
    BY <1>2
  <2>2. PICK x : x = Within(i, stack[i]) /\ x = Within(i, stack[i])'
    BY <1>3
  <2>3. \A v : Stands(s, d, Viewed(x, v))' <=> Stands(s, d, Viewed(x, v))
    <3> SUFFICES ASSUME NEW v  PROVE Stands(s, d, Viewed(x, v))' <=> Stands(s, d, Viewed(x, v))
      OBVIOUS
    <3>1. PICK q : q = Viewed(x, v) /\ q = Viewed(x, v)'
      BY <1>8
    <3>2. Stands(s, d, q)' <=> Stands(s, d, q)
      BY <1>7
    <3> QED BY <3>1, <3>2
  <2>4. /\ (i \in DOMAIN nodes /\ ~HiddenText(i) /\ ~In(i, Leaves) /\ ~Skips(i))'
             <=> (i \in DOMAIN nodes /\ ~HiddenText(i) /\ ~In(i, Leaves) /\ ~Skips(i))
    BY <1>1, <1>2
  <2>5. (\E v \in DOMAIN nodes : Ends(i, v) /\ Stands(s, d, Viewed(x, v)))'
          <=> \E v \in DOMAIN nodes : Ends(i, v) /\ Stands(s, d, Viewed(x, v))
    BY <1>5, <2>3
  <2> QED BY <2>1, <2>2, <2>4, <2>5 DEF Departs
<1> QED
  BY <1>6, <1>7, <1>8, <1>9, <1>10, <1>11

\* What is open inside a node does not change as nodes are added after it.
LEMMA WithinKept ==
  ASSUME IsTree(nodes), NEW new, nodes' = Append(nodes, new), config' = config
  PROVE  \A i \in DOMAIN nodes :
           Parent(i)' = Parent(i) /\ \A x : Within(i, x)' = Within(i, x)
<1> SUFFICES ASSUME NEW i \in DOMAIN nodes
             PROVE  Parent(i)' = Parent(i) /\ \A x : Within(i, x)' = Within(i, x)
  OBVIOUS
<1>1. \A j \in DOMAIN nodes : nodes'[j] = nodes[j] /\ j # 0
  BY NodeFacts DEF IsTree
<1>2. \A j \in DOMAIN nodes : Parent(j)' = Parent(j) /\ \A ks : In(j, ks)' <=> In(j, ks)
  BY <1>1 DEF Parent, In, KindOf
<1>3. \A f : Has(f)' <=> Has(f)
  BY DEF Has
<1>4. SkipParagraphTags(i)' <=> SkipParagraphTags(i)
  <2>1. PICK a : a = Parent(i) /\ a = Parent(i)'
    BY <1>2
  <2>2. CASE a = 0
    BY <2>1, <2>2 DEF SkipParagraphTags
  <2>3. CASE a # 0
    <3>1. a \in DOMAIN nodes
      BY <2>1, <2>3, NodeFacts
    <3>2. PICK g : g = Parent(a) /\ g = Parent(a)'
      BY <1>2, <3>1
    <3>3. g = 0 \/ g \in DOMAIN nodes
      BY <3>1, <3>2, NodeFacts
    <3>4. CASE g = 0
      BY <2>1, <3>2, <3>4 DEF SkipParagraphTags
    <3>5. CASE g \in DOMAIN nodes
      <4>1. /\ In(g, Lists)' <=> In(g, Lists)
            /\ nodes[g].tight' <=> nodes[g].tight
            /\ In(a, {"Term"})' <=> In(a, {"Term"})
        BY <1>1, <1>2, <3>1, <3>5
      <4> QED BY <2>1, <3>2, <4>1 DEF SkipParagraphTags
    <3> QED BY <3>3, <3>4, <3>5
  <2> QED BY <2>2, <2>3
<1>5. /\ NeedSkipLink(i)' <=> NeedSkipLink(i)
      /\ ListElement(i)' = ListElement(i) /\ ItemElement(i)' = ItemElement(i)
  BY <1>2, <1>3 DEF NeedSkipLink, ListElement, ItemElement
<1>6. \A ks : In(i, ks)' <=> In(i, ks)
  BY <1>2
<1>7. \A x : Within(i, x)' = Within(i, x)
  BY <1>4, <1>5, <1>6 DEF Within
<1> QED
  BY <1>2, <1>7

\* A pair, one element at a time.
LEMMA PairOf ==
  ASSUME NEW S, NEW a \in S, NEW b \in S
  PROVE  /\ << >> \in Seq(S) /\ <<a>> \in Seq(S) /\ <<a, b>> \in Seq(S)
         /\ Append(<< >>, a) = <<a>> /\ Append(<<a>>, b) = <<a, b>>
<1>1. << >> \in Seq(S) /\ <<a>> \in Seq(S) /\ <<a, b>> \in Seq(S)
  OBVIOUS
<1>2. \A x \in Seq(S), e \in S : x \o <<e>> = Append(x, e)
  OBVIOUS
<1>3. << >> \o <<a>> = <<a>> /\ <<a>> \o <<b>> = <<a, b>>
  BY <1>1, ConcatEmptySeq, TwoTokens
<1> QED
  BY <1>1, <1>2, <1>3

\* A renderer that has written nothing.
LEMMA RenderInitially == HInit => RenderInv
<1> SUFFICES ASSUME HInit  PROVE RenderInv
  OBVIOUS
<1>1. IsTree(nodes) /\ Len(nodes) = 1
  <2> DEFINE new == [kind |-> "Document", parent |-> 0, tight |-> FALSE]
  <2>1. new \in Node /\ new.kind = "Document" /\ new.parent = 0
    BY DEF Node, Kinds
  <2>2. nodes = <<new>>
    BY DEF HInit
  <2> HIDE DEF new
  <2>3. nodes \in Seq(Node) /\ Len(nodes) = 1 /\ nodes[1] = new
    BY <2>1, <2>2
  <2>4. 2..Len(nodes) = {}
    BY <2>3
  <2> QED BY <2>1, <2>3, <2>4 DEF IsTree
<1>2. Base \in Seq(Tags)
  <2>1. PICK h, b \in Tags : h = "html" /\ b = "body"
    BY DEF Tags, Page
  <2>2. << >> \in Seq(Tags) /\ <<h, b>> \in Seq(Tags)
    BY PairOf
  <2> QED BY <2>1, <2>2 DEF Base
<1>3. PICK stack : stack = <<Base>>
  OBVIOUS
<1>4. Stacked(stack)
  <2>1. stack \in Seq(Seq(Tags)) /\ Len(stack) = 1 /\ stack[1] = Base
    BY <1>2, <1>3
  <2>2. 2..Len(nodes) = {}
    BY <1>1
  <2> QED BY <1>1, <2>1, <2>2 DEF Stacked
<1>5. /\ r = [out |-> << >>, last |-> reused, disabled |-> 0] /\ reused \in BOOLEAN
      /\ phase = "parse" /\ at = 1 /\ entering = TRUE
  BY DEF HInit
<1>6. Shows(<< >>, View(<< >>, {}, FALSE))
  <2>1. Opens(<< >>, << >>)
    <3> DEFINE w == [n \in {0} |-> << >>]
    <3>1. w[0] = << >> /\ Len(<< >>) = 0
      BY EmptySeq
    <3> HIDE DEF w
    <3> QED BY <3>1 DEF Opens
  <2>2. TextsAt(<< >>) = {} /\ Clean(<< >>)
    BY DEF TextsAt, Clean
  <2>3. Ordered(<< >>) /\ TextsOf(<< >>) = {}
    BY <2>2 DEF Ordered, TextsOf
  <2>4. << >> \in Seq(Token) /\ << >> \in Seq(Tags)
    BY EmptySeq
  <2> QED BY <2>1, <2>2, <2>3, <2>4 DEF Shows, View
<1>7. Stands(r, 0, View(<< >>, {}, FALSE))
  <2>1. r \in Renderer
    BY <1>5, EmptySeq DEF Renderer
  <2> QED BY <1>5, <1>6, <2>1 DEF Stands
<1> QED
  BY <1>1, <1>4, <1>5, <1>7 DEF RenderInv, Walked

\* The parsers add a node, and its elements to the stacks.
LEMMA RenderGrow ==
  ASSUME RenderInv, NEW c \in config.kinds, NEW p, NEW tight \in BOOLEAN, Grow(c, p, tight)
  PROVE  RenderInv'
<1>1. IsTree(nodes) /\ phase = "parse" /\ p \in DOMAIN nodes
      /\ UNCHANGED <<config, reused, phase, at, entering, r>>
  BY DEF RenderInv, Grow
<1>2. p \in Nat
  BY <1>1, NodeFacts
<1>3. PICK stack : Stacked(stack) /\ Walked(stack)
  BY DEF RenderInv
<1>4. IsTree(nodes)'
  BY <1>1, <1>2, GrowTree
<1>5. PICK new \in Node :
        new.parent = p /\ nodes \in Seq(Node) /\ nodes' = Append(nodes, new)
  BY <1>1, <1>2, GrowFacts
<1>6. PICK n \in Nat : n = Len(nodes) /\ DOMAIN nodes = 1..n /\ n >= 1
  BY <1>1, Preorder
<1>7. Len(nodes)' = n + 1 /\ nodes'[n + 1] = new /\ p \in 1..n
  BY <1>1, <1>5, <1>6
<1>8. \A i \in 1..n : Parent(i)' = Parent(i) /\ \A x : Within(i, x)' = Within(i, x)
  BY <1>1, <1>5, <1>6, WithinKept
<1>9. /\ stack \in Seq(Seq(Tags)) /\ Len(stack) = n /\ stack[1] = Base
      /\ \A i \in 2..n : stack[i] = Within(Parent(i), stack[Parent(i)])
  BY <1>3, <1>6 DEF Stacked
<1>10. PICK y : y = Within(p, stack[p])
  OBVIOUS
<1>11. y \in Seq(Tags)
  <2>1. stack[p] \in Seq(Tags)
    BY <1>7, <1>9, ElementOfSeq
  <2> QED BY <1>10, <2>1, WithinTyped
<1>12. PICK s : s = Append(stack, y)
  OBVIOUS
<1>13. /\ s \in Seq(Seq(Tags)) /\ Len(s) = n + 1 /\ s[n + 1] = y
       /\ \A i \in 1..n : s[i] = stack[i]
  <2> HIDE DEF Tags
  <2> QED BY <1>9, <1>11, <1>12
<1>14. ASSUME NEW i \in 2..n + 1
       PROVE  s[i] = Within(Parent(i), s[Parent(i)])'
  <2>1. CASE i = n + 1
    <3>1. Parent(i)' = p
      BY <1>5, <1>7, <2>1 DEF Parent
    <3>2. Within(p, s[p])' = y
      BY <1>7, <1>8, <1>10, <1>13
    <3> QED BY <1>13, <2>1, <3>1, <3>2
  <2>2. CASE i # n + 1
    <3>1. i \in 2..n /\ i \in 1..n
      BY <2>2
    <3>2. PICK q : q = Parent(i) /\ q = Parent(i)'
      BY <1>8, <3>1
    <3>3. q \in 1..n
      <4>1. i \in DOMAIN nodes /\ i # 1
        BY <1>6, <3>1
      <4> QED BY <1>1, <1>6, <3>2, <4>1, NodeFacts
    <3>4. Within(q, s[q])' = Within(q, stack[q])
      BY <1>8, <1>13, <3>3
    <3> QED BY <1>9, <1>13, <3>1, <3>2, <3>4
  <2> QED BY <2>1, <2>2
<1>15. Base' = Base
  BY <1>1 DEF Base, Has
<1>16. Stacked(s)'
  BY <1>7, <1>9, <1>6, <1>13, <1>14, <1>15 DEF Stacked
<1>17. Walked(s)'
  <2>1. Stands(r, 0, View(<< >>, {}, FALSE)) /\ at = 1 /\ entering = TRUE
    BY <1>1, <1>3 DEF Walked
  <2>2. Stands(r, 0, View(<< >>, {}, FALSE))'
    BY <1>1, <2>1 DEF Stands, Shows
  <2> QED BY <1>1, <2>1, <2>2 DEF Walked
<1> QED
  BY <1>4, <1>16, <1>17 DEF RenderInv

\* The page's head leaves its elements open, and the walk enters the document.
LEMMA RenderHeader ==
  ASSUME RenderInv, Header
  PROVE  RenderInv'
<1>1. IsTree(nodes) /\ phase = "parse" /\ phase' = "walk"
      /\ UNCHANGED <<nodes, config, reused, at, entering>>
      /\ r' = Ran(When(Has("COMPLETE_PAGE"), W(<< Opn("html"), Opn("body") >>)))
  BY DEF RenderInv, Header
<1>2. PICK stack : Stacked(stack) /\ Walked(stack)
  BY DEF RenderInv
<1>3. at = 1 /\ entering = TRUE /\ Stands(r, 0, View(<< >>, {}, FALSE)) /\ stack[1] = Base
  BY <1>1, <1>2 DEF Walked, Stacked
<1> DEFINE v == View(<< >>, {}, FALSE)
<1>4. Stands(r', 0, View(Base, {}, FALSE))
  <2>1. CASE Has("COMPLETE_PAGE")
    <3>1. PICK h, b \in Page : h = "html" /\ b = "body" /\ h \in Tags /\ b \in Tags
      BY DEF Page, Tags
    <3>2. PICK x, u \in Seq(Tags) : u = << >> /\ x = <<h>> /\ x = Append(u, h)
      BY <3>1, PairOf
    <3>3. Append(x, b) = Base
      BY <2>1, <3>1, <3>2, PairOf DEF Base
    <3>4. Adds(<<Opn(h)>>, v, View(x, {}, FALSE))
      BY <3>2, AddsPage
    <3>5. Adds(<<Opn(b)>>, View(x, {}, FALSE), View(Base, {}, FALSE))
      BY <3>3, AddsPage
    <3>6. Adds(<<Opn(h)>> \o <<Opn(b)>>, v, View(Base, {}, FALSE))
      BY <3>4, <3>5, AddsBoth
    <3>7. PICK s, t \in Token : s = Opn(h) /\ t = Opn(b)
      BY <3>1 DEF Token, Opn
    <3>8. <<Opn(h)>> \o <<Opn(b)>> = << Opn("html"), Opn("body") >>
      <4>1. <<s>> \o <<t>> = <<s, t>>
        BY TwoTokens
      <4> QED BY <3>1, <3>7, <4>1
    <3>9. Turns(W(<< Opn("html"), Opn("body") >>), 0, v, 0, View(Base, {}, FALSE))
      BY <3>6, <3>8, TurnsRaw
    <3> QED BY <1>1, <1>3, <2>1, <3>9, RanTurns DEF When
  <2>2. CASE ~Has("COMPLETE_PAGE")
    <3>1. r' = Ran(<< >>) /\ Base = << >>
      BY <1>1, <2>2 DEF When, Base
    <3> QED BY <1>3, <3>1, TurnsNone, RanTurns
  <2> QED BY <2>1, <2>2
<1>5. DOMAIN nodes = 1..Len(nodes) /\ Len(nodes) >= 1 /\ Len(nodes) \in Nat /\ Parent(1) = 0
  BY <1>1, Preorder
<1>6. 1 \in DOMAIN nodes /\ Parent(1) = 0 /\ \A i \in DOMAIN nodes : ~(i <= 0)
  BY <1>5
<1>7. TextsTo(0) = {} /\ Noted(0) = FALSE
  BY <1>6 DEF TextsTo, Noted
<1>8. ~In(Parent(1), {"Image"}) /\ 1 - 1 = 0
  BY <1>6 DEF In, KindOf
<1>9. Enters(stack, 1, r')
  BY <1>3, <1>4, <1>6, <1>7, <1>8 DEF Enters, HiddenText, Muted, Viewed
<1>10. IsTree(nodes)' /\ Stacked(stack)' /\ Enters(stack, at, r)'
  <2>1. PICK i, s : i = 1 /\ s = r'
    OBVIOUS
  <2>2. Enters(stack, i, s)'
    BY <1>1, <1>9, <2>1, SameDocument
  <2> QED BY <1>1, <1>2, <1>3, <2>1, <2>2, SameDocument
<1>11. Walked(stack)'
  BY <1>1, <1>3, <1>10 DEF Walked
<1> QED
  BY <1>10, <1>11 DEF RenderInv

\* Whatever the walk does next, it has written what comes before where it
\* then stands.
LEMMA RenderVisit ==
  ASSUME RenderInv, Visit
  PROVE  RenderInv'
<1>1. /\ IsTree(nodes) /\ phase = "walk" /\ r' = Ran(Calls(at, entering))
      /\ nodes' = nodes /\ config' = config /\ reused' = reused
  BY DEF RenderInv, Visit
<1>2. PICK stack : Stacked(stack) /\ Walked(stack)
  BY DEF RenderInv
<1>3. PICK i, s : i = at /\ s = r'
  OBVIOUS
<1> DEFINE leaving == ~entering \/ Skips(at) \/ In(at, Leaves)
<1>4. /\ entering \in BOOLEAN
      /\ entering = TRUE => Enters(stack, i, r)
      /\ entering = FALSE => Departs(stack, i, r)
  BY <1>1, <1>2, <1>3 DEF Walked
<1>5. i \in DOMAIN nodes /\ ~HiddenText(i)
  BY <1>4 DEF Enters, Departs
<1>6. Walked(stack)'
  <2>1. CASE leaving
    <3>1. PICK v : Ends(i, v) /\ Stands(s, Muted(Parent(i)), Viewed(stack[i], v))
      <4>1. CASE entering = TRUE
        BY <1>1, <1>2, <1>3, <1>4, <2>1, <4>1, EnterAndLeave
      <4>2. CASE entering = FALSE
        BY <1>1, <1>2, <1>3, <1>4, <4>2, LeaveNode
      <4> QED BY <1>4, <4>1, <4>2
    <3>2. /\ i = 1 => Stands(s, 0, Viewed(Base, Len(nodes)))
          /\ i # 1 /\ NextOf(i) # 0 => Enters(stack, NextOf(i), s)
          /\ i # 1 /\ NextOf(i) = 0 => Departs(stack, Parent(i), s)
      BY <1>1, <1>2, <1>5, <3>1, AfterNode
    <3>3. CASE i = 1
      <4>1. phase' = "footer" /\ entering' = entering
        BY <1>3, <2>1, <3>3 DEF Visit
      <4>2. PICK n, q : /\ n = Len(nodes) /\ q = Viewed(Base, n)
                        /\ n = Len(nodes)' /\ q = Viewed(Base, n)'
        BY <1>1, SameDocument
      <4>3. Stands(s, 0, q)'
        BY <1>1, <3>2, <3>3, <4>2, SameDocument
      <4>4. Stands(r, 0, Viewed(Base, Len(nodes)))'
        BY <1>3, <4>2, <4>3
      <4> QED BY <1>4, <4>1, <4>4 DEF Walked
    <3>4. CASE i # 1 /\ NextOf(i) # 0
      <4>1. PICK m : m = NextOf(i)
        OBVIOUS
      <4>2. phase' = "walk" /\ at' = m /\ entering' = TRUE
        BY <1>1, <1>3, <2>1, <3>4, <4>1 DEF Visit
      <4>3. Enters(stack, m, s)'
        BY <1>1, <3>2, <3>4, <4>1, SameDocument
      <4> QED BY <1>3, <4>2, <4>3 DEF Walked
    <3>5. CASE i # 1 /\ NextOf(i) = 0
      <4>1. PICK m : m = Parent(i)
        OBVIOUS
      <4>2. phase' = "walk" /\ at' = m /\ entering' = FALSE
        BY <1>1, <1>3, <2>1, <3>5, <4>1 DEF Visit
      <4>3. Departs(stack, m, s)'
        BY <1>1, <3>2, <3>5, <4>1, SameDocument
      <4> QED BY <1>3, <4>2, <4>3 DEF Walked
    <3> QED BY <3>3, <3>4, <3>5
  <2>2. CASE ~leaving
    <3>1. entering = TRUE /\ ~Skips(i) /\ ~In(i, Leaves)
      BY <1>3, <1>4, <2>2
    <3>2. Stands(s, Muted(i), Viewed(Within(i, stack[i]), i))
      BY <1>1, <1>2, <1>3, <1>4, <3>1, EnterInside
    <3>3. /\ HasChild(i) => Enters(stack, i + 1, s)
          /\ ~HasChild(i) => Departs(stack, i, s)
      BY <1>1, <1>2, <1>5, <3>1, <3>2, InsideNode
    <3>4. CASE HasChild(i)
      <4>1. PICK m : m = i + 1
        OBVIOUS
      <4>2. phase' = "walk" /\ at' = m /\ entering' = TRUE
        BY <1>1, <1>3, <2>2, <3>4, <4>1 DEF Visit
      <4>3. Enters(stack, m, s)'
        BY <1>1, <3>3, <3>4, <4>1, SameDocument
      <4> QED BY <1>3, <4>2, <4>3 DEF Walked
    <3>5. CASE ~HasChild(i)
      <4>1. phase' = "walk" /\ at' = i /\ entering' = FALSE
        BY <1>1, <1>3, <2>2, <3>5 DEF Visit
      <4>2. Departs(stack, i, s)'
        BY <1>1, <3>3, <3>5, SameDocument
      <4> QED BY <1>3, <4>1, <4>2 DEF Walked
    <3> QED BY <3>4, <3>5
  <2> QED BY <2>1, <2>2
<1>7. IsTree(nodes)' /\ Stacked(stack)'
  BY <1>1, <1>2, SameDocument
<1> QED
  BY <1>6, <1>7 DEF RenderInv

\* The page's foot closes what its head opened.
LEMMA RenderFooter ==
  ASSUME RenderInv, Footer
  PROVE  RenderInv'
<1>1. /\ IsTree(nodes) /\ phase = "footer" /\ phase' = "ended" /\ entering' = entering
      /\ nodes' = nodes /\ config' = config /\ reused' = reused
      /\ r' = Ran(When(Has("COMPLETE_PAGE"), W(<< Cls("body"), Cls("html") >>)))
  BY DEF RenderInv, Footer
<1>2. PICK stack : Stacked(stack) /\ Walked(stack)
  BY DEF RenderInv
<1>3. PICK n, w, c : n = Len(nodes) /\ w = TextsTo(n) /\ c = Noted(n) /\ c \in BOOLEAN
  BY DEF Noted
<1>4. Stands(r, 0, View(Base, w, c)) /\ entering \in BOOLEAN
  BY <1>1, <1>2, <1>3 DEF Walked, Viewed
<1> DEFINE v == View(<< >>, w, c)
<1>5. Stands(r', 0, v)
  <2>1. CASE Has("COMPLETE_PAGE")
    <3>1. PICK h, b \in Tags : h = "html" /\ b = "body"
      BY DEF Page, Tags
    <3>2. PICK x, u \in Seq(Tags) : u = << >> /\ x = <<h>> /\ x = Append(u, h)
      BY <3>1, PairOf
    <3>3. Append(x, b) = Base
      BY <2>1, <3>1, <3>2, PairOf DEF Base
    <3>4. Adds(<<Cls(b)>>, View(Base, w, c), View(x, w, c))
      BY <1>3, <3>3, AddsClose
    <3>5. Adds(<<Cls(h)>>, View(x, w, c), v)
      BY <1>3, <3>2, AddsClose
    <3>6. Adds(<<Cls(b)>> \o <<Cls(h)>>, View(Base, w, c), v)
      BY <3>4, <3>5, AddsBoth
    <3>7. PICK s, t \in Token : s = Cls(b) /\ t = Cls(h)
      BY <3>1 DEF Token, Cls
    <3>8. <<Cls(b)>> \o <<Cls(h)>> = << Cls("body"), Cls("html") >>
      <4>1. <<s>> \o <<t>> = <<s, t>>
        BY TwoTokens
      <4> QED BY <3>1, <3>7, <4>1
    <3>9. Turns(W(<< Cls("body"), Cls("html") >>), 0, View(Base, w, c), 0, v)
      BY <3>6, <3>8, TurnsRaw
    <3> QED BY <1>1, <1>4, <2>1, <3>9, RanTurns DEF When
  <2>2. CASE ~Has("COMPLETE_PAGE")
    <3>1. r' = Ran(<< >>) /\ Base = << >>
      BY <1>1, <2>2 DEF When, Base
    <3> QED BY <1>4, <3>1, TurnsNone, RanTurns
  <2> QED BY <2>1, <2>2
<1>6. PICK q, s : q = Viewed(<< >>, n) /\ q = v /\ s = r'
  BY <1>3 DEF Viewed
<1>7. Stands(r, 0, Viewed(<< >>, Len(nodes)))'
  <2>1. Stands(s, 0, q)' /\ Viewed(<< >>, n)' = q /\ Len(nodes)' = n
    BY <1>1, <1>3, <1>5, <1>6, SameDocument
  <2> QED BY <1>6, <2>1
<1>8. Walked(stack)'
  BY <1>1, <1>4, <1>7 DEF Walked
<1>9. IsTree(nodes)' /\ Stacked(stack)'
  BY <1>1, <1>2, SameDocument
<1> QED
  BY <1>8, <1>9 DEF RenderInv

\* A step that changes nothing.
LEMMA RenderStutter ==
  ASSUME RenderInv, UNCHANGED hvars
  PROVE  RenderInv'
<1>1. /\ nodes' = nodes /\ config' = config /\ reused' = reused
      /\ phase' = phase /\ at' = at /\ entering' = entering /\ r' = r
  BY DEF hvars
<1>2. PICK stack : Stacked(stack) /\ Walked(stack)
  BY DEF RenderInv
<1>3. IsTree(nodes)' /\ Stacked(stack)'
  BY <1>1, <1>2, SameDocument DEF RenderInv
<1>4. PICK s, i, n, q, f : s = r /\ i = at /\ n = Len(nodes) /\ q = Viewed(Base, n)
                            /\ f = Viewed(<< >>, n)
  OBVIOUS
<1>5. /\ Viewed(Base, Len(nodes))' = q /\ Viewed(<< >>, Len(nodes))' = f
  BY <1>1, <1>4, SameDocument
<1>6. /\ Stands(s, 0, q) => Stands(s, 0, q)'
      /\ Stands(s, 0, f) => Stands(s, 0, f)'
      /\ Stands(s, 0, View(<< >>, {}, FALSE)) => Stands(s, 0, View(<< >>, {}, FALSE))'
      /\ Enters(stack, i, s) => Enters(stack, i, s)'
      /\ Departs(stack, i, s) => Departs(stack, i, s)'
  BY <1>1, SameDocument
<1>7. Walked(stack)'
  BY <1>1, <1>2, <1>4, <1>5, <1>6 DEF Walked
<1> QED
  BY <1>3, <1>7 DEF RenderInv

\* Every step keeps the invariant.
LEMMA RenderStepwise == RenderInv /\ [HNext]_hvars => RenderInv'
<1> SUFFICES ASSUME RenderInv, [HNext]_hvars  PROVE RenderInv'
  OBVIOUS
<1>1. CASE \E c \in config.kinds, p \in 1..config.size, tight \in BOOLEAN : Grow(c, p, tight)
  BY <1>1, RenderGrow
<1>2. CASE Header
  BY <1>2, RenderHeader
<1>3. CASE Visit
  BY <1>3, RenderVisit
<1>4. CASE Footer
  BY <1>4, RenderFooter
<1>5. CASE UNCHANGED hvars
  BY <1>5, RenderStutter
<1> QED
  BY <1>1, <1>2, <1>3, <1>4, <1>5 DEF HNext

\* The invariant holds throughout.
LEMMA RenderAlways == HSpec => []RenderInv
BY RenderInitially, RenderStepwise, PTL DEF HSpec

\* At any time the output has a view; at the end nothing is open, tags are
\* enabled, and all the texts to be shown are written.
LEMMA RenderViewed ==
  ASSUME RenderInv
  PROVE  \E d, v : /\ Stands(r, d, v)
                   /\ phase = "ended" => d = 0 /\ v.open = << >> /\ v.texts = TextsTo(Len(nodes))
<1>1. PICK stack : Walked(stack)
  BY DEF RenderInv
<1>2. /\ Viewed(<< >>, Len(nodes)).open = << >>
      /\ Viewed(<< >>, Len(nodes)).texts = TextsTo(Len(nodes))
  BY DEF Viewed, View
<1>3. CASE phase = "ended"
  BY <1>1, <1>2, <1>3 DEF Walked
<1>4. CASE phase # "ended"
  BY <1>1, <1>4 DEF Walked, Enters, Departs
<1> QED
  BY <1>3, <1>4

\* The stack of a view holds known elements, and is what is open.
LEMMA RenderWellFormed == RenderInv => WellFormed
<1> SUFFICES ASSUME RenderInv  PROVE WellFormed
  OBVIOUS
<1>1. PICK d, v : /\ Stands(r, d, v)
                  /\ phase = "ended" => d = 0 /\ v.open = << >>
  BY RenderViewed
<1>2. /\ r.disabled = d /\ r.out \in Seq(Token) /\ v.open \in Seq(Tags)
      /\ Opens(r.out, v.open)
  BY <1>1 DEF Stands, Shows
<1>3. OpenElements = v.open
  BY <1>2, ElementsOpen
<1>4. "wrong" \notin ToSet(v.open)
  <2>1. \A j \in DOMAIN v.open : v.open[j] \in Tags
    BY <1>2
  <2>2. "wrong" \notin Tags
    BY DEF Tags, Page, Inside
  <2> QED BY <2>1, <2>2 DEF ToSet
<1> QED
  BY <1>1, <1>2, <1>3, <1>4 DEF WellFormed

\* The texts of a view are ordered, and at the end all there are to be shown.
LEMMA RenderTexts == RenderInv => TextsInOrder
<1> SUFFICES ASSUME RenderInv  PROVE TextsInOrder
  OBVIOUS
<1>1. PICK d, v : /\ Stands(r, d, v)
                  /\ phase = "ended" => v.texts = TextsTo(Len(nodes))
  BY RenderViewed
<1>2. Ordered(r.out) /\ TextsOf(r.out) = v.texts
  BY <1>1 DEF Stands, Shows
<1>3. TextsTo(Len(nodes)) =
        {i \in DOMAIN nodes : In(i, {"Text", "Fraction", "Code", "CodeBlock"}) /\ ~HiddenText(i)}
  <2>1. DOMAIN nodes = 1..Len(nodes)
    BY Preorder DEF RenderInv
  <2>2. \A i \in DOMAIN nodes : i <= Len(nodes)
    BY <2>1
  <2> QED BY <2>2 DEF TextsTo, Shown
<1> QED
  BY <1>1, <1>2, <1>3 DEF TextsInOrder, Ordered, TextsOf, TextsAt, HiddenText

\* A fresh output is clean.
LEMMA RenderClean == RenderInv => BodyStartsClean
<1> SUFFICES ASSUME RenderInv, ~reused  PROVE Clean(r.out)
  BY DEF BodyStartsClean, Clean, Blank
<1>1. PICK d, v : Stands(r, d, v)
  BY RenderViewed
<1> QED
  BY <1>1 DEF Stands, Shows

\* Whatever the document, of any size, and the flags, elements close innermost
\* first, although a node's two tags are chosen on two separate visits, and at
\* the end none is open and tags are enabled.
THEOREM OutputWellFormed == HSpec => []WellFormed
BY RenderAlways, RenderWellFormed, PTL

\* Every text to be shown is written exactly once, in the document's order.
THEOREM OutputTexts == HSpec => []TextsInOrder
BY RenderAlways, RenderTexts, PTL

\* A renderer's first document never starts with a blank line.
THEOREM OutputClean == HSpec => []BodyStartsClean
BY RenderAlways, RenderClean, PTL

=============================================================================
