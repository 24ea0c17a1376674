------------------------------ MODULE Headings ------------------------------
(***************************************************************************)
(* Headings in the HTML renderer of src/html.rs: the table of contents     *)
(* that write_toc builds before the body, renaming headings as it goes,    *)
(* and the ids the body pass makes unique with ensure_unique_heading_id.   *)
(* One renderer may render several documents (run_with borrows it), and    *)
(* its table of ids outlives each of them.                                 *)
(*                                                                         *)
(* An id is a sequence of numbers: one for its text, not 0, or 0 and N for *)
(* toc_N, then those appended to it, so <<1, 2>> is the text of <<1>> with *)
(* "-2" after it.  Of the markup only the open elements are kept.          *)
(***************************************************************************)
EXTENDS Integers, Sequences, SequencesExt

CONSTANTS Levels,       \* heading levels
          GivenIds,     \* ids the parser gives headings
          Toc,          \* whether HtmlFlags::TOC may be set, a set of answers
          Prefixed,     \* whether heading_id_prefix or heading_id_suffix is set
          MaxHeadings,  \* headings in a document
          MaxRenders    \* documents given to one renderer

ASSUME HeadingAssumption ==
  /\ Levels \subseteq Nat \ {0}
  /\ GivenIds \subseteq Seq(Nat)
  /\ Toc \subseteq BOOLEAN /\ Prefixed \in BOOLEAN
  /\ MaxHeadings \in Nat /\ MaxRenders \in Nat

Id == Seq(Nat)
NoId == << >>
Bare(id) == [prefixed |-> FALSE, id |-> id]
Written(id) == [prefixed |-> Prefixed, id |-> id]
TocId(n) == <<0, n>>

(***************************************************************************)
(* A title block is a heading without an id, left out of the contents.     *)
(***************************************************************************)
Heading == [level : Levels, heading_id : GivenIds \cup {NoId}, is_titleblock : {FALSE}]
             \cup [level : Levels \cap {1}, heading_id : {NoId}, is_titleblock : {TRUE}]

VARIABLES
  pc,             \* phase of run_with
  headings,       \* the headings of the document, in order
  k,              \* heading the walk is at
  toc_level, heading_count,   \* write_toc's locals
  open, crossed,  \* elements open in the contents; whether a tag closed another
  hrefs,          \* targets of the links in the contents
  heading_ids,    \* the renderer's table: id -> last number appended to it
  candidate,      \* id in the loop of ensure_unique_heading_id
  emitted,        \* id attributes written for this document
  renders         \* documents this renderer has begun

toc == <<toc_level, heading_count, open, crossed, hrefs>>
table == <<heading_ids, candidate>>
vars == <<pc, headings, k, toc, table, emitted, renders>>

Init ==
  /\ pc = "idle"
  /\ headings = << >> /\ k = 1
  /\ toc_level = 0 /\ heading_count = 0
  /\ open = << >> /\ crossed = FALSE /\ hrefs = {}
  /\ heading_ids = << >> /\ candidate = NoId
  /\ emitted = << >>
  /\ renders = 0

\* run_with on a new document, of any headings, with the same renderer, whose
\* flags (params is public) the caller may have changed since.
Render ==
  /\ pc = "idle" /\ renders < MaxRenders
  /\ \E n \in 0..MaxHeadings : headings' \in [1..n -> Heading]
  /\ \E t \in Toc : pc' = IF t THEN "toc" ELSE "body"
  /\ k' = 1
  /\ toc_level' = 0 /\ heading_count' = 0
  /\ open' = << >> /\ crossed' = FALSE /\ hrefs' = {}
  /\ emitted' = << >>
  /\ renders' = renders + 1
  /\ UNCHANGED table

-----------------------------------------------------------------------------
(***************************************************************************)
(* The table of contents.  A tag opens an element or closes the innermost; *)
(* closing any other crosses.                                              *)
(***************************************************************************)
Opening(e) == [element |-> e, closing |-> FALSE]
Closing(e) == [element |-> e, closing |-> TRUE]

Step(state, tag) ==
  IF ~tag.closing THEN [state EXCEPT !.open = Append(@, tag.element)]
  ELSE IF state.open # << >> /\ Last(state.open) = tag.element
    THEN [state EXCEPT !.open = Front(@)]
    ELSE [state EXCEPT !.crossed = TRUE]

\* One tag after the other.
After(state, tags) ==
  LET after[i \in 0..Len(tags)] == IF i = 0 THEN state ELSE Step(after[i - 1], tags[i])
  IN  after[Len(tags)]

Write(tags) ==
  LET result == After([open |-> open, crossed |-> crossed], tags)
  IN open' = result.open /\ crossed' = result.crossed

\* s, n times over.
Times(n, s) == [i \in 1..(n * Len(s)) |-> s[((i - 1) % Len(s)) + 1]]

Deeper == <<Opening("ul"), Opening("li")>>
ShallowerSwapped == <<Closing("ul"), Closing("li")>>             \* mutant
Shallower == <<Closing("li"), Closing("ul")>>
Sibling == <<Closing("li"), Opening("li")>>

\* A shallower heading closes lists, and then the item it is a sibling of.
Entry(level) ==
  IF level > toc_level THEN Times(level - toc_level, Deeper)
  ELSE Times(toc_level - level, Shallower) \o Sibling

TargetAfterCount == Bare(TocId(heading_count + 1))               \* mutant
Target == Bare(TocId(heading_count))

\* Entering a heading: it is renamed, and the contents get a link to the name.
TocEnter ==
  /\ pc = "toc" /\ k <= Len(headings) /\ ~headings[k].is_titleblock
  /\ Write(Append(Entry(headings[k].level), Opening("a")))
  /\ toc_level' = headings[k].level
  /\ headings' = [headings EXCEPT ![k].heading_id = TocId(heading_count)]
  /\ hrefs' = hrefs \cup {Target}
  /\ heading_count' = heading_count + 1
  /\ pc' = "toc heading"
  /\ UNCHANGED <<k, table, emitted, renders>>

\* Leaving it, its content rendered into the contents.
TocLeave ==
  /\ pc = "toc heading"
  /\ Write(<<Closing("a")>>)
  /\ k' = k + 1
  /\ pc' = "toc"
  /\ UNCHANGED <<headings, toc_level, heading_count, hrefs, table, emitted, renders>>

TocSkip ==
  /\ pc = "toc" /\ k <= Len(headings) /\ headings[k].is_titleblock
  /\ k' = k + 1
  /\ UNCHANGED <<pc, headings, toc, table, emitted, renders>>

TocEnd ==
  /\ pc = "toc" /\ k > Len(headings)
  /\ Write(Times(toc_level, Shallower))
  /\ toc_level' = 0
  /\ k' = 1
  /\ pc' = "body"
  /\ UNCHANGED <<headings, heading_count, hrefs, table, emitted, renders>>

-----------------------------------------------------------------------------
(***************************************************************************)
(* The body: a heading with an id has it made unique, one turn of the loop *)
(* of ensure_unique_heading_id at a time.                                  *)
(***************************************************************************)
BodyHeading ==
  /\ pc = "body" /\ k <= Len(headings) /\ headings[k].heading_id # NoId
  /\ candidate' = headings[k].heading_id
  /\ pc' = "unique"
  /\ UNCHANGED <<headings, k, toc, heading_ids, emitted, renders>>

BodySkip ==
  /\ pc = "body" /\ k <= Len(headings) /\ headings[k].heading_id = NoId
  /\ k' = k + 1
  /\ UNCHANGED <<pc, headings, toc, table, emitted, renders>>

Seen == DOMAIN heading_ids

Put(id, n) == [i \in Seen \cup {id} |-> IF i = id THEN n ELSE heading_ids[i]]

Numbered == Append(candidate, heading_ids[candidate] + 1)

UniqueNumber ==
  /\ pc = "unique" /\ candidate \in Seen /\ Numbered \notin Seen
  /\ heading_ids' = Put(candidate, heading_ids[candidate] + 1)
  /\ candidate' = Numbered
  /\ UNCHANGED <<pc, headings, k, toc, emitted, renders>>

UniqueRetrySame ==                                               \* mutant
  /\ pc = "unique" /\ candidate \in Seen /\ Numbered \in Seen
  /\ UNCHANGED vars

\* The numbered id is taken too: upstream appends -1 and tries again.
UniqueRetry ==
  /\ pc = "unique" /\ candidate \in Seen /\ Numbered \in Seen
  /\ candidate' = Append(candidate, 1)
  /\ UNCHANGED <<pc, headings, k, toc, heading_ids, emitted, renders>>

EmitUnrecorded ==                                                \* mutant
  /\ pc = "unique" /\ candidate \notin Seen
  /\ emitted' = Append(emitted, Written(candidate))
  /\ k' = k + 1
  /\ pc' = "body"
  /\ UNCHANGED <<headings, toc, table, renders>>

\* The loop ends: the id is recorded and written, between prefix and suffix.
Emit ==
  /\ pc = "unique" /\ candidate \notin Seen
  /\ heading_ids' = Put(candidate, 0)
  /\ emitted' = Append(emitted, Written(candidate))
  /\ k' = k + 1
  /\ pc' = "body"
  /\ UNCHANGED <<headings, toc, candidate, renders>>

BodyEnd ==
  /\ pc = "body" /\ k > Len(headings)
  /\ pc' = "idle"
  /\ UNCHANGED <<headings, k, toc, table, emitted, renders>>

Next ==
  \/ Render
  \/ TocEnter \/ TocLeave \/ TocSkip \/ TocEnd
  \/ BodyHeading \/ BodySkip \/ UniqueNumber \/ UniqueRetry \/ Emit \/ BodyEnd

Spec == Init /\ [][Next]_vars /\ WF_vars(pc # "idle" /\ Next)

-----------------------------------------------------------------------------
\* The contents are well nested wherever levels jump to: no tag closes another's
\* element, toc_level counts the open lists, and the contents end closed.
ContentsNested ==
  /\ ~crossed
  /\ pc = "toc" => open = Times(toc_level, <<"ul", "li">>)
  /\ pc \in {"body", "unique", "idle"} => open = << >>

\* No two headings of a document carry the same id, whatever ids the text gives
\* and however the numbered ones clash with them.
IdsUnique ==
  \A i, j \in DOMAIN emitted : emitted[i] = emitted[j] => i = j

\* The table counts what it handed out: when an id has been numbered up to n,
\* each of its n numbered forms is taken, so counting on from n never reuses one.
CountsTaken ==
  \A id \in Seen : \A n \in 1..heading_ids[id] :
    Append(id, n) \in Seen \/ (pc = "unique" /\ Append(id, n) = candidate)

\* The contents link to headings of this document: what markdown.rs says the
\* renaming is for, "so that the anchors it emits resolve".
AnchorsResolve ==
  pc = "idle" => \A h \in hrefs : \E j \in DOMAIN emitted : emitted[j] = h

\* They do for the first document a renderer is given, when no prefix or suffix
\* is set: the names of the contents survive being made unique.
FirstAnchorsResolve == renders = 1 /\ ~Prefixed => AnchorsResolve

\* Every render ends: the loop finds a free id however many are taken.
RendersEnd == (pc # "idle") ~> (pc = "idle")
=============================================================================
