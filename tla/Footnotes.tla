----------------------------- MODULE Footnotes -----------------------------
(***************************************************************************)
(* Footnotes, from the reference in the text to the numbered list at the   *)
(* end of the document: the shared references of src/markdown.rs (refs,    *)
(* notes, get_ref_handle), the footnote branches of link in src/inline.rs, *)
(* the inline walk of parse and the queue loop of parse_refs_to_ast.       *)
(*                                                                         *)
(* The parser keeps a table from ids to references and a queue of          *)
(* references.  Both hold handles to the same mutable record, so writing   *)
(* through one is seen through the other; a note is read when its turn in  *)
(* the queue comes, and reading it may queue more notes.                   *)
(*                                                                         *)
(* A text is abstracted to the references it contains.  The text of id 0   *)
(* is that of an inline footnote, ^[...]; Plain is a text with none.       *)
(***************************************************************************)
EXTENDS Integers, Sequences, FiniteSets

CONSTANTS N,            \* ids are 1..N
          Overridings,  \* ids the reference-override callback may answer: sets of them
          MaxPieces,    \* references and definitions in a note's text
          MaxDocRefs,   \* references in the document's own text
          MaxItems      \* Item nodes allocated: bounds the endless runs

ASSUME FootnoteAssumption ==
  /\ N \in Nat /\ MaxPieces \in Nat /\ MaxDocRefs \in Nat /\ MaxItems \in Nat
  /\ Overridings \subseteq SUBSET (1..N)

Ids == 1..N
Plain == N + 1
Absent == 0
Items == 1..MaxItems

(***************************************************************************)
(* What a text holds: the references in its paragraphs and in its table    *)
(* cells, in order, and the ids it defines.  A note whose text is one line *)
(* is inline; only one that spans lines (has_block) can hold a cell or a   *)
(* definition.                                                             *)
(***************************************************************************)
References == UNION {[1..k -> 0..N] : k \in 0..MaxPieces}
Text == {t \in [has_block : BOOLEAN, paragraph : References, cell : References,
                definition : SUBSET Ids] :
           /\ Len(t.paragraph) + Len(t.cell) + Cardinality(t.definition) <= MaxPieces
           /\ ~t.has_block => t.cell = << >> /\ t.definition = {}}
InlineText == {t \in Text : ~t.has_block /\ \A k \in DOMAIN t.paragraph : t.paragraph[k] # 0}
PlainText == [has_block |-> FALSE, paragraph |-> << >>, cell |-> << >>, definition |-> {}]

VARIABLES
  overridden, \* ids the callback answers, constant once chosen
  text,       \* the text each id is defined with, constant once chosen
  refs,       \* p.refs: id -> handle, or Absent
  handles,    \* the InternalReference records behind the handles
  notes,      \* p.notes: the queue of handles
  links,      \* footnote links made, in order
  items,      \* Item nodes allocated so far
  list,       \* the children of the footnotes List
  bodies,     \* how many times the note's text was appended to each Item
  paragraphs, \* content of paragraphs under each Item, not yet inlined
  cells,      \* content of table cells under each Item, not yet inlined
  pc, i,      \* phase of parse, and index into notes
  rest        \* references left in the text inline is reading

vars == <<overridden, text, refs, handles, notes, links, items, list, bodies, paragraphs, cells,
          pc, i, rest>>
tree == <<list, bodies, paragraphs, cells>>

Record(t) == [note_id |-> 0, text |-> t, footnote |-> Absent]

Init ==
  /\ overridden \in Overridings
  /\ text \in {f \in [0..Plain -> Text] : f[0] \in InlineText /\ f[Plain] = PlainText}
  /\ refs \in {f \in [Ids -> {Absent} \cup Ids] : \A id \in Ids : f[id] \in {Absent, id}}
  /\ \A id \in Ids : refs[id] = Absent \/ id \in overridden => text[id] = PlainText
  /\ handles = [h \in Ids |-> Record(h)]
  /\ notes = << >> /\ links = << >>
  /\ items = 0 /\ list = << >>
  /\ bodies = [n \in Items |-> 0]
  /\ paragraphs = [n \in Items |-> << >>]
  /\ cells = [n \in Items |-> << >>]
  /\ pc = "document" /\ i = 1 /\ rest = << >>

-----------------------------------------------------------------------------
(***************************************************************************)
(* One reference read by link: the Item is allocated before the id is      *)
(* looked up.  A deferred footnote writes through the handle it got, so    *)
(* every queue entry of the same id now names the new Item; an inline      *)
(* footnote and an overridden id get a handle nothing else shares.         *)
(***************************************************************************)
Number == Len(notes) + 1

Queued(hs, h) ==
  /\ handles' = [hs EXCEPT ![h].note_id = Number, ![h].footnote = items + 1]
  /\ notes' = Append(notes, h)
  /\ links' = Append(links, [note_id |-> Number, handle |-> h, footnote |-> items + 1])

QueuedFresh(t) == Queued(Append(handles, Record(t)), Len(handles) + 1)

QueuedCopied(id) == QueuedFresh(handles[refs[id]].text)          \* mutant

QueuedShared(id) == Queued(handles, refs[id])

Reference(id) ==
  /\ items < MaxItems
  /\ items' = items + 1
  /\ \/ id = 0 /\ QueuedFresh(0)
     \/ id \in overridden /\ QueuedFresh(Plain)
     \/ id \in Ids \ overridden /\ refs[id] # Absent /\ QueuedShared(id)
     \/ id \in Ids \ overridden /\ refs[id] = Absent /\ UNCHANGED <<handles, notes, links>>

\* The inline walk over the document meets a footnote reference.
DocumentReference ==
  /\ pc = "document"
  /\ items < MaxDocRefs
  /\ \E id \in 0..N : Reference(id)
  /\ UNCHANGED <<overridden, text, refs, tree, pc, i, rest>>

\* parse_refs_to_ast adds the List, or returns when nothing is queued.
StartNotes ==
  /\ pc = "document"
  /\ pc' = IF notes = << >> THEN "done" ELSE "notes"
  /\ UNCHANGED <<overridden, text, refs, handles, notes, links, items, tree, i, rest>>

-----------------------------------------------------------------------------
(***************************************************************************)
(* One turn of the queue loop.  The handle is read now, not when the entry *)
(* was queued; add_existing_child moves an Item attached before to the end.*)
(***************************************************************************)
Entry == handles[notes[i]]

Detached(n) ==
  IF \E k \in DOMAIN list : list[k] = n
    THEN LET k == CHOOSE k \in DOMAIN list : list[k] = n
         IN SubSeq(list, 1, k - 1) \o SubSeq(list, k + 1, Len(list))
    ELSE list

AttachedFirst(n) == <<n>> \o Detached(n)                         \* mutant

Attached(n) == Append(Detached(n), n)

DefinesInPlace(defined) ==                                       \* mutant
  /\ handles' = [h \in DOMAIN handles |->
       IF \E id \in defined : refs[id] = h
         THEN [handles[h] EXCEPT !.text = Plain] ELSE handles[h]]
  /\ UNCHANGED refs

\* is_reference: a definition gives its id a new handle, and whoever holds the
\* old one keeps it.
Define(defined) ==
  LET handleOf(id) == Len(handles) + Cardinality({d \in defined : d <= id})
  IN /\ refs' = [id \in Ids |-> IF id \in defined THEN handleOf(id) ELSE refs[id]]
     /\ handles' = handles \o [k \in 1..Cardinality(defined) |-> Record(Plain)]

\* self.inline on the Item itself: its references are read one by one.
Inlines(t) ==
  /\ rest' = text[t].paragraph
  /\ UNCHANGED <<paragraphs, cells, refs, handles>>

BlocksInlined(n, t) == Inlines(t)                                \* mutant

\* self.block: raw content is kept for a later walk, definitions take effect.
Blocks(n, t) ==
  /\ paragraphs' = [paragraphs EXCEPT ![n] = @ \o text[t].paragraph]
  /\ cells' = [cells EXCEPT ![n] = @ \o text[t].cell]
  /\ Define(text[t].definition)
  /\ rest' = << >>

Advance == i + 1

NextNote ==
  /\ pc = "notes" /\ rest = << >> /\ i <= Len(notes)
  /\ LET n == Entry.footnote  t == Entry.text IN
       /\ list' = Attached(n)
       /\ bodies' = [bodies EXCEPT ![n] = @ + 1]
       /\ IF text[t].has_block THEN Blocks(n, t) ELSE Inlines(t)
  /\ i' = Advance
  /\ UNCHANGED <<overridden, text, notes, links, items, pc>>

\* A reference inside an inline note queues behind every other note.
NoteReference ==
  /\ pc = "notes" /\ rest # << >>
  /\ Reference(Head(rest))
  /\ rest' = Tail(rest)
  /\ UNCHANGED <<overridden, text, refs, tree, pc, i>>

EndNotes ==
  /\ pc = "notes" /\ rest = << >> /\ i > Len(notes)
  /\ pc' = "walk"
  /\ UNCHANGED <<overridden, text, refs, handles, notes, links, items, tree, i, rest>>

\* The last walk inlines the paragraphs under the List, in order.
Unread == {k \in DOMAIN list : paragraphs[list[k]] # << >>}

WalkParagraph ==
  /\ pc = "walk"
  /\ \E k \in Unread :
       /\ \A j \in Unread : k <= j
       /\ Reference(Head(paragraphs[list[k]]))
       /\ paragraphs' = [paragraphs EXCEPT ![list[k]] = Tail(@)]
  /\ UNCHANGED <<overridden, text, refs, list, bodies, cells, pc, i, rest>>

EndWalk ==
  /\ pc = "walk" /\ Unread = {}
  /\ pc' = "done"
  /\ UNCHANGED <<overridden, text, refs, handles, notes, links, items, tree, i, rest>>

Next ==
  \/ DocumentReference \/ StartNotes
  \/ NextNote \/ NoteReference \/ EndNotes
  \/ WalkParagraph \/ EndWalk

\* One thread runs parse to its end.
Spec == Init /\ [][Next]_vars /\ WF_vars(Next)

-----------------------------------------------------------------------------
QueuedOnce == \A j, k \in DOMAIN notes : notes[j] = notes[k] => j = k

FollowOrder ==
  QueuedOnce =>
    \A k \in DOMAIN links :
      links[k].note_id < i => list[links[k].note_id] = links[k].footnote

EntriesFor(id) == {k \in DOMAIN notes : handles[notes[k]].text = id}

RepeatsShareItem ==
  (pc = "done" /\ \A t \in 0..N : text[t].paragraph = << >>) =>
    \A id \in Ids : EntriesFor(id) # {} =>
      \E n \in 1..items :
        /\ {handles[notes[k]].footnote : k \in EntriesFor(id)} = {n}
        /\ Cardinality({m \in DOMAIN list : list[m] = n}) = 1
        /\ bodies[n] = Cardinality(EntriesFor(id))

Unlisted == {k \in DOMAIN notes : k >= i}

BlockNotesRefer ==
  \E t \in 0..N : text[t].has_block /\ text[t].paragraph # << >>

\* Readers find the right note under the number they clicked.  When no note is
\* referenced twice, the list's n-th Item is the one the link numbered n refers to,
\* for every note the loop has reached.  A repeated id is what the comment in link
\* says of it, "a single <li> with its body repeated", while no note's text queues
\* more.  And a finished document leaves a numbered note out of the list only when
\* a note that spans lines refers to one: the walk after the queue loop found it.
NumbersMatchList ==
  /\ FollowOrder
  /\ RepeatsShareItem
  /\ pc = "done" /\ notes # << >> /\ Unlisted # {} => BlockNotesRefer

\* The text of a redefined id never reaches an entry queued before: what the loop
\* attaches at i is what entry i was queued for (handles are never re-pointed).
EntriesKeepText ==
  [][\A k \in DOMAIN notes :
       notes'[k] = notes[k] /\ handles'[notes[k]].text = handles[notes[k]].text]_vars

Inlined(a, b) ==
  /\ ~text[a].has_block
  /\ \E k \in DOMAIN text[a].paragraph : text[a].paragraph[k] = b

InlineCycle ==
  ~\E rank \in [0..N -> 0..N] :
     \A a, b \in 0..N : Inlined(a, b) => rank[a] > rank[b]

\* The queue loop ends unless the notes on some cycle of references are all
\* one-line notes: a cycle broken by a block-bodied note does not loop.
EventuallyDone == (~InlineCycle) ~> (pc = "done")
=============================================================================
