--------------------------- MODULE FootnoteProofs ---------------------------
(***************************************************************************)
(* What is proved about Footnotes, for any number of ids, any texts and    *)
(* any number of references: EntriesKeepText, and NumbersMatchList with    *)
(* its three parts.                                                        *)
(*                                                                         *)
(* The invariant FootInv says that handles are aliased only the way the    *)
(* code means it: the record behind a queued handle names the Item of the  *)
(* last link that queued it, every link has an Item of its own, and, while *)
(* no paragraph of a note refers to a note, the loop has appended to every *)
(* Item one body per entry that names it.                                  *)
(***************************************************************************)
EXTENDS Footnotes, SequenceTheorems, FiniteSetTheorems, TLAPS

Handle == [note_id : Nat, text : 0..Plain, footnote : Nat]
Link == [note_id : Nat, handle : Nat, footnote : Nat]

Shape ==
  /\ overridden \subseteq Ids
  /\ text \in [0..Plain -> Text] /\ text[Plain] = PlainText
  /\ handles \in Seq(Handle)
  /\ refs \in [Ids -> 0..Len(handles)]
  /\ notes \in Seq(Nat) /\ \A k \in DOMAIN notes : notes[k] \in DOMAIN handles
  /\ links \in Seq(Link)
  /\ items \in 0..MaxItems
  /\ list \in Seq(Items)
  /\ bodies \in [Items -> Nat]
  /\ paragraphs \in [Items -> Seq(0..N)]
  /\ pc \in {"document", "notes", "walk", "done"}
  /\ i \in 1..Len(notes) + 1
  /\ rest \in Seq(0..N)

\* The first N handles are those of the ids, and no other has an id's text.
Originals ==
  /\ N <= Len(handles)
  /\ \A h \in DOMAIN handles :
       /\ h \in Ids => handles[h].text = h
       /\ h \notin Ids => handles[h].text \notin Ids

\* Entry k was queued by the link numbered k, and its handle names the Item of
\* the last link of the same handle.
Recorded ==
  /\ Len(links) = Len(notes)
  /\ \A k \in DOMAIN links :
       /\ links[k].note_id = k /\ links[k].handle = notes[k]
       /\ links[k].footnote \in 1..items
  /\ \A j, k \in DOMAIN links : links[j].footnote = links[k].footnote => j = k
  /\ \A k \in DOMAIN notes : \E j \in DOMAIN notes :
       /\ k <= j /\ notes[j] = notes[k]
       /\ handles[notes[k]].footnote = links[j].footnote

\* Nothing is in the list twice, and without repeated entries it has the Items
\* of the links, in order, up to the entry the loop has reached.
Listed ==
  /\ \A j, k \in DOMAIN list : list[j] = list[k] => j = k
  /\ QueuedOnce => /\ Len(list) = i - 1
                   /\ \A k \in DOMAIN list : list[k] = links[k].footnote

Unstarted ==
  pc = "document" =>
    /\ i = 1 /\ list = << >> /\ rest = << >>
    /\ \A n \in Items : bodies[n] = 0

\* Only the paragraphs of a note that spans lines are left to the last walk.
Walked ==
  /\ \A n \in Items : paragraphs[n] # << >> => BlockNotesRefer
  /\ pc \in {"walk", "done"} => i > Len(notes) \/ BlockNotesRefer

Naming(n) == {k \in 1..i - 1 : handles[notes[k]].footnote = n}
Quiet == \A t \in 0..N : text[t].paragraph = << >>

Tallied ==
  Quiet =>
    /\ rest = << >>
    /\ \A n \in Items :
         /\ bodies[n] = Cardinality(Naming(n))
         /\ Naming(n) # {} => \E m \in DOMAIN list : list[m] = n

FootInv == Shape /\ Originals /\ Recorded /\ Listed /\ Unstarted /\ Walked /\ Tallied

-----------------------------------------------------------------------------
\* What SubSeq takes from inside a sequence.
LEMMA Slice ==
  ASSUME NEW S, NEW s \in Seq(S), NEW x \in Int, NEW y \in Int, 1 <= x, y <= Len(s), x <= y + 1
  PROVE  /\ SubSeq(s, x, y) \in Seq(S) /\ Len(SubSeq(s, x, y)) = y - x + 1
         /\ \A k \in 1..y - x + 1 : SubSeq(s, x, y)[k] = s[x + k - 1]
<1>1. \A k \in x..y : s[k] \in S
  OBVIOUS
<1>2. /\ SubSeq(s, x, y) \in Seq(S)
      /\ Len(SubSeq(s, x, y)) = IF x <= y THEN y - x + 1 ELSE 0
      /\ \A k \in 1..y - x + 1 : SubSeq(s, x, y)[k] = s[x + k - 1]
  BY <1>1, SubSeqProperties
<1> QED BY <1>2

\* A sequence with one element taken out.
LEMMA CutOut ==
  ASSUME NEW S, NEW s \in Seq(S), NEW at \in 1..Len(s)
  PROVE  LET d == SubSeq(s, 1, at - 1) \o SubSeq(s, at + 1, Len(s)) IN
         /\ d \in Seq(S) /\ Len(d) = Len(s) - 1
         /\ \A k \in 1..Len(s) - 1 : /\ k < at => d[k] = s[k]
                                     /\ ~(k < at) => d[k] = s[k + 1]
<1> DEFINE p == SubSeq(s, 1, at - 1)
           q == SubSeq(s, at + 1, Len(s))
           d == p \o q
<1>1. Len(s) \in Nat /\ at \in Int /\ 1 <= at /\ at <= Len(s)
  OBVIOUS
<1>2. p \in Seq(S) /\ Len(p) = at - 1 /\ \A k \in 1..at - 1 : p[k] = s[k]
  <2>1. PICK x \in Int, y \in Int : x = 1 /\ y = at - 1
    BY <1>1
  <2>2. /\ SubSeq(s, x, y) \in Seq(S) /\ Len(SubSeq(s, x, y)) = y - x + 1
        /\ \A k \in 1..y - x + 1 : SubSeq(s, x, y)[k] = s[x + k - 1]
    BY <1>1, <2>1, Slice
  <2>3. p = SubSeq(s, x, y)
    BY <2>1
  <2> HIDE DEF p
  <2>4. ASSUME NEW k \in 1..at - 1  PROVE p[k] = s[k]
    <3>1. k \in 1..y - x + 1 /\ x + k - 1 = k
      BY <1>1, <2>1
    <3> QED BY <2>2, <2>3, <3>1
  <2> QED BY <1>1, <2>1, <2>2, <2>3, <2>4
<1>3. q \in Seq(S) /\ Len(q) = Len(s) - at /\ \A k \in 1..Len(s) - at : q[k] = s[at + k]
  <2>1. PICK x \in Int, y \in Int : x = at + 1 /\ y = Len(s)
    BY <1>1
  <2>2. /\ SubSeq(s, x, y) \in Seq(S) /\ Len(SubSeq(s, x, y)) = y - x + 1
        /\ \A k \in 1..y - x + 1 : SubSeq(s, x, y)[k] = s[x + k - 1]
    BY <1>1, <2>1, Slice
  <2>3. q = SubSeq(s, x, y)
    BY <2>1
  <2> HIDE DEF q
  <2>4. ASSUME NEW k \in 1..Len(s) - at  PROVE q[k] = s[at + k]
    <3>1. k \in 1..y - x + 1 /\ x + k - 1 = at + k
      BY <1>1, <2>1
    <3> QED BY <2>2, <2>3, <3>1
  <2> QED BY <1>1, <2>1, <2>2, <2>3, <2>4
<1>4. d = p \o q
  OBVIOUS
<1> HIDE DEF p, q, d
<1>5. /\ d \in Seq(S) /\ Len(d) = Len(p) + Len(q)
      /\ \A k \in 1..Len(p) + Len(q) : d[k] = IF k <= Len(p) THEN p[k] ELSE q[k - Len(p)]
  BY <1>2, <1>3, <1>4, ConcatProperties
<1>6. ASSUME NEW k \in 1..Len(s) - 1, k < at  PROVE d[k] = s[k]
  <2>1. k \in 1..Len(p) + Len(q) /\ k <= Len(p) /\ k \in 1..at - 1
    BY <1>1, <1>2, <1>3, <1>6
  <2> QED BY <1>2, <1>5, <2>1
<1>7. ASSUME NEW k \in 1..Len(s) - 1, ~(k < at)  PROVE d[k] = s[k + 1]
  <2>1. /\ k \in 1..Len(p) + Len(q) /\ ~(k <= Len(p))
        /\ k - Len(p) \in 1..Len(s) - at /\ at + (k - Len(p)) = k + 1
    BY <1>1, <1>2, <1>3, <1>7
  <2>2. d[k] = q[k - Len(p)]
    BY <1>5, <2>1
  <2> QED BY <1>3, <2>1, <2>2
<1>8. Len(d) = Len(s) - 1
  BY <1>1, <1>2, <1>3, <1>5
<1> QED BY <1>5, <1>6, <1>7, <1>8 DEF d, p, q

\* Unlinking an Item keeps the others, in order: append_child's first half.
LEMMA DetachedList ==
  ASSUME list \in Seq(Items), \A j, k \in DOMAIN list : list[j] = list[k] => j = k, NEW n
  PROVE  /\ Detached(n) \in Seq(Items)
         /\ \A k \in DOMAIN Detached(n) : Detached(n)[k] # n
         /\ \A j, k \in DOMAIN Detached(n) : Detached(n)[j] = Detached(n)[k] => j = k
         /\ \A m \in DOMAIN list : list[m] # n =>
              \E k \in DOMAIN Detached(n) : Detached(n)[k] = list[m]
         /\ (\A k \in DOMAIN list : list[k] # n) => Detached(n) = list
<1>1. CASE \A k \in DOMAIN list : list[k] # n
  BY <1>1 DEF Detached
<1>2. CASE \E k \in DOMAIN list : list[k] = n
  <2>1. PICK at \in DOMAIN list :
          /\ list[at] = n
          /\ Detached(n) = SubSeq(list, 1, at - 1) \o SubSeq(list, at + 1, Len(list))
    BY <1>2 DEF Detached
  <2> DEFINE d == Detached(n)  L == Len(list)
  <2>2. at \in 1..L /\ L \in Nat /\ DOMAIN list = 1..L
    OBVIOUS
  <2>3. /\ d \in Seq(Items) /\ Len(d) = L - 1
        /\ \A k \in 1..L - 1 : /\ k < at => d[k] = list[k]
                               /\ ~(k < at) => d[k] = list[k + 1]
    <3>1. at \in 1..Len(list) /\ list \in Seq(Items)
      OBVIOUS
    <3>2. LET e == SubSeq(list, 1, at - 1) \o SubSeq(list, at + 1, Len(list)) IN
          /\ e \in Seq(Items) /\ Len(e) = Len(list) - 1
          /\ \A k \in 1..Len(list) - 1 : /\ k < at => e[k] = list[k]
                                         /\ ~(k < at) => e[k] = list[k + 1]
      BY ONLY <3>1, CutOut
    <3> QED BY <2>1, <3>2
  <2> HIDE DEF d, L
  <2>5. d \in Seq(Items) /\ Len(d) = L - 1 /\ DOMAIN d = 1..L - 1
    BY <2>3
  <2>6. \A k \in 1..L - 1 : /\ k < at => d[k] = list[k]
                            /\ ~(k < at) => d[k] = list[k + 1]
    BY <2>3
  <2>7. \A k \in DOMAIN d : \E m \in DOMAIN list :
          d[k] = list[m] /\ m # at /\ (m < at => m = k) /\ (m > at => m = k + 1)
    <3> SUFFICES ASSUME NEW k \in 1..L - 1
                 PROVE  \E m \in DOMAIN list : d[k] = list[m] /\ m # at
                           /\ (m < at => m = k) /\ (m > at => m = k + 1)
      BY <2>5
    <3>1. CASE k < at
      <4>1. k \in DOMAIN list /\ k # at /\ ~(k > at)
        BY <2>2, <3>1
      <4>2. d[k] = list[k]
        BY <2>6, <3>1
      <4> QED BY <4>1, <4>2
    <3>2. CASE ~(k < at)
      <4>1. k + 1 \in DOMAIN list /\ k + 1 # at /\ ~(k + 1 < at)
        BY <2>2, <3>2
      <4>2. d[k] = list[k + 1]
        BY <2>6, <3>2
      <4> QED BY <4>1, <4>2
    <3> QED BY <3>1, <3>2
  <2>8. /\ \A k \in DOMAIN d : d[k] # n
        /\ \A j, k \in DOMAIN d : d[j] = d[k] => j = k
    <3>1. ASSUME NEW k \in DOMAIN d  PROVE d[k] # n
      BY <2>1, <2>7
    <3>2. ASSUME NEW j \in DOMAIN d, NEW k \in DOMAIN d, d[j] = d[k]  PROVE j = k
      <4>1. PICK x \in DOMAIN list :
              d[j] = list[x] /\ x # at /\ (x < at => x = j) /\ (x > at => x = j + 1)
        BY <2>7
      <4>2. PICK y \in DOMAIN list :
              d[k] = list[y] /\ y # at /\ (y < at => y = k) /\ (y > at => y = k + 1)
        BY <2>7
      <4>3. x = y
        BY <3>2, <4>1, <4>2
      <4>4. x \in Nat /\ at \in Nat /\ j \in Nat /\ k \in Nat
        BY <2>2, <2>5
      <4> QED BY <4>1, <4>2, <4>3, <4>4
    <3> QED BY <3>1, <3>2
  <2>9. ASSUME NEW m \in DOMAIN list, list[m] # n  PROVE \E k \in DOMAIN d : d[k] = list[m]
    <3>1. CASE m < at
      <4>1. m \in 1..L - 1
        BY <2>2, <3>1
      <4>2. d[m] = list[m]
        BY <2>6, <3>1, <4>1
      <4> QED BY <2>5, <4>1, <4>2
    <3>2. CASE m > at
      <4>1. m - 1 \in 1..L - 1 /\ ~(m - 1 < at) /\ (m - 1) + 1 = m
        BY <2>2, <3>2
      <4>2. d[m - 1] = list[m]
        BY <2>6, <4>1
      <4> QED BY <2>5, <4>1, <4>2
    <3> QED BY <2>1, <2>2, <2>9, <3>1, <3>2
  <2> QED BY <1>2, <2>5, <2>8, <2>9 DEF d
<1> QED BY <1>1, <1>2

\* add_existing_child leaves the Item last, once, and the others in place.
LEMMA AttachedList ==
  ASSUME list \in Seq(Items), \A j, k \in DOMAIN list : list[j] = list[k] => j = k,
         NEW n \in Items
  PROVE  /\ Attached(n) \in Seq(Items)
         /\ \A j, k \in DOMAIN Attached(n) : Attached(n)[j] = Attached(n)[k] => j = k
         /\ \E k \in DOMAIN Attached(n) : Attached(n)[k] = n
         /\ \A m \in DOMAIN list : \E k \in DOMAIN Attached(n) : Attached(n)[k] = list[m]
         /\ (\A k \in DOMAIN list : list[k] # n) => Attached(n) = Append(list, n)
<1> DEFINE d == Detached(n)  a == Attached(n)
<1>1. /\ d \in Seq(Items)
      /\ \A k \in DOMAIN d : d[k] # n
      /\ \A j, k \in DOMAIN d : d[j] = d[k] => j = k
      /\ \A m \in DOMAIN list : list[m] # n => \E k \in DOMAIN d : d[k] = list[m]
      /\ (\A k \in DOMAIN list : list[k] # n) => d = list
  BY DetachedList
<1>2. a = Append(d, n)
  BY DEF Attached
<1> HIDE DEF d, a
<1>3. /\ a \in Seq(Items) /\ DOMAIN d = 1..Len(d) /\ DOMAIN a = 1..Len(d) + 1 /\ Len(d) \in Nat
      /\ a[Len(d) + 1] = n /\ \A k \in 1..Len(d) : a[k] = d[k]
  BY <1>1, <1>2
<1>4. \A j, k \in DOMAIN a : a[j] = a[k] => j = k
  BY <1>1, <1>3
<1>5. ASSUME NEW m \in DOMAIN list  PROVE \E k \in DOMAIN a : a[k] = list[m]
  <2>1. CASE list[m] = n
    BY <1>3, <2>1
  <2>2. CASE list[m] # n
    BY <1>1, <1>3, <2>2
  <2> QED BY <2>1, <2>2
<1>6. \E k \in DOMAIN a : a[k] = n
  BY <1>3
<1> QED BY <1>1, <1>2, <1>3, <1>4, <1>5, <1>6 DEF a

-----------------------------------------------------------------------------
\* What a reference may do to what is queued: records are added and rewritten,
\* never given another text, and the queue and the links only grow.
Grown ==
  /\ handles' \in Seq(Handle) /\ Len(handles) <= Len(handles')
  /\ \A g \in DOMAIN handles : handles'[g].text = handles[g].text
  /\ notes' \in Seq(Nat) /\ \A k \in DOMAIN notes' : notes'[k] \in DOMAIN handles'
  /\ Len(notes) <= Len(notes') /\ \A k \in DOMAIN notes : notes'[k] = notes[k]
  /\ links' \in Seq(Link) /\ \A k \in DOMAIN links : links'[k] = links[k]
  /\ items' \in 0..MaxItems

Renumbered(hs, h, n, item) == [hs EXCEPT ![h].note_id = n, ![h].footnote = item]

LEMMA RenumberedRecords ==
  ASSUME NEW hs \in Seq(Handle), NEW h \in DOMAIN hs, NEW n \in Nat, NEW item \in Nat
  PROVE  /\ Renumbered(hs, h, n, item) \in Seq(Handle)
         /\ Len(Renumbered(hs, h, n, item)) = Len(hs)
         /\ DOMAIN Renumbered(hs, h, n, item) = DOMAIN hs
         /\ Renumbered(hs, h, n, item)[h].footnote = item
         /\ \A g \in DOMAIN hs :
              /\ Renumbered(hs, h, n, item)[g].text = hs[g].text
              /\ g # h => Renumbered(hs, h, n, item)[g] = hs[g]
<1> DEFINE r == [hs[h] EXCEPT !.note_id = n, !.footnote = item]
           new == Renumbered(hs, h, n, item)
<1>1. new = [hs EXCEPT ![h] = r]
  BY DEF Renumbered
<1>2. hs[h] \in Handle
  OBVIOUS
<1>3. r \in Handle /\ r.text = hs[h].text /\ r.footnote = item
  BY <1>2 DEF Handle
<1> HIDE DEF r, new
<1>4. new \in Seq(Handle) /\ Len(new) = Len(hs) /\ DOMAIN new = DOMAIN hs
  BY <1>1, <1>3, ExceptSeq
<1>5. new[h] = r /\ \A g \in DOMAIN hs : g # h => new[g] = hs[g]
  BY <1>1, <1>4
<1> QED BY <1>3, <1>4, <1>5 DEF new

\* A queue entry is new, and so are its number and its Item.
LEMMA QueuedGrows ==
  ASSUME Shape, Originals, Recorded, items < MaxItems, items' = items + 1,
         UNCHANGED <<overridden, text, refs>>,
         NEW hs \in Seq(Handle), NEW h \in DOMAIN hs, Len(handles) <= Len(hs),
         \A g \in DOMAIN handles : hs[g] = handles[g],
         \A g \in DOMAIN hs \ DOMAIN handles : hs[g].text \notin Ids,
         Queued(hs, h)
  PROVE  Grown /\ Originals' /\ Recorded'
<1> DEFINE K == Len(notes) + 1
           new == Renumbered(hs, h, K, items + 1)
           link == [note_id |-> K, handle |-> h, footnote |-> items + 1]
<1>1. handles' = new /\ notes' = Append(notes, h) /\ links' = Append(links, link)
  BY DEF Queued, Renumbered, Number
<1>2. /\ K \in Nat /\ items \in Nat /\ items + 1 \in 1..MaxItems /\ MaxItems \in Nat
      /\ h \in 1..Len(hs) /\ DOMAIN handles = 1..Len(handles) /\ DOMAIN hs = 1..Len(hs)
      /\ Len(handles) \in Nat /\ Len(hs) \in Nat
  BY FootnoteAssumption DEF Shape
<1>3. /\ new \in Seq(Handle) /\ Len(new) = Len(hs) /\ DOMAIN new = DOMAIN hs
      /\ new[h].footnote = items + 1
      /\ \A g \in DOMAIN hs : /\ new[g].text = hs[g].text
                              /\ g # h => new[g] = hs[g]
  <2>1. PICK n \in Nat : n = K
    BY <1>2
  <2>2. PICK item \in Nat : item = items + 1
    BY <1>2
  <2> HIDE DEF K
  <2>3. new = Renumbered(hs, h, n, item)
    BY <2>1, <2>2
  <2> HIDE DEF new
  <2> QED BY <2>2, <2>3, RenumberedRecords
<1>4. link \in Link /\ link.note_id = K /\ link.handle = h /\ link.footnote = items + 1
  BY <1>2 DEF Link
<1> HIDE DEF new, link
<1>5. /\ notes' \in Seq(Nat) /\ Len(notes') = K /\ DOMAIN notes' = 1..K /\ notes'[K] = h
      /\ DOMAIN notes = 1..Len(notes) /\ \A k \in DOMAIN notes : notes'[k] = notes[k]
  BY <1>1, <1>2 DEF Shape
<1>6. /\ links' \in Seq(Link) /\ Len(links') = K /\ DOMAIN links' = 1..K /\ links'[K] = link
      /\ DOMAIN links = 1..Len(notes) /\ \A k \in DOMAIN links : links'[k] = links[k]
  <2>1. Len(links) = Len(notes) /\ links \in Seq(Link)
    BY DEF Recorded, Shape
  <2> QED BY <1>1, <1>4, <2>1
<1>7. \A k \in DOMAIN notes' : k \in DOMAIN notes \/ k = K
  BY <1>2, <1>5 DEF Shape
<1> HIDE DEF K
<1>8. \A k \in DOMAIN notes : notes[k] \in DOMAIN handles /\ notes[k] \in DOMAIN hs
  BY <1>2 DEF Shape
<1>9. Grown
  <2>1. \A g \in DOMAIN handles : handles'[g].text = handles[g].text
    BY <1>1, <1>2, <1>3
  <2>2. \A k \in DOMAIN notes' : notes'[k] \in DOMAIN handles'
    BY <1>1, <1>3, <1>5, <1>7, <1>8
  <2>3. Len(notes) <= Len(notes')
    BY <1>5 DEF K, Shape
  <2> QED BY <1>1, <1>2, <1>3, <1>5, <1>6, <2>1, <2>2, <2>3 DEF Grown
<1>10. Originals'
  <2>1. N <= Len(handles')
    BY <1>1, <1>2, <1>3, FootnoteAssumption DEF Originals
  <2>2. ASSUME NEW g \in DOMAIN handles'
        PROVE  (g \in Ids => handles'[g].text = g) /\ (g \notin Ids => handles'[g].text \notin Ids)
    <3>1. handles'[g].text = hs[g].text /\ g \in DOMAIN hs
      BY <1>1, <1>3
    <3>2. CASE g \in DOMAIN handles
      BY <3>1, <3>2 DEF Originals
    <3>3. CASE g \notin DOMAIN handles
      <4>1. g \notin Ids
        BY <1>2, <3>1, <3>3, FootnoteAssumption DEF Originals, Ids
      <4> QED BY <3>1, <3>3, <4>1
    <3> QED BY <3>2, <3>3
  <2> QED BY <2>1, <2>2 DEF Originals, Ids
<1>11. Recorded'
  <2>1. Len(links') = Len(notes')
    BY <1>5, <1>6
  <2>2. ASSUME NEW k \in DOMAIN links'
        PROVE  /\ links'[k].note_id = k /\ links'[k].handle = notes'[k]
               /\ links'[k].footnote \in 1..items'
    <3>1. CASE k = K
      BY <1>2, <1>4, <1>5, <1>6, <3>1
    <3>2. CASE k \in DOMAIN links
      <4>1. /\ links[k].note_id = k /\ links[k].handle = notes[k] /\ links[k].footnote \in 1..items
        BY <3>2 DEF Recorded
      <4>2. links'[k] = links[k] /\ notes'[k] = notes[k]
        BY <1>5, <1>6, <3>2
      <4>3. 1..items \subseteq 1..items'
        BY <1>2
      <4> QED BY <4>1, <4>2, <4>3
    <3> QED BY <1>5, <1>6, <1>7, <3>1, <3>2
  <2>3. ASSUME NEW j \in DOMAIN links', NEW k \in DOMAIN links',
               links'[j].footnote = links'[k].footnote
        PROVE  j = k
    <3>1. \A x \in DOMAIN links : /\ links'[x].footnote = links[x].footnote
                                  /\ links[x].footnote # items + 1
      <4>1. \A x \in DOMAIN links : links[x].footnote \in 1..items
        BY DEF Recorded
      <4>2. \A y \in 1..items : y # items + 1
        BY <1>2
      <4> QED BY <1>6, <4>1, <4>2
    <3>2. links'[K].footnote = items + 1
      BY <1>4, <1>6
    <3>3. (j \in DOMAIN links \/ j = K) /\ (k \in DOMAIN links \/ k = K)
      BY <1>5, <1>6, <1>7
    <3> QED BY <2>3, <3>1, <3>2, <3>3 DEF Recorded
  <2>4. ASSUME NEW k \in DOMAIN notes'
        PROVE  \E j \in DOMAIN notes' :
                 /\ k <= j /\ notes'[j] = notes'[k]
                 /\ handles'[notes'[k]].footnote = links'[j].footnote
    <3>1. CASE notes'[k] = h
      <4>1. K \in DOMAIN notes' /\ k <= K /\ notes'[K] = notes'[k]
        BY <1>2, <1>5, <3>1
      <4>2. handles'[h].footnote = links'[K].footnote
        BY <1>1, <1>3, <1>4, <1>6
      <4> QED BY <3>1, <4>1, <4>2
    <3>2. CASE notes'[k] # h
      <4>1. k \in DOMAIN notes
        BY <1>5, <1>7, <3>2
      <4>2. PICK j \in DOMAIN notes :
              /\ k <= j /\ notes[j] = notes[k]
              /\ handles[notes[k]].footnote = links[j].footnote
        BY <4>1 DEF Recorded
      <4>3. handles'[notes[k]] = handles[notes[k]]
        BY <1>1, <1>3, <1>5, <1>8, <3>2, <4>1
      <4>4. notes'[k] = notes[k] /\ notes'[j] = notes[j] /\ links'[j] = links[j]
        BY <1>5, <1>6, <4>1
      <4>5. j \in DOMAIN notes'
        BY <1>2, <1>5 DEF K
      <4> QED BY <4>2, <4>3, <4>4, <4>5
    <3> QED BY <3>1, <3>2
  <2> QED BY <2>1, <2>2, <2>3, <2>4 DEF Recorded
<1> QED BY <1>9, <1>10, <1>11

\* The same of a reference of any kind, known, unknown, inline or overridden.
LEMMA ReferenceGrows ==
  ASSUME Shape, Originals, Recorded, NEW id, Reference(id), UNCHANGED <<overridden, text, refs>>
  PROVE  Grown /\ Originals' /\ Recorded'
<1>1. items < MaxItems /\ items' = items + 1 /\ items \in Nat /\ MaxItems \in Nat
  BY FootnoteAssumption DEF Reference, Shape
<1>2. Ids = 1..N /\ N \in Nat /\ Plain = N + 1
  BY FootnoteAssumption DEF Ids, Plain
<1>3. ASSUME NEW t \in {0, Plain}, QueuedFresh(t)  PROVE Grown /\ Originals' /\ Recorded'
  <2> DEFINE hs == Append(handles, Record(t))  h == Len(handles) + 1
  <2>1. Record(t) \in Handle /\ Record(t).text = t
    BY <1>2 DEF Record, Handle, Absent
  <2>2. /\ hs \in Seq(Handle) /\ Len(hs) = h /\ h \in DOMAIN hs /\ Len(handles) <= Len(hs)
        /\ DOMAIN handles = 1..Len(handles) /\ DOMAIN hs = 1..h /\ hs[h] = Record(t)
        /\ \A g \in DOMAIN handles : hs[g] = handles[g]
    BY <2>1 DEF Shape
  <2>3. \A g \in DOMAIN hs \ DOMAIN handles : g = h
    BY <2>2 DEF Shape
  <2>4. t \notin Ids
    BY <1>2
  <2>5. Queued(hs, h)
    BY <1>3 DEF QueuedFresh
  <2> HIDE DEF hs, h
  <2> QED BY <1>1, <2>1, <2>2, <2>3, <2>4, <2>5, QueuedGrows
<1>4. ASSUME id \in Ids, refs[id] # Absent, QueuedShared(id)
      PROVE  Grown /\ Originals' /\ Recorded'
  <2>1. /\ handles \in Seq(Handle) /\ refs[id] \in DOMAIN handles
        /\ Len(handles) <= Len(handles)
    BY <1>4 DEF Shape, Absent
  <2>2. Queued(handles, refs[id])
    BY <1>4 DEF QueuedShared
  <2> QED BY <1>1, <2>1, <2>2, QueuedGrows
<1>5. ASSUME UNCHANGED <<handles, notes, links>>  PROVE Grown /\ Originals' /\ Recorded'
  <2>1. Originals'
    BY <1>5 DEF Originals
  <2>2. 1..items \subseteq 1..items' /\ items' \in 0..MaxItems
    BY <1>1
  <2>3. Recorded'
    BY <1>5, <2>2 DEF Recorded
  <2>4. Grown
    BY <1>5, <2>2 DEF Grown, Shape
  <2> QED BY <2>1, <2>3, <2>4
<1>6. \/ \E t \in {0, Plain} : QueuedFresh(t)
      \/ id \in Ids /\ refs[id] # Absent /\ QueuedShared(id)
      \/ UNCHANGED <<handles, notes, links>>
  BY DEF Reference
<1> QED BY <1>3, <1>4, <1>5, <1>6

\* is_reference gives new handles to what a note defines and touches no other.
LEMMA DefinedApart ==
  ASSUME Shape, Originals, NEW defined, defined \subseteq Ids, Define(defined)
  PROVE  /\ handles' \in Seq(Handle) /\ Len(handles) <= Len(handles')
         /\ \A h \in DOMAIN handles : handles'[h] = handles[h]
         /\ refs' \in [Ids -> 0..Len(handles')]
         /\ Originals'
<1> DEFINE C == Cardinality(defined)  new == [k \in 1..C |-> Record(Plain)]
           upto(id) == Cardinality({d \in defined : d <= id})
<1>1. Ids = 1..N /\ N \in Nat /\ Plain = N + 1 /\ IsFiniteSet(Ids)
  BY FootnoteAssumption, FS_Interval DEF Ids, Plain
<1>2. C \in Nat /\ IsFiniteSet(defined)
  BY <1>1, FS_Subset, FS_CardinalityType
<1>3. \A id \in Ids : upto(id) \in 0..C
  <2> SUFFICES ASSUME NEW id \in Ids  PROVE upto(id) \in 0..C
    OBVIOUS
  <2>1. {d \in defined : d <= id} \subseteq defined
    OBVIOUS
  <2>2. upto(id) \in Nat /\ upto(id) <= C
    BY <1>2, <2>1, FS_Subset, FS_CardinalityType
  <2> QED BY <1>2, <2>2
<1>4. Record(Plain) \in Handle /\ Record(Plain).text = Plain
  BY <1>1 DEF Record, Handle, Absent
<1>5. new \in Seq(Handle) /\ Len(new) = C /\ \A k \in 1..C : new[k] = Record(Plain)
  BY <1>2, <1>4, IsASeq
<1>6. /\ handles' = handles \o new
      /\ refs' = [id \in Ids |-> IF id \in defined THEN Len(handles) + upto(id) ELSE refs[id]]
  BY DEF Define
<1> HIDE DEF C, new, upto
<1>7. handles \in Seq(Handle) /\ Len(handles) \in Nat /\ DOMAIN handles = 1..Len(handles)
  BY DEF Shape
<1>8. /\ handles' \in Seq(Handle) /\ Len(handles') = Len(handles) + C
      /\ DOMAIN handles' = 1..Len(handles) + C
      /\ \A h \in DOMAIN handles : handles'[h] = handles[h]
      /\ \A h \in DOMAIN handles' \ DOMAIN handles : handles'[h] = Record(Plain)
  <2>1. handles' \in Seq(Handle) /\ Len(handles') = Len(handles) + Len(new)
    BY <1>5, <1>6, <1>7, ConcatProperties
  <2>2. ASSUME NEW h \in DOMAIN handles  PROVE handles'[h] = handles[h]
    BY <1>2, <1>5, <1>6, <1>7
  <2>3. ASSUME NEW h \in DOMAIN handles' \ DOMAIN handles  PROVE handles'[h] = Record(Plain)
    <3>1. h \in 1..Len(handles) + C /\ h > Len(handles)
      BY <1>2, <1>5, <1>7, <2>1
    <3>2. handles'[h] = new[h - Len(handles)]
      BY <1>2, <1>5, <1>6, <1>7, <3>1
    <3>3. h - Len(handles) \in 1..C
      BY <1>2, <1>7, <3>1
    <3> QED BY <1>5, <3>2, <3>3
  <2> QED BY <1>2, <1>5, <1>7, <2>1, <2>2, <2>3
<1>9. refs' \in [Ids -> 0..Len(handles')]
  <2> SUFFICES ASSUME NEW id \in Ids
               PROVE  (IF id \in defined THEN Len(handles) + upto(id) ELSE refs[id])
                         \in 0..Len(handles')
    BY <1>6
  <2>1. refs[id] \in 0..Len(handles) /\ upto(id) \in 0..C
    BY <1>3 DEF Shape
  <2> QED BY <1>2, <1>7, <1>8, <2>1
<1>10. Originals'
  <2>1. N <= Len(handles')
    BY <1>1, <1>2, <1>7, <1>8 DEF Originals
  <2>2. ASSUME NEW h \in DOMAIN handles'
        PROVE  (h \in Ids => handles'[h].text = h) /\ (h \notin Ids => handles'[h].text \notin Ids)
    <3>1. CASE h \in DOMAIN handles
      BY <1>8, <3>1 DEF Originals
    <3>2. CASE h \notin DOMAIN handles
      <4>1. h \notin Ids
        BY <1>1, <1>7, <1>8, <3>2 DEF Originals
      <4>2. handles'[h].text = Plain
        BY <1>4, <1>8, <3>2
      <4> QED BY <1>1, <4>1, <4>2
    <3> QED BY <3>1, <3>2
  <2> QED BY <2>1, <2>2 DEF Originals, Ids
<1> QED BY <1>2, <1>7, <1>8, <1>9, <1>10

\* A turn of the loop: which Item and which text it takes, and what happens to
\* the handles, whether the note is one line or many.
LEMMA TurnTaken ==
  ASSUME FootInv, NextNote
  PROVE  /\ i \in DOMAIN notes /\ Entry.footnote \in Items /\ Entry.footnote \in 1..items
         /\ Entry.text \in 0..Plain
         /\ handles' \in Seq(Handle) /\ Len(handles) <= Len(handles')
         /\ \A h \in DOMAIN handles : handles'[h] = handles[h]
         /\ refs' \in [Ids -> 0..Len(handles')]
         /\ Originals'
         /\ paragraphs' \in [Items -> Seq(0..N)]
         /\ \A n \in Items : paragraphs'[n] # << >> =>
              \/ paragraphs[n] # << >>
              \/ text[Entry.text].has_block /\ text[Entry.text].paragraph # << >>
         /\ rest' \in Seq(0..N) /\ rest' \in {<< >>, text[Entry.text].paragraph}
<1>1. i \in DOMAIN notes /\ notes[i] \in DOMAIN handles /\ Entry \in Handle
  BY DEF FootInv, Shape, NextNote, Entry
<1>2. Entry.text \in 0..Plain
  BY <1>1 DEF Handle
<1>3. Entry.footnote \in Items /\ Entry.footnote \in 1..items
  <2>1. PICK j \in DOMAIN notes : handles[notes[i]].footnote = links[j].footnote
    BY <1>1 DEF FootInv, Recorded
  <2>2. j \in DOMAIN links /\ items \in 0..MaxItems
    BY DEF FootInv, Recorded, Shape
  <2>3. Entry.footnote \in 1..items
    BY <2>1, <2>2 DEF FootInv, Recorded, Entry
  <2> QED BY <2>2, <2>3, FootnoteAssumption DEF Items
<1>4. text[Entry.text] \in Text
  BY <1>2 DEF FootInv, Shape
<1> DEFINE T == text[Entry.text]
<1>5. T.paragraph \in Seq(0..N) /\ T.definition \subseteq Ids
  <2>1. T \in [has_block : BOOLEAN, paragraph : References, cell : References,
               definition : SUBSET Ids]
    BY <1>4 DEF Text
  <2>2. T.paragraph \in References /\ T.definition \subseteq Ids
    BY <2>1
  <2>3. References \subseteq Seq(0..N)
    BY SeqDef, FootnoteAssumption DEF References
  <2> QED BY <2>2, <2>3
<1>6. CASE T.has_block
  <2>1. /\ paragraphs' = [paragraphs EXCEPT ![Entry.footnote] = @ \o T.paragraph]
        /\ Define(T.definition) /\ rest' = << >>
    BY <1>6 DEF NextNote, Blocks
  <2>2. /\ handles' \in Seq(Handle) /\ Len(handles) <= Len(handles')
        /\ \A h \in DOMAIN handles : handles'[h] = handles[h]
        /\ refs' \in [Ids -> 0..Len(handles')] /\ Originals'
    BY <1>5, <2>1, DefinedApart DEF FootInv
  <2>3. paragraphs' \in [Items -> Seq(0..N)]
    <3>1. paragraphs \in [Items -> Seq(0..N)]
      BY DEF FootInv, Shape
    <3>2. paragraphs[Entry.footnote] \o T.paragraph \in Seq(0..N)
      BY <1>3, <1>5, <3>1
    <3> QED BY <2>1, <3>1, <3>2
  <2>4. ASSUME NEW n \in Items, paragraphs'[n] # << >>, paragraphs[n] = << >>
        PROVE  T.has_block /\ T.paragraph # << >>
    <3>1. paragraphs \in [Items -> Seq(0..N)]
      BY DEF FootInv, Shape
    <3>2. n = Entry.footnote /\ paragraphs'[n] = << >> \o T.paragraph
      BY <1>3, <2>1, <2>4, <3>1
    <3> QED BY <1>5, <1>6, <2>4, <3>2
  <2> QED BY <1>1, <1>2, <1>3, <2>1, <2>2, <2>3, <2>4, EmptySeq
<1>7. CASE ~T.has_block
  <2>1. rest' = T.paragraph /\ UNCHANGED <<paragraphs, refs, handles>>
    BY <1>7 DEF NextNote, Inlines
  <2>2. Originals'
    BY <2>1 DEF FootInv, Originals
  <2>3. /\ handles \in Seq(Handle) /\ Len(handles) <= Len(handles)
        /\ refs \in [Ids -> 0..Len(handles)] /\ paragraphs \in [Items -> Seq(0..N)]
    BY DEF FootInv, Shape
  <2> QED BY <1>1, <1>2, <1>3, <1>5, <2>1, <2>2, <2>3
<1> QED BY <1>6, <1>7

-----------------------------------------------------------------------------
LEMMA FootInitially == Init => FootInv
<1> SUFFICES ASSUME Init  PROVE FootInv
  OBVIOUS
<1>1. N \in Nat /\ MaxItems \in Nat /\ Ids = 1..N /\ Plain = N + 1
  BY FootnoteAssumption DEF Ids, Plain
<1>2. /\ DOMAIN handles = 1..N /\ Len(handles) = N /\ handles \in Seq(Handle)
      /\ \A h \in 1..N : handles[h].text = h
  <2>1. handles = [h \in 1..N |-> Record(h)]
    BY <1>1 DEF Init
  <2>2. \A h \in 1..N : Record(h) \in Handle /\ Record(h).text = h
    BY <1>1 DEF Record, Handle, Absent
  <2>3. handles \in [1..N -> Handle]
    BY <2>1, <2>2
  <2>4. handles \in Seq(Handle)
    BY <1>1, <2>3, SeqDef
  <2> QED BY <1>1, <2>1, <2>2, <2>4
<1>3. refs \in [Ids -> 0..Len(handles)]
  BY <1>1, <1>2 DEF Init, Absent
<1>4. /\ notes = << >> /\ links = << >> /\ list = << >> /\ rest = << >> /\ items = 0 /\ i = 1
      /\ pc = "document" /\ bodies = [n \in Items |-> 0] /\ paragraphs = [n \in Items |-> << >>]
  BY DEF Init
<1>5. Shape
  <2>1. overridden \subseteq Ids
    BY FootnoteAssumption DEF Init, Ids
  <2>2. text \in [0..Plain -> Text] /\ text[Plain] = PlainText
    BY DEF Init
  <2>3. << >> \in Seq(Nat) /\ << >> \in Seq(Link) /\ << >> \in Seq(Items) /\ << >> \in Seq(0..N)
    OBVIOUS
  <2>4. bodies \in [Items -> Nat] /\ paragraphs \in [Items -> Seq(0..N)]
    BY <1>4, <2>3
  <2>5. DOMAIN notes = {} /\ Len(notes) = 0 /\ 0 \in 0..MaxItems /\ 1 \in 1..0 + 1
    BY <1>1, <1>4
  <2> QED BY <1>2, <1>3, <1>4, <2>1, <2>2, <2>3, <2>4, <2>5 DEF Shape
<1>6. Originals
  BY <1>1, <1>2 DEF Originals
<1>7. Recorded /\ Listed
  BY <1>4 DEF Recorded, Listed
<1>8. Unstarted /\ Walked
  BY <1>4 DEF Unstarted, Walked
<1>9. Tallied
  <2>1. ASSUME NEW n \in Items  PROVE bodies[n] = Cardinality(Naming(n)) /\ Naming(n) = {}
    <3>1. Naming(n) = {}
      BY <1>4 DEF Naming
    <3> QED BY <1>4, <3>1, FS_EmptySet
  <2> QED BY <1>4, <2>1 DEF Tallied
<1> QED BY <1>5, <1>6, <1>7, <1>8, <1>9 DEF FootInv

\* What a reference leaves of FootInv, wherever it is read.
LEMMA ReferenceKeeps ==
  ASSUME FootInv, NEW id, Reference(id), UNCHANGED <<overridden, text, refs, list, bodies, pc, i>>,
         paragraphs' \in [Items -> Seq(0..N)], rest' \in Seq(0..N),
         \A n \in Items : paragraphs'[n] # << >> => paragraphs[n] # << >>,
         pc = "document" => rest' = << >>,
         pc # "document" => ~Quiet,
         pc \in {"walk", "done"} => BlockNotesRefer
  PROVE  FootInv' /\ Grown
<1>1. Grown /\ Originals' /\ Recorded'
  BY ReferenceGrows DEF FootInv
<1>2. /\ Len(notes) \in Nat /\ Len(notes') \in Nat /\ Len(notes) <= Len(notes')
      /\ DOMAIN notes = 1..Len(notes) /\ DOMAIN notes' = 1..Len(notes') /\ i \in 1..Len(notes) + 1
      /\ DOMAIN links = 1..Len(notes)
  <2>1. Len(notes) <= Len(notes') /\ notes' \in Seq(Nat)
    BY <1>1 DEF Grown
  <2>2. Len(links) = Len(notes) /\ links \in Seq(Link) /\ notes \in Seq(Nat)
    BY DEF FootInv, Recorded, Shape
  <2>3. i \in 1..Len(notes) + 1
    BY DEF FootInv, Shape
  <2> QED BY <2>1, <2>2, <2>3
<1>3. Shape'
  <2>1. i' \in 1..Len(notes') + 1
    BY <1>2
  <2>2. refs' \in [Ids -> 0..Len(handles')]
    <3>1. refs \in [Ids -> 0..Len(handles)] /\ Len(handles) \in Nat /\ Len(handles') \in Nat
          /\ Len(handles) <= Len(handles')
      BY <1>1 DEF FootInv, Shape, Grown
    <3>2. 0..Len(handles) \subseteq 0..Len(handles')
      BY <3>1
    <3> QED BY <3>1, <3>2
  <2> QED BY <1>1, <2>1, <2>2
          DEF FootInv, Shape, Grown, Ids, Plain, Items, Text, References, PlainText
<1>4. Listed'
  <2>1. ASSUME QueuedOnce'
        PROVE  Len(list) = i - 1 /\ \A k \in DOMAIN list : list[k] = links'[k].footnote
    <3>1. QueuedOnce
      <4>1. \A j, k \in DOMAIN notes : /\ j \in DOMAIN notes' /\ k \in DOMAIN notes'
                                       /\ notes'[j] = notes[j] /\ notes'[k] = notes[k]
        BY <1>1, <1>2 DEF Grown
      <4> QED BY <2>1, <4>1 DEF QueuedOnce
    <3>2. Len(list) = i - 1 /\ \A k \in DOMAIN list : list[k] = links[k].footnote
      BY <3>1 DEF FootInv, Listed
    <3>3. DOMAIN list = 1..i - 1
      BY <1>2, <3>2 DEF FootInv, Shape
    <3>4. \A k \in DOMAIN list : k \in DOMAIN links
      BY <1>2, <3>3
    <3> QED BY <1>1, <3>2, <3>4 DEF Grown
  <2> QED BY <2>1 DEF FootInv, Listed
<1>5. Unstarted'
  BY DEF FootInv, Unstarted
<1>6. Walked'
  BY DEF FootInv, Walked, BlockNotesRefer
<1>7. Tallied'
  <2> SUFFICES ASSUME Quiet  PROVE Tallied'
    BY DEF Tallied, Quiet
  <2>1. pc = "document" /\ i = 1 /\ rest' = << >> /\ \A n \in Items : bodies[n] = 0
    BY DEF FootInv, Unstarted
  <2>2. \A n \in Items : Naming(n)' = {}
    BY <2>1 DEF Naming
  <2> QED BY <2>1, <2>2, FS_EmptySet DEF Tallied
<1> QED BY <1>1, <1>3, <1>4, <1>5, <1>6, <1>7 DEF FootInv

\* One turn of the loop adds one body to one Item, the last of the list.
LEMMA TurnKeeps ==
  ASSUME FootInv, NextNote
  PROVE  FootInv'
<1> DEFINE n == Entry.footnote  T == text[Entry.text]
<1>1. /\ i' = i + 1 /\ list' = Attached(n) /\ bodies' = [bodies EXCEPT ![n] = @ + 1]
      /\ pc = "notes" /\ rest = << >>
      /\ UNCHANGED <<overridden, text, notes, links, items, pc>>
  BY DEF NextNote, Advance
<1>2. /\ i \in DOMAIN notes /\ n \in Items /\ n \in 1..items /\ Entry.text \in 0..Plain
      /\ handles' \in Seq(Handle) /\ Len(handles) <= Len(handles')
      /\ \A h \in DOMAIN handles : handles'[h] = handles[h]
      /\ refs' \in [Ids -> 0..Len(handles')]
      /\ Originals'
      /\ paragraphs' \in [Items -> Seq(0..N)]
      /\ \A m \in Items : paragraphs'[m] # << >> =>
           paragraphs[m] # << >> \/ (T.has_block /\ T.paragraph # << >>)
      /\ rest' \in Seq(0..N) /\ rest' \in {<< >>, T.paragraph}
  BY TurnTaken
<1>3. /\ notes \in Seq(Nat) /\ Len(notes) \in Nat /\ DOMAIN notes = 1..Len(notes)
      /\ i \in 1..Len(notes) /\ i \in Nat /\ DOMAIN links = 1..Len(notes)
      /\ \A k \in DOMAIN notes : notes[k] \in DOMAIN handles
      /\ bodies \in [Items -> Nat] /\ list \in Seq(Items)
      /\ \A j, k \in DOMAIN list : list[j] = list[k] => j = k
  <2>1. Len(links) = Len(notes) /\ links \in Seq(Link) /\ notes \in Seq(Nat)
    BY DEF FootInv, Recorded, Shape
  <2>2. Len(notes) \in Nat /\ DOMAIN notes = 1..Len(notes) /\ DOMAIN links = 1..Len(links)
    BY <2>1
  <2>3. i \in 1..Len(notes) /\ i \in Nat
    BY <1>2, <2>2
  <2>4. /\ bodies \in [Items -> Nat] /\ list \in Seq(Items)
        /\ \A k \in DOMAIN notes : notes[k] \in DOMAIN handles
    BY DEF FootInv, Shape
  <2>5. \A j, k \in DOMAIN list : list[j] = list[k] => j = k
    BY DEF FootInv, Listed
  <2> QED BY <2>1, <2>2, <2>3, <2>4, <2>5
<1>4. T.paragraph = << >> \/ Entry.text \in 0..N
  <2>1. Entry.text \in 0..N \/ Entry.text = Plain
    BY <1>2, FootnoteAssumption DEF Plain
  <2>2. text[Plain].paragraph = << >>
    BY DEF FootInv, Shape, PlainText
  <2> QED BY <2>1, <2>2
<1>5. n = handles[notes[i]].footnote
  BY DEF Entry
<1> HIDE DEF n, T
<1>6. /\ list' \in Seq(Items)
      /\ \A j, k \in DOMAIN list' : list'[j] = list'[k] => j = k
      /\ \E k \in DOMAIN list' : list'[k] = n
      /\ \A m \in DOMAIN list : \E k \in DOMAIN list' : list'[k] = list[m]
      /\ (\A k \in DOMAIN list : list[k] # n) => list' = Append(list, n)
  <2>1. list \in Seq(Items) /\ n \in Items
    BY <1>2, <1>3
  <2>2. \A j, k \in DOMAIN list : list[j] = list[k] => j = k
    BY <1>3
  <2>3. /\ Attached(n) \in Seq(Items)
        /\ \A j, k \in DOMAIN Attached(n) : Attached(n)[j] = Attached(n)[k] => j = k
        /\ \E k \in DOMAIN Attached(n) : Attached(n)[k] = n
        /\ \A m \in DOMAIN list : \E k \in DOMAIN Attached(n) : Attached(n)[k] = list[m]
        /\ (\A k \in DOMAIN list : list[k] # n) => Attached(n) = Append(list, n)
    BY ONLY <2>1, <2>2, AttachedList
  <2> QED BY <1>1, <2>3
<1>7. Shape'
  <2>1. \A k \in DOMAIN notes : notes[k] \in DOMAIN handles'
    BY <1>2, <1>3
  <2>2. bodies' \in [Items -> Nat] /\ i' \in 1..Len(notes) + 1
    <3>1. bodies[n] + 1 \in Nat
      <4>1. n \in Items /\ bodies \in [Items -> Nat]
        BY <1>2, <1>3
      <4> QED BY ONLY <4>1
    <3>2. bodies' \in [Items -> Nat]
      BY <1>1, <1>3, <3>1
    <3>3. i + 1 \in 1..Len(notes) + 1
      BY <1>3
    <3> QED BY <1>1, <3>2, <3>3
  <2> QED BY <1>1, <1>2, <1>3, <1>6, <2>1, <2>2
          DEF FootInv, Shape, Ids, Plain, Items, Text, References, PlainText
<1>8. Recorded'
  <2>1. \A k \in DOMAIN notes : handles'[notes[k]] = handles[notes[k]]
    BY <1>2, <1>3
  <2> QED BY <1>1, <2>1 DEF FootInv, Recorded
<1>9. Listed'
  <2>1. ASSUME QueuedOnce
        PROVE  Len(list') = i' - 1 /\ \A k \in DOMAIN list' : list'[k] = links[k].footnote
    <3>1. Len(list) = i - 1 /\ \A k \in DOMAIN list : list[k] = links[k].footnote
      BY <2>1 DEF FootInv, Listed
    <3>2. n = links[i].footnote
      <4>1. PICK j \in DOMAIN notes : notes[j] = notes[i] /\ n = links[j].footnote
        BY <1>2, <1>5 DEF FootInv, Recorded
      <4> QED BY <1>2, <2>1, <4>1 DEF QueuedOnce
    <3>3. DOMAIN list = 1..i - 1
      BY <1>3, <3>1
    <3>4. ASSUME NEW k \in DOMAIN list  PROVE list[k] # n
      <4>1. k \in DOMAIN links /\ i \in DOMAIN links /\ k # i
        BY <1>3, <3>3
      <4>2. links[k].footnote # links[i].footnote
        BY <4>1 DEF FootInv, Recorded
      <4> QED BY <3>1, <3>2, <4>2
    <3>5. list' = Append(list, n)
      BY <1>6, <3>4
    <3>6. /\ Len(list') = i /\ DOMAIN list' = 1..i /\ list'[i] = n
          /\ \A k \in 1..i - 1 : list'[k] = list[k]
      <4>1. list \in Seq(Items) /\ n \in Items /\ Len(list) = i - 1 /\ i \in Nat
        BY <1>2, <1>3, <3>1
      <4> QED BY ONLY <3>5, <4>1
    <3>7. ASSUME NEW k \in DOMAIN list'  PROVE list'[k] = links[k].footnote
      <4>1. k = i \/ k \in 1..i - 1
        BY <1>3, <3>6
      <4> QED BY <3>1, <3>2, <3>3, <3>6, <4>1
    <3> QED BY <1>1, <1>3, <3>6, <3>7
  <2>2. QueuedOnce' => QueuedOnce
    BY <1>1 DEF QueuedOnce
  <2> QED BY <1>1, <1>6, <2>1, <2>2 DEF Listed
<1>10. Unstarted'
  BY <1>1 DEF Unstarted
<1>11. Walked'
  <2>1. BlockNotesRefer' <=> BlockNotesRefer
    BY <1>1 DEF BlockNotesRefer
  <2>2. T.has_block /\ T.paragraph # << >> => BlockNotesRefer
    BY <1>4 DEF BlockNotesRefer, T
  <2> QED BY <1>1, <1>2, <2>1, <2>2 DEF FootInv, Walked
<1>12. Tallied'
  <2> SUFFICES ASSUME Quiet  PROVE Tallied'
    BY <1>1 DEF Tallied, Quiet
  <2>1. rest' = << >>
    BY <1>2, <1>4 DEF Quiet, T
  <2>2. ASSUME NEW m \in Items
        PROVE  /\ bodies'[m] = Cardinality(Naming(m)')
               /\ Naming(m)' # {} => \E k \in DOMAIN list' : list'[k] = m
    <3>1. /\ bodies[m] = Cardinality(Naming(m))
          /\ Naming(m) # {} => \E k \in DOMAIN list : list[k] = m
      BY DEF FootInv, Tallied
    <3>2. IsFiniteSet(Naming(m)) /\ i \notin Naming(m)
      <4>1. Naming(m) \subseteq 1..i - 1 /\ i - 1 \in Int
        BY <1>3 DEF Naming
      <4>2. IsFiniteSet(1..i - 1)
        BY <4>1, FS_Interval
      <4> QED BY <1>3, <4>1, <4>2, FS_Subset
    <3>3. Naming(m)' = IF m = n THEN Naming(m) \cup {i} ELSE Naming(m)
      <4>1. Naming(m)' = {k \in 1..i : handles'[notes[k]].footnote = m}
        BY <1>1, <1>3 DEF Naming
      <4>2. \A k \in 1..i : handles'[notes[k]].footnote = handles[notes[k]].footnote
        <5>1. \A k \in 1..i : k \in DOMAIN notes
          BY <1>3
        <5>2. \A k \in DOMAIN notes : handles'[notes[k]] = handles[notes[k]]
          BY <1>2, <1>3
        <5> QED BY <5>1, <5>2
      <4>3. \A k : k \in 1..i <=> (k \in 1..i - 1 \/ k = i)
        BY <1>3
      <4> QED BY <1>5, <4>1, <4>2, <4>3 DEF Naming
    <3>4. CASE m = n
      <4>1. Naming(m)' = Naming(m) \cup {i} /\ bodies'[m] = bodies[m] + 1
        BY <1>1, <1>2, <1>3, <3>3, <3>4
      <4>2. Cardinality(Naming(m) \cup {i}) = Cardinality(Naming(m)) + 1
        BY <3>2, FS_AddElement
      <4> QED BY <1>6, <3>1, <3>4, <4>1, <4>2
    <3>5. CASE m # n
      <4>1. Naming(m)' = Naming(m) /\ bodies'[m] = bodies[m]
        BY <1>1, <1>3, <3>3, <3>5
      <4> QED BY <1>6, <3>1, <4>1
    <3> QED BY <3>4, <3>5
  <2> QED BY <2>1, <2>2 DEF Tallied
<1> QED BY <1>2, <1>7, <1>8, <1>9, <1>10, <1>11, <1>12 DEF FootInv

\* From one phase to the next, FootInv has only to be told where the loop stands.
LEMMA PhaseKeeps ==
  ASSUME FootInv,
         UNCHANGED <<overridden, text, refs, handles, notes, links, items>>,
         UNCHANGED <<list, bodies, paragraphs, i, rest>>,
         pc' \in {"document", "notes", "walk", "done"},
         pc' = "document" => pc = "document",
         pc' \in {"walk", "done"} => i > Len(notes) \/ pc \in {"walk", "done"}
  PROVE  FootInv'
<1>1. Shape'
  BY DEF FootInv, Shape, Ids, Plain, Items, Text, References, PlainText
<1>2. Originals' /\ Recorded'
  BY DEF FootInv, Originals, Recorded, Ids
<1>3. Listed'
  BY DEF FootInv, Listed, QueuedOnce
<1>4. Unstarted'
  BY DEF FootInv, Unstarted, Items
<1>5. Walked'
  <2>1. BlockNotesRefer' <=> BlockNotesRefer
    BY DEF BlockNotesRefer
  <2> QED BY <2>1 DEF FootInv, Walked, Items
<1>6. Tallied'
  <2>1. (Quiet' <=> Quiet) /\ \A n : Naming(n)' = Naming(n)
    BY DEF Quiet, Naming
  <2> QED BY <2>1 DEF FootInv, Tallied, Items
<1> QED BY <1>1, <1>2, <1>3, <1>4, <1>5, <1>6 DEF FootInv

EntriesStay ==
  \A k \in DOMAIN notes :
    notes'[k] = notes[k] /\ handles'[notes[k]].text = handles[notes[k]].text

\* Every step keeps FootInv and leaves what is queued as it was.
LEMMA FootStepwise == FootInv /\ [Next]_vars => FootInv' /\ (Next => EntriesStay)
<1> SUFFICES ASSUME FootInv, [Next]_vars  PROVE FootInv' /\ (Next => EntriesStay)
  OBVIOUS
<1>1. ASSUME Grown  PROVE EntriesStay
  BY <1>1 DEF Grown, EntriesStay, FootInv, Shape
<1>2. ASSUME UNCHANGED <<handles, notes>>  PROVE EntriesStay
  BY <1>2 DEF EntriesStay
<1>3. CASE DocumentReference
  <2>1. PICK id \in 0..N : Reference(id)
    BY <1>3 DEF DocumentReference
  <2>2. /\ UNCHANGED <<overridden, text, refs, list, bodies, paragraphs, pc, i, rest>>
        /\ pc = "document"
    BY <1>3 DEF DocumentReference, tree
  <2>3. rest = << >> /\ rest \in Seq(0..N) /\ paragraphs \in [Items -> Seq(0..N)]
    BY <2>2 DEF FootInv, Unstarted, Shape
  <2> QED BY <1>1, <2>1, <2>2, <2>3, ReferenceKeeps
<1>4. CASE StartNotes
  <2>1. /\ UNCHANGED <<overridden, text, refs, handles, notes, links, items>>
        /\ UNCHANGED <<list, bodies, paragraphs, i, rest>>
        /\ pc = "document" /\ pc' \in {"done", "notes"} /\ (pc' = "done" => notes = << >>)
    BY <1>4 DEF StartNotes, tree
  <2>2. i > Len(notes) \/ pc' = "notes"
    BY <2>1 DEF FootInv, Unstarted
  <2> QED BY <1>2, <2>1, <2>2, PhaseKeeps
<1>5. CASE NextNote
  <2>1. EntriesStay
    <3>1. /\ \A h \in DOMAIN handles : handles'[h] = handles[h]
          /\ \A k \in DOMAIN notes : notes[k] \in DOMAIN handles
      BY <1>5, TurnTaken DEF FootInv, Shape
    <3>2. notes' = notes
      BY <1>5 DEF NextNote
    <3> QED BY <3>1, <3>2 DEF EntriesStay
  <2> QED BY <1>5, <2>1, TurnKeeps
<1>6. CASE NoteReference
  <2> DEFINE id == Head(rest)
  <2>1. /\ Reference(id) /\ rest' = Tail(rest) /\ rest # << >> /\ pc = "notes"
        /\ UNCHANGED <<overridden, text, refs, list, bodies, paragraphs, pc, i>>
    BY <1>6 DEF NoteReference, tree
  <2>2. rest' \in Seq(0..N) /\ paragraphs \in [Items -> Seq(0..N)]
    BY <2>1 DEF FootInv, Shape
  <2>3. ~Quiet
    BY <2>1 DEF FootInv, Tallied
  <2> HIDE DEF id
  <2> QED BY <1>1, <2>1, <2>2, <2>3, ReferenceKeeps
<1>7. CASE EndNotes
  <2>1. /\ UNCHANGED <<overridden, text, refs, handles, notes, links, items>>
        /\ UNCHANGED <<list, bodies, paragraphs, i, rest>>
        /\ pc' = "walk" /\ i > Len(notes)
    BY <1>7 DEF EndNotes, tree
  <2> QED BY <1>2, <2>1, PhaseKeeps
<1>8. CASE WalkParagraph
  <2>1. PICK k \in Unread : /\ Reference(Head(paragraphs[list[k]]))
                            /\ paragraphs' = [paragraphs EXCEPT ![list[k]] = Tail(@)]
    BY <1>8 DEF WalkParagraph
  <2> DEFINE id == Head(paragraphs[list[k]])
  <2>2. /\ pc = "walk"
        /\ UNCHANGED <<overridden, text, refs, list, bodies, pc, i, rest>>
    BY <1>8 DEF WalkParagraph
  <2>3. list[k] \in Items /\ paragraphs[list[k]] # << >> /\ rest \in Seq(0..N)
        /\ paragraphs \in [Items -> Seq(0..N)]
    BY DEF Unread, FootInv, Shape
  <2>4. BlockNotesRefer
    BY <2>3 DEF FootInv, Walked
  <2>5. ~Quiet
    BY <2>4 DEF BlockNotesRefer, Quiet
  <2>6. Tail(paragraphs[list[k]]) \in Seq(0..N)
    <3>1. paragraphs[list[k]] \in Seq(0..N)
      BY <2>3
    <3> QED BY <2>3, <3>1, HeadTailProperties
  <2>7. /\ paragraphs' \in [Items -> Seq(0..N)]
        /\ \A n \in Items : paragraphs'[n] # << >> => paragraphs[n] # << >>
    BY <2>1, <2>3, <2>6
  <2>8. Reference(id)
    BY <2>1
  <2> HIDE DEF id
  <2> QED BY <1>1, <2>2, <2>3, <2>4, <2>5, <2>7, <2>8, ReferenceKeeps
<1>9. CASE EndWalk \/ UNCHANGED vars
  <2>1. /\ UNCHANGED <<overridden, text, refs, handles, notes, links, items>>
        /\ UNCHANGED <<list, bodies, paragraphs, i, rest>>
        /\ pc' = pc \/ (pc = "walk" /\ pc' = "done")
    BY <1>9 DEF EndWalk, tree, vars
  <2>2. pc \in {"document", "notes", "walk", "done"}
    BY DEF FootInv, Shape
  <2> QED BY <1>2, <2>1, <2>2, PhaseKeeps
<1> QED BY <1>3, <1>4, <1>5, <1>6, <1>7, <1>8, <1>9 DEF Next

-----------------------------------------------------------------------------
\* EntriesKeepText for any ids and texts: no step re-points a queue entry or gives
\* its record another text, also while a note redefines the id it was queued for.
THEOREM EntriesNeverRepointed == Spec => EntriesKeepText
<1>1. FootInv /\ [Next]_vars => [EntriesStay]_vars
  BY FootStepwise
<1>2. EntriesStay <=> \A k \in DOMAIN notes :
        notes'[k] = notes[k] /\ handles'[notes[k]].text = handles[notes[k]].text
  BY DEF EntriesStay
<1> QED
  BY <1>1, <1>2, FootInitially, FootStepwise, PTL DEF Spec, EntriesKeepText

\* The first part of NumbersMatchList: without repeated entries the n-th Item of the
\* list is the one the link numbered n refers to.
LEMMA OrderFollowed ==
  ASSUME FootInv  PROVE FollowOrder
<1> SUFFICES ASSUME QueuedOnce, NEW k \in DOMAIN links, links[k].note_id < i
             PROVE  list[links[k].note_id] = links[k].footnote
  BY DEF FollowOrder
<1>1. links[k].note_id = k
  BY DEF FootInv, Recorded
<1>2. Len(list) = i - 1 /\ \A j \in DOMAIN list : list[j] = links[j].footnote
  BY DEF FootInv, Listed
<1>3. k \in 1..i - 1 /\ DOMAIN list = 1..Len(list)
  BY <1>1 DEF FootInv, Shape
<1> QED BY <1>1, <1>2, <1>3

\* Its second part: an id referred to again shares one Item, with a body for each.
LEMMA RepeatsShared ==
  ASSUME FootInv  PROVE RepeatsShareItem
<1> SUFFICES ASSUME pc = "done", Quiet, NEW id \in Ids, EntriesFor(id) # {}
             PROVE  \E n \in 1..items :
                      /\ {handles[notes[k]].footnote : k \in EntriesFor(id)} = {n}
                      /\ Cardinality({m \in DOMAIN list : list[m] = n}) = 1
                      /\ bodies[n] = Cardinality(EntriesFor(id))
  BY DEF RepeatsShareItem, Quiet
<1> DEFINE n == handles[id].footnote
<1>1. /\ DOMAIN handles = 1..Len(handles) /\ DOMAIN notes = 1..Len(notes) /\ Len(notes) \in Nat
      /\ \A k \in DOMAIN notes : notes[k] \in DOMAIN handles
      /\ i \in 1..Len(notes) + 1 /\ items \in 0..MaxItems /\ MaxItems \in Nat
  BY FootnoteAssumption DEF FootInv, Shape
<1>2. i = Len(notes) + 1
  <2>1. ~BlockNotesRefer
    BY DEF Quiet, BlockNotesRefer
  <2>2. i > Len(notes)
    BY <2>1 DEF FootInv, Walked
  <2> QED BY <1>1, <2>2
<1>3. \A k \in DOMAIN notes : handles[notes[k]].text = id <=> notes[k] = id
  <2> SUFFICES ASSUME NEW k \in DOMAIN notes
               PROVE  handles[notes[k]].text = id <=> notes[k] = id
    OBVIOUS
  <2>1. notes[k] \in DOMAIN handles
    BY <1>1
  <2> QED BY <2>1 DEF FootInv, Originals
<1>4. PICK e \in DOMAIN notes : notes[e] = id
  BY <1>3 DEF EntriesFor
<1>5. PICK l \in DOMAIN links : n = links[l].footnote /\ links[l].handle = id
  <2>1. DOMAIN links = DOMAIN notes
    BY DEF FootInv, Recorded, Shape
  <2>2. PICK l \in DOMAIN notes :
          notes[l] = notes[e] /\ handles[notes[e]].footnote = links[l].footnote
    BY DEF FootInv, Recorded
  <2>3. links[l].handle = notes[l]
    BY <2>1 DEF FootInv, Recorded
  <2> QED BY <1>4, <2>1, <2>2, <2>3
<1>6. n \in 1..items /\ n \in Items
  <2>1. n \in 1..items
    BY <1>5 DEF FootInv, Recorded
  <2> QED BY <1>1, <2>1 DEF Items
<1>7. \A k \in DOMAIN notes : handles[notes[k]].footnote = n <=> notes[k] = id
  <2> SUFFICES ASSUME NEW k \in DOMAIN notes, handles[notes[k]].footnote = n
               PROVE  notes[k] = id
    OBVIOUS
  <2>1. PICK j \in DOMAIN notes :
          notes[j] = notes[k] /\ handles[notes[k]].footnote = links[j].footnote
    BY DEF FootInv, Recorded
  <2>2. j \in DOMAIN links
    BY <2>1 DEF FootInv, Recorded, Shape
  <2>3. j = l /\ links[j].handle = notes[j]
    BY <1>5, <2>1, <2>2 DEF FootInv, Recorded
  <2> QED BY <1>5, <2>1, <2>3
<1>8. EntriesFor(id) = Naming(n)
  <2>1. 1..i - 1 = DOMAIN notes
    BY <1>1, <1>2
  <2> QED BY <1>3, <1>7, <2>1 DEF EntriesFor, Naming
<1>9. {handles[notes[k]].footnote : k \in EntriesFor(id)} = {n}
  <2>1. \A k \in EntriesFor(id) : handles[notes[k]].footnote = n
    BY <1>8 DEF Naming
  <2> QED BY <2>1
<1> HIDE DEF n
<1>10. bodies[n] = Cardinality(EntriesFor(id))
  BY <1>6, <1>8 DEF FootInv, Tallied
<1>11. PICK m \in DOMAIN list : list[m] = n
  BY <1>6, <1>8 DEF FootInv, Tallied
<1>12. {x \in DOMAIN list : list[x] = n} = {m}
  BY <1>11 DEF FootInv, Listed
<1>13. Cardinality({m}) = 1
  BY FS_Singleton
<1> QED BY <1>6, <1>9, <1>10, <1>12, <1>13

\* NumbersMatchList for any ids, texts and references: what a reader finds under a
\* number is what the link meant, repeats share an Item, and a numbered note is
\* missing only when a note that spans lines referred to it.
THEOREM NumbersFindNotes == Spec => []NumbersMatchList
<1>1. FootInv => NumbersMatchList
  <2> SUFFICES ASSUME FootInv  PROVE NumbersMatchList
    OBVIOUS
  <2>1. ASSUME pc = "done", Unlisted # {}  PROVE BlockNotesRefer
    <3>1. PICK k \in DOMAIN notes : k >= i
      BY <2>1 DEF Unlisted
    <3>2. ~(i > Len(notes))
      BY <3>1 DEF FootInv, Shape
    <3> QED BY <2>1, <3>2 DEF FootInv, Walked
  <2> QED BY <2>1, OrderFollowed, RepeatsShared DEF NumbersMatchList
<1> QED
  BY <1>1, FootInitially, FootStepwise, PTL DEF Spec
=============================================================================
