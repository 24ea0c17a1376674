----------------------------- MODULE FuzzProofs -----------------------------
(***************************************************************************)
(* For any number of inputs and whatever the children do with them: no     *)
(* child is left running, and, when a goroutine sits at its read before    *)
(* its timer fires, every reply answers its own request and what the       *)
(* fuzzer reports is so.                                                   *)
(***************************************************************************)
EXTENDS FuzzClient, SequenceTheorems, TLAPS

Pcs == {"none", "start", "written", "read", "ended"}
Procs == [alive : BOOLEAN, stuck : BOOLEAN, in : Seq(Ids), out : Seq(Ids)]
Readers == [Sides -> [Ids -> [pc : Pcs, pipe : Nat]]]
Returned == Results \cup {"none", "hung", "error"}

FuzzTypes ==
  /\ want \in [Ids -> [Sides -> Results]]
  /\ input \in 0..MaxInputs
  /\ at \in Sides \cup {"draw", "judge", "ended", "exited"}
  /\ waiting \in BOOLEAN
  /\ dead \in [Sides -> BOOLEAN]
  /\ child \in [Sides -> Seq(Procs)]
  /\ \A s \in Sides : Len(child[s]) > 0
  /\ reader \in Readers
  /\ \A s \in Sides, k \in Ids :
       reader[s][k].pc = "read" => reader[s][k].pipe \in 1..Current(s)
  /\ done \in [Sides -> [Ids -> 0..Broken]]
  /\ verdict \in [Sides -> Returned]
  /\ at \in Sides \cup {"judge"} => input > 0
  /\ waiting => at \in Sides

(***************************************************************************)
(* The strengthening.  A reply is its own because a child is never shared: *)
(* a goroutine that has yet to name its pipes is the one render waits for, *)
(* one that reads the current child is too unless that child is condemned, *)
(* no two read the same child, and whatever a child holds belongs to the   *)
(* goroutine that reads it.                                                *)
(***************************************************************************)
Awaited(s, k) == at = s /\ waiting /\ k = input

\* A goroutine exists only once render got to its input.
Started(s, k) ==
  /\ k <= input
  /\ k = input => ~(at = s /\ ~waiting) /\ ~(at = "go" /\ s = "rust")

OnPipe(s, k, g) ==
  \/ reader[s][k].pc = "read" /\ reader[s][k].pipe = g
  \/ reader[s][k].pc = "written" /\ g = Current(s)

Goroutines ==
  \A s \in Sides, k \in Ids :
    /\ reader[s][k].pc # "none" => Started(s, k)
    /\ reader[s][k].pc \in {"start", "written"} => Awaited(s, k) /\ ~dead[s]
    /\ reader[s][k].pc = "read" /\ reader[s][k].pipe = Current(s)
         => dead[s] \/ Awaited(s, k)
    /\ done[s][k] # NoReply => reader[s][k].pc = "ended" /\ done[s][k] \in {k, Broken}

Apart ==
  \A s \in Sides, j, k \in Ids :
    /\ reader[s][j].pc = "read" /\ reader[s][k].pc = "read"
    /\ reader[s][j].pipe = reader[s][k].pipe
    => j = k

Held ==
  \A s \in Sides : \A g \in 1..Len(child[s]) :
    /\ child[s][g].in = << >> \/ child[s][g].out = << >>
    /\ Len(child[s][g].in) <= 1 /\ Len(child[s][g].out) <= 1
    /\ child[s][g].out # << >> => OnPipe(s, Head(child[s][g].out), g)
    /\ child[s][g].alive /\ child[s][g].in # << >> => OnPipe(s, Head(child[s][g].in), g)

\* What render returned for a side the loop is done with.
Judged(s) == at = "judge" \/ (at = "rust" /\ s = "go")

Verdicts ==
  \A s \in Sides : Judged(s) => verdict[s] \in {"hung", "error", want[input][s]}

FuzzInv == FuzzTypes /\ Goroutines /\ Apart /\ Held /\ Verdicts /\ ReportsAreTrue

-----------------------------------------------------------------------------
\* Replacing one child of a side leaves the others.
LEMMA ReplaceChild ==
  ASSUME NEW Q, NEW f \in [Sides -> Seq(Q)], NEW s \in Sides,
         NEW g \in 1..Len(f[s]), NEW x \in Q,
         NEW f2, f2 = [f EXCEPT ![s] = [@ EXCEPT ![g] = x]]
  PROVE  /\ f2 \in [Sides -> Seq(Q)]
         /\ \A t \in Sides : Len(f2[t]) = Len(f[t])
         /\ \A t \in Sides : \A h \in 1..Len(f[t]) :
              f2[t][h] = IF t = s /\ h = g THEN x ELSE f[t][h]
<1>1. /\ [f[s] EXCEPT ![g] = x] \in Seq(Q)
      /\ Len([f[s] EXCEPT ![g] = x]) = Len(f[s])
      /\ \A h \in 1..Len(f[s]) :
           [f[s] EXCEPT ![g] = x][h] = IF h = g THEN x ELSE f[s][h]
  OBVIOUS
<1>2. \A t \in Sides : f2[t] = IF t = s THEN [f[s] EXCEPT ![g] = x] ELSE f[t]
  OBVIOUS
<1>3. f2 \in [Sides -> Seq(Q)]
  BY <1>1
<1> QED
  BY <1>1, <1>2, <1>3

\* A sequence with its last element replaced and another put behind it.
LEMMA AppendToReplaced ==
  ASSUME NEW Q, NEW q \in Seq(Q), Len(q) > 0, NEW y \in Q, NEW x \in Q,
         NEW q2, q2 = Append([q EXCEPT ![Len(q)] = y], x)
  PROVE  /\ q2 \in Seq(Q) /\ Len(q2) = Len(q) + 1
         /\ q2[Len(q) + 1] = x
         /\ \A h \in 1..Len(q) : q2[h] = IF h = Len(q) THEN y ELSE q[h]
<1> DEFINE r == [q EXCEPT ![Len(q)] = y]
<1>1. /\ r \in Seq(Q) /\ Len(r) = Len(q)
      /\ \A h \in 1..Len(q) : r[h] = IF h = Len(q) THEN y ELSE q[h]
  OBVIOUS
<1>2. q2 = Append(r, x)
  OBVIOUS
<1> HIDE DEF r
<1>3. q2 \in Seq(Q) /\ Len(q2) = Len(r) + 1 /\ q2[Len(r) + 1] = x
  BY <1>1, <1>2
<1>4. \A h \in 1..Len(r) : q2[h] = r[h]
  BY <1>1, <1>2
<1> QED
  BY <1>1, <1>3, <1>4

\* Killing the current child of a side and starting another.
LEMMA RestartChild ==
  ASSUME NEW f \in [Sides -> Seq(Procs)], NEW s \in Sides, Len(f[s]) > 0,
         NEW f2, f2 = [f EXCEPT ![s] = Restarted(@)]
  PROVE  /\ f2 \in [Sides -> Seq(Procs)]
         /\ \A t \in Sides : Len(f2[t]) = IF t = s THEN Len(f[t]) + 1 ELSE Len(f[t])
         /\ f2[s][Len(f[s]) + 1] = Fresh
         /\ \A t \in Sides : \A h \in 1..Len(f[t]) :
              f2[t][h] = IF t = s /\ h = Len(f[s]) THEN [f[s][h] EXCEPT !.alive = FALSE]
                         ELSE f[t][h]
<1> DEFINE n == Len(f[s])
           y == [f[s][n] EXCEPT !.alive = FALSE]
<1>1. f[s] \in Seq(Procs) /\ n \in 1..Len(f[s]) /\ f[s][n] \in Procs
  OBVIOUS
<1>2. y \in Procs /\ Fresh \in Procs
  <2>1. y \in Procs
    BY <1>1 DEF Procs
  <2>2. Fresh \in Procs
    BY DEF Fresh, Procs
  <2> QED
    BY <2>1, <2>2
<1>3. f2[s] = Append([f[s] EXCEPT ![n] = y], Fresh)
  <2>1. f2[s] = Restarted(f[s])
    OBVIOUS
  <2>2. [f[s] EXCEPT ![n].alive = FALSE] = [f[s] EXCEPT ![n] = y]
    BY <1>1
  <2> QED
    BY <2>1, <2>2 DEF Restarted
<1>4. \A t \in Sides : t # s => f2[t] = f[t]
  OBVIOUS
<1>5. DOMAIN f2 = Sides /\ f2 = [t \in Sides |-> f2[t]]
  OBVIOUS
<1> HIDE DEF y
<1>6. /\ f2[s] \in Seq(Procs) /\ Len(f2[s]) = n + 1
      /\ f2[s][n + 1] = Fresh
      /\ \A h \in 1..n : f2[s][h] = IF h = n THEN y ELSE f[s][h]
  <2> DEFINE q == f[s]
  <2>1. q \in Seq(Procs) /\ Len(q) > 0 /\ n = Len(q)
    BY <1>1
  <2>2. f2[s] = Append([q EXCEPT ![Len(q)] = y], Fresh)
    BY <1>3
  <2> HIDE DEF q
  <2>3. /\ f2[s] \in Seq(Procs) /\ Len(f2[s]) = Len(q) + 1
        /\ f2[s][Len(q) + 1] = Fresh
        /\ \A h \in 1..Len(q) : f2[s][h] = IF h = Len(q) THEN y ELSE q[h]
    <3>1. ASSUME NEW z, z = f2[s] 
          PROVE  /\ z \in Seq(Procs) /\ Len(z) = Len(q) + 1
                 /\ z[Len(q) + 1] = Fresh
                 /\ \A h \in 1..Len(q) : z[h] = IF h = Len(q) THEN y ELSE q[h]
      BY <1>2, <2>1, <2>2, <3>1, AppendToReplaced
    <3> QED
      BY <3>1
  <2> QED
    BY <2>1, <2>3 DEF q
<1>7. f2 \in [Sides -> Seq(Procs)]
  BY <1>4, <1>5, <1>6
<1> QED
  BY <1>4, <1>6, <1>7 DEF y

-----------------------------------------------------------------------------
\* What each step that touches a child makes of it.
LEMMA WriteEffect ==
  ASSUME FuzzTypes, NEW s \in Sides, NEW k \in Ids, Write(s, k),
         child[s][Current(s)].alive
  PROVE  LET c == child[s][Current(s)] IN
         /\ Current(s) \in 1..Len(child[s])
         /\ [c EXCEPT !.in = Append(@, k)] \in Procs
         /\ child' = [child EXCEPT ![s] = [@ EXCEPT ![Current(s)] =
                        [c EXCEPT !.in = Append(@, k)]]]
<1>1. child[s] \in Seq(Procs) /\ Current(s) \in 1..Len(child[s]) /\ child[s][Current(s)] \in Procs
  BY DEF FuzzTypes, Current
<1>2. Append(child[s][Current(s)].in, k) \in Seq(Ids)
  BY <1>1 DEF Procs
<1>3. child' = [child EXCEPT ![s][Current(s)].in = Append(@, k)]
  BY DEF Write
<1> QED
  BY <1>1, <1>2, <1>3 DEF Procs

\* An answer leaves its pipe.
LEMMA DeliverEffect ==
  ASSUME FuzzTypes, NEW s \in Sides, NEW k \in Ids, NEW g \in 1..Len(child[s]),
         child[s][g].out # << >>, child' = [child EXCEPT ![s][g].out = Tail(@)]
  PROVE  LET c == child[s][g] IN
         /\ Head(c.out) \in Ids
         /\ [c EXCEPT !.out = Tail(@)] \in Procs
         /\ child' = [child EXCEPT ![s] = [@ EXCEPT ![g] = [c EXCEPT !.out = Tail(@)]]]
<1>1. child[s] \in Seq(Procs) /\ child[s][g] \in Procs
  BY DEF FuzzTypes
<1>2. Tail(child[s][g].out) \in Seq(Ids) /\ Head(child[s][g].out) \in Ids
  BY <1>1 DEF Procs
<1> QED
  BY <1>1, <1>2 DEF Procs

\* A child that takes a request gets stuck, dies or answers.
LEMMA ServeEffect ==
  ASSUME FuzzTypes, NEW s \in Sides, NEW g \in 1..Len(child[s]), Serve(s, g)
  PROVE  LET c == child[s][g]  k == Head(c.in)  rest == [c EXCEPT !.in = Tail(@)] IN
         \E x \in {[rest EXCEPT !.stuck = TRUE], [rest EXCEPT !.alive = FALSE],
                   [rest EXCEPT !.out = Append(@, k)]} :
           /\ x \in Procs /\ c \in Procs /\ k \in Ids
           /\ child' = [child EXCEPT ![s] = [@ EXCEPT ![g] = x]]
<1> DEFINE c == child[s][g]  k == Head(c.in)  rest == [c EXCEPT !.in = Tail(@)]
<1>1. child[s] \in Seq(Procs) /\ c \in Procs
  BY DEF FuzzTypes
<1>2. c.in \in Seq(Ids) /\ c.in # << >> /\ c.out \in Seq(Ids)
  BY <1>1 DEF Procs, Serve
<1>3. k \in Ids /\ Tail(c.in) \in Seq(Ids) /\ Append(c.out, k) \in Seq(Ids)
  BY <1>2
<1>4. rest \in Procs /\ rest.out = c.out
  BY <1>1, <1>3 DEF Procs
<1>5. /\ [rest EXCEPT !.stuck = TRUE] \in Procs /\ [rest EXCEPT !.alive = FALSE] \in Procs
      /\ [rest EXCEPT !.out = Append(@, k)] \in Procs
  BY <1>3, <1>4 DEF Procs
<1>6. \E x \in {[rest EXCEPT !.stuck = TRUE], [rest EXCEPT !.alive = FALSE],
                [rest EXCEPT !.out = Append(@, k)]} :
        child' = [child EXCEPT ![s][g] = x]
  BY DEF Serve
<1> QED
  BY <1>1, <1>3, <1>5, <1>6
-----------------------------------------------------------------------------
\* A goroutine goes on, and stays with its pipe.
GoneOn(f, s, k, p) == [f EXCEPT ![s][k].pc = p]

LEMMA GoOn ==
  ASSUME NEW f \in Readers, NEW s \in Sides, NEW k \in Ids, NEW p \in Pcs
  PROVE  /\ GoneOn(f, s, k, p) \in Readers
         /\ \A t \in Sides, j \in Ids :
              /\ GoneOn(f, s, k, p)[t][j].pc = IF t = s /\ j = k THEN p ELSE f[t][j].pc
              /\ GoneOn(f, s, k, p)[t][j].pipe = f[t][j].pipe
<1> DEFINE x == [f[s][k] EXCEPT !.pc = p]
           f2 == GoneOn(f, s, k, p)
<1>1. x \in [pc : Pcs, pipe : Nat] /\ x.pc = p /\ x.pipe = f[s][k].pipe
  BY DEF Readers
<1>2. \A t \in Sides, j \in Ids : f2[t][j] = IF t = s /\ j = k THEN x ELSE f[t][j]
  BY DEF Readers, GoneOn
<1>3. f2 = [t \in Sides |-> [j \in Ids |-> f2[t][j]]]
  BY DEF Readers, GoneOn
<1> HIDE DEF x, f2
<1>4. \A t \in Sides, j \in Ids : f2[t][j] \in [pc : Pcs, pipe : Nat]
  BY <1>1, <1>2 DEF Readers
<1>5. f2 \in Readers
  BY <1>3, <1>4 DEF Readers
<1> QED
  BY <1>1, <1>2, <1>5 DEF f2

-----------------------------------------------------------------------------
\* The types hold at first.
LEMMA TypesInit == FInit => FuzzTypes
<1> SUFFICES ASSUME FInit PROVE FuzzTypes
  OBVIOUS
<1>1. Fresh \in Procs
  BY DEF Fresh, Procs
<1>2. << Fresh >> \in Seq(Procs) /\ Len(<< Fresh >>) = 1
  BY <1>1
<1>3. child \in [Sides -> Seq(Procs)] /\ \A s \in Sides : Len(child[s]) > 0
  BY <1>2 DEF FInit
<1>4. reader \in Readers
  <2>1. [pc |-> "none", pipe |-> 0] \in [pc : Pcs, pipe : Nat]
    BY DEF Pcs
  <2> QED
    BY <2>1 DEF FInit, Readers
<1>5. \A s \in Sides, k \in Ids : reader[s][k].pc # "read"
  BY DEF FInit
<1>6. done \in [Sides -> [Ids -> 0..Broken]]
  BY FuzzAssumption DEF FInit, NoReply, Broken
<1>7. /\ want \in [Ids -> [Sides -> Results]] /\ input \in 0..MaxInputs /\ at = "draw"
      /\ waiting = FALSE /\ dead \in [Sides -> BOOLEAN] /\ verdict \in [Sides -> Returned]
  <2>1. input \in 0..MaxInputs
    BY FuzzAssumption DEF FInit
  <2>2. dead \in [Sides -> BOOLEAN]
    BY Zenon DEF FInit
  <2>3. verdict \in [Sides -> Returned]
    BY Zenon DEF FInit, Returned
  <2> QED
    BY <2>1, <2>2, <2>3, Zenon DEF FInit
<1>8. /\ at \in Sides \cup {"draw", "judge", "ended", "exited"} /\ waiting \in BOOLEAN
      /\ at \in Sides \cup {"judge"} => input > 0
      /\ waiting => at \in Sides
  BY <1>7 DEF Sides
<1>9. \A s \in Sides, k \in Ids :
        reader[s][k].pc = "read" => reader[s][k].pipe \in 1..Current(s)
  BY <1>5
<1> QED
  BY <1>3, <1>4, <1>6, <1>7, <1>8, <1>9 DEF FuzzTypes

-----------------------------------------------------------------------------
(***************************************************************************)
(* What each step does, entry by entry, and that it keeps the types.       *)
(***************************************************************************)
OnlyReader(s, k, p) ==
  \A t \in Sides, j \in Ids :
    /\ reader'[t][j].pc = IF t = s /\ j = k THEN p ELSE reader[t][j].pc
    /\ reader'[t][j].pipe = reader[t][j].pipe

OnlyDone(s, k, v) ==
  \A t \in Sides, j \in Ids :
    done'[t][j] = IF t = s /\ j = k THEN v ELSE done[t][j]

OnlyChild(s, g, x) ==
  \A t \in Sides :
    /\ Len(child'[t]) = Len(child[t])
    /\ \A h \in 1..Len(child[t]) :
         child'[t][h] = IF t = s /\ h = g THEN x ELSE child[t][h]

\* Steps that replace no child by a shorter list and move no reader astray.
LEMMA KeepTypes ==
  ASSUME FuzzTypes, UNCHANGED <<want, input, at, verdict>>,
         waiting' \in BOOLEAN, waiting' => at \in Sides, dead' \in [Sides -> BOOLEAN],
         child' \in [Sides -> Seq(Procs)],
         \A t \in Sides : Len(child'[t]) >= Len(child[t]),
         reader' \in Readers,
         \A t \in Sides, j \in Ids :
           reader'[t][j].pc = "read" => reader'[t][j].pipe \in 1..Len(child[t]),
         done' \in [Sides -> [Ids -> 0..Broken]]
  PROVE  FuzzTypes'
<1>1. \A t \in Sides : Len(child[t]) \in Nat /\ Len(child[t]) > 0 /\ Len(child'[t]) \in Nat
  BY DEF FuzzTypes
<1>2. \A t \in Sides : Len(child'[t]) > 0
  BY <1>1
<1>3. \A t \in Sides, j \in Ids :
        reader'[t][j].pc = "read" => reader'[t][j].pipe \in 1..Len(child'[t])
  BY <1>1
<1> QED
  BY <1>2, <1>3 DEF FuzzTypes, Current

\* A step of a goroutine that leaves its pipe alone.
LEMMA GoOnTypes ==
  ASSUME FuzzTypes, NEW s \in Sides, NEW k \in Ids, NEW p \in Pcs \ {"read"},
         reader' = GoneOn(reader, s, k, p)
  PROVE  /\ OnlyReader(s, k, p) /\ reader' \in Readers
         /\ \A t \in Sides, j \in Ids :
              reader'[t][j].pc = "read" => reader'[t][j].pipe \in 1..Len(child[t])
<1>1. reader \in Readers /\ p \in Pcs
  BY DEF FuzzTypes
<1>2. OnlyReader(s, k, p) /\ reader' \in Readers
  BY <1>1, GoOn DEF OnlyReader
<1>3. \A t \in Sides, j \in Ids :
        reader'[t][j].pc = "read" => reader[t][j].pc = "read" /\ reader'[t][j].pipe = reader[t][j].pipe
  BY <1>2 DEF OnlyReader
<1> QED
  BY <1>2, <1>3 DEF FuzzTypes, Current

\* An answer put into a channel.
LEMMA DoneTypes ==
  ASSUME FuzzTypes, NEW s \in Sides, NEW k \in Ids, NEW v \in 0..Broken,
         done' = [done EXCEPT ![s][k] = v]
  PROVE  OnlyDone(s, k, v) /\ done' \in [Sides -> [Ids -> 0..Broken]]
BY DEF FuzzTypes, OnlyDone

\* render up to its select: a condemned child is replaced, a goroutine started.
LEMMA StartTypes ==
  ASSUME FuzzTypes, NEW s \in Sides, Start(s)
  PROVE  /\ FuzzTypes' /\ input \in Ids
         /\ OnlyReader(s, input, "start")
         /\ \A t \in Sides : dead'[t] = IF t = s THEN FALSE ELSE dead[t]
         /\ \/ ~dead[s] /\ child' = child
            \/ /\ dead[s]
               /\ \A t \in Sides :
                    Len(child'[t]) = IF t = s THEN Len(child[t]) + 1 ELSE Len(child[t])
               /\ child'[s][Len(child[s]) + 1] = Fresh
               /\ \A t \in Sides : \A h \in 1..Len(child[t]) :
                    child'[t][h] = IF t = s /\ h = Len(child[s])
                                   THEN [child[s][h] EXCEPT !.alive = FALSE] ELSE child[t][h]
<1>1. input \in Ids /\ at \in Sides
  <2>1. at \in Sides /\ input > 0 /\ input \in 0..MaxInputs
    BY DEF Start, FuzzTypes
  <2> QED
    BY <2>1, FuzzAssumption DEF Ids
<1>2. child \in [Sides -> Seq(Procs)] /\ \A t \in Sides : Len(child[t]) > 0
  BY DEF FuzzTypes
<1>3. /\ OnlyReader(s, input, "start") /\ reader' \in Readers
      /\ \A t \in Sides, j \in Ids :
           reader'[t][j].pc = "read" => reader'[t][j].pipe \in 1..Len(child[t])
  <2>1. "start" \in Pcs \ {"read"} /\ reader' = GoneOn(reader, s, input, "start")
    BY DEF Pcs, Start, GoneOn
  <2> QED
    BY <1>1, <2>1, GoOnTypes
<1>4. /\ dead' \in [Sides -> BOOLEAN] /\ waiting' = TRUE
      /\ \A t \in Sides : dead'[t] = IF t = s THEN FALSE ELSE dead[t]
      /\ done' \in [Sides -> [Ids -> 0..Broken]]
      /\ UNCHANGED <<want, input, at, verdict>>
  <2>1. dead \in [Sides -> BOOLEAN] /\ dead' = [dead EXCEPT ![s] = FALSE]
    BY DEF Start, FuzzTypes
  <2> QED
    BY <2>1 DEF Start, FuzzTypes
<1>5. ASSUME child' \in [Sides -> Seq(Procs)], \A t \in Sides : Len(child'[t]) >= Len(child[t])
      PROVE  FuzzTypes'
  BY <1>1, <1>3, <1>4, <1>5, KeepTypes
<1>6. CASE dead[s]
  <2>1. child' = [child EXCEPT ![s] = Restarted(@)]
    BY <1>6 DEF Start
  <2>2. /\ child' \in [Sides -> Seq(Procs)]
        /\ \A t \in Sides : Len(child'[t]) = IF t = s THEN Len(child[t]) + 1 ELSE Len(child[t])
        /\ child'[s][Len(child[s]) + 1] = Fresh
        /\ \A t \in Sides : \A h \in 1..Len(child[t]) :
             child'[t][h] = IF t = s /\ h = Len(child[s]) THEN [child[s][h] EXCEPT !.alive = FALSE]
                            ELSE child[t][h]
    BY <1>2, <2>1, RestartChild
  <2>3. \A t \in Sides : Len(child'[t]) >= Len(child[t])
    BY <1>2, <2>2
  <2> QED
    BY <1>1, <1>3, <1>4, <1>5, <1>6, <2>2, <2>3
<1>7. CASE ~dead[s]
  <2>1. child' = child
    BY <1>7 DEF Start
  <2>2. \A t \in Sides : Len(child'[t]) >= Len(child[t])
    BY <1>2, <2>1
  <2> QED
    BY <1>1, <1>2, <1>3, <1>4, <1>5, <1>7, <2>1, <2>2
<1> QED
  BY <1>6, <1>7

\* A step of one child.
LEMMA ReplaceTypes ==
  ASSUME FuzzTypes, NEW s \in Sides, NEW g \in 1..Len(child[s]), NEW x \in Procs,
         child' = [child EXCEPT ![s] = [@ EXCEPT ![g] = x]]
  PROVE  /\ child' \in [Sides -> Seq(Procs)] /\ OnlyChild(s, g, x)
         /\ \A t \in Sides : Len(child'[t]) >= Len(child[t])
<1>1. child \in [Sides -> Seq(Procs)] /\ \A t \in Sides : Len(child[t]) \in Nat
  BY DEF FuzzTypes
<1>2. child' \in [Sides -> Seq(Procs)] /\ OnlyChild(s, g, x)
  BY <1>1, ReplaceChild DEF OnlyChild
<1> QED
  BY <1>1, <1>2 DEF OnlyChild

\* A request written to the current child, or the error of a closed pipe.
LEMMA WriteTypes ==
  ASSUME FuzzTypes, NEW s \in Sides, NEW k \in Ids, Write(s, k)
  PROVE  /\ FuzzTypes'
         /\ \/ /\ child[s][Current(s)].alive /\ done' = done
               /\ OnlyReader(s, k, "written")
               /\ \E x \in Procs :
                    /\ OnlyChild(s, Current(s), x)
                    /\ x.in = Append(child[s][Current(s)].in, k) /\ x.out = child[s][Current(s)].out
            \/ /\ child' = child
               /\ OnlyReader(s, k, "ended") /\ OnlyDone(s, k, Broken)
<1>1. UNCHANGED <<want, input, at, waiting, dead, verdict>>
  BY DEF Write
<1>2. waiting \in BOOLEAN /\ (waiting => at \in Sides) /\ dead \in [Sides -> BOOLEAN]
      /\ done \in [Sides -> [Ids -> 0..Broken]] /\ child \in [Sides -> Seq(Procs)]
  BY DEF FuzzTypes
<1>3. \A t \in Sides : Len(child[t]) \in Nat
  BY <1>2
<1>4. CASE child[s][Current(s)].alive
  <2> DEFINE x == [child[s][Current(s)] EXCEPT !.in = Append(@, k)]
  <2>1. /\ Current(s) \in 1..Len(child[s]) /\ x \in Procs
        /\ child' = [child EXCEPT ![s] = [@ EXCEPT ![Current(s)] = x]]
    BY <1>4, WriteEffect
  <2>fields. x.in = Append(child[s][Current(s)].in, k) /\ x.out = child[s][Current(s)].out
    BY <1>2, <2>1 DEF Procs
  <2>2. done' = done /\ "written" \in Pcs \ {"read"}
        /\ reader' = GoneOn(reader, s, k, "written")
    BY <1>4 DEF Write, Pcs, GoneOn
  <2>3. OnlyReader(s, k, "written") /\ reader' \in Readers
        /\ \A t \in Sides, j \in Ids :
             reader'[t][j].pc = "read" => reader'[t][j].pipe \in 1..Len(child[t])
    BY <2>2, GoOnTypes
  <2> HIDE DEF x
  <2>4. child' \in [Sides -> Seq(Procs)] /\ OnlyChild(s, Current(s), x)
        /\ \A t \in Sides : Len(child'[t]) >= Len(child[t])
    BY <2>1, ReplaceTypes
  <2>5. FuzzTypes'
    BY <1>1, <1>2, <2>2, <2>3, <2>4, KeepTypes
  <2> QED
    BY <1>4, <2>1, <2>fields, <2>2, <2>3, <2>4, <2>5
<1>5. CASE ~child[s][Current(s)].alive
  <2>1. Fail(s, k)
    BY <1>5 DEF Write
  <2>2. child' = child /\ "ended" \in Pcs \ {"read"} /\ Broken \in 0..Broken
        /\ reader' = GoneOn(reader, s, k, "ended") /\ done' = [done EXCEPT ![s][k] = Broken]
    BY <2>1, FuzzAssumption DEF Fail, Pcs, GoneOn, Broken
  <2>3. OnlyReader(s, k, "ended") /\ reader' \in Readers
        /\ \A t \in Sides, j \in Ids :
             reader'[t][j].pc = "read" => reader'[t][j].pipe \in 1..Len(child[t])
    BY <2>2, GoOnTypes
  <2>4. OnlyDone(s, k, Broken) /\ done' \in [Sides -> [Ids -> 0..Broken]]
    BY <2>2, DoneTypes
  <2>5. FuzzTypes'
    BY <1>1, <1>2, <1>3, <2>2, <2>3, <2>4, KeepTypes
  <2> QED
    BY <2>2, <2>3, <2>4, <2>5
<1> QED
  BY <1>4, <1>5

\* A goroutine names the pipe it reads.
LEMMA ReadTypes ==
  ASSUME FuzzTypes, NEW s \in Sides, NEW k \in Ids, Read(s, k)
  PROVE  /\ FuzzTypes'
         /\ \A t \in Sides, j \in Ids :
              /\ reader'[t][j].pc = IF t = s /\ j = k THEN "read" ELSE reader[t][j].pc
              /\ reader'[t][j].pipe = IF t = s /\ j = k THEN Current(s) ELSE reader[t][j].pipe
<1> DEFINE x == [pc |-> "read", pipe |-> Current(s)]
<1>1. UNCHANGED <<want, input, at, waiting, dead, child, done, verdict>>
  BY DEF Read
<1>2. waiting \in BOOLEAN /\ (waiting => at \in Sides) /\ dead \in [Sides -> BOOLEAN]
      /\ done \in [Sides -> [Ids -> 0..Broken]] /\ child \in [Sides -> Seq(Procs)]
      /\ \A t \in Sides : Len(child[t]) \in Nat /\ Len(child[t]) > 0
  BY DEF FuzzTypes
<1>3. x \in [pc : Pcs, pipe : Nat] /\ x.pc = "read" /\ x.pipe = Current(s)
      /\ Current(s) \in 1..Len(child[s])
  BY <1>2 DEF Pcs, Current
<1>4. reader' = [reader EXCEPT ![s][k] = x] /\ reader \in Readers
  BY DEF Read, FuzzTypes
<1> HIDE DEF x
<1>5. /\ reader' \in Readers
      /\ \A t \in Sides, j \in Ids : reader'[t][j] = IF t = s /\ j = k THEN x ELSE reader[t][j]
  BY <1>3, <1>4 DEF Readers
<1>6. \A t \in Sides, j \in Ids :
        reader'[t][j].pc = "read" => reader'[t][j].pipe \in 1..Len(child[t])
  BY <1>3, <1>5 DEF FuzzTypes, Current
<1>7. FuzzTypes'
  BY <1>1, <1>2, <1>5, <1>6, KeepTypes
<1> QED
  BY <1>3, <1>5, <1>7

\* An answer, or the end of the pipe, reaches its reader.
LEMMA DeliverTypes ==
  ASSUME FuzzTypes, NEW s \in Sides, NEW k \in Ids, Deliver(s, k)
  PROVE  LET g == reader[s][k].pipe  c == child[s][g] IN
         /\ FuzzTypes' /\ g \in 1..Len(child[s]) /\ OnlyReader(s, k, "ended")
         /\ \/ /\ c.out # << >> /\ OnlyDone(s, k, Head(c.out))
               /\ \E x \in Procs : /\ OnlyChild(s, g, x) /\ x.alive = c.alive
                                  /\ x.in = c.in /\ x.out = Tail(c.out)
            \/ child' = child /\ c.out = << >> /\ ~c.alive /\ OnlyDone(s, k, Broken)
<1> DEFINE g == reader[s][k].pipe
           x == [child[s][g] EXCEPT !.out = Tail(@)]
<1>1. UNCHANGED <<want, input, at, waiting, dead, verdict>>
  BY DEF Deliver
<1>2. waiting \in BOOLEAN /\ (waiting => at \in Sides) /\ dead \in [Sides -> BOOLEAN]
      /\ child \in [Sides -> Seq(Procs)] /\ \A t \in Sides : Len(child[t]) \in Nat
  BY DEF FuzzTypes
<1>3. g \in 1..Len(child[s])
  BY DEF FuzzTypes, Deliver, Current
<1>4. reader' = GoneOn(reader, s, k, "ended") /\ "ended" \in Pcs \ {"read"}
  BY DEF Deliver, Fail, GoneOn, Pcs
<1>5. OnlyReader(s, k, "ended") /\ reader' \in Readers
      /\ \A t \in Sides, j \in Ids :
           reader'[t][j].pc = "read" => reader'[t][j].pipe \in 1..Len(child[t])
  BY <1>4, GoOnTypes
<1>6. ASSUME NEW v \in 0..Broken, done' = [done EXCEPT ![s][k] = v],
             child' \in [Sides -> Seq(Procs)], \A t \in Sides : Len(child'[t]) >= Len(child[t])
      PROVE  FuzzTypes' /\ OnlyDone(s, k, v)
  <2>1. OnlyDone(s, k, v) /\ done' \in [Sides -> [Ids -> 0..Broken]]
    BY <1>6, DoneTypes
  <2> QED
    BY <1>1, <1>2, <1>5, <1>6, <2>1, KeepTypes
<1>7. CASE child[s][g].out # << >>
  <2>1. done' = [done EXCEPT ![s][k] = Head(child[s][g].out)]
        /\ child' = [child EXCEPT ![s][g].out = Tail(@)]
    BY <1>7 DEF Deliver
  <2>2. /\ Head(child[s][g].out) \in Ids /\ x \in Procs
        /\ child' = [child EXCEPT ![s] = [@ EXCEPT ![g] = x]]
    BY <1>3, <1>7, <2>1, DeliverEffect
  <2>fields. x.alive = child[s][g].alive /\ x.in = child[s][g].in /\ x.out = Tail(child[s][g].out)
    BY <1>2, <1>3 DEF Procs
  <2>3. Head(child[s][g].out) \in 0..Broken
    <3>1. Ids \subseteq 0..Broken
      BY FuzzAssumption DEF Ids, Broken
    <3> QED
      BY <2>2, <3>1, Zenon
  <2> HIDE DEF x
  <2>4. child' \in [Sides -> Seq(Procs)] /\ OnlyChild(s, g, x)
        /\ \A t \in Sides : Len(child'[t]) >= Len(child[t])
    BY <1>3, <2>2, ReplaceTypes
  <2>5. FuzzTypes' /\ OnlyDone(s, k, Head(child[s][g].out))
    BY <1>6, <2>1, <2>3, <2>4
  <2> QED
    BY <1>3, <1>5, <1>7, <2>2, <2>fields, <2>4, <2>5
<1>8. CASE child[s][g].out = << >>
  <2>1. done' = [done EXCEPT ![s][k] = Broken] /\ child' = child /\ ~child[s][g].alive
    BY <1>8 DEF Deliver, Fail
  <2>2. Broken \in 0..Broken
    BY FuzzAssumption DEF Broken
  <2>3. child' \in [Sides -> Seq(Procs)] /\ \A t \in Sides : Len(child'[t]) >= Len(child[t])
    BY <1>2, <2>1
  <2>4. FuzzTypes' /\ OnlyDone(s, k, Broken)
    BY <1>6, <2>1, <2>2, <2>3
  <2> QED
    BY <1>3, <1>5, <1>8, <2>1, <2>4
<1> QED
  BY <1>7, <1>8

\* A child takes its first request.
LEMMA ServeTypes ==
  ASSUME FuzzTypes, NEW s \in Sides, NEW g \in 1..Len(child[s]), Serve(s, g)
  PROVE  LET c == child[s][g] IN
         /\ FuzzTypes' /\ Head(c.in) \in Ids /\ c.alive /\ c.in # << >>
         /\ \E x \in Procs : /\ OnlyChild(s, g, x) /\ x.in = Tail(c.in)
                            /\ x.out \in {c.out, Append(c.out, Head(c.in))}
<1> DEFINE c == child[s][g]  k == Head(c.in)  rest == [c EXCEPT !.in = Tail(@)]
<1>1. UNCHANGED <<want, input, at, waiting, dead, reader, done, verdict>>
  BY DEF Serve
<1>2. waiting \in BOOLEAN /\ (waiting => at \in Sides) /\ dead \in [Sides -> BOOLEAN]
      /\ reader \in Readers /\ done \in [Sides -> [Ids -> 0..Broken]]
      /\ \A t \in Sides, j \in Ids : reader[t][j].pc = "read" => reader[t][j].pipe \in 1..Len(child[t])
  BY DEF FuzzTypes, Current
<1>3. PICK x \in {[rest EXCEPT !.stuck = TRUE], [rest EXCEPT !.alive = FALSE],
                  [rest EXCEPT !.out = Append(@, k)]} :
        /\ x \in Procs /\ c \in Procs /\ k \in Ids
        /\ child' = [child EXCEPT ![s] = [@ EXCEPT ![g] = x]]
  BY ServeEffect
<1>4. c.alive /\ c.in # << >>
  BY DEF Serve
<1>fields. x.in = Tail(c.in) /\ x.out \in {c.out, Append(c.out, Head(c.in))}
  BY <1>3 DEF Procs
<1> HIDE DEF c, rest, k
<1>5. child' \in [Sides -> Seq(Procs)] /\ OnlyChild(s, g, x)
      /\ \A t \in Sides : Len(child'[t]) >= Len(child[t])
  BY <1>3, ReplaceTypes
<1>6. FuzzTypes'
  BY <1>1, <1>2, <1>5, KeepTypes
<1> QED
  BY <1>3, <1>4, <1>fields, <1>5, <1>6 DEF c, k

\* render takes the reply.
LEMMA ReceiveTypes ==
  ASSUME FuzzTypes, NEW s \in Sides, Receive(s)
  PROVE  /\ FuzzTypes' /\ input \in Ids /\ OnlyDone(s, input, NoReply)
         /\ \A t \in Sides : /\ dead[t] => dead'[t]
                             /\ t # s => verdict'[t] = verdict[t]
         /\ verdict'[s] = IF done[s][input] = Broken THEN "error" ELSE want[done[s][input]][s]
<1>1. at \in Sides /\ input \in Ids
  <2>1. at \in Sides /\ input > 0 /\ input \in 0..MaxInputs
    BY DEF Receive, FuzzTypes
  <2> QED
    BY <2>1, FuzzAssumption DEF Ids
<1>2. /\ want \in [Ids -> [Sides -> Results]] /\ done[s][input] \in 0..Broken
      /\ dead \in [Sides -> BOOLEAN] /\ verdict \in [Sides -> Returned]
  BY <1>1 DEF FuzzTypes
<1> DEFINE v == IF done[s][input] = Broken THEN "error" ELSE want[done[s][input]][s]
<1>3. v \in Returned
  <2>1. done[s][input] = Broken \/ done[s][input] \in Ids
    BY <1>2, FuzzAssumption DEF Receive, NoReply, Broken, Ids
  <2> QED
    BY <1>2, <2>1 DEF Returned
<1>4. /\ done' = [done EXCEPT ![s][input] = NoReply] /\ NoReply \in 0..Broken
      /\ verdict' = [verdict EXCEPT ![s] = v]
  BY FuzzAssumption DEF Receive, Return, NoReply, Broken
<1>5. OnlyDone(s, input, NoReply) /\ done' \in [Sides -> [Ids -> 0..Broken]]
  BY <1>1, <1>4, DoneTypes
<1>6. UNCHANGED <<want, input, child, reader>> /\ waiting' = FALSE
      /\ at' = (IF s = "go" THEN "rust" ELSE "judge")
  BY DEF Receive, Return
<1>7. at' \in Sides \cup {"judge"}
  BY <1>6 DEF Sides
<1>8. dead' \in [Sides -> BOOLEAN] /\ \A t \in Sides : dead[t] => dead'[t]
  <2>1. dead' = dead \/ dead' = [dead EXCEPT ![s] = TRUE]
    BY DEF Receive
  <2> QED
    BY <1>2, <2>1
<1> HIDE DEF v
<1>9. verdict' \in [Sides -> Returned] /\ verdict'[s] = v
      /\ \A t \in Sides : t # s => verdict'[t] = verdict[t]
  BY <1>2, <1>3, <1>4
<1>10. FuzzTypes'
  BY <1>1, <1>5, <1>6, <1>7, <1>8, <1>9, FuzzAssumption DEF FuzzTypes, Current, Ids
<1> QED
  BY <1>1, <1>5, <1>8, <1>9, <1>10 DEF v

\* render gives up.
LEMMA TimeOutTypes ==
  ASSUME FuzzTypes, NEW s \in Sides, TimeOut(s)
  PROVE  /\ FuzzTypes' /\ input \in Ids
         /\ \A t \in Sides : /\ dead'[t] = IF t = s THEN TRUE ELSE dead[t]
                             /\ verdict'[t] = IF t = s THEN "hung" ELSE verdict[t]
<1>1. at \in Sides /\ input \in Ids
  <2>1. at \in Sides /\ input > 0 /\ input \in 0..MaxInputs
    BY DEF TimeOut, FuzzTypes
  <2> QED
    BY <2>1, FuzzAssumption DEF Ids
<1>2. dead \in [Sides -> BOOLEAN] /\ verdict \in [Sides -> Returned]
  BY DEF FuzzTypes
<1>3. UNCHANGED <<want, input, child, reader, done>> /\ waiting' = FALSE
      /\ at' = (IF s = "go" THEN "rust" ELSE "judge")
  BY DEF TimeOut, Return
<1>4. at' \in Sides \cup {"judge"}
  BY <1>3 DEF Sides
<1>5. dead' = [dead EXCEPT ![s] = TRUE] /\ verdict' = [verdict EXCEPT ![s] = "hung"]
  BY DEF TimeOut, Return
<1>6. /\ dead' \in [Sides -> BOOLEAN]
      /\ \A t \in Sides : dead'[t] = IF t = s THEN TRUE ELSE dead[t]
  BY <1>2, <1>5
<1>7. /\ verdict' \in [Sides -> Returned]
      /\ \A t \in Sides : verdict'[t] = IF t = s THEN "hung" ELSE verdict[t]
  BY <1>2, <1>5 DEF Returned
<1>8. FuzzTypes'
  BY <1>1, <1>3, <1>4, <1>6, <1>7, FuzzAssumption DEF FuzzTypes, Current, Ids
<1> QED
  BY <1>1, <1>6, <1>7, <1>8

\* The loop's own steps.
LEMMA LoopTypes ==
  ASSUME FuzzTypes, Draw \/ Judge \/ Exit
  PROVE  FuzzTypes'
<1>1. CASE Draw
  <2>1. input' \in 0..MaxInputs /\ input' > 0 /\ at' = "go"
    BY <1>1, FuzzAssumption DEF Draw, FuzzTypes
  <2>2. at' \in Sides
    BY <2>1 DEF Sides
  <2> QED
    BY <1>1, <2>1, <2>2 DEF Draw, FuzzTypes, Current
<1>2. CASE Judge
  <2>1. at' = "draw" /\ at' \notin Sides \cup {"judge"} /\ ~waiting
    BY <1>2 DEF Judge, FuzzTypes, Sides
  <2> QED
    BY <1>2, <2>1 DEF Judge, FuzzTypes, Current
<1>3. CASE Exit
  <2>1. at' = "exited" /\ at' \notin Sides \cup {"judge"} /\ ~waiting
    BY <1>3 DEF Exit, FuzzTypes, Sides
  <2> QED
    BY <1>3, <2>1 DEF Exit, FuzzTypes, Current
<1> QED
  BY <1>1, <1>2, <1>3

\* The deferred closes kill the current children.
LEMMA FinishTypes ==
  ASSUME FuzzTypes, Finish
  PROVE  /\ FuzzTypes' /\ at' = "ended" /\ waiting = FALSE
         /\ \A t \in Sides :
              /\ Len(child'[t]) = Len(child[t])
              /\ \A h \in 1..Len(child[t]) :
                   child'[t][h] = IF h = Len(child[t])
                                  THEN [child[t][h] EXCEPT !.alive = FALSE] ELSE child[t][h]
<1>1. at' = "ended" /\ at' \notin Sides \cup {"judge"} /\ waiting = FALSE
      /\ UNCHANGED <<want, input, waiting, dead, reader, done, verdict>>
  BY DEF Finish, FuzzTypes, Sides
<1>2. ASSUME NEW t \in Sides
      PROVE  /\ child'[t] \in Seq(Procs)
             /\ Len(child'[t]) = Len(child[t])
             /\ \A h \in 1..Len(child[t]) :
                  child'[t][h] = IF h = Len(child[t])
                                 THEN [child[t][h] EXCEPT !.alive = FALSE] ELSE child[t][h]
  <2> DEFINE q == child[t]
             y == [q[Len(q)] EXCEPT !.alive = FALSE]
  <2>1. q \in Seq(Procs) /\ Len(q) \in 1..Len(q) /\ q[Len(q)] \in Procs
    BY DEF FuzzTypes
  <2>2. y \in Procs
    BY <2>1 DEF Procs
  <2>3. child'[t] = [q EXCEPT ![Len(q)] = y]
    BY <2>1 DEF Finish
  <2> HIDE DEF q, y
  <2>4. /\ child'[t] \in Seq(Procs) /\ Len(child'[t]) = Len(q)
        /\ \A h \in 1..Len(q) : child'[t][h] = IF h = Len(q) THEN y ELSE q[h]
    BY <2>1, <2>2, <2>3
  <2> QED
    BY <2>4 DEF q, y
<1>3. child' \in [Sides -> Seq(Procs)]
  BY <1>2 DEF Finish
<1>4. \A t \in Sides : Len(child'[t]) = Len(child[t]) /\ Len(child[t]) \in Nat
  BY <1>2 DEF FuzzTypes
<1>5. FuzzTypes'
  BY <1>1, <1>3, <1>4 DEF FuzzTypes, Current
<1> QED
  BY <1>1, <1>2, <1>5

\* A child left behind ends, and takes nothing with it.
LEMMA EndOfInputTypes ==
  ASSUME FuzzTypes, NEW s \in Sides, NEW g \in 1..Len(child[s]), EndOfInput(s, g)
  PROVE  /\ FuzzTypes' /\ at' = at /\ child[s][g].alive
         /\ \E x \in Procs : /\ OnlyChild(s, g, x) /\ ~x.alive
                            /\ x.in = child[s][g].in /\ x.out = child[s][g].out
<1> DEFINE x == [child[s][g] EXCEPT !.alive = FALSE]
<1>1. child \in [Sides -> Seq(Procs)] /\ child[s][g] \in Procs
  BY DEF FuzzTypes
<1>2. /\ x \in Procs /\ ~x.alive
      /\ x.in = child[s][g].in /\ x.out = child[s][g].out
  BY <1>1 DEF Procs
<1>3. child' = [child EXCEPT ![s] = [@ EXCEPT ![g] = x]]
  BY DEF EndOfInput
<1> HIDE DEF x
<1>4. child' \in [Sides -> Seq(Procs)] /\ OnlyChild(s, g, x)
  BY <1>1, <1>2, <1>3, ReplaceChild DEF OnlyChild
<1>5. UNCHANGED <<want, input, at, waiting, dead, reader, done, verdict>> /\ child[s][g].alive
  BY DEF EndOfInput
<1>6. \A t \in Sides : Len(child'[t]) = Len(child[t])
  BY <1>4 DEF OnlyChild
<1>7. FuzzTypes'
  BY <1>4, <1>5, <1>6 DEF FuzzTypes, Current
<1> QED
  BY <1>2, <1>4, <1>5, <1>7

-----------------------------------------------------------------------------
\* One child a side, and the run has not ended.
LEMMA ChildrenInit == FInit => NoChildLeft
<1> SUFFICES ASSUME FInit PROVE NoChildLeft
  OBVIOUS
<1>1. at # "ended" /\ \A s \in Sides : child[s] = << Fresh >>
  BY DEF FInit
<1>2. \A s \in Sides : DOMAIN child[s] = {1} /\ Current(s) = 1
  BY <1>1 DEF Current
<1> QED
  BY <1>1, <1>2 DEF NoChildLeft

\* A child that is running was, unless it is the one restart has just started.
LEMMA ChildrenStep ==
  ASSUME FuzzTypes, NoChildLeft, [FNext]_fvars
  PROVE  FuzzTypes' /\ NoChildLeft'
<1>1. \A t \in Sides : child[t] \in Seq(Procs) /\ DOMAIN child[t] = 1..Len(child[t]) /\ Len(child[t]) \in Nat
  BY DEF FuzzTypes
<1>2. ASSUME FuzzTypes', at' # "ended" \/ at' = at,
             \A t \in Sides :
               /\ Len(child'[t]) = Len(child[t])
               /\ \A h \in 1..Len(child[t]) : child'[t][h].alive => child[t][h].alive
      PROVE  NoChildLeft'
  <2>1. \A t \in Sides : DOMAIN child'[t] = 1..Len(child'[t])
    BY <1>2 DEF FuzzTypes
  <2>2. \A t \in Sides : Len(child[t]) \in 1..Len(child[t])
    BY DEF FuzzTypes
  <2> QED
    BY <1>1, <1>2, <2>1, <2>2 DEF NoChildLeft, Current
<1>3. ASSUME FuzzTypes', at' # "ended" \/ at' = at, child' = child
      PROVE  NoChildLeft'
  BY <1>2, <1>3
<1>4. CASE Draw \/ Judge \/ Exit
  BY <1>3, <1>4, LoopTypes DEF Draw, Judge, Exit
<1>5. CASE Finish
  <2>1. FuzzTypes' /\ \A t \in Sides : DOMAIN child'[t] = 1..Len(child'[t])
    <3>1. FuzzTypes'
      BY <1>5, FinishTypes
    <3> QED
      BY <3>1 DEF FuzzTypes
  <2> SUFFICES ASSUME NEW t \in Sides
               PROVE  /\ \A h \in DOMAIN child'[t] : child'[t][h].alive => h = Len(child'[t])
                      /\ ~child'[t][Len(child'[t])].alive
    BY <2>1 DEF NoChildLeft, Current
  <2>2. /\ Len(child'[t]) = Len(child[t]) /\ Len(child[t]) \in 1..Len(child[t])
        /\ \A h \in 1..Len(child[t]) :
             child'[t][h] = IF h = Len(child[t])
                            THEN [child[t][h] EXCEPT !.alive = FALSE] ELSE child[t][h]
    <3>1. Len(child[t]) \in 1..Len(child[t])
      BY DEF FuzzTypes
    <3> QED
      BY <1>5, <3>1, FinishTypes
  <2>3. \A h \in 1..Len(child[t]) : ~[child[t][h] EXCEPT !.alive = FALSE].alive
    BY <1>1 DEF Procs
  <2> QED
    BY <1>1, <2>1, <2>2, <2>3 DEF NoChildLeft, Current
<1>6. ASSUME NEW s \in Sides, Start(s)
      PROVE  FuzzTypes' /\ NoChildLeft'
  <2>1. FuzzTypes' /\ at' # "ended" /\ at' = at
    BY <1>6, StartTypes DEF Start, Sides
  <2>2. CASE child' = child
    BY <1>3, <2>1, <2>2
  <2>3. CASE /\ \A t \in Sides :
                  Len(child'[t]) = IF t = s THEN Len(child[t]) + 1 ELSE Len(child[t])
             /\ \A t \in Sides : \A h \in 1..Len(child[t]) :
                  child'[t][h] = IF t = s /\ h = Len(child[s])
                                 THEN [child[s][h] EXCEPT !.alive = FALSE] ELSE child[t][h]
    <3>1. \A t \in Sides : DOMAIN child'[t] = 1..Len(child'[t])
      BY <2>1 DEF FuzzTypes
    <3>2. \A h \in 1..Len(child[s]) : ~[child[s][h] EXCEPT !.alive = FALSE].alive
      BY <1>1 DEF Procs
    <3> SUFFICES ASSUME NEW t \in Sides, NEW h \in 1..Len(child'[t]), child'[t][h].alive
                 PROVE  h = Len(child'[t])
      BY <2>1, <3>1 DEF NoChildLeft, Current
    <3>3. CASE t = s
      <4>1. h \in 1..Len(child[s]) \/ h = Len(child'[s])
        BY <1>1, <2>3, <3>3
      <4>2. ASSUME h \in 1..Len(child[s]) PROVE FALSE
        <5>1. h # Len(child[s]) /\ child[s][h].alive
          BY <2>3, <3>2, <3>3, <4>2
        <5> QED
          BY <1>1, <4>2, <5>1 DEF NoChildLeft, Current
      <4> QED
        BY <3>3, <4>1, <4>2
    <3>4. CASE t # s
      <4>1. Len(child'[t]) = Len(child[t]) /\ h \in 1..Len(child[t]) /\ child[t][h].alive
        BY <2>3, <3>4
      <4> QED
        BY <1>1, <4>1 DEF NoChildLeft, Current
    <3> QED
      BY <3>3, <3>4
  <2> QED
    BY <1>6, <2>2, <2>3, StartTypes
<1>7. ASSUME NEW s \in Sides, Receive(s) \/ TimeOut(s)
      PROVE  FuzzTypes' /\ NoChildLeft'
  <2>1. FuzzTypes'
    BY <1>7, ReceiveTypes, TimeOutTypes
  <2>2. child' = child /\ at' # "ended"
    BY <1>7 DEF Receive, TimeOut, Return
  <2> QED
    BY <1>3, <2>1, <2>2
<1>8. ASSUME NEW s \in Sides, NEW g \in 1..Len(child[s]), NEW x, OnlyChild(s, g, x),
             x.alive => child[s][g].alive, FuzzTypes', at' = at
      PROVE  NoChildLeft'
  BY <1>2, <1>8 DEF OnlyChild
<1>9. ASSUME NEW s \in Sides, NEW g \in DOMAIN child[s], Serve(s, g)
      PROVE  FuzzTypes' /\ NoChildLeft'
  <2>1. g \in 1..Len(child[s])
    BY <1>1
  <2>2. FuzzTypes' /\ child[s][g].alive /\ \E x \in Procs : OnlyChild(s, g, x)
    BY <1>9, <2>1, ServeTypes
  <2>3. at' = at
    BY <1>9 DEF Serve
  <2> QED
    BY <1>8, <2>1, <2>2, <2>3
<1>14. ASSUME NEW s \in Sides, NEW g \in DOMAIN child[s], EndOfInput(s, g)
       PROVE  FuzzTypes' /\ NoChildLeft'
  <2>1. g \in 1..Len(child[s])
    BY <1>1
  <2> QED
    BY <1>8, <1>14, <2>1, EndOfInputTypes
<1>10. ASSUME NEW s \in Sides, NEW k \in Ids, Write(s, k)
       PROVE  FuzzTypes' /\ NoChildLeft'
  <2>1. at' = at
    BY <1>10 DEF Write
  <2>2. /\ FuzzTypes'
        /\ \/ child' = child
           \/ child[s][Current(s)].alive /\ \E x \in Procs : OnlyChild(s, Current(s), x)
    BY <1>10, WriteTypes
  <2>3. Current(s) \in 1..Len(child[s])
    BY DEF FuzzTypes, Current
  <2> QED
    BY <1>3, <1>8, <2>1, <2>2, <2>3
<1>11. ASSUME NEW s \in Sides, NEW k \in Ids, Read(s, k)
       PROVE  FuzzTypes' /\ NoChildLeft'
  BY <1>3, <1>11, ReadTypes DEF Read
<1>12. ASSUME NEW s \in Sides, NEW k \in Ids, Deliver(s, k)
       PROVE  FuzzTypes' /\ NoChildLeft'
  <2> DEFINE g == reader[s][k].pipe
  <2>1. at' = at
    BY <1>12 DEF Deliver
  <2>2. /\ FuzzTypes' /\ g \in 1..Len(child[s])
        /\ \/ child' = child
           \/ \E x \in Procs : OnlyChild(s, g, x) /\ x.alive = child[s][g].alive
    BY <1>12, DeliverTypes
  <2> HIDE DEF g
  <2> QED
    BY <1>3, <1>8, <2>1, <2>2
<1>13. CASE UNCHANGED fvars
  <2>1. FuzzTypes' /\ at' = at /\ child' = child
    BY <1>13 DEF fvars, FuzzTypes, Current
  <2> QED
    BY <1>3, <2>1
<1> QED
  BY <1>4, <1>5, <1>6, <1>7, <1>9, <1>10, <1>11, <1>12, <1>13, <1>14
     DEF FNext, Loop, Render, Children, Reader

-----------------------------------------------------------------------------
\* The strengthening holds at first.
LEMMA InvInit == FInit => FuzzInv
<1> SUFFICES ASSUME FInit PROVE FuzzInv
  OBVIOUS
<1>1. FuzzTypes
  BY TypesInit
<1>2. /\ \A s \in Sides, k \in Ids : reader[s][k].pc = "none" /\ done[s][k] = NoReply
      /\ at = "draw" /\ report = "none"
  BY DEF FInit
<1>3. Goroutines /\ Apart
  BY <1>2 DEF Goroutines, Apart
<1>4. Held
  <2>1. \A s \in Sides : child[s] = << Fresh >>
    BY DEF FInit
  <2>2. Fresh.in = << >> /\ Fresh.out = << >>
    BY DEF Fresh
  <2>3. \A s \in Sides : \A g \in 1..Len(child[s]) : child[s][g] = Fresh
    BY <2>1
  <2> QED
    BY <2>2, <2>3 DEF Held
<1>5. Verdicts /\ ReportsAreTrue
  BY <1>2 DEF Verdicts, Judged, ReportsAreTrue
<1> QED
  BY <1>1, <1>3, <1>4, <1>5 DEF FuzzInv

\* Nothing is left of a sequence of one.
LEMMA TailOfOne ==
  ASSUME NEW S, NEW q \in Seq(S), q # << >>, Len(q) <= 1
  PROVE  Tail(q) = << >>
<1>1. Tail(q) \in Seq(S) /\ Len(Tail(q)) = 0
  <2>1. Len(q) \in Nat \ {0}
    BY EmptySeq
  <2> QED
    BY <2>1
<1> QED
  BY <1>1, EmptySeq

\* What a child holds are requests.
LEMMA Contents ==
  ASSUME FuzzTypes, NEW s \in Sides, NEW g \in 1..Len(child[s])
  PROVE  LET c == child[s][g] IN
         /\ c \in Procs /\ c.in \in Seq(Ids) /\ c.out \in Seq(Ids)
         /\ c.in # << >> => Head(c.in) \in Ids
         /\ c.out # << >> => Head(c.out) \in Ids
<1>1. child[s][g] \in Procs
  BY DEF FuzzTypes
<1>2. child[s][g].in \in Seq(Ids) /\ child[s][g].out \in Seq(Ids)
  BY <1>1 DEF Procs
<1> QED
  BY <1>1, <1>2

\* What Held asks of a child after the step.
OnPipeNext(s, k, g) ==
  \/ reader'[s][k].pc = "read" /\ reader'[s][k].pipe = g
  \/ reader'[s][k].pc = "written" /\ g = Len(child'[s])

HeldNext(s, g, c) ==
  /\ c.in = << >> \/ c.out = << >>
  /\ Len(c.in) <= 1 /\ Len(c.out) <= 1
  /\ c.out # << >> => OnPipeNext(s, Head(c.out), g)
  /\ c.alive /\ c.in # << >> => OnPipeNext(s, Head(c.in), g)

LEMMA HeldAfter ==
  ASSUME \A s \in Sides : \A g \in 1..Len(child'[s]) : HeldNext(s, g, child'[s][g])
  PROVE  Held'
BY DEF Held, HeldNext, OnPipe, OnPipeNext, Current

\* Who reads what, and what the children hold, is theirs alone to change.
LEMMA PipesKept ==
  ASSUME FuzzTypes, Apart, Held, UNCHANGED <<child, reader>>
  PROVE  Apart' /\ Held'
<1>1. child' = child /\ reader' = reader
  OBVIOUS
<1>2. Apart'
  BY <1>1 DEF Apart
<1>3. \A s \in Sides : \A k \in Ids, g \in 1..Len(child[s]) :
        OnPipe(s, k, g) => OnPipeNext(s, k, g)
  BY <1>1 DEF OnPipe, OnPipeNext, Current
<1>4. ASSUME NEW s \in Sides, NEW g \in 1..Len(child'[s])
      PROVE  HeldNext(s, g, child'[s][g])
  <2>1. g \in 1..Len(child[s]) /\ child'[s][g] = child[s][g]
    BY <1>1
  <2>2. /\ child[s][g].in # << >> => Head(child[s][g].in) \in Ids
        /\ child[s][g].out # << >> => Head(child[s][g].out) \in Ids
    BY <2>1, Contents
  <2>3. HeldNext(s, g, child[s][g])
    BY <1>3, <2>1, <2>2 DEF HeldNext, Held
  <2> QED
    BY <2>1, <2>3
<1> QED
  BY <1>2, <1>4, HeldAfter

\* The loop's own verdicts are out of the goroutines' and children's reach.
LEMMA VerdictsKept ==
  ASSUME Verdicts, ReportsAreTrue, UNCHANGED <<want, input, at, verdict, report>>
  PROVE  Verdicts' /\ ReportsAreTrue'
BY DEF Verdicts, Judged, ReportsAreTrue

\* The next input finds no goroutine on its way to a child.
LEMMA DrawInv ==
  ASSUME FuzzInv, Draw
  PROVE  FuzzInv'
<1>1. FuzzTypes /\ Goroutines /\ Apart /\ Held
  BY DEF FuzzInv
<1>2. /\ at = "draw" /\ ~waiting /\ input \in Nat /\ input' = input + 1 /\ at' = "go"
      /\ UNCHANGED <<waiting, dead, child, reader, done>>
  BY <1>1, FuzzAssumption DEF Draw, FuzzTypes, Sides
<1>3. Goroutines'
  <2>1. \A s \in Sides, k \in Ids : reader[s][k].pc \notin {"start", "written"}
    BY <1>1, <1>2 DEF Goroutines, Awaited
  <2>2. \A s \in Sides, k \in Ids : Started(s, k) => Started(s, k)'
    BY <1>2 DEF Started, Ids
  <2>3. \A s \in Sides, k \in Ids :
          reader[s][k].pc = "read" /\ reader[s][k].pipe = Current(s) => dead[s]
    BY <1>1, <1>2 DEF Goroutines, Awaited
  <2> QED
    BY <1>1, <1>2, <2>1, <2>2, <2>3 DEF Goroutines, Current
<1>4. Apart' /\ Held'
  BY <1>1, <1>2, PipesKept
<1>5. Verdicts' /\ ReportsAreTrue'
  BY <1>2 DEF Verdicts, Judged, ReportsAreTrue
<1>6. FuzzTypes'
  BY <1>1, LoopTypes
<1> QED
  BY <1>3, <1>4, <1>5, <1>6 DEF FuzzInv

\* Two sides that were both given up on are never taken to agree or differ.
LEMMA JudgeInv ==
  ASSUME FuzzInv, Judge
  PROVE  FuzzInv'
<1>1. FuzzTypes /\ Goroutines /\ Apart /\ Held /\ Verdicts
  BY DEF FuzzInv
<1>2. /\ at = "judge" /\ ~waiting /\ at' = "draw"
      /\ UNCHANGED <<want, input, waiting, dead, child, reader, done, verdict>>
  BY <1>1 DEF Judge, FuzzTypes, Sides
<1>3. Goroutines' /\ Apart' /\ Held' /\ Verdicts'
  <2>1. Goroutines'
    BY <1>1, <1>2 DEF Goroutines, Current, Awaited, Started, Sides
  <2>2. Apart' /\ Held'
    BY <1>1, <1>2, PipesKept
  <2>3. Verdicts'
    BY <1>2 DEF Verdicts, Judged
  <2> QED
    BY <2>1, <2>2, <2>3
<1>4. ReportsAreTrue'
  <2>1. /\ verdict["go"] \in {"hung", "error", want[input]["go"]}
        /\ verdict["rust"] \in {"hung", "error", want[input]["rust"]}
    BY <1>1, <1>2 DEF Verdicts, Judged, Sides
  <2>2. report' = Compared(verdict["go"], verdict["rust"])
    BY DEF Judge
  <2>3. CASE "hung" \in {verdict["go"], verdict["rust"]}
    BY <1>2, <2>2, <2>3 DEF Compared, ReportsAreTrue
  <2>4. CASE "error" \in {verdict["go"], verdict["rust"]} /\ "hung" \notin {verdict["go"], verdict["rust"]}
    BY <1>2, <2>2, <2>4 DEF Compared, ReportsAreTrue
  <2>5. CASE {"hung", "error"} \cap {verdict["go"], verdict["rust"]} = {}
    <3>1. verdict["go"] = want[input]["go"] /\ verdict["rust"] = want[input]["rust"]
      BY <2>1, <2>5
    <3>2. report' = IF verdict["go"] = verdict["rust"] THEN "agree" ELSE "differ"
      BY <2>2, <2>5 DEF Compared
    <3> QED
      BY <1>2, <3>1, <3>2 DEF ReportsAreTrue
  <2> QED
    BY <2>3, <2>4, <2>5
<1>5. FuzzTypes'
  BY <1>1, LoopTypes
<1> QED
  BY <1>3, <1>4, <1>5 DEF FuzzInv

\* os.Exit leaves everything as it is.
LEMMA ExitInv ==
  ASSUME FuzzInv, Exit
  PROVE  FuzzInv'
<1>1. FuzzTypes /\ Goroutines /\ Apart /\ Held
  BY DEF FuzzInv
<1>2. /\ at = "draw" /\ ~waiting /\ at' = "exited"
      /\ UNCHANGED <<want, input, waiting, dead, child, reader, done, verdict>>
  BY <1>1 DEF Exit, FuzzTypes, Sides
<1>3. Goroutines'
  BY <1>1, <1>2 DEF Goroutines, Current, Awaited, Started, Sides
<1>4. Apart' /\ Held'
  BY <1>1, <1>2, PipesKept
<1>5. Verdicts' /\ ReportsAreTrue'
  BY <1>2 DEF Verdicts, Judged, ReportsAreTrue, Sides
<1>6. FuzzTypes'
  BY <1>1, LoopTypes
<1> QED
  BY <1>3, <1>4, <1>5, <1>6 DEF FuzzInv

\* Killing the children takes nothing from their readers.
LEMMA FinishInv ==
  ASSUME FuzzInv, Finish
  PROVE  FuzzInv'
<1>1. FuzzTypes /\ Goroutines /\ Apart /\ Held
  BY DEF FuzzInv
<1>2. /\ at = "draw" /\ ~waiting /\ at' = "ended"
      /\ UNCHANGED <<want, input, waiting, dead, reader, done, verdict>>
  BY <1>1 DEF Finish, FuzzTypes, Sides
<1>3. ASSUME NEW s \in Sides
      PROVE  /\ Len(child'[s]) = Len(child[s])
             /\ \A h \in 1..Len(child[s]) :
                  child'[s][h] = IF h = Len(child[s])
                                 THEN [child[s][h] EXCEPT !.alive = FALSE] ELSE child[s][h]
  BY <1>1, FinishTypes
<1>4. \A s \in Sides : \A g \in 1..Len(child[s]) :
        /\ child'[s][g].in = child[s][g].in /\ child'[s][g].out = child[s][g].out
        /\ child'[s][g].alive => child[s][g].alive
  <2> SUFFICES ASSUME NEW s \in Sides, NEW g \in 1..Len(child[s])
               PROVE  /\ child'[s][g].in = child[s][g].in /\ child'[s][g].out = child[s][g].out
                      /\ child'[s][g].alive => child[s][g].alive
    OBVIOUS
  <2>1. child[s][g] \in Procs
    BY <1>1 DEF FuzzTypes
  <2>2. child'[s][g] \in {child[s][g], [child[s][g] EXCEPT !.alive = FALSE]}
    BY <1>3
  <2>3. LET x == [child[s][g] EXCEPT !.alive = FALSE] IN
        x.in = child[s][g].in /\ x.out = child[s][g].out /\ ~x.alive
    BY <2>1 DEF Procs
  <2> QED
    BY <2>2, <2>3
<1>5. Goroutines' /\ Apart'
  BY <1>1, <1>2, <1>3 DEF Goroutines, Apart, Current, Awaited, Started, Sides
<1>6. Held'
  <2>1. ASSUME NEW t \in Sides, NEW j \in Ids, NEW g, OnPipe(t, j, g)
        PROVE  OnPipeNext(t, j, g)
    BY <1>2, <1>3, <2>1 DEF OnPipe, OnPipeNext, Current
  <2>2. ASSUME NEW t \in Sides, NEW g \in 1..Len(child'[t])
        PROVE  HeldNext(t, g, child'[t][g])
    <3>1. g \in 1..Len(child[t])
      BY <1>3
    <3>2. /\ child[t][g].in # << >> => Head(child[t][g].in) \in Ids
          /\ child[t][g].out # << >> => Head(child[t][g].out) \in Ids
      BY <1>1, <3>1, Contents
    <3>3. HeldNext(t, g, child[t][g])
      BY <1>1, <2>1, <3>1, <3>2 DEF HeldNext, Held
    <3>4. /\ child'[t][g].in = child[t][g].in /\ child'[t][g].out = child[t][g].out
          /\ child'[t][g].alive => child[t][g].alive
      BY <1>4, <3>1
    <3> QED
      BY <3>3, <3>4 DEF HeldNext
  <2> QED
    BY <2>2, HeldAfter
<1>7. Verdicts' /\ ReportsAreTrue'
  BY <1>2 DEF Verdicts, Judged, ReportsAreTrue
<1>8. FuzzTypes'
  BY <1>1, FinishTypes
<1> QED
  BY <1>5, <1>6, <1>7, <1>8 DEF FuzzInv

\* Nobody reads the child that render starts, and none that reads the one it
\* replaces is awaited.
LEMMA StartInv ==
  ASSUME FuzzInv, NEW s \in Sides, Start(s)
  PROVE  FuzzInv'
<1>1. FuzzTypes /\ Goroutines /\ Apart /\ Held /\ Verdicts /\ ReportsAreTrue
  BY DEF FuzzInv
<1>2. /\ at = s /\ ~waiting /\ waiting'
      /\ UNCHANGED <<want, input, at, done, verdict, report>>
  BY DEF Start
<1>3. /\ FuzzTypes' /\ input \in Ids /\ OnlyReader(s, input, "start")
      /\ \A t \in Sides : dead'[t] = IF t = s THEN FALSE ELSE dead[t]
  BY <1>1, StartTypes
<1>4. \A t \in Sides : Len(child[t]) \in Nat /\ Len(child[t]) > 0
  BY <1>1 DEF FuzzTypes
<1>5. \/ ~dead[s] /\ child' = child
      \/ /\ dead[s]
         /\ \A t \in Sides :
              Len(child'[t]) = IF t = s THEN Len(child[t]) + 1 ELSE Len(child[t])
         /\ child'[s][Len(child[s]) + 1] = Fresh
         /\ \A t \in Sides : \A h \in 1..Len(child[t]) :
              child'[t][h] = IF t = s /\ h = Len(child[s])
                             THEN [child[s][h] EXCEPT !.alive = FALSE] ELSE child[t][h]
  BY <1>1, StartTypes
<1>6. \A t \in Sides, j \in Ids :
        /\ reader[t][j].pc \notin {"start", "written"}
        /\ reader[t][j].pc = "read" =>
             reader[t][j].pipe \in 1..Len(child[t]) /\ (reader[t][j].pipe = Len(child[t]) => dead[t])
  BY <1>1, <1>2 DEF Goroutines, Awaited, Current, FuzzTypes
<1>7. reader[s][input].pc = "none"
  BY <1>1, <1>2, <1>3 DEF Goroutines, Started
<1>8. \A t \in Sides, j \in Ids :
        reader'[t][j].pc = "read" =>
          /\ reader[t][j].pc = "read" /\ reader'[t][j].pipe = reader[t][j].pipe
          /\ reader'[t][j].pipe = Len(child'[t]) => dead'[t]
  <2> SUFFICES ASSUME NEW t \in Sides, NEW j \in Ids, reader'[t][j].pc = "read"
               PROVE  /\ reader[t][j].pc = "read" /\ reader'[t][j].pipe = reader[t][j].pipe
                      /\ reader'[t][j].pipe = Len(child'[t]) => dead'[t]
    OBVIOUS
  <2>1. reader[t][j].pc = "read" /\ reader'[t][j].pipe = reader[t][j].pipe
    BY <1>3 DEF OnlyReader
  <2>2. CASE t = s
    BY <1>4, <1>5, <1>6, <2>1, <2>2
  <2>3. CASE t # s
    BY <1>3, <1>4, <1>5, <1>6, <2>1, <2>3
  <2> QED
    BY <2>1, <2>2, <2>3
<1>9. Goroutines'
  <2> SUFFICES ASSUME NEW t \in Sides, NEW j \in Ids
               PROVE  /\ reader'[t][j].pc # "none" => Started(t, j)'
                      /\ reader'[t][j].pc \in {"start", "written"} => Awaited(t, j)' /\ ~dead'[t]
                      /\ done'[t][j] # NoReply =>
                           reader'[t][j].pc = "ended" /\ done'[t][j] \in {j, Broken}
    BY <1>8 DEF Goroutines, Current
  <2>1. CASE t = s /\ j = input
    <3>1. reader'[t][j].pc = "start" /\ Awaited(t, j)' /\ ~dead'[t]
      BY <1>2, <1>3, <2>1 DEF OnlyReader, Awaited
    <3>started. Started(t, j)'
      <4>1. ~(at = "go" /\ t = "rust")
        BY <1>2, <2>1
      <4> QED
        BY <1>2, <1>3, <2>1, <4>1, FuzzAssumption DEF Started, Ids
    <3>2. done'[t][j] = NoReply
      BY <1>1, <1>2, <1>7, <2>1 DEF Goroutines
    <3> QED
      BY <3>1, <3>started, <3>2
  <2>2. CASE ~(t = s /\ j = input)
    <3>1. reader'[t][j].pc = reader[t][j].pc
      BY <1>3, <2>2 DEF OnlyReader
    <3>2. reader[t][j].pc # "none" => Started(t, j)'
      BY <1>1, <1>2 DEF Goroutines, Started
    <3> QED
      BY <1>1, <1>2, <1>6, <3>1, <3>2 DEF Goroutines
  <2> QED
    BY <2>1, <2>2
<1>10. Apart'
  BY <1>1, <1>8 DEF Apart
<1>11. Held'
  <2>1. ASSUME NEW t \in Sides, NEW g \in 1..Len(child[t]), NEW j \in Ids, OnPipe(t, j, g)
        PROVE  OnPipeNext(t, j, g)
    <3>1. reader[t][j].pc = "read" /\ reader[t][j].pipe = g
      BY <1>6, <2>1 DEF OnPipe
    <3> QED
      BY <1>3, <1>7, <3>1 DEF OnlyReader, OnPipeNext
  <2>2. ASSUME NEW t \in Sides, NEW g \in 1..Len(child[t])
        PROVE  /\ child'[t][g].in = child[t][g].in /\ child'[t][g].out = child[t][g].out
               /\ child'[t][g].alive => child[t][g].alive
    <3>1. child[t][g] \in Procs
      BY <1>1 DEF FuzzTypes
    <3>2. child'[t][g] \in {child[t][g], [child[t][g] EXCEPT !.alive = FALSE]}
      BY <1>5
    <3>3. LET x == [child[t][g] EXCEPT !.alive = FALSE] IN
          x.in = child[t][g].in /\ x.out = child[t][g].out /\ ~x.alive
      BY <3>1 DEF Procs
    <3> QED
      BY <3>2, <3>3
  <2>3. ASSUME NEW t \in Sides, NEW g \in 1..Len(child'[t])
        PROVE  g \in 1..Len(child[t]) \/ child'[t][g] = Fresh
    BY <1>4, <1>5
  <2>6. Fresh.in = << >> /\ Fresh.out = << >>
    BY DEF Fresh
  <2>7. ASSUME NEW t \in Sides, NEW g \in 1..Len(child'[t])
        PROVE  HeldNext(t, g, child'[t][g])
    <3>1. CASE g \in 1..Len(child[t])
      <4>1. /\ child[t][g].in # << >> => Head(child[t][g].in) \in Ids
            /\ child[t][g].out # << >> => Head(child[t][g].out) \in Ids
        BY <1>1, <3>1, Contents
      <4>2. /\ child[t][g].in = << >> \/ child[t][g].out = << >>
            /\ Len(child[t][g].in) <= 1 /\ Len(child[t][g].out) <= 1
            /\ child[t][g].out # << >> => OnPipe(t, Head(child[t][g].out), g)
            /\ child[t][g].alive /\ child[t][g].in # << >> => OnPipe(t, Head(child[t][g].in), g)
        BY <1>1, <3>1 DEF Held
      <4>3. /\ child'[t][g].in = child[t][g].in /\ child'[t][g].out = child[t][g].out
            /\ child'[t][g].alive => child[t][g].alive
        BY <2>2, <3>1
      <4> QED
        BY <2>1, <3>1, <4>1, <4>2, <4>3 DEF HeldNext
    <3>2. CASE child'[t][g] = Fresh
      BY <2>6, <3>2 DEF HeldNext
    <3> QED
      BY <2>3, <3>1, <3>2
  <2> QED
    BY <2>7, HeldAfter
<1>12. Verdicts' /\ ReportsAreTrue'
  BY <1>1, <1>2, VerdictsKept
<1> QED
  BY <1>3, <1>9, <1>10, <1>11, <1>12 DEF FuzzInv

\* When render stops waiting, its goroutine is past its write and, unless it
\* has ended, on a child that is condemned.
LEMMA ReturnGoroutines ==
  ASSUME FuzzInv, NEW s \in Sides, input \in Ids, at = s, ~waiting',
         reader[s][input].pc \notin {"start", "written"},
         reader[s][input].pc = "read" => dead'[s],
         \A t \in Sides : dead[t] => dead'[t],
         at' = (IF s = "go" THEN "rust" ELSE "judge"),
         UNCHANGED <<input, child, reader>>,
         \A t \in Sides, j \in Ids : done'[t][j] \in {NoReply, done[t][j]}
  PROVE  Goroutines' /\ Apart' /\ Held'
<1>1. Goroutines /\ Apart /\ Held
  BY DEF FuzzInv
<1>2. \A t \in Sides, j \in Ids : reader[t][j].pc \notin {"start", "written"}
  BY <1>1 DEF Goroutines, Awaited
<1>3. ASSUME NEW t \in Sides, NEW j \in Ids, reader[t][j].pc # "none"
      PROVE  Started(t, j)'
  <2>1. j <= input /\ (j = input => ~(at = t /\ ~waiting) /\ ~(at = "go" /\ t = "rust"))
    BY <1>1, <1>3 DEF Goroutines, Started
  <2>2. at' # "go"
    OBVIOUS
  <2>3. j = input => at' # t
    BY <2>1 DEF Sides
  <2> QED
    BY <2>1, <2>2, <2>3 DEF Started
<1>4. ASSUME NEW t \in Sides, NEW j \in Ids,
             reader[t][j].pc = "read", reader[t][j].pipe = Current(t)
      PROVE  dead'[t]
  <2>1. dead[t] \/ (t = s /\ j = input)
    BY <1>1, <1>4 DEF Goroutines, Awaited
  <2> QED
    BY <1>4, <2>1
<1>5. \A t \in Sides, j \in Ids :
        done'[t][j] # NoReply => reader[t][j].pc = "ended" /\ done'[t][j] \in {j, Broken}
  BY <1>1 DEF Goroutines
<1>6. Goroutines'
  BY <1>2, <1>3, <1>4, <1>5 DEF Goroutines, Current
<1>7. Apart' /\ Held'
  BY <1>1, PipesKept DEF FuzzInv
<1> QED
  BY <1>6, <1>7

\* A reply is of the request that render waits for.
LEMMA ReceiveInv ==
  ASSUME FuzzInv, NEW s \in Sides, Receive(s)
  PROVE  FuzzInv'
<1>1. FuzzTypes /\ Goroutines /\ Verdicts
  BY DEF FuzzInv
<1>2. /\ at = s /\ done[s][input] # NoReply /\ waiting' = FALSE
      /\ at' = (IF s = "go" THEN "rust" ELSE "judge")
      /\ UNCHANGED <<want, input, child, reader, report>>
  BY DEF Receive, Return
<1>3. /\ FuzzTypes' /\ input \in Ids /\ OnlyDone(s, input, NoReply)
      /\ \A t \in Sides : dead[t] => dead'[t]
      /\ \A t \in Sides : t # s => verdict'[t] = verdict[t]
      /\ verdict'[s] = IF done[s][input] = Broken THEN "error" ELSE want[done[s][input]][s]
  BY <1>1, ReceiveTypes
<1>4. reader[s][input].pc = "ended" /\ done[s][input] \in {input, Broken}
  BY <1>1, <1>2, <1>3 DEF Goroutines
<1>5. \A t \in Sides, j \in Ids : done'[t][j] \in {NoReply, done[t][j]}
  BY <1>3 DEF OnlyDone
<1>6. Goroutines' /\ Apart' /\ Held'
  BY <1>2, <1>3, <1>4, <1>5, ReturnGoroutines
<1>7. verdict'[s] \in {"error", want[input][s]}
  BY <1>3, <1>4
<1>8. Verdicts'
  BY <1>1, <1>2, <1>3, <1>7 DEF Verdicts, Judged, Sides
<1>9. ReportsAreTrue'
  BY <1>2 DEF ReportsAreTrue
<1> QED
  BY <1>3, <1>6, <1>8, <1>9 DEF FuzzInv

\* A render that gives up condemns the child its goroutine reads.
LEMMA TimeOutInv ==
  ASSUME PromptReaders, FuzzInv, NEW s \in Sides, TimeOut(s)
  PROVE  FuzzInv'
<1>1. FuzzTypes /\ Verdicts
  BY DEF FuzzInv
<1>2. /\ at = s /\ waiting' = FALSE /\ reader[s][input].pc \in {"read", "ended"}
      /\ at' = (IF s = "go" THEN "rust" ELSE "judge")
      /\ UNCHANGED <<want, input, child, reader, done, report>>
  BY DEF TimeOut, Return, TimerMayFire
<1>3. /\ FuzzTypes' /\ input \in Ids
      /\ \A t \in Sides : /\ dead'[t] = IF t = s THEN TRUE ELSE dead[t]
                          /\ verdict'[t] = IF t = s THEN "hung" ELSE verdict[t]
  BY <1>1, TimeOutTypes
<1>4. dead'[s] /\ \A t \in Sides : dead[t] => dead'[t]
  BY <1>3
<1>5. Goroutines' /\ Apart' /\ Held'
  BY <1>2, <1>3, <1>4, ReturnGoroutines
<1>6. Verdicts'
  BY <1>1, <1>2, <1>3 DEF Verdicts, Judged, Sides
<1>7. ReportsAreTrue'
  BY <1>2 DEF ReportsAreTrue
<1> QED
  BY <1>3, <1>5, <1>6, <1>7 DEF FuzzInv

\* A goroutine that has written, or has its answer, reads nobody's pipe.
LEMMA GoroutineAfter ==
  ASSUME FuzzInv, NEW s \in Sides, NEW k \in Ids, NEW p \in {"written", "ended"},
         reader[s][k].pc \in {"start", "read"}, OnlyReader(s, k, p),
         UNCHANGED <<input, at, waiting, dead>>,
         \A t \in Sides : Len(child'[t]) = Len(child[t]),
         p = "written" => reader[s][k].pc = "start",
         \A t \in Sides, j \in Ids :
           \/ done'[t][j] = done[t][j]
           \/ t = s /\ j = k /\ p = "ended" /\ done'[t][j] \in {k, Broken}
  PROVE  Goroutines' /\ Apart'
<1>1. Goroutines /\ Apart
  BY DEF FuzzInv
<1>2. ASSUME NEW t \in Sides, NEW j \in Ids, reader'[t][j].pc = "read"
      PROVE  reader[t][j].pc = "read" /\ reader'[t][j].pipe = reader[t][j].pipe
  BY <1>2 DEF OnlyReader
<1>3. ASSUME NEW t \in Sides, NEW j \in Ids
      PROVE  /\ reader'[t][j].pc # "none" => Started(t, j)
             /\ reader'[t][j].pc \in {"start", "written"} => Awaited(t, j) /\ ~dead[t]
             /\ reader'[t][j].pc = "read" /\ reader'[t][j].pipe = Len(child[t])
                  => dead[t] \/ Awaited(t, j)
             /\ done'[t][j] # NoReply =>
                  reader'[t][j].pc = "ended" /\ done'[t][j] \in {j, Broken}
  <2>1. CASE t = s /\ j = k
    <3>1. reader'[t][j].pc = p /\ Started(t, j)
      BY <1>1, <2>1 DEF OnlyReader, Goroutines
    <3>2. p = "written" => Awaited(t, j) /\ ~dead[t]
      BY <1>1, <2>1 DEF Goroutines
    <3>3. done[t][j] = NoReply
      BY <1>1, <2>1 DEF Goroutines
    <3> QED
      BY <2>1, <3>1, <3>2, <3>3
  <2>2. CASE ~(t = s /\ j = k)
    <3>1. reader'[t][j].pc = reader[t][j].pc /\ done'[t][j] = done[t][j]
          /\ reader'[t][j].pipe = reader[t][j].pipe
      BY <2>2 DEF OnlyReader
    <3> QED
      BY <1>1, <3>1 DEF Goroutines, Current
  <2> QED
    BY <2>1, <2>2
<1>4. \A t \in Sides, j \in Ids :
        (Started(t, j)' <=> Started(t, j)) /\ (Awaited(t, j)' <=> Awaited(t, j)) /\ (dead'[t] <=> dead[t])
  BY DEF Started, Awaited
<1>5. Goroutines'
  BY <1>3, <1>4 DEF Goroutines, Current
<1>6. Apart'
  BY <1>1, <1>2 DEF Apart
<1> QED
  BY <1>5, <1>6

\* The child a request is written to is idle: whatever it held would belong to
\* a goroutine that reads it, and the only one there can be is the writer.
LEMMA WriteInv ==
  ASSUME FuzzInv, NEW s \in Sides, NEW k \in Ids, Write(s, k)
  PROVE  FuzzInv'
<1>1. FuzzTypes /\ Goroutines /\ Held /\ Verdicts /\ ReportsAreTrue
  BY DEF FuzzInv
<1>2. /\ reader[s][k].pc = "start"
      /\ UNCHANGED <<want, input, at, waiting, dead, verdict, report>>
  BY DEF Write
<1>3. Awaited(s, k) /\ ~dead[s]
  BY <1>1, <1>2 DEF Goroutines
<1>4. FuzzTypes'
  BY <1>1, WriteTypes
<1>5. Verdicts' /\ ReportsAreTrue'
  BY <1>1, <1>2, VerdictsKept
<1>6. CASE /\ child[s][Current(s)].alive /\ done' = done
           /\ OnlyReader(s, k, "written")
           /\ \E x \in Procs :
                /\ OnlyChild(s, Current(s), x)
                /\ x.in = Append(child[s][Current(s)].in, k) /\ x.out = child[s][Current(s)].out
  <2> DEFINE c == child[s][Current(s)]
  <2>1. PICK x \in Procs : /\ OnlyChild(s, Current(s), x)
                           /\ x.in = Append(c.in, k) /\ x.out = c.out
    BY <1>6
  <2>2. Goroutines' /\ Apart'
    BY <1>2, <1>6, <2>1, GoroutineAfter DEF OnlyChild
  <2>3. Current(s) \in 1..Len(child[s])
    BY <1>1 DEF FuzzTypes, Current
  <2>4. \A j \in Ids : ~OnPipe(s, j, Current(s))
    BY <1>1, <1>2, <1>3 DEF OnPipe, Goroutines, Awaited
  <2>5. c.in = << >> /\ c.out = << >>
    <3>1. /\ c.in # << >> => Head(c.in) \in Ids
          /\ c.out # << >> => Head(c.out) \in Ids
      BY <1>1, <2>3, Contents
    <3>2. /\ c.out # << >> => OnPipe(s, Head(c.out), Current(s))
          /\ c.in # << >> => OnPipe(s, Head(c.in), Current(s))
      BY <1>1, <1>6, <2>3 DEF Held
    <3> QED
      BY <2>4, <3>1, <3>2
  <2> HIDE DEF c
  <2>6. x.in = << k >> /\ x.out = << >>
    BY <2>1, <2>5
  <2>7. ASSUME NEW t \in Sides, NEW j \in Ids, NEW g, OnPipe(t, j, g)
        PROVE  OnPipeNext(t, j, g)
    BY <1>2, <1>6, <2>1, <2>7 DEF OnPipe, OnPipeNext, OnlyReader, OnlyChild, Current
  <2>8. OnPipeNext(s, k, Current(s))
    BY <1>6, <2>1 DEF OnPipeNext, OnlyReader, OnlyChild, Current
  <2>9. ASSUME NEW t \in Sides, NEW g \in 1..Len(child'[t])
        PROVE  HeldNext(t, g, child'[t][g])
    <3>1. g \in 1..Len(child[t])
      BY <2>1 DEF OnlyChild
    <3>2. CASE t = s /\ g = Current(s)
      <4>1. child'[t][g] = x
        BY <2>1, <3>1, <3>2 DEF OnlyChild
      <4>2. Head(x.in) = k /\ Len(x.in) = 1 /\ Len(x.out) = 0 /\ x.out = << >>
        BY <2>6
      <4>3. HeldNext(s, Current(s), x)
        BY <2>8, <4>2 DEF HeldNext
      <4> QED
        BY <3>2, <4>1, <4>3
    <3>3. CASE ~(t = s /\ g = Current(s))
      <4>1. child'[t][g] = child[t][g]
        BY <2>1, <3>1, <3>3 DEF OnlyChild
      <4>2. /\ child[t][g].in # << >> => Head(child[t][g].in) \in Ids
            /\ child[t][g].out # << >> => Head(child[t][g].out) \in Ids
        BY <1>1, <3>1, Contents
      <4>3. HeldNext(t, g, child[t][g])
        BY <1>1, <2>7, <3>1, <4>2 DEF HeldNext, Held
      <4> QED
        BY <4>1, <4>3
    <3> QED
      BY <3>2, <3>3
  <2>10. Held'
    BY <2>9, HeldAfter
  <2> QED
    BY <1>4, <1>5, <2>2, <2>10 DEF FuzzInv
<1>7. CASE child' = child /\ OnlyReader(s, k, "ended") /\ OnlyDone(s, k, Broken)
  <2>1. Goroutines' /\ Apart'
    BY <1>2, <1>7, GoroutineAfter DEF OnlyDone
  <2>2. ASSUME NEW t \in Sides, NEW j \in Ids, NEW g, OnPipe(t, j, g)
        PROVE  OnPipeNext(t, j, g)
    BY <1>2, <1>7, <2>2 DEF OnPipe, OnPipeNext, OnlyReader, Current
  <2>3. ASSUME NEW t \in Sides, NEW g \in 1..Len(child'[t])
        PROVE  HeldNext(t, g, child'[t][g])
    <3>1. g \in 1..Len(child[t]) /\ child'[t][g] = child[t][g]
      BY <1>7
    <3>2. /\ child[t][g].in # << >> => Head(child[t][g].in) \in Ids
          /\ child[t][g].out # << >> => Head(child[t][g].out) \in Ids
      BY <1>1, <3>1, Contents
    <3>3. HeldNext(t, g, child[t][g])
      BY <1>1, <2>2, <3>1, <3>2 DEF HeldNext, Held
    <3> QED
      BY <3>1, <3>3
  <2>4. Held'
    BY <2>3, HeldAfter
  <2> QED
    BY <1>4, <1>5, <2>1, <2>4 DEF FuzzInv
<1> QED
  BY <1>1, <1>6, <1>7, WriteTypes

\* The goroutine that begins to read is the only one on the current child.
LEMMA ReadInv ==
  ASSUME FuzzInv, NEW s \in Sides, NEW k \in Ids, Read(s, k)
  PROVE  FuzzInv'
<1>1. FuzzTypes /\ Goroutines /\ Apart /\ Held /\ Verdicts /\ ReportsAreTrue
  BY DEF FuzzInv
<1>2. /\ reader[s][k].pc = "written"
      /\ UNCHANGED <<want, input, at, waiting, dead, child, done, verdict, report>>
  BY DEF Read
<1>3. Awaited(s, k) /\ ~dead[s]
  BY <1>1, <1>2 DEF Goroutines
<1>4. /\ FuzzTypes'
      /\ \A t \in Sides, j \in Ids :
           /\ reader'[t][j].pc = IF t = s /\ j = k THEN "read" ELSE reader[t][j].pc
           /\ reader'[t][j].pipe = IF t = s /\ j = k THEN Current(s) ELSE reader[t][j].pipe
  BY <1>1, ReadTypes
<1>5. ASSUME NEW t \in Sides, NEW j \in Ids
      PROVE  /\ reader'[t][j].pc # "none" => Started(t, j)
             /\ reader'[t][j].pc \in {"start", "written"} => Awaited(t, j) /\ ~dead[t]
             /\ reader'[t][j].pc = "read" /\ reader'[t][j].pipe = Len(child[t])
                  => dead[t] \/ Awaited(t, j)
             /\ done[t][j] # NoReply =>
                  reader'[t][j].pc = "ended" /\ done[t][j] \in {j, Broken}
  <2>1. CASE t = s /\ j = k
    BY <1>1, <1>2, <1>3, <1>4, <2>1 DEF Goroutines
  <2>2. CASE ~(t = s /\ j = k)
    BY <1>1, <1>4, <2>2 DEF Goroutines, Current
  <2> QED
    BY <2>1, <2>2
<1>6. \A t \in Sides, j \in Ids :
        (Started(t, j)' <=> Started(t, j)) /\ (Awaited(t, j)' <=> Awaited(t, j)) /\ (dead'[t] <=> dead[t])
  BY <1>2 DEF Started, Awaited
<1>7. Goroutines'
  BY <1>2, <1>5, <1>6 DEF Goroutines, Current
<1>8. Apart'
  <2> SUFFICES ASSUME NEW t \in Sides, NEW i \in Ids, NEW j \in Ids,
                      reader'[t][i].pc = "read", reader'[t][j].pc = "read",
                      reader'[t][i].pipe = reader'[t][j].pipe
               PROVE  i = j
    BY DEF Apart
  <2>1. ASSUME NEW l \in Ids, reader[s][l].pc = "read", reader[s][l].pipe = Current(s)
        PROVE  l = k
    BY <1>1, <1>3, <2>1 DEF Goroutines, Awaited
  <2>2. CASE t = s /\ k \in {i, j}
    BY <1>4, <2>1, <2>2
  <2>3. CASE t # s \/ k \notin {i, j}
    BY <1>1, <1>4, <2>3 DEF Apart
  <2> QED
    BY <2>2, <2>3
<1>9. Held'
  <2>1. ASSUME NEW t \in Sides, NEW j \in Ids, NEW g, OnPipe(t, j, g)
        PROVE  OnPipeNext(t, j, g)
    BY <1>2, <1>4, <2>1 DEF OnPipe, OnPipeNext, Current
  <2>2. ASSUME NEW t \in Sides, NEW g \in 1..Len(child'[t])
        PROVE  HeldNext(t, g, child'[t][g])
    <3>1. g \in 1..Len(child[t]) /\ child'[t][g] = child[t][g]
      BY <1>2
    <3>2. /\ child[t][g].in # << >> => Head(child[t][g].in) \in Ids
          /\ child[t][g].out # << >> => Head(child[t][g].out) \in Ids
      BY <1>1, <3>1, Contents
    <3>3. HeldNext(t, g, child[t][g])
      BY <1>1, <2>1, <3>1, <3>2 DEF HeldNext, Held
    <3> QED
      BY <3>1, <3>3
  <2> QED
    BY <2>2, HeldAfter
<1>10. Verdicts' /\ ReportsAreTrue'
  BY <1>1, <1>2, VerdictsKept
<1> QED
  BY <1>4, <1>7, <1>8, <1>9, <1>10 DEF FuzzInv

\* The answer on a pipe is its reader's own, and then the child holds nothing.
LEMMA DeliverInv ==
  ASSUME FuzzInv, NEW s \in Sides, NEW k \in Ids, Deliver(s, k)
  PROVE  FuzzInv'
<1> DEFINE g == reader[s][k].pipe
           c == child[s][g]
<1>1. FuzzTypes /\ Goroutines /\ Apart /\ Held /\ Verdicts /\ ReportsAreTrue
  BY DEF FuzzInv
<1>2. /\ reader[s][k].pc = "read"
      /\ UNCHANGED <<want, input, at, waiting, dead, verdict, report>>
  BY DEF Deliver
<1>3. FuzzTypes' /\ g \in 1..Len(child[s]) /\ OnlyReader(s, k, "ended")
  BY <1>1, DeliverTypes
<1>4. Verdicts' /\ ReportsAreTrue'
  BY <1>1, <1>2, VerdictsKept
<1>5. ASSUME NEW j \in Ids, OnPipe(s, j, g)
      PROVE  j = k
  <2>1. CASE reader[s][j].pc = "read" /\ reader[s][j].pipe = g
    BY <1>1, <1>2, <2>1 DEF Apart
  <2>2. CASE reader[s][j].pc = "written" /\ g = Current(s)
    BY <1>1, <1>2, <2>2 DEF Goroutines, Awaited
  <2> QED
    BY <1>5, <2>1, <2>2 DEF OnPipe
<1>6. ASSUME NEW t \in Sides, NEW j \in Ids, NEW h, OnPipe(t, j, h), ~(t = s /\ h = g),
             \A u \in Sides : Len(child'[u]) = Len(child[u])
      PROVE  OnPipeNext(t, j, h)
  BY <1>2, <1>3, <1>6 DEF OnPipe, OnPipeNext, OnlyReader, Current
<1>7. ASSUME NEW t \in Sides, NEW h \in 1..Len(child[t]), ~(t = s /\ h = g),
             \A u \in Sides : Len(child'[u]) = Len(child[u])
      PROVE  HeldNext(t, h, child[t][h])
  <2>1. /\ child[t][h].in # << >> => Head(child[t][h].in) \in Ids
        /\ child[t][h].out # << >> => Head(child[t][h].out) \in Ids
    BY <1>1, Contents
  <2> HIDE DEF g
  <2> QED
    BY <1>1, <1>6, <1>7, <2>1 DEF HeldNext, Held
<1>8. CASE /\ c.out # << >> /\ OnlyDone(s, k, Head(c.out))
           /\ \E x \in Procs : /\ OnlyChild(s, g, x) /\ x.alive = c.alive
                               /\ x.in = c.in /\ x.out = Tail(c.out)
  <2>1. PICK x \in Procs : /\ OnlyChild(s, g, x) /\ x.in = c.in /\ x.out = Tail(c.out)
    BY <1>8
  <2>2. Head(c.out) \in Ids /\ c.out \in Seq(Ids)
    BY <1>1, <1>3, <1>8, Contents
  <2>3. OnPipe(s, Head(c.out), g) /\ c.in = << >> /\ Len(c.out) <= 1
    BY <1>1, <1>3, <1>8 DEF Held
  <2>4. Head(c.out) = k
    BY <1>5, <2>2, <2>3
  <2>own. OnlyDone(s, k, k)
    BY <1>8, <2>4
  <2>5. Goroutines' /\ Apart'
    <3> HIDE DEF g, c
    <3> QED
      BY <1>2, <1>3, <2>own, <2>1, GoroutineAfter DEF OnlyChild, OnlyDone
  <2>6. x.in = << >> /\ x.out = << >>
    <3>1. Tail(c.out) = << >>
      BY <1>8, <2>2, <2>3, TailOfOne
    <3> QED
      BY <2>1, <2>3, <3>1
  <2>7. HeldNext(s, g, x)
    <3>1. Len(x.in) = 0 /\ Len(x.out) = 0
      BY <2>6
    <3> QED
      BY <2>6, <3>1 DEF HeldNext
  <2>8. \A u \in Sides : Len(child'[u]) = Len(child[u])
    BY <2>1 DEF OnlyChild
  <2> HIDE DEF g, c
  <2>9. ASSUME NEW t \in Sides, NEW h \in 1..Len(child'[t])
        PROVE  HeldNext(t, h, child'[t][h])
    BY <1>7, <2>1, <2>7, <2>8 DEF OnlyChild
  <2>10. Held'
    BY <2>9, HeldAfter
  <2> QED
    BY <1>3, <1>4, <2>5, <2>10 DEF FuzzInv
<1>9. CASE child' = child /\ c.out = << >> /\ ~c.alive /\ OnlyDone(s, k, Broken)
  <2>1. Goroutines' /\ Apart'
    BY <1>2, <1>3, <1>9, GoroutineAfter DEF OnlyDone
  <2>2. HeldNext(s, g, c)
    <3>1. Len(c.in) <= 1 /\ Len(c.out) <= 1
      BY <1>1, <1>3 DEF Held
    <3> QED
      BY <1>9, <3>1 DEF HeldNext
  <2>3. ASSUME NEW t \in Sides, NEW h \in 1..Len(child'[t])
        PROVE  HeldNext(t, h, child'[t][h])
    BY <1>7, <1>9, <2>2
  <2>4. Held'
    BY <2>3, HeldAfter
  <2> QED
    BY <1>3, <1>4, <2>1, <2>4 DEF FuzzInv
<1> QED
  BY <1>1, <1>8, <1>9, DeliverTypes

\* A child only passes on the request it was handed.
LEMMA ServeInv ==
  ASSUME FuzzInv, NEW s \in Sides, NEW g \in 1..Len(child[s]), Serve(s, g)
  PROVE  FuzzInv'
<1> DEFINE c == child[s][g]
<1>1. FuzzTypes /\ Goroutines /\ Apart /\ Held /\ Verdicts /\ ReportsAreTrue
  BY DEF FuzzInv
<1>2. UNCHANGED <<want, input, at, waiting, dead, reader, done, verdict, report>>
  BY DEF Serve
<1>3. FuzzTypes' /\ Head(c.in) \in Ids /\ c.alive /\ c.in # << >>
  BY <1>1, ServeTypes
<1>4. PICK x \in Procs : /\ OnlyChild(s, g, x) /\ x.in = Tail(c.in)
                         /\ x.out \in {c.out, Append(c.out, Head(c.in))}
  BY <1>1, ServeTypes
<1>5. \A t \in Sides : Len(child'[t]) = Len(child[t])
  BY <1>4 DEF OnlyChild
<1>6. Goroutines' /\ Apart'
  BY <1>1, <1>2, <1>5 DEF Goroutines, Apart, Current, Awaited, Started
<1>7. ASSUME NEW t \in Sides, NEW j \in Ids, NEW h, OnPipe(t, j, h)
      PROVE  OnPipeNext(t, j, h)
  BY <1>2, <1>5, <1>7 DEF OnPipe, OnPipeNext, Current
<1>8. HeldNext(s, g, x)
  <2>1. OnPipe(s, Head(c.in), g) /\ c.out = << >> /\ Len(c.in) <= 1
    BY <1>1, <1>3 DEF Held
  <2>2. c.in \in Seq(Ids)
    BY <1>1, Contents
  <2>3. Tail(c.in) = << >>
    BY <1>3, <2>1, <2>2, TailOfOne
  <2>4. x.in = << >> /\ Len(x.in) = 0
    <3>1. x.in = << >>
      BY <1>4, <2>3
    <3> QED
      BY <3>1
  <2>5. OnPipeNext(s, Head(c.in), g)
    BY <1>3, <1>7, <2>1
  <2> DEFINE k == Head(c.in)
  <2>6. x.out \in {<< >>, << k >>}
    BY <1>4, <2>1
  <2> HIDE DEF c, k
  <2>7. Len(x.out) <= 1 /\ (x.out # << >> => Head(x.out) = k)
    <3>1. CASE x.out = << >>
      BY <3>1
    <3>2. CASE x.out = << k >>
      BY <3>2
    <3> QED
      BY <2>6, <3>1, <3>2
  <2> QED
    BY <2>4, <2>5, <2>7 DEF HeldNext, k
<1>9. ASSUME NEW t \in Sides, NEW h \in 1..Len(child'[t])
      PROVE  HeldNext(t, h, child'[t][h])
  <2>1. h \in 1..Len(child[t])
    BY <1>5
  <2>2. CASE t = s /\ h = g
    BY <1>4, <1>8, <2>1, <2>2 DEF OnlyChild
  <2>3. CASE ~(t = s /\ h = g)
    <3>1. child'[t][h] = child[t][h]
      BY <1>4, <2>1, <2>3 DEF OnlyChild
    <3>2. /\ child[t][h].in # << >> => Head(child[t][h].in) \in Ids
          /\ child[t][h].out # << >> => Head(child[t][h].out) \in Ids
      BY <1>1, <2>1, Contents
    <3>3. HeldNext(t, h, child[t][h])
      BY <1>1, <1>7, <2>1, <3>2 DEF HeldNext, Held
    <3> QED
      BY <3>1, <3>3
  <2> QED
    BY <2>2, <2>3
<1>10. Held'
  BY <1>9, HeldAfter
<1>11. Verdicts' /\ ReportsAreTrue'
  BY <1>1, <1>2, VerdictsKept
<1> QED
  BY <1>3, <1>6, <1>10, <1>11 DEF FuzzInv

\* Nor does a child that ends by itself.
LEMMA EndOfInputInv ==
  ASSUME FuzzInv, NEW s \in Sides, NEW g \in 1..Len(child[s]), EndOfInput(s, g)
  PROVE  FuzzInv'
<1>1. FuzzTypes /\ Goroutines /\ Apart /\ Held /\ Verdicts /\ ReportsAreTrue
  BY DEF FuzzInv
<1>2. UNCHANGED <<want, input, at, waiting, dead, reader, done, verdict, report>>
  BY DEF EndOfInput
<1>3. FuzzTypes' /\ \E x \in Procs : /\ OnlyChild(s, g, x) /\ ~x.alive
                                    /\ x.in = child[s][g].in /\ x.out = child[s][g].out
  BY <1>1, EndOfInputTypes
<1>4. PICK x \in Procs : /\ OnlyChild(s, g, x) /\ ~x.alive
                         /\ x.in = child[s][g].in /\ x.out = child[s][g].out
  BY <1>3
<1>5. \A t \in Sides : Len(child'[t]) = Len(child[t])
  BY <1>4 DEF OnlyChild
<1>6. Goroutines' /\ Apart'
  BY <1>1, <1>2, <1>5 DEF Goroutines, Apart, Current, Awaited, Started
<1>7. ASSUME NEW t \in Sides, NEW j \in Ids, NEW h, OnPipe(t, j, h)
      PROVE  OnPipeNext(t, j, h)
  BY <1>2, <1>5, <1>7 DEF OnPipe, OnPipeNext, Current
<1>8. ASSUME NEW t \in Sides, NEW h \in 1..Len(child'[t])
      PROVE  HeldNext(t, h, child'[t][h])
  <2>1. h \in 1..Len(child[t])
    BY <1>5
  <2>2. /\ child[t][h].in # << >> => Head(child[t][h].in) \in Ids
        /\ child[t][h].out # << >> => Head(child[t][h].out) \in Ids
    BY <1>1, <2>1, Contents
  <2>3. HeldNext(t, h, child[t][h])
    BY <1>1, <1>7, <2>1, <2>2 DEF HeldNext, Held
  <2>4. CASE t = s /\ h = g
    <3>1. child'[t][h] = x
      BY <1>4, <2>1, <2>4 DEF OnlyChild
    <3> QED
      BY <1>4, <2>3, <2>4, <3>1 DEF HeldNext
  <2>5. CASE ~(t = s /\ h = g)
    <3>1. child'[t][h] = child[t][h]
      BY <1>4, <2>1, <2>5 DEF OnlyChild
    <3> QED
      BY <2>3, <3>1
  <2> QED
    BY <2>4, <2>5
<1>9. Held'
  BY <1>8, HeldAfter
<1>10. Verdicts' /\ ReportsAreTrue'
  BY <1>1, <1>2, VerdictsKept
<1> QED
  BY <1>3, <1>6, <1>9, <1>10 DEF FuzzInv

\* Every step keeps the strengthening.
LEMMA InvStep ==
  ASSUME PromptReaders, FuzzInv, [FNext]_fvars
  PROVE  FuzzInv'
<1>1. \A s \in Sides : DOMAIN child[s] = 1..Len(child[s])
  BY DEF FuzzInv, FuzzTypes
<1>2. CASE Loop
  BY <1>2, DrawInv, JudgeInv, FinishInv, ExitInv DEF Loop
<1>3. ASSUME NEW s \in Sides, Render(s) PROVE FuzzInv'
  BY <1>3, StartInv, ReceiveInv, TimeOutInv DEF Render
<1>4. ASSUME NEW s \in Sides, Children(s) PROVE FuzzInv'
  BY <1>1, <1>4, ServeInv, EndOfInputInv DEF Children
<1>5. ASSUME NEW s \in Sides, NEW k \in Ids, Reader(s, k) PROVE FuzzInv'
  BY <1>5, WriteInv, ReadInv, DeliverInv DEF Reader
<1>6. CASE UNCHANGED fvars
  <2>1. UNCHANGED <<want, input, at, waiting, dead, child, reader, done, verdict, report>>
    BY <1>6 DEF fvars
  <2>2. FuzzTypes'
    BY <2>1 DEF FuzzInv, FuzzTypes, Current
  <2>3. Goroutines'
    BY <2>1 DEF FuzzInv, Goroutines, Current, Awaited, Started
  <2>4. Apart' /\ Held'
    BY <2>1, PipesKept DEF FuzzInv
  <2>5. Verdicts' /\ ReportsAreTrue'
    BY <2>1, VerdictsKept DEF FuzzInv
  <2> QED
    BY <2>2, <2>3, <2>4, <2>5 DEF FuzzInv
<1> QED
  BY <1>2, <1>3, <1>4, <1>5, <1>6 DEF FNext

-----------------------------------------------------------------------------
\* NoChildLeft for any number of inputs, whatever the children do and however
\* the goroutines are scheduled: restart leaves no child running behind the
\* new one, nor does os.Exit find one there, and main returns with none left.
THEOREM GivenUpChildrenEnd == FuzzSpec => []NoChildLeft
<1>1. FInit => FuzzTypes /\ NoChildLeft
  BY TypesInit, ChildrenInit
<1>2. FuzzTypes /\ NoChildLeft /\ [FNext]_fvars => (FuzzTypes /\ NoChildLeft)'
  BY ChildrenStep
<1> QED
  BY <1>1, <1>2, PTL DEF FuzzSpec

\* If a goroutine sits at its read before its timer fires, the strengthening
\* holds of every state the fuzzer reaches.
LEMMA Strengthened ==
  ASSUME PromptReaders
  PROVE  FuzzSpec => []FuzzInv
<1>1. FInit => FuzzInv
  BY InvInit
<1>2. FuzzInv /\ [FNext]_fvars => FuzzInv'
  BY InvStep
<1> QED
  BY <1>1, <1>2, PTL DEF FuzzSpec

\* RepliesAreOwn, likewise: render takes no answer for that of another
\* request, however late it comes.
THEOREM LateAnswersAreLost ==
  ASSUME PromptReaders
  PROVE  FuzzSpec => []RepliesAreOwn
<1>1. FuzzInv => RepliesAreOwn
  BY DEF FuzzInv, Goroutines, RepliesAreOwn
<1> QED
  BY <1>1, Strengthened, PTL

\* ReportsAreTrue, likewise: main logs a divergence only of two outputs that
\* differ, and passes over none that do.
THEOREM ReportsCanBeTrusted ==
  ASSUME PromptReaders
  PROVE  FuzzSpec => []ReportsAreTrue
<1>1. FuzzInv => ReportsAreTrue
  BY DEF FuzzInv
<1> QED
  BY <1>1, Strengthened, PTL
=============================================================================
