----------------------------- MODULE FuzzClient -----------------------------
(***************************************************************************)
(* The differential fuzzer: the loop of fuzz/main.go, which renders each   *)
(* input with a Go and a Rust child in turn and compares the two verdicts, *)
(* and the supervision of a child in fuzz/client.go, which abandons one    *)
(* that does not answer in time.                                           *)
(*                                                                         *)
(* render leaves the exchange to a goroutine that may outlive it.  The     *)
(* goroutine names its pipes as i.in and i.out when it comes to use them,  *)
(* by which time restart may have replaced them.                           *)
(***************************************************************************)
EXTENDS Naturals, Sequences, FiniteSets

CONSTANTS Results,       \* what a child may do with an input
          PromptReaders, \* goroutines reach their read before the timer fires
          MaxInputs      \* inputs tried: bounds the run

ASSUME FuzzAssumption ==
  /\ Results \subseteq {"out", "other", "panic", "hang", "die"}
  /\ PromptReaders \in BOOLEAN
  /\ MaxInputs \in Nat

Sides == {"go", "rust"}
Ids == 1..MaxInputs

VARIABLES
  want,     \* want[k][s]: what side s does with the k-th input
  input,    \* how many inputs have been tried
  at,       \* "draw", the side being rendered, "judge"; main has returned
            \* ("ended") or called os.Exit ("exited")
  waiting,  \* whether render is in its select
  dead,     \* dead[s]: impl.dead
  child,    \* child[s]: the children of side s, the last one current
  reader,   \* reader[s][k]: the goroutine that render of input k started
  done,     \* done[s][k]: its channel, an input whose answer it holds
  verdict,  \* verdict[s]: what render returned for this input
  report,   \* what the loop made of the last input
  divergent \* whether main has counted a divergence

fvars == <<want, input, at, waiting, dead, child, reader, done, verdict, report,
           divergent>>

NoReply == 0
Broken == MaxInputs + 1     \* a reply{err: ...}
Fresh == [alive |-> TRUE, stuck |-> FALSE, in |-> << >>, out |-> << >>]
Current(s) == Len(child[s])

FInit ==
  /\ want \in [Ids -> [Sides -> Results]]
  /\ input = 0 /\ at = "draw" /\ waiting = FALSE
  /\ dead = [s \in Sides |-> FALSE]
  /\ child = [s \in Sides |-> << Fresh >>]
  /\ reader = [s \in Sides |-> [k \in Ids |-> [pc |-> "none", pipe |-> 0]]]
  /\ done = [s \in Sides |-> [k \in Ids |-> NoReply]]
  /\ verdict = [s \in Sides |-> "none"]
  /\ report = "none" /\ divergent = FALSE

-----------------------------------------------------------------------------
(* The loop, and render in the loop's own goroutine.                       *)

Draw ==
  /\ at = "draw" /\ input < MaxInputs
  /\ input' = input + 1
  /\ at' = "go"
  /\ UNCHANGED <<want, waiting, dead, child, reader, done, verdict, report, divergent>>

\* Mutant: the old child is left running.
RestartedLeaving(cs) == Append(cs, Fresh)

\* impl.restart: Kill, then Wait, which also closes the pipes of the old
\* child, then a new child.
Restarted(cs) == Append([cs EXCEPT ![Len(cs)].alive = FALSE], Fresh)

\* render up to its select.
Start(s) ==
  /\ at = s /\ ~waiting
  /\ child' = IF dead[s] THEN [child EXCEPT ![s] = Restarted(@)] ELSE child
  /\ dead' = [dead EXCEPT ![s] = FALSE]
  /\ reader' = [reader EXCEPT ![s][input].pc = "start"]
  /\ waiting' = TRUE
  /\ UNCHANGED <<want, input, at, done, verdict, report, divergent>>

Return(s, v) ==
  /\ waiting' = FALSE
  /\ at' = IF s = "go" THEN "rust" ELSE "judge"
  /\ verdict' = [verdict EXCEPT ![s] = v]

\* The select took a reply from the channel.
Receive(s) ==
  /\ at = s /\ waiting
  /\ done[s][input] # NoReply
  /\ LET r == done[s][input] IN
     /\ Return(s, IF r = Broken THEN "error" ELSE want[r][s])
     /\ dead' = IF r = Broken THEN [dead EXCEPT ![s] = TRUE] ELSE dead
  /\ done' = [done EXCEPT ![s][input] = NoReply]
  /\ UNCHANGED <<want, input, child, reader, report, divergent>>

\* The timer may fire with the answer on its way or already in the channel;
\* with PromptReaders, never before the goroutine sits at its read.
TimerMayFire(s) == PromptReaders => reader[s][input].pc \in {"read", "ended"}

\* Mutant: the child is kept although it is still busy.
TimeOutKeeping(s) ==
  /\ at = s /\ waiting /\ TimerMayFire(s)
  /\ Return(s, "hung")
  /\ UNCHANGED <<want, input, dead, child, reader, done, report, divergent>>

TimeOut(s) ==
  /\ at = s /\ waiting /\ TimerMayFire(s)
  /\ Return(s, "hung")
  /\ dead' = [dead EXCEPT ![s] = TRUE]
  /\ UNCHANGED <<want, input, child, reader, done, report, divergent>>

\* The loop's switch, in its order.
Compared(g, r) ==
  IF "hung" \in {g, r} THEN IF g = r THEN "both hang" ELSE "one hangs"
  ELSE IF "error" \in {g, r} THEN "error"
  ELSE IF g = r THEN "agree" ELSE "differ"

Judge ==
  /\ at = "judge"
  /\ report' = Compared(verdict["go"], verdict["rust"])
  /\ divergent' = (divergent \/ report' \in {"one hangs", "differ"})
  /\ at' = "draw"
  /\ UNCHANGED <<want, input, waiting, dead, child, reader, done, verdict>>

\* Mutant: impl.close only closes the child's stdin.
FinishGently ==
  /\ at = "draw" /\ input > 0 /\ ~divergent
  /\ child' = [s \in Sides |->
       [child[s] EXCEPT ![Len(child[s])].alive = child[s][Len(child[s])].stuck]]
  /\ at' = "ended"
  /\ UNCHANGED <<want, input, waiting, dead, reader, done, verdict, report, divergent>>

\* The deadline passed and nothing diverged: main returns and its deferred
\* closes kill both children.
Finish ==
  /\ at = "draw" /\ input > 0 /\ ~divergent
  /\ child' = [s \in Sides |-> [child[s] EXCEPT ![Len(child[s])].alive = FALSE]]
  /\ at' = "ended"
  /\ UNCHANGED <<want, input, waiting, dead, reader, done, verdict, report, divergent>>

\* The deadline passed after a divergence: os.Exit skips the deferred closes.
\* The goroutines go with the process, the children do not.
Exit ==
  /\ at = "draw" /\ input > 0 /\ divergent
  /\ at' = "exited"
  /\ UNCHANGED <<want, input, waiting, dead, child, reader, done, verdict, report, divergent>>

-----------------------------------------------------------------------------
(* The goroutine of one request.  No request asks for a reference          *)
(* override, so a child has no cause to send statusNeedRef.                *)

Fail(s, k) ==
  /\ reader' = [reader EXCEPT ![s][k].pc = "ended"]
  /\ done' = [done EXCEPT ![s][k] = Broken]
  /\ UNCHANGED child

\* writeFrame(i.in, ...): to whichever child is current by now.
Write(s, k) ==
  /\ at # "exited" /\ reader[s][k].pc = "start"
  /\ IF child[s][Current(s)].alive
     THEN /\ child' = [child EXCEPT ![s][Current(s)].in = Append(@, k)]
          /\ reader' = [reader EXCEPT ![s][k].pc = "written"]
          /\ UNCHANGED done
     ELSE Fail(s, k)
  /\ UNCHANGED <<want, input, at, waiting, dead, verdict, report, divergent>>

\* readFrame(i.out) begins, on whichever child is current by now.
Read(s, k) ==
  /\ at # "exited" /\ reader[s][k].pc = "written"
  /\ reader' = [reader EXCEPT ![s][k] = [pc |-> "read", pipe |-> Current(s)]]
  /\ UNCHANGED <<want, input, at, waiting, dead, child, done, verdict, report, divergent>>

\* Its frame arrives, or the end of the pipe.
Deliver(s, k) ==
  /\ at # "exited" /\ reader[s][k].pc = "read"
  /\ LET g == reader[s][k].pipe IN
     \/ /\ child[s][g].out # << >>
        /\ done' = [done EXCEPT ![s][k] = Head(child[s][g].out)]
        /\ child' = [child EXCEPT ![s][g].out = Tail(@)]
        /\ reader' = [reader EXCEPT ![s][k].pc = "ended"]
     \/ /\ child[s][g].out = << >> /\ ~child[s][g].alive
        /\ Fail(s, k)
  /\ UNCHANGED <<want, input, at, waiting, dead, verdict, report, divergent>>

-----------------------------------------------------------------------------
\* A child takes the next request; an answer to it is its number.
Serve(s, g) ==
  LET c == child[s][g] IN
  /\ c.alive /\ ~c.stuck /\ c.in # << >>
  /\ LET k == Head(c.in)  rest == [c EXCEPT !.in = Tail(@)] IN
     child' = [child EXCEPT ![s][g] =
       CASE want[k][s] = "hang" -> [rest EXCEPT !.stuck = TRUE]
         [] want[k][s] = "die"  -> [rest EXCEPT !.alive = FALSE]
         [] OTHER               -> [rest EXCEPT !.out = Append(@, k)]]
  /\ UNCHANGED <<want, input, at, waiting, dead, reader, done, verdict, report, divergent>>

\* The process that held the other ends of its pipes is gone: a child that
\* comes to read the next request finds the end of its input.
EndOfInput(s, g) ==
  LET c == child[s][g] IN
  /\ at = "exited" /\ c.alive /\ ~c.stuck /\ c.in = << >>
  /\ child' = [child EXCEPT ![s][g].alive = FALSE]
  /\ UNCHANGED <<want, input, at, waiting, dead, reader, done, verdict, report, divergent>>

Loop == Draw \/ Judge \/ Finish \/ Exit
Render(s) == Start(s) \/ Receive(s) \/ TimeOut(s)
Reader(s, k) == Write(s, k) \/ Read(s, k) \/ Deliver(s, k)
Children(s) == \E g \in DOMAIN child[s] : Serve(s, g) \/ EndOfInput(s, g)

FNext ==
  \/ Loop
  \/ \E s \in Sides : Render(s) \/ Children(s) \/ \E k \in Ids : Reader(s, k)

\* The Go scheduler runs every goroutine that can run, the timer fires, and
\* the system runs the children, also those main left behind.
FuzzSpec ==
  /\ FInit /\ [][FNext]_fvars
  /\ WF_fvars(Loop)
  /\ \A s \in Sides :
       /\ WF_fvars(Render(s))
       /\ WF_fvars(Children(s))
       /\ \A k \in Ids : WF_fvars(Reader(s, k))

-----------------------------------------------------------------------------
\* A reply that render is about to take answers the request it sent, not one
\* it gave up on: an answer that comes after its timeout finds either its own
\* channel or a pipe nobody reads any more.
RepliesAreOwn ==
  \A s \in Sides, k \in Ids : done[s][k] \in {NoReply, Broken, k}

\* What the fuzzer reports is so: it logs a divergence of outputs only for
\* an input the two implementations do render differently, and passes over
\* an input as agreement only if they do not.
ReportsAreTrue ==
  LET w == want[input] IN
  at = "draw" =>
    /\ report = "differ" => w["go"] # w["rust"]
    /\ report = "agree" => w["go"] = w["rust"]

\* Giving up on a child never leaves two of them running, in whatever way the
\* run ends, and main returns only with none left, hung ones included.
NoChildLeft ==
  \A s \in Sides :
    /\ \A g \in DOMAIN child[s] : child[s][g].alive => g = Current(s)
    /\ at = "ended" => ~child[s][Current(s)].alive

\* What a run leaves behind ends too, in whichever way it ended.  Where main returns,
\* no goroutine is left blocked on a pipe, not even one whose render gave up on it.
\* os.Exit kills nothing, yet all it can leave running for good is a child that hung
\* on the very last input: one that hung earlier was replaced, and one that was merely
\* late answers and finds the end of its input.
LeftoversEnd ==
  (at \in {"ended", "exited"}) ~>
    \A s \in Sides :
      /\ at = "ended" => \A k \in Ids : reader[s][k].pc \in {"none", "ended"}
      /\ child[s][Current(s)].alive =>
           at = "exited" /\ input > 0 /\ want[input][s] = "hang"
=============================================================================
