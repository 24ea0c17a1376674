---------------------------- MODULE PipeProtocol ----------------------------
(***************************************************************************)
(* The two ends of the pipe the upstream Go suite drives the port through: *)
(* call, overrideReply and Shutdown of adapter/blackfriday.go in any       *)
(* number of goroutines sharing one helper process, and the request loop   *)
(* and ask_client_for_override of harness/src/main.rs in that process.     *)
(*                                                                         *)
(* A request names the call that sent it, so that an answer can be told    *)
(* from the answer to another call; the protocol itself carries no name.   *)
(* A panic of Go code unwinds call, whose deferred Unlock releases the     *)
(* mutex wherever the exchange had got to.                                 *)
(***************************************************************************)
EXTENDS Integers, Sequences

CONSTANTS Clients,     \* goroutines of the test binary
          Nobody,
          Callbacks,   \* what an override callback may do
          HelperCrashes, \* whether the helper may die while rendering
          MaxCalls,    \* calls per client: bounds the run
          MaxRefs      \* override questions per document: bounds the run

ASSUME PipeAssumption ==
  /\ Nobody \notin Clients
  /\ Callbacks \subseteq {"returns", "panics", "reenters"}
  /\ HelperCrashes \in BOOLEAN
  /\ MaxCalls \in Nat /\ MaxRefs \in Nat

VARIABLES
  phase,      \* where each client is in call
  overriding, \* whether its options carry an override callback
  calls,      \* calls each client has made
  mutex,      \* holder of serveMu
  closed,     \* serveIn was closed and set to nil
  toServer,   \* frames written to the helper's stdin
  toClient,   \* frames written to the helper's stdout
  server,     \* where the helper is
  job,        \* the call whose request it is serving
  questions,  \* override questions it may still ask for this document
  answers,    \* [call, got] of every call that has ended
  abandoned   \* calls that ended in a panic of their own callback (history)

client == <<phase, overriding, calls, mutex, closed>>
helper == <<server, job, questions>>
vars == <<client, toServer, toClient, helper, answers, abandoned>>

Call(c) == <<c, calls[c]>>
NoCall == <<Nobody, 0>>
Panic == <<Nobody, 1>>      \* the outcome of a call that panicked

PInit ==
  /\ phase = [c \in Clients |-> "out"]
  /\ overriding = [c \in Clients |-> FALSE]
  /\ calls = [c \in Clients |-> 0]
  /\ mutex = Nobody
  /\ closed = FALSE
  /\ toServer = << >> /\ toClient = << >>
  /\ server \in {"idle", "absent"}
  /\ job = NoCall
  /\ questions = 0
  /\ answers = {}
  /\ abandoned = {}

-----------------------------------------------------------------------------
(***************************************************************************)
(* The clients.  A call ends by returning or panicking; either way the     *)
(* deferred Unlock runs if the lock was taken.                             *)
(***************************************************************************)
Ended(c, got) == answers' = answers \cup {[call |-> Call(c), got |-> got]}

LeaveLocked(c, got) ==                                           \* mutant
  /\ phase' = [phase EXCEPT ![c] = "out"]
  /\ Ended(c, got)
  /\ UNCHANGED <<overriding, calls, closed, mutex>>

Leave(c, got) ==
  /\ phase' = [phase EXCEPT ![c] = "out"]
  /\ mutex' = Nobody
  /\ Ended(c, got)
  /\ UNCHANGED <<overriding, calls, closed>>

\* call is entered.  serveOnce has run; without a helper it panics at once.
Enter(c) ==
  /\ phase[c] = "out" /\ calls[c] < MaxCalls
  /\ calls' = [calls EXCEPT ![c] = @ + 1]
  /\ \E o \in BOOLEAN : overriding' = [overriding EXCEPT ![c] = o]
  /\ phase' = [phase EXCEPT ![c] = IF server = "absent" THEN "failed" ELSE "lock"]
  /\ UNCHANGED <<mutex, closed, toServer, toClient, helper, answers, abandoned>>

Fail(c) ==
  /\ phase[c] = "failed"
  /\ phase' = [phase EXCEPT ![c] = "out"]
  /\ Ended(c, Panic)
  /\ UNCHANGED <<overriding, calls, mutex, closed, toServer, toClient, helper, abandoned>>

LockUnchecked(c) ==                                              \* mutant
  /\ phase[c] = "lock"
  /\ mutex' = c
  /\ phase' = [phase EXCEPT ![c] = "send"]
  /\ UNCHANGED <<overriding, calls, closed, toServer, toClient, helper, answers, abandoned>>

Lock(c) ==
  /\ phase[c] = "lock" /\ mutex = Nobody
  /\ mutex' = c
  /\ phase' = [phase EXCEPT ![c] = "send"]
  /\ UNCHANGED <<overriding, calls, closed, toServer, toClient, helper, answers, abandoned>>

\* writeFrame of the request.  It panics after Shutdown, when serveIn is nil, and
\* when the process at the other end has died.
Broken == closed \/ server = "gone"

Send(c) ==
  /\ phase[c] = "send" /\ ~Broken
  /\ toServer' = Append(toServer, [op |-> "run", call |-> Call(c), asks |-> overriding[c]])
  /\ phase' = [phase EXCEPT ![c] = "read"]
  /\ UNCHANGED <<overriding, calls, mutex, closed, toClient, helper, answers, abandoned>>

SendBroken(c) ==
  /\ phase[c] = "send" /\ Broken
  /\ Leave(c, Panic)
  /\ UNCHANGED <<toServer, toClient, helper, abandoned>>

\* readFrame finds a result or a panic: the call ends with it.
ReadAnswer(c) ==
  /\ phase[c] = "read" /\ toClient # << >>
  /\ Head(toClient).status \in {"result", "panic"}
  /\ toClient' = Tail(toClient)
  /\ Leave(c, IF Head(toClient).status = "panic" THEN Panic ELSE Head(toClient).call)
  /\ UNCHANGED <<toServer, helper, abandoned>>

\* readFrame finds the end of the output of a dead helper.
ReadEnd(c) ==
  /\ phase[c] = "read" /\ toClient = << >> /\ server = "gone"
  /\ Leave(c, Panic)
  /\ UNCHANGED <<toServer, toClient, helper, abandoned>>

\* readFrame finds a question: the callback runs, with the lock held.
ReadQuestion(c) ==
  /\ phase[c] = "read" /\ toClient # << >>
  /\ Head(toClient).status = "need_ref"
  /\ toClient' = Tail(toClient)
  /\ phase' = [phase EXCEPT ![c] = "callback"]
  /\ UNCHANGED <<overriding, calls, mutex, closed, toServer, helper, answers, abandoned>>

\* overrideReply answers, from the callback or, without one, by itself.
Reply(c) ==
  /\ phase[c] = "callback" /\ ~Broken
  /\ overriding[c] => "returns" \in Callbacks
  /\ toServer' = Append(toServer, [op |-> "reply", call |-> Call(c), asks |-> FALSE])
  /\ phase' = [phase EXCEPT ![c] = "read"]
  /\ UNCHANGED <<overriding, calls, mutex, closed, toClient, helper, answers, abandoned>>

ReplyBroken(c) ==
  /\ phase[c] = "callback" /\ Broken
  /\ overriding[c] => "returns" \in Callbacks
  /\ Leave(c, Panic)
  /\ UNCHANGED <<toServer, toClient, helper, abandoned>>

CallbackPanics(c) ==
  /\ phase[c] = "callback" /\ overriding[c] /\ "panics" \in Callbacks
  /\ Leave(c, Panic)
  /\ abandoned' = abandoned \cup {Call(c)}
  /\ UNCHANGED <<toServer, toClient, helper>>

\* The callback calls the library again: serveMu is not re-entrant.
CallbackReenters(c) ==
  /\ phase[c] = "callback" /\ overriding[c] /\ "reenters" \in Callbacks
  /\ phase' = [phase EXCEPT ![c] = "stuck"]
  /\ UNCHANGED <<overriding, calls, mutex, closed, toServer, toClient, helper,
                 answers, abandoned>>

\* Shutdown: close stdin, then wait for the helper to exit, under the lock.
Shutdown(c) ==
  /\ phase[c] = "out" /\ mutex = Nobody /\ ~closed /\ server # "absent"
  /\ mutex' = c
  /\ closed' = TRUE
  /\ phase' = [phase EXCEPT ![c] = "wait"]
  /\ UNCHANGED <<overriding, calls, toServer, toClient, helper, answers, abandoned>>

Waited(c) ==
  /\ phase[c] = "wait" /\ server = "gone"
  /\ mutex' = Nobody
  /\ phase' = [phase EXCEPT ![c] = "out"]
  /\ UNCHANGED <<overriding, calls, closed, toServer, toClient, helper, answers, abandoned>>

-----------------------------------------------------------------------------
(***************************************************************************)
(* The helper: main's loop, and do_run with the override asking on the     *)
(* same pipe.  A question is answered by whatever frame comes next.        *)
(***************************************************************************)
ReadRequest ==
  /\ server = "idle" /\ toServer # << >>
  /\ toServer' = Tail(toServer)
  /\ server' = IF Head(toServer).op = "run" THEN "rendering" ELSE "gone"
  /\ job' = Head(toServer).call
  /\ questions' = IF Head(toServer).asks THEN MaxRefs ELSE 0
  /\ UNCHANGED <<client, toClient, answers, abandoned>>

Ask ==
  /\ server = "rendering" /\ questions > 0
  /\ toClient' = Append(toClient, [status |-> "need_ref", call |-> job])
  /\ server' = "waiting"
  /\ questions' = questions - 1
  /\ UNCHANGED <<client, toServer, job, answers, abandoned>>

ResumeUnread ==                                                  \* mutant
  /\ server = "waiting"
  /\ server' = "rendering"
  /\ UNCHANGED <<client, toServer, toClient, job, questions, answers, abandoned>>

Resume ==
  /\ server = "waiting" /\ toServer # << >>
  /\ toServer' = Tail(toServer)
  /\ server' = "rendering"
  /\ UNCHANGED <<client, toClient, job, questions, answers, abandoned>>

\* The end of input is taken as "not overridden".
ResumeAtEnd ==
  /\ server = "waiting" /\ toServer = << >> /\ closed
  /\ server' = "rendering"
  /\ UNCHANGED <<client, toServer, toClient, job, questions, answers, abandoned>>

\* The result, or the message of a panic that catching caught.
Respond ==
  /\ server = "rendering"
  /\ \E status \in {"result", "panic"} :
       toClient' = Append(toClient, [status |-> status, call |-> job])
  /\ server' = "idle"
  /\ UNCHANGED <<client, toServer, job, questions, answers, abandoned>>

ReadEndOfInput ==
  /\ server = "idle" /\ toServer = << >> /\ closed
  /\ server' = "gone"
  /\ UNCHANGED <<client, toServer, toClient, job, questions, answers, abandoned>>

\* Nothing catches an abort; what the helper had not read is lost.
Crash ==
  /\ HelperCrashes /\ server \in {"rendering", "waiting"}
  /\ server' = "gone"
  /\ toServer' = << >>
  /\ UNCHANGED <<client, toClient, job, questions, answers, abandoned>>

ClientStep(c) ==
  \/ Enter(c) \/ Fail(c) \/ Lock(c) \/ Send(c) \/ SendBroken(c)
  \/ ReadAnswer(c) \/ ReadEnd(c) \/ ReadQuestion(c)
  \/ Reply(c) \/ ReplyBroken(c) \/ CallbackPanics(c) \/ CallbackReenters(c)
  \/ Shutdown(c) \/ Waited(c)

HelperStep ==
  ReadRequest \/ Ask \/ Resume \/ ResumeAtEnd \/ Respond \/ ReadEndOfInput \/ Crash

PNext == (\E c \in Clients : ClientStep(c)) \/ HelperStep

PSpec == PInit /\ [][PNext]_vars

(***************************************************************************)
(* The processes run: a client that can go on does, the helper too (a      *)
(* document asks finitely many questions), and sync.Mutex hands the lock   *)
(* to a goroutine that has waited long enough.  Nobody has to call.        *)
(***************************************************************************)
Proceed(c) ==
  \/ Fail(c) \/ Send(c) \/ SendBroken(c) \/ ReadAnswer(c) \/ ReadEnd(c) \/ ReadQuestion(c)
  \/ Reply(c) \/ ReplyBroken(c) \/ CallbackPanics(c) \/ CallbackReenters(c) \/ Waited(c)

Fairness ==
  /\ \A c \in Clients : WF_vars(Proceed(c)) /\ SF_vars(Lock(c))
  /\ WF_vars(HelperStep)

FairSpec == PSpec /\ Fairness

-----------------------------------------------------------------------------
Calls == (Clients \X Nat) \cup {NoCall}
Requests == [op : {"run", "reply"}, call : Calls, asks : BOOLEAN]
Responses == [status : {"result", "panic", "need_ref"}, call : Calls]
Phases == {"out", "failed", "lock", "send", "read", "callback", "stuck", "wait"}

Exchanging == {"send", "read", "callback", "stuck", "wait"}

\* The adapter's claim that its lock serialises every exchange: only the holder
\* of serveMu is in one, through every panic and early return.
OnlyHolderExchanges == \A c \in Clients : phase[c] \in Exchanging => mutex = c

\* Strict request/response: at most one frame is on the pipe, in either direction,
\* and the holder of the lock is reading for its answer.  It holds across panicking
\* callbacks, until Shutdown closes the pipe under a helper still waiting.
OneFrame ==
  ~closed =>
    /\ Len(toServer) + Len(toClient) <= 1
    /\ toServer # << >> \/ toClient # << >> => mutex # Nobody /\ phase[mutex] = "read"

\* An override reply only reaches a helper that asked: main never meets op 0, so
\* the "unknown op" exit is not reached even when exchanges get out of step.
RepliesAreAwaited ==
  toServer # << >> /\ Head(toServer).op = "reply" => server = "waiting"

\* An answer goes astray only after a callback panicked, and then it is the
\* answer to the call that panicked: one misplaced answer per panic at most.
OnlyAbandonedAnswersStray ==
  \A a \in answers : a.got \in {a.call, Panic} \cup abandoned

Service == INSTANCE RenderService WITH serving <- mutex, broken <- (abandoned # {})

\* The pipe implements the service its callers see, until a callback panics.
ServiceSpec == Service!ServiceSpec

\* Every call ends, by returning or by panicking, wherever the helper dies,
\* a callback panics or the pipe is shut down, unless a callback re-enters the
\* library: that call waits for its own lock and keeps every other one waiting.
EveryCallEnds ==
  \A c \in Clients :
    (phase[c] # "out") ~> (phase[c] = "out" \/ \E d \in Clients : phase[d] = "stuck")
=============================================================================
