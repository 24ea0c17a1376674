--------------------------- MODULE RenderService ---------------------------
(***************************************************************************)
(* What the Go adapter promises its callers: calls are served one at a     *)
(* time, and each ends with its own document's answer or with a panic.     *)
(* The promise ends where an override callback panics in the middle of an  *)
(* exchange.                                                               *)
(***************************************************************************)
EXTENDS Naturals

CONSTANT Clients, Nobody

VARIABLES calls,    \* calls each client has made
          serving,  \* the client whose call is being served
          answers,  \* [call, got] of every call that has ended
          broken    \* whether a callback has panicked

svars == <<calls, serving, answers, broken>>

Call(c) == <<c, calls[c]>>
Panic == <<Nobody, 1>>

SInit ==
  /\ calls = [c \in Clients |-> 0]
  /\ serving = Nobody
  /\ answers = {}
  /\ broken = FALSE

Enter(c) ==
  /\ calls' = [calls EXCEPT ![c] = @ + 1]
  /\ UNCHANGED <<serving, answers, broken>>

Serve(c) ==
  /\ serving = Nobody
  /\ serving' = c
  /\ UNCHANGED <<calls, answers, broken>>

Answer(c) ==
  /\ serving = c
  /\ \E got \in {Call(c), Panic} : answers' = answers \cup {[call |-> Call(c), got |-> got]}
  /\ serving' = Nobody
  /\ UNCHANGED <<calls, broken>>

\* Nothing is served: the helper is not there, or the pipe was closed.
Fail(c) ==
  /\ answers' = answers \cup {[call |-> Call(c), got |-> Panic]}
  /\ UNCHANGED <<calls, serving, broken>>

\* A client stops using the helper, with nothing being served.
Release(c) ==
  /\ serving = c
  /\ serving' = Nobody
  /\ UNCHANGED <<calls, answers, broken>>

SNext == \E c \in Clients : Enter(c) \/ Serve(c) \/ Answer(c) \/ Fail(c) \/ Release(c)

Breaks == broken'

ServiceSpec == SInit /\ [][SNext \/ Breaks]_svars
=============================================================================
