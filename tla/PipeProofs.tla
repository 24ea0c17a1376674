----------------------------- MODULE PipeProofs -----------------------------
(***************************************************************************)
(* For any number of clients, calls and questions, and whatever the        *)
(* callbacks do: only the holder of the lock is in an exchange, the pipe   *)
(* holds at most one frame, a reply only reaches a helper that asked, an   *)
(* answer only goes astray behind a panicking callback, and until one      *)
(* panics the pipe implements RenderService.                               *)
(***************************************************************************)
EXTENDS PipeProtocol, SequenceTheorems, TLAPS

(***************************************************************************)
(* The strengthening.  OneFrame is not inductive: the helper answers       *)
(* without looking at the pipe, so it must be known that whenever it is    *)
(* rendering the holder is reading and nothing is on the pipe.             *)
(***************************************************************************)
PipeTypes ==
  /\ phase \in [Clients -> Phases]
  /\ mutex \in Clients \cup {Nobody}
  /\ toServer \in Seq(Requests) /\ toClient \in Seq(Responses)
  /\ job \in Calls
  /\ calls \in [Clients -> Nat]
  /\ overriding \in [Clients -> BOOLEAN]

Reading == mutex # Nobody /\ phase[mutex] = "read"

Asked == server \in {"waiting", "gone"}

InStep ==
  /\ toServer = << >> \/ toClient = << >>
  /\ Len(toServer) <= 1 /\ Len(toClient) <= 1
  /\ toServer # << >> \/ toClient # << >> \/ server = "rendering" => Reading
  /\ server = "rendering" => toServer = << >> /\ toClient = << >>
  /\ server = "gone" => toServer = << >>
  /\ toClient # << >> /\ Head(toClient).status = "need_ref" => Asked
  /\ \A c \in Clients : phase[c] = "callback" => Asked

PipeInv ==
  /\ PipeTypes
  /\ OnlyHolderExchanges
  /\ RepliesAreAwaited
  /\ closed => toServer = << >>
  /\ ~closed => InStep

-----------------------------------------------------------------------------
\* A frame written to an empty pipe is the one frame on it.
LEMMA WriteToEmpty ==
  ASSUME NEW S, NEW s \in Seq(S), s = << >>, NEW e \in S
  PROVE  /\ Append(s, e) \in Seq(S) /\ Append(s, e) # << >>
         /\ Len(Append(s, e)) = 1 /\ Head(Append(s, e)) = e
  OBVIOUS

\* Writing keeps the type.
LEMMA Write ==
  ASSUME NEW S, NEW s \in Seq(S), NEW e \in S
  PROVE  Append(s, e) \in Seq(S)
  OBVIOUS

\* Reading the only frame leaves the pipe empty.
LEMMA ReadTheOne ==
  ASSUME NEW S, NEW s \in Seq(S), s # << >>
  PROVE  /\ Tail(s) \in Seq(S) /\ Head(s) \in S
         /\ Len(s) <= 1 => Tail(s) = << >> /\ Len(Tail(s)) = 0
<1>1. Tail(s) \in Seq(S) /\ Head(s) \in S /\ Len(Tail(s)) = Len(s) - 1
  BY HeadTailProperties
<1>2. Len(s) \in Nat \ {0}
  BY EmptySeq
<1>3. ASSUME Len(s) <= 1  PROVE Tail(s) = << >> /\ Len(Tail(s)) = 0
  <2>1. Len(Tail(s)) = 0
    BY <1>1, <1>2, <1>3
  <2>2. Tail(s) = << >>
    BY <2>1, <1>1, EmptySeq
  <2> QED BY <2>1, <2>2
<1> QED BY <1>1, <1>3

LEMMA PipeInitially == PInit => PipeInv
  BY PipeAssumption
     DEF PInit, PipeInv, PipeTypes, Phases, OnlyHolderExchanges, Exchanging, RepliesAreAwaited,
         InStep, Calls, NoCall

\* Every step keeps the strengthened invariant.
LEMMA PipeStepwise == PipeInv /\ [PNext]_vars => PipeInv'
<1> SUFFICES ASSUME PipeInv, [PNext]_vars
             PROVE  PipeInv'
  OBVIOUS
<1> USE PipeAssumption
<1> USE DEF PipeInv, PipeTypes, OnlyHolderExchanges, Exchanging, RepliesAreAwaited, InStep,
            Reading, Asked, Phases
<1>1. ASSUME NEW c \in Clients, Enter(c)  PROVE PipeInv'
  BY <1>1 DEF Enter, helper
<1>2. ASSUME NEW c \in Clients, Fail(c)  PROVE PipeInv'
  BY <1>2 DEF Fail, helper
<1>3. ASSUME NEW c \in Clients, Lock(c)  PROVE PipeInv'
  BY <1>3 DEF Lock, helper
<1>4. ASSUME NEW c \in Clients, Send(c)  PROVE PipeInv'
  <2> DEFINE f == [op |-> "run", call |-> Call(c), asks |-> overriding[c]]
  <2>1. /\ ~closed /\ mutex = c /\ toServer = << >> /\ toClient = << >>
        /\ server # "gone" /\ server # "rendering"
    BY <1>4 DEF Send, Broken
  <2>2. f \in Requests /\ f.op = "run"
    BY DEF Requests, Calls, Call
  <2>3. /\ toServer' \in Seq(Requests) /\ toServer' # << >>
        /\ Len(toServer') = 1 /\ Head(toServer') = f
    <3>1. toServer' = Append(toServer, f)
      BY <1>4 DEF Send
    <3> HIDE DEF f
    <3> QED BY <2>1, <2>2, <3>1, WriteToEmpty
  <2> HIDE DEF f
  <2> QED BY <1>4, <2>1, <2>2, <2>3 DEF Send, helper
<1>5. ASSUME NEW c \in Clients, SendBroken(c)  PROVE PipeInv'
  BY <1>5 DEF SendBroken, Leave, Broken, helper
<1>6. ASSUME NEW c \in Clients, ReadAnswer(c)  PROVE PipeInv'
  BY <1>6 DEF ReadAnswer, Leave, helper
<1>7. ASSUME NEW c \in Clients, ReadEnd(c)  PROVE PipeInv'
  BY <1>7 DEF ReadEnd, Leave, helper
<1>8. ASSUME NEW c \in Clients, ReadQuestion(c)  PROVE PipeInv'
  <2>1. toClient' \in Seq(Responses) /\ (Len(toClient) <= 1 => toClient' = << >> /\ Len(toClient') = 0)
    BY <1>8, ReadTheOne DEF ReadQuestion
  <2>2. mutex = c
    BY <1>8 DEF ReadQuestion
  <2>3. ~closed => /\ toServer = << >> /\ Asked /\ server # "rendering"
                   /\ toClient' = << >> /\ Len(toClient') = 0
    BY <1>8, <2>1 DEF ReadQuestion
  <2> QED BY <1>8, <2>1, <2>2, <2>3 DEF ReadQuestion, helper
<1>9. ASSUME NEW c \in Clients, Reply(c)  PROVE PipeInv'
  <2> DEFINE f == [op |-> "reply", call |-> Call(c), asks |-> FALSE]
  <2>1. /\ ~closed /\ mutex = c /\ toServer = << >> /\ toClient = << >>
        /\ server = "waiting"
    BY <1>9 DEF Reply, Broken
  <2>2. f \in Requests
    BY DEF Requests, Calls, Call
  <2>3. /\ toServer' \in Seq(Requests) /\ toServer' # << >> /\ Len(toServer') = 1
    <3>1. toServer' = Append(toServer, f)
      BY <1>9 DEF Reply
    <3> HIDE DEF f
    <3> QED BY <2>1, <2>2, <3>1, WriteToEmpty
  <2> QED BY <1>9, <2>1, <2>3 DEF Reply, helper
<1>10. ASSUME NEW c \in Clients, ReplyBroken(c)  PROVE PipeInv'
  BY <1>10 DEF ReplyBroken, Leave, Broken, helper
<1>11. ASSUME NEW c \in Clients, CallbackPanics(c)  PROVE PipeInv'
  BY <1>11 DEF CallbackPanics, Leave, helper
<1>12. ASSUME NEW c \in Clients, CallbackReenters(c)  PROVE PipeInv'
  BY <1>12 DEF CallbackReenters, helper
<1>13. ASSUME NEW c \in Clients, Shutdown(c)  PROVE PipeInv'
  BY <1>13 DEF Shutdown, helper
<1>14. ASSUME NEW c \in Clients, Waited(c)  PROVE PipeInv'
  BY <1>14 DEF Waited, helper
<1>15. CASE ReadRequest
  <2>1. /\ toServer' \in Seq(Requests) /\ Head(toServer) \in Requests
        /\ Len(toServer) <= 1 => toServer' = << >> /\ Len(toServer') = 0
    BY <1>15, ReadTheOne DEF ReadRequest
  <2>2. ~closed /\ toServer # << >> /\ toClient = << >> /\ Head(toServer).op = "run"
    BY <1>15, <2>1 DEF ReadRequest, Requests
  <2>3. job' \in Calls
    BY <1>15, <2>1 DEF ReadRequest, Requests
  <2> QED BY <1>15, <2>1, <2>2, <2>3 DEF ReadRequest, client
<1>16. CASE Ask
  <2> DEFINE f == [status |-> "need_ref", call |-> job]
  <2>1. f \in Responses
    BY DEF Responses
  <2>2. toClient' = Append(toClient, f)
    BY <1>16 DEF Ask
  <2> HIDE DEF f
  <2>3. toClient' \in Seq(Responses)
    BY <2>1, <2>2, Write
  <2>4. ~closed => toClient' # << >> /\ Len(toClient') = 1
    BY <1>16, <2>1, <2>2, WriteToEmpty DEF Ask
  <2> QED BY <1>16, <2>3, <2>4 DEF Ask, client
<1>17. CASE Resume
  BY <1>17 DEF Resume, client
<1>18. CASE ResumeAtEnd
  BY <1>18 DEF ResumeAtEnd, client
<1>19. CASE Respond
  <2> SUFFICES ASSUME NEW status \in {"result", "panic"},
                      toClient' = Append(toClient, [status |-> status, call |-> job])
               PROVE  PipeInv'
    BY <1>19 DEF Respond
  <2> DEFINE f == [status |-> status, call |-> job]
  <2>1. f \in Responses /\ f.status # "need_ref"
    BY DEF Responses
  <2>2. toClient' = Append(toClient, f)
    OBVIOUS
  <2> HIDE DEF f
  <2>3. toClient' \in Seq(Responses)
    BY <2>1, <2>2, Write
  <2>4. ~closed => toClient' # << >> /\ Len(toClient') = 1 /\ Head(toClient') = f
    BY <1>19, <2>1, <2>2, WriteToEmpty DEF Respond
  <2> QED BY <1>19, <2>1, <2>3, <2>4 DEF Respond, client
<1>20. CASE ReadEndOfInput
  BY <1>20 DEF ReadEndOfInput, client
<1>21. CASE Crash
  BY <1>21 DEF Crash, client
<1>22. CASE UNCHANGED vars
  BY <1>22 DEF vars, client, helper
<1> QED
  BY <1>1, <1>2, <1>3, <1>4, <1>5, <1>6, <1>7, <1>8, <1>9, <1>10, <1>11, <1>12, <1>13, <1>14, <1>15, <1>16, <1>17, <1>18, <1>19, <1>20, <1>21, <1>22 DEF PNext, ClientStep, HelperStep

\* OnlyHolderExchanges for every set of clients and all they may do: a goroutine
\* outside serveMu never touches the pipe.
THEOREM HolderExchanges == PSpec => []OnlyHolderExchanges
<1>1. PipeInv => OnlyHolderExchanges
  BY DEF PipeInv
<1> QED
  BY <1>1, PipeInitially, PipeStepwise, PTL DEF PSpec

\* OneFrame, likewise: the pipe never holds a frame that another could overtake
\* or be mistaken for, even after callbacks panicked in the middle of exchanges.
THEOREM StrictAlternation == PSpec => []OneFrame
<1>1. PipeInv => OneFrame
  BY DEF PipeInv, PipeTypes, InStep, Reading, OneFrame
<1> QED
  BY <1>1, PipeInitially, PipeStepwise, PTL DEF PSpec

\* RepliesAreAwaited, likewise: the helper never exits on an unknown op.
THEOREM RepliesFindQuestions == PSpec => []RepliesAreAwaited
<1>1. PipeInv => RepliesAreAwaited
  BY DEF PipeInv
<1> QED
  BY <1>1, PipeInitially, PipeStepwise, PTL DEF PSpec
-----------------------------------------------------------------------------
(***************************************************************************)
(* Whose answer is on its way.  The protocol carries no names, so nothing  *)
(* in a step keeps an answer with its call; what does is that the holder   *)
(* only stops waiting for its own answer by a panic of its callback.       *)
(***************************************************************************)
Waiting == mutex # Nobody /\ phase[mutex] \in {"read", "callback", "stuck"}

\* An answer or the job it will be given for: the holder's, or one that was
\* left behind.
Expected(call) == (Waiting /\ call = Call(mutex)) \/ call \in abandoned

Belongs ==
  /\ server \in {"rendering", "waiting"} => Expected(job)
  /\ toServer # << >> => Head(toServer).call = Call(mutex)
  /\ toClient # << >> => Expected(Head(toClient).call)
  /\ toClient # << >> /\ Head(toClient).status # "need_ref" => server # "waiting"

\* After Shutdown no client is in the middle of an exchange any more; only an
\* abandoned helper may still be.
Drained == \A c \in Clients : phase[c] \notin {"read", "callback", "stuck"}

OwnInv ==
  /\ ~closed => Belongs
  /\ closed => Drained
  /\ OnlyAbandonedAnswersStray

LEMMA OwnInitially == PInit => OwnInv
  BY DEF PInit, OwnInv, Belongs, OnlyAbandonedAnswersStray

\* What a call gets that ends with a panic, with the answer on the pipe, or with
\* none: the set of answers stays within what the property allows.
LEMMA EndedInOrder ==
  ASSUME OnlyAbandonedAnswersStray, abandoned \subseteq abandoned',
         NEW c \in Clients, NEW got, Ended(c, got),
         got \in {Call(c), Panic} \cup abandoned
  PROVE  OnlyAbandonedAnswersStray'
<1>1. SUFFICES ASSUME NEW a \in answers'
               PROVE  a.got \in {a.call, Panic} \cup abandoned'
  BY DEF OnlyAbandonedAnswersStray, Panic
<1>2. CASE a \in answers
  BY <1>2 DEF OnlyAbandonedAnswersStray
<1>3. CASE a = [call |-> Call(c), got |-> got]
  BY <1>3
<1> QED BY <1>1, <1>2, <1>3 DEF Ended

\* Every step keeps the answers with their calls.
LEMMA OwnStepwise == PipeInv /\ OwnInv /\ [PNext]_vars => OwnInv'
<1> SUFFICES ASSUME PipeInv, OwnInv, [PNext]_vars
             PROVE  OwnInv'
  OBVIOUS
<1> USE PipeAssumption
<1> USE DEF OwnInv, Belongs, Drained, Expected, Waiting, Call, PipeInv, PipeTypes, OnlyHolderExchanges,
            Exchanging, InStep, Reading, Asked, Phases
<1>1. ASSUME NEW c \in Clients, Enter(c)  PROVE OwnInv'
  BY <1>1 DEF Enter, helper, OnlyAbandonedAnswersStray, Panic
<1>2. ASSUME NEW c \in Clients, Fail(c)  PROVE OwnInv'
  BY <1>2, EndedInOrder DEF Fail, helper
<1>3. ASSUME NEW c \in Clients, Lock(c)  PROVE OwnInv'
  BY <1>3 DEF Lock, helper, OnlyAbandonedAnswersStray
<1>4. ASSUME NEW c \in Clients, Send(c)  PROVE OwnInv'
  <2> DEFINE f == [op |-> "run", call |-> Call(c), asks |-> overriding[c]]
  <2>1. mutex = c /\ toServer = << >> /\ toClient = << >> /\ ~closed /\ server # "rendering"
    BY <1>4 DEF Send, Broken
  <2>2. f \in Requests /\ f.call = Call(c)
    BY DEF Requests, Calls
  <2>3. toServer' # << >> /\ Head(toServer') = f
    <3>1. toServer' = Append(toServer, f)
      BY <1>4 DEF Send
    <3> HIDE DEF f
    <3> QED BY <2>1, <2>2, <3>1, WriteToEmpty
  <2> HIDE DEF f
  <2> QED BY <1>4, <2>1, <2>2, <2>3 DEF Send, helper, OnlyAbandonedAnswersStray
<1>5. ASSUME NEW c \in Clients, SendBroken(c)  PROVE OwnInv'
  BY <1>5, EndedInOrder DEF SendBroken, Leave, Broken, helper
<1>6. ASSUME NEW c \in Clients, ReadAnswer(c)  PROVE OwnInv'
  <2>1. mutex = c /\ ~closed /\ toServer = << >> /\ toClient' = << >>
    BY <1>6, ReadTheOne DEF ReadAnswer
  <2>2. server' \notin {"rendering", "waiting"}
    BY <1>6 DEF ReadAnswer, helper
  <2>3. Head(toClient).call \in {Call(c)} \cup abandoned
    BY <1>6, <2>1 DEF ReadAnswer
  <2>4. OnlyAbandonedAnswersStray'
    BY <1>6, <2>3, EndedInOrder DEF ReadAnswer, Leave
  <2> QED BY <1>6, <2>1, <2>2, <2>4 DEF ReadAnswer, Leave
<1>7. ASSUME NEW c \in Clients, ReadEnd(c)  PROVE OwnInv'
  BY <1>7, EndedInOrder DEF ReadEnd, Leave, helper
<1>8. ASSUME NEW c \in Clients, ReadQuestion(c)  PROVE OwnInv'
  <2>1. mutex = c /\ ~closed /\ toServer = << >> /\ toClient' = << >>
    BY <1>8, ReadTheOne DEF ReadQuestion
  <2> QED BY <1>8, <2>1 DEF ReadQuestion, helper, OnlyAbandonedAnswersStray
<1>9. ASSUME NEW c \in Clients, Reply(c)  PROVE OwnInv'
  <2> DEFINE f == [op |-> "reply", call |-> Call(c), asks |-> FALSE]
  <2>1. mutex = c /\ toServer = << >> /\ toClient = << >> /\ ~closed /\ server = "waiting"
    BY <1>9 DEF Reply, Broken
  <2>2. f \in Requests /\ f.call = Call(c)
    BY DEF Requests, Calls
  <2>3. toServer' # << >> /\ Head(toServer') = f
    <3>1. toServer' = Append(toServer, f)
      BY <1>9 DEF Reply
    <3> HIDE DEF f
    <3> QED BY <2>1, <2>2, <3>1, WriteToEmpty
  <2> HIDE DEF f
  <2> QED BY <1>9, <2>1, <2>2, <2>3 DEF Reply, helper, OnlyAbandonedAnswersStray
<1>10. ASSUME NEW c \in Clients, ReplyBroken(c)  PROVE OwnInv'
  BY <1>10, EndedInOrder DEF ReplyBroken, Leave, Broken, helper
<1>11. ASSUME NEW c \in Clients, CallbackPanics(c)  PROVE OwnInv'
  <2>1. OnlyAbandonedAnswersStray'
    BY <1>11, EndedInOrder DEF CallbackPanics, Leave
  <2> QED BY <1>11, <2>1 DEF CallbackPanics, Leave, helper
<1>12. ASSUME NEW c \in Clients, CallbackReenters(c)  PROVE OwnInv'
  BY <1>12 DEF CallbackReenters, helper, OnlyAbandonedAnswersStray
<1>13. ASSUME NEW c \in Clients, Shutdown(c)  PROVE OwnInv'
  BY <1>13 DEF Shutdown, helper, OnlyAbandonedAnswersStray
<1>14. ASSUME NEW c \in Clients, Waited(c)  PROVE OwnInv'
  BY <1>14 DEF Waited, helper, OnlyAbandonedAnswersStray
<1>15. CASE ReadRequest
  <2>1. ~closed /\ toServer # << >> /\ toClient = << >> /\ toServer' = << >>
    BY <1>15, ReadTheOne DEF ReadRequest
  <2> QED BY <1>15, <2>1 DEF ReadRequest, client, OnlyAbandonedAnswersStray
<1>16. CASE Ask
  <2> DEFINE f == [status |-> "need_ref", call |-> job]
  <2>1. f \in Responses /\ f.status = "need_ref" /\ f.call = job
    BY DEF Responses
  <2>2. toClient' = Append(toClient, f)
    BY <1>16 DEF Ask
  <2> HIDE DEF f
  <2>3. ~closed => toClient' # << >> /\ Head(toClient') = f
    BY <1>16, <2>1, <2>2, WriteToEmpty DEF Ask
  <2> QED BY <1>16, <2>1, <2>3 DEF Ask, client, OnlyAbandonedAnswersStray
<1>17. CASE Resume
  <2>1. toServer # << >> /\ Len(toServer) <= 1 => toServer' = << >>
    BY <1>17, ReadTheOne DEF Resume
  <2> QED BY <1>17, <2>1 DEF Resume, client, OnlyAbandonedAnswersStray
<1>18. CASE ResumeAtEnd
  BY <1>18 DEF ResumeAtEnd, client, OnlyAbandonedAnswersStray
<1>19. CASE Respond
  <2> SUFFICES ASSUME NEW status \in {"result", "panic"},
                      toClient' = Append(toClient, [status |-> status, call |-> job])
               PROVE  OwnInv'
    BY <1>19 DEF Respond
  <2> DEFINE f == [status |-> status, call |-> job]
  <2>1. f \in Responses /\ f.call = job
    BY DEF Responses
  <2>2. toClient' = Append(toClient, f)
    OBVIOUS
  <2> HIDE DEF f
  <2>3. ~closed => toClient' # << >> /\ Head(toClient') = f
    BY <1>19, <2>1, <2>2, WriteToEmpty DEF Respond
  <2> QED BY <1>19, <2>1, <2>3 DEF Respond, client, OnlyAbandonedAnswersStray
<1>20. CASE ReadEndOfInput
  BY <1>20 DEF ReadEndOfInput, client, OnlyAbandonedAnswersStray
<1>21. CASE Crash
  BY <1>21 DEF Crash, client, OnlyAbandonedAnswersStray
<1>22. CASE UNCHANGED vars
  BY <1>22 DEF vars, client, helper, OnlyAbandonedAnswersStray
<1> QED
  BY <1>1, <1>2, <1>3, <1>4, <1>5, <1>6, <1>7, <1>8, <1>9, <1>10, <1>11, <1>12, <1>13, <1>14,
     <1>15, <1>16, <1>17, <1>18, <1>19, <1>20, <1>21, <1>22
     DEF PNext, ClientStep, HelperStep

\* OnlyAbandonedAnswersStray for every set of clients: without a name on any
\* frame, a call still gets its own document or a panic, except behind a call
\* whose callback panicked, and then it gets the answer to such a call.
THEOREM AnswersFindTheirCalls == PSpec => []OnlyAbandonedAnswersStray
<1>1. OwnInv => OnlyAbandonedAnswersStray
  BY DEF OwnInv
<1> QED
  BY <1>1, PipeInitially, PipeStepwise, OwnInitially, OwnStepwise, PTL DEF PSpec

-----------------------------------------------------------------------------
(***************************************************************************)
(* The service the callers see.  A call is being served while its client   *)
(* holds serveMu; everything the helper does is a stutter.                 *)
(***************************************************************************)
LEMMA ServiceInitially == PInit => Service!SInit
  BY DEF PInit, Service!SInit

\* Every step is one of the service, none, or comes after a callback's panic.
LEMMA ServiceStepwise ==
  PipeInv /\ OwnInv /\ [PNext]_vars => [Service!SNext \/ Service!Breaks]_(Service!svars)
<1> SUFFICES ASSUME PipeInv, OwnInv, PNext, abandoned' = {}
             PROVE  Service!SNext \/ UNCHANGED Service!svars
  BY DEF Service!Breaks, Service!svars, vars, client
<1> DEFINE ServiceStep == Service!SNext \/ UNCHANGED Service!svars
<1> USE DEF Service!SNext, Service!svars
<1>1. abandoned = {}
  BY DEF PNext, ClientStep, HelperStep, Enter, Fail, Lock, Send, SendBroken, ReadAnswer, ReadEnd,
         ReadQuestion, Reply, ReplyBroken, CallbackPanics, CallbackReenters, Shutdown, Waited,
         ReadRequest, Ask, Resume, ResumeAtEnd, Respond, ReadEndOfInput, Crash
<1>2. ASSUME NEW c \in Clients, Leave(c, Panic) \/ Leave(c, Call(c)), mutex = c
      PROVE  Service!Answer(c)
  BY <1>1, <1>2 DEF Leave, Ended, Service!Answer, Service!Call, Service!Panic, Call, Panic
<1>3. ASSUME NEW c \in Clients, phase[c] \in Exchanging
      PROVE  mutex = c
  BY <1>3 DEF PipeInv, OnlyHolderExchanges
<1>4. ASSUME NEW c \in Clients, Enter(c)  PROVE Service!Enter(c)
  BY <1>1, <1>4 DEF Enter, Service!Enter
<1>5. ASSUME NEW c \in Clients, Fail(c)  PROVE Service!Fail(c)
  BY <1>1, <1>5 DEF Fail, Ended, Service!Fail, Service!Call, Service!Panic, Call, Panic
<1>6. ASSUME NEW c \in Clients, Lock(c) \/ Shutdown(c)  PROVE Service!Serve(c)
  BY <1>1, <1>6 DEF Lock, Shutdown, Service!Serve
<1>7. ASSUME NEW c \in Clients, SendBroken(c) \/ ReadEnd(c) \/ ReplyBroken(c)
      PROVE  Service!Answer(c)
  BY <1>2, <1>3, <1>7 DEF SendBroken, ReadEnd, ReplyBroken, Exchanging
<1>8. ASSUME NEW c \in Clients, ReadAnswer(c)  PROVE Service!Answer(c)
  <2>1. mutex = c /\ ~closed
    BY <1>3, <1>8 DEF ReadAnswer, Exchanging, OwnInv, Drained
  <2>2. Head(toClient).call = Call(c)
    BY <1>1, <1>8, <2>1 DEF ReadAnswer, OwnInv, Belongs, Expected
  <2> QED BY <1>2, <1>8, <2>1, <2>2 DEF ReadAnswer
<1>9. ASSUME NEW c \in Clients, Waited(c)  PROVE Service!Release(c)
  BY <1>1, <1>3, <1>9 DEF Waited, Exchanging, Service!Release
<1>10. ASSUME NEW c \in Clients, CallbackPanics(c)  PROVE FALSE
  BY <1>10 DEF CallbackPanics
<1>11. ASSUME NEW c \in Clients,
              Send(c) \/ ReadQuestion(c) \/ Reply(c) \/ CallbackReenters(c)
       PROVE  UNCHANGED Service!svars
  BY <1>11 DEF Send, ReadQuestion, Reply, CallbackReenters
<1>12. HelperStep => UNCHANGED Service!svars
  BY DEF HelperStep, ReadRequest, Ask, Resume, ResumeAtEnd, Respond, ReadEndOfInput, Crash, client
<1> QED
  BY <1>4, <1>5, <1>6, <1>7, <1>8, <1>9, <1>10, <1>11, <1>12 DEF PNext, ClientStep

\* The pipe implements RenderService for every set of clients: calls are served
\* one at a time and each ends with its own answer or a panic, wherever the
\* helper dies or the pipe is shut down, until a callback panics.
THEOREM PipeServes == PSpec => ServiceSpec
<1>1. PipeInv /\ OwnInv /\ [PNext]_vars => [Service!SNext \/ Service!Breaks]_(Service!svars)
  BY ServiceStepwise
<1>2. PSpec => [](PipeInv /\ OwnInv)
  BY PipeInitially, PipeStepwise, OwnInitially, OwnStepwise, PTL DEF PSpec
<1> QED
  BY <1>1, <1>2, ServiceInitially, PTL DEF PSpec, ServiceSpec, Service!ServiceSpec

=============================================================================
