----------------------------- MODULE Conversation -----------------------------
(***************************************************************************)
(* A host that takes turns with the fake CLI through a Session, as         *)
(* session_test.go does: one goroutine alternates Send and                 *)
(* ReceiveResponse, may call SetModel between turns, and closes the        *)
(* session at the end.  Its context is never cancelled.  ReceiveResponse   *)
(* gives up after its timeout and leaves the events of its turn in the     *)
(* stream, so SetModel and the next Send may find the CLI in that turn.    *)
(***************************************************************************)
EXTENDS FakeCli

CONSTANT MaxTimeouts   \* bound: how many ReceiveResponse calls time out

VARIABLES
  asking,    \* a ReceiveResponse is under way
  asked,     \* turns sent so far, each followed by one ReceiveResponse
  late,      \* how many of those calls timed out
  answers    \* the results returned: the position of each, and asked and late then

hvars == <<asking, asked, late, answers>>
convVars == <<fakeVars, hvars>>

ConvInit ==
  /\ SessionInit /\ FakeInit
  /\ asking = FALSE /\ asked = 0 /\ late = 0 /\ answers = <<>>

-----------------------------------------------------------------------------
(* The goroutine that takes turns. *)

\* Its calls follow one another.
Busy == asking \/ op[SetModel] = "select" \/ \E p \in Prompts : Sending(p)

\* The turns are alike, so it does not matter which prompt is next.
NextPrompt == CHOOSE p \in Prompts : prompt[p] = "idle"

HostSends ==
  /\ ~Busy
  /\ \E p \in Prompts : prompt[p] = "idle"
  /\ SendLock(NextPrompt)
  /\ UNCHANGED <<fvars, hvars>>

\* ReceiveResponse is called when Send has returned.
HostWritten(p) ==
  /\ SendWrite(p)
  /\ asking' = TRUE /\ asked' = asked + 1
  /\ UNCHANGED <<fvars, late, answers>>

\* Mutation: every message ends the call.
ReceiveTakesAny ==
  /\ asking
  /\ EventTake
  /\ asking' = FALSE
  /\ answers' = Append(answers, [at |-> events[nevents + 1], asked |-> asked, late |-> late])
  /\ UNCHANGED <<fvars, asked, late>>

\* One turn of the loop: a result ends the call.
ReceiveTakes ==
  /\ asking
  /\ EventTake
  /\ LET k == events[nevents + 1] IN
       IF emitted[k].kind = "result"
       THEN /\ asking' = FALSE
            /\ answers' = Append(answers, [at |-> k, asked |-> asked, late |-> late])
       ELSE UNCHANGED <<asking, answers>>
  /\ UNCHANGED <<fvars, asked, late>>

ReceiveTimeout ==
  /\ asking /\ late < MaxTimeouts
  /\ asking' = FALSE /\ late' = late + 1
  /\ UNCHANGED <<fakeVars, asked, answers>>

\* The session was closed, or its stream has ended.
ReceiveEnds ==
  /\ asking
  /\ ClosedCh \/ (tee = "done" /\ nevents = Len(events))
  /\ asking' = FALSE
  /\ UNCHANGED <<fakeVars, asked, late, answers>>

Receiving == ReceiveTakes \/ ReceiveEnds

\* Between turns the host may switch the model.
HostSetsModel ==
  /\ ~Busy /\ asked = 1
  /\ MethodStart(SetModel)
  /\ UNCHANGED <<fvars, hvars>>

\* It ends by asking for the results that timed-out calls have left in the
\* stream, and closes the session when no turn is unanswered.
Unanswered == asked - Len(answers)
SendsOver == \A p \in Prompts : prompt[p] \in {"sent", "error"}
HostAsksAgain ==
  /\ ~Busy /\ SendsOver /\ Unanswered > 0 /\ tee # "done"
  /\ asking' = TRUE
  /\ UNCHANGED <<fakeVars, asked, late, answers>>

HostCloses ==
  /\ ~Busy /\ SendsOver /\ (Unanswered = 0 \/ tee = "done")
  /\ CloseStart
  /\ UNCHANGED <<fvars, hvars>>

-----------------------------------------------------------------------------
\* The SDK under the host.
SessionGoes ==
  \/ (Initialize \/ Reader \/ CloseProgress) /\ UNCHANGED <<rvars, svars>>
  \/ RunnerOwn /\ UNCHANGED svars
  \/ NewSession
  \/ Tee
  \/ \E c \in {SetModel, EndCall} : MethodGoes(c)
  \/ \E p \in Prompts : SendFails(p)
  \/ CloseShutdown \/ CloseDone

ConvNext ==
  \/ SessionGoes /\ UNCHANGED <<fvars, hvars>>
  \/ (Fake \/ FakeKilled) /\ UNCHANGED hvars
  \/ HostSends
  \/ \E p \in Prompts : HostWritten(p)
  \/ Receiving
  \/ ReceiveTimeout
  \/ HostSetsModel
  \/ HostAsksAgain
  \/ HostCloses

ConvSpec == ConvInit /\ [][ConvNext]_convVars

\* The SDK's goroutines run, and so do the fake CLI, the host's callbacks and the
\* ReceiveResponse under way.  Its timeout need not fire, nor Close be called.
ConvFairness ==
  /\ TransportFairness
  /\ WF_vars(Loop)
  /\ \A c \in Calls : WF_vars(CallStep(c))
  /\ \A q \in Requests : WF_vars(HandlerStep(q)) /\ WF_vars(CallbackReturns(q))
  /\ \A k \in Closers : WF_vars(ShutdownStep(k))
  /\ WF_vars(ShutdownTransport)
  /\ WF_allVars(NewSession) /\ WF_allVars(Tee)
  /\ \A c \in Calls \ {InitCall} :
       WF_allVars(MethodRegister(c)) /\ WF_allVars(MethodResult(c) \/ MethodClosed(c))
  /\ WF_fakeVars(Fake)
  /\ WF_allVars(\E p \in Prompts : SendWrite(p) \/ SendFails(p))
  /\ WF_convVars(Receiving)

ConvFairSpec == ConvSpec /\ ConvFairness

-----------------------------------------------------------------------------
\* The i-th result that ReceiveResponse returns is that of the i-th turn, for
\* results are neither lost nor reordered on their way.  So it is the one of the
\* turn just sent if no call has timed out before, and otherwise a stale one: as
\* many turns old as calls timed out, never more.
AnswersInTurn ==
  \A i \in 1 .. Len(answers) :
    /\ emitted[answers[i].at].kind = "result"
    /\ emitted[answers[i].at].turn = i
    /\ answers[i].asked - i \in 0 .. answers[i].late

\* A model switched in the stream of stdin holds for every turn written after it
\* and for none before, although the CLI may have had to put the request aside
\* while it waited for the answer to a prompt of its own (SetModel's comment:
\* "the switch applies to subsequent model calls").
TurnOf(j) == Cardinality({i \in 1 .. j : wrote[i] \in Prompts})
ModelFollows ==
  \A i, j \in 1 .. Len(wrote) : wrote[i] = SetModel /\ wrote[j] \in Prompts =>
    \A k \in 1 .. Len(emitted) :
      emitted[k].kind = "event" /\ emitted[k].turn = TurnOf(j) =>
        emitted[k].model \in {"none", IF i < j THEN "chosen" ELSE "efficient"}

\* A turn whose message was accepted is answered, or the session over, although
\* the CLI asks for a permission and a hook in the middle of it and reads its
\* input only for the answers: no two parties wait for each other.
TurnsEnd == asking ~> ~asking

\* The CLI the tests run against is one the other runs consider: seen without
\* its own state, the conversation is a behaviour of Session with any CLI.
FakeIsACli == SessionSpec
==============================================================================
