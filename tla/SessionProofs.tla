----------------------------- MODULE SessionProofs -----------------------------
(***************************************************************************)
(* Theorems about Session for all values of the constants: it uses the     *)
(* runner as Runner specifies, so that what is proved of a runner under    *)
(* any user holds under it; its event channel is a relay of the agent      *)
(* messages; and what a returned Close leaves behind and keeps quiet.      *)
(***************************************************************************)
EXTENDS SessionProperties, RunnerProofs

\* What a step of the session does to the runner.
LEMMA SessionSimulates == [SessionNext]_allVars => [RunnerNext]_vars
<1> SUFFICES ASSUME [SessionNext]_allVars PROVE [RunnerNext]_vars
  OBVIOUS
<1>1. CASE RunnerStep
  BY <1>1 DEF RunnerStep, RunnerNext
<1>2. CASE NewSession
  <2>1. CASE HandshakeBegin
    BY <2>1, SessionAssumption DEF HandshakeBegin, RunnerNext, User
  <2> QED
    BY <1>2, <2>1
    DEF NewSession, StartFails, HandshakeFails, HandshakeDone, WaitTest, WaitDone,
        WaitRunDone, WaitCancelled, SetupFailed, RunnerNext, User
<1>3. CASE Tee \/ EventTake
  BY <1>3 DEF Tee, TeeTake, TeeSend, TeeStop, TeeEnd, EventTake, RunnerNext, User
<1>4. ASSUME NEW c \in Methods, MethodStart(c)
      PROVE  [RunnerNext]_vars
  BY <1>4 DEF MethodStart
<1>5. ASSUME NEW c \in Methods \cup {EndCall}, MethodGoes(c)
      PROVE  [RunnerNext]_vars
  <2>1. c \in Calls
    BY SessionAssumption DEF Methods
  <2>2. CASE MethodRegister(c)
    BY <2>1, <2>2 DEF MethodRegister, RunnerNext, User
  <2> QED
    BY <1>5, <2>2 DEF MethodGoes, MethodResult, MethodTimeout, MethodClosed, MethodReturns
<1>6. ASSUME NEW p \in Prompts, SendLock(p) \/ SendWrite(p) \/ SendFails(p)
      PROVE  [RunnerNext]_vars
  BY <1>6 DEF SendLock, SendWrite, SendFails, RunnerNext, User
<1>7. CASE CloseStart \/ CloseShutdown \/ CloseDone
  BY <1>7 DEF CloseStart, CloseShutdown, CloseDone, RunnerNext, User
<1>8. CASE UNCHANGED allVars
  BY <1>8 DEF allVars
<1> QED
  BY <1>1, <1>2, <1>3, <1>4, <1>5, <1>6, <1>7, <1>8 DEF SessionNext

\* Every behaviour of a session is, seen from its runner, one of Runner.
THEOREM SessionKeepsRunnerRules == SessionSpec => RunnerSpec
<1>1. SessionInit => RunnerInit
  BY DEF SessionInit
<1> QED
  BY <1>1, SessionSimulates, PTL DEF SessionSpec, RunnerSpec

-----------------------------------------------------------------------------
(* Close. *)

\* Close, and a NewSession that failed, return when their shutdown has.
ReturnInv == ending = "closed" \/ setup = "error" => closer["user"] = "done"

LEMMA ReturnStep ==
  RunnerTypeOK /\ ReturnInv /\ [SessionNext]_allVars => ReturnInv'
<1> SUFFICES ASSUME RunnerTypeOK, ReturnInv, [SessionNext]_allVars PROVE ReturnInv'
  OBVIOUS
<1>1. closer["user"] = "done" => closer'["user"] = "done"
  BY SessionSimulates, ShutdownStaysDone
<1>2. CASE UNCHANGED <<ending, setup>>
  BY <1>1, <1>2 DEF ReturnInv
<1>3. CASE SetupFailed \/ CloseDone
  BY <1>3 DEF SetupFailed, CloseDone, ReturnInv, vars, rvars
<1>4. CASE NewSession /\ ~SetupFailed
  BY <1>1, <1>4
  DEF NewSession, StartFails, HandshakeBegin, HandshakeFails, HandshakeDone, WaitTest,
      WaitDone, WaitRunDone, WaitCancelled, ReturnInv
<1>5. CASE CloseStart \/ CloseShutdown
  BY <1>1, <1>5 DEF CloseStart, CloseShutdown, ReturnInv
<1> QED
  BY <1>2, <1>3, <1>4, <1>5
  DEF SessionNext, RunnerStep, Tee, TeeTake, TeeSend, TeeStop, TeeEnd, EventTake,
      MethodStart, MethodGoes, MethodRegister, MethodResult, MethodTimeout, MethodClosed,
      MethodReturns, SendLock, SendWrite, SendFails, allVars, svars

LEMMA ReturnHolds == SessionSpec => []ReturnInv
<1>1. SessionInit => ReturnInv
  BY DEF SessionInit, ReturnInv
<1> QED
  BY <1>1, ReturnStep, SessionKeepsRunnerRules, RunnerTypeCorrect, PTL DEF SessionSpec

\* When Close has returned, or NewSession with an error after its shutdown, the
\* child is reaped and the auth payload gone, for any number of control methods
\* and prompts under way.
THEOREM CloseImpliesReaped == SessionSpec => []ClosedMeansReaped
<1>1. ReturnInv /\ ShutdownReturnsAfterReap => ClosedMeansReaped
  BY DEF ReturnInv, ShutdownReturnsAfterReap, ClosedMeansReaped, Closers
<1> QED
  BY <1>1, ReturnHolds, SessionKeepsRunnerRules, ShutdownImpliesReaped, PTL

\* Nothing is written to the CLI's stdin after Close has returned, by whichever
\* goroutine that a control method left behind.
THEOREM QuietOnceClosed == SessionSpec => QuietAfterClose
<1>1. LifeCycle /\ OnceInv /\ ReturnInv /\ [SessionNext]_allVars
        => [ending = "closed" => wrote' = wrote]_allVars
  <2> SUFFICES ASSUME LifeCycle, OnceInv, ReturnInv, [SessionNext]_allVars,
                      ending = "closed"
               PROVE  wrote' = wrote
    OBVIOUS
  <2>1. closed
    BY DEF ReturnInv, OnceInv, LifeCycle, Closers
  <2>2. [TransportNext]_tvars
    BY SessionSimulates, StepSimulates
  <2> QED
    BY <2>1, <2>2
    DEF TransportNext, tvars, Initialize, LaunchRefused, WritePayload, SpawnFails, Spawn,
        CliEmit, Cli, CliHear, CliExit, ContextKill, Reader, ReaderScan, ReaderPush,
        ReaderEOF, CloseProgress, CloseInterrupt, CloseKill, Reap, CloseFinish, CloseBegin,
        Receive, WriteAccepted, CancelContext, inVars
<1>2. RunnerSpec => []OnceInv
  <2>1. RunnerInit => OnceInv
    BY DEF RunnerInit, OnceInv, Closers
  <2> QED
    BY <2>1, OnceStep, TransportFacts, PTL DEF RunnerSpec
<1> QED
  BY <1>1, <1>2, ReturnHolds, SessionKeepsRunnerRules, TransportFacts, PTL
  DEF SessionSpec, QuietAfterClose

-----------------------------------------------------------------------------
(* The event stream: what the tee takes is, by the theorem about every relay, *)
(* the oldest message it has not handed on.                                   *)

\* r.out as a relay, with the theorem about relays.
Upstream == INSTANCE RelayProofs WITH
  offered <- {k \in 1 .. Len(emitted) : Forwarded(emitted[k])},
  delivered <- out,
  ended <- OutClosed

LEMMA OutIsPrefix == RunnerSpec => []Upstream!Prefix
BY RunnerRelays, Upstream!RelayHandsPrefix, PTL
DEF LoopIsRelay, Stream!RelaySpec, Upstream!RelaySpec, Stream!RelayInit, Upstream!RelayInit,
    Stream!Offer, Upstream!Offer, Stream!Deliver, Upstream!Deliver, Stream!Handed,
    Upstream!Handed, Stream!Cut, Upstream!Cut, Stream!relayVars, Upstream!relayVars

-----------------------------------------------------------------------------
\* s.events is r.out as far as the tee has come.
TeeInv ==
  /\ tee \in {"off", "recv", "send", "done"}
  /\ setup \in {"start", "handshake"} => tee = "off"
  /\ Len(events) \in Nat /\ Len(events) <= Len(out)
  /\ tee # "done" => nout = IF tee = "send" THEN Len(events) + 1 ELSE Len(events)
  /\ \A i \in 1 .. Len(events) : events[i] = out[i]

\* r.out grows at its end, and only the tee takes from it.
LEMMA OutGrows ==
  ASSUME RunnerTypeInv, RunnerTypeInv', [RunnerNext]_vars
  PROVE  /\ Len(out) \in Nat /\ Len(out') \in Nat /\ Len(out) <= Len(out')
         /\ \A i \in 1 .. Len(out) : out'[i] = out[i]
<1>1. out \in Seq(1 .. nread) /\ out' \in Seq(1 .. nread')
  BY DEF RunnerTypeInv, RunnerTypeOK
<1>2. CASE out' = out
  BY <1>1, <1>2, LenProperties
<1>3. CASE LoopForward
  <2>1. out' = Append(out, msgs[ntaken]) /\ msgs[ntaken] \in 1 .. nread
    BY <1>3, CurrentTyped DEF LoopForward
  <2> QED
    BY <1>1, <2>1, LogAppend, LenProperties
<1> QED
  BY <1>2, <1>3, StreamSteps
  DEF Aside, LoopStart, LoopReceive, LoopEnd, Dispatch, DispatchForward, DispatchResponse,
      DispatchRequest, DispatchCancel, LoopDeliver, LoopCloseOut, LoopCloseRunDone

LEMMA OnlyTeeConsumes == [SessionNext]_allVars => nout' = nout \/ TeeTake
<1> SUFFICES ASSUME [SessionNext]_allVars, ~TeeTake PROVE nout' = nout
  OBVIOUS
<1>1. CASE RunnerStep
  BY <1>1
  DEF RunnerStep, RunnerCore, RunnerOwn, rvars, Below, BelowSdk, AnyCli, Loop, LoopStart,
      LoopReceive, LoopEnd, Dispatch, DispatchForward, DispatchResponse, DispatchRequest,
      DispatchCancel, LoopForward, LoopDeliver, LoopCloseOut, LoopCloseRunDone, CallStep,
      CallWrite, CallWriteFails, CallReply, CallCancelled, CallEnded, Return, HandlerStep,
      HandlerDecide, AnswerWritten, AnswerDropped, CallbackReturns, ShutdownTransport,
      ShutdownStep, ShutdownEnter, ShutdownLeave, ShutdownJoin
<1>2. CASE NewSession
  BY <1>2
  DEF NewSession, StartFails, HandshakeBegin, HandshakeFails, HandshakeDone, WaitTest,
      WaitDone, WaitRunDone, WaitCancelled, SetupFailed, CallRegister, UserShutdown, vars,
      rvars
<1>3. CASE Tee \/ EventTake
  BY <1>3 DEF Tee, TeeSend, TeeStop, TeeEnd, EventTake, vars, rvars
<1> QED
  BY <1>1, <1>2, <1>3
  DEF SessionNext, MethodStart, MethodGoes, MethodRegister, MethodResult, MethodTimeout,
      MethodClosed, MethodReturns, SendLock, SendWrite, SendFails, PromptWrite, CloseStart,
      CloseShutdown, CloseDone, CallRegister, UserShutdown, allVars, vars, rvars

\* The steps that do not concern the tee.
TeeAside ==
  /\ UNCHANGED <<tee, events, nout>>
  /\ setup' \in {"start", "handshake"} => setup \in {"start", "handshake"}

LEMMA TeeSteps ==
  [SessionNext]_allVars =>
    TeeAside \/ TeeTake \/ TeeSend \/ TeeStop \/ TeeEnd \/ HandshakeDone
<1> SUFFICES ASSUME [SessionNext]_allVars, ~TeeTake, ~TeeSend, ~TeeStop, ~TeeEnd,
                    ~HandshakeDone
             PROVE  TeeAside
  OBVIOUS
<1> USE OnlyTeeConsumes DEF TeeAside
<1>1. CASE NewSession
  BY <1>1
  DEF NewSession, StartFails, HandshakeBegin, HandshakeFails, WaitTest, WaitDone,
      WaitRunDone, WaitCancelled, SetupFailed, teeVars
<1> QED
  BY <1>1
  DEF SessionNext, RunnerStep, Tee, EventTake, MethodStart, MethodGoes, MethodRegister,
      MethodResult, MethodTimeout, MethodClosed, MethodReturns, SendLock, SendWrite,
      SendFails, CloseStart, CloseShutdown, CloseDone, allVars, svars, teeVars

LEMMA TeeStep ==
  RunnerTypeInv /\ RunnerTypeInv' /\ TeeInv /\ [SessionNext]_allVars => TeeInv'
<1> SUFFICES ASSUME RunnerTypeInv, RunnerTypeInv', TeeInv, [SessionNext]_allVars
             PROVE  TeeInv'
  OBVIOUS
<1>1. /\ Len(out) \in Nat /\ Len(out') \in Nat /\ Len(out) <= Len(out')
      /\ \A i \in 1 .. Len(out) : out'[i] = out[i]
      /\ nout \in 0 .. Len(out)
  BY SessionSimulates, OutGrows DEF RunnerTypeInv, RunnerTypeOK
<1> USE DEF TeeInv
<1>2. CASE TeeAside
  BY <1>1, <1>2 DEF TeeAside
<1>3. CASE TeeTake
  BY <1>1, <1>3 DEF TeeTake, Consume
<1>4. CASE TeeSend
  <2>1. nout = Len(events) + 1 /\ nout' = nout /\ out' = out /\ tee' = "recv"
        /\ setup' = setup /\ tee = "send" /\ events' = Append(events, out[nout])
    BY <1>4 DEF TeeSend, vars, rvars
  <2> QED
    BY <1>1, <2>1
<1>5. CASE TeeStop \/ TeeEnd
  BY <1>1, <1>5 DEF TeeStop, TeeEnd, vars, rvars
<1>6. CASE HandshakeDone
  BY <1>1, <1>6 DEF HandshakeDone, vars, rvars
<1> QED
  BY <1>2, <1>3, <1>4, <1>5, <1>6, TeeSteps

-----------------------------------------------------------------------------
(* The tee as a relay. *)

TeeFlow == RunnerTypeInv /\ TeeInv /\ Upstream!Prefix

LEMMA TeeFlowHolds == SessionSpec => []TeeFlow
<1>1. SessionInit => TeeInv
  <2> SUFFICES ASSUME SessionInit PROVE TeeInv
    OBVIOUS
  <2>1. Len(events) = 0 /\ Len(out) = 0
    BY EmptySeq DEF SessionInit, RunnerInit
  <2> QED
    BY <2>1 DEF SessionInit, RunnerInit, TeeInv
<1>2. SessionSpec => []RunnerTypeInv /\ []Upstream!Prefix
  BY SessionKeepsRunnerRules, RunnerTypeInvHolds, OutIsPrefix, PTL
<1> QED
  BY <1>1, <1>2, TeeStep, PTL DEF SessionSpec, TeeFlow

\* The message the tee has in hand is the oldest one not on s.events.
LEMMA TeeDelivers == TeeFlow /\ TeeSend => EndToEnd!Deliver
<1> SUFFICES ASSUME TeeFlow, TeeSend PROVE EndToEnd!Deliver
  OBVIOUS
<1> DEFINE Lines == {k \in 1 .. Len(emitted) : Forwarded(emitted[k])}
<1> DEFINE On == {events[i] : i \in 1 .. Len(events)}
<1>1. /\ tee = "send" /\ events' = Append(events, out[nout]) /\ tee' = "recv"
      /\ emitted' = emitted
      /\ nout = Len(events) + 1 /\ nout \in 0 .. Len(out) /\ Len(events) \in Nat
      /\ \A i \in 1 .. Len(events) : events[i] = out[i]
  BY DEF TeeSend, TeeFlow, TeeInv, RunnerTypeInv, RunnerTypeOK, vars, tvars
<1>2. /\ Lines \subseteq Nat /\ Len(out) \in Nat
      /\ \A i \in 1 .. Len(out) : out[i] \in Lines
      /\ \A i, j \in 1 .. Len(out) : i < j => out[i] < out[j]
      /\ \A k \in Lines :
           (\E i \in 1 .. Len(out) : k < out[i]) => \E i \in 1 .. Len(out) : out[i] = k
  BY ElementOfSeq, LenProperties DEF TeeFlow, Upstream!Prefix, Upstream!Handed
<1>3. nout \in 1 .. Len(out) /\ out[nout] \in Lines
  BY <1>1, <1>2
<1>4. out[nout] \notin On
  <2> SUFFICES ASSUME NEW i \in 1 .. Len(events), events[i] = out[nout] PROVE FALSE
    OBVIOUS
  <2>1. i \in 1 .. Len(out) /\ i < nout /\ out[i] = out[nout]
    BY <1>1, <1>3
  <2>2. out[i] < out[nout]
    BY <1>2, <1>3, <2>1
  <2>3. out[nout] \in Nat
    BY <1>2, <1>3
  <2> QED
    BY <2>1, <2>2, <2>3
<1>5. ASSUME NEW other \in Lines \ On
      PROVE  out[nout] <= other
  <2> SUFFICES ASSUME other < out[nout] PROVE FALSE
    BY <1>2, <1>3
  <2>1. PICK j \in 1 .. Len(out) : out[j] = other
    BY <1>2, <1>3
  <2>2. j < nout
    <3>1. nout < j => out[nout] < other
      BY <1>2, <1>3, <2>1
    <3> QED
      BY <1>2, <1>3, <2>1, <3>1
  <2>3. j \in 1 .. Len(events) /\ events[j] = other
    BY <1>1, <2>1, <2>2
  <2> QED
    BY <2>3
<1>6. Lines' = Lines /\ (tee = "done")' = (tee = "done") /\ tee # "done"
  BY <1>1
<1> QED
  BY <1>1, <1>3, <1>4, <1>5, <1>6 DEF EndToEnd!Deliver, EndToEnd!Handed

LEMMA EndToEndStep ==
  TeeFlow /\ TeeFlow' /\ [SessionNext]_allVars
    => [EndToEnd!Offer \/ EndToEnd!Deliver \/ EndToEnd!Cut]_(EndToEnd!relayVars)
<1> SUFFICES ASSUME TeeFlow, TeeFlow', [SessionNext]_allVars
             PROVE  [EndToEnd!Offer \/ EndToEnd!Deliver \/ EndToEnd!Cut]_(EndToEnd!relayVars)
  OBVIOUS
<1>1. CASE UNCHANGED <<events, tee = "done">>
  <2>1. [TransportNext]_tvars /\ TransportTypeOK /\ TransportTypeOK'
    BY SessionSimulates, StepSimulates DEF TeeFlow, RunnerTypeInv, RunnerTypeOK
  <2> QED
    BY <1>1, <2>1, LogsGrow DEF EndToEnd!Offer
<1>2. CASE TeeSend
  BY <1>2, TeeDelivers
<1>3. CASE TeeStop \/ TeeEnd
  BY <1>3 DEF TeeStop, TeeEnd, EndToEnd!Cut, vars, tvars
<1>4. CASE TeeAside \/ TeeTake \/ HandshakeDone
  BY <1>1, <1>4 DEF TeeAside, TeeTake, HandshakeDone, TeeFlow, TeeInv
<1> QED
  BY <1>2, <1>3, <1>4, TeeSteps

\* From the CLI's stdout to s.events, through three goroutines and three
\* channels, the session implements a relay of the agent messages, whenever
\* Close comes and however slowly the events are read.
THEOREM SessionRelays == SessionSpec => StreamIsRelay
<1>1. SessionInit => EndToEnd!RelayInit
  <2> SUFFICES ASSUME SessionInit PROVE EndToEnd!RelayInit
    OBVIOUS
  <2>1. Len(emitted) = 0
    BY EmptySeq DEF SessionInit, RunnerInit, TransportInit
  <2> QED
    BY <2>1 DEF SessionInit, EndToEnd!RelayInit
<1> QED
  BY <1>1, EndToEndStep, TeeFlowHolds, PTL DEF SessionSpec, StreamIsRelay, EndToEnd!RelaySpec

-----------------------------------------------------------------------------
LEMMA SessionTypeStep ==
  TeeFlow /\ TeeFlow' /\ SessionTypeOK /\ [SessionNext]_allVars => SessionTypeOK'
<1> SUFFICES ASSUME TeeFlow, TeeFlow', SessionTypeOK, [SessionNext]_allVars
             PROVE  SessionTypeOK'
  OBVIOUS
<1>1. /\ call \in [Calls -> {"idle", "write", "wait", "ok", "error"}]
      /\ out \in Seq(1 .. nread) /\ nout \in 0 .. Len(out)
  BY DEF TeeFlow, RunnerTypeInv, RunnerTypeOK
<1>2. events \in Seq(1 .. nread')
  <2>1. [TransportNext]_tvars /\ RunnerTypeOK /\ TransportTypeOK'
    BY SessionSimulates, StepSimulates DEF TeeFlow, RunnerTypeInv, RunnerTypeOK
  <2>2. nread <= nread' /\ nread \in Nat /\ nread' \in Nat
    BY <2>1, PositionsWiden
  <2> QED
    BY <2>2, LogWiden DEF SessionTypeOK
<1>3. Methods \cup {EndCall} \subseteq Calls /\ Calls \ {InitCall} = Methods \cup {EndCall}
  BY SessionAssumption DEF Methods
<1> USE DEF SessionTypeOK, teeVars
<1>4. CASE NewSession
  BY <1>2, <1>4
  DEF NewSession, StartFails, HandshakeBegin, HandshakeFails, HandshakeDone, WaitTest,
      WaitDone, WaitRunDone, WaitCancelled, SetupFailed
<1>5. CASE TeeSend
  <2>1. out[nout] \in 1 .. nread /\ nread' = nread
    <3>1. nout \in 1 .. Len(out)
      BY <1>1, <1>5 DEF TeeSend, TeeFlow, TeeInv
    <3>2. nread' = nread
      BY <1>5 DEF TeeSend, vars, tvars
    <3> QED
      BY <1>1, <3>1, <3>2, ElementOfSeq
  <2> QED
    BY <1>2, <1>5, <2>1, LogAppend DEF TeeSend
<1>6. CASE TeeTake \/ TeeStop \/ TeeEnd \/ EventTake
  BY <1>2, <1>6 DEF TeeTake, TeeStop, TeeEnd, EventTake
<1>7. ASSUME NEW c \in Methods, MethodStart(c)
      PROVE  SessionTypeOK'
  BY <1>2, <1>7 DEF MethodStart
<1>8. ASSUME NEW c \in Methods \cup {EndCall}, MethodGoes(c)
      PROVE  SessionTypeOK'
  BY <1>1, <1>2, <1>3, <1>8
  DEF MethodGoes, MethodRegister, MethodResult, MethodTimeout, MethodClosed, MethodReturns,
      CallOver, svars
<1>9. ASSUME NEW p \in Prompts, SendLock(p) \/ SendWrite(p) \/ SendFails(p)
      PROVE  SessionTypeOK'
  BY <1>2, <1>9 DEF SendLock, SendWrite, SendFails
<1>10. CASE CloseStart \/ CloseShutdown \/ CloseDone
  BY <1>2, <1>3, <1>10 DEF CloseStart, CloseShutdown, CloseDone
<1>11. CASE RunnerStep \/ UNCHANGED allVars
  BY <1>2, <1>11 DEF RunnerStep, svars, allVars
<1> QED
  BY <1>4, <1>5, <1>6, <1>7, <1>8, <1>9, <1>10, <1>11 DEF SessionNext, Tee

\* The fields of a session always hold values of their kind.
THEOREM SessionTypeCorrect == SessionSpec => []SessionTypeOK
<1>1. SessionInit => SessionTypeOK
  <2> SUFFICES ASSUME SessionInit PROVE SessionTypeOK
    OBVIOUS
  <2>1. events \in Seq(1 .. nread) /\ Len(events) = 0
    BY EmptySeq DEF SessionInit
  <2> QED
    BY <2>1, SessionAssumption DEF SessionInit, SessionTypeOK, Methods
<1> QED
  BY <1>1, SessionTypeStep, TeeFlowHolds, PTL DEF SessionSpec
==============================================================================
