----------------------------- MODULE RunnerProofs -----------------------------
(***************************************************************************)
(* Theorems about Runner for all values of the constants.  First: it uses  *)
(* the transport as Transport specifies, so that what is proved of a       *)
(* transport under any client holds under it; its type invariant; the      *)
(* exactness of the pending map; and what a returned shutdown has left     *)
(* behind.  Then its event stream: from the CLI's stdout to r.out it is a  *)
(* relay of the agent messages, a one-shot query ends it at its result,    *)
(* and the session id is taken from the first message that has one.        *)
(***************************************************************************)
EXTENDS RunnerProperties, TransportProofs

\* The two ways a step of the runner can touch its transport.
LEMMA BelowSimulates == Below => TransportNext
<1> SUFFICES ASSUME Below PROVE TransportNext
  OBVIOUS
<1>1. CASE \E l \in CliLines : CliSays(l)
  BY <1>1 DEF CliSays, TransportNext
<1> QED
  BY <1>1 DEF Below, BelowSdk, AnyCli, TransportNext

LEMMA StepSimulates == [RunnerNext]_vars => [TransportNext]_tvars
<1> SUFFICES ASSUME [RunnerNext]_vars PROVE [TransportNext]_tvars
  OBVIOUS
<1>1. CASE Below
  BY <1>1, BelowSimulates
<1>2. CASE Loop
  BY <1>2 DEF Loop, LoopStart, LoopReceive, LoopEnd, Dispatch, DispatchForward,
              DispatchResponse, DispatchRequest, DispatchCancel, LoopForward, LoopDeliver,
              LoopCloseOut, LoopCloseRunDone, TransportNext
<1>3. ASSUME NEW c \in Calls, CallStep(c)
      PROVE  [TransportNext]_tvars
  <2>1. c \in Writers
    BY RunnerAssumption
  <2> QED
    BY <1>3, <2>1 DEF CallStep, CallWrite, CallWriteFails, CallReply, CallCancelled,
                      CallEnded, Return, TransportNext
<1>4. ASSUME NEW q \in Requests, HandlerStep(q) \/ CallbackReturns(q)
      PROVE  [TransportNext]_tvars
  <2>1. q \in Writers
    BY RunnerAssumption
  <2> QED
    BY <1>4, <2>1 DEF HandlerStep, HandlerDecide, AnswerWritten, AnswerDropped,
                      CallbackReturns, TransportNext
<1>5. CASE ShutdownTransport
  BY <1>5 DEF ShutdownTransport, TransportNext
<1>6. ASSUME NEW k \in Closers, ShutdownStep(k)
      PROVE  [TransportNext]_tvars
  BY <1>6 DEF ShutdownStep, ShutdownEnter, ShutdownLeave, ShutdownJoin
<1>7. CASE User
  BY <1>7 DEF User, Prompts, PromptWrite, CallRegister, Consume, UserShutdown, TransportNext
<1>8. CASE UNCHANGED vars
  BY <1>8 DEF vars
<1> QED
  BY <1>1, <1>2, <1>3, <1>4, <1>5, <1>6, <1>7, <1>8 DEF RunnerNext, RunnerCore, RunnerOwn

\* Every behaviour of the runner is, seen from its transport, one of Transport.
LEMMA RunnerUsesTransport == RunnerSpec => TransportSpec
<1>1. RunnerInit => TransportInit
  BY DEF RunnerInit
<1> QED
  BY <1>1, StepSimulates, PTL DEF RunnerSpec, TransportSpec

LEMMA TransportFacts ==
  RunnerSpec => [](TransportTypeOK /\ LifeCycle /\ NothingLeftBehind)
BY RunnerUsesTransport, TransportTypeCorrect, LifeCycleHolds, NothingIsLeftBehind, PTL

-----------------------------------------------------------------------------
\* What a returned shutdown rests on: closeOnce is released only when Close of
\* the transport has finished, and nobody returns before it is released.
OnceInv ==
  /\ once \in {"free", "done"} \cup Closers
  /\ closer \in [Closers -> {"no", "called", "done"}]
  /\ once = "done" => closing = "done"
  /\ \A k \in Closers : closer[k] = "done" => once = "done"

LEMMA ClosingStaysDone ==
  LifeCycle /\ [TransportNext]_tvars /\ closing = "done" => closing' = "done"
BY DEF LifeCycle, Waiting, TransportNext, tvars, Initialize, LaunchRefused, WritePayload,
       SpawnFails, Spawn, CliEmit, Cli, CliHear, CliExit, ContextKill, Reader, ReaderScan,
       ReaderPush, ReaderEOF, CloseProgress, CloseInterrupt, CloseKill, Reap, CloseFinish,
       CloseBegin, Receive, WriteAccepted, CancelContext, closeVars, outVars, inVars,
       procVars

LEMMA OnceStep == LifeCycle /\ OnceInv /\ [RunnerNext]_vars => OnceInv'
<1> SUFFICES ASSUME LifeCycle, OnceInv, [RunnerNext]_vars
             PROVE  OnceInv'
  OBVIOUS
<1>1. closing = "done" => closing' = "done"
  BY StepSimulates, ClosingStaysDone
<1>2. CASE UNCHANGED <<once, closer>>
  BY <1>1, <1>2 DEF OnceInv
<1>3. ASSUME NEW k \in Closers, ShutdownStep(k)
      PROVE  OnceInv'
  <2> USE DEF OnceInv, Closers
  <2>1. CASE ShutdownEnter(k)
    BY <1>1, <2>1 DEF ShutdownEnter
  <2>2. CASE ShutdownLeave(k)
    BY <1>1, <2>2 DEF ShutdownLeave
  <2>3. CASE ShutdownJoin(k)
    BY <1>1, <2>3 DEF ShutdownJoin
  <2> QED
    BY <1>3, <2>1, <2>2, <2>3 DEF ShutdownStep
<1>4. CASE LoopCloseRunDone \/ UserShutdown
  <2>1. once' = once
    BY <1>4 DEF LoopCloseRunDone, UserShutdown
  <2>2. \E k \in Closers : closer' = [closer EXCEPT ![k] = "called"]
    BY <1>4 DEF LoopCloseRunDone, UserShutdown, Closers
  <2> QED
    BY <1>1, <2>1, <2>2 DEF OnceInv
<1> QED
  BY <1>2, <1>3, <1>4
  DEF RunnerNext, RunnerCore, RunnerOwn, vars, rvars, downVars, Below, BelowSdk, AnyCli,
      Loop, LoopStart, LoopReceive, LoopEnd, Dispatch, DispatchForward, DispatchResponse,
      DispatchRequest, DispatchCancel, LoopForward, LoopDeliver, LoopCloseOut, CallStep,
      CallWrite, CallWriteFails, CallReply, CallCancelled, CallEnded, Return, HandlerStep,
      HandlerDecide, AnswerWritten, AnswerDropped, CallbackReturns, ShutdownTransport,
      User, PromptWrite, CallRegister, Consume

\* Whichever of runLoop and the user calls shutdown first or second, and in
\* whatever order they get through closeOnce, it returns to neither before the
\* child is reaped and the auth payload removed.
THEOREM ShutdownImpliesReaped == RunnerSpec => []ShutdownReturnsAfterReap
<1>1. RunnerInit => OnceInv
  BY DEF RunnerInit, OnceInv, Closers
<1>2. OnceInv /\ NothingLeftBehind => ShutdownReturnsAfterReap
  BY DEF OnceInv, NothingLeftBehind, ShutdownReturnsAfterReap
<1> QED
  BY <1>1, <1>2, OnceStep, TransportFacts, PTL DEF RunnerSpec

-----------------------------------------------------------------------------
\* While runLoop works on a message there is one, and it is a line scanned.
Working == loop \in {"dispatch", "deliver", "forward"} => ntaken > 0

RunnerTypeInv == RunnerTypeOK /\ Working

LEMMA CurrentTyped ==
  ASSUME RunnerTypeInv, loop \in {"dispatch", "deliver", "forward"}
  PROVE  /\ msgs[ntaken] \in 1 .. nread
         /\ Current \in CliLines
         /\ SidOf(Current) \in Sids \cup {NoSid}
<1>1. ntaken \in 1 .. Len(msgs) /\ msgs \in Seq(1 .. nread) /\ emitted \in Seq(CliLines)
      /\ nread \in 0 .. Len(emitted)
  BY DEF RunnerTypeInv, Working, RunnerTypeOK, TransportTypeOK
<1>2. msgs[ntaken] \in 1 .. nread
  BY <1>1, ElementOfSeq
<1>3. Current \in CliLines
  BY <1>1, <1>2, ElementOfSeq DEF Current
<1> QED
  BY <1>2, <1>3, RunnerAssumption DEF SidOf

\* Steps of the runner leave nread alone or raise it, so positions stay typed.
LEMMA PositionsWiden ==
  ASSUME RunnerTypeOK, TransportTypeOK', [TransportNext]_tvars
  PROVE  /\ nread <= nread' /\ nread \in Nat /\ nread' \in Nat
         /\ out \in Seq(1 .. nread')
         /\ box \in [Calls -> 0 .. nread']
<1>1. nread \in Nat /\ nread' \in Nat
  BY DEF RunnerTypeOK, TransportTypeOK
<1>2. nread <= nread'
  BY <1>1 DEF TransportNext, tvars, Initialize, LaunchRefused, WritePayload, SpawnFails,
       Spawn, CliEmit, Cli, CliHear, CliExit, ContextKill, Reader, ReaderScan, ReaderPush,
       ReaderEOF, CloseProgress, CloseInterrupt, CloseKill, Reap, CloseFinish, CloseBegin,
       Receive, WriteAccepted, CancelContext, outVars
<1>3. out \in Seq(1 .. nread')
  BY <1>1, <1>2, LogWiden DEF RunnerTypeOK
<1>4. 0 .. nread \subseteq 0 .. nread'
  BY <1>1, <1>2
<1> QED
  BY <1>1, <1>2, <1>3, <1>4 DEF RunnerTypeOK

\* The variables of the runner alone, with positions up to n.
RunnerPart(n) ==
  /\ loop \in {"off", "recv", "dispatch", "deliver", "forward", "leave", "outclosed",
                "rundone"}
  /\ out \in Seq(1 .. n)
  /\ nout \in 0 .. Len(out)
  /\ pending \subseteq Calls
  /\ call \in [Calls -> {"idle", "write", "wait", "ok", "error"}]
  /\ box \in [Calls -> 0 .. n]
  /\ handler \in [Requests -> {"idle", "running", "callback", "success", "error",
                               "sent", "dropped"}]
  /\ once \in {"free", "done"} \cup Closers
  /\ closer \in [Closers -> {"no", "called", "done"}]
  /\ sid \in Sids \cup {NoSid}

LEMMA RunnerTypeStep ==
  RunnerTypeInv /\ [RunnerNext]_vars => RunnerTypeInv'
<1> SUFFICES ASSUME RunnerTypeInv, [RunnerNext]_vars
             PROVE  RunnerTypeInv'
  OBVIOUS
<1>1. [TransportNext]_tvars /\ TransportTypeOK'
  BY StepSimulates, TransportTypeStep DEF RunnerTypeInv, RunnerTypeOK
<1>2. nread \in Nat /\ nread' \in Nat /\ nread <= nread' /\ RunnerPart(nread')
  BY <1>1, PositionsWiden DEF RunnerTypeInv, RunnerTypeOK, RunnerPart
<1>3. SUFFICES RunnerPart(nread)' /\ Working'
  BY <1>1 DEF RunnerTypeInv, RunnerTypeOK, RunnerPart
<1>4. ntaken \in Nat /\ ntaken' \in Nat /\ ntaken <= ntaken'
  <2>1. ntaken \in Nat /\ ntaken' \in Nat
    BY <1>1 DEF RunnerTypeInv, RunnerTypeOK, TransportTypeOK
  <2> QED
    BY <1>1, <2>1
    DEF TransportNext, tvars, Initialize, LaunchRefused, WritePayload, SpawnFails,
        Spawn, CliEmit, Cli, CliHear, CliExit, ContextKill, Reader, ReaderScan, ReaderPush,
        ReaderEOF, CloseProgress, CloseInterrupt, CloseKill, Reap, CloseFinish, CloseBegin,
        Receive, WriteAccepted, CancelContext, outVars
<1>5. CASE UNCHANGED rvars
  BY <1>2, <1>4, <1>5 DEF RunnerPart, Working, RunnerTypeInv, rvars
<1>6. CASE Loop
  <2>1. CASE LoopStart \/ LoopEnd \/ LoopCloseOut \/ LoopCloseRunDone
    BY <1>2, <2>1 DEF LoopStart, LoopEnd, LoopCloseOut, LoopCloseRunDone, RunnerPart,
                      Working, callVars, downVars, Closers
  <2>2. CASE LoopReceive
    <3>1. ntaken' = ntaken + 1
      BY <2>2 DEF LoopReceive, Receive
    <3> QED
      BY <1>2, <1>4, <2>2, <3>1 DEF LoopReceive, RunnerPart, Working, callVars, downVars
  <2>3. CASE LoopForward
    <3>1. msgs[ntaken] \in 1 .. nread /\ nread' = nread
      BY <2>3, CurrentTyped DEF LoopForward, tvars
    <3>2. out' \in Seq(1 .. nread') /\ nout' \in 0 .. Len(out')
      BY <1>2, <2>3, <3>1, LogAppend DEF LoopForward, RunnerPart
    <3>3. loop' \in {"leave", "recv"}
      BY <2>3 DEF LoopForward, AfterMessage
    <3> QED
      BY <1>2, <2>3, <3>2, <3>3 DEF LoopForward, RunnerPart, Working, callVars, downVars
  <2>4. CASE DispatchForward
    <3>1. SidOf(Current) \in Sids \cup {NoSid}
      BY <2>4, CurrentTyped DEF DispatchForward
    <3>2. loop' \in {"leave", "recv", "forward"} /\ sid' \in Sids \cup {NoSid}
          /\ ntaken' = ntaken /\ ntaken > 0
      BY <1>2, <2>4, <3>1
      DEF DispatchForward, AfterMessage, CaptureSid, RunnerPart, tvars, Working,
          RunnerTypeInv
    <3> QED
      BY <1>2, <2>4, <3>2 DEF DispatchForward, RunnerPart, Working, callVars, downVars
  <2>5. CASE DispatchResponse
    <3>1. SidOf(Current) \in Sids \cup {NoSid} /\ msgs[ntaken] \in 1 .. nread
      BY <2>5, CurrentTyped DEF DispatchResponse
    <3>2. sid' \in Sids \cup {NoSid} /\ pending' \subseteq Calls
          /\ ntaken' = ntaken /\ ntaken > 0
      BY <1>2, <2>5, <3>1
      DEF DispatchResponse, CaptureSid, RunnerPart, tvars, Working, RunnerTypeInv
    <3> QED
      BY <1>2, <2>5, <3>2 DEF DispatchResponse, RunnerPart, Working, downVars
  <2>6. CASE DispatchRequest \/ DispatchCancel
    BY <1>2, <2>6 DEF DispatchRequest, DispatchCancel, RunnerPart, Working, callVars,
                      downVars
  <2>7. CASE LoopDeliver
    <3>1. msgs[ntaken] \in 1 .. nread /\ UNCHANGED <<nread, ntaken>> /\ ntaken > 0
      BY <2>7, CurrentTyped DEF LoopDeliver, tvars, RunnerTypeInv, Working
    <3>2. box' \in [Calls -> 0 .. nread']
      <4>1. box \in [Calls -> 0 .. nread'] /\ msgs[ntaken] \in 0 .. nread'
        BY <1>2, <3>1 DEF RunnerPart
      <4> QED
        BY <2>7, <4>1 DEF LoopDeliver
    <3> QED
      BY <1>2, <2>7, <3>2 DEF LoopDeliver, RunnerPart, Working, downVars
  <2> QED
    BY <1>6, <2>1, <2>2, <2>3, <2>4, <2>5, <2>6, <2>7 DEF Loop, Dispatch
<1>7. ASSUME NEW c \in Calls, CallStep(c) \/ CallRegister(c)
      PROVE  RunnerPart(nread)' /\ Working'
  BY <1>2, <1>4, <1>7
  DEF CallStep, CallRegister, CallWrite, CallWriteFails, CallReply, CallCancelled,
      CallEnded, Return, RunnerPart, Working, RunnerTypeInv, downVars, callVars
<1>8. ASSUME NEW q \in Requests, HandlerStep(q) \/ CallbackReturns(q)
      PROVE  RunnerPart(nread)' /\ Working'
  <2>1. handler' \in [Requests -> {"idle", "running", "callback", "success", "error",
                                   "sent", "dropped"}]
    BY <1>2, <1>8
    DEF HandlerStep, HandlerDecide, AnswerWritten, AnswerDropped, CallbackReturns,
        DefaultAnswer, RunnerPart
  <2>2. UNCHANGED <<loop, out, nout, callVars, downVars, sid>>
    BY <1>8
    DEF HandlerStep, HandlerDecide, AnswerWritten, AnswerDropped, CallbackReturns
  <2> QED
    BY <1>2, <1>4, <2>1, <2>2
    DEF RunnerPart, Working, RunnerTypeInv, downVars, callVars
<1>9. CASE (\E k \in Closers : ShutdownStep(k)) \/ UserShutdown
  BY <1>2, <1>4, <1>9
  DEF ShutdownStep, ShutdownEnter, ShutdownLeave, ShutdownJoin, UserShutdown, Closers,
      RunnerPart, Working, RunnerTypeInv, callVars
<1>10. CASE Consume
  BY <1>2, <1>4, <1>10
  DEF Consume, RunnerPart, Working, RunnerTypeInv, callVars, downVars
<1> QED
  BY <1>5, <1>6, <1>7, <1>8, <1>9, <1>10
  DEF RunnerNext, RunnerCore, RunnerOwn, User, PromptWrite, Below, BelowSdk, AnyCli,
      ShutdownTransport, vars

LEMMA RunnerTypeInitially == RunnerInit => RunnerTypeInv
<1> SUFFICES ASSUME RunnerInit PROVE RunnerTypeInv
  OBVIOUS
<1>1. TransportTypeOK /\ nread = 0
  BY TransportTypeInit DEF RunnerInit, TransportInit
<1>2. out \in Seq(1 .. nread) /\ nout \in 0 .. Len(out)
  BY EmptySeq DEF RunnerInit
<1> QED
  BY <1>1, <1>2 DEF RunnerInit, RunnerTypeInv, RunnerTypeOK, Working, Closers

LEMMA RunnerTypeInvHolds == RunnerSpec => []RunnerTypeInv
BY RunnerTypeInitially, RunnerTypeStep, PTL DEF RunnerSpec

\* The runner's fields, and its transport's, always hold values of their kind.
THEOREM RunnerTypeCorrect == RunnerSpec => []RunnerTypeOK
<1>1. RunnerTypeInv => RunnerTypeOK
  BY DEF RunnerTypeInv
<1> QED
  BY <1>1, RunnerTypeInvHolds, PTL

\* A shutdown that has returned has returned for good.
LEMMA ShutdownStaysDone ==
  RunnerTypeOK /\ [RunnerNext]_vars /\ closer["user"] = "done" => closer'["user"] = "done"
<1> SUFFICES ASSUME RunnerTypeOK, [RunnerNext]_vars, closer["user"] = "done"
             PROVE  closer'["user"] = "done"
  OBVIOUS
<1>1. closer \in [Closers -> {"no", "called", "done"}]
  BY DEF RunnerTypeOK
<1>2. CASE closer' = closer
  BY <1>2
<1>3. ASSUME NEW k \in Closers, ShutdownStep(k)
      PROVE  closer'["user"] = "done"
  BY <1>1, <1>3 DEF ShutdownStep, ShutdownEnter, ShutdownLeave, ShutdownJoin, Closers
<1>4. CASE LoopCloseRunDone \/ UserShutdown
  BY <1>1, <1>4 DEF LoopCloseRunDone, UserShutdown, Closers
<1> QED
  BY <1>2, <1>3, <1>4
  DEF RunnerNext, RunnerCore, RunnerOwn, vars, rvars, downVars, Below, BelowSdk, AnyCli,
      Loop, LoopStart, LoopReceive, LoopEnd, Dispatch, DispatchForward, DispatchResponse,
      DispatchRequest, DispatchCancel, LoopForward, LoopDeliver, LoopCloseOut, CallStep,
      CallWrite, CallWriteFails, CallReply, CallCancelled, CallEnded, Return, HandlerStep,
      HandlerDecide, AnswerWritten, AnswerDropped, CallbackReturns, ShutdownTransport,
      User, PromptWrite, CallRegister, Consume

-----------------------------------------------------------------------------
(* The messages under the loop. *)

\* The logs under the runner grow at their end only, and one message is
\* received at a time.
LEMMA LogsGrow ==
  ASSUME TransportTypeOK, TransportTypeOK', [TransportNext]_tvars
  PROVE  /\ Len(emitted) <= Len(emitted') /\ Len(emitted) \in Nat /\ Len(emitted') \in Nat
         /\ \A k \in 1 .. Len(emitted) : emitted'[k] = emitted[k]
         /\ Len(msgs) <= Len(msgs') /\ Len(msgs) \in Nat /\ Len(msgs') \in Nat
         /\ \A i \in 1 .. Len(msgs) : msgs'[i] = msgs[i]
<1>1. Len(emitted) \in Nat /\ Len(emitted') \in Nat /\ Len(msgs) \in Nat /\ Len(msgs') \in Nat
  <2>1. emitted \in Seq(CliLines) /\ msgs \in Seq(1 .. nread)
    BY DEF TransportTypeOK
  <2>2. emitted' \in Seq(CliLines) /\ msgs' \in Seq(1 .. nread')
    BY DEF TransportTypeOK
  <2> QED
    BY <2>1, <2>2
<1>2. CASE UNCHANGED <<emitted, msgs>>
  BY <1>1, <1>2
<1>3. ASSUME NEW l \in CliLines, CliEmit(l)
      PROVE  /\ Len(emitted) <= Len(emitted') /\ msgs' = msgs
             /\ \A k \in 1 .. Len(emitted) : emitted'[k] = emitted[k]
  <2>1. Len(emitted') = Len(emitted) + 1
        /\ \A k \in 1 .. Len(emitted) : emitted'[k] = emitted[k]
    BY <1>3, LogAppend DEF CliEmit, TransportTypeOK
  <2> QED
    BY <1>1, <1>3, <2>1 DEF CliEmit
<1>4. CASE ReaderPush
  <2>1. held \in 1 .. nread
    BY <1>4 DEF ReaderPush, TransportTypeOK
  <2>2. Len(msgs') = Len(msgs) + 1 /\ \A i \in 1 .. Len(msgs) : msgs'[i] = msgs[i]
    BY <1>4, <2>1, LogAppend DEF ReaderPush, TransportTypeOK
  <2> QED
    BY <1>1, <1>4, <2>2 DEF ReaderPush
<1> QED
  BY <1>1, <1>2, <1>3, <1>4
  DEF TransportNext, tvars, Initialize, LaunchRefused, WritePayload, SpawnFails, Spawn,
      Cli, CliHear, CliExit, ContextKill, Reader, ReaderScan, ReaderEOF, CloseProgress,
      CloseInterrupt, CloseKill, Reap, CloseFinish, CloseBegin, Receive, WriteAccepted,
      CancelContext, outVars

\* Only runLoop receives.
LEMMA OnlyLoopReceives ==
  [RunnerNext]_vars /\ ~LoopReceive => ntaken' = ntaken
<1> SUFFICES ASSUME [RunnerNext]_vars, ~LoopReceive PROVE ntaken' = ntaken
  OBVIOUS
<1>1. CASE Below
  BY <1>1
  DEF Below, BelowSdk, AnyCli, CliSays, Initialize, LaunchRefused, WritePayload, SpawnFails,
      Spawn, CliEmit, Cli, CliHear, CliExit, ContextKill, Reader, ReaderScan, ReaderPush,
      ReaderEOF, CloseProgress, CloseInterrupt, CloseKill, Reap, CloseFinish,
      CancelContext, outVars
<1> QED
  BY <1>1
  DEF RunnerNext, RunnerCore, RunnerOwn, vars, tvars, Loop, LoopStart, LoopEnd, Dispatch,
      DispatchForward, DispatchResponse, DispatchRequest, DispatchCancel, LoopForward,
      LoopDeliver, LoopCloseOut, LoopCloseRunDone, CallStep, CallWrite, CallWriteFails,
      CallReply, CallCancelled, CallEnded, Return, HandlerStep, HandlerDecide,
      AnswerWritten, AnswerDropped, CallbackReturns, ShutdownTransport, CloseBegin,
      ShutdownStep, ShutdownEnter, ShutdownLeave, ShutdownJoin, User, PromptWrite,
      CallRegister, Consume, UserShutdown, WriteAccepted, outVars

\* What the messages received are does not change under the loop.
LEMMA ReceivedStay ==
  ASSUME RunnerTypeInv, RunnerTypeInv', [RunnerNext]_vars
  PROVE  /\ ntaken \in 0 .. Len(msgs) /\ Len(msgs) \in Nat
         /\ \A n \in 1 .. Len(msgs) :
              /\ msgs[n] \in 1 .. nread /\ msgs[n] \in 1 .. Len(emitted)
              /\ msgs'[n] = msgs[n] /\ emitted'[msgs[n]] = emitted[msgs[n]]
<1>1. [TransportNext]_tvars /\ TransportTypeOK /\ TransportTypeOK'
  BY StepSimulates DEF RunnerTypeInv, RunnerTypeOK
<1>2. nread \in 0 .. Len(emitted) /\ ntaken \in 0 .. Len(msgs) /\ Len(msgs) \in Nat
  BY <1>1 DEF TransportTypeOK
<1>3. \A n \in 1 .. Len(msgs) : msgs[n] \in 1 .. nread
  BY <1>1, ElementOfSeq DEF TransportTypeOK
<1>4. \A n \in 1 .. Len(msgs) : msgs[n] \in 1 .. Len(emitted)
  BY <1>1, <1>2, <1>3, LogsGrow
<1> QED
  BY <1>1, <1>2, <1>3, <1>4, LogsGrow

-----------------------------------------------------------------------------
\* PendingExact is kept because a call that was never registered has no
\* response in its channel, and a routed response is never position 0.
PendingInv ==
  /\ PendingExact
  /\ \A c \in Calls : call[c] = "idle" => box[c] = 0
  /\ loop = "deliver" => Current.kind = "response"
  /\ \A c \in Calls : Delivering(c) => call[c] # "idle" /\ box[c] = 0

\* The message in the loop's hand stays the one it is.
LEMMA CurrentStays ==
  ASSUME RunnerTypeInv, RunnerTypeInv', [RunnerNext]_vars, ntaken' = ntaken,
         loop \in {"dispatch", "deliver", "forward"}
  PROVE  Current' = Current
<1>1. ntaken \in 1 .. Len(msgs)
  BY ReceivedStay DEF RunnerTypeInv, Working
<1> QED
  BY <1>1, ReceivedStay DEF Current

LEMMA PendingStep ==
  RunnerTypeInv /\ RunnerTypeInv' /\ PendingInv /\ [RunnerNext]_vars => PendingInv'
<1> SUFFICES ASSUME RunnerTypeInv, RunnerTypeInv', PendingInv, [RunnerNext]_vars
             PROVE  PendingInv'
  OBVIOUS
<1>1. /\ pending \subseteq Calls
      /\ call \in [Calls -> {"idle", "write", "wait", "ok", "error"}]
      /\ box \in [Calls -> 0 .. nread]
  BY DEF RunnerTypeInv, RunnerTypeOK
<1> USE DEF PendingInv, PendingExact, Active
<1>2. CASE UNCHANGED callVars /\ (loop = "deliver" <=> loop' = "deliver")
  <2>1. CASE loop = "deliver"
    <3>1. ntaken' = ntaken
      BY <2>1, OnlyLoopReceives DEF LoopReceive
    <3>2. Current' = Current
      BY <2>1, <3>1, CurrentStays
    <3> QED
      BY <1>2, <2>1, <3>2 DEF callVars, Delivering
  <2>2. CASE loop # "deliver"
    BY <1>2, <2>2 DEF callVars, Delivering
  <2> QED
    BY <2>1, <2>2
<1>3. CASE DispatchResponse
  <2>1. /\ call' = call /\ box' = box /\ Current' = Current /\ Current.kind = "response"
        /\ pending' = pending \ {Current.id} /\ loop = "dispatch"
        /\ loop' = IF Current.id \in pending THEN "deliver" ELSE "recv"
    BY <1>3 DEF DispatchResponse, Current, tvars
  <2>2. \A c \in Calls : Delivering(c)' <=> c \in pending /\ c = Current.id
    BY <1>1, <2>1 DEF Delivering
  <2>3. \A c \in Calls : ~Delivering(c)
    BY <2>1 DEF Delivering
  <2>4. \A c \in Calls : c \in pending' <=> Active(c)' /\ box'[c] = 0 /\ ~Delivering(c)'
    BY <1>1, <2>1, <2>2, <2>3
  <2>5. \A c \in Calls : Delivering(c)' => call'[c] # "idle" /\ box'[c] = 0
    BY <1>1, <2>1, <2>2
  <2>6. \A c \in Calls : call'[c] = "idle" => box'[c] = 0
    BY <1>1, <2>1
  <2>7. PendingExact'
    BY <1>1, <2>1, <2>4
  <2>8. loop' = "deliver" => (Current.kind)' = "response"
    BY <2>1
  <2> QED
    BY <2>5, <2>6, <2>7, <2>8
<1>4. CASE LoopDeliver
  <2>1. msgs[ntaken] # 0
    <3>1. msgs[ntaken] \in 1 .. nread
      BY <1>4, CurrentTyped DEF LoopDeliver
    <3>2. emitted \in Seq(CliLines) /\ nread \in 0 .. Len(emitted)
      BY DEF RunnerTypeInv, RunnerTypeOK, TransportTypeOK
    <3> QED
      BY <3>1, <3>2
  <2>2. /\ call' = call /\ pending' = pending /\ loop' = "recv" /\ loop = "deliver"
        /\ box' = IF box[Current.id] = 0 THEN [box EXCEPT ![Current.id] = msgs[ntaken]]
                  ELSE box
    BY <1>4 DEF LoopDeliver
  <2>3. ASSUME NEW c \in Calls
        PROVE  /\ Delivering(c) <=> c = Current.id
               /\ ~Delivering(c)'
               /\ c = Current.id => box'[c] # 0
               /\ c # Current.id => box'[c] = box[c]
    BY <1>1, <2>1, <2>2 DEF Delivering
  <2>4. \A c \in Calls : c \in pending' <=> Active(c)' /\ box'[c] = 0 /\ ~Delivering(c)'
    BY <1>1, <2>2, <2>3
  <2>5. \A c \in Calls : call'[c] = "idle" => box'[c] = 0
    BY <1>1, <2>2, <2>3
  <2>6. PendingExact'
    BY <1>1, <2>2, <2>4
  <2> QED
    BY <2>2, <2>3, <2>5, <2>6
<1>5. ASSUME UNCHANGED <<loop, box>>, UNCHANGED tvars \/ (\E w \in Writers : WriteAccepted(w))
      PROVE  /\ Current' = Current
             /\ \A c \in Calls : Delivering(c)' <=> Delivering(c)
  BY <1>5 DEF WriteAccepted, outVars, tvars, Current, Delivering
<1>6. ASSUME NEW c \in Calls, CallRegister(c)
      PROVE  PendingInv'
  BY <1>1, <1>5, <1>6 DEF CallRegister
<1>7. ASSUME NEW c \in Calls, CallWrite(c)
      PROVE  PendingInv'
  <2>1. c \in Writers
    BY RunnerAssumption
  <2> QED
    BY <1>1, <1>5, <1>7, <2>1 DEF CallWrite
<1>8. ASSUME NEW c \in Calls, Active(c), \E o \in {"ok", "error"} : Return(c, o)
      PROVE  PendingInv'
  BY <1>1, <1>5, <1>8 DEF Return
<1>9. ASSUME NEW c \in Calls, CallStep(c)
      PROVE  PendingInv'
  BY <1>7, <1>8, <1>9
  DEF CallStep, CallWriteFails, CallReply, CallCancelled, CallEnded
<1> QED
  BY <1>2, <1>3, <1>4, <1>6, <1>9
  DEF RunnerNext, RunnerCore, RunnerOwn, vars, rvars, callVars, Below, BelowSdk, AnyCli,
      Loop, LoopStart, LoopReceive, LoopEnd, Dispatch, DispatchForward, DispatchRequest,
      DispatchCancel, LoopForward, AfterMessage, LoopCloseOut, LoopCloseRunDone,
      HandlerStep, HandlerDecide, AnswerWritten, AnswerDropped, CallbackReturns,
      ShutdownTransport, ShutdownStep, ShutdownEnter, ShutdownLeave, ShutdownJoin, User,
      PromptWrite, Consume, UserShutdown

\* r.pending holds the calls under way and unanswered, but for the one in the
\* loop's hand, for any number of calls, responses, duplicates and failures.
THEOREM PendingIsExact == RunnerSpec => []PendingExact
<1>1. RunnerInit => PendingInv
  BY DEF RunnerInit, PendingInv, PendingExact, Active, Delivering
<1>2. PendingInv => PendingExact
  BY DEF PendingInv
<1> QED
  BY <1>1, <1>2, PendingStep, RunnerTypeInvHolds, PTL DEF RunnerSpec

-----------------------------------------------------------------------------
(* The event stream. *)

\* Messages the loop is through with.
Worked(n) == n \in 1 .. ntaken /\ (loop \in {"dispatch", "deliver", "forward"} => n # ntaken)

\* The loop still delivers: a shutdown stops it, but for the send it is in.
StillDelivers ==
  loop = "forward" \/ (loop \in {"off", "recv", "dispatch", "deliver"} /\ ~RClosed)

OnOut(k) == \E i \in 1 .. Len(out) : out[i] = k

\* What is on r.out comes from messages the loop is through with, and as long
\* as it delivers none of those that are agent messages is missing.
StreamInv ==
  /\ loop = "forward" => Forwarded(Current)
  /\ loop = "deliver" => ~Forwarded(Current)
  /\ \A i \in 1 .. Len(out) : \E n \in 1 .. ntaken : Worked(n) /\ msgs[n] = out[i]
  /\ StillDelivers =>
       \A n \in 1 .. ntaken : Worked(n) /\ Forwarded(emitted[msgs[n]]) => OnOut(msgs[n])

\* The steps that do not concern the stream, of which there are most.
Aside == UNCHANGED <<loop, out, ntaken, sid>> /\ (RClosed => RClosed')

LEMMA StreamSteps ==
  RunnerTypeInv /\ [RunnerNext]_vars =>
    \/ Aside \/ LoopStart \/ LoopReceive \/ LoopEnd \/ Dispatch \/ LoopForward
    \/ LoopDeliver \/ LoopCloseOut \/ LoopCloseRunDone
<1> SUFFICES ASSUME RunnerTypeInv, [RunnerNext]_vars, ~Loop
             PROVE  Aside
  BY DEF Loop
<1>1. ntaken' = ntaken
  BY OnlyLoopReceives DEF Loop
<1>2. ASSUME NEW k \in Closers, ShutdownStep(k)
      PROVE  Aside
  BY <1>1, <1>2
  DEF ShutdownStep, ShutdownEnter, ShutdownLeave, ShutdownJoin, RClosed, Aside, Closers
<1> QED
  BY <1>1, <1>2
  DEF RunnerNext, RunnerCore, RunnerOwn, Below, BelowSdk, AnyCli, vars, rvars, CallStep,
      CallWrite, CallWriteFails, CallReply, CallCancelled, CallEnded, Return, HandlerStep,
      HandlerDecide, AnswerWritten, AnswerDropped, CallbackReturns, ShutdownTransport,
      User, PromptWrite, CallRegister, Consume, UserShutdown, RClosed, Aside, downVars

LEMMA StreamStep ==
  RunnerTypeInv /\ RunnerTypeInv' /\ StreamInv /\ [RunnerNext]_vars => StreamInv'
<1> SUFFICES ASSUME RunnerTypeInv, RunnerTypeInv', StreamInv, [RunnerNext]_vars
             PROVE  StreamInv'
  OBVIOUS
<1>1. /\ ntaken \in 0 .. Len(msgs) /\ Len(msgs) \in Nat
      /\ \A n \in 1 .. Len(msgs) :
           msgs'[n] = msgs[n] /\ emitted'[msgs[n]] = emitted[msgs[n]]
  BY ReceivedStay
<1>2. ntaken \in Nat /\ ntaken' \in Nat
      /\ (loop \in {"dispatch", "deliver", "forward"} => ntaken > 0)
  BY <1>1 DEF RunnerTypeInv, RunnerTypeOK, TransportTypeOK, Working
<1> USE DEF Forwarded
<1>3. CASE Aside
  <2>1. /\ UNCHANGED <<loop, out, ntaken>> /\ (StillDelivers' => StillDelivers)
        /\ \A n : Worked(n)' <=> Worked(n)
    BY <1>3 DEF Aside, StillDelivers, Worked
  <2>2. \A n \in 1 .. ntaken :
          msgs'[n] = msgs[n] /\ emitted'[msgs'[n]] = emitted[msgs[n]]
    BY <1>1
  <2>3. /\ loop' = "forward" => Forwarded(Current)'
        /\ loop' = "deliver" => ~Forwarded(Current)'
    BY <1>2, <2>1, <2>2 DEF StreamInv, Current
  <2>4. \A i \in 1 .. Len(out') : \E n \in 1 .. ntaken' : Worked(n)' /\ msgs'[n] = out'[i]
    BY <2>1, <2>2 DEF StreamInv
  <2>5. ASSUME NEW n \in 1 .. ntaken', StillDelivers', Worked(n)', Forwarded(emitted'[msgs'[n]])
        PROVE  OnOut(msgs[n])'
    BY <2>1, <2>2, <2>5 DEF StreamInv, OnOut
  <2> QED
    BY <2>3, <2>4, <2>5 DEF StreamInv
<1>4. CASE LoopStart
  BY <1>4, <1>1, <1>2
  DEF LoopStart, tvars, StreamInv, Worked, StillDelivers, OnOut, RClosed, downVars
<1>5. CASE LoopReceive
  <2>1. ntaken' = ntaken + 1 /\ out' = out /\ loop = "recv" /\ loop' \in {"leave", "dispatch"}
        /\ (RClosed => loop' = "leave") /\ RClosed' = RClosed
    BY <1>5 DEF LoopReceive, Receive, RClosed, downVars
  <2>2. \A n \in 1 .. ntaken : n \in 1 .. ntaken' /\ Worked(n)' /\ Worked(n)
    BY <1>2, <2>1 DEF Worked
  <2>3. \A n \in 1 .. ntaken' : Worked(n)' /\ loop' = "dispatch" => n \in 1 .. ntaken
    BY <1>2, <2>1 DEF Worked
  <2>4. \A i \in 1 .. Len(out') : \E n \in 1 .. ntaken' : Worked(n)' /\ msgs'[n] = out'[i]
    BY <1>1, <2>1, <2>2 DEF StreamInv
  <2>5. StillDelivers' => StillDelivers /\ loop' = "dispatch"
    BY <2>1 DEF StillDelivers
  <2>6. ASSUME NEW n \in 1 .. ntaken', StillDelivers', Worked(n)', Forwarded(emitted'[msgs'[n]])
        PROVE  OnOut(msgs[n])'
    <3>1. n \in 1 .. ntaken /\ n \in 1 .. Len(msgs) /\ Worked(n)
      BY <1>1, <2>2, <2>3, <2>5, <2>6
    <3>2. OnOut(msgs[n])
      <4>1. StillDelivers /\ Forwarded(emitted[msgs[n]])
        BY <1>1, <2>5, <2>6, <3>1
      <4> QED
        BY <3>1, <4>1 DEF StreamInv
    <3> QED
      BY <1>1, <2>1, <3>1, <3>2 DEF OnOut
  <2> QED
    BY <2>1, <2>4, <2>6 DEF StreamInv, OnOut, Worked, StillDelivers
<1>6. CASE LoopEnd \/ LoopCloseOut \/ LoopCloseRunDone
  BY <1>6, <1>1, <1>2
  DEF LoopEnd, LoopCloseOut, LoopCloseRunDone, tvars, StreamInv, Worked, StillDelivers,
      OnOut
<1>7. CASE DispatchForward
  <2>1. /\ UNCHANGED <<ntaken, out, msgs, emitted, once>> /\ loop = "dispatch"
        /\ loop' \in {"recv", "leave", "forward"}
        /\ (loop' = "forward" <=> ~RClosed) /\ Forwarded(Current)
    BY <1>7 DEF DispatchForward, AfterMessage, downVars, tvars, RClosed
  <2> QED
    BY <1>1, <1>2, <2>1 DEF StreamInv, Worked, StillDelivers, OnOut, Current, RClosed
<1>8. CASE DispatchResponse \/ DispatchRequest \/ DispatchCancel
  <2>1. /\ UNCHANGED <<ntaken, out, msgs, emitted, once>> /\ loop = "dispatch"
        /\ loop' \in {"recv", "deliver"} /\ ~Forwarded(Current)
    BY <1>8 DEF DispatchResponse, DispatchRequest, DispatchCancel, downVars, tvars
  <2> QED
    BY <1>1, <1>2, <2>1 DEF StreamInv, Worked, StillDelivers, OnOut, Current, RClosed
<1>9. CASE LoopForward
  <2>1. /\ UNCHANGED <<ntaken, msgs, emitted, once>> /\ loop = "forward"
        /\ loop' \in {"recv", "leave"} /\ out' = Append(out, msgs[ntaken])
    BY <1>9 DEF LoopForward, AfterMessage, downVars, tvars
  <2>2. msgs[ntaken] \in 1 .. nread /\ out \in Seq(1 .. nread)
    BY <2>1, CurrentTyped DEF RunnerTypeInv, RunnerTypeOK
  <2>3. /\ Len(out') = Len(out) + 1 /\ out'[Len(out) + 1] = msgs[ntaken] /\ Len(out) \in Nat
        /\ \A i \in 1 .. Len(out) : out'[i] = out[i]
    BY <2>1, <2>2, LogAppend
  <2>4. \A n \in 1 .. ntaken : Worked(n)' /\ (n = ntaken \/ Worked(n))
    BY <1>2, <2>1 DEF Worked
  <2>5. ASSUME NEW i \in 1 .. Len(out')
        PROVE  \E n \in 1 .. ntaken' : Worked(n)' /\ msgs'[n] = out'[i]
    <3>1. CASE i \in 1 .. Len(out)
      BY <2>1, <2>3, <2>4, <3>1 DEF StreamInv
    <3>2. CASE i = Len(out) + 1
      BY <1>2, <2>1, <2>3, <2>4, <3>2
    <3> QED
      BY <2>3, <3>1, <3>2
  <2>6. ASSUME NEW n \in 1 .. ntaken', Forwarded(emitted'[msgs'[n]])
        PROVE  OnOut(msgs[n])'
    <3>1. CASE n = ntaken
      BY <2>1, <2>3, <3>1 DEF OnOut
    <3>2. CASE Worked(n)
      <4>1. PICK i \in 1 .. Len(out) : out[i] = msgs[n]
        BY <2>1, <2>6, <3>2 DEF StreamInv, StillDelivers, OnOut
      <4> QED
        BY <2>1, <2>3, <4>1 DEF OnOut
    <3> QED
      BY <2>1, <2>4, <3>1, <3>2
  <2> QED
    BY <2>1, <2>5, <2>6 DEF StreamInv, OnOut
<1>10. CASE LoopDeliver
  <2>1. /\ UNCHANGED <<ntaken, out, msgs, emitted, once>> /\ loop = "deliver"
        /\ loop' = "recv" /\ ~Forwarded(Current)
    BY <1>10 DEF LoopDeliver, downVars, tvars, StreamInv
  <2> QED
    BY <1>1, <1>2, <2>1 DEF StreamInv, Worked, StillDelivers, OnOut, Current, RClosed
<1> QED
  BY <1>3, <1>4, <1>5, <1>6, <1>7, <1>8, <1>9, <1>10, StreamSteps DEF Dispatch

-----------------------------------------------------------------------------
(* runLoop as a relay. *)

FlowInv == RunnerTypeInv /\ PumpInv /\ StreamInv

LEMMA FlowInvHolds == RunnerSpec => []FlowInv
<1>1. RunnerInit => StreamInv
  <2> SUFFICES ASSUME RunnerInit PROVE StreamInv
    OBVIOUS
  <2>1. Len(out) = 0 /\ ntaken = 0 /\ loop = "off"
    BY EmptySeq DEF RunnerInit, TransportInit
  <2> QED
    BY <2>1 DEF StreamInv
<1>2. RunnerSpec => []StreamInv
  BY <1>1, StreamStep, RunnerTypeInvHolds, PTL DEF RunnerSpec
<1>3. RunnerSpec => []PumpInv
  BY RunnerUsesTransport, PumpInvHolds, PTL
<1> QED
  BY <1>2, <1>3, RunnerTypeInvHolds, PTL DEF FlowInv

\* The message forward() blocks with is the first agent message of the CLI that
\* is not on r.out.
LEMMA ForwardDelivers == FlowInv /\ LoopForward => Stream!Deliver
<1> SUFFICES ASSUME FlowInv, LoopForward PROVE Stream!Deliver
  OBVIOUS
<1> DEFINE On == {out[i] : i \in 1 .. Len(out)}
<1> DEFINE Lines == {k \in 1 .. Len(emitted) : Forwarded(emitted[k])}
<1> DEFINE k == msgs[ntaken]
<1>1. /\ loop = "forward" /\ RunnerTypeInv /\ PumpInv /\ StreamInv /\ TransportTypeOK
  BY DEF LoopForward, FlowInv, PumpInv
<1>2. /\ ntaken \in 1 .. Len(msgs) /\ Len(msgs) \in Nat
      /\ nread \in Nat /\ nread <= Len(emitted) /\ Len(emitted) \in Nat
      /\ \A n \in 1 .. Len(msgs) : msgs[n] \in 1 .. nread
  BY <1>1, ElementOfSeq DEF TransportTypeOK, RunnerTypeInv, Working
<1>3. k \in 1 .. nread /\ k \in Lines
  BY <1>1, <1>2 DEF StreamInv, Current
<1>4. \A n \in 1 .. Len(msgs) : n < ntaken <=> msgs[n] < k
  <2> SUFFICES ASSUME NEW n \in 1 .. Len(msgs) PROVE n < ntaken <=> msgs[n] < k
    OBVIOUS
  <2>1. /\ n < ntaken => msgs[n] < k
        /\ ntaken < n => k < msgs[n]
        /\ n = ntaken => msgs[n] = k
    BY <1>1, <1>2 DEF PumpInv, MsgsInOrder
  <2> QED
    BY <1>2, <1>3, <2>1
<1>5. k \notin On
  <2> SUFFICES ASSUME NEW i \in 1 .. Len(out), out[i] = k PROVE FALSE
    OBVIOUS
  <2>1. PICK n \in 1 .. ntaken : n # ntaken /\ msgs[n] = k
    BY <1>1 DEF StreamInv, Worked
  <2> QED
    BY <1>2, <1>3, <1>4, <2>1
<1>6. ASSUME NEW other \in Lines \ On
      PROVE  k <= other
  <2> SUFFICES ASSUME other < k PROVE FALSE
    BY <1>2, <1>3
  <2>1. other \in 1 .. nread /\ Parses(emitted[other]) /\ Forwarded(emitted[other])
    BY <1>2, <1>3 DEF Parses, Forwarded
  <2>2. PICK n \in 1 .. Len(msgs) : msgs[n] = other
    BY <1>1, <1>2, <1>3, <2>1 DEF PumpInv, MsgsGapFree, MsgsInOrder
  <2>3. n \in 1 .. ntaken /\ n # ntaken
    BY <1>2, <1>4, <2>2
  <2>4. OnOut(other)
    BY <1>1, <2>1, <2>2, <2>3 DEF StreamInv, Worked, StillDelivers
  <2> QED
    BY <2>4 DEF OnOut
<1>7. ~OutClosed /\ out' = Append(out, k) /\ emitted' = emitted
  BY <1>1 DEF LoopForward, OutClosed, tvars
<1>8. Lines' = Lines /\ OutClosed' = OutClosed
  BY <1>1, <1>7 DEF LoopForward, OutClosed, AfterMessage, Forwarded
<1> QED
  BY <1>3, <1>5, <1>6, <1>7, <1>8 DEF Stream!Deliver, Stream!Handed

\* The output of the CLI grows at its end.
LEMMA OutputGrows ==
  ASSUME RunnerTypeInv, RunnerTypeInv', [RunnerNext]_vars, UNCHANGED <<out, OutClosed>>
  PROVE  Stream!Offer
<1>1. [TransportNext]_tvars /\ TransportTypeOK /\ TransportTypeOK'
  BY StepSimulates DEF RunnerTypeInv, RunnerTypeOK
<1> QED
  BY <1>1, LogsGrow DEF Stream!Offer

LEMMA RelayStep ==
  FlowInv /\ FlowInv' /\ [RunnerNext]_vars
    => [Stream!Offer \/ Stream!Deliver \/ Stream!Cut]_(Stream!relayVars)
<1> SUFFICES ASSUME FlowInv, FlowInv', [RunnerNext]_vars
             PROVE  [Stream!Offer \/ Stream!Deliver \/ Stream!Cut]_(Stream!relayVars)
  OBVIOUS
<1>1. RunnerTypeInv /\ RunnerTypeInv'
  BY DEF FlowInv
<1>2. CASE UNCHANGED <<out, OutClosed>>
  BY <1>1, <1>2, OutputGrows
<1>3. CASE LoopForward
  BY <1>3, ForwardDelivers
<1>4. CASE LoopCloseOut
  BY <1>4 DEF LoopCloseOut, Stream!Cut, OutClosed, tvars
<1>5. CASE Aside
  BY <1>2, <1>5 DEF Aside, OutClosed
<1>6. CASE LoopStart \/ LoopReceive \/ LoopEnd \/ Dispatch \/ LoopDeliver \/ LoopCloseRunDone
  <2>1. out' = out /\ OutClosed' = OutClosed
    BY <1>6
    DEF LoopStart, LoopReceive, LoopEnd, Dispatch, DispatchForward, DispatchResponse,
        DispatchRequest, DispatchCancel, LoopDeliver, LoopCloseRunDone, AfterMessage,
        OutClosed
  <2> QED
    BY <1>2, <2>1
<1> QED
  BY <1>1, <1>3, <1>4, <1>5, <1>6, StreamSteps

\* From the CLI's stdout to r.out the runner implements a relay of the agent
\* messages: control traffic between them, back-pressure and a shutdown that
\* drops the message in the loop's hands neither skip, double nor reorder one.
THEOREM RunnerRelays == RunnerSpec => LoopIsRelay
<1>1. RunnerInit => Stream!RelayInit
  <2> SUFFICES ASSUME RunnerInit PROVE Stream!RelayInit
    OBVIOUS
  <2>1. Len(emitted) = 0
    BY EmptySeq DEF RunnerInit, TransportInit
  <2> QED
    BY <2>1 DEF RunnerInit, Stream!RelayInit, OutClosed
<1> QED
  BY <1>1, RelayStep, FlowInvHolds, PTL DEF RunnerSpec, LoopIsRelay, Stream!RelaySpec

-----------------------------------------------------------------------------
(* The end of a one-shot query. *)

LeftLoop == {"leave", "outclosed", "rundone"}

\* A result on r.out is its last message, and the loop has been left with it.
ResultInv ==
  OneShot =>
    /\ OneShotEndsAtResult
    /\ loop \notin LeftLoop => \A i \in 1 .. Len(out) : emitted[out[i]].kind # "result"

\* What is on r.out stays what it is.
LEMMA SentStay ==
  ASSUME RunnerTypeInv, RunnerTypeInv', [RunnerNext]_vars
  PROVE  \A i \in 1 .. Len(out) : emitted'[out[i]] = emitted[out[i]]
<1>1. [TransportNext]_tvars /\ TransportTypeOK /\ TransportTypeOK'
      /\ out \in Seq(1 .. nread) /\ nread \in 0 .. Len(emitted)
  BY StepSimulates DEF RunnerTypeInv, RunnerTypeOK, TransportTypeOK
<1>2. \A i \in 1 .. Len(out) : out[i] \in 1 .. nread
  BY <1>1, ElementOfSeq
<1> QED
  BY <1>1, <1>2, LogsGrow

LEMMA ResultStep ==
  RunnerTypeInv /\ RunnerTypeInv' /\ ResultInv /\ [RunnerNext]_vars => ResultInv'
<1> SUFFICES ASSUME RunnerTypeInv, RunnerTypeInv', ResultInv, [RunnerNext]_vars, OneShot
             PROVE  ResultInv'
  BY DEF ResultInv
<1>1. (\A i \in 1 .. Len(out) : emitted'[out[i]] = emitted[out[i]]) /\ Len(out) \in Nat
  BY SentStay DEF RunnerTypeInv, RunnerTypeOK
<1> USE DEF ResultInv, OneShotEndsAtResult, LeftLoop
<1>2. CASE out' = out /\ (loop \in LeftLoop => loop' \in LeftLoop)
  BY <1>1, <1>2
<1>3. CASE LoopForward
  <2>1. loop = "forward" /\ out' = Append(out, msgs[ntaken]) /\ emitted' = emitted
        /\ loop' = IF emitted[msgs[ntaken]].kind = "result" THEN "leave" ELSE "recv"
    BY <1>3 DEF LoopForward, AfterMessage, Current, tvars
  <2>2. msgs[ntaken] \in 1 .. nread /\ out \in Seq(1 .. nread)
    BY <2>1, CurrentTyped DEF RunnerTypeInv, RunnerTypeOK
  <2>3. /\ Len(out') = Len(out) + 1 /\ out'[Len(out) + 1] = msgs[ntaken]
        /\ \A i \in 1 .. Len(out) : out'[i] = out[i]
    BY <2>1, <2>2, LogAppend
  <2>4. \A i \in 1 .. Len(out) : emitted'[out'[i]].kind # "result"
    BY <2>1, <2>3
  <2>5. loop' \notin LeftLoop => emitted'[out'[Len(out')]].kind # "result"
    BY <2>1, <2>3
  <2> QED
    BY <1>1, <2>3, <2>4, <2>5
<1>4. CASE LoopStart \/ LoopReceive \/ LoopEnd \/ LoopDeliver \/ LoopCloseOut
           \/ LoopCloseRunDone
  BY <1>2, <1>4
  DEF LoopStart, LoopReceive, LoopEnd, LoopDeliver, LoopCloseOut, LoopCloseRunDone
<1>5. CASE Dispatch
  BY <1>2, <1>5
  DEF Dispatch, DispatchForward, DispatchResponse, DispatchRequest, DispatchCancel
<1>6. CASE Aside
  BY <1>2, <1>6 DEF Aside
<1> QED
  BY <1>3, <1>4, <1>5, <1>6, StreamSteps

\* A one-shot query delivers nothing after its terminal result, whatever the CLI
\* writes behind it.
THEOREM OneShotEnds == RunnerSpec => []OneShotEndsAtResult
<1>1. RunnerInit => ResultInv
  <2> SUFFICES ASSUME RunnerInit PROVE ResultInv
    OBVIOUS
  <2>1. Len(out) = 0
    BY EmptySeq DEF RunnerInit
  <2> QED
    BY <2>1 DEF ResultInv, OneShotEndsAtResult
<1>2. ResultInv => OneShotEndsAtResult
  BY DEF ResultInv, OneShotEndsAtResult
<1> QED
  BY <1>1, <1>2, ResultStep, RunnerTypeInvHolds, PTL DEF RunnerSpec

-----------------------------------------------------------------------------
(* The session id. *)

\* The session id is the first one met, and while none is known the message in
\* the loop's hand has none.
SidInv ==
  /\ SidFromFirst
  /\ loop \in {"forward", "deliver"} /\ sid = NoSid => SidOf(Current) = NoSid
  /\ loop = "off" => ntaken = 0

LEMMA SidStep ==
  RunnerTypeInv /\ RunnerTypeInv' /\ SidInv /\ [RunnerNext]_vars => SidInv'
<1> SUFFICES ASSUME RunnerTypeInv, RunnerTypeInv', SidInv, [RunnerNext]_vars
             PROVE  SidInv'
  OBVIOUS
<1>1. \A n \in 1 .. ntaken : msgs'[n] = msgs[n] /\ emitted'[msgs[n]] = emitted[msgs[n]]
  BY ReceivedStay
<1>2. ntaken \in Nat /\ ntaken' \in Nat
      /\ (loop \in {"dispatch", "deliver", "forward"} => ntaken > 0)
  BY DEF RunnerTypeInv, RunnerTypeOK, TransportTypeOK, Working
<1> USE DEF SidInv, SidFromFirst, Dispatched, Current
\* A step that leaves sid alone may end the work on a message without one only.
<1>3. ASSUME sid' = sid, ntaken' = ntaken,
             loop' = "recv" => \/ loop \in {"off", "recv", "forward", "deliver"}
                               \/ SidOf(Current) = NoSid,
             loop' \in {"forward", "deliver", "off"} => loop' = loop
      PROVE  SidInv'
  <2>1. sid # NoSid =>
          \E i \in 1 .. ntaken' :
            /\ SidOf(emitted'[msgs'[i]]) = sid'
            /\ \A j \in 1 .. i - 1 : SidOf(emitted'[msgs'[j]]) = NoSid
    BY <1>1, <1>2, <1>3
  <2>2. sid = NoSid =>
          \A i \in 1 .. ntaken' :
            i < ntaken' \/ loop' = "recv" => SidOf(emitted'[msgs'[i]]) = NoSid
    BY <1>1, <1>2, <1>3
  <2>3. loop' \in {"forward", "deliver"} /\ sid' = NoSid =>
          SidOf(emitted'[msgs'[ntaken']]) = NoSid
    BY <1>1, <1>2, <1>3
  <2> QED
    BY <1>2, <1>3, <2>1, <2>2, <2>3
<1>4. CASE Aside \/ LoopStart \/ LoopEnd \/ LoopCloseOut \/ LoopCloseRunDone
  BY <1>3, <1>4 DEF Aside, LoopStart, LoopEnd, LoopCloseOut, LoopCloseRunDone, tvars
<1>5. CASE LoopForward \/ LoopDeliver
  BY <1>3, <1>5 DEF LoopForward, LoopDeliver, AfterMessage, tvars
<1>6. CASE DispatchRequest \/ DispatchCancel
  BY <1>3, <1>6 DEF DispatchRequest, DispatchCancel, tvars, SidOf
<1>7. CASE LoopReceive
  <2>1. ntaken' = ntaken + 1 /\ sid' = sid /\ loop = "recv" /\ loop' \in {"leave", "dispatch"}
    BY <1>7 DEF LoopReceive, Receive
  <2>2. sid # NoSid =>
          \E i \in 1 .. ntaken' :
            /\ SidOf(emitted'[msgs'[i]]) = sid'
            /\ \A j \in 1 .. i - 1 : SidOf(emitted'[msgs'[j]]) = NoSid
    BY <1>1, <1>2, <2>1
  <2>3. sid = NoSid =>
          \A i \in 1 .. ntaken' : i < ntaken' => SidOf(emitted'[msgs'[i]]) = NoSid
    BY <1>1, <1>2, <2>1
  <2> QED
    BY <1>2, <2>1, <2>2, <2>3
<1>8. CASE DispatchForward \/ DispatchResponse
  <2>1. loop = "dispatch" /\ ntaken' = ntaken /\ CaptureSid /\ UNCHANGED <<emitted, msgs>>
        /\ loop' # "off"
    BY <1>8 DEF DispatchForward, DispatchResponse, tvars, AfterMessage
  <2>2. CASE sid # NoSid
    BY <1>2, <2>1, <2>2 DEF CaptureSid
  <2>3. CASE sid = NoSid
    <3>1. sid' = SidOf(Current) /\ \A i \in 1 .. ntaken - 1 : SidOf(emitted[msgs[i]]) = NoSid
      BY <1>2, <2>1, <2>3 DEF CaptureSid
    <3>2. sid' # NoSid =>
            /\ ntaken \in 1 .. ntaken' /\ SidOf(emitted'[msgs'[ntaken]]) = sid'
            /\ \A j \in 1 .. ntaken - 1 : SidOf(emitted'[msgs'[j]]) = NoSid
      BY <1>2, <2>1, <3>1
    <3>3. ASSUME sid' = NoSid, NEW i \in 1 .. ntaken'
          PROVE  SidOf(emitted'[msgs'[i]]) = NoSid
      <4>1. i \in 1 .. ntaken - 1 \/ i = ntaken
        BY <1>2, <2>1
      <4> QED
        BY <2>1, <3>1, <3>3, <4>1
    <3> QED
      BY <1>2, <2>1, <3>2, <3>3
  <2> QED
    BY <2>2, <2>3
<1> QED
  BY <1>4, <1>5, <1>6, <1>7, <1>8, StreamSteps DEF Dispatch

\* The recorded session id is the one of the first dispatched message that
\* carries any, whatever kind of message that was.
THEOREM SidIsFirst == RunnerSpec => []SidFromFirst
<1>1. RunnerInit => SidInv
  BY DEF RunnerInit, TransportInit, SidInv, SidFromFirst
<1>2. SidInv => SidFromFirst
  BY DEF SidInv
<1> QED
  BY <1>1, <1>2, SidStep, RunnerTypeInvHolds, PTL DEF RunnerSpec
===============================================================================
