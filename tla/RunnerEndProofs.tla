---------------------------- MODULE RunnerEndProofs ----------------------------
(***************************************************************************)
(* Theorems about how the calls and the stream of Runner end, for all      *)
(* values of the constants: each call gets the first reply with its id,    *)
(* for any number of calls under way and any replies the CLI makes up; and *)
(* if the user did not ask for the shutdown, r.out closes with everything  *)
(* the CLI said on it, or after the result of a query.                     *)
(***************************************************************************)
EXTENDS RunnerProofs

\* A request is written once it has been registered, by its own call.
Asked ==
  \A c \in Calls : call[c] \in {"idle", "write"} => \A i \in 1 .. Len(wrote) : wrote[i] # c

\* The CLI answers what was written.
Answered ==
  \A k \in 1 .. Len(emitted) :
    emitted[k].kind = "response" => \E i \in 1 .. Len(wrote) : wrote[i] = emitted[k].id

LEMMA WritesAre ==
  [RunnerNext]_vars =>
    \/ wrote' = wrote
    \/ \E w \in Writers :
         /\ wrote' = Append(wrote, w) /\ emitted' = emitted
         /\ w \in Calls => call[w] = "write"
         /\ call' = IF w \in Calls THEN [call EXCEPT ![w] = "wait"] ELSE call
<1> SUFFICES ASSUME [RunnerNext]_vars, wrote' # wrote
             PROVE  \E w \in Writers :
                      /\ wrote' = Append(wrote, w) /\ emitted' = emitted
                      /\ w \in Calls => call[w] = "write"
                      /\ call' = IF w \in Calls THEN [call EXCEPT ![w] = "wait"] ELSE call
  OBVIOUS
<1>1. CASE \E c \in Calls : CallWrite(c)
  <2>1. PICK c \in Calls : CallWrite(c)
    BY <1>1
  <2>2. /\ c \in Writers /\ wrote' = Append(wrote, c) /\ emitted' = emitted
        /\ call[c] = "write" /\ call' = [call EXCEPT ![c] = "wait"]
    BY <2>1, RunnerAssumption DEF CallWrite, WriteAccepted, outVars
  <2> QED
    BY <2>2
<1>2. CASE \E q \in Requests : AnswerWritten(q)
  BY <1>2, RunnerAssumption DEF AnswerWritten, WriteAccepted, outVars, callVars
<1>3. CASE \E p \in Prompts : PromptWrite(p)
  BY <1>3 DEF Prompts, PromptWrite, WriteAccepted, outVars, rvars
<1>4. CASE Below
  BY <1>4
  DEF Below, BelowSdk, AnyCli, CliSays, Initialize, LaunchRefused, WritePayload, SpawnFails,
      Spawn, CliEmit, Cli, CliHear, CliExit, ContextKill, Reader, ReaderScan, ReaderPush,
      ReaderEOF, CloseProgress, CloseInterrupt, CloseKill, Reap, CloseFinish,
      CancelContext, inVars
<1>5. CASE Loop
  BY <1>5
  DEF Loop, LoopStart, LoopReceive, Receive, LoopEnd, Dispatch, DispatchForward,
      DispatchResponse, DispatchRequest, DispatchCancel, LoopForward, LoopDeliver,
      LoopCloseOut, LoopCloseRunDone, tvars, inVars
<1> QED
  BY <1>1, <1>2, <1>3, <1>4, <1>5
  DEF RunnerNext, RunnerCore, RunnerOwn, vars, tvars, CallStep, CallWriteFails, CallReply,
      CallCancelled, CallEnded, Return, HandlerStep, HandlerDecide, AnswerDropped,
      CallbackReturns, ShutdownTransport, CloseBegin, ShutdownStep, ShutdownEnter,
      ShutdownLeave, ShutdownJoin, User, CallRegister, Consume, UserShutdown, inVars

\* The steps that concern the calls.
LEMMA CallSteps ==
  [RunnerNext]_vars =>
    \/ UNCHANGED <<call, box>>
    \/ LoopDeliver
    \/ \E c \in Calls : CallRegister(c) \/ CallStep(c)
BY DEF RunnerNext, RunnerCore, RunnerOwn, vars, rvars, Below, BelowSdk, AnyCli, Loop,
       LoopStart, LoopReceive, LoopEnd, Dispatch, DispatchForward, DispatchResponse,
       DispatchRequest, DispatchCancel, LoopForward, LoopCloseOut, LoopCloseRunDone,
       HandlerStep, HandlerDecide, AnswerWritten, AnswerDropped, CallbackReturns,
       ShutdownTransport, ShutdownStep, ShutdownEnter, ShutdownLeave, ShutdownJoin, User,
       PromptWrite, Consume, UserShutdown, callVars

LEMMA AskedStep ==
  RunnerTypeInv /\ RunnerTypeInv' /\ Asked /\ Answered /\ [RunnerNext]_vars
    => Asked' /\ Answered'
<1> SUFFICES ASSUME RunnerTypeInv, RunnerTypeInv', Asked, Answered, [RunnerNext]_vars
             PROVE  Asked' /\ Answered'
  OBVIOUS
<1>1. /\ call \in [Calls -> {"idle", "write", "wait", "ok", "error"}]
      /\ wrote \in Seq(Writers) /\ nheard \in 0 .. Len(wrote) /\ emitted \in Seq(CliLines)
      /\ Len(wrote) \in Nat /\ Len(emitted) \in Nat
  BY LenProperties DEF RunnerTypeInv, RunnerTypeOK, TransportTypeOK
<1>2. ASSUME NEW c \in Calls, call'[c] \in {"idle", "write"}
      PROVE  call[c] \in {"idle", "write"}
  <2>1. ASSUME NEW d \in Calls, CallRegister(d) \/ CallStep(d)
        PROVE  call[c] \in {"idle", "write"}
    <3>1. CASE CallRegister(d)
      BY <1>1, <1>2, <3>1 DEF CallRegister
    <3>2. CASE \E o \in {"wait", "ok", "error"} : call' = [call EXCEPT ![d] = o]
      BY <1>1, <1>2, <3>2
    <3> QED
      BY <2>1, <3>1, <3>2
      DEF CallStep, CallWrite, CallWriteFails, CallReply, CallCancelled, CallEnded, Return
  <2>2. CASE \E d \in Calls : CallRegister(d) \/ CallStep(d)
    BY <2>1, <2>2
  <2>3. CASE call' = call
    BY <1>2, <2>3
  <2> QED
    BY <2>2, <2>3, CallSteps DEF LoopDeliver
<1>3. CASE wrote' = wrote
  <2>1. Asked'
    BY <1>2, <1>3 DEF Asked
  <2>2. CASE emitted' = emitted
    BY <1>3, <2>1, <2>2 DEF Answered
  <2>3. ASSUME NEW l \in CliLines, CliSays(l)
        PROVE  Answered'
    <3>1. /\ Len(emitted') = Len(emitted) + 1 /\ emitted'[Len(emitted) + 1] = l
          /\ \A k \in 1 .. Len(emitted) : emitted'[k] = emitted[k]
      BY <1>1, <2>3, LogAppend DEF CliSays, CliEmit
    <3>2. l.kind = "response" => \E i \in 1 .. Len(wrote) : wrote[i] = l.id
      BY <1>1, <2>3 DEF CliSays
    <3> QED
      BY <1>1, <1>3, <3>1, <3>2 DEF Answered
  <2>4. emitted' = emitted \/ \E l \in CliLines : CliSays(l)
    <3>1. CASE Below
      BY <3>1
      DEF Below, BelowSdk, AnyCli, Initialize, LaunchRefused, WritePayload, SpawnFails,
          Spawn, Cli, CliHear, CliExit, ContextKill, Reader, ReaderScan, ReaderPush,
          ReaderEOF, CloseProgress, CloseInterrupt, CloseKill, Reap, CloseFinish,
          CancelContext, outVars
    <3> QED
      BY <3>1
      DEF RunnerNext, RunnerCore, RunnerOwn, vars, tvars, Loop, LoopStart, LoopReceive,
          Receive, LoopEnd, Dispatch, DispatchForward, DispatchResponse, DispatchRequest,
          DispatchCancel, LoopForward, LoopDeliver, LoopCloseOut, LoopCloseRunDone,
          CallStep, CallWrite, CallWriteFails, CallReply, CallCancelled, CallEnded,
          Return, HandlerStep, HandlerDecide, AnswerWritten, AnswerDropped,
          CallbackReturns, ShutdownTransport, CloseBegin, ShutdownStep, ShutdownEnter,
          ShutdownLeave, ShutdownJoin, User, PromptWrite, CallRegister, Consume,
          UserShutdown, WriteAccepted, outVars
  <2> QED
    BY <2>1, <2>2, <2>3, <2>4
<1>4. ASSUME NEW w \in Writers, wrote' = Append(wrote, w), emitted' = emitted,
             call' = IF w \in Calls THEN [call EXCEPT ![w] = "wait"] ELSE call
      PROVE  Asked' /\ Answered'
  <2>1. /\ Len(wrote') = Len(wrote) + 1 /\ wrote'[Len(wrote) + 1] = w
        /\ \A i \in 1 .. Len(wrote) : wrote'[i] = wrote[i]
    BY <1>1, <1>4, LogAppend
  <2>2. ASSUME NEW c \in Calls, call'[c] \in {"idle", "write"}
        PROVE  c # w /\ \A i \in 1 .. Len(wrote) : wrote[i] # c
    BY <1>1, <1>2, <1>4, <2>2 DEF Asked
  <2>3. Asked'
    BY <1>1, <2>1, <2>2 DEF Asked
  <2>4. Answered'
    BY <1>1, <1>4, <2>1 DEF Answered
  <2> QED
    BY <2>3, <2>4
<1> QED
  BY <1>3, <1>4, WritesAre

LEMMA AskedHolds == RunnerSpec => [](Asked /\ Answered)
<1>1. RunnerInit => Asked /\ Answered
  <2> SUFFICES ASSUME RunnerInit PROVE Asked /\ Answered
    OBVIOUS
  <2>1. Len(wrote) = 0 /\ Len(emitted) = 0
    BY EmptySeq DEF RunnerInit, TransportInit
  <2> QED
    BY <2>1 DEF Asked, Answered
<1> QED
  BY <1>1, AskedStep, RunnerTypeInvHolds, PTL DEF RunnerSpec

\* So each request is written once.
CallsOnce == \A i, j \in 1 .. Len(wrote) : wrote[i] \in Calls /\ wrote[j] = wrote[i] => i = j

LEMMA CallsOnceStep ==
  RunnerTypeInv /\ Asked /\ CallsOnce /\ [RunnerNext]_vars => CallsOnce'
<1> SUFFICES ASSUME RunnerTypeInv, Asked, CallsOnce, [RunnerNext]_vars
             PROVE  CallsOnce'
  OBVIOUS
<1>1. wrote \in Seq(Writers) /\ Len(wrote) \in Nat
  BY LenProperties DEF RunnerTypeInv, RunnerTypeOK, TransportTypeOK
<1>2. CASE wrote' = wrote
  BY <1>2 DEF CallsOnce
<1>3. ASSUME NEW w \in Writers, wrote' = Append(wrote, w), w \in Calls => call[w] = "write"
      PROVE  CallsOnce'
  <2>1. /\ Len(wrote') = Len(wrote) + 1 /\ wrote'[Len(wrote) + 1] = w
        /\ \A i \in 1 .. Len(wrote) : wrote'[i] = wrote[i]
    BY <1>1, <1>3, LogAppend
  <2>2. w \in Calls => \A i \in 1 .. Len(wrote) : wrote[i] # w
    BY <1>3 DEF Asked
  <2>3. \A i \in 1 .. Len(wrote') : i \in 1 .. Len(wrote) \/ i = Len(wrote) + 1
    BY <1>1, <2>1
  <2> QED
    BY <2>1, <2>2, <2>3 DEF CallsOnce
<1> QED
  BY <1>2, <1>3, WritesAre

LEMMA CallsWrittenOnce == RunnerSpec => []CallsOnce
<1>1. RunnerInit => CallsOnce
  <2> SUFFICES ASSUME RunnerInit PROVE CallsOnce
    OBVIOUS
  <2>1. Len(wrote) = 0
    BY EmptySeq DEF RunnerInit, TransportInit
  <2> QED
    BY <2>1 DEF CallsOnce
<1> QED
  BY <1>1, CallsOnceStep, AskedHolds, RunnerTypeInvHolds, PTL DEF RunnerSpec

\* No response to a call is out before the call waits for it.
LEMMA NoneYet ==
  ASSUME RunnerTypeInv, Asked, Answered, NEW c \in Calls, call[c] \in {"idle", "write"}
  PROVE  \A n \in 1 .. ntaken : ~IsResponse(n, c)
<1>1. ntaken \in 0 .. Len(msgs) /\ nread \in 0 .. Len(emitted)
      /\ msgs \in Seq(1 .. nread) /\ Len(emitted) \in Nat /\ Len(msgs) \in Nat
  BY LenProperties DEF RunnerTypeInv, RunnerTypeOK, TransportTypeOK
<1>2. \A n \in 1 .. ntaken : msgs[n] \in 1 .. Len(emitted)
  <2>1. \A n \in 1 .. Len(msgs) : msgs[n] \in 1 .. nread
    BY <1>1, ElementOfSeq
  <2> QED
    BY <1>1, <2>1
<1> QED
  BY <1>2 DEF Asked, Answered, IsResponse

\* How a call moves, and that its reply is not taken away again.
LEMMA CallMoves ==
  ASSUME RunnerTypeInv, [RunnerNext]_vars, NEW c \in Calls
  PROVE  /\ \/ call'[c] = call[c]
            \/ call[c] \in {"idle", "write"}
            \/ call'[c] = "ok" /\ box[c] # 0
            \/ call'[c] = "error"
         /\ call[c] \in {"idle", "write"} => call'[c] # "ok"
         /\ ~LoopDeliver => box' = box
         /\ LoopDeliver => call' = call
<1>1. call \in [Calls -> {"idle", "write", "wait", "ok", "error"}]
  BY DEF RunnerTypeInv, RunnerTypeOK
<1>2. ASSUME NEW d \in Calls, CallRegister(d) \/ CallStep(d)
      PROVE  /\ \/ call'[c] = call[c]
                \/ call[c] \in {"idle", "write"}
                \/ call'[c] = "ok" /\ box[c] # 0
                \/ call'[c] = "error"
             /\ call[c] \in {"idle", "write"} => call'[c] # "ok"
             /\ box' = box
  <2>1. CASE CallRegister(d)
    BY <1>1, <2>1 DEF CallRegister
  <2>2. CASE CallWrite(d)
    BY <1>1, <2>2 DEF CallWrite
  <2>3. CASE CallReply(d)
    BY <1>1, <2>3 DEF CallReply, Return
  <2>4. CASE CallWriteFails(d) \/ CallCancelled(d) \/ CallEnded(d)
    BY <1>1, <2>4 DEF CallWriteFails, CallCancelled, CallEnded, Return
  <2> QED
    BY <1>2, <2>1, <2>2, <2>3, <2>4 DEF CallStep
<1>3. CASE \E d \in Calls : CallRegister(d) \/ CallStep(d)
  <2>1. ~LoopDeliver \/ call' = call
    BY DEF LoopDeliver
  <2> QED
    BY <1>2, <1>3, <2>1
<1>4. CASE UNCHANGED <<call, box>> \/ LoopDeliver
  BY <1>1, <1>4 DEF LoopDeliver
<1> QED
  BY <1>3, <1>4, CallSteps

\* What a step adds to the messages dispatched: one at most, and a response
\* only by finding nobody to route it to, or by the send to its call.
LEMMA NewlyDispatched ==
  ASSUME RunnerTypeInv, StreamInv, SidInv, [RunnerNext]_vars,
         NEW i \in 1 .. ntaken', Dispatched(i)'
  PROVE  /\ i \in 1 .. ntaken
         /\ \/ Dispatched(i)
            \/ i = ntaken /\ (DispatchResponse \/ LoopDeliver \/ Current.kind # "response")
<1>1. ntaken \in Nat
  BY DEF RunnerTypeInv, RunnerTypeOK, TransportTypeOK
<1> USE DEF Dispatched
<1>2. CASE LoopReceive
  BY <1>1, <1>2 DEF LoopReceive, Receive
<1>3. CASE Aside
  BY <1>1, <1>3 DEF Aside
<1>4. CASE LoopStart \/ LoopEnd \/ LoopCloseOut \/ LoopCloseRunDone
  BY <1>1, <1>4 DEF LoopStart, LoopEnd, LoopCloseOut, LoopCloseRunDone, tvars, SidInv
<1>5. CASE LoopForward \/ LoopDeliver
  BY <1>1, <1>5 DEF LoopForward, LoopDeliver, tvars, StreamInv, Forwarded
<1>6. CASE Dispatch
  BY <1>1, <1>6
  DEF Dispatch, DispatchForward, DispatchResponse, DispatchRequest, DispatchCancel, tvars,
      Forwarded
<1> QED
  BY <1>2, <1>3, <1>4, <1>5, <1>6, StreamSteps

-----------------------------------------------------------------------------
ReplyInv ==
  /\ FirstReplyWins
  /\ Asked /\ Answered
  /\ \A c \in Calls : call[c] = "ok" => box[c] # 0
  /\ \A c \in Calls : Delivering(c) => \A j \in 1 .. ntaken - 1 : ~IsResponse(j, c)

ReplyBase == RunnerTypeInv /\ PendingInv /\ StreamInv /\ SidInv

LEMMA ReplyStep ==
  ReplyBase /\ ReplyBase' /\ ReplyInv /\ [RunnerNext]_vars => ReplyInv'
<1> SUFFICES ASSUME ReplyBase, ReplyBase', ReplyInv, [RunnerNext]_vars
             PROVE  ReplyInv'
  OBVIOUS
<1>1. RunnerTypeInv /\ RunnerTypeInv' /\ PendingInv /\ StreamInv /\ SidInv
  BY DEF ReplyBase
<1>2. Asked' /\ Answered'
  BY <1>1, AskedStep DEF ReplyInv
<1>3. \A n \in 1 .. ntaken : msgs'[n] = msgs[n] /\ emitted'[msgs[n]] = emitted[msgs[n]]
  BY <1>1, ReceivedStay
<1>4. /\ ntaken \in Nat /\ ntaken' \in Nat /\ ntaken <= ntaken'
      /\ call \in [Calls -> {"idle", "write", "wait", "ok", "error"}]
      /\ box \in [Calls -> 0 .. nread]
  <2>1. ntaken \in Nat /\ ntaken' \in Nat
    BY <1>1 DEF RunnerTypeInv, RunnerTypeOK, TransportTypeOK
  <2>2. ntaken' = ntaken \/ ntaken' = ntaken + 1
    BY OnlyLoopReceives DEF LoopReceive, Receive
  <2> QED
    BY <1>1, <2>1, <2>2 DEF RunnerTypeInv, RunnerTypeOK
<1>5. CASE LoopDeliver
  <2> DEFINE d == Current.id
  <2>1. /\ loop = "deliver" /\ loop' = "recv" /\ ntaken' = ntaken /\ call' = call
        /\ UNCHANGED <<msgs, emitted>> /\ ntaken > 0 /\ IsResponse(ntaken, d)
        /\ box' = IF box[d] = 0 THEN [box EXCEPT ![d] = msgs[ntaken]] ELSE box
    <3>1. loop = "deliver" /\ Current.kind = "response"
      BY <1>1, <1>5 DEF LoopDeliver, PendingInv
    <3> QED
      BY <1>1, <1>5, <3>1
      DEF LoopDeliver, tvars, RunnerTypeInv, Working, IsResponse, Current
  <2>2. msgs[ntaken] # 0
    <3>1. msgs[ntaken] \in 1 .. nread
      BY <1>1, <2>1, CurrentTyped
    <3>2. nread \in Nat
      BY <1>1 DEF RunnerTypeInv, RunnerTypeOK, TransportTypeOK
    <3> QED
      BY <3>1, <3>2
  <2>3. ASSUME NEW c \in Calls, c # d
        PROVE  box'[c] = box[c] /\ ~IsResponse(ntaken, c)
    BY <1>4, <2>1, <2>3 DEF IsResponse
  <2>4. d \in Calls => box'[d] = msgs[ntaken] /\ \A j \in 1 .. ntaken - 1 : ~IsResponse(j, d)
    <3> SUFFICES ASSUME d \in Calls
                 PROVE  box'[d] = msgs[ntaken] /\ \A j \in 1 .. ntaken - 1 : ~IsResponse(j, d)
      OBVIOUS
    <3>1. Delivering(d)
      BY <2>1 DEF Delivering
    <3>2. box[d] = 0
      BY <1>1, <3>1 DEF PendingInv
    <3> QED
      BY <1>4, <2>1, <3>1, <3>2 DEF ReplyInv
  <2>5. ASSUME NEW c \in Calls
        PROVE  /\ box'[c] # 0 =>
                    \E i \in 1 .. ntaken :
                      /\ msgs[i] = box'[c] /\ IsResponse(i, c)
                      /\ \A j \in 1 .. i - 1 : ~IsResponse(j, c)
               /\ call[c] = "ok" => box'[c] # 0
               /\ call[c] \in {"wait", "ok"} /\ (\E i \in 1 .. ntaken : IsResponse(i, c))
                    => box'[c] # 0
    <3>1. CASE c = d
      BY <1>4, <2>1, <2>2, <2>4, <3>1
    <3>2. CASE c # d
      <4>1. \A i \in 1 .. ntaken : IsResponse(i, c) => Dispatched(i)
        BY <1>4, <2>3, <3>2 DEF Dispatched
      <4> QED
        BY <2>3, <3>2, <4>1 DEF ReplyInv, FirstReplyWins
    <3> QED
      BY <3>1, <3>2
  <2>6. FirstReplyWins'
    BY <2>1, <2>5 DEF FirstReplyWins, IsResponse, Dispatched
  <2>7. /\ \A c \in Calls : call'[c] = "ok" => box'[c] # 0
        /\ \A c \in Calls : ~Delivering(c)'
    BY <2>1, <2>5 DEF Delivering
  <2> QED
    BY <1>2, <2>6, <2>7 DEF ReplyInv
<1>6. ASSUME DispatchResponse
      PROVE  /\ loop = "dispatch" /\ ntaken' = ntaken /\ call' = call
             /\ UNCHANGED <<msgs, emitted>> /\ Current' = Current
             /\ loop' = IF Current.id \in pending THEN "deliver" ELSE "recv"
             /\ pending = {c \in Calls : Active(c) /\ box[c] = 0}
  BY <1>1, <1>6 DEF DispatchResponse, tvars, Current, PendingInv, PendingExact, Delivering
<1>7. CASE ~LoopDeliver
  <2>1. \A c \in Calls : box'[c] = box[c]
    BY <1>1, <1>7, CallMoves
  <2>2. ASSUME NEW c \in Calls
        PROVE  call'[c] = "ok" => box[c] # 0
    BY <1>1, <2>2, CallMoves DEF ReplyInv
  <2>3. ASSUME NEW c \in Calls, box[c] # 0
        PROVE  \E i \in 1 .. ntaken' :
                 /\ msgs'[i] = box[c] /\ IsResponse(i, c)'
                 /\ \A j \in 1 .. i - 1 : ~IsResponse(j, c)'
    <3>1. PICK i \in 1 .. ntaken : /\ msgs[i] = box[c] /\ IsResponse(i, c)
                                   /\ \A j \in 1 .. i - 1 : ~IsResponse(j, c)
      BY <2>3 DEF ReplyInv, FirstReplyWins
    <3> QED
      BY <1>3, <1>4, <3>1 DEF IsResponse
  <2>4. ASSUME NEW c \in Calls, call'[c] \in {"wait", "ok"},
               NEW i \in 1 .. ntaken', Dispatched(i)', IsResponse(i, c)'
        PROVE  box[c] # 0
    <3>1. i \in 1 .. ntaken /\ IsResponse(i, c)
          /\ (Dispatched(i) \/ (i = ntaken /\ DispatchResponse))
      BY <1>1, <1>3, <1>4, <1>7, <2>4, NewlyDispatched DEF IsResponse, Current
    <3>2. CASE Dispatched(i)
      <4>1. call[c] \notin {"idle", "write"}
        BY <1>1, <3>1, NoneYet DEF ReplyInv
      <4>2. call[c] \in {"wait", "ok"} \/ box[c] # 0
        BY <1>1, <1>4, <2>4, <4>1, CallMoves
      <4> QED
        BY <3>1, <3>2, <4>2 DEF ReplyInv, FirstReplyWins
    <3>3. CASE i = ntaken /\ DispatchResponse
      <4>1. Current.id = c /\ loop' = "recv"
        BY <1>4, <1>6, <2>4, <3>1, <3>3 DEF IsResponse, Current, Dispatched
      <4>2. c \notin pending /\ call[c] \in {"wait", "ok"}
        BY <1>6, <2>4, <3>3, <4>1
      <4> QED
        BY <1>6, <3>3, <4>2 DEF Active, ReplyInv
    <3> QED
      BY <3>1, <3>2, <3>3
  <2>5. ASSUME NEW c \in Calls, Delivering(c)', NEW j \in 1 .. ntaken' - 1
        PROVE  ~IsResponse(j, c)'
    <3>1. CASE loop = "deliver"
      <4>1. ntaken' = ntaken
        BY <3>1, OnlyLoopReceives DEF LoopReceive
      <4>2. Delivering(c)
        BY <1>1, <2>5, <3>1, <4>1, CurrentStays DEF Delivering
      <4> QED
        BY <1>3, <1>4, <2>5, <4>1, <4>2 DEF ReplyInv, IsResponse
    <3>2. CASE loop # "deliver"
      <4>1. loop' = "deliver"
        BY <2>5 DEF Delivering
      <4>2. DispatchResponse
        BY <1>1, <3>2, <4>1, StreamSteps
        DEF Aside, LoopStart, LoopReceive, LoopEnd, Dispatch, DispatchForward, AfterMessage,
            DispatchRequest, DispatchCancel, LoopForward, LoopDeliver, LoopCloseOut,
            LoopCloseRunDone
      <4>3. Active(c) /\ box[c] = 0
        BY <1>6, <2>5, <4>1, <4>2 DEF Delivering
      <4>4. j \in 1 .. ntaken /\ Dispatched(j)
        BY <1>4, <1>6, <4>2 DEF Dispatched
      <4>5. ~IsResponse(j, c)
        BY <1>1, <4>3, <4>4, NoneYet DEF Active, ReplyInv, FirstReplyWins
      <4> QED
        BY <1>3, <4>4, <4>5 DEF IsResponse
    <3> QED
      BY <3>1, <3>2
  <2>6. FirstReplyWins'
    BY <2>1, <2>3, <2>4 DEF FirstReplyWins
  <2> QED
    BY <1>2, <2>1, <2>2, <2>5, <2>6 DEF ReplyInv
<1> QED
  BY <1>5, <1>7

\* A call that waits, or returned a reply, has the first response with its id
\* that the loop dispatched, whatever duplicates and foreign replies the CLI
\* sends and however many calls are under way.
THEOREM FirstReplyIsTaken == RunnerSpec => []FirstReplyWins
<1>1. RunnerInit => ReplyInv
  <2> SUFFICES ASSUME RunnerInit PROVE ReplyInv
    OBVIOUS
  <2>1. Len(wrote) = 0 /\ Len(emitted) = 0 /\ ntaken = 0
    BY EmptySeq DEF RunnerInit, TransportInit
  <2> QED
    BY <2>1 DEF RunnerInit, ReplyInv, FirstReplyWins, Asked, Answered, Delivering
<1>2. RunnerInit => PendingInv /\ SidInv
  BY DEF RunnerInit, TransportInit, PendingInv, PendingExact, Active, Delivering,
         SidInv, SidFromFirst
<1>3. RunnerSpec => []ReplyBase
  BY <1>2, PendingStep, SidStep, RunnerTypeInvHolds, FlowInvHolds, PTL
  DEF RunnerSpec, ReplyBase, FlowInv
<1>4. ReplyInv => FirstReplyWins
  BY DEF ReplyInv
<1> QED
  BY <1>1, <1>3, <1>4, ReplyStep, PTL DEF RunnerSpec

-----------------------------------------------------------------------------
(* The end of the stream. *)

\* What is over stays over: the pump, and the CLI.
LEMMA OverForGood ==
  ASSUME LifeCycle, [TransportNext]_tvars
  PROVE  /\ reader = "done" => reader' = "done" /\ nread' = nread
         /\ child \in {"exited", "reaped"} =>
              child' \in {"exited", "reaped"} /\ emitted' = emitted
BY DEF LifeCycle, TransportNext, tvars, Initialize, LaunchRefused, WritePayload,
       SpawnFails, Spawn, CliEmit, Cli, CliHear, CliExit, ContextKill, Reader, ReaderScan,
       ReaderPush, ReaderEOF, CloseProgress, CloseInterrupt, CloseKill, Reap, CloseFinish,
       CloseBegin, Receive, WriteAccepted, CancelContext, closeVars, outVars, inVars,
       procVars

\* Before runLoop is through, only the user can have shut the runner down.
ShutterInv ==
  /\ loop # "rundone" => closer["loop"] = "no"
  /\ closed => once # "free"
  /\ once \in Closers => closer[once] # "no"
  /\ once = "done" => closer["loop"] # "no" \/ closer["user"] # "no"

UserShut == closer["user"] # "no"

LEMMA ClosedByShutdown ==
  [RunnerNext]_vars /\ closed' # closed => once \in Closers /\ UNCHANGED rvars
<1> SUFFICES ASSUME [RunnerNext]_vars, ~ShutdownTransport PROVE closed' = closed
  BY DEF ShutdownTransport
<1>1. CASE Below
  BY <1>1
  DEF Below, BelowSdk, AnyCli, CliSays, Initialize, LaunchRefused, WritePayload, SpawnFails,
      Spawn, CliEmit, Cli, CliHear, CliExit, ContextKill, Reader, ReaderScan, ReaderPush,
      ReaderEOF, CloseProgress, CloseInterrupt, CloseKill, Reap, CloseFinish,
      CancelContext, closeVars
<1>2. CASE Loop
  BY <1>2
  DEF Loop, LoopStart, LoopReceive, Receive, LoopEnd, Dispatch, DispatchForward,
      DispatchResponse, DispatchRequest, DispatchCancel, LoopForward, LoopDeliver,
      LoopCloseOut, LoopCloseRunDone, tvars, closeVars
<1> QED
  BY <1>1, <1>2
  DEF RunnerNext, RunnerCore, RunnerOwn, vars, tvars, CallStep, CallWrite, CallWriteFails,
      CallReply, CallCancelled, CallEnded, Return, HandlerStep, HandlerDecide,
      AnswerWritten, AnswerDropped, CallbackReturns, ShutdownStep, ShutdownEnter,
      ShutdownLeave, ShutdownJoin, User, PromptWrite, CallRegister, Consume, UserShutdown,
      WriteAccepted, closeVars

\* The steps that concern shutdown.
LEMMA ShutdownSteps ==
  [RunnerNext]_vars =>
    \/ UNCHANGED <<once, closer>> /\ (loop' = "rundone" <=> loop = "rundone")
    \/ LoopCloseRunDone \/ UserShutdown \/ (\E k \in Closers : ShutdownStep(k))
BY DEF RunnerNext, RunnerCore, RunnerOwn, vars, rvars, Below, BelowSdk, AnyCli, Loop,
       LoopStart, LoopReceive, LoopEnd, Dispatch, DispatchForward, DispatchResponse,
       DispatchRequest, DispatchCancel, AfterMessage, LoopForward, LoopDeliver,
       LoopCloseOut, CallStep, CallWrite, CallWriteFails, CallReply, CallCancelled,
       CallEnded, Return, HandlerStep, HandlerDecide, AnswerWritten, AnswerDropped,
       CallbackReturns, ShutdownTransport, User, PromptWrite, CallRegister, Consume,
       downVars

LEMMA ShutterStep ==
  RunnerTypeInv /\ ShutterInv /\ [RunnerNext]_vars
    => ShutterInv' /\ (UserShut => UserShut')
<1> SUFFICES ASSUME RunnerTypeInv, ShutterInv, [RunnerNext]_vars
             PROVE  ShutterInv' /\ (UserShut => UserShut')
  OBVIOUS
<1>1. closed' = closed \/ (once \in Closers /\ once' = once)
  BY ClosedByShutdown DEF rvars
<1>2. /\ once \in {"free", "done"} \cup Closers
      /\ closer \in [Closers -> {"no", "called", "done"}]
  BY DEF RunnerTypeInv, RunnerTypeOK
<1> USE DEF ShutterInv, UserShut, Closers
<1>3. CASE UNCHANGED <<once, closer>> /\ (loop' = "rundone" <=> loop = "rundone")
  BY <1>1, <1>2, <1>3
<1>4. CASE LoopCloseRunDone \/ UserShutdown
  BY <1>1, <1>2, <1>4 DEF LoopCloseRunDone, UserShutdown
<1>5. ASSUME NEW k \in Closers, ShutdownStep(k)
      PROVE  ShutterInv' /\ (UserShut => UserShut')
  <2>1. CASE ShutdownEnter(k)
    BY <1>1, <1>2, <2>1 DEF ShutdownEnter
  <2>2. CASE ShutdownLeave(k)
    BY <1>1, <1>2, <2>2 DEF ShutdownLeave
  <2>3. CASE ShutdownJoin(k)
    BY <1>1, <1>2, <2>3 DEF ShutdownJoin
  <2> QED
    BY <1>5, <2>1, <2>2, <2>3 DEF ShutdownStep
<1> QED
  BY <1>3, <1>4, <1>5, ShutdownSteps

-----------------------------------------------------------------------------
\* Why runLoop was left.
EndInv ==
  loop \in LeftLoop =>
    \/ UserShut
    \/ OneShot /\ Len(out) > 0 /\ emitted[out[Len(out)]].kind = "result"
    \/ \E k \in 1 .. nread : emitted[k].kind = "oversized"
    \/ /\ child \in {"exited", "reaped"}
       /\ \A k \in 1 .. Len(emitted) : Forwarded(emitted[k]) => OnOut(k)

\* The loop that finds the channel closed and empty, by no doing of the user,
\* has put all of it on r.out.
LEMMA EndIsComplete ==
  ASSUME FlowInv, EndOfStreamJustified, ShutterInv, LoopEnd, ~UserShut
  PROVE  EndInv'
<1>1. /\ loop = "recv" /\ reader = "done" /\ ntaken = Len(msgs)
      /\ UNCHANGED tvars /\ out' = out
  BY DEF LoopEnd, MsgsClosed
<1>2. ~closed /\ ~RClosed
  BY <1>1 DEF ShutterInv, UserShut, RClosed, FlowInv, RunnerTypeInv, RunnerTypeOK, Closers
<1>3. CASE \E k \in 1 .. nread : emitted[k].kind = "oversized"
  BY <1>1, <1>3 DEF EndInv, tvars
<1>4. CASE child # "running" /\ nread = Len(emitted)
  <2>1. child \in {"exited", "reaped"}
    BY <1>1, <1>4 DEF FlowInv, PumpInv, LifeCycle, TransportTypeOK
  <2>2. ASSUME NEW k \in 1 .. Len(emitted), Forwarded(emitted[k])
        PROVE  OnOut(k)
    <3>1. PICK n \in 1 .. Len(msgs) : msgs[n] = k
      BY <1>1, <1>2, <1>4, <2>2 DEF FlowInv, PumpInv, MsgsGapFree, Parses, Forwarded
    <3> QED
      BY <1>1, <1>2, <2>2, <3>1 DEF FlowInv, StreamInv, Worked, StillDelivers
  <2> QED
    BY <1>1, <2>1, <2>2 DEF EndInv, OnOut, tvars
<1> QED
  BY <1>1, <1>2, <1>3, <1>4 DEF EndOfStreamJustified

LEMMA EndStep ==
  /\ FlowInv /\ FlowInv' /\ EndOfStreamJustified /\ ShutterInv /\ EndInv
  /\ [RunnerNext]_vars
  => EndInv'
<1> SUFFICES ASSUME FlowInv, FlowInv', EndOfStreamJustified, ShutterInv, EndInv,
                    [RunnerNext]_vars
             PROVE  EndInv'
  OBVIOUS
<1>1. /\ RunnerTypeInv /\ RunnerTypeInv' /\ LifeCycle /\ [TransportNext]_tvars
      /\ TransportTypeOK /\ TransportTypeOK'
  BY StepSimulates DEF FlowInv, PumpInv
<1>2. UserShut => UserShut'
  BY <1>1, ShutterStep
<1>3. RClosed /\ loop # "rundone" => UserShut
  BY <1>1 DEF RClosed, ShutterInv, UserShut, RunnerTypeInv, RunnerTypeOK, Closers
<1>4. CASE UserShut
  BY <1>2, <1>4 DEF EndInv
<1>5. CASE loop \in LeftLoop /\ out' = out
  <2>1. /\ Len(out) \in Nat /\ nread \in 0 .. Len(emitted)
        /\ \A i \in 1 .. Len(out) : emitted'[out[i]] = emitted[out[i]]
        /\ \A k \in 1 .. Len(emitted) : emitted'[k] = emitted[k]
        /\ nread \in Nat /\ nread' \in Nat /\ nread <= nread' /\ Len(emitted) \in Nat
    <3>1. \A i \in 1 .. Len(out) : emitted'[out[i]] = emitted[out[i]]
      BY <1>1, SentStay
    <3>2. \A k \in 1 .. Len(emitted) : emitted'[k] = emitted[k]
      BY <1>1, LogsGrow
    <3>3. out \in Seq(1 .. nread) /\ nread \in 0 .. Len(emitted)
      BY <1>1 DEF RunnerTypeInv, RunnerTypeOK, TransportTypeOK
    <3>4. nread \in Nat /\ nread' \in Nat /\ nread <= nread'
      BY <1>1, PositionsWiden DEF RunnerTypeInv
    <3>5. Len(emitted) \in Nat
      BY <1>1, LogsGrow
    <3> QED
      BY <3>1, <3>2, <3>3, <3>4, <3>5, LenProperties
  <2>2. CASE OneShot /\ Len(out) > 0 /\ emitted[out[Len(out)]].kind = "result"
    BY <1>5, <2>1, <2>2 DEF EndInv
  <2>3. CASE \E k \in 1 .. nread : emitted[k].kind = "oversized"
    <3>1. PICK k \in 1 .. nread : emitted[k].kind = "oversized"
      BY <2>3
    <3>2. k \in 1 .. nread' /\ k \in 1 .. Len(emitted)
      BY <2>1
    <3> QED
      BY <2>1, <3>1, <3>2 DEF EndInv
  <2>4. CASE /\ child \in {"exited", "reaped"}
             /\ \A k \in 1 .. Len(emitted) : Forwarded(emitted[k]) => OnOut(k)
    BY <1>1, <1>5, <2>4, OverForGood DEF EndInv, OnOut
  <2> QED
    BY <1>4, <1>5, <2>2, <2>3, <2>4 DEF EndInv
<1>6. CASE LoopForward
  <2>1. loop = "forward" /\ out' = Append(out, msgs[ntaken]) /\ emitted' = emitted
        /\ (loop' = "recv" \/ (OneShot /\ emitted[msgs[ntaken]].kind = "result"))
    BY <1>6 DEF LoopForward, AfterMessage, Current, tvars
  <2>2. msgs[ntaken] \in 1 .. nread /\ out \in Seq(1 .. nread)
    BY <1>1, <2>1, CurrentTyped DEF RunnerTypeInv, RunnerTypeOK
  <2>3. Len(out') = Len(out) + 1 /\ out'[Len(out) + 1] = msgs[ntaken] /\ Len(out) \in Nat
    BY <2>1, <2>2, LogAppend
  <2> QED
    BY <2>1, <2>3 DEF EndInv, LeftLoop
<1>7. CASE LoopReceive
  BY <1>3, <1>4, <1>7 DEF LoopReceive, EndInv, LeftLoop
<1>8. CASE LoopEnd
  BY <1>4, <1>8, EndIsComplete
<1>9. CASE Dispatch
  BY <1>3, <1>4, <1>9
  DEF Dispatch, DispatchForward, DispatchResponse, DispatchRequest, DispatchCancel, EndInv,
      LeftLoop
<1>10. CASE LoopStart \/ LoopDeliver \/ Aside
  BY <1>5, <1>10 DEF LoopStart, LoopDeliver, Aside, EndInv, LeftLoop
<1>11. CASE LoopCloseOut \/ LoopCloseRunDone
  BY <1>5, <1>11 DEF LoopCloseOut, LoopCloseRunDone, LeftLoop
<1> QED
  BY <1>1, <1>6, <1>7, <1>8, <1>9, <1>10, <1>11, StreamSteps

\* If the user did not shut the runner down and the CLI kept its lines under the
\* scanner's limit, r.out closes only after the result of a one-shot query, or
\* with the CLI gone and every agent message it ever wrote on r.out.
THEOREM StreamIsComplete == RunnerSpec => []StreamComplete
<1>1. RunnerInit => ShutterInv /\ EndInv
  BY DEF RunnerInit, TransportInit, ShutterInv, EndInv, LeftLoop, Closers
<1>2. RunnerSpec => []EndOfStreamJustified
  BY RunnerUsesTransport, StreamEndJustified, PTL
<1>3. RunnerSpec => []ShutterInv
  BY <1>1, ShutterStep, RunnerTypeInvHolds, PTL DEF RunnerSpec
<1>4. EndInv => StreamComplete
  BY EmptySeq DEF EndInv, StreamComplete, ResultIsLast, OutClosed, LeftLoop, UserShut, OnOut
<1> QED
  BY <1>1, <1>2, <1>3, <1>4, EndStep, FlowInvHolds, PTL DEF RunnerSpec
================================================================================
