--------------------------- MODULE ConversationProofs ---------------------------
(***************************************************************************)
(* Theorems about Conversation for all values of the constants: any number *)
(* of prompts, timeouts and places where the CLI is killed, any            *)
(* capacities.  The fake CLI is one that Session allows, so that every     *)
(* theorem about a session holds in a conversation; the results that       *)
(* ReceiveResponse returns are those of the turns in their order; and a    *)
(* switch of the model holds for the turns written after it.               *)
(***************************************************************************)
EXTENDS Conversation, SessionProofs, RunnerEndProofs, FiniteSetTheorems

-----------------------------------------------------------------------------
(* What the fake CLI has done with its input. *)

\* From the prompt to the result of a turn.
InTurn == {"tool", "ask", "await tool", "hook", "await hook", "assistant", "result"}

\* The lines put aside, and those acted on, by their positions in stdin.
Stashed == {stash[i] : i \in 1 .. Len(stash)}
Taken == (1 .. nheard) \ Stashed
TakenPrompts == {j \in Taken : wrote[j] \in Prompts}

AskedFor(q) == \E k \in 1 .. Len(emitted) : emitted[k] = Asks(q)

\* Each user message is written once, by its Send.
PromptInv ==
  /\ DOMAIN prompt = Prompts
  /\ \A p \in Prompts :
       prompt[p] \in {"idle", "write"} => \A i \in 1 .. Len(wrote) : wrote[i] # p
  /\ \A i, j \in 1 .. Len(wrote) : wrote[i] = wrote[j] /\ wrote[i] \in Prompts => i = j

\* Where main is says what it has answered and asked.
PlaceInv ==
  /\ cli \in {"boot", "read", "reply", "models", "leave", "exited"} \cup InTurn
  /\ job \in Calls /\ turn \in Nat /\ model \in {"efficient", "chosen"}
  /\ cli = "reply" => \E i \in 1 .. nheard : wrote[i] = job
  /\ turn = 0 => cli \notin InTurn
  /\ cli \in {"tool", "ask", "await tool", "hook"} => turn = 1
  /\ AskedFor(AskTool) => turn # 0 /\ cli \notin {"tool", "ask"}
  /\ AskedFor(AskHook) => turn # 0 /\ cli \notin {"tool", "ask", "await tool", "hook"}

\* What is still to be acted on comes after all that was, but for the answers
\* that lines were put aside for.
Ahead == (1 .. Len(wrote)) \ Taken
StashOK ==
  /\ stash \in Seq(1 .. nheard)
  /\ \A i, j \in 1 .. Len(stash) : i < j => stash[i] < stash[j]
OrderInv ==
  /\ StashOK
  /\ \A i \in Ahead, j \in Taken : wrote[j] \notin Requests => j < i
  /\ turn = Cardinality(TakenPrompts)

FakeInv == TransportTypeOK /\ PromptInv /\ PlaceInv /\ OrderInv

-----------------------------------------------------------------------------
(* The steps of a conversation that are not those of the fake CLI. *)

LEMMA RunnerOwnIsQuiet == RunnerOwn => UNCHANGED <<emitted, nheard>>
BY DEF RunnerOwn, Loop, LoopStart, LoopReceive, LoopEnd, Dispatch, DispatchForward,
       DispatchResponse, DispatchRequest, DispatchCancel, LoopForward, LoopDeliver,
       LoopCloseOut, LoopCloseRunDone, CallStep, CallWrite, CallWriteFails, CallReply,
       CallCancelled, CallEnded, Return, HandlerStep, HandlerDecide, AnswerWritten,
       AnswerDropped, CallbackReturns, ShutdownTransport, ShutdownStep, ShutdownEnter,
       ShutdownLeave, ShutdownJoin, Receive, WriteAccepted, CloseBegin, tvars, outVars,
       inVars

LEMMA SessionGoesOn ==
  ASSUME SessionGoes
  PROVE  SessionNext /\ UNCHANGED <<emitted, nheard>>
<1>1. CASE (Initialize \/ Reader \/ CloseProgress) /\ UNCHANGED <<rvars, svars>>
  <2>1. SessionNext
    BY <1>1 DEF SessionNext, RunnerStep, RunnerCore, Below, BelowSdk
  <2> QED
    BY <1>1, <2>1
    DEF Initialize, LaunchRefused, WritePayload, SpawnFails, Spawn, Reader, ReaderScan,
        ReaderPush, ReaderEOF, CloseProgress, CloseInterrupt, CloseKill, Reap, CloseFinish,
        outVars, inVars
<1>2. CASE RunnerOwn /\ UNCHANGED svars
  BY <1>2, RunnerOwnIsQuiet DEF SessionNext, RunnerStep, RunnerCore
<1>3. CASE NewSession
  BY <1>3
  DEF SessionNext, NewSession, StartFails, HandshakeBegin, HandshakeFails, HandshakeDone,
      WaitTest, WaitDone, WaitRunDone, WaitCancelled, SetupFailed, CallRegister,
      UserShutdown, vars, tvars
<1>4. CASE Tee
  BY <1>4 DEF SessionNext, Tee, TeeTake, TeeSend, TeeStop, TeeEnd, Consume, vars, tvars
<1>5. ASSUME NEW c \in {SetModel, EndCall}, MethodGoes(c)
      PROVE  SessionNext /\ UNCHANGED <<emitted, nheard>>
  <2>1. c \in Methods \cup {EndCall}
    BY FakeCliAssumption
  <2> QED
    BY <1>5, <2>1
    DEF SessionNext, MethodGoes, MethodRegister, MethodResult, MethodTimeout, MethodClosed,
        MethodReturns, CallRegister, vars, tvars
<1>6. ASSUME NEW p \in Prompts, SendFails(p)
      PROVE  SessionNext /\ UNCHANGED <<emitted, nheard>>
  BY <1>6 DEF SessionNext, SendFails, vars, tvars
<1>7. CASE CloseShutdown \/ CloseDone
  BY <1>7 DEF SessionNext, CloseShutdown, CloseDone, UserShutdown, vars, tvars
<1> QED
  BY <1>1, <1>2, <1>3, <1>4, <1>5, <1>6, <1>7 DEF SessionGoes

LEMMA WorldStep ==
  ASSUME [ConvNext]_convVars, ~Fake
  PROVE  [SessionNext]_allVars /\ UNCHANGED <<fvars, emitted, nheard>>
<1>1. CASE SessionGoes /\ UNCHANGED <<fvars, hvars>>
  BY <1>1, SessionGoesOn
<1>2. CASE FakeKilled
  BY <1>2 DEF FakeKilled, SessionNext, RunnerStep, RunnerCore, Below, AnyCli, Cli, CliExit,
              outVars, inVars
<1>3. CASE HostSends
  <2>1. PICK p \in Prompts : p = NextPrompt
    BY <1>3 DEF HostSends, NextPrompt
  <2> QED
    BY <1>3, <2>1 DEF HostSends, SendLock, SessionNext, vars, tvars
<1>4. ASSUME NEW p \in Prompts, HostWritten(p)
      PROVE  [SessionNext]_allVars /\ UNCHANGED <<fvars, emitted, nheard>>
  BY <1>4 DEF HostWritten, SessionNext, SendWrite, PromptWrite, WriteAccepted, outVars
<1>5. CASE Receiving
  BY <1>5 DEF Receiving, ReceiveTakes, ReceiveEnds, SessionNext, EventTake, fakeVars,
              allVars, vars, tvars
<1>6. CASE ReceiveTimeout \/ HostAsksAgain \/ UNCHANGED convVars
  BY <1>6 DEF ReceiveTimeout, HostAsksAgain, convVars, fakeVars, allVars, vars, tvars
<1>7. CASE HostSetsModel
  BY <1>7, FakeCliAssumption DEF HostSetsModel, MethodStart, SessionNext, vars, tvars
<1>8. CASE HostCloses
  BY <1>8 DEF HostCloses, CloseStart, SessionNext, vars, tvars
<1> QED
  BY <1>1, <1>2, <1>3, <1>4, <1>5, <1>6, <1>7, <1>8 DEF ConvNext

-----------------------------------------------------------------------------
(* The fake CLI says what Session lets a CLI say. *)

\* Each turn has a prompt of its own.
LEMMA TurnIsBounded ==
  ASSUME FakeInv
  PROVE  /\ IsFiniteSet(TakenPrompts) /\ turn <= Cardinality(Prompts)
         /\ Cardinality(Prompts) \in Nat /\ turn \in Turns
<1> DEFINE name == [j \in TakenPrompts |-> wrote[j]]
<1>1. wrote \in Seq(Writers) /\ nheard \in 0 .. Len(wrote) /\ Len(wrote) \in Nat
  BY LenProperties DEF FakeInv, TransportTypeOK
<1>2. TakenPrompts \subseteq 1 .. Len(wrote)
  BY <1>1 DEF TakenPrompts, Taken
<1>3. name \in Injection(TakenPrompts, Prompts)
  BY <1>2 DEF Injection, IsInjective, TakenPrompts, FakeInv, PromptInv
<1>4. IsFiniteSet(Prompts) /\ Cardinality(Prompts) \in Nat
  BY FakeCliAssumption, FS_CardinalityType
<1>5. IsFiniteSet(TakenPrompts) /\ Cardinality(TakenPrompts) <= Cardinality(Prompts)
  BY <1>3, <1>4, FS_Injection
<1>6. turn \in Nat /\ turn = Cardinality(TakenPrompts)
  BY DEF FakeInv, OrderInv, PlaceInv
<1>7. turn \in 0 .. Cardinality(Prompts)
  BY <1>4, <1>5, <1>6
<1> QED
  BY <1>4, <1>5, <1>6, <1>7 DEF Turns

LEMMA ScriptedLine ==
  ASSUME FakeInv, FakeWrite
  PROVE  Line(cli) \in CliLines /\ CliSays(Line(cli))
<1>1. turn \in Turns /\ 0 \in Turns
  BY TurnIsBounded DEF Turns
<1>2. job \in Calls /\ AskTool \in Requests /\ AskHook \in Requests /\ model \in Models
  BY FakeCliAssumption DEF FakeInv, PlaceInv, Models
<1>3. FakeLines \subseteq CliLines /\ "none" \in Models /\ "efficient" \in Models
  BY FakeCliAssumption DEF Models
<1>4. CASE cli = "reply"
  <2>1. Line(cli) = Reply(job)
    BY <1>4 DEF Line
  <2>2. Reply(job).kind = "response" /\ Reply(job).id = job
    BY DEF Reply, Says
  <2>3. Reply(job) \in CliLines
    BY <1>2, <1>3 DEF FakeLines
  <2> QED
    BY <1>4, <2>1, <2>2, <2>3 DEF CliSays, FakeWrite, FakeInv, PlaceInv
<1>5. ASSUME NEW q \in Requests, Line(cli) = Asks(q), ~AskedFor(q)
      PROVE  Line(cli) \in CliLines /\ CliSays(Line(cli))
  <2>1. Asks(q).kind = "request"
    BY DEF Asks, Says
  <2>2. Asks(q) \in CliLines
    BY <1>3 DEF FakeLines
  <2> QED
    BY <1>5, <2>1, <2>2 DEF CliSays, FakeWrite, AskedFor
<1>6. CASE cli = "ask"
  BY <1>2, <1>5, <1>6 DEF Line, FakeInv, PlaceInv
<1>7. CASE cli = "hook"
  BY <1>2, <1>5, <1>7 DEF Line, FakeInv, PlaceInv
<1>8. ASSUME NEW k \in {"event", "result"}, NEW t \in Turns, NEW m \in Models,
             Line(cli) = Plain(k, t, m), k = "result" => m = "none"
      PROVE  Line(cli) \in CliLines /\ CliSays(Line(cli))
  <2>1. Plain(k, t, m) \in CliLines
    BY <1>3, <1>8 DEF FakeLines
  <2>2. Plain(k, t, m).kind = k
    BY DEF Plain, Says
  <2> QED
    BY <1>8, <2>1, <2>2 DEF CliSays, FakeWrite
<1>9. CASE cli \in {"boot", "models", "tool", "assistant", "result"}
  BY <1>1, <1>2, <1>3, <1>8, <1>9 DEF Line
<1> QED
  BY <1>4, <1>6, <1>7, <1>9 DEF FakeWrite

LEMMA FakeIsCli ==
  ASSUME FakeInv, Fake
  PROVE  [SessionNext]_allVars
<1>1. CASE FakeWrite
  <2>1. Line(cli) \in CliLines /\ CliSays(Line(cli)) /\ UNCHANGED <<rvars, svars>>
    BY <1>1, ScriptedLine DEF FakeWrite
  <2> QED
    BY <2>1 DEF SessionNext, RunnerStep, RunnerCore, Below, AnyCli
<1>2. CASE FakeRecall
  BY <1>2 DEF FakeRecall
<1>3. CASE FakeRead \/ FakeExit
  BY <1>3 DEF FakeRead, FakeExit, SessionNext, RunnerStep, RunnerCore, Below, AnyCli, Cli
<1>4. CASE Draining
  BY <1>4 DEF Draining, FakeDrain, FakeDrainEnds, SessionNext, RunnerStep, RunnerCore,
              Below, AnyCli, Cli
<1> QED
  BY <1>1, <1>2, <1>3, <1>4 DEF Fake

LEMMA ConversationSimulates == FakeInv /\ [ConvNext]_convVars => [SessionNext]_allVars
BY WorldStep, FakeIsCli

-----------------------------------------------------------------------------
(* User messages. *)

LEMMA WroteGrows ==
  ASSUME TransportTypeOK, TransportTypeOK', [TransportNext]_tvars
  PROVE  /\ Len(wrote) \in Nat /\ Len(wrote') \in Nat /\ Len(wrote) <= Len(wrote')
         /\ \A i \in 1 .. Len(wrote) : wrote'[i] = wrote[i]
         /\ nheard \in 0 .. Len(wrote)
<1>1. wrote \in Seq(Writers) /\ wrote' \in Seq(Writers) /\ nheard \in 0 .. Len(wrote)
  BY DEF TransportTypeOK
<1>2. wrote' = wrote \/ \E w \in Writers : wrote' = Append(wrote, w)
  BY DEF TransportNext, tvars, Initialize, LaunchRefused, WritePayload, SpawnFails, Spawn,
         CliEmit, Cli, CliHear, CliExit, ContextKill, Reader, ReaderScan, ReaderPush,
         ReaderEOF, CloseProgress, CloseInterrupt, CloseKill, Reap, CloseFinish, CloseBegin,
         Receive, WriteAccepted, CancelContext, inVars
<1> QED
  BY <1>1, <1>2, LogAppend, LenProperties

\* What a step of the session does to stdin and to its Sends.
SendStep(p) ==
  /\ wrote' = wrote
  /\ \E v \in {"write", "error"} :
       /\ v = "write" => prompt[p] = "idle" /\ \A p2 \in Prompts : ~Sending(p2)
       /\ prompt' = [prompt EXCEPT ![p] = v]

LEMMA SessionWrites ==
  [SessionNext]_allVars =>
    \/ UNCHANGED <<wrote, prompt>>
    \/ \E p \in Prompts : SendStep(p) \/ SendWrite(p)
    \/ \E w \in Calls \cup Requests : wrote' = Append(wrote, w) /\ prompt' = prompt
<1> SUFFICES ASSUME [SessionNext]_allVars, ~UNCHANGED <<wrote, prompt>>
             PROVE  \/ \E p \in Prompts : SendStep(p) \/ SendWrite(p)
                    \/ \E w \in Calls \cup Requests :
                         wrote' = Append(wrote, w) /\ prompt' = prompt
  OBVIOUS
<1>1. CASE RunnerStep
  <2>1. prompt' = prompt
    BY <1>1 DEF RunnerStep, svars
  <2>2. ~(Loop \/ ShutdownTransport \/ (\E k \in Closers : ShutdownStep(k)) \/ Below)
    BY <2>1
    DEF Loop, LoopStart, LoopReceive, LoopEnd, Dispatch, DispatchForward,
        DispatchResponse, DispatchRequest, DispatchCancel, LoopForward, LoopDeliver,
        LoopCloseOut, LoopCloseRunDone, ShutdownTransport, ShutdownStep, ShutdownEnter,
        ShutdownLeave, ShutdownJoin, Receive, CloseBegin, Below, BelowSdk, AnyCli,
        CliSays, CliEmit, Cli, CliHear, CliExit, Initialize, LaunchRefused, WritePayload,
        SpawnFails, Spawn, ContextKill, Reader, ReaderScan, ReaderPush, ReaderEOF,
        CloseProgress, CloseInterrupt, CloseKill, Reap, CloseFinish, CancelContext, tvars,
        inVars
  <2>3. (\E c \in Calls : CallWrite(c)) \/ \E q \in Requests : AnswerWritten(q)
    BY <1>1, <2>1, <2>2
    DEF RunnerStep, RunnerCore, RunnerOwn, CallStep, CallWriteFails, CallReply,
        CallCancelled, CallEnded, Return, HandlerStep, HandlerDecide, AnswerDropped,
        CallbackReturns, tvars
  <2> QED
    BY <2>1, <2>3 DEF CallWrite, AnswerWritten, WriteAccepted
<1>2. CASE NewSession
  BY <1>2
  DEF NewSession, StartFails, HandshakeBegin, HandshakeFails, HandshakeDone, WaitTest,
      WaitDone, WaitRunDone, WaitCancelled, SetupFailed, CallRegister, UserShutdown, vars,
      tvars
<1>3. ASSUME NEW p \in Prompts, SendLock(p) \/ SendWrite(p) \/ SendFails(p)
      PROVE  SendStep(p) \/ SendWrite(p)
  BY <1>3 DEF SendLock, SendFails, SendStep, vars, tvars
<1>4. CASE Tee \/ EventTake
  BY <1>4 DEF Tee, TeeTake, TeeSend, TeeStop, TeeEnd, EventTake, Consume, vars, tvars
<1> QED
  BY <1>1, <1>2, <1>3, <1>4
  DEF SessionNext, MethodStart, MethodGoes, MethodRegister, MethodResult, MethodTimeout,
      MethodClosed, MethodReturns, CloseStart, CloseShutdown, CloseDone, CallRegister,
      UserShutdown, allVars, svars, vars, tvars

LEMMA PromptStep ==
  ASSUME TransportTypeOK, PromptInv, [SessionNext]_allVars
  PROVE  PromptInv'
<1>1. wrote \in Seq(Writers) /\ Len(wrote) \in Nat
  BY LenProperties DEF TransportTypeOK
<1> USE DEF PromptInv
<1>2. ASSUME NEW w \in Writers, wrote' = Append(wrote, w)
      PROVE  /\ Len(wrote') = Len(wrote) + 1 /\ wrote'[Len(wrote) + 1] = w
             /\ \A i \in 1 .. Len(wrote) : wrote'[i] = wrote[i]
  BY <1>1, <1>2, LogAppend
<1>3. CASE UNCHANGED <<wrote, prompt>>
  BY <1>3
<1>4. ASSUME NEW p \in Prompts, SendStep(p)
      PROVE  PromptInv'
  BY <1>4 DEF SendStep
<1>5. ASSUME NEW p \in Prompts, SendWrite(p)
      PROVE  PromptInv'
  <2>1. /\ prompt[p] = "write" /\ prompt' = [prompt EXCEPT ![p] = "sent"]
        /\ wrote' = Append(wrote, p) /\ p \in Writers
    BY <1>5 DEF SendWrite, Sending, PromptWrite, WriteAccepted, Prompts
  <2> QED
    BY <1>1, <1>2, <2>1
<1>6. ASSUME NEW w \in Calls \cup Requests, wrote' = Append(wrote, w), prompt' = prompt
      PROVE  PromptInv'
  <2>1. w \in Writers /\ w \notin Prompts
    BY RunnerAssumption DEF Prompts
  <2> QED
    BY <1>1, <1>2, <1>6, <2>1
<1> QED
  BY <1>3, <1>4, <1>5, <1>6, SessionWrites

-----------------------------------------------------------------------------
(* How the fake CLI comes to its input. *)

\* main acts on the line at j: the next in order, whether put aside or not.
Takes(j) ==
  /\ j \in (1 .. nheard') \ Taken /\ nheard' \in nheard .. Len(wrote)
  /\ Taken' = Taken \cup {j}
  /\ \A i \in Taken : wrote[i] \notin Requests => i < j
  /\ \A i \in (1 .. Len(wrote)) \ Taken' : j < i
  /\ cli = "read" /\ Begin(wrote[j])
  /\ UNCHANGED <<wrote, emitted>>

LEMMA InputFacts ==
  ASSUME FakeInv
  PROVE  /\ Len(wrote) \in Nat /\ nheard \in 0 .. Len(wrote) /\ Len(stash) \in Nat
         /\ Stashed \subseteq 1 .. nheard /\ Taken \subseteq 1 .. nheard
         /\ Stashed = (1 .. nheard) \ Taken
<1>1. wrote \in Seq(Writers) /\ nheard \in 0 .. Len(wrote) /\ stash \in Seq(1 .. nheard)
  BY DEF FakeInv, TransportTypeOK, OrderInv, StashOK
<1>2. Len(wrote) \in Nat /\ Len(stash) \in Nat
  BY <1>1, LenProperties
<1>3. \A i \in 1 .. Len(stash) : stash[i] \in 1 .. nheard
  BY <1>1, ElementOfSeq
<1> QED
  BY <1>1, <1>2, <1>3 DEF Stashed, Taken

LEMMA RecallTakes ==
  ASSUME FakeInv, FakeRecall
  PROVE  Takes(Head(stash)) /\ StashOK'
<1> DEFINE j == Head(stash)
<1>1. /\ stash \in Seq(1 .. nheard) /\ stash # <<>> /\ stash' = Tail(stash)
      /\ UNCHANGED <<wrote, nheard, emitted>> /\ cli = "read" /\ Begin(wrote[j])
  BY DEF FakeInv, OrderInv, StashOK, FakeRecall, allVars, vars, tvars
<1>2. \A a, b \in 1 .. Len(stash) : a < b => stash[a] < stash[b]
  BY DEF FakeInv, OrderInv, StashOK
<1>3. /\ j \in 1 .. nheard /\ stash' \in Seq(1 .. nheard) /\ Len(stash') = Len(stash) - 1
      /\ \A i \in 1 .. Len(stash') : stash'[i] = stash[i + 1]
      /\ Len(stash) \in Nat \ {0}
  BY <1>1, HeadTailProperties, EmptySeq
<1>4. j = stash[1]
  BY <1>1
<1>5. StashOK'
  BY <1>1, <1>2, <1>3 DEF StashOK
<1>6. j \in Stashed /\ \A k \in Stashed' : k \in Stashed /\ j < k
  <2>1. j \in Stashed
    BY <1>3, <1>4 DEF Stashed
  <2>2. ASSUME NEW i \in 1 .. Len(stash')
        PROVE  stash'[i] \in Stashed /\ j < stash'[i]
    <3>1. i + 1 \in 1 .. Len(stash) /\ 1 \in 1 .. Len(stash) /\ 1 < i + 1
      BY <1>3
    <3>2. stash'[i] = stash[i + 1]
      BY <1>3
    <3>3. stash[1] < stash[i + 1]
      BY <1>2, <3>1
    <3> QED
      BY <1>4, <3>1, <3>2, <3>3 DEF Stashed
  <2> QED
    BY <2>1, <2>2 DEF Stashed
<1>7. Stashed = Stashed' \cup {j} /\ j \notin Stashed'
  <2>1. \A i \in 1 .. Len(stash) : i = 1 \/ (i - 1 \in 1 .. Len(stash') /\ stash[i] = stash'[i - 1])
    BY <1>3
  <2>2. Stashed \subseteq Stashed' \cup {j}
    BY <1>4, <2>1 DEF Stashed
  <2>3. \A k \in Stashed' : j < k
    BY <1>6
  <2> QED
    BY <1>3, <1>6, <2>2, <2>3
<1>8. Taken' = Taken \cup {j} /\ j \notin Taken
  BY <1>1, <1>3, <1>7 DEF Taken
<1>9. \A i \in Taken : wrote[i] \notin Requests => i < j
  <2>1. j \in Ahead
    BY <1>3, <1>8, InputFacts DEF Ahead
  <2> QED
    BY <2>1 DEF FakeInv, OrderInv
<1>10. \A i \in (1 .. Len(wrote)) \ Taken' : j < i
  <2> SUFFICES ASSUME NEW i \in (1 .. Len(wrote)) \ Taken' PROVE j < i
    OBVIOUS
  <2>1. CASE i \in 1 .. nheard
    BY <1>1, <1>6, <2>1 DEF Taken
  <2>2. CASE i \notin 1 .. nheard
    BY <1>3, <2>2, InputFacts
  <2> QED
    BY <2>1, <2>2
<1> QED
  BY <1>1, <1>3, <1>5, <1>8, <1>9, <1>10, InputFacts DEF Takes

LEMMA ReadTakes ==
  ASSUME FakeInv, FakeRead
  PROVE  Takes(nheard + 1) /\ StashOK'
<1>1. /\ stash = <<>> /\ stash' = <<>> /\ UNCHANGED <<wrote, emitted>> /\ nheard' = nheard + 1
      /\ nheard < Len(wrote) /\ cli = "read" /\ Begin(wrote[nheard + 1])
  BY DEF FakeRead, CliHear, outVars
<1>2. Len(stash) = 0 /\ Len(stash') = 0 /\ stash' \in Seq(1 .. nheard')
  BY <1>1, EmptySeq
<1>3. Stashed = {} /\ Stashed' = {}
  BY <1>2 DEF Stashed
<1>4. Taken = 1 .. nheard /\ Taken' = 1 .. nheard + 1
  BY <1>1, <1>3 DEF Taken
<1> QED
  BY <1>1, <1>2, <1>4, InputFacts DEF Takes, StashOK

LEMMA DrainHears ==
  ASSUME FakeInv, NEW at, NEW q \in Requests, NEW next, FakeDrain(at, q, next)
  PROVE  /\ nheard' = nheard + 1 /\ nheard < Len(wrote) /\ UNCHANGED <<wrote, emitted>>
         /\ Taken' = IF wrote[nheard + 1] = q THEN Taken \cup {nheard + 1} ELSE Taken
         /\ StashOK'
<1>1. /\ nheard' = nheard + 1 /\ nheard < Len(wrote) /\ UNCHANGED <<wrote, emitted>>
      /\ stash' = IF wrote[nheard + 1] = q THEN stash ELSE Append(stash, nheard + 1)
  BY DEF FakeDrain, CliHear, outVars
<1>2. nheard \in Nat /\ stash \in Seq(1 .. nheard + 1) /\ Len(stash) \in Nat
  <2>1. nheard \in Nat /\ nheard + 1 \in Nat /\ nheard <= nheard + 1
    BY InputFacts
  <2>2. stash \in Seq(1 .. nheard)
    BY DEF FakeInv, OrderInv, StashOK
  <2> QED
    BY <2>1, <2>2, LogWiden, InputFacts
<1>3. \A i \in 1 .. Len(stash) : stash[i] \in 1 .. nheard
  BY ElementOfSeq DEF FakeInv, OrderInv, StashOK
<1>4. CASE wrote[nheard + 1] = q
  BY <1>1, <1>2, <1>3, <1>4 DEF Taken, Stashed, StashOK, FakeInv, OrderInv
<1>5. CASE wrote[nheard + 1] # q
  <2>1. /\ stash' \in Seq(1 .. nheard + 1) /\ Len(stash') = Len(stash) + 1
        /\ stash'[Len(stash) + 1] = nheard + 1
        /\ \A i \in 1 .. Len(stash) : stash'[i] = stash[i]
    BY <1>1, <1>2, <1>5, LogAppend
  <2>2. Stashed' = Stashed \cup {nheard + 1}
    <3>1. \A i \in 1 .. Len(stash') :
            (i \in 1 .. Len(stash) /\ stash'[i] = stash[i]) \/ stash'[i] = nheard + 1
      BY <1>2, <2>1
    <3>2. Stashed' \subseteq Stashed \cup {nheard + 1}
      BY <3>1 DEF Stashed
    <3>3. \A i \in 1 .. Len(stash) : i \in 1 .. Len(stash') /\ stash[i] = stash'[i]
      BY <1>2, <2>1
    <3>4. nheard + 1 \in Stashed'
      BY <1>2, <2>1 DEF Stashed
    <3> QED
      BY <3>2, <3>3, <3>4 DEF Stashed
  <2>3. StashOK'
    <3>1. \A i, j \in 1 .. Len(stash) : i < j => stash[i] < stash[j]
      BY DEF FakeInv, OrderInv, StashOK
    <3>2. \A i \in 1 .. Len(stash') : i \in 1 .. Len(stash) \/ i = Len(stash) + 1
      BY <1>2, <2>1
    <3>3. ASSUME NEW i \in 1 .. Len(stash'), NEW j \in 1 .. Len(stash'), i < j
          PROVE  stash'[i] < stash'[j]
      <4>1. i \in 1 .. Len(stash) /\ stash'[i] = stash[i]
        BY <1>2, <2>1, <3>2, <3>3
      <4>2. CASE j \in 1 .. Len(stash)
        BY <2>1, <3>1, <3>3, <4>1, <4>2
      <4>3. CASE j = Len(stash) + 1
        BY <1>2, <1>3, <2>1, <4>1, <4>3
      <4> QED
        BY <3>2, <4>2, <4>3
    <3> QED
      BY <1>1, <2>1, <3>3 DEF StashOK
  <2> QED
    BY <1>1, <1>2, <1>5, <2>2, <2>3 DEF Taken
<1> QED
  BY <1>1, <1>4, <1>5

\* What the steps of the fake CLI that take no line for acting on leave alone.
LEMMA DrainCases ==
  ASSUME Draining
  PROVE  /\ UNCHANGED <<job, turn, greeted, model, emitted, wrote>>
         /\ cli \in {"await tool", "await hook"}
         /\ cli' \in {cli, IF cli = "await tool" THEN HookStage(turn) ELSE "assistant"}
         /\ \/ UNCHANGED <<stash, nheard>>
            \/ \E q \in Requests : \E next : FakeDrain(cli, q, next)
<1>1. AskTool \in Requests /\ AskHook \in Requests
  BY FakeCliAssumption
<1> QED
  BY <1>1 DEF Draining, FakeDrain, FakeDrainEnds, CliHear, outVars, allVars, vars, tvars

-----------------------------------------------------------------------------
(* Where main is. *)

\* The script grows by one line.
LEMMA ScriptGrows ==
  ASSUME FakeInv, FakeWrite
  PROVE  /\ Len(emitted) \in Nat /\ Len(emitted') = Len(emitted) + 1
         /\ emitted'[Len(emitted) + 1] = Line(cli)
         /\ \A k \in 1 .. Len(emitted) : emitted'[k] = emitted[k]
         /\ UNCHANGED <<wrote, nheard, job, stash, turn, model>> /\ cli' = After(cli)
<1>1. emitted' = Append(emitted, Line(cli)) /\ emitted \in Seq(CliLines)
  BY DEF FakeWrite, CliEmit, FakeInv, TransportTypeOK
<1> QED
  BY <1>1, ScriptedLine, LogAppend, LenProperties DEF FakeWrite, CliEmit, inVars

LEMMA PlaceTakes ==
  ASSUME FakeInv, NEW j, Takes(j)
  PROVE  PlaceInv'
<1> USE DEF PlaceInv, InTurn
<1>1. PlaceInv /\ cli = "read" /\ j \in 1 .. nheard' /\ UNCHANGED <<wrote, emitted>>
  BY DEF FakeInv, Takes
<1>2. UNCHANGED <<AskedFor(AskTool), AskedFor(AskHook)>>
  BY <1>1 DEF AskedFor
<1>3. CASE /\ cli' = "reply" /\ job' = wrote[j] /\ job' \in Calls
           /\ model' \in {"chosen", model} /\ turn' = turn
  BY <1>1, <1>2, <1>3
<1>4. CASE turn' = turn + 1 /\ cli' = FirstStage(turn + 1) /\ UNCHANGED <<job, model>>
  <2>1. turn \in Nat /\ turn' # 0 /\ (turn' = 1 => turn = 0)
    BY <1>1, <1>4
  <2>2. cli' \in {"tool", "hook", "assistant"} /\ (cli' # "assistant" => turn' = 1)
    BY <1>4 DEF FirstStage, HookStage
  <2>3. AskedFor(AskTool)' \/ AskedFor(AskHook)' => cli' = "assistant"
    BY <1>1, <1>2, <2>1, <2>2
  <2>4. turn' \in Nat /\ job' \in Calls /\ model' \in {"efficient", "chosen"}
    BY <1>1, <1>4, <2>1
  <2> QED
    BY <2>1, <2>2, <2>3, <2>4
<1>5. CASE UNCHANGED <<cli, job, turn, model>>
  BY <1>1, <1>2, <1>5
<1>6. Begin(wrote[j])
  BY DEF Takes
<1> QED
  BY <1>3, <1>4, <1>5, <1>6 DEF Begin

LEMMA PlaceWrite ==
  ASSUME FakeInv, FakeWrite
  PROVE  PlaceInv'
<1> USE DEF PlaceInv, InTurn
<1>1. PlaceInv
  BY DEF FakeInv
<1>2. UNCHANGED <<wrote, nheard, job, turn, model>> /\ cli' = After(cli)
  BY ScriptGrows
<1>3. \A q : AskedFor(q)' => AskedFor(q) \/ Line(cli) = Asks(q)
  BY ScriptGrows DEF AskedFor
<1>4. cli \in {"boot", "reply", "models", "tool", "ask", "hook", "assistant", "result"}
  BY DEF FakeWrite
<1>5. /\ Line(cli) = Asks(AskTool) => cli = "ask"
      /\ Line(cli) = Asks(AskHook) => cli = "hook"
  BY <1>4, FakeCliAssumption DEF Line, Asks, Plain, Reply, Says
<1>6. /\ AskedFor(AskTool)' => AskedFor(AskTool) \/ cli = "ask"
      /\ AskedFor(AskHook)' => AskedFor(AskHook) \/ cli = "hook"
  BY <1>3, <1>5
<1>7. CASE cli \in {"boot", "models", "result"}
  BY <1>1, <1>2, <1>6, <1>7 DEF After
<1>8. CASE cli = "reply"
  <2>1. cli' \in {"models", "leave", "read"}
    BY <1>2, <1>8 DEF After, AfterReply
  <2> QED
    BY <1>1, <1>2, <1>6, <1>8, <2>1
<1>9. CASE cli = "tool"
  BY <1>1, <1>2, <1>6, <1>9 DEF After
<1>10. CASE cli = "ask"
  BY <1>1, <1>2, <1>6, <1>10 DEF After
<1>11. CASE cli = "hook"
  BY <1>1, <1>2, <1>6, <1>11 DEF After
<1>12. CASE cli = "assistant"
  BY <1>1, <1>2, <1>6, <1>12 DEF After
<1> QED
  BY <1>4, <1>7, <1>8, <1>9, <1>10, <1>11, <1>12

LEMMA PlaceStep ==
  ASSUME FakeInv, TransportTypeOK', [ConvNext]_convVars
  PROVE  PlaceInv'
<1> USE DEF PlaceInv, InTurn
<1>1. PlaceInv /\ TransportTypeOK
  BY DEF FakeInv
<1>2. /\ nheard \in Nat /\ nheard <= nheard'
      /\ \A i \in 1 .. nheard : i \in 1 .. nheard' /\ wrote'[i] = wrote[i]
  <2>1. [TransportNext]_tvars
    BY ConversationSimulates, SessionSimulates, StepSimulates
  <2>2. nheard' = nheard \/ nheard' = nheard + 1
    BY <2>1
    DEF TransportNext, tvars, Initialize, LaunchRefused, WritePayload, SpawnFails, Spawn,
        CliEmit, Cli, CliHear, CliExit, ContextKill, Reader, ReaderScan, ReaderPush,
        ReaderEOF, CloseProgress, CloseInterrupt, CloseKill, Reap, CloseFinish, CloseBegin,
        Receive, WriteAccepted, CancelContext, inVars
  <2>3. /\ nheard \in 0 .. Len(wrote) /\ Len(wrote) \in Nat
        /\ \A i \in 1 .. Len(wrote) : wrote'[i] = wrote[i]
    BY <1>1, <2>1, WroteGrows
  <2>4. nheard \in Nat /\ nheard <= nheard' /\ 1 .. nheard \subseteq 1 .. nheard'
    BY <2>2, <2>3
  <2> QED
    BY <2>3, <2>4
<1>3. CASE ~Fake
  <2>1. UNCHANGED fvars /\ UNCHANGED <<emitted, nheard>>
    BY <1>3, WorldStep
  <2> QED
    BY <1>1, <1>2, <2>1 DEF fvars, AskedFor
<1>4. CASE FakeRecall
  BY <1>4, RecallTakes, PlaceTakes
<1>5. CASE FakeRead
  BY <1>5, ReadTakes, PlaceTakes
<1>6. CASE FakeWrite
  BY <1>6, PlaceWrite
<1>7. CASE Draining
  <2>1. UNCHANGED <<AskedFor(AskTool), AskedFor(AskHook)>>
    BY <1>7, DrainCases DEF AskedFor
  <2>2. HookStage(turn) \in {"hook", "assistant"}
    BY DEF HookStage
  <2> QED
    BY <1>1, <1>7, <2>1, <2>2, DrainCases
<1>8. CASE FakeExit
  <2>1. cli' = "exited" /\ UNCHANGED <<emitted, job, turn, model>> /\ cli \in {"leave", "read"}
    BY <1>8 DEF FakeExit, CliExit, outVars
  <2> QED
    BY <1>1, <2>1 DEF AskedFor
<1> QED
  BY <1>3, <1>4, <1>5, <1>6, <1>7, <1>8 DEF Fake

-----------------------------------------------------------------------------
(* The order in which main comes to its lines. *)

LEMMA OrderTakes ==
  ASSUME FakeInv, NEW j, Takes(j), StashOK'
  PROVE  /\ OrderInv'
         /\ TakenPrompts' = IF wrote[j] \in Prompts THEN TakenPrompts \cup {j} ELSE TakenPrompts
<1>1. /\ Taken' = Taken \cup {j} /\ j \notin Taken /\ wrote' = wrote /\ Begin(wrote[j])
      /\ \A i \in (1 .. Len(wrote)) \ Taken' : j < i
  BY DEF Takes
<1>2. \A i \in Ahead', k \in Taken' : wrote'[k] \notin Requests => k < i
  BY <1>1 DEF Ahead, FakeInv, OrderInv
<1>3. TakenPrompts' = IF wrote[j] \in Prompts THEN TakenPrompts \cup {j} ELSE TakenPrompts
  BY <1>1 DEF TakenPrompts
<1>4. turn = Cardinality(TakenPrompts) /\ IsFiniteSet(TakenPrompts)
  BY TurnIsBounded DEF FakeInv, OrderInv
<1>5. turn' = Cardinality(TakenPrompts')
  <2>1. CASE wrote[j] \in Prompts
    <3>1. turn' = turn + 1
      BY <1>1, <2>1 DEF Begin, Prompts
    <3>2. j \notin TakenPrompts
      BY <1>1 DEF TakenPrompts
    <3> QED
      BY <1>3, <1>4, <2>1, <3>1, <3>2, FS_AddElement
  <2>2. CASE wrote[j] \notin Prompts
    BY <1>1, <1>3, <1>4, <2>2 DEF Begin
  <2> QED
    BY <2>1, <2>2
<1> QED
  BY <1>2, <1>3, <1>5 DEF OrderInv

\* Other steps do not change what main has come to.
LEMMA OrderAside ==
  ASSUME FakeInv, TransportTypeOK', [TransportNext]_tvars, UNCHANGED <<stash, nheard, turn>>
  PROVE  OrderInv' /\ Taken' = Taken /\ TakenPrompts' = TakenPrompts
<1>1. /\ Len(wrote) \in Nat /\ Len(wrote') \in Nat /\ Len(wrote) <= Len(wrote')
      /\ \A i \in 1 .. Len(wrote) : wrote'[i] = wrote[i]
  BY WroteGrows DEF FakeInv
<1>2. nheard \in 0 .. Len(wrote) /\ Taken \subseteq 1 .. nheard
  BY InputFacts
<1>3. Taken' = Taken /\ \A k \in Taken : wrote'[k] = wrote[k] /\ k <= Len(wrote) /\ k \in Nat
  BY <1>1, <1>2 DEF Taken, Stashed
<1>4. TakenPrompts' = TakenPrompts
  BY <1>3 DEF TakenPrompts
<1>5. \A i \in Ahead' : i \in Ahead \/ (i \in Nat /\ Len(wrote) < i)
  BY <1>1, <1>3 DEF Ahead
<1>6. \A i \in Ahead', k \in Taken' : wrote'[k] \notin Requests => k < i
  BY <1>1, <1>3, <1>5 DEF FakeInv, OrderInv
<1> QED
  BY <1>3, <1>4, <1>6 DEF FakeInv, OrderInv, StashOK

LEMMA OrderDrains ==
  ASSUME FakeInv, NEW at, NEW q \in Requests, NEW next, FakeDrain(at, q, next)
  PROVE  OrderInv' /\ TakenPrompts' = TakenPrompts
<1>1. /\ UNCHANGED wrote /\ StashOK' /\ nheard \in Nat
      /\ Taken' = IF wrote[nheard + 1] = q THEN Taken \cup {nheard + 1} ELSE Taken
  BY DrainHears, InputFacts
<1>2. q \notin Prompts
  BY DEF Prompts
<1>3. TakenPrompts' = TakenPrompts
  BY <1>1, <1>2 DEF TakenPrompts
<1>4. \A i \in Ahead', k \in Taken' : wrote'[k] \notin Requests => k < i
  BY <1>1 DEF Ahead, FakeInv, OrderInv
<1> QED
  BY <1>1, <1>3, <1>4 DEF FakeInv, OrderInv, FakeDrain

LEMMA OrderStep ==
  ASSUME FakeInv, TransportTypeOK', [ConvNext]_convVars
  PROVE  OrderInv'
<1>1. [TransportNext]_tvars
  BY ConversationSimulates, SessionSimulates, StepSimulates
<1>2. CASE UNCHANGED <<stash, nheard, turn>>
  BY <1>1, <1>2, OrderAside
<1>3. CASE FakeRecall
  BY <1>3, RecallTakes, OrderTakes
<1>4. CASE FakeRead
  BY <1>4, ReadTakes, OrderTakes
<1>5. CASE Draining
  BY <1>2, <1>5, DrainCases, OrderDrains
<1>6. CASE ~Fake
  BY <1>2, <1>6, WorldStep DEF fvars
<1>7. CASE FakeWrite \/ FakeExit
  BY <1>2, <1>7, ScriptGrows DEF FakeExit, CliExit, inVars
<1> QED
  BY <1>3, <1>4, <1>5, <1>6, <1>7 DEF Fake

LEMMA FakeStep == FakeInv /\ [ConvNext]_convVars => FakeInv'
<1> SUFFICES ASSUME FakeInv, [ConvNext]_convVars PROVE FakeInv'
  OBVIOUS
<1>1. TransportTypeOK'
  BY ConversationSimulates, SessionSimulates, StepSimulates, TransportTypeStep DEF FakeInv
<1>2. PromptInv'
  BY ConversationSimulates, PromptStep DEF FakeInv
<1> QED
  BY <1>1, <1>2, PlaceStep, OrderStep DEF FakeInv

LEMMA FakeInitially == ConvInit => FakeInv
<1> SUFFICES ASSUME ConvInit PROVE FakeInv
  OBVIOUS
<1> USE DEF ConvInit, SessionInit, FakeInit, RunnerInit, TransportInit
<1>1. TransportTypeOK
  BY TransportTypeInit
<1>2. Len(wrote) = 0 /\ Len(emitted) = 0 /\ Len(stash) = 0 /\ stash \in Seq(1 .. nheard)
  BY EmptySeq
<1>3. PromptInv
  BY <1>2 DEF PromptInv
<1>4. PlaceInv
  BY <1>2, SessionAssumption DEF PlaceInv, InTurn, AskedFor
<1>5. Taken = {} /\ TakenPrompts = {} /\ Cardinality({}) = 0
  BY <1>2, FS_EmptySet DEF Taken, TakenPrompts
<1>6. OrderInv
  BY <1>2, <1>5 DEF OrderInv, StashOK
<1> QED
  BY <1>1, <1>3, <1>4, <1>6 DEF FakeInv

LEMMA FakeInvHolds == ConvSpec => []FakeInv
BY FakeInitially, FakeStep, PTL DEF ConvSpec

\* The fake CLI of the tests is one that Session allows: whatever holds of every
\* session holds of its conversations, for any number of prompts and wherever it
\* is killed.
THEOREM FakeIsOneOfThem == ConvSpec => FakeIsACli
<1>1. ConvInit => SessionInit
  BY DEF ConvInit
<1> QED
  BY <1>1, FakeInvHolds, ConversationSimulates, PTL DEF ConvSpec, SessionSpec, FakeIsACli

-----------------------------------------------------------------------------
(* The results in the script. *)

ResultOf(k, t) == emitted[k].kind = "result" /\ emitted[k].turn = t

\* Each turn has one result, in the order of the turns.
TurnsInv ==
  /\ \A k \in 1 .. Len(emitted) :
       /\ emitted[k].kind \in {"event", "result"} => emitted[k].turn \in 0 .. turn
       /\ emitted[k].kind = "result" =>
            emitted[k].turn # 0 /\ (cli \in InTurn => emitted[k].turn # turn)
  /\ \A j, k \in 1 .. Len(emitted) :
       j < k /\ emitted[j].kind = "result" /\ emitted[k].kind = "result" =>
         emitted[j].turn < emitted[k].turn
  /\ \A t \in 1 .. turn :
       t # turn \/ cli \notin InTurn => \E k \in 1 .. Len(emitted) : ResultOf(k, t)

\* Where the turn goes on and the script does not, nothing is to be shown.
LEMMA TurnsAside ==
  TurnsInv /\ UNCHANGED <<emitted, turn>> /\ (cli' \in InTurn <=> cli \in InTurn) => TurnsInv'
BY DEF TurnsInv, ResultOf

LEMMA TurnsTake ==
  ASSUME FakeInv, TurnsInv, NEW j, Takes(j)
  PROVE  TurnsInv'
<1>1. cli = "read" /\ emitted' = emitted /\ turn \in Nat /\ Begin(wrote[j])
  BY DEF Takes, FakeInv, PlaceInv
<1>2. \/ turn' = turn /\ cli' \in {"reply", "read"}
      \/ turn' = turn + 1 /\ cli' \in InTurn
  BY <1>1 DEF Begin, FirstStage, HookStage, InTurn
<1>3. cli \notin InTurn
  BY <1>1 DEF InTurn
<1>4. CASE turn' = turn /\ cli' \in {"reply", "read"}
  BY <1>1, <1>3, <1>4, TurnsAside DEF InTurn
<1>5. CASE turn' = turn + 1 /\ cli' \in InTurn
  <2>1. 0 .. turn \subseteq 0 .. turn' /\ turn' \notin 0 .. turn
    BY <1>1, <1>5
  <2>2. \A t \in 1 .. turn' : t # turn' => t \in 1 .. turn
    BY <1>1, <1>5
  <2> QED
    BY <1>1, <1>3, <1>5, <2>1, <2>2 DEF TurnsInv, ResultOf
<1> QED
  BY <1>2, <1>4, <1>5

\* What main may write where it is.
LEMMA LineFacts ==
  ASSUME FakeInv, FakeWrite
  PROVE  /\ Line(cli).kind \in {"event", "result"} => Line(cli).turn \in {0, turn}
         /\ Line(cli).kind = "result" <=> cli = "result"
         /\ cli = "result" => Line(cli).turn = turn
         /\ Line(cli).kind = "event" /\ Line(cli).model = "efficient" =>
              Line(cli).turn = 0 \/ model = "efficient"
<1>1. cli \in {"boot", "reply", "models", "tool", "ask", "hook", "assistant", "result"}
  BY DEF FakeWrite
<1> QED
  BY <1>1 DEF Line, Asks, Plain, Reply, Says

LEMMA TurnsWrite ==
  ASSUME FakeInv, TurnsInv, FakeWrite
  PROVE  TurnsInv'
<1> DEFINE n == Len(emitted) + 1
<1>1. /\ Len(emitted) \in Nat /\ Len(emitted') = n /\ emitted'[n] = Line(cli)
      /\ \A k \in 1 .. Len(emitted) : emitted'[k] = emitted[k]
      /\ turn' = turn /\ cli' = After(cli) /\ turn \in Nat
  BY ScriptGrows DEF FakeInv, PlaceInv
<1>2. \A k \in 1 .. n : k \in 1 .. Len(emitted) \/ k = n
  BY <1>1
<1>3. 1 .. Len(emitted) \subseteq 1 .. n /\ n \in 1 .. n
  BY <1>1
<1>4. CASE cli = "result"
  <2>1. /\ Line(cli).kind = "result" /\ Line(cli).turn = turn
        /\ cli \in InTurn /\ cli' \notin InTurn /\ turn # 0
    BY <1>1, <1>4, LineFacts DEF After, InTurn, FakeInv, PlaceInv
  <2>2. \A k \in 1 .. Len(emitted) :
          emitted[k].kind = "result" => emitted[k].turn \in Nat /\ emitted[k].turn < turn
    BY <1>1, <2>1 DEF TurnsInv
  <2>3. \A k \in 1 .. n :
          /\ emitted'[k].kind \in {"event", "result"} => emitted'[k].turn \in 0 .. turn
          /\ emitted'[k].kind = "result" => emitted'[k].turn # 0
    BY <1>1, <1>2, <2>1 DEF TurnsInv
  <2>4. ASSUME NEW j \in 1 .. n, NEW k \in 1 .. n, j < k,
               emitted'[j].kind = "result", emitted'[k].kind = "result"
        PROVE  emitted'[j].turn < emitted'[k].turn
    <3>1. j \in 1 .. Len(emitted)
      BY <1>1, <2>4
    <3> QED
      BY <1>1, <1>2, <2>1, <2>2, <2>4, <3>1 DEF TurnsInv
  <2>5. \A t \in 1 .. turn : \E k \in 1 .. n : ResultOf(k, t)'
    <3>1. emitted'[n].kind = "result" /\ emitted'[n].turn = turn
      BY <1>1, <2>1
    <3>2. \A t \in 1 .. turn : t # turn => \E k \in 1 .. Len(emitted) : ResultOf(k, t)'
      BY <1>1 DEF TurnsInv, ResultOf
    <3> QED
      BY <1>3, <3>1, <3>2 DEF ResultOf
  <2> QED
    BY <1>1, <2>1, <2>3, <2>4, <2>5 DEF TurnsInv
<1>5. CASE cli # "result"
  <2>1. /\ Line(cli).kind # "result"
        /\ Line(cli).kind \in {"event", "result"} => Line(cli).turn \in 0 .. turn
    BY <1>1, <1>5, LineFacts
  <2>2. cli' \in InTurn <=> cli \in InTurn
    BY <1>1, <1>5 DEF FakeWrite, After, AfterReply, InTurn
  <2>3. \A k \in 1 .. n :
          /\ emitted'[k].kind \in {"event", "result"} => emitted'[k].turn \in 0 .. turn
          /\ emitted'[k].kind = "result" =>
               emitted'[k].turn # 0 /\ (cli \in InTurn => emitted'[k].turn # turn)
    BY <1>1, <1>2, <2>1 DEF TurnsInv
  <2>4. \A j, k \in 1 .. n :
          j < k /\ emitted'[j].kind = "result" /\ emitted'[k].kind = "result" =>
            emitted'[j].turn < emitted'[k].turn
    BY <1>1, <1>2, <2>1 DEF TurnsInv
  <2>5. \A t \in 1 .. turn :
          t # turn \/ cli \notin InTurn => \E k \in 1 .. n : ResultOf(k, t)'
    BY <1>1, <1>3 DEF TurnsInv, ResultOf
  <2> QED
    BY <1>1, <2>2, <2>3, <2>4, <2>5 DEF TurnsInv
<1> QED
  BY <1>4, <1>5

LEMMA TurnsStep ==
  ASSUME FakeInv, TurnsInv, [ConvNext]_convVars
  PROVE  TurnsInv'
<1>1. CASE ~Fake
  BY <1>1, WorldStep, TurnsAside DEF fvars
<1>2. CASE FakeRecall
  BY <1>2, RecallTakes, TurnsTake
<1>3. CASE FakeRead
  BY <1>3, ReadTakes, TurnsTake
<1>4. CASE FakeWrite
  BY <1>4, TurnsWrite
<1>5. CASE Draining
  <2>1. HookStage(turn) \in {"hook", "assistant"}
    BY DEF HookStage
  <2> QED
    BY <1>5, <2>1, DrainCases, TurnsAside DEF InTurn
<1>6. CASE FakeExit
  <2>1. UNCHANGED <<emitted, turn>> /\ cli \in {"leave", "read"} /\ cli' = "exited"
    BY <1>6 DEF FakeExit, CliExit, outVars
  <2> QED
    BY <2>1, TurnsAside DEF InTurn
<1> QED
  BY <1>1, <1>2, <1>3, <1>4, <1>5, <1>6 DEF Fake

LEMMA TurnsHold == ConvSpec => []TurnsInv
<1>1. ConvInit => TurnsInv
  <2> SUFFICES ASSUME ConvInit PROVE TurnsInv
    OBVIOUS
  <2>1. Len(emitted) = 0 /\ turn = 0
    BY EmptySeq DEF ConvInit, SessionInit, FakeInit, RunnerInit, TransportInit
  <2> QED
    BY <2>1 DEF TurnsInv
<1> QED
  BY <1>1, TurnsStep, FakeInvHolds, PTL DEF ConvSpec

-----------------------------------------------------------------------------
(* The model. *)

\* The prompts up to a position, of which TurnOf is the number.
PromptsTo(j) == {i \in 1 .. j : wrote[i] \in Prompts}

LEMMA PromptsToFinite ==
  ASSUME NEW j \in Nat
  PROVE  IsFiniteSet(PromptsTo(j)) /\ TurnOf(j) \in Nat /\ TurnOf(j) = Cardinality(PromptsTo(j))
<1>1. IsFiniteSet(1 .. j) /\ PromptsTo(j) \in SUBSET (1 .. j)
  BY FS_Interval DEF PromptsTo
<1>2. IsFiniteSet(PromptsTo(j))
  BY <1>1, FS_Subset
<1> QED
  BY <1>2, FS_CardinalityType DEF TurnOf, PromptsTo

\* The turn of a prompt is under way, or over, when main has taken it.
LEMMA TurnTaken ==
  ASSUME FakeInv, NEW j \in 1 .. Len(wrote), wrote[j] \in Prompts
  PROVE  /\ TurnOf(j) \in Nat \ {0} /\ turn \in Nat
         /\ j \in Taken <=> TurnOf(j) <= turn
<1>1. j \in Nat /\ Len(wrote) \in Nat /\ Taken \subseteq 1 .. Len(wrote)
  BY InputFacts
<1>2. /\ IsFiniteSet(PromptsTo(j)) /\ TurnOf(j) = Cardinality(PromptsTo(j)) /\ TurnOf(j) \in Nat
      /\ IsFiniteSet(TakenPrompts) /\ turn = Cardinality(TakenPrompts) /\ turn \in Nat
  BY <1>1, PromptsToFinite, TurnIsBounded DEF FakeInv, OrderInv, PlaceInv
<1>3. j \in PromptsTo(j)
  BY <1>1 DEF PromptsTo
<1>4. TurnOf(j) # 0
  BY <1>2, <1>3, FS_EmptySet
<1>5. CASE j \in Taken
  <2>1. \A i \in PromptsTo(j) : i \in TakenPrompts
    <3> SUFFICES ASSUME NEW i \in PromptsTo(j) PROVE i \in Taken
      BY DEF PromptsTo, TakenPrompts
    <3>1. i \in 1 .. Len(wrote) /\ ~(j < i)
      BY <1>1 DEF PromptsTo
    <3>2. wrote[j] \notin Requests
      BY DEF Prompts
    <3> QED
      BY <1>5, <3>1, <3>2 DEF FakeInv, OrderInv, Ahead
  <2> QED
    BY <1>2, <1>4, <1>5, <2>1, FS_Subset
<1>6. CASE j \notin Taken
  <2>1. \A i \in TakenPrompts : i \in PromptsTo(j) \ {j}
    <3> SUFFICES ASSUME NEW i \in TakenPrompts PROVE i \in PromptsTo(j) \ {j}
      OBVIOUS
    <3>1. i \in 1 .. Len(wrote) /\ i \in Taken /\ wrote[i] \in Prompts /\ wrote[i] \notin Requests
      BY <1>1 DEF TakenPrompts, Prompts
    <3>2. i < j
      BY <1>6, <3>1 DEF FakeInv, OrderInv, Ahead
    <3> QED
      BY <1>1, <3>1, <3>2 DEF PromptsTo
  <2>2. TakenPrompts \in SUBSET PromptsTo(j) /\ TakenPrompts # PromptsTo(j)
    BY <1>3, <2>1
  <2>3. Cardinality(TakenPrompts) <= Cardinality(PromptsTo(j))
        /\ Cardinality(TakenPrompts) # Cardinality(PromptsTo(j))
    BY <1>2, <2>2, FS_Subset
  <2> QED
    BY <1>2, <1>4, <1>6, <2>3
<1> QED
  BY <1>2, <1>4, <1>5, <1>6

TakenByTurn ==
  \A j \in 1 .. Len(wrote) : wrote[j] \in Prompts =>
    TurnOf(j) \in Nat \ {0} /\ (j \in Taken <=> TurnOf(j) <= turn)

LEMMA TurnsTaken == FakeInv => TakenByTurn
BY TurnTaken DEF TakenByTurn

\* The switch that main has come to is in force, and ModelFollows so far.
ModelInv ==
  /\ \A i \in Taken : wrote[i] = SetModel => model = "chosen"
  /\ \A k \in 1 .. Len(emitted) : emitted[k].kind = "event" => emitted[k].model \in Models
  /\ \A i, j \in 1 .. Len(wrote) : i < j /\ wrote[i] = SetModel /\ wrote[j] \in Prompts =>
       \A k \in 1 .. Len(emitted) :
         emitted[k].kind = "event" /\ emitted[k].turn = TurnOf(j) =>
           emitted[k].model # "efficient"

LEMMA ModelTakes ==
  ASSUME FakeInv, ModelInv, NEW j, Takes(j)
  PROVE  ModelInv'
<1>1. /\ UNCHANGED <<wrote, emitted>> /\ Taken' = Taken \cup {j} /\ Begin(wrote[j])
  BY DEF Takes
<1>2. SetModel \in Calls /\ SetModel \notin Prompts /\ SetModel \notin Requests
  BY FakeCliAssumption, RunnerAssumption DEF Prompts, Methods
<1>3. \A i \in Taken' : wrote[i] = SetModel => model' = "chosen"
  BY <1>1, <1>2 DEF Begin, ModelInv
<1>4. \A i : TurnOf(i)' = TurnOf(i)
  BY <1>1 DEF TurnOf
<1> QED
  BY <1>1, <1>3, <1>4 DEF ModelInv

LEMMA ModelWrites ==
  ASSUME FakeInv, ModelInv, FakeWrite
  PROVE  ModelInv'
<1> DEFINE n == Len(emitted) + 1
<1>1. /\ Len(emitted) \in Nat /\ Len(emitted') = n /\ emitted'[n] = Line(cli)
      /\ \A k \in 1 .. Len(emitted) : emitted'[k] = emitted[k]
      /\ UNCHANGED <<wrote, nheard, stash, model>>
  BY ScriptGrows
<1>2. \A k \in 1 .. n : k \in 1 .. Len(emitted) \/ k = n
  BY <1>1
<1>3. Taken' = Taken /\ \A i : TurnOf(i)' = TurnOf(i)
  BY <1>1 DEF Taken, Stashed, TurnOf
<1>4. Line(cli).kind = "event" => Line(cli).model \in Models
  <2>1. model \in Models
    BY DEF FakeInv, PlaceInv, Models
  <2> QED
    BY <2>1 DEF FakeWrite, Line, Asks, Plain, Reply, Says, Models
<1>5. ASSUME NEW i \in 1 .. Len(wrote), NEW j \in 1 .. Len(wrote), i < j,
             wrote[i] = SetModel, wrote[j] \in Prompts,
             Line(cli).kind = "event", Line(cli).turn = TurnOf(j)
      PROVE  Line(cli).model # "efficient"
  <2>1. TurnOf(j) = turn /\ TurnOf(j) # 0
    BY <1>5, LineFacts, TurnTaken
  <2>2. j \in Taken /\ wrote[j] \notin Requests
    BY <1>5, <2>1, TurnTaken DEF Prompts
  <2>3. i \in Taken
    BY <1>5, <2>2 DEF FakeInv, OrderInv, Ahead
  <2>4. model = "chosen"
    BY <1>5, <2>3 DEF ModelInv
  <2> QED
    BY <1>5, <2>1, <2>4, LineFacts
<1>6. \A k \in 1 .. n : emitted'[k].kind = "event" => emitted'[k].model \in Models
  BY <1>1, <1>2, <1>4 DEF ModelInv
<1>7. ASSUME NEW i \in 1 .. Len(wrote), NEW j \in 1 .. Len(wrote), i < j,
             wrote[i] = SetModel, wrote[j] \in Prompts,
             NEW k \in 1 .. n, emitted'[k].kind = "event", emitted'[k].turn = TurnOf(j)
      PROVE  emitted'[k].model # "efficient"
  <2>1. CASE k = n
    BY <1>1, <1>5, <1>7, <2>1
  <2>2. CASE k \in 1 .. Len(emitted)
    BY <1>1, <1>7, <2>2 DEF ModelInv
  <2> QED
    BY <1>2, <2>1, <2>2
<1>8. \A i \in Taken' : wrote'[i] = SetModel => model' = "chosen"
  BY <1>1, <1>3 DEF ModelInv
<1> QED
  BY <1>1, <1>3, <1>6, <1>7, <1>8 DEF ModelInv

\* While main does nothing, prompts written are for turns still to come.
LEMMA ModelWorld ==
  ASSUME FakeInv, FakeInv', TurnsInv, ModelInv, [TransportNext]_tvars,
         UNCHANGED <<fvars, emitted, nheard>>
  PROVE  ModelInv'
<1>1. /\ Len(wrote) \in Nat /\ Len(wrote') \in Nat /\ Len(wrote) <= Len(wrote')
      /\ \A i \in 1 .. Len(wrote) : wrote'[i] = wrote[i]
  BY WroteGrows DEF FakeInv
<1>2. UNCHANGED <<stash, turn, model, emitted>> /\ Taken' = Taken
  BY DEF fvars, Taken, Stashed
<1>3. Taken \subseteq 1 .. Len(wrote)
  BY InputFacts
<1>4. ASSUME NEW i \in 1 .. Len(wrote'), NEW j \in 1 .. Len(wrote'), i < j,
             wrote'[i] = SetModel, wrote'[j] \in Prompts,
             NEW k \in 1 .. Len(emitted), emitted[k].kind = "event",
             emitted[k].turn = TurnOf(j)'
      PROVE  emitted[k].model # "efficient"
  <2>1. emitted[k].turn <= turn
    BY <1>4 DEF TurnsInv
  <2>2. j \in Taken'
    <3>1. TakenByTurn'
      BY TurnsTaken, PTL
    <3> QED
      BY <1>2, <1>4, <2>1, <3>1 DEF TakenByTurn
  <2>3. i \in 1 .. Len(wrote) /\ j \in 1 .. Len(wrote)
    BY <1>1, <1>2, <1>3, <1>4, <2>2
  <2>4. TurnOf(j)' = TurnOf(j)
    <3>1. \A x \in 1 .. j : wrote'[x] = wrote[x]
      BY <1>1, <2>3
    <3> QED
      BY <3>1 DEF TurnOf
  <2> QED
    BY <1>1, <1>4, <2>3, <2>4 DEF ModelInv
<1>5. \A i \in Taken : wrote'[i] = wrote[i]
  BY <1>1, <1>3
<1> QED
  BY <1>2, <1>4, <1>5 DEF ModelInv

\* Without a new line, and with nothing taken that switches the model.
LEMMA ModelAside ==
  ASSUME ModelInv, UNCHANGED <<wrote, emitted, model>>,
         \A i \in Taken' : i \in Taken \/ wrote[i] # SetModel
  PROVE  ModelInv'
<1>1. \A i : TurnOf(i)' = TurnOf(i)
  BY DEF TurnOf
<1> QED
  BY <1>1 DEF ModelInv

LEMMA ModelStep ==
  ASSUME FakeInv, TurnsInv, ModelInv, [ConvNext]_convVars
  PROVE  ModelInv'
<1>1. CASE ~Fake
  <2>1. [TransportNext]_tvars
    BY ConversationSimulates, SessionSimulates, StepSimulates
  <2> QED
    BY <1>1, <2>1, WorldStep, FakeStep, ModelWorld
<1>2. CASE FakeRecall
  BY <1>2, RecallTakes, ModelTakes
<1>3. CASE FakeRead
  BY <1>3, ReadTakes, ModelTakes
<1>4. CASE FakeWrite
  BY <1>4, ModelWrites
<1>5. ASSUME NEW q \in Requests, NEW next, FakeDrain(cli, q, next), UNCHANGED model
      PROVE  ModelInv'
  <2>1. /\ UNCHANGED <<wrote, emitted>>
        /\ Taken' = IF wrote[nheard + 1] = q THEN Taken \cup {nheard + 1} ELSE Taken
    BY <1>5, DrainHears
  <2>2. q # SetModel
    BY FakeCliAssumption, RunnerAssumption DEF Methods
  <2> QED
    BY <1>5, <2>1, <2>2, ModelAside
<1>6. CASE Draining
  <2>1. CASE UNCHANGED <<stash, nheard>>
    BY <1>6, <2>1, DrainCases, ModelAside DEF Taken, Stashed
  <2> QED
    BY <1>5, <1>6, <2>1, DrainCases
<1>7. CASE FakeExit
  <2>1. UNCHANGED <<wrote, emitted, model, nheard, stash>>
    BY <1>7 DEF FakeExit, CliExit, outVars, inVars
  <2> QED
    BY <2>1, ModelAside DEF Taken, Stashed
<1> QED
  BY <1>1, <1>2, <1>3, <1>4, <1>6, <1>7 DEF Fake

-----------------------------------------------------------------------------
(* Before the switch. *)

\* Until main has come to the switch nothing speaks of the model chosen, and while
\* a turn is under way main has come to nothing that stands behind its prompt.
SwitchInv ==
  /\ model = "chosen" => \E i \in Taken : wrote[i] = SetModel
  /\ \A k \in 1 .. Len(emitted) :
       emitted[k].kind = "event" /\ emitted[k].model = "chosen" => model = "chosen"
  /\ cli \in InTurn =>
       \A j \in 1 .. Len(wrote) : wrote[j] \in Prompts /\ TurnOf(j) = turn =>
         \A i \in Taken : wrote[i] \notin Requests => i <= j
  /\ \A i, j \in 1 .. Len(wrote) : j < i /\ wrote[i] = SetModel /\ wrote[j] \in Prompts =>
       \A k \in 1 .. Len(emitted) :
         emitted[k].kind = "event" /\ emitted[k].turn = TurnOf(j) =>
           emitted[k].model # "chosen"

LEMMA SwitchTakes ==
  ASSUME FakeInv, FakeInv', SwitchInv, NEW j, Takes(j)
  PROVE  SwitchInv'
<1>1. /\ UNCHANGED <<wrote, emitted>> /\ Taken' = Taken \cup {j} /\ Begin(wrote[j])
      /\ cli = "read" /\ j \in 1 .. Len(wrote) /\ j \notin Taken
      /\ \A i \in Taken : wrote[i] \notin Requests => i < j
      /\ Taken \subseteq Nat /\ Len(wrote) \in Nat
  BY InputFacts DEF Takes
<1>2. /\ model' = "chosen" => model = "chosen" \/ wrote[j] = SetModel
      /\ model = "chosen" => model' = "chosen"
      /\ cli' \in InTurn => turn' = turn + 1
  BY <1>1 DEF Begin, InTurn
<1>3. \A i : TurnOf(i)' = TurnOf(i)
  BY <1>1 DEF TurnOf
<1>4. ASSUME cli' \in InTurn, NEW p \in 1 .. Len(wrote), wrote[p] \in Prompts, TurnOf(p) = turn',
             NEW i \in Taken', wrote[i] \notin Requests
      PROVE  i <= p
  <2>1. TakenByTurn /\ TakenByTurn'
    BY TurnsTaken, PTL
  <2>2. turn \in Nat /\ turn' = turn + 1
    BY <1>2, <1>4 DEF FakeInv, PlaceInv
  <2>3. p \in Taken' /\ p \notin Taken
    BY <1>1, <1>3, <1>4, <2>1, <2>2 DEF TakenByTurn
  <2>4. p = j /\ (i = j \/ i \in Taken)
    BY <1>1, <1>4, <2>3
  <2> QED
    BY <1>1, <1>4, <2>4
<1> QED
  BY <1>1, <1>2, <1>3, <1>4 DEF SwitchInv

LEMMA SwitchWrites ==
  ASSUME FakeInv, CallsOnce, SwitchInv, FakeWrite
  PROVE  SwitchInv'
<1> DEFINE n == Len(emitted) + 1
<1>1. /\ Len(emitted) \in Nat /\ Len(emitted') = n /\ emitted'[n] = Line(cli)
      /\ \A k \in 1 .. Len(emitted) : emitted'[k] = emitted[k]
      /\ UNCHANGED <<wrote, nheard, stash, model, turn>> /\ cli' = After(cli)
  BY ScriptGrows
<1>2. \A k \in 1 .. n : k \in 1 .. Len(emitted) \/ k = n
  BY <1>1
<1>3. Taken' = Taken /\ \A i : TurnOf(i)' = TurnOf(i)
  BY <1>1 DEF Taken, Stashed, TurnOf
<1>4. cli' \in InTurn => cli \in InTurn
  BY <1>1 DEF FakeWrite, After, AfterReply, InTurn
<1>5. Line(cli).kind = "event" /\ Line(cli).model = "chosen" =>
        model = "chosen" /\ cli \in InTurn /\ Line(cli).turn = turn
  BY DEF FakeWrite, Line, Asks, Plain, Reply, Says, InTurn
<1>6. ASSUME NEW i \in 1 .. Len(wrote), NEW j \in 1 .. Len(wrote), j < i,
             wrote[i] = SetModel, wrote[j] \in Prompts,
             Line(cli).kind = "event", Line(cli).turn = TurnOf(j), Line(cli).model = "chosen"
      PROVE  FALSE
  <2>1. PICK s \in Taken : wrote[s] = SetModel
    BY <1>5, <1>6 DEF SwitchInv
  <2>2. SetModel \in Calls /\ SetModel \notin Requests
    BY FakeCliAssumption, RunnerAssumption DEF Methods
  <2>3. s = i
    BY <1>6, <2>1, <2>2, InputFacts DEF CallsOnce
  <2>4. s <= j
    BY <1>5, <1>6, <2>1, <2>2 DEF SwitchInv
  <2> QED
    BY <1>6, <2>3, <2>4
<1>7. ASSUME NEW i \in 1 .. Len(wrote), NEW j \in 1 .. Len(wrote), j < i,
             wrote[i] = SetModel, wrote[j] \in Prompts,
             NEW k \in 1 .. n, emitted'[k].kind = "event", emitted'[k].turn = TurnOf(j)
      PROVE  emitted'[k].model # "chosen"
  <2>1. CASE k = n
    BY <1>1, <1>6, <1>7, <2>1
  <2>2. CASE k \in 1 .. Len(emitted)
    BY <1>1, <1>7, <2>2 DEF SwitchInv
  <2> QED
    BY <1>2, <2>1, <2>2
<1>8. \A k \in 1 .. n :
        emitted'[k].kind = "event" /\ emitted'[k].model = "chosen" => model' = "chosen"
  BY <1>1, <1>2, <1>5 DEF SwitchInv
<1> QED
  BY <1>1, <1>3, <1>4, <1>7, <1>8 DEF SwitchInv

\* While main does nothing, a switch written is one that main has not come to.
LEMMA SwitchWorld ==
  ASSUME FakeInv, FakeInv', CallsOnce', SwitchInv, [TransportNext]_tvars,
         UNCHANGED <<fvars, emitted, nheard>>
  PROVE  SwitchInv'
<1>1. /\ Len(wrote) \in Nat /\ Len(wrote') \in Nat /\ Len(wrote) <= Len(wrote')
      /\ \A i \in 1 .. Len(wrote) : wrote'[i] = wrote[i]
  BY WroteGrows DEF FakeInv
<1>2. UNCHANGED <<cli, stash, turn, model, emitted>> /\ Taken' = Taken
  BY DEF fvars, Taken, Stashed
<1>3. Taken \subseteq 1 .. Len(wrote) /\ 1 .. Len(wrote) \subseteq 1 .. Len(wrote')
  BY <1>1, InputFacts
<1>4. \A i \in Taken : wrote'[i] = wrote[i]
  BY <1>1, <1>3
<1>5. ASSUME NEW j \in 1 .. Len(wrote)
      PROVE  TurnOf(j)' = TurnOf(j)
  <2>1. \A x \in 1 .. j : wrote'[x] = wrote[x]
    BY <1>1
  <2> QED
    BY <2>1 DEF TurnOf
<1>6. ASSUME NEW j \in 1 .. Len(wrote'), wrote'[j] \in Prompts, TurnOf(j)' <= turn
      PROVE  j \in 1 .. Len(wrote)
  <2>1. TakenByTurn'
    BY TurnsTaken, PTL
  <2> QED
    BY <1>2, <1>3, <1>6, <2>1 DEF TakenByTurn
<1>7. ASSUME cli' \in InTurn, NEW j \in 1 .. Len(wrote'), wrote'[j] \in Prompts,
             TurnOf(j)' = turn', NEW i \in Taken', wrote'[i] \notin Requests
      PROVE  i <= j
  <2>1. turn \in Nat
    BY DEF FakeInv, PlaceInv
  <2>2. j \in 1 .. Len(wrote)
    BY <1>2, <1>6, <1>7, <2>1
  <2> QED
    BY <1>1, <1>2, <1>4, <1>5, <1>7, <2>2 DEF SwitchInv
<1>8. ASSUME NEW i \in 1 .. Len(wrote'), NEW j \in 1 .. Len(wrote'), j < i,
             wrote'[i] = SetModel, wrote'[j] \in Prompts,
             NEW k \in 1 .. Len(emitted), emitted[k].kind = "event",
             emitted[k].turn = TurnOf(j)', emitted[k].model = "chosen"
      PROVE  FALSE
  <2>1. PICK s \in Taken : wrote[s] = SetModel
    BY <1>8 DEF SwitchInv
  <2>2. s = i
    BY <1>3, <1>4, <1>8, <2>1, FakeCliAssumption DEF CallsOnce, Methods
  <2>3. i \in 1 .. Len(wrote) /\ j \in 1 .. Len(wrote)
    BY <1>1, <1>3, <1>8, <2>2
  <2> QED
    BY <1>1, <1>5, <1>8, <2>3 DEF SwitchInv
<1> QED
  BY <1>2, <1>4, <1>7, <1>8 DEF SwitchInv

\* Without a new line, and with no more taken than answers to main's own requests.
LEMMA SwitchAside ==
  ASSUME SwitchInv, UNCHANGED <<wrote, emitted, model, turn>>, Taken \subseteq Taken',
         \A i \in Taken' : i \in Taken \/ wrote[i] \in Requests,
         cli' \in InTurn => cli \in InTurn
  PROVE  SwitchInv'
<1>1. \A i : TurnOf(i)' = TurnOf(i)
  BY DEF TurnOf
<1> QED
  BY <1>1 DEF SwitchInv

LEMMA SwitchStep ==
  ASSUME FakeInv, CallsOnce, CallsOnce', SwitchInv, [ConvNext]_convVars
  PROVE  SwitchInv'
<1>1. FakeInv'
  BY FakeStep
<1>2. CASE ~Fake
  <2>1. [TransportNext]_tvars
    BY ConversationSimulates, SessionSimulates, StepSimulates
  <2> QED
    BY <1>1, <1>2, <2>1, WorldStep, SwitchWorld
<1>3. CASE FakeRecall
  BY <1>1, <1>3, RecallTakes, SwitchTakes
<1>4. CASE FakeRead
  BY <1>1, <1>4, ReadTakes, SwitchTakes
<1>5. CASE FakeWrite
  BY <1>5, SwitchWrites
<1>6. CASE Draining
  <2>1. /\ UNCHANGED <<wrote, emitted, model, turn>> /\ cli \in InTurn
        /\ \/ UNCHANGED <<stash, nheard>>
           \/ \E q \in Requests : \E next : FakeDrain(cli, q, next)
    BY <1>6, DrainCases DEF InTurn
  <2>2. CASE UNCHANGED <<stash, nheard>>
    <3>1. Taken' = Taken
      BY <2>1, <2>2 DEF Taken, Stashed
    <3> QED
      BY <2>1, <3>1, SwitchAside
  <2>3. ASSUME NEW q \in Requests, NEW next, FakeDrain(cli, q, next)
        PROVE  SwitchInv'
    <3>1. Taken' = IF wrote[nheard + 1] = q THEN Taken \cup {nheard + 1} ELSE Taken
      BY <2>3, DrainHears
    <3> QED
      BY <2>1, <3>1, SwitchAside
  <2> QED
    BY <2>1, <2>2, <2>3
<1>7. CASE FakeExit
  <2>1. UNCHANGED <<wrote, emitted, model, turn, nheard, stash>> /\ cli' = "exited"
    BY <1>7 DEF FakeExit, CliExit, outVars, inVars
  <2>2. Taken' = Taken /\ cli' \notin InTurn
    BY <2>1 DEF Taken, Stashed, InTurn
  <2> QED
    BY <2>1, <2>2, SwitchAside
<1> QED
  BY <1>2, <1>3, <1>4, <1>5, <1>6, <1>7 DEF Fake

\* A switch of the model holds for the turns of the prompts that stand behind it in
\* stdin and for none of those before, although the CLI may put either line aside
\* and come to it after others: for any number of prompts and of its own requests.
THEOREM SwitchHoldsForLaterTurns == ConvSpec => []ModelFollows
<1>1. ConvInit => ModelInv
  <2> SUFFICES ASSUME ConvInit PROVE ModelInv
    OBVIOUS
  <2>1. Len(emitted) = 0 /\ Len(wrote) = 0 /\ nheard = 0
    BY EmptySeq DEF ConvInit, SessionInit, RunnerInit, TransportInit
  <2> QED
    BY <2>1 DEF ModelInv, Taken
<1>2. ConvSpec => []ModelInv
  BY <1>1, ModelStep, FakeInvHolds, TurnsHold, PTL DEF ConvSpec
<1>3. ConvInit => SwitchInv
  <2> SUFFICES ASSUME ConvInit PROVE SwitchInv
    OBVIOUS
  <2>1. Len(emitted) = 0 /\ Len(wrote) = 0 /\ model = "efficient" /\ cli = "boot"
    BY EmptySeq DEF ConvInit, FakeInit, SessionInit, RunnerInit, TransportInit
  <2> QED
    BY <2>1 DEF SwitchInv, InTurn
<1>4. ConvSpec => []CallsOnce
  BY FakeIsOneOfThem, SessionKeepsRunnerRules, CallsWrittenOnce, PTL DEF FakeIsACli
<1>5. ConvSpec => []SwitchInv
  BY <1>3, <1>4, SwitchStep, FakeInvHolds, PTL DEF ConvSpec
<1>6. FakeInv /\ ModelInv /\ SwitchInv => ModelFollows
  <2> SUFFICES ASSUME FakeInv, ModelInv, SwitchInv,
                      NEW i \in 1 .. Len(wrote), NEW j \in 1 .. Len(wrote),
                      wrote[i] = SetModel, wrote[j] \in Prompts,
                      NEW k \in 1 .. Len(emitted), emitted[k].kind = "event",
                      emitted[k].turn = TurnOf(j)
               PROVE  emitted[k].model \in {"none", IF i < j THEN "chosen" ELSE "efficient"}
    BY DEF ModelFollows
  <2>1. SetModel \notin Prompts
    BY FakeCliAssumption DEF Methods, Prompts
  <2>2. i < j \/ j < i
    BY <2>1, InputFacts
  <2> QED
    BY <2>2 DEF ModelInv, SwitchInv, Models
<1> QED
  BY <1>2, <1>5, <1>6, FakeInvHolds, PTL

-----------------------------------------------------------------------------
(* The goroutine that takes turns. *)

Drained == tee = "done" /\ nevents = Len(events)
Excused == late + (IF asking THEN 1 ELSE 0)

HostTypeOK ==
  /\ asking \in BOOLEAN /\ asked \in Nat /\ late \in Nat
  /\ answers \in Seq([at : Nat, asked : Nat, late : Nat])

\* One call at a time, one turn asked for by each prompt written; and while the
\* stream may bring more, what is not answered yet is what timed out.
HostInv ==
  /\ HostTypeOK
  /\ asking => \A p \in Prompts : ~Sending(p)
  /\ \A p, q \in Prompts : Sending(p) /\ Sending(q) => p = q
  /\ asked = TurnOf(Len(wrote))
  /\ ClosedCh => ~asking /\ SendsOver /\ (Unanswered = 0 \/ tee = "done")
  /\ ClosedCh \/ Drained \/ Unanswered <= Excused

\* The SDK ends a Send only with an error, and its tee for good.
LEMMA SdkBelowHost ==
  ASSUME SessionGoes, TeeInv
  PROVE  /\ \/ UNCHANGED prompt
            \/ \E p \in Prompts : Sending(p) /\ prompt' = [prompt EXCEPT ![p] = "error"]
         /\ ClosedCh' <=> ClosedCh
         /\ tee = "done" => tee' = "done" /\ events' = events
         /\ UNCHANGED nevents
<1>1. CASE (Initialize \/ Reader \/ CloseProgress) /\ UNCHANGED <<rvars, svars>>
  BY <1>1 DEF svars, ClosedCh
<1>2. CASE RunnerOwn /\ UNCHANGED svars
  BY <1>2 DEF svars, ClosedCh
<1>3. CASE NewSession
  BY <1>3
  DEF NewSession, StartFails, HandshakeBegin, HandshakeFails, HandshakeDone, WaitTest,
      WaitDone, WaitRunDone, WaitCancelled, SetupFailed, teeVars, ClosedCh, TeeInv
<1>4. CASE Tee
  BY <1>4 DEF Tee, TeeTake, TeeSend, TeeStop, TeeEnd, ClosedCh
<1>5. ASSUME NEW c, MethodGoes(c)
      PROVE  UNCHANGED <<prompt, ending, teeVars>>
  BY <1>5
  DEF MethodGoes, MethodRegister, MethodResult, MethodTimeout, MethodClosed, MethodReturns,
      svars, teeVars
<1>6. ASSUME NEW p \in Prompts, SendFails(p)
      PROVE  /\ Sending(p) /\ prompt' = [prompt EXCEPT ![p] = "error"]
             /\ UNCHANGED <<ending, teeVars>>
  BY <1>6 DEF SendFails
<1>7. CASE CloseShutdown \/ CloseDone
  BY <1>7 DEF CloseShutdown, CloseDone, teeVars, ClosedCh
<1> QED
  BY <1>1, <1>2, <1>3, <1>4, <1>5, <1>6, <1>7 DEF SessionGoes, teeVars, ClosedCh

\* A write other than that of a prompt asks for no turn.
LEMMA TurnsWritten ==
  ASSUME wrote \in Seq(Writers), NEW w \in Writers, wrote' = Append(wrote, w)
  PROVE  TurnOf(Len(wrote))' = TurnOf(Len(wrote)) + (IF w \in Prompts THEN 1 ELSE 0)
<1> DEFINE n == Len(wrote)
<1>1. /\ n \in Nat /\ Len(wrote') = n + 1 /\ wrote'[n + 1] = w
      /\ \A i \in 1 .. n : wrote'[i] = wrote[i]
  BY LogAppend, LenProperties
<1>2. \A i \in 1 .. n + 1 : i \in 1 .. n \/ i = n + 1
  BY <1>1
<1>3. 1 .. n \subseteq 1 .. n + 1 /\ n + 1 \in 1 .. n + 1 /\ n + 1 \notin 1 .. n
  BY <1>1
<1>4. {i \in 1 .. n + 1 : wrote'[i] \in Prompts}
        = IF w \in Prompts THEN PromptsTo(n) \cup {n + 1} ELSE PromptsTo(n)
  BY <1>1, <1>2, <1>3 DEF PromptsTo
<1>5. IsFiniteSet(PromptsTo(n)) /\ Cardinality(PromptsTo(n)) \in Nat /\ n + 1 \notin PromptsTo(n)
      /\ TurnOf(n) = Cardinality(PromptsTo(n))
  BY <1>1, <1>3, PromptsToFinite DEF PromptsTo
<1>6. TurnOf(Len(wrote))' = Cardinality({i \in 1 .. n + 1 : wrote'[i] \in Prompts})
  BY <1>1 DEF TurnOf
<1>7. CASE w \in Prompts
  <2>1. TurnOf(Len(wrote))' = Cardinality(PromptsTo(n) \cup {n + 1})
    BY <1>4, <1>6, <1>7
  <2>2. Cardinality(PromptsTo(n) \cup {n + 1}) = TurnOf(n) + 1
    BY <1>5, FS_AddElement
  <2> QED
    BY <1>7, <2>1, <2>2
<1>8. CASE w \notin Prompts
  <2>1. TurnOf(Len(wrote))' = Cardinality(PromptsTo(n))
    BY <1>4, <1>6, <1>8
  <2> QED
    BY <1>5, <1>8, <2>1
<1> QED
  BY <1>7, <1>8

LEMMA SdkAsksNothing ==
  ASSUME FakeInv, SessionGoes, TeeInv
  PROVE  TurnOf(Len(wrote))' = TurnOf(Len(wrote))
<1>1. wrote \in Seq(Writers) /\ DOMAIN prompt = Prompts
  BY DEF FakeInv, TransportTypeOK, PromptInv
<1>2. CASE wrote' = wrote
  BY <1>2 DEF TurnOf
<1>3. ASSUME NEW p \in Prompts, SendWrite(p)
      PROVE  FALSE
  <2>1. prompt[p] = "write" /\ prompt' = [prompt EXCEPT ![p] = "sent"]
    BY <1>3 DEF SendWrite, Sending
  <2>2. prompt'[p] = "sent"
    BY <1>1, <2>1
  <2>3. prompt'[p] \in {"write", "error"}
    BY <1>1, <2>1, SdkBelowHost
  <2> QED
    BY <2>2, <2>3
<1>4. ASSUME NEW w \in Calls \cup Requests, wrote' = Append(wrote, w)
      PROVE  TurnOf(Len(wrote))' = TurnOf(Len(wrote))
  <2>1. w \in Writers /\ w \notin Prompts
    BY RunnerAssumption DEF Prompts
  <2>2. TurnOf(Len(wrote)) \in Nat
    BY <1>1, LenProperties, PromptsToFinite
  <2> QED
    BY <1>1, <1>4, <2>1, <2>2, TurnsWritten
<1>5. [SessionNext]_allVars
  BY SessionGoesOn
<1> QED
  BY <1>2, <1>3, <1>4, <1>5, SessionWrites DEF SendStep

\* Steps of the SDK and of the CLI: the host does nothing.
LEMMA HostAside ==
  ASSUME HostInv, UNCHANGED <<hvars, nevents, TurnOf(Len(wrote))>>,
         \/ UNCHANGED prompt
         \/ \E p \in Prompts : Sending(p) /\ prompt' = [prompt EXCEPT ![p] = "error"],
         ClosedCh' <=> ClosedCh,
         tee = "done" => tee' = "done" /\ events' = events,
         DOMAIN prompt = Prompts
  PROVE  HostInv'
<1>1. UNCHANGED <<asking, asked, late, answers>>
  BY DEF hvars
<1>2. /\ \A p \in Prompts : Sending(p)' => Sending(p)
      /\ SendsOver => SendsOver'
  BY DEF Sending, SendsOver
<1>3. HostTypeOK' /\ Unanswered' = Unanswered /\ Excused' = Excused
  BY <1>1 DEF HostInv, HostTypeOK, Unanswered, Excused
<1>4. Drained => Drained'
  BY DEF Drained
<1> QED
  BY <1>1, <1>2, <1>3, <1>4 DEF HostInv

LEMMA SendMarks ==
  ASSUME FakeInv, HostInv, NEW p \in Prompts, HostWritten(p)
  PROVE  HostInv'
<1>1. /\ prompt[p] = "write" /\ prompt' = [prompt EXCEPT ![p] = "sent"]
      /\ wrote' = Append(wrote, p) /\ UNCHANGED <<teeVars, ending, late, answers>>
      /\ asking' = TRUE /\ asked' = asked + 1
  BY DEF HostWritten, SendWrite, Sending, PromptWrite, WriteAccepted
<1>2. p \in Writers /\ wrote \in Seq(Writers) /\ DOMAIN prompt = Prompts
  BY DEF Prompts, FakeInv, TransportTypeOK, PromptInv
<1>3. ~asking /\ ~ClosedCh
  BY <1>1 DEF HostInv, Sending, SendsOver
<1>4. \A q \in Prompts : ~Sending(q)'
  BY <1>1, <1>2 DEF HostInv, Sending
<1>5. asked' = TurnOf(Len(wrote))'
  BY <1>1, <1>2, TurnsWritten DEF HostInv
<1>6. Len(answers) \in Nat /\ asked \in Nat /\ late \in Nat /\ HostTypeOK'
  BY <1>1 DEF HostInv, HostTypeOK
<1>7. Unanswered' = Unanswered + 1 /\ Excused' = Excused + 1 /\ Unanswered \in Int /\ Excused \in Int
  BY <1>1, <1>3, <1>6 DEF Unanswered, Excused
<1>8. Drained' = Drained /\ ~ClosedCh'
  BY <1>1, <1>3 DEF Drained, teeVars, ClosedCh
<1>9. Drained' \/ Unanswered' <= Excused'
  BY <1>3, <1>7, <1>8 DEF HostInv
<1> QED
  BY <1>4, <1>5, <1>6, <1>8, <1>9 DEF HostInv

\* A ReceiveResponse that takes an event of the stream, which so is not drained.
LEMMA TakeAnswers ==
  ASSUME FakeInv, TeeInv, HostInv, ReceiveTakes, events[nevents + 1] \in Nat
  PROVE  HostInv'
<1>1. /\ UNCHANGED <<prompt, ending, tee, events, wrote, asked, late>>
      /\ asking /\ nevents < Len(events)
  BY DEF ReceiveTakes, EventTake, vars, tvars
<1>2. ~ClosedCh /\ ~ClosedCh' /\ ~Drained
  BY <1>1 DEF HostInv, ClosedCh, Drained, TeeInv
<1>3. Len(answers) \in Nat /\ asked \in Nat /\ late \in Nat /\ Unanswered <= late + 1
  BY <1>1, <1>2 DEF HostInv, HostTypeOK, Excused
<1>4. TurnOf(Len(wrote))' = TurnOf(Len(wrote)) /\ \A p \in Prompts : Sending(p)' = Sending(p)
  BY <1>1 DEF TurnOf, Sending
<1>5. CASE UNCHANGED <<asking, answers>>
  <2>1. HostTypeOK' /\ Unanswered' <= Excused'
    BY <1>1, <1>3, <1>5 DEF HostInv, HostTypeOK, Unanswered, Excused
  <2> QED
    BY <1>1, <1>2, <1>4, <1>5, <2>1 DEF HostInv
<1>6. ASSUME NEW a \in [at : Nat, asked : Nat, late : Nat],
             answers' = Append(answers, a), asking' = FALSE
      PROVE  HostInv'
  <2>1. answers \in Seq([at : Nat, asked : Nat, late : Nat])
    BY DEF HostInv, HostTypeOK
  <2>2. /\ answers' \in Seq([at : Nat, asked : Nat, late : Nat])
        /\ Len(answers') = Len(answers) + 1
    BY <1>6, <2>1, LogAppend
  <2>3. HostTypeOK'
    BY <1>1, <1>6, <2>2 DEF HostInv, HostTypeOK
  <2>4. Unanswered' <= Excused'
    BY <1>1, <1>3, <1>6, <2>2 DEF Unanswered, Excused
  <2> QED
    BY <1>1, <1>2, <1>4, <1>6, <2>3, <2>4 DEF HostInv
<1>7. CASE emitted[events[nevents + 1]].kind = "result"
  <2>1. [at |-> events[nevents + 1], asked |-> asked, late |-> late]
          \in [at : Nat, asked : Nat, late : Nat]
    BY <1>3
  <2> QED
    BY <1>6, <1>7, <2>1 DEF ReceiveTakes
<1>8. CASE emitted[events[nevents + 1]].kind # "result"
  BY <1>5, <1>8 DEF ReceiveTakes
<1> QED
  BY <1>7, <1>8

LEMMA HostStep ==
  ASSUME FakeInv, TeeInv, HostInv, \A m \in 1 .. Len(events) : events[m] \in Nat,
         nevents \in Nat, [ConvNext]_convVars
  PROVE  HostInv'
<1> USE DEF HostInv
<1>1. DOMAIN prompt = Prompts /\ Len(events) \in Nat
  BY DEF FakeInv, PromptInv, TeeInv
<1>2. UNCHANGED wrote => TurnOf(Len(wrote))' = TurnOf(Len(wrote))
  BY DEF TurnOf
<1>3. /\ HostTypeOK /\ Len(answers) \in Nat /\ asked \in Nat /\ late \in Nat
      /\ Unanswered \in Int
  BY DEF HostTypeOK, Unanswered
<1>4. CASE SessionGoes /\ UNCHANGED <<fvars, hvars>>
  BY <1>1, <1>4, HostAside, SdkBelowHost, SdkAsksNothing
<1>5. CASE (Fake \/ FakeKilled) /\ UNCHANGED hvars
  <2>1. UNCHANGED <<svars, wrote>>
    BY <1>5
    DEF Fake, FakeRecall, FakeRead, FakeWrite, Draining, FakeDrain, FakeDrainEnds, FakeExit,
        FakeKilled, CliEmit, CliHear, CliExit, inVars, allVars, vars, tvars
  <2> QED
    BY <1>1, <1>2, <1>5, <2>1, HostAside DEF svars, ClosedCh
<1>6. CASE HostSends
  <2>1. PICK p \in Prompts : prompt[p] = "idle" /\ SendLock(p)
    BY <1>6 DEF HostSends, NextPrompt
  <2>2. /\ UNCHANGED <<wrote, teeVars, ending, hvars>> /\ ~asking
        /\ \A q \in Prompts : ~Sending(q)
        /\ \E v : prompt' = [prompt EXCEPT ![p] = v]
    BY <1>6, <2>1 DEF HostSends, Busy, SendLock, vars, tvars
  <2>3. ~ClosedCh /\ ~ClosedCh'
    BY <2>1, <2>2 DEF SendsOver, ClosedCh
  <2>4. \A q \in Prompts : Sending(q)' => q = p
    BY <1>1, <2>2 DEF Sending
  <2>5. UNCHANGED <<asking, asked, late, answers, tee, events, nevents>>
    BY <2>2 DEF hvars, teeVars
  <2>6. HostTypeOK' /\ Unanswered' = Unanswered /\ Excused' = Excused /\ (Drained => Drained')
    BY <2>5 DEF HostTypeOK, Unanswered, Excused, Drained
  <2> QED
    BY <1>2, <2>2, <2>3, <2>4, <2>5, <2>6
<1>7. ASSUME NEW p \in Prompts, HostWritten(p)
      PROVE  HostInv'
  BY <1>7, SendMarks
<1>8. CASE ReceiveTakes
  <2>1. nevents + 1 \in 1 .. Len(events)
    BY <1>1, <1>8 DEF ReceiveTakes, EventTake
  <2> QED
    BY <1>8, <2>1, TakeAnswers
<1>9. CASE ReceiveTimeout \/ ReceiveEnds \/ HostAsksAgain
  <2>1. UNCHANGED <<wrote, prompt, ending, tee, events, nevents, asked, answers>>
    BY <1>9
    DEF ReceiveTimeout, ReceiveEnds, HostAsksAgain, fakeVars, allVars, vars, tvars, svars
  <2>2. UNCHANGED <<Drained, SendsOver, Unanswered>> /\ ClosedCh' = ClosedCh
        /\ \A p \in Prompts : Sending(p)' = Sending(p)
    BY <2>1 DEF Drained, SendsOver, Unanswered, ClosedCh, Sending
  <2>3. CASE ReceiveTimeout
    <3>1. asking /\ asking' = FALSE /\ late' = late + 1
      BY <2>3 DEF ReceiveTimeout
    <3>2. HostTypeOK'
      <4>1. asking' \in BOOLEAN
        BY <3>1
      <4>2. late' \in Nat
        BY <1>3, <3>1
      <4> QED
        BY <1>3, <2>1, <4>1, <4>2 DEF HostTypeOK
    <3>3. Excused' = Excused
      BY <1>3, <3>1 DEF Excused
    <3> QED
      BY <1>2, <2>1, <2>2, <3>1, <3>2, <3>3
  <2>4. CASE ReceiveEnds
    <3>1. asking /\ asking' = FALSE /\ late' = late /\ Drained
      BY <2>4 DEF ReceiveEnds, Drained
    <3>2. HostTypeOK'
      BY <2>1, <3>1 DEF HostTypeOK
    <3> QED
      BY <1>2, <2>1, <2>2, <3>1, <3>2
  <2>5. CASE HostAsksAgain
    <3>1. /\ asking' = TRUE /\ ~asking /\ late' = late /\ Unanswered > 0 /\ tee # "done"
          /\ \A p \in Prompts : ~Sending(p)
      BY <2>5 DEF HostAsksAgain, Busy
    <3>2. ~ClosedCh
      BY <1>3, <3>1
    <3>3. HostTypeOK' /\ Excused' = Excused + 1 /\ Excused \in Int
      BY <1>3, <2>1, <3>1 DEF HostTypeOK, Excused
    <3>4. Drained' \/ Unanswered' <= Excused'
      BY <1>3, <2>2, <3>2, <3>3
    <3> QED
      BY <1>2, <2>1, <2>2, <3>1, <3>2, <3>3, <3>4
  <2> QED
    BY <1>9, <2>3, <2>4, <2>5
<1>10. CASE HostSetsModel \/ UNCHANGED convVars
  <2>1. UNCHANGED <<hvars, wrote, prompt, ending, tee, events, nevents>>
    BY <1>10
    DEF HostSetsModel, MethodStart, teeVars, convVars, fakeVars, allVars, vars, tvars, svars
  <2> QED
    BY <1>1, <1>2, <2>1, HostAside DEF ClosedCh
<1>11. CASE HostCloses
  <2>1. /\ UNCHANGED <<hvars, wrote, prompt, tee, events, nevents>>
        /\ ~asking /\ SendsOver /\ (Unanswered = 0 \/ tee = "done") /\ ending' = "ending"
    BY <1>11 DEF HostCloses, CloseStart, Busy, teeVars, vars, tvars
  <2>2. UNCHANGED <<asking, asked, late, answers>>
    BY <2>1 DEF hvars
  <2>3. HostTypeOK' /\ Unanswered' = Unanswered /\ SendsOver' /\ ClosedCh'
        /\ \A p \in Prompts : Sending(p)' = Sending(p)
    BY <2>1, <2>2 DEF HostTypeOK, Unanswered, SendsOver, ClosedCh, Sending
  <2> QED
    BY <1>2, <2>1, <2>2, <2>3
<1> QED
  BY <1>4, <1>5, <1>6, <1>7, <1>8, <1>9, <1>10, <1>11 DEF ConvNext, Receiving

-----------------------------------------------------------------------------
(* The answers: by the theorem about every relay, the events taken are the *)
(* oldest messages of the script.                                          *)

Downstream == INSTANCE RelayProofs WITH
  offered <- {k \in 1 .. Len(emitted) : Forwarded(emitted[k])},
  delivered <- events,
  ended <- tee = "done"

LEMMA EventsArePrefix == SessionSpec => []Downstream!Prefix
BY SessionRelays, Downstream!RelayHandsPrefix, PTL
DEF StreamIsRelay, EndToEnd!RelaySpec, Downstream!RelaySpec, EndToEnd!RelayInit,
    Downstream!RelayInit, EndToEnd!Offer, Downstream!Offer, EndToEnd!Deliver,
    Downstream!Deliver, EndToEnd!Handed, Downstream!Handed, EndToEnd!Cut, Downstream!Cut,
    EndToEnd!relayVars, Downstream!relayVars

\* What is known of the stream when a ReceiveResponse looks at it.
EventsInv == SessionTypeOK /\ TeeFlow /\ Downstream!Prefix

LEMMA EventFacts ==
  ASSUME EventsInv
  PROVE  /\ Len(events) \in Nat /\ nevents \in 0 .. Len(events) /\ Len(emitted) \in Nat
         /\ \A m \in 1 .. Len(events) : events[m] \in 1 .. Len(emitted)
         /\ \A i, j \in 1 .. Len(events) : i < j => events[i] < events[j]
         /\ \A k \in 1 .. Len(emitted), m \in 1 .. Len(events) :
              emitted[k].kind = "result" /\ k < events[m] =>
                \E i \in 1 .. Len(events) : events[i] = k
<1> DEFINE Lines == {k \in 1 .. Len(emitted) : Forwarded(emitted[k])}
<1>1. /\ events \in Seq(Lines)
      /\ \A i, j \in 1 .. Len(events) : i < j => events[i] < events[j]
      /\ \A k \in Lines :
           (\E i \in 1 .. Len(events) : k < events[i]) => \E i \in 1 .. Len(events) : events[i] = k
  BY DEF EventsInv, Downstream!Prefix, Downstream!Handed
<1>2. Len(events) \in Nat /\ \A m \in 1 .. Len(events) : events[m] \in Lines
  BY <1>1, ElementOfSeq, LenProperties
<1>3. nevents \in 0 .. Len(events)
  BY DEF EventsInv, SessionTypeOK
<1>4. Len(emitted) \in Nat
  BY LenProperties DEF EventsInv, TeeFlow, RunnerTypeInv, RunnerTypeOK, TransportTypeOK
<1> QED
  BY <1>1, <1>2, <1>3, <1>4 DEF Forwarded

\* The results taken from the stream are those returned, and each is the one of
\* its turn.
AnswerInv ==
  /\ \A i \in 1 .. Len(answers) :
       /\ \E m \in 1 .. nevents : answers[i].at = events[m] /\ ResultOf(events[m], i)
       /\ answers[i].asked - i \in 0 .. answers[i].late
  /\ \A m \in 1 .. nevents :
       emitted[events[m]].kind = "result" => emitted[events[m]].turn <= Len(answers)

\* The oldest result not returned is that of the next turn.
LEMMA NextResult ==
  ASSUME FakeInv, TurnsInv, HostInv, EventsInv, AnswerInv, nevents < Len(events),
         emitted[events[nevents + 1]].kind = "result"
  PROVE  emitted[events[nevents + 1]].turn = Len(answers) + 1
<1> DEFINE k == events[nevents + 1]
           n == Len(answers)
<1>1. /\ nevents + 1 \in 1 .. Len(events) /\ k \in 1 .. Len(emitted) /\ nevents \in Nat
      /\ n \in Nat /\ turn \in Nat /\ Len(events) \in Nat
      /\ 1 .. nevents \subseteq 1 .. Len(events)
  <2>1. nevents \in Nat /\ Len(events) \in Nat /\ nevents + 1 \in 1 .. Len(events)
    BY EventFacts
  <2>2. n \in Nat /\ turn \in Nat
    BY LenProperties DEF HostInv, HostTypeOK, FakeInv, PlaceInv
  <2> QED
    BY <2>1, <2>2, EventFacts
<1>2. emitted[k].turn \in 1 .. turn
  BY <1>1 DEF TurnsInv
<1>3. n < emitted[k].turn
  <2>1. CASE n = 0
    BY <1>2, <2>1
  <2>2. CASE n # 0
    <3>1. n \in 1 .. Len(answers)
      BY <1>1, <2>2
    <3>2. PICK m \in 1 .. nevents : ResultOf(events[m], n)
      BY <3>1 DEF AnswerInv
    <3>3. events[m] < k /\ events[m] \in 1 .. Len(emitted)
      BY <1>1, EventFacts
    <3> QED
      BY <1>1, <3>2, <3>3 DEF TurnsInv, ResultOf
  <2> QED
    BY <2>1, <2>2
<1>4. ~(n + 1 < emitted[k].turn)
  <2> SUFFICES ASSUME n + 1 < emitted[k].turn PROVE FALSE
    OBVIOUS
  <2>1. n + 1 \in 1 .. turn /\ n + 1 # turn
    BY <1>1, <1>2
  <2>2. PICK j \in 1 .. Len(emitted) : ResultOf(j, n + 1)
    BY <2>1 DEF TurnsInv
  <2>3. j \in Nat /\ k \in Nat /\ j # k /\ ~(k < j)
    <3>1. k < j => emitted[k].turn < n + 1
      BY <1>1, <2>2 DEF TurnsInv, ResultOf
    <3>2. emitted[j].turn = n + 1 /\ emitted[k].turn # n + 1
      BY <1>1, <1>2, <2>2 DEF ResultOf
    <3>3. j # k
      BY <3>2
    <3> QED
      BY <1>1, <1>2, <3>1, <3>3
  <2>4. PICK i \in 1 .. Len(events) : events[i] = j
    BY <1>1, <2>2, <2>3, EventFacts DEF ResultOf
  <2>5. i \in 1 .. nevents
    <3>1. i # nevents + 1
      BY <2>3, <2>4
    <3>2. nevents + 1 < i => k < j
      BY <1>1, <2>4, EventFacts
    <3> QED
      BY <1>1, <2>3, <3>1, <3>2
  <2> QED
    BY <1>1, <2>2, <2>4, <2>5 DEF AnswerInv, ResultOf
<1> QED
  BY <1>1, <1>2, <1>3, <1>4

\* No turn begins before it is asked for.
LEMMA TurnsAreAsked ==
  ASSUME FakeInv, HostInv
  PROVE  turn <= asked
<1>1. /\ Len(wrote) \in Nat /\ Taken \subseteq 1 .. Len(wrote)
      /\ turn = Cardinality(TakenPrompts) /\ asked = TurnOf(Len(wrote))
  BY InputFacts DEF FakeInv, OrderInv, HostInv
<1>2. TakenPrompts \in SUBSET PromptsTo(Len(wrote))
  BY <1>1 DEF TakenPrompts, PromptsTo
<1> QED
  BY <1>1, <1>2, PromptsToFinite, FS_Subset

\* The stream only grows while nobody takes from it.
LEMMA StreamGrows ==
  ASSUME EventsInv, [SessionNext]_allVars, TransportTypeOK'
  PROVE  /\ Len(events) <= Len(events') /\ Len(events') \in Nat
         /\ \A m \in 1 .. Len(events) :
              events'[m] = events[m] /\ emitted'[events[m]] = emitted[events[m]]
<1>1. Len(events) \in Nat /\ \A m \in 1 .. Len(events) : events[m] \in 1 .. Len(emitted)
  BY EventFacts
<1>2. events' = events \/ \E e : events' = Append(events, e)
  BY TeeSteps DEF TeeAside, TeeTake, TeeSend, TeeStop, TeeEnd, HandshakeDone
<1>3. /\ Len(events') \in Nat /\ Len(events) <= Len(events')
      /\ \A m \in 1 .. Len(events) : events'[m] = events[m]
  BY <1>1, <1>2
<1>4. [TransportNext]_tvars /\ TransportTypeOK
  BY SessionSimulates, StepSimulates DEF EventsInv, TeeFlow, RunnerTypeInv, RunnerTypeOK
<1>5. \A k \in 1 .. Len(emitted) : emitted'[k] = emitted[k]
  BY <1>4, LogsGrow
<1> QED
  BY <1>1, <1>3, <1>5

\* Only ReceiveResponse takes events, and returns results.
LEMMA OnlyHostTakes ==
  ASSUME [ConvNext]_convVars, ~ReceiveTakes, TeeInv
  PROVE  UNCHANGED <<answers, nevents>>
<1>1. CASE SessionGoes /\ UNCHANGED <<fvars, hvars>>
  BY <1>1, SdkBelowHost DEF hvars
<1>2. CASE (Fake \/ FakeKilled) /\ UNCHANGED hvars
  BY <1>2
  DEF Fake, FakeRecall, FakeRead, FakeWrite, Draining, FakeDrain, FakeDrainEnds, FakeExit,
      FakeKilled, allVars, svars, hvars
<1>3. CASE HostSends \/ HostSetsModel \/ HostCloses
  BY <1>3 DEF HostSends, SendLock, HostSetsModel, MethodStart, HostCloses, CloseStart,
              teeVars, hvars
<1>4. ASSUME NEW p \in Prompts, HostWritten(p)
      PROVE  UNCHANGED <<answers, nevents>>
  BY <1>4 DEF HostWritten, SendWrite, teeVars
<1>5. CASE ReceiveEnds \/ ReceiveTimeout \/ HostAsksAgain \/ UNCHANGED convVars
  BY <1>5 DEF ReceiveEnds, ReceiveTimeout, HostAsksAgain, convVars, fakeVars, allVars,
              svars, hvars
<1> QED
  BY <1>1, <1>2, <1>3, <1>4, <1>5 DEF ConvNext, Receiving

LEMMA AnswerTakes ==
  ASSUME FakeInv, TurnsInv, HostInv, EventsInv, AnswerInv, ReceiveTakes
  PROVE  AnswerInv'
<1> DEFINE k == events[nevents + 1]
           n == Len(answers)
<1>1. /\ UNCHANGED <<emitted, events>> /\ nevents < Len(events) /\ nevents' = nevents + 1
      /\ asking /\ ~Drained
  <2>1. Len(events) \in Nat /\ nevents \in 0 .. Len(events)
    BY EventFacts
  <2> QED
    BY <2>1 DEF ReceiveTakes, EventTake, Drained, vars, tvars
<1>2. nevents \in Nat /\ n \in Nat /\ Len(events) \in Nat
  BY EventFacts, LenProperties DEF HostInv, HostTypeOK
<1>3. /\ \A m \in 1 .. nevents' : m \in 1 .. nevents \/ m = nevents + 1
      /\ 1 .. nevents \subseteq 1 .. nevents' /\ nevents + 1 \in 1 .. nevents'
  BY <1>1, <1>2
<1>4. CASE emitted[k].kind # "result"
  <2>1. answers' = answers
    BY <1>4 DEF ReceiveTakes
  <2> QED
    BY <1>1, <1>3, <1>4, <2>1 DEF AnswerInv, ResultOf
<1>5. CASE emitted[k].kind = "result"
  <2> DEFINE a == [at |-> k, asked |-> asked, late |-> late]
  <2>1. answers' = Append(answers, a)
    BY <1>5 DEF ReceiveTakes
  <2>2. /\ Len(answers') = n + 1 /\ answers'[n + 1] = a
        /\ \A i \in 1 .. n : answers'[i] = answers[i]
    BY <1>2, <2>1
  <2>3. turn \in Nat
    BY DEF FakeInv, PlaceInv
  <2>4. emitted[k].turn = n + 1
    BY <1>1, <1>5, NextResult
  <2>5. asked - (n + 1) \in 0 .. late
    <3>1. ~ClosedCh /\ Unanswered <= Excused
      BY <1>1 DEF HostInv
    <3>2. asked \in Nat /\ late \in Nat /\ asked - n <= late + 1
      BY <1>1, <3>1 DEF Unanswered, Excused, HostInv, HostTypeOK
    <3>3. n + 1 <= turn /\ turn \in Nat
      <4>1. k \in 1 .. Len(emitted)
        BY <1>1, <1>2, EventFacts
      <4>2. emitted[k].turn \in 0 .. turn
        BY <1>5, <4>1 DEF TurnsInv
      <4> QED
        BY <1>2, <2>4, <2>3, <4>2
    <3> QED
      BY <1>2, <3>2, <3>3, TurnsAreAsked
  <2>6. \A i \in 1 .. n + 1 : i \in 1 .. n \/ i = n + 1
    BY <1>2
  <2>7. ASSUME NEW i \in 1 .. n + 1
        PROVE  /\ \E m \in 1 .. nevents' :
                    answers'[i].at = events[m] /\ ResultOf(events[m], i)
               /\ answers'[i].asked - i \in 0 .. answers'[i].late
    <3>1. CASE i \in 1 .. n
      BY <1>3, <2>2, <3>1 DEF AnswerInv
    <3>2. CASE i = n + 1
      BY <1>3, <1>5, <2>2, <2>4, <2>5, <3>2 DEF ResultOf
    <3> QED
      BY <2>6, <3>1, <3>2
  <2>8. ASSUME NEW m \in 1 .. nevents', emitted[events[m]].kind = "result"
        PROVE  emitted[events[m]].turn <= n + 1
    <3>1. CASE m \in 1 .. nevents
      <4>1. emitted[events[m]].turn <= n
        BY <2>8, <3>1 DEF AnswerInv
      <4>2. events[m] \in 1 .. Len(emitted)
        BY <1>1, <1>2, <3>1, EventFacts
      <4>3. emitted[events[m]].turn \in 0 .. turn
        BY <2>8, <4>2 DEF TurnsInv
      <4> QED
        BY <1>2, <2>3, <4>1, <4>3
    <3>2. CASE m = nevents + 1
      BY <1>2, <2>4, <3>2
    <3> QED
      BY <1>3, <3>1, <3>2
  <2> QED
    BY <1>1, <2>2, <2>7, <2>8 DEF AnswerInv, ResultOf
<1> QED
  BY <1>4, <1>5

LEMMA AnswerStep ==
  ASSUME FakeInv, TurnsInv, HostInv, EventsInv, AnswerInv, [ConvNext]_convVars
  PROVE  AnswerInv'
<1>1. CASE ReceiveTakes
  BY <1>1, AnswerTakes
<1>2. CASE ~ReceiveTakes
  <2>1. UNCHANGED <<answers, nevents>>
    BY <1>2, OnlyHostTakes DEF EventsInv, TeeFlow
  <2>2. [SessionNext]_allVars /\ TransportTypeOK'
    BY ConversationSimulates, FakeStep DEF FakeInv
  <2>3. \A m \in 1 .. nevents : m \in 1 .. Len(events)
    BY EventFacts
  <2>4. \A m \in 1 .. nevents :
          events'[m] = events[m] /\ emitted'[events[m]] = emitted[events[m]]
    BY <2>2, <2>3, StreamGrows
  <2>5. ASSUME NEW i \in 1 .. Len(answers)
        PROVE  /\ \E m \in 1 .. nevents : answers[i].at = events'[m] /\ ResultOf(events[m], i)'
               /\ answers[i].asked - i \in 0 .. answers[i].late
    <3>1. PICK m \in 1 .. nevents : answers[i].at = events[m] /\ ResultOf(events[m], i)
      BY DEF AnswerInv
    <3>2. answers[i].at = events'[m] /\ ResultOf(events[m], i)'
      BY <2>4, <3>1 DEF ResultOf
    <3> QED
      BY <3>2 DEF AnswerInv
  <2>6. \A m \in 1 .. nevents :
          emitted'[events'[m]].kind = "result" => emitted'[events'[m]].turn <= Len(answers)
    BY <2>4 DEF AnswerInv
  <2> QED
    BY <2>1, <2>5, <2>6 DEF AnswerInv
<1> QED
  BY <1>1, <1>2

LEMMA StreamKnown == ConvSpec => []EventsInv
BY FakeIsOneOfThem, SessionTypeCorrect, TeeFlowHolds, EventsArePrefix, PTL
DEF FakeIsACli, EventsInv

LEMMA HostHolds == ConvSpec => []HostInv
<1>1. ConvInit => HostInv
  <2> SUFFICES ASSUME ConvInit PROVE HostInv
    OBVIOUS
  <2>1. /\ asking = FALSE /\ asked = 0 /\ late = 0 /\ answers = <<>> /\ wrote = <<>>
        /\ ending = "no" /\ prompt = [p \in Prompts |-> "idle"]
    BY DEF ConvInit, SessionInit, RunnerInit, TransportInit
  <2>2. /\ Len(wrote) = 0 /\ Len(answers) = 0
        /\ answers \in Seq([at : Nat, asked : Nat, late : Nat])
    BY <2>1, EmptySeq
  <2>3. TurnOf(Len(wrote)) = 0
    <3>1. {i \in 1 .. 0 : wrote[i] \in Prompts} = {}
      OBVIOUS
    <3> QED
      BY <2>2, <3>1, FS_EmptySet DEF TurnOf
  <2>4. Unanswered = 0
    <3>1. asked = 0 /\ Len(answers) = 0
      BY <2>1, <2>2
    <3> QED
      BY <3>1 DEF Unanswered
  <2>5. Excused = 0
    BY <2>1 DEF Excused
  <2>6. HostTypeOK
    BY <2>1, <2>2 DEF HostTypeOK
  <2> QED
    BY <2>1, <2>3, <2>4, <2>5, <2>6 DEF HostInv, ClosedCh, Sending
<1>2. ASSUME FakeInv, EventsInv, HostInv, [ConvNext]_convVars
      PROVE  HostInv'
  <2>1. nevents \in Nat /\ \A m \in 1 .. Len(events) : events[m] \in Nat
    BY <1>2, EventFacts
  <2>2. TeeInv
    BY <1>2 DEF EventsInv, TeeFlow
  <2> QED
    BY <1>2, <2>1, <2>2, HostStep
<1> QED
  BY <1>1, <1>2, FakeInvHolds, StreamKnown, PTL DEF ConvSpec

\* What ReceiveResponse returns is the result of each turn, in the order of the
\* turns and none left out; a call that timed out makes the later answers stale
\* by one turn, and nothing else does: for any number of turns and timeouts.
THEOREM AnswersComeInTurn == ConvSpec => []AnswersInTurn
<1>1. ConvInit => AnswerInv
  <2> SUFFICES ASSUME ConvInit PROVE AnswerInv
    OBVIOUS
  <2>1. Len(answers) = 0 /\ nevents = 0
    BY EmptySeq DEF ConvInit, SessionInit
  <2> QED
    BY <2>1 DEF AnswerInv
<1>2. AnswerInv => AnswersInTurn
  BY DEF AnswerInv, AnswersInTurn, ResultOf
<1>3. FakeInv /\ TurnsInv /\ HostInv /\ EventsInv /\ AnswerInv /\ [ConvNext]_convVars
        => AnswerInv'
  BY AnswerStep
<1> QED
  BY <1>1, <1>2, <1>3, FakeInvHolds, TurnsHold, HostHolds, StreamKnown, PTL DEF ConvSpec
================================================================================
