------------------------------ MODULE QueryProofs ------------------------------
(***************************************************************************)
(* Theorems about Query and ListModels for all values of the constants:    *)
(* they use the runner as Runner specifies, what their returns leave       *)
(* behind, and how much output a handshake survives.                       *)
(***************************************************************************)
EXTENDS Query, RunnerEndProofs, FiniteSetTheorems

LEMMA QuerySimulates == [QueryNext]_queryVars => [RunnerNext]_vars
<1> SUFFICES ASSUME [QueryNext]_queryVars PROVE [RunnerNext]_vars
  OBVIOUS
<1>1. CASE RunnerCore \/ CallerReads
  BY <1>1 DEF RunnerNext, User, CallerReads
<1>2. CASE HandshakeBegin
  BY <1>2, QueryAssumption DEF HandshakeBegin, RunnerNext, User
<1>3. CASE PromptWritten
  BY <1>3, QueryAssumption DEF PromptWritten, RunnerNext, User
<1>4. CASE EntryStep /\ ~HandshakeBegin /\ ~PromptWritten
  BY <1>4
  DEF EntryStep, StartFails, HandshakeFails, HandshakeDone, PromptFails, ListTakes,
      ListGivesUp, Returns, RunnerNext, User
<1>5. CASE UNCHANGED queryVars
  BY <1>5 DEF queryVars
<1> QED
  BY <1>1, <1>2, <1>3, <1>4, <1>5 DEF QueryNext

\* Every behaviour of a query or listing is, seen from its runner, one of Runner.
THEOREM QueryKeepsRunnerRules == QuerySpec => RunnerSpec
<1>1. QueryInit => RunnerInit
  BY DEF QueryInit
<1> QED
  BY <1>1, QuerySimulates, PTL DEF QuerySpec, RunnerSpec

-----------------------------------------------------------------------------
\* An error, or the models, are returned when the shutdown has.
QueryReturnInv == phase \in {"error", "models"} => closer["user"] = "done"

LEMMA QueryReturnStep ==
  RunnerTypeOK /\ QueryReturnInv /\ [QueryNext]_queryVars => QueryReturnInv'
<1> SUFFICES ASSUME RunnerTypeOK, QueryReturnInv, [QueryNext]_queryVars
             PROVE  QueryReturnInv'
  OBVIOUS
<1>1. closer["user"] = "done" => closer'["user"] = "done"
  BY QuerySimulates, ShutdownStaysDone
<1>2. CASE UNCHANGED phase
  BY <1>1, <1>2 DEF QueryReturnInv
<1>3. CASE Returns
  BY <1>3 DEF Returns, QueryReturnInv, vars, rvars
<1>4. CASE EntryStep /\ ~Returns
  BY <1>1, <1>4
  DEF EntryStep, StartFails, HandshakeBegin, HandshakeFails, HandshakeDone, PromptWritten,
      PromptFails, ListTakes, ListGivesUp, QueryReturnInv
<1> QED
  BY <1>2, <1>3, <1>4 DEF QueryNext, CallerReads, queryVars, qvars

\* Whichever step of Query or ListModels fails, it returns with the child reaped
\* and the auth payload gone.
THEOREM ReturnImpliesReaped == QuerySpec => []ReturnedMeansReaped
<1>1. QueryInit => QueryReturnInv
  BY DEF QueryInit, QueryReturnInv
<1>2. QueryReturnInv /\ ShutdownReturnsAfterReap => ReturnedMeansReaped
  BY DEF QueryReturnInv, ShutdownReturnsAfterReap, ReturnedMeansReaped, Closers
<1> QED
  BY <1>1, <1>2, QueryReturnStep, QueryKeepsRunnerRules, RunnerTypeCorrect,
     ShutdownImpliesReaped, PTL
  DEF QuerySpec

-----------------------------------------------------------------------------
(* The handshake, during which nobody reads r.out. *)

Shaking == phase \in {"start", "handshake"}

\* While a handshake lasts nothing has been read, no shutdown was called, and all
\* the agent messages before the response to initialize are on r.out, which
\* never holds more than its capacity.
FitInv ==
  /\ Shaking => nout = 0 /\ ~UserShut
  /\ Len(out) <= nout + OutCap
  /\ Shaking => \A k \in 1 .. box[InitCall] : Forwarded(emitted[k]) => OnOut(k)

LEMMA FitsIfOnOut ==
  ASSUME NEW n \in Nat, NEW S \in SUBSET {out[i] : i \in 1 .. Len(out)},
         Len(out) \in Nat, Len(out) <= n
  PROVE  Cardinality(S) <= n
<1> DEFINE T == {out[i] : i \in 1 .. Len(out)}
           f == [i \in 1 .. Len(out) |-> out[i]]
<1>1. IsFiniteSet(1 .. Len(out)) /\ Cardinality(1 .. Len(out)) = Len(out)
  <2>1. /\ 1 \in Int /\ Len(out) \in Int
        /\ (1 > Len(out) => Len(out) = 0) /\ Len(out) - 1 + 1 = Len(out)
    OBVIOUS
  <2>2. /\ IsFiniteSet(1 .. Len(out))
        /\ Cardinality(1 .. Len(out)) = IF 1 > Len(out) THEN 0 ELSE Len(out) - 1 + 1
    BY <2>1, FS_Interval
  <2> QED
    BY <2>1, <2>2
<1>2. f \in Surjection(1 .. Len(out), T)
  BY DEF Surjection
<1>3. IsFiniteSet(T) /\ Cardinality(T) <= Len(out)
  BY <1>1, <1>2, FS_Surjection
<1>4. Cardinality(S) <= Cardinality(T) /\ Cardinality(S) \in Nat /\ Cardinality(T) \in Nat
  BY <1>3, FS_Subset, FS_CardinalityType
<1> QED
  BY <1>3, <1>4

LEMMA OnlyConsumeTakes ==
  [RunnerNext]_vars => UNCHANGED nout \/ (Consume /\ UNCHANGED out)
BY DEF RunnerNext, RunnerCore, RunnerOwn, vars, rvars, Below, BelowSdk, AnyCli, Loop,
       LoopStart, LoopReceive, LoopEnd, Dispatch, DispatchForward, DispatchResponse,
       DispatchRequest, DispatchCancel, LoopForward, LoopDeliver, LoopCloseOut,
       LoopCloseRunDone, CallStep, CallWrite, CallWriteFails, CallReply, CallCancelled,
       CallEnded, Return, HandlerStep, HandlerDecide, AnswerWritten, AnswerDropped,
       CallbackReturns, ShutdownTransport, ShutdownStep, ShutdownEnter, ShutdownLeave,
       ShutdownJoin, User, PromptWrite, CallRegister, Consume, UserShutdown

LEMMA OnlyDeliverFills ==
  [RunnerNext]_vars => UNCHANGED box \/ LoopDeliver
BY DEF RunnerNext, RunnerCore, RunnerOwn, vars, rvars, Below, BelowSdk, AnyCli, Loop,
       LoopStart, LoopReceive, LoopEnd, Dispatch, DispatchForward, DispatchResponse,
       DispatchRequest, DispatchCancel, LoopForward, LoopCloseOut, LoopCloseRunDone,
       CallStep, CallWrite, CallWriteFails, CallReply, CallCancelled, CallEnded, Return,
       HandlerStep, HandlerDecide, AnswerWritten, AnswerDropped, CallbackReturns,
       ShutdownTransport, ShutdownStep, ShutdownEnter, ShutdownLeave, ShutdownJoin, User,
       PromptWrite, CallRegister, Consume, UserShutdown, callVars

\* r.out only grows, never over its capacity.
LEMMA OutStep ==
  ASSUME RunnerTypeInv, RunnerTypeInv', [RunnerNext]_vars, Len(out) <= nout + OutCap
  PROVE  /\ Len(out') <= nout' + OutCap
         /\ \A k : OnOut(k) => OnOut(k)'
<1>1. nout \in Nat /\ nout' \in Nat /\ Len(out) \in Nat /\ OutCap \in Nat
  BY RunnerAssumption DEF RunnerTypeInv, RunnerTypeOK
<1>2. CASE LoopForward
  <2>1. /\ loop = "forward" /\ Len(out) - nout < OutCap /\ nout' = nout
        /\ out' = Append(out, msgs[ntaken])
    BY <1>2 DEF LoopForward
  <2>2. msgs[ntaken] \in 1 .. nread /\ out \in Seq(1 .. nread)
    BY <2>1, CurrentTyped DEF RunnerTypeInv, RunnerTypeOK
  <2>3. Len(out') = Len(out) + 1 /\ \A i \in 1 .. Len(out) : out'[i] = out[i]
    BY <2>1, <2>2, LogAppend
  <2> QED
    BY <1>1, <2>1, <2>3 DEF OnOut
<1>3. CASE out' = out
  <2>1. nout' = nout \/ nout' = nout + 1
    BY OnlyConsumeTakes DEF Consume
  <2> QED
    BY <1>1, <1>3, <2>1 DEF OnOut
<1> QED
  BY <1>2, <1>3, StreamSteps
  DEF Aside, LoopStart, LoopReceive, LoopEnd, Dispatch, DispatchForward, DispatchResponse,
      DispatchRequest, DispatchCancel, LoopDeliver, LoopCloseOut, LoopCloseRunDone

\* When the loop works on a message, no shutdown having begun, all the agent
\* messages before it are on r.out.
LEMMA BeforeCurrentOnOut ==
  ASSUME FlowInv, loop \in {"dispatch", "deliver"}, ~RClosed
  PROVE  \A k \in 1 .. msgs[ntaken] :
           k # msgs[ntaken] /\ Forwarded(emitted[k]) => OnOut(k)
<1> SUFFICES ASSUME NEW k \in 1 .. msgs[ntaken],
                    k # msgs[ntaken], Forwarded(emitted[k])
             PROVE  OnOut(k)
  OBVIOUS
<1>1. RunnerTypeInv /\ PumpInv /\ StreamInv /\ TransportTypeOK
  BY DEF FlowInv, PumpInv
<1>2. /\ ntaken \in 1 .. Len(msgs) /\ Len(msgs) \in Nat /\ nread \in Nat
      /\ \A n \in 1 .. Len(msgs) : msgs[n] \in 1 .. nread
  BY <1>1, ElementOfSeq DEF TransportTypeOK, RunnerTypeInv, Working
<1>3. k \in 1 .. nread /\ k < msgs[ntaken] /\ Parses(emitted[k])
  BY <1>2 DEF Parses, Forwarded
<1>4. PICK n \in 1 .. Len(msgs) : msgs[n] = k
  BY <1>1, <1>2, <1>3 DEF PumpInv, MsgsGapFree, MsgsInOrder
<1>5. n < ntaken
  BY <1>1, <1>2, <1>3, <1>4 DEF PumpInv, MsgsInOrder
<1> QED
  BY <1>1, <1>2, <1>4, <1>5 DEF StreamInv, Worked, StillDelivers

LEMMA FitStep ==
  FlowInv /\ FlowInv' /\ ShutterInv /\ FitInv /\ [QueryNext]_queryVars => FitInv'
<1> SUFFICES ASSUME FlowInv, FlowInv', ShutterInv, FitInv, [QueryNext]_queryVars
             PROVE  FitInv'
  OBVIOUS
<1>1. RunnerTypeInv /\ RunnerTypeInv' /\ [RunnerNext]_vars
  BY QuerySimulates DEF FlowInv
<1>2. Len(out') <= nout' + OutCap /\ \A k : OnOut(k) => OnOut(k)'
  BY <1>1, OutStep DEF FitInv
<1>3. SUFFICES ASSUME Shaking'
               PROVE  /\ nout' = 0 /\ ~UserShut'
                      /\ \A k \in 1 .. box'[InitCall] : Forwarded(emitted'[k]) => OnOut(k)'
  BY <1>2 DEF FitInv
<1>4. /\ Shaking /\ nout = 0 /\ ~UserShut
      /\ (RunnerCore \/ HandshakeBegin \/ UNCHANGED vars)
  BY <1>3
  DEF FitInv, Shaking, QueryNext, queryVars, qvars, EntryStep, StartFails, HandshakeBegin,
      HandshakeFails, HandshakeDone, PromptWritten, PromptFails, ListTakes, ListGivesUp,
      Returns, CallerReads
<1>5. nout' = nout
  BY <1>4
  DEF RunnerCore, RunnerOwn, vars, rvars, Below, BelowSdk, AnyCli, Loop, LoopStart,
      LoopReceive, LoopEnd, Dispatch, DispatchForward, DispatchResponse, DispatchRequest,
      DispatchCancel, LoopForward, LoopDeliver, LoopCloseOut, LoopCloseRunDone, CallStep,
      CallWrite, CallWriteFails, CallReply, CallCancelled, CallEnded, Return, HandlerStep,
      HandlerDecide, AnswerWritten, AnswerDropped, CallbackReturns, ShutdownTransport,
      ShutdownStep, ShutdownEnter, ShutdownLeave, ShutdownJoin, HandshakeBegin,
      CallRegister
<1>6. ~UserShut'
  <2>1. closer \in [Closers -> {"no", "called", "done"}]
    BY <1>1 DEF RunnerTypeInv, RunnerTypeOK
  <2>2. CASE closer' = closer
    BY <1>4, <2>2 DEF UserShut
  <2>3. CASE LoopCloseRunDone
    BY <1>4, <2>1, <2>3 DEF LoopCloseRunDone, UserShut, Closers
  <2>4. ASSUME NEW k \in Closers, ShutdownStep(k)
        PROVE  ~UserShut'
    BY <1>4, <2>1, <2>4
    DEF ShutdownStep, ShutdownEnter, ShutdownLeave, ShutdownJoin, ShutterInv, UserShut,
        Closers
  <2>5. CASE HandshakeBegin
    BY <2>2, <2>5 DEF HandshakeBegin, CallRegister, downVars
  <2>6. CASE Below \/ ShutdownTransport
    BY <2>2, <2>6 DEF Below, BelowSdk, AnyCli, ShutdownTransport, rvars
  <2>7. CASE Loop /\ ~LoopCloseRunDone
    BY <2>2, <2>7
    DEF Loop, LoopStart, LoopReceive, LoopEnd, Dispatch, DispatchForward, DispatchResponse,
        DispatchRequest, DispatchCancel, LoopForward, LoopDeliver, LoopCloseOut, downVars
  <2>8. ASSUME NEW c \in Calls, CallStep(c)
        PROVE  ~UserShut'
    BY <2>2, <2>8
    DEF CallStep, CallWrite, CallWriteFails, CallReply, CallCancelled, CallEnded, Return,
        downVars
  <2>9. ASSUME NEW q \in Requests, HandlerStep(q) \/ CallbackReturns(q)
        PROVE  ~UserShut'
    BY <2>2, <2>9
    DEF HandlerStep, HandlerDecide, AnswerWritten, AnswerDropped, CallbackReturns, downVars
  <2> QED
    BY <1>4, <2>2, <2>3, <2>4, <2>5, <2>6, <2>7, <2>8, <2>9
    DEF RunnerCore, RunnerOwn, vars, rvars
<1>7. \A k \in 1 .. box'[InitCall] : Forwarded(emitted'[k]) => OnOut(k)'
  <2>1. InitCall \in Calls /\ box \in [Calls -> 0 .. nread] /\ nread \in 0 .. Len(emitted)
    BY <1>1, QueryAssumption DEF RunnerTypeInv, RunnerTypeOK, TransportTypeOK
  <2>2. \A k \in 1 .. Len(emitted) : emitted'[k] = emitted[k]
    BY <1>1, StepSimulates, LogsGrow DEF RunnerTypeInv, RunnerTypeOK
  <2>3. Len(emitted) \in Nat
    BY <1>1 DEF RunnerTypeInv, RunnerTypeOK, TransportTypeOK
  <2>4. CASE box'[InitCall] = box[InitCall]
    BY <1>2, <1>4, <2>1, <2>2, <2>3, <2>4 DEF FitInv, Forwarded
  <2>5. CASE LoopDeliver /\ box'[InitCall] # box[InitCall]
    <3>1. /\ loop = "deliver" /\ ~Forwarded(Current) /\ UNCHANGED <<emitted, out>>
          /\ box'[InitCall] = msgs[ntaken]
      BY <2>1, <2>5 DEF LoopDeliver, FlowInv, StreamInv, tvars
    <3>2. ~RClosed
      BY <1>1, <1>4, <3>1 DEF ShutterInv, UserShut, RClosed, RunnerTypeInv, RunnerTypeOK, Closers
    <3> QED
      BY <3>1, <3>2, BeforeCurrentOnOut DEF Current, Forwarded, OnOut
  <2> QED
    BY <1>1, <2>4, <2>5, OnlyDeliverFills
<1> QED
  BY <1>4, <1>5, <1>6, <1>7

\* The response to initialize is routed only behind agent messages that fit
\* r.out, whatever the capacity: 64 of them are the most a handshake survives.
THEOREM HandshakeNeedsRoom == QuerySpec => []HandshakeFitsBuffer
<1>1. QueryInit => FitInv
  <2> SUFFICES ASSUME QueryInit PROVE FitInv
    OBVIOUS
  <2>1. /\ Len(out) = 0 /\ nout = 0 /\ box[InitCall] = 0 /\ ~UserShut
        /\ OutCap \in Nat
    BY EmptySeq, QueryAssumption, RunnerAssumption
    DEF QueryInit, RunnerInit, UserShut, Closers
  <2> QED
    BY <2>1 DEF FitInv
<1>2. RunnerTypeInv /\ FitInv => HandshakeFitsBuffer
  <2> SUFFICES ASSUME RunnerTypeInv, FitInv, phase = "handshake"
               PROVE  Cardinality(ForwardedUpTo(box[InitCall])) <= OutCap
    BY DEF HandshakeFitsBuffer
  <2>1. Len(out) \in Nat /\ OutCap \in Nat /\ Len(out) <= OutCap
    BY RunnerAssumption DEF FitInv, Shaking, RunnerTypeInv, RunnerTypeOK
  <2>2. ForwardedUpTo(box[InitCall]) \in SUBSET {out[i] : i \in 1 .. Len(out)}
    BY DEF FitInv, Shaking, ForwardedUpTo, OnOut
  <2> QED
    BY <2>1, <2>2, FitsIfOnOut
<1>3. RunnerInit => ShutterInv
  BY DEF RunnerInit, TransportInit, ShutterInv, Closers
<1>4. RunnerSpec => []ShutterInv
  BY <1>3, ShutterStep, RunnerTypeInvHolds, PTL DEF RunnerSpec
<1> QED
  BY <1>1, <1>2, <1>4, FitStep, FlowInvHolds, RunnerTypeInvHolds, QueryKeepsRunnerRules, PTL
  DEF QuerySpec
==============================================================================
