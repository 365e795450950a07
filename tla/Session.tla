-------------------------------- MODULE Session --------------------------------
(***************************************************************************)
(* Session (session.go) over queryRunner: NewSession, the goroutine that   *)
(* tees r.out into the session's own channel, the control methods with     *)
(* their timeouts, Send, and Close.                                        *)
(*                                                                         *)
(* A control method runs its sendControlRequest in a goroutine and may     *)
(* return before it: op[c] is the method, call[c] of Runner its goroutine, *)
(* which can still register and write when the method has given up.        *)
(***************************************************************************)
EXTENDS Runner

CONSTANTS
  InitCall,   \* the initialize request of the handshake
  EndCall,    \* the end_session request of Close
  NeedSid,    \* the control methods that require an established session
  EventsCap   \* capacity of s.events (256 in the code)

Methods == Calls \ {InitCall, EndCall}

ASSUME SessionAssumption ==
  /\ ~OneShot
  /\ InitCall \in Calls /\ EndCall \in Calls /\ InitCall # EndCall
  /\ NeedSid \subseteq Methods
  /\ EventsCap \in Nat \ {0}

VARIABLES
  setup,     \* where NewSession is; "open" once it has returned a session
  tee,       \* where the tee goroutine is
  events,    \* log of the positions put on s.events
  nevents,   \* how many of them Stream or ReceiveResponse has taken
  op,        \* where each control method is
  prompt,    \* where each Send is
  ending     \* where the one effective Close is

svars == <<setup, tee, events, nevents, op, prompt, ending>>
allVars == <<vars, svars>>

teeVars == <<tee, events, nevents>>
ClosedCh == ending # "no"
Sending(p) == prompt[p] = "write"
CallOver(c) == call[c] \in {"ok", "error"}

SessionInit ==
  /\ RunnerInit
  /\ setup = "start"
  /\ tee = "off" /\ events = <<>> /\ nevents = 0
  /\ op = [c \in Calls \ {InitCall} |-> "idle"]
  /\ prompt = [p \in Prompts |-> "idle"]
  /\ ending = "no"

-----------------------------------------------------------------------------
(* NewSession.  A failed one calls shutdown and returns when that does. *)

StartFails ==
  /\ setup = "start" /\ launch = "failed"
  /\ UserShutdown
  /\ setup' = "failing"
  /\ UNCHANGED <<teeVars, op, prompt, ending>>

HandshakeBegin ==
  /\ setup = "start"
  /\ CallRegister(InitCall)
  /\ setup' = "handshake"
  /\ UNCHANGED <<teeVars, op, prompt, ending>>

\* No response came, or one that reports an error.
HandshakeFails ==
  /\ setup = "handshake" /\ CallOver(InitCall)
  /\ UserShutdown
  /\ setup' = "failing"
  /\ UNCHANGED <<teeVars, op, prompt, ending>>

HandshakeDone ==
  /\ setup = "handshake" /\ call[InitCall] = "ok"
  /\ setup' = "wait"
  /\ tee' = "recv"
  /\ UNCHANGED <<vars, events, nevents, op, prompt, ending>>

\* The loop's condition is tested before the select, and an id that comes between
\* does not stop the select from taking another case.
WaitTest ==
  /\ setup = "wait"
  /\ setup' = IF sid = NoSid THEN "select" ELSE "open"
  /\ UNCHANGED <<vars, teeVars, op, prompt, ending>>

\* The three seconds are over, or the test after a tick finds an id.  A tick
\* before that changes nothing.
WaitDone ==
  /\ setup = "select"
  /\ setup' = "open"
  /\ UNCHANGED <<vars, teeVars, op, prompt, ending>>

\* The loop ended: an error is returned without a call of shutdown.
WaitRunDone ==
  /\ setup = "select" /\ RunDone
  /\ setup' = "lost"
  /\ UNCHANGED <<vars, teeVars, op, prompt, ending>>

WaitCancelled ==
  /\ setup = "select" /\ ctxDone
  /\ UserShutdown
  /\ setup' = "failing"
  /\ UNCHANGED <<teeVars, op, prompt, ending>>

SetupFailed ==
  /\ setup = "failing" /\ closer["user"] = "done"
  /\ setup' = "error"
  /\ UNCHANGED <<vars, teeVars, op, prompt, ending>>

NewSession ==
  \/ StartFails \/ HandshakeBegin \/ HandshakeFails \/ HandshakeDone
  \/ WaitTest \/ WaitDone \/ WaitRunDone \/ WaitCancelled \/ SetupFailed

-----------------------------------------------------------------------------
(* The tee. *)

TeeTake ==
  /\ tee = "recv"
  /\ Consume
  /\ tee' = "send"
  /\ UNCHANGED <<setup, events, nevents, op, prompt, ending>>

TeeSend ==
  /\ tee = "send" /\ Len(events) - nevents < EventsCap
  /\ events' = Append(events, out[nout])
  /\ tee' = "recv"
  /\ UNCHANGED <<vars, setup, nevents, op, prompt, ending>>

\* Mutation: closedCh only drops the message; the tee goes on.
TeeStopDropsOne ==
  /\ tee = "send" /\ ClosedCh
  /\ tee' = "recv"
  /\ UNCHANGED <<vars, setup, events, nevents, op, prompt, ending>>

\* Mutation: the send into s.events has no closedCh case.
TeeStopNever ==
  /\ FALSE
  /\ tee' = "done"
  /\ UNCHANGED <<vars, setup, events, nevents, op, prompt, ending>>

\* The other case of the select: the message in hand is dropped.
TeeStop ==
  /\ tee = "send" /\ ClosedCh
  /\ tee' = "done"
  /\ UNCHANGED <<vars, setup, events, nevents, op, prompt, ending>>

TeeEnd ==
  /\ tee = "recv" /\ OutClosed /\ nout = Len(out)
  /\ tee' = "done"
  /\ UNCHANGED <<vars, setup, events, nevents, op, prompt, ending>>

Tee == TeeTake \/ TeeSend \/ TeeStop \/ TeeEnd

\* Mutation: the zero value a closed channel yields is taken for an event.
EventTakeZero ==
  /\ nevents < Len(events) \/ tee = "done"
  /\ nevents' = nevents + 1
  /\ UNCHANGED <<vars, setup, tee, events, op, prompt, ending>>

\* Stream's reader, or ReceiveResponse, takes one event.
EventTake ==
  /\ nevents < Len(events)
  /\ nevents' = nevents + 1
  /\ UNCHANGED <<vars, setup, tee, events, op, prompt, ending>>

-----------------------------------------------------------------------------
(* Control methods: sendControl. *)

MethodStart(c) ==
  /\ c \in Methods /\ setup = "open" /\ op[c] = "idle"
  /\ op' = [op EXCEPT ![c] =
       IF c \in NeedSid /\ sid = NoSid THEN "refused" ELSE "select"]
  /\ UNCHANGED <<vars, setup, teeVars, prompt, ending>>

\* The goroutine gets to sendControlRequest, maybe after the method returned.
MethodRegister(c) ==
  /\ op[c] \notin {"idle", "refused"}
  /\ CallRegister(c)
  /\ UNCHANGED svars

MethodReturns(c, outcome) ==
  /\ op[c] = "select"
  /\ op' = [op EXCEPT ![c] = outcome]
  /\ UNCHANGED <<vars, setup, teeVars, prompt, ending>>

\* The goroutine is through; "ok" means that a response came, of whatever content.
MethodResult(c) == CallOver(c) /\ MethodReturns(c, call[c])

\* The method's own timeout, or r.ctx, which its context derives from.
MethodTimeout(c) == MethodReturns(c, "error")

MethodClosed(c) == ClosedCh /\ MethodReturns(c, "error")

-----------------------------------------------------------------------------
(* Send, under sendMu. *)

SendLock(p) ==
  /\ setup = "open" /\ prompt[p] = "idle"
  /\ \A p2 \in Prompts : ~Sending(p2)
  /\ prompt' = [prompt EXCEPT ![p] = IF ClosedCh THEN "error" ELSE "write"]
  /\ UNCHANGED <<vars, setup, teeVars, op, ending>>

SendWrite(p) ==
  /\ Sending(p)
  /\ PromptWrite(p)
  /\ prompt' = [prompt EXCEPT ![p] = "sent"]
  /\ UNCHANGED <<setup, teeVars, op, ending>>

SendFails(p) ==
  /\ Sending(p)
  /\ WriteRefused
  /\ prompt' = [prompt EXCEPT ![p] = "error"]
  /\ UNCHANGED <<vars, setup, teeVars, op, ending>>

-----------------------------------------------------------------------------
(* Close, inside closeMu.Do: closedCh, end_session, shutdown. *)

CloseStart ==
  /\ setup = "open" /\ ending = "no"
  /\ ending' = "ending"
  /\ op' = [op EXCEPT ![EndCall] = "select"]
  /\ UNCHANGED <<vars, setup, teeVars, prompt>>

CloseShutdown ==
  /\ ending = "ending" /\ op[EndCall] # "select"
  /\ UserShutdown
  /\ ending' = "down"
  /\ UNCHANGED <<setup, teeVars, op, prompt>>

\* Mutation: shutdown runs in a goroutine of its own and Close does not wait.
CloseDoneEarly ==
  /\ ending = "down"
  /\ ending' = "closed"
  /\ UNCHANGED <<vars, setup, teeVars, op, prompt>>

CloseDone ==
  /\ ending = "down" /\ closer["user"] = "done"
  /\ ending' = "closed"
  /\ UNCHANGED <<vars, setup, teeVars, op, prompt>>

-----------------------------------------------------------------------------
RunnerStep == RunnerCore /\ UNCHANGED svars

MethodGoes(c) ==
  MethodRegister(c) \/ MethodResult(c) \/ MethodTimeout(c) \/ MethodClosed(c)

SessionNext ==
  \/ RunnerStep
  \/ NewSession
  \/ Tee
  \/ EventTake
  \/ \E c \in Methods : MethodStart(c)
  \/ \E c \in Methods \cup {EndCall} : MethodGoes(c)
  \/ \E p \in Prompts : SendLock(p) \/ SendWrite(p) \/ SendFails(p)
  \/ CloseStart \/ CloseShutdown \/ CloseDone

SessionSpec == SessionInit /\ [][SessionNext]_allVars

\* Goroutines run and timers fire; the user need not call or read anything.
SessionFairness ==
  /\ RunnerFairness
  /\ WF_allVars(NewSession)
  /\ WF_allVars(Tee)
  /\ \A c \in Methods \cup {EndCall} :
       /\ WF_allVars(MethodRegister(c))
       /\ WF_allVars(MethodResult(c) \/ MethodTimeout(c) \/ MethodClosed(c))
  /\ \A p \in Prompts : WF_allVars(SendWrite(p) \/ SendFails(p))
  /\ WF_allVars(CloseShutdown \/ CloseDone)

SessionFairSpec == SessionSpec /\ SessionFairness
==============================================================================
