-------------------------------- MODULE Runner --------------------------------
(***************************************************************************)
(* queryRunner (client.go): the dispatch loop between the transport and    *)
(* the caller, control requests in both directions, and shutdown.          *)
(*                                                                         *)
(* Goroutines: runLoop; one caller per control request sent                *)
(* (sendControlRequest); one handler per control request received; the     *)
(* goroutine of the API user, which may call shutdown while runLoop does.  *)
(* The transport under them is module Transport, with its variables.       *)
(***************************************************************************)
EXTENDS Transport

CONSTANTS
  Calls,      \* control requests the SDK sends, each with a fresh request id
  Requests,   \* control requests the CLI sends
  SubOf,      \* the subtype of each of them
  Callbacks,  \* the subtypes the host has configured a callback for
  OneShot,    \* newQueryRunner (TRUE) or newSessionRunner (FALSE)
  OutCap,     \* capacity of r.out (64 in the code)
  Sids,       \* session ids
  NoSid       \* no session id

\* The subtypes handleControlRequest tells apart; "garbled" does not decode.
CallbackSubs == {"can_use_tool", "hook_callback", "get_model_policy", "mcp_message"}
Subs == CallbackSubs \cup {"elicitation", "other", "garbled"}

ASSUME RunnerAssumption ==
  /\ Calls \cup Requests \subseteq Writers
  /\ Calls \cap Requests = {}
  /\ SubOf \in [Requests -> Subs]
  /\ Callbacks \subseteq CallbackSubs
  /\ OneShot \in BOOLEAN
  /\ OutCap \in Nat \ {0}
  /\ NoSid \notin Sids
  /\ \A l \in CliLines :
       /\ l.kind \in {"event", "result", "response"} => l.sid \in Sids \cup {NoSid}
       /\ l.kind = "response" => l.id \in Calls
       /\ l.kind = "request" => l.id \in Requests

VARIABLES
  loop,      \* where runLoop is
  out,       \* log of the positions put on r.out
  nout,      \* how many of them the consumer has received
  pending,   \* r.pending: the calls a response can be routed to
  call,      \* where each sendControlRequest is
  box,       \* the response in each call's one-slot channel, 0 when none
  handler,   \* where each handleControlRequest is
  once,      \* r.closeOnce: "free", the closer inside Do, or "done"
  closer,    \* the two goroutines that call shutdown
  sid        \* r.sessionID

rvars == <<loop, out, nout, pending, call, box, handler, once, closer, sid>>
vars == <<tvars, rvars>>

Closers == {"loop", "user"}
callVars == <<pending, call, box>>
downVars == <<once, closer>>

RClosed == once # "free"          \* r.closed: set first thing inside Do
OutClosed == loop \in {"outclosed", "rundone"}
RunDone == loop = "rundone"
Current == emitted[msgs[ntaken]]  \* the message runLoop is working on
Forwarded(l) == l.kind \in {"event", "result"}
SidOf(l) == IF l.kind \in {"event", "result", "response"} THEN l.sid ELSE NoSid
Active(c) == call[c] \in {"write", "wait"}
Delivering(c) == loop = "deliver" /\ Current.id = c   \* in routeResponse, past the lock

Prompts == Writers \ (Calls \cup Requests)   \* the user messages

RunnerInit ==
  /\ TransportInit
  /\ loop = "off"
  /\ out = <<>> /\ nout = 0
  /\ pending = {} /\ call = [c \in Calls |-> "idle"] /\ box = [c \in Calls |-> 0]
  /\ handler = [q \in Requests |-> "idle"]
  /\ once = "free" /\ closer = [k \in Closers |-> "no"]
  /\ sid = NoSid

-----------------------------------------------------------------------------
(* runLoop and dispatch. *)

LoopStart ==
  /\ loop = "off" /\ launch = "ready"
  /\ loop' = "recv"
  /\ UNCHANGED <<tvars, out, nout, callVars, handler, downVars, sid>>

\* A message is received; it is dropped and the loop left if shutdown began.
LoopReceive ==
  /\ loop = "recv"
  /\ Receive
  /\ loop' = IF RClosed THEN "leave" ELSE "dispatch"
  /\ UNCHANGED <<out, nout, callVars, handler, downVars, sid>>

\* Mutation: the range over the channel ends as soon as it is closed.
LoopEndEarly ==
  /\ loop = "recv" /\ MsgsClosed
  /\ loop' = "leave"
  /\ UNCHANGED <<tvars, out, nout, callVars, handler, downVars, sid>>

LoopEnd ==
  /\ loop = "recv" /\ MsgsClosed /\ ntaken = Len(msgs)
  /\ loop' = "leave"
  /\ UNCHANGED <<tvars, out, nout, callVars, handler, downVars, sid>>

\* Mutation: a one-shot query goes on reading after its result.
AfterMessageForever == "recv"

AfterMessage == IF OneShot /\ Current.kind = "result" THEN "leave" ELSE "recv"

\* Mutation: every message with a session id replaces the recorded one.
CaptureLatestSid == sid' = IF SidOf(Current) # NoSid THEN SidOf(Current) ELSE sid

CaptureSid == sid' = IF sid = NoSid THEN SidOf(Current) ELSE sid

\* forward() gives up once shutdown has begun, else blocks in LoopForward.
DispatchForward ==
  /\ loop = "dispatch" /\ Forwarded(Current)
  /\ CaptureSid
  /\ loop' = IF RClosed THEN AfterMessage ELSE "forward"
  /\ UNCHANGED <<tvars, out, nout, callVars, handler, downVars>>

\* Mutation: a full r.out drops the message instead of blocking.
LoopForwardLossy ==
  /\ loop = "forward"
  /\ out' = IF Len(out) - nout < OutCap THEN Append(out, msgs[ntaken]) ELSE out
  /\ loop' = AfterMessage
  /\ UNCHANGED <<tvars, nout, callVars, handler, downVars, sid>>

\* Mutation: a message that had to wait for room is sent twice.
LoopForwardTwice ==
  /\ loop = "forward" /\ Len(out) - nout < OutCap
  /\ out' = out \o <<msgs[ntaken], msgs[ntaken]>>
  /\ loop' = AfterMessage
  /\ UNCHANGED <<tvars, nout, callVars, handler, downVars, sid>>

\* Mutation: r.out is taken for full one message too early.
LoopForwardShort ==
  /\ loop = "forward" /\ Len(out) - nout + 1 < OutCap
  /\ out' = Append(out, msgs[ntaken])
  /\ loop' = AfterMessage
  /\ UNCHANGED <<tvars, nout, callVars, handler, downVars, sid>>

LoopForward ==
  /\ loop = "forward" /\ Len(out) - nout < OutCap
  /\ out' = Append(out, msgs[ntaken])
  /\ loop' = AfterMessage
  /\ UNCHANGED <<tvars, nout, callVars, handler, downVars, sid>>

\* Mutation: the entry stays in the map, and a response replaces the one before.
DispatchResponseAgain ==
  /\ loop = "dispatch" /\ Current.kind = "response"
  /\ CaptureSid
  /\ box' = IF Current.id \in pending THEN [box EXCEPT ![Current.id] = msgs[ntaken]] ELSE box
  /\ loop' = "recv"
  /\ UNCHANGED <<tvars, out, nout, pending, call, handler, downVars>>

\* routeResponse: look up and delete under the lock.
DispatchResponse ==
  /\ loop = "dispatch" /\ Current.kind = "response"
  /\ CaptureSid
  /\ pending' = pending \ {Current.id}
  /\ loop' = IF Current.id \in pending THEN "deliver" ELSE "recv"
  /\ UNCHANGED <<tvars, out, nout, call, box, handler, downVars>>

\* The send after the unlock, into the call's channel of one: it never blocks.
LoopDeliver ==
  /\ loop = "deliver"
  /\ box' = IF box[Current.id] = 0 THEN [box EXCEPT ![Current.id] = msgs[ntaken]] ELSE box
  /\ loop' = "recv"
  /\ UNCHANGED <<tvars, out, nout, pending, call, handler, downVars, sid>>

\* Mutation: the request is handled in the loop's turn, so a second one waits.
DispatchRequestInTurn ==
  /\ loop = "dispatch" /\ Current.kind = "request"
  /\ \A q \in Requests : handler[q] \notin {"running", "callback"}
  /\ handler' = [handler EXCEPT ![Current.id] = "running"]
  /\ loop' = "recv"
  /\ UNCHANGED <<tvars, out, nout, callVars, downVars, sid>>

DispatchRequest ==
  /\ loop = "dispatch" /\ Current.kind = "request"
  /\ handler' = [handler EXCEPT ![Current.id] = "running"]
  /\ loop' = "recv"
  /\ UNCHANGED <<tvars, out, nout, callVars, downVars, sid>>

DispatchCancel ==
  /\ loop = "dispatch" /\ Current.kind = "cancel"
  /\ loop' = "recv"
  /\ UNCHANGED <<tvars, out, nout, callVars, handler, downVars, sid>>

Dispatch == DispatchForward \/ DispatchResponse \/ DispatchRequest \/ DispatchCancel

\* The deferred calls, last first: close(out), close(runDone), shutdown().
LoopCloseOut ==
  /\ loop = "leave"
  /\ loop' = "outclosed"
  /\ UNCHANGED <<tvars, out, nout, callVars, handler, downVars, sid>>

\* Mutation: runLoop does not defer shutdown.
LoopCloseRunDoneOnly ==
  /\ loop = "outclosed"
  /\ loop' = "rundone"
  /\ UNCHANGED <<tvars, out, nout, callVars, handler, downVars, sid>>

LoopCloseRunDone ==
  /\ loop = "outclosed"
  /\ loop' = "rundone"
  /\ closer' = [closer EXCEPT !["loop"] = "called"]
  /\ UNCHANGED <<tvars, out, nout, callVars, handler, once, sid>>

Loop ==
  \/ LoopStart \/ LoopReceive \/ LoopEnd \/ Dispatch \/ LoopForward \/ LoopDeliver
  \/ LoopCloseOut \/ LoopCloseRunDone

-----------------------------------------------------------------------------
(* sendControlRequest, from the registration to its deferred delete. *)

CallRegister(c) ==
  /\ call[c] = "idle" /\ loop # "off"
  /\ call' = [call EXCEPT ![c] = "write"]
  /\ pending' = pending \cup {c}
  /\ UNCHANGED <<tvars, loop, out, nout, box, handler, downVars, sid>>

CallWrite(c) ==
  /\ call[c] = "write"
  /\ WriteAccepted(c)
  /\ call' = [call EXCEPT ![c] = "wait"]
  /\ UNCHANGED <<loop, out, nout, pending, box, handler, downVars, sid>>

\* Mutation: an outcome other than the reply leaves the map entry behind.
ReturnLeaky(c, outcome) ==
  /\ call' = [call EXCEPT ![c] = outcome]
  /\ pending' = pending
  /\ UNCHANGED <<tvars, loop, out, nout, box, handler, downVars, sid>>

Return(c, outcome) ==
  /\ call' = [call EXCEPT ![c] = outcome]
  /\ pending' = pending \ {c}
  /\ UNCHANGED <<tvars, loop, out, nout, box, handler, downVars, sid>>

CallWriteFails(c) == call[c] = "write" /\ WriteRefused /\ Return(c, "error")

\* The select: any ready case may win.
CallReply(c) == call[c] = "wait" /\ box[c] # 0 /\ Return(c, "ok")
CallCancelled(c) == call[c] = "wait" /\ ctxDone /\ Return(c, "error")

\* Mutation: the select has no runDone case.
CallEndedNever(c) == FALSE /\ Return(c, "error")

CallEnded(c) == call[c] = "wait" /\ RunDone /\ Return(c, "error")

CallStep(c) ==
  \/ CallWrite(c) \/ CallWriteFails(c)
  \/ CallReply(c) \/ CallCancelled(c) \/ CallEnded(c)

-----------------------------------------------------------------------------
(* handleControlRequest, in a goroutine of its own. *)

\* The answer given without asking the host.
DefaultAnswer(sub) ==
  IF sub \in {"garbled", "can_use_tool", "mcp_message"} THEN "error" ELSE "success"

HandlerDecide(q) ==
  /\ handler[q] = "running"
  /\ handler' = [handler EXCEPT ![q] =
       IF SubOf[q] \in Callbacks THEN "callback" ELSE DefaultAnswer(SubOf[q])]
  /\ UNCHANGED <<tvars, loop, out, nout, callVars, downVars, sid>>

\* The host's callback returns, with an error or without.
CallbackReturns(q) ==
  /\ handler[q] = "callback"
  /\ \E answer \in {"success", "error"} : handler' = [handler EXCEPT ![q] = answer]
  /\ UNCHANGED <<tvars, loop, out, nout, callVars, downVars, sid>>

AnswerWritten(q) ==
  /\ handler[q] \in {"success", "error"}
  /\ WriteAccepted(q)
  /\ handler' = [handler EXCEPT ![q] = "sent"]
  /\ UNCHANGED <<loop, out, nout, callVars, downVars, sid>>

\* The error of the write is ignored.
AnswerDropped(q) ==
  /\ handler[q] \in {"success", "error"}
  /\ WriteRefused
  /\ handler' = [handler EXCEPT ![q] = "dropped"]
  /\ UNCHANGED <<tvars, loop, out, nout, callVars, downVars, sid>>

HandlerStep(q) == HandlerDecide(q) \/ AnswerWritten(q) \/ AnswerDropped(q)

-----------------------------------------------------------------------------
(* shutdown: closeOnce makes every caller wait for the first to finish. *)

UserShutdown ==
  /\ closer["user"] = "no"
  /\ launch = "failed" \/ loop # "off"
  /\ closer' = [closer EXCEPT !["user"] = "called"]
  /\ UNCHANGED <<tvars, loop, out, nout, callVars, handler, once, sid>>

ShutdownEnter(k) ==
  /\ closer[k] = "called" /\ once = "free"
  /\ once' = k
  /\ UNCHANGED <<tvars, loop, out, nout, callVars, handler, closer, sid>>

ShutdownTransport ==
  /\ once \in Closers
  /\ CloseBegin
  /\ UNCHANGED rvars

\* Mutation: shutdown also waits for runLoop to be gone.
ShutdownLeaveAfterLoop(k) ==
  /\ once = k /\ closing = "done" /\ RunDone
  /\ once' = "done" /\ closer' = [closer EXCEPT ![k] = "done"]
  /\ UNCHANGED <<tvars, loop, out, nout, callVars, handler, sid>>

ShutdownLeave(k) ==
  /\ once = k /\ closing = "done"
  /\ once' = "done" /\ closer' = [closer EXCEPT ![k] = "done"]
  /\ UNCHANGED <<tvars, loop, out, nout, callVars, handler, sid>>

\* Mutation: a flag instead of sync.Once, so the second caller returns at once.
ShutdownJoinEarly(k) ==
  /\ closer[k] = "called" /\ once # "free" /\ once # k
  /\ closer' = [closer EXCEPT ![k] = "done"]
  /\ UNCHANGED <<tvars, loop, out, nout, callVars, handler, once, sid>>

ShutdownJoin(k) ==
  /\ closer[k] = "called" /\ once = "done"
  /\ closer' = [closer EXCEPT ![k] = "done"]
  /\ UNCHANGED <<tvars, loop, out, nout, callVars, handler, once, sid>>

ShutdownStep(k) == ShutdownEnter(k) \/ ShutdownLeave(k) \/ ShutdownJoin(k)

-----------------------------------------------------------------------------
(* The rest of the system. *)

\* A user message, which Query and Send write past the loop.
PromptWrite(p) ==
  /\ WriteAccepted(p)
  /\ UNCHANGED rvars

\* Mutation: the zero value a closed channel yields is taken for a message.
ConsumeZero ==
  /\ nout < Len(out) \/ OutClosed
  /\ nout' = nout + 1
  /\ UNCHANGED <<tvars, loop, out, callVars, handler, downVars, sid>>

Consume ==
  /\ nout < Len(out)
  /\ nout' = nout + 1
  /\ UNCHANGED <<tvars, loop, out, callVars, handler, downVars, sid>>

\* The CLI answers what it has read, as often and as late as it likes, and
\* uses each of its own request ids once.
CliSays(l) ==
  /\ l.kind = "response" => \E i \in 1 .. nheard : wrote[i] = l.id
  /\ l.kind = "request" => \A i \in 1 .. Len(emitted) : emitted[i] # l
  /\ CliEmit(l)

\* Steps below the runner, which touch nothing of it: the SDK's, and the CLI's.
BelowSdk ==
  /\ Initialize \/ ContextKill \/ Reader \/ CloseProgress \/ CancelContext
  /\ UNCHANGED rvars

AnyCli ==
  /\ Cli \/ \E l \in CliLines : CliSays(l)
  /\ UNCHANGED rvars

Below == BelowSdk \/ AnyCli

RunnerOwn ==
  \/ Loop
  \/ \E c \in Calls : CallStep(c)
  \/ \E q \in Requests : HandlerStep(q) \/ CallbackReturns(q)
  \/ ShutdownTransport
  \/ \E k \in Closers : ShutdownStep(k)

\* Everything but the CLI and the API user.
RunnerSdk == BelowSdk \/ RunnerOwn

RunnerCore == Below \/ RunnerOwn

\* The API user is unconstrained here: calls start and messages are sent at any
\* time, the stream is read or not, and shutdown is called at any time.
User ==
  \/ \E c \in Calls : CallRegister(c)
  \/ \E p \in Prompts : PromptWrite(p)
  \/ Consume
  \/ UserShutdown

RunnerNext == RunnerCore \/ User

RunnerSpec == RunnerInit /\ [][RunnerNext]_vars

\* Every SDK goroutine that can run does.  The CLI, the consumer, the host's
\* callbacks and the user who may call shutdown are under no obligation.
RunnerFairness ==
  /\ TransportFairness
  /\ WF_vars(Loop)
  /\ \A c \in Calls : WF_vars(CallStep(c))
  /\ \A q \in Requests : WF_vars(HandlerStep(q))
  /\ \A k \in Closers : WF_vars(ShutdownStep(k))
  /\ WF_vars(ShutdownTransport)

RunnerFairSpec == RunnerSpec /\ RunnerFairness
==============================================================================
