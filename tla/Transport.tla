------------------------------ MODULE Transport ------------------------------
(***************************************************************************)
(* transport.ProcessTransport: one CLI child process, the goroutine that   *)
(* pumps its stdout into the msgs channel, writes to its stdin, and the    *)
(* staged teardown of Close.                                               *)
(*                                                                         *)
(* Every stream is an append-only log with a cursor: what was written and  *)
(* not yet read is the log beyond the cursor, and a bounded channel or     *)
(* pipe is a bound on that difference.  Messages are named by their        *)
(* position in the CLI's output, so order and loss are visible.            *)
(*                                                                         *)
(* The module has no client of its own: Receive, WriteAccepted, CloseBegin *)
(* and CancelContext are what a client does to a transport.  TransportNext *)
(* lets an arbitrary client do them; Runner restricts them to what         *)
(* queryRunner does.                                                       *)
(***************************************************************************)
EXTENDS Naturals, Sequences

CONSTANTS
  CliLines,    \* the stdout lines the CLI may write: records with a .kind
  Writers,     \* names of the lines the SDK may write to stdin
  MsgCap,      \* capacity of the msgs channel (64 in the code)
  StdoutCap,   \* lines the stdout pipe holds
  StdinCap,    \* lines the stdin pipe holds
  MaxEmit,     \* bound: lines the CLI writes in a behaviour
  MaxWrites,   \* bound: lines the SDK writes in a behaviour
  AuthOn       \* whether an auth method is configured

\* How readStdout and dispatch tell lines apart.  "junk" is blank or does not
\* parse; "oversized" exceeds the scanner's 4 MiB line limit.
Kinds == {"event", "result", "response", "request", "cancel", "junk", "oversized"}

ASSUME TransportAssumption ==
  /\ \A l \in CliLines : l.kind \in Kinds
  /\ MsgCap \in Nat \ {0}
  /\ StdoutCap \in Nat \ {0}
  /\ StdinCap \in Nat \ {0}
  /\ MaxEmit \in Nat
  /\ MaxWrites \in Nat
  /\ AuthOn \in BOOLEAN

VARIABLES
  launch,    \* progress of Initialize
  payload,   \* the auth temp directory; whether the CLI has already deleted the
             \* file in it makes no difference to its removal
  child,     \* the CLI process
  emitted,   \* log of lines the CLI wrote to stdout
  nread,     \* how many of them the scanner has consumed
  wrote,     \* log of lines the SDK wrote to stdin
  nheard,    \* how many of them the CLI has read
  reader,    \* where readStdout is
  held,      \* the line readStdout is handing over, 0 when none
  msgs,      \* log of the positions put on the msgs channel
  ntaken,    \* how many of them the client has received
  closed,    \* t.closed
  closing,   \* where the one effective Close is
  ctxDone    \* the context given to exec.CommandContext is done

tvars == <<launch, payload, child, emitted, nread, wrote, nheard, reader, held,
           msgs, ntaken, closed, closing, ctxDone>>

outVars == <<emitted, nread, reader, held, msgs, ntaken>>
inVars == <<wrote, nheard>>
procVars == <<launch, payload, child>>
closeVars == <<closed, closing>>

Parses(l) == l.kind \notin {"junk", "oversized"}
MsgsClosed == reader = "done"
Waiting == closing \in {"grace", "int", "kill"}

TransportInit ==
  /\ launch = "new" /\ payload = "none" /\ child = "none"
  /\ emitted = <<>> /\ nread = 0
  /\ wrote = <<>> /\ nheard = 0
  /\ reader = "off" /\ held = 0
  /\ msgs = <<>> /\ ntaken = 0
  /\ closed = FALSE /\ closing = "no" /\ ctxDone = FALSE

-----------------------------------------------------------------------------
(* Initialize.  Each early return is an action. *)

\* ResolvePath fails, or WritePayloadFile fails and has removed its directory.
LaunchRefused ==
  /\ launch = "new"
  /\ launch' = "failed"
  /\ UNCHANGED <<payload, child, outVars, inVars, closeVars, ctxDone>>

WritePayload ==
  /\ launch = "new"
  /\ launch' = "spawning"
  /\ payload' = IF AuthOn THEN "present" ELSE "none"
  /\ UNCHANGED <<child, outVars, inVars, closeVars, ctxDone>>

\* Mutation: the early return without t.cleanup().
SpawnFailsDirty ==
  /\ launch = "spawning"
  /\ launch' = "failed"
  /\ UNCHANGED <<payload, child, outVars, inVars, closeVars, ctxDone>>

\* A pipe cannot be made or cmd.Start fails (as it does once ctx is done).
SpawnFails ==
  /\ launch = "spawning"
  /\ launch' = "failed"
  /\ payload' = "none"
  /\ UNCHANGED <<child, outVars, inVars, closeVars, ctxDone>>

Spawn ==
  /\ launch = "spawning" /\ ~ctxDone
  /\ launch' = "ready"
  /\ child' = "running"
  /\ reader' = "scan"
  /\ UNCHANGED <<payload, emitted, nread, held, msgs, ntaken, inVars, closeVars, ctxDone>>

Initialize == LaunchRefused \/ WritePayload \/ SpawnFails \/ Spawn

-----------------------------------------------------------------------------
(* The CLI process, external to the repository: it reads and writes when it *)
(* likes, may exit at any time, and owes the SDK nothing.                   *)

CliEmit(l) ==
  /\ child = "running"
  /\ Len(emitted) < MaxEmit
  /\ Len(emitted) - nread < StdoutCap
  /\ emitted' = Append(emitted, l)
  /\ UNCHANGED <<procVars, nread, reader, held, msgs, ntaken, inVars, closeVars, ctxDone>>

CliHear ==
  /\ child = "running"
  /\ nheard < Len(wrote)
  /\ nheard' = nheard + 1
  /\ UNCHANGED <<procVars, outVars, wrote, closeVars, ctxDone>>

CliExit ==
  /\ child = "running"
  /\ child' = "exited"
  /\ UNCHANGED <<launch, payload, outVars, inVars, closeVars, ctxDone>>

\* exec.CommandContext kills the child when its context is done.
ContextKill ==
  /\ ctxDone /\ child = "running"
  /\ child' = "exited"
  /\ UNCHANGED <<launch, payload, outVars, inVars, closeVars, ctxDone>>

Cli == CliHear \/ CliExit

-----------------------------------------------------------------------------
(* readStdout. *)

\* One turn of the scanner: skip junk, stop at an oversized line, else ask
\* send(), which refuses once the transport is closed.
ReaderScan ==
  /\ reader = "scan" /\ child # "reaped" /\ nread < Len(emitted)
  /\ nread' = nread + 1
  /\ LET l == emitted[nread + 1] IN
       \/ /\ l.kind = "junk"
          /\ UNCHANGED <<reader, held>>
       \/ /\ l.kind = "oversized"
          /\ reader' = "done" /\ UNCHANGED held
       \/ /\ Parses(l) /\ closed
          /\ reader' = "done" /\ UNCHANGED held
       \/ /\ Parses(l) /\ ~closed
          /\ reader' = "push" /\ held' = nread + 1
  /\ UNCHANGED <<procVars, emitted, msgs, ntaken, inVars, closeVars, ctxDone>>

\* Mutation: send() gives up when the channel is full instead of blocking.
ReaderPushLossy ==
  /\ reader = "push"
  /\ msgs' = IF Len(msgs) - ntaken < MsgCap THEN Append(msgs, held) ELSE msgs
  /\ reader' = "scan" /\ held' = 0
  /\ UNCHANGED <<procVars, emitted, nread, ntaken, inVars, closeVars, ctxDone>>

\* Mutation: the blocking path of send() runs after the fast one too.
ReaderPushTwice ==
  /\ reader = "push"
  /\ Len(msgs) - ntaken < MsgCap
  /\ msgs' = msgs \o <<held, held>>
  /\ reader' = "scan" /\ held' = 0
  /\ UNCHANGED <<procVars, emitted, nread, ntaken, inVars, closeVars, ctxDone>>

\* The blocking send: it waits for room and looks at nothing else meanwhile.
ReaderPush ==
  /\ reader = "push"
  /\ Len(msgs) - ntaken < MsgCap
  /\ msgs' = Append(msgs, held)
  /\ reader' = "scan" /\ held' = 0
  /\ UNCHANGED <<procVars, emitted, nread, ntaken, inVars, closeVars, ctxDone>>

\* Mutation: the pump ends only when Close has been called, not at end of file.
ReaderEOFAfterClose ==
  /\ reader = "scan" /\ closed /\ child = "reaped"
  /\ reader' = "done"
  /\ UNCHANGED <<procVars, emitted, nread, held, msgs, ntaken, inVars, closeVars, ctxDone>>

\* Mutation: an empty pipe is taken for the end of file.
ReaderEOFWhenIdle ==
  /\ reader = "scan" /\ nread = Len(emitted)
  /\ reader' = "done"
  /\ UNCHANGED <<procVars, emitted, nread, held, msgs, ntaken, inVars, closeVars, ctxDone>>

\* End of file once a dead child's output is drained; cmd.Wait closes the read
\* end under the scanner, whatever was left unread.
ReaderEOF ==
  /\ reader = "scan"
  /\ child = "reaped" \/ (child = "exited" /\ nread = Len(emitted))
  /\ reader' = "done"
  /\ UNCHANGED <<procVars, emitted, nread, held, msgs, ntaken, inVars, closeVars, ctxDone>>

Reader == ReaderScan \/ ReaderPush \/ ReaderEOF

-----------------------------------------------------------------------------
(* Close, after its compare-and-swap.  The goroutine in cmd.Wait is Reap. *)

\* Mutation: no SIGKILL after the second grace period.
CloseKillMissing ==
  /\ closing = "int"
  /\ closing' = "kill"
  /\ UNCHANGED <<procVars, outVars, inVars, closed, ctxDone>>

CloseInterrupt ==
  /\ closing = "grace"
  /\ closing' = "int"
  /\ UNCHANGED <<procVars, outVars, inVars, closed, ctxDone>>

CloseKill ==
  /\ closing = "int"
  /\ closing' = "kill"
  /\ child' = IF child = "running" THEN "exited" ELSE child
  /\ UNCHANGED <<launch, payload, outVars, inVars, closed, ctxDone>>

Reap ==
  /\ Waiting /\ child = "exited"
  /\ child' = "reaped"
  /\ UNCHANGED <<launch, payload, outVars, inVars, closeVars, ctxDone>>

CloseFinish ==
  /\ closing = "cleanup" \/ (Waiting /\ child = "reaped")
  /\ closing' = "done"
  /\ payload' = "none"
  /\ UNCHANGED <<launch, child, outVars, inVars, closed, ctxDone>>

CloseProgress == CloseInterrupt \/ CloseKill \/ Reap \/ CloseFinish

-----------------------------------------------------------------------------
(* What a client does. *)

\* Close wins its compare-and-swap and closes stdin; it waits only if there is
\* a process.  The two stores need no step between them: closed is read by the
\* reader and by writers alone, and a write that passed the check before
\* either store is a write before this step.
CloseBegin ==
  /\ launch \in {"ready", "failed"}
  /\ ~closed
  /\ closed' = TRUE
  /\ closing' = IF child = "none" THEN "cleanup" ELSE "grace"
  /\ UNCHANGED <<procVars, outVars, inVars, ctxDone>>

\* Mutation: the zero value a closed channel yields is taken for a message.
ReceiveZero ==
  /\ ntaken < Len(msgs) \/ MsgsClosed
  /\ ntaken' = ntaken + 1
  /\ UNCHANGED <<procVars, emitted, nread, reader, held, msgs, inVars, closeVars, ctxDone>>

Receive ==
  /\ ntaken < Len(msgs)
  /\ ntaken' = ntaken + 1
  /\ UNCHANGED <<procVars, emitted, nread, reader, held, msgs, inVars, closeVars, ctxDone>>

\* Mutation: the SDK holds the read end of the child's stdin open too, so a write
\* blocked on the full pipe never breaks.
WriteRefusedWithRoom ==
  /\ launch = "ready"
  /\ closed \/ child # "running"
  /\ Len(wrote) - nheard < StdinCap

\* WriteLine returns an error: the transport is closed or the pipe is broken.
WriteRefused ==
  /\ launch = "ready"
  /\ closed \/ child # "running"

\* WriteLine puts a whole line in the pipe.  writeMu is held during the write,
\* so lines never mix and a blocked writer blocks the others, as StdinCap does.
WriteAccepted(w) ==
  /\ ~closed /\ child = "running"
  /\ Len(wrote) < MaxWrites
  /\ Len(wrote) - nheard < StdinCap
  /\ wrote' = Append(wrote, w)
  /\ UNCHANGED <<procVars, outVars, nheard, closeVars, ctxDone>>

CancelContext ==
  /\ ~ctxDone
  /\ ctxDone' = TRUE
  /\ UNCHANGED <<procVars, outVars, inVars, closeVars>>

-----------------------------------------------------------------------------
TransportNext ==
  \/ Initialize
  \/ \E l \in CliLines : CliEmit(l)
  \/ Cli
  \/ ContextKill
  \/ Reader
  \/ CloseProgress
  \/ CloseBegin
  \/ Receive
  \/ \E w \in Writers : WriteAccepted(w)
  \/ CancelContext

TransportSpec == TransportInit /\ [][TransportNext]_tvars

\* Goroutines that can run do, timers fire, the kernel delivers SIGKILL and
\* reports the exit.  Nothing is assumed of the CLI or of the client.
TransportFairness ==
  /\ WF_tvars(Reader)
  /\ WF_tvars(CloseInterrupt)
  /\ WF_tvars(CloseKill)
  /\ WF_tvars(Reap)
  /\ WF_tvars(CloseFinish)
  /\ WF_tvars(ContextKill)

TransportFairSpec == TransportSpec /\ TransportFairness

-----------------------------------------------------------------------------
TransportTypeOK ==
  /\ launch \in {"new", "spawning", "ready", "failed"}
  /\ payload \in {"none", "present"}
  /\ child \in {"none", "running", "exited", "reaped"}
  /\ emitted \in Seq(CliLines)
  /\ nread \in 0 .. Len(emitted)
  /\ wrote \in Seq(Writers)
  /\ nheard \in 0 .. Len(wrote)
  /\ reader \in {"off", "scan", "push", "done"}
  /\ held \in 0 .. nread
  /\ reader = "push" => held # 0
  /\ msgs \in Seq(1 .. nread)
  /\ ntaken \in 0 .. Len(msgs)
  /\ closed \in BOOLEAN
  /\ closing \in {"no", "cleanup", "grace", "int", "kill", "done"}
  /\ ctxDone \in BOOLEAN

\* Messages reach the channel in the order the CLI wrote them, none twice,
\* although send() has a fast and a blocking path.
MsgsInOrder ==
  /\ \A i, j \in 1 .. Len(msgs) : i < j => msgs[i] < msgs[j]
  /\ reader = "push" => \A i \in 1 .. Len(msgs) : msgs[i] < held

\* Back-pressure loses nothing: every line the scanner consumed that parses is
\* on the channel or in the blocked send, except the one line whose send()
\* found the transport closed and ended the pump.
MsgsGapFree ==
  \A k \in 1 .. nread :
    Parses(emitted[k]) =>
      \/ \E i \in 1 .. Len(msgs) : msgs[i] = k
      \/ reader = "push" /\ held = k
      \/ reader = "done" /\ closed /\ k = nread

\* As long as the CLI keeps its lines under the scanner's limit, the channel of
\* an open transport closes only when the CLI is gone and its output is drained,
\* back-pressure and pauses in the output notwithstanding.
EndOfStreamJustified ==
  reader = "done" /\ (\A k \in 1 .. nread : emitted[k].kind # "oversized") =>
    closed \/ (child # "running" /\ nread = Len(emitted))

\* Once Close has returned, or Initialize has failed, no auth secret is left on
\* disk and no child is running or waiting to be reaped.
NothingLeftBehind ==
  closing = "done" \/ launch = "failed" =>
    payload = "none" /\ child \in {"none", "reaped"}

\* Close returns although the CLI ignores end of input and SIGINT, and although
\* nobody receives from the channel.
CloseReturns == closed ~> closing = "done"

\* A client that keeps receiving sees the channel close after the CLI is gone,
\* with every message on it received.
StreamEndsWithChild ==
  WF_tvars(Receive) =>
    (child \in {"exited", "reaped"} ~> (MsgsClosed /\ ntaken = Len(msgs)))
==============================================================================
