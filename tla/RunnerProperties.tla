--------------------------- MODULE RunnerProperties ---------------------------
(* What queryRunner promises: invariants, action properties and liveness. *)
EXTENDS Runner, FiniteSets

RunnerTypeOK ==
  /\ TransportTypeOK
  /\ loop \in {"off", "recv", "dispatch", "deliver", "forward", "leave", "outclosed", "rundone"}
  /\ out \in Seq(1 .. nread)
  /\ nout \in 0 .. Len(out)
  /\ pending \subseteq Calls
  /\ call \in [Calls -> {"idle", "write", "wait", "ok", "error"}]
  /\ box \in [Calls -> 0 .. nread]
  /\ handler \in [Requests -> {"idle", "running", "callback", "success", "error",
                               "sent", "dropped"}]
  /\ once \in {"free", "done"} \cup Closers
  /\ closer \in [Closers -> {"no", "called", "done"}]
  /\ sid \in Sids \cup {NoSid}

\* The i-th message received has been dispatched.  The last one may still be
\* in the loop's hands, or have been dropped when the loop saw the shutdown.
Dispatched(i) == i < ntaken \/ (i = ntaken /\ loop = "recv")

-----------------------------------------------------------------------------
(* The event stream. *)

\* From the CLI's stdout to r.out, through the pump, its channel and the loop,
\* the runner implements a relay of the agent messages: control traffic between
\* them, back-pressure and a shutdown that drops the message in the loop's hands
\* neither skip, double nor reorder one, and after the cut none arrives.
Stream == INSTANCE Relay WITH
  offered <- {k \in 1 .. Len(emitted) : Forwarded(emitted[k])},
  delivered <- out,
  ended <- OutClosed
LoopIsRelay == Stream!RelaySpec

\* If the user did not shut the runner down and the CLI kept its lines under the
\* scanner's limit, r.out closes only after the terminal result of a one-shot
\* query, or with the CLI gone and every agent message it ever wrote on r.out.
ResultIsLast == out # <<>> /\ emitted[out[Len(out)]].kind = "result"
StreamComplete ==
  /\ OutClosed /\ closer["user"] = "no"
  /\ \A k \in 1 .. nread : emitted[k].kind # "oversized"
  => \/ OneShot /\ ResultIsLast
     \/ /\ child # "running"
        /\ \A k \in 1 .. Len(emitted) :
             Forwarded(emitted[k]) => \E i \in 1 .. Len(out) : out[i] = k

\* A one-shot query delivers nothing after its terminal result.
OneShotEndsAtResult ==
  OneShot => \A i \in 1 .. Len(out) - 1 : emitted[out[i]].kind # "result"

-----------------------------------------------------------------------------
(* Control calls. *)

\* r.pending holds exactly the calls that are under way and unanswered, but for
\* the one whose response the loop has in hand: an entry is never leaked on any
\* of the five ways out, nor missing while a response could still come.
PendingExact == pending = {c \in Calls : Active(c) /\ box[c] = 0 /\ ~Delivering(c)}

IsResponse(i, c) ==
  emitted[msgs[i]].kind = "response" /\ emitted[msgs[i]].id = c

\* A call that waits, or returned a reply, has the first response with its id
\* that the loop dispatched: no reply is lost to a registration that comes too
\* late, and no duplicate or foreign response is taken for it.
FirstReplyWins ==
  \A c \in Calls :
    /\ box[c] # 0 =>
         \E i \in 1 .. ntaken :
           /\ msgs[i] = box[c] /\ IsResponse(i, c)
           /\ \A j \in 1 .. i - 1 : ~IsResponse(j, c)
    /\ call[c] \in {"wait", "ok"} /\ (\E i \in 1 .. ntaken : Dispatched(i) /\ IsResponse(i, c))
         => box[c] # 0

-----------------------------------------------------------------------------
(* Session id. *)

\* The recorded session id is the one of the first dispatched message that
\* carries any, whichever kind of message that was.
SidFromFirst ==
  /\ sid # NoSid =>
       \E i \in 1 .. ntaken :
         /\ SidOf(emitted[msgs[i]]) = sid
         /\ \A j \in 1 .. i - 1 : SidOf(emitted[msgs[j]]) = NoSid
  /\ sid = NoSid =>
       \A i \in 1 .. ntaken : Dispatched(i) => SidOf(emitted[msgs[i]]) = NoSid

-----------------------------------------------------------------------------
(* Shutdown. *)

\* Whoever called shutdown, first or second, has it return only with the child
\* reaped and the auth payload gone.
ShutdownReturnsAfterReap ==
  \A k \in Closers :
    closer[k] = "done" => child \in {"none", "reaped"} /\ payload = "none"

\* shutdown returns although the CLI ignores every request to stop, nobody
\* reads r.out and host callbacks hang.
ShutdownReturns == \A k \in Closers : closer[k] = "called" ~> closer[k] = "done"

\* A control call under way returns once its context is done or the loop is
\* gone, whether or not the CLI answers and anybody reads the stream.
CallsReturn ==
  \A c \in Calls : Active(c) /\ (ctxDone \/ RunDone) ~> ~Active(c)

\* With a consumer that keeps reading, the death of the CLI closes the stream,
\* cleans up, and releases every handler of its requests, also from a write
\* blocked on a full pipe, but for those whose host callback hangs.
DeathEndsStream ==
  WF_vars(Consume) =>
    (loop # "off" /\ child # "running" ~>
       /\ RunDone /\ nout = Len(out) /\ closer["loop"] = "done"
       /\ \A q \in Requests : handler[q] \in {"idle", "callback", "sent", "dropped"})

\* A one-shot query that forwarded its result stops the CLI and removes the
\* auth payload, although the consumer may never read the result.
OneShotCleansUp ==
  OneShot /\ (\E i \in 1 .. Len(out) : emitted[out[i]].kind = "result")
    ~> child = "reaped" /\ payload = "none"

\* Each control request the loop takes is answered, or found unanswerable, if
\* its own callback returns and the CLI reads its input: another request's
\* callback that hangs does not hold it up.
RequestsAnswered ==
  \A q \in Requests :
    WF_vars(CallbackReturns(q)) /\ WF_tvars(CliHear) =>
      (loop = "dispatch" /\ Current.kind = "request" /\ Current.id = q
         ~> handler[q] \in {"sent", "dropped"})

-----------------------------------------------------------------------------
(* What comments in the code say, and the code does not do. *)

\* client.go:20-22: "The channel closes after the terminal result message (or when
\* the CLI exits)."
QueryChannelClosesAfterResult ==
  OutClosed /\ closer["user"] = "no" => ResultIsLast \/ child # "running"

\* client.go:22-23: the session is canceled when ctx is done; auth.go:7: the
\* SDK removes the temp directory on shutdown.  So a cancelled context ends in
\* a reaped child and no payload, whether or not the channel is read.
CancelEndsSession ==
  loop # "off" /\ ctxDone ~> child = "reaped" /\ payload = "none"
==============================================================================
