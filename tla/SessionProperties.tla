--------------------------- MODULE SessionProperties ---------------------------
(* What Session promises: invariants, action properties and liveness. *)
EXTENDS Session

SessionTypeOK ==
  /\ setup \in {"start", "handshake", "wait", "select", "open", "failing", "error", "lost"}
  /\ tee \in {"off", "recv", "send", "done"}
  /\ events \in Seq(1 .. nread)
  /\ nevents \in 0 .. Len(events)
  /\ op \in [Methods \cup {EndCall} -> {"idle", "refused", "select", "ok", "error"}]
  /\ prompt \in [Prompts -> {"idle", "write", "sent", "error"}]
  /\ ending \in {"no", "ending", "down", "closed"}

\* End to end, from the CLI's stdout through three goroutines and three channels
\* to s.events, the session implements a relay of the agent messages: none is
\* skipped or doubled before the cut, and after the cut none arrives.
EndToEnd == INSTANCE Relay WITH
  offered <- {k \in 1 .. Len(emitted) : Forwarded(emitted[k])},
  delivered <- events,
  ended <- tee = "done"
StreamIsRelay == EndToEnd!RelaySpec

\* When Close has returned, or NewSession has returned an error after shutdown,
\* the child is reaped and the auth payload gone.
ClosedMeansReaped ==
  ending = "closed" \/ setup = "error" =>
    child \in {"none", "reaped"} /\ payload = "none"

\* Nothing reaches the CLI's stdin once Close has returned, although goroutines
\* of control methods that gave up, and handlers of the CLI's own requests whose
\* host callbacks return late, may still be about to write.
QuietAfterClose == [][ending = "closed" => wrote' = wrote]_allVars

\* A session that is closed, or whose NewSession fails, comes to its end, although
\* the CLI neither answers nor reads, every channel and stdin are full and nobody
\* reads the stream.  The child is reaped and the payload removed, on the path of
\* NewSession too that returns without calling shutdown; Close returns, the
\* stream ends, and every control method and Send is released.
SessionEnds ==
  ClosedCh \/ setup \in {"failing", "lost"} ~>
    /\ child \in {"none", "reaped"} /\ payload = "none"
    /\ ClosedCh =>
         /\ ending = "closed" /\ tee = "done"
         /\ \A c \in Methods \cup {EndCall} : op[c] # "select"
         /\ \A p \in Prompts : ~Sending(p)

-----------------------------------------------------------------------------
(* What comments in the code say, and the code does not do. *)

\* session.go:285: a best-effort graceful end before transport teardown.  When
\* Close starts the teardown, end_session has at least been tried.
EndSessionComesFirst == closing # "no" /\ ending = "down" /\ closer["loop"] = "no"
                          => call[EndCall] \notin {"idle", "write"}

\* errors.go:12, options.go:107: initialization times out, after a minute by
\* default, so the handshake does not last for ever.
HandshakeEnds == setup = "handshake" ~> setup # "handshake"
==============================================================================
