------------------------------- MODULE MCSession -------------------------------
(* Small instances of Session: the handshake, end_session, one control method *)
(* that needs a session id, one prompt, one request of the CLI, and an event  *)
(* that carries the id.                                                       *)
EXTENDS SessionProperties, RunnerProperties

CONSTANTS init, end, c1, p1, q1, s1

Reply(c) == [kind |-> "response", sid |-> NoSid, id |-> c]
Event == [kind |-> "event", sid |-> s1, id |-> "none"]

Ask(q) == [kind |-> "request", sid |-> NoSid, id |-> q]

SessionLines == {Reply(init), Event}
AskingLines == SessionLines \cup {Ask(q1)}

\* Bounds of the run with a backlog: the CLI answers initialize once, talks on and
\* reads nothing more; one event of the stream is read, after Close has returned; the
\* session is used when every channel is full, and closed when a method and a Send have
\* started; the context is cancelled only if NewSession fails then.
Backlog ==
  Len(events) - nevents = EventsCap /\ Len(out) - nout = OutCap /\ loop = "forward"
Unused ==
  <<{c \in DOMAIN op : op[c] = "idle"}, {p \in Prompts : prompt[p] = "idle"}, ClosedCh>>
Answered == \E i \in 1 .. Len(emitted) : emitted[i].kind = "response"
BacklogBound ==
  /\ Answered /\ emitted' # emitted => emitted'[Len(emitted')].kind = "event"
  /\ nheard' <= 1
  /\ nevents' <= IF ending = "closed" THEN 1 ELSE 0
  /\ Unused' # Unused => Backlog
  /\ ClosedCh' => op[c1] # "idle" /\ prompt[p1] # "idle"
  /\ ctxDone' => setup' # "open"
BacklogSpec == SessionInit /\ [][SessionNext /\ BacklogBound]_allVars /\ SessionFairness

Subs1 == [q \in Requests |-> "can_use_tool"]
==============================================================================
