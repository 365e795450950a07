------------------------------- MODULE MCRunner -------------------------------
(* Small instances of Runner: safety with one call in the stream, liveness    *)
(* with the requests of the CLI, a CLI that only says events, and one that    *)
(* writes a line that is too long.                                            *)
EXTENDS RunnerProperties

CONSTANTS c1, q1, q2, p1, s1, s2

Plain(k, s) == [kind |-> k, sid |-> s, id |-> "none"]
Reply(c, s) == [kind |-> "response", sid |-> s, id |-> c]
Ask(q) == [kind |-> "request", sid |-> NoSid, id |-> q]

AllLines ==
  {Plain("event", NoSid), Plain("result", s1), Plain("oversized", NoSid), Reply(c1, s2)}
EventLines == {Plain("event", NoSid)}
LongLines == {Plain("oversized", NoSid)}
RequestLines == {Ask(q1), Ask(q2), Plain("cancel", NoSid), Plain("event", NoSid)}

MixedSubs == [q \in Requests |-> IF q = q1 THEN "can_use_tool" ELSE "mcp_message"]
NoSubs == [q \in Requests |-> "other"]
==============================================================================
