------------------------------- MODULE MCQuery -------------------------------
(* Small instances of Query: the response to initialize, the model catalogue, *)
(* an event and a result.                                                     *)
EXTENDS Query, RunnerProperties

CONSTANTS init, ask

Line(k, i) == [kind |-> k, sid |-> NoSid, id |-> i]
QueryLines ==
  {Line("response", init), Line("event", "models"), Line("result", "none")}
NoSubs == [q \in Requests |-> "other"]
==============================================================================
