----------------------------- MODULE MCTransport -----------------------------
(* Small instance of Transport: what the client does is unconstrained. *)
EXTENDS Transport

Line(k) == [kind |-> k]
MCCliLines == {Line("event"), Line("junk"), Line("oversized")}
==============================================================================
