--------------------------------- MODULE Relay ---------------------------------
(***************************************************************************)
(* What every stage between the CLI's output and the caller promises: the  *)
(* items meant for the stage are handed on in order, none skipped and none *)
(* twice, until the stream is cut once and for all.  Items are positions   *)
(* in the output of the source; how many wait in between, and when the cut *)
(* comes, is left open.                                                    *)
(***************************************************************************)
EXTENDS Naturals, Sequences

VARIABLES
  offered,    \* positions the source has produced for this stage
  delivered,  \* log of the positions handed on
  ended       \* the stream is cut

relayVars == <<offered, delivered, ended>>

Handed == {delivered[i] : i \in 1 .. Len(delivered)}

RelayInit == offered = {} /\ delivered = <<>> /\ ended = FALSE

\* The source produces at the end of its output only.
Offer ==
  /\ offered \subseteq offered' /\ offered' \subseteq Nat
  /\ \A new \in offered' \ offered, old \in offered : old < new
  /\ UNCHANGED <<delivered, ended>>

\* The oldest item still to be handed on is.
Deliver ==
  /\ ~ended
  /\ \E k \in offered \ Handed :
       /\ \A other \in offered \ Handed : k <= other
       /\ delivered' = Append(delivered, k)
  /\ UNCHANGED <<offered, ended>>

Cut ==
  /\ ended' = TRUE
  /\ UNCHANGED <<offered, delivered>>

RelaySpec == RelayInit /\ [][Offer \/ Deliver \/ Cut]_relayVars
==============================================================================
