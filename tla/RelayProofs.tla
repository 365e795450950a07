------------------------------ MODULE RelayProofs ------------------------------
(***************************************************************************)
(* What follows for every relay from the way it hands items on one by one. *)
(***************************************************************************)
EXTENDS Relay, TLAPS, SequenceTheorems

\* At every moment the items handed on are the oldest ones offered, in order.
Prefix ==
  /\ offered \subseteq Nat /\ delivered \in Seq(offered)
  /\ \A i, j \in 1 .. Len(delivered) : i < j => delivered[i] < delivered[j]
  /\ \A k \in offered : (\E h \in Handed : k < h) => k \in Handed

LEMMA PrefixStep == Prefix /\ [Offer \/ Deliver \/ Cut]_relayVars => Prefix'
<1> SUFFICES ASSUME Prefix, [Offer \/ Deliver \/ Cut]_relayVars PROVE Prefix'
  OBVIOUS
<1>1. /\ Len(delivered) \in Nat /\ offered \subseteq Nat
      /\ \A i \in 1 .. Len(delivered) : delivered[i] \in offered
  BY ElementOfSeq, LenProperties DEF Prefix
<1>2. Handed \subseteq offered
  BY <1>1 DEF Handed
<1>3. CASE Offer
  <2>1. delivered \in Seq(offered')
    BY <1>3, SeqMonotonic DEF Offer, Prefix
  <2>2. \A k \in offered', h \in Handed : k < h => k \in offered
    BY <1>1, <1>2, <1>3 DEF Offer
  <2>3. Handed' = Handed
    BY <1>3 DEF Offer, Handed
  <2> QED
    BY <1>2, <1>3, <2>1, <2>2, <2>3 DEF Offer, Prefix
<1>4. CASE Deliver
  <2>1. PICK k \in offered \ Handed : /\ \A other \in offered \ Handed : k <= other
                                      /\ delivered' = Append(delivered, k)
    BY <1>4 DEF Deliver
  <2>2. /\ delivered' \in Seq(offered) /\ Len(delivered') = Len(delivered) + 1
        /\ delivered'[Len(delivered) + 1] = k
        /\ \A i \in 1 .. Len(delivered) : delivered'[i] = delivered[i]
    BY <2>1, AppendProperties DEF Prefix
  <2>3. Handed' = Handed \cup {k} /\ offered' = offered
    BY <1>1, <1>4, <2>2 DEF Handed, Deliver
  <2>4. ASSUME NEW i \in 1 .. Len(delivered)
        PROVE  delivered[i] < k
    <3>1. delivered[i] \in Handed /\ delivered[i] \in Nat /\ k \in Nat
      BY <1>1 DEF Handed
    <3>2. ~(k < delivered[i])
      BY <3>1 DEF Prefix
    <3> QED
      BY <3>1, <3>2
  <2>5. \A i, j \in 1 .. Len(delivered') : i < j => delivered'[i] < delivered'[j]
    BY <1>1, <2>2, <2>4 DEF Prefix
  <2>6. \A o \in offered : (\E h \in Handed' : o < h) => o \in Handed'
    BY <1>1, <2>1, <2>3 DEF Prefix
  <2> QED
    BY <2>2, <2>3, <2>5, <2>6 DEF Prefix
<1>5. CASE Cut \/ UNCHANGED relayVars
  BY <1>5 DEF Cut, relayVars, Prefix, Handed
<1> QED
  BY <1>3, <1>4, <1>5

\* A relay never runs ahead of an item nor falls back behind one: at every
\* moment it has handed on the oldest items offered, in their order.
THEOREM RelayHandsPrefix == RelaySpec => []Prefix
<1>1. RelayInit => Prefix
  BY EmptySeq DEF RelayInit, Prefix, Handed
<1> QED
  BY <1>1, PrefixStep, PTL DEF RelaySpec
==============================================================================
