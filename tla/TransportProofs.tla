--------------------------- MODULE TransportProofs ---------------------------
(***************************************************************************)
(* Theorems about Transport for every set of lines, every capacity and     *)
(* every bound: its type invariant, the order and completeness of the      *)
(* message channel, and what Close and a failed Initialize leave behind.   *)
(***************************************************************************)
EXTENDS Transport, TLAPS, SequenceTheorems

\* Appending to a log keeps every earlier entry, and the new one is last.
LEMMA LogAppend ==
  ASSUME NEW S, NEW log \in Seq(S), NEW e \in S
  PROVE  /\ Append(log, e) \in Seq(S)
         /\ Len(Append(log, e)) = Len(log) + 1
         /\ \A i \in 1 .. Len(log) : Append(log, e)[i] = log[i]
         /\ Append(log, e)[Len(log) + 1] = e
BY AppendProperties

\* A log of positions stays one when there are more positions.
LEMMA LogWiden ==
  ASSUME NEW m \in Nat, NEW n \in Nat, m <= n, NEW log \in Seq(1 .. m)
  PROVE  log \in Seq(1 .. n)
<1>1. 1 .. m \subseteq 1 .. n
  OBVIOUS
<1> QED
  BY <1>1, SeqMonotonic

-----------------------------------------------------------------------------
LEMMA TransportTypeInit == TransportInit => TransportTypeOK
<1> SUFFICES ASSUME TransportInit PROVE TransportTypeOK
  OBVIOUS
<1>1. emitted \in Seq(CliLines) /\ wrote \in Seq(Writers) /\ msgs \in Seq(1 .. nread)
  BY EmptySeq DEF TransportInit
<1>2. Len(emitted) = 0 /\ Len(wrote) = 0 /\ Len(msgs) = 0
  BY EmptySeq DEF TransportInit
<1>3. nread \in 0 .. Len(emitted) /\ nheard \in 0 .. Len(wrote) /\ held \in 0 .. nread
      /\ ntaken \in 0 .. Len(msgs)
  BY <1>2 DEF TransportInit
<1> QED
  BY <1>1, <1>3 DEF TransportInit, TransportTypeOK

\* No step of the transport, of the CLI or of a client leaves the types.
LEMMA TransportTypeStep ==
  TransportTypeOK /\ [TransportNext]_tvars => TransportTypeOK'
<1> SUFFICES ASSUME TransportTypeOK, [TransportNext]_tvars
             PROVE  TransportTypeOK'
  OBVIOUS
<1> USE DEF TransportTypeOK, outVars, inVars, procVars, closeVars
<1>1. CASE Initialize
  BY <1>1 DEF Initialize, LaunchRefused, WritePayload, SpawnFails, Spawn
<1>2. ASSUME NEW l \in CliLines, CliEmit(l)
      PROVE  TransportTypeOK'
  BY <1>2, LogAppend DEF CliEmit
<1>3. CASE Cli
  BY <1>3 DEF Cli, CliHear, CliExit
<1>4. CASE ContextKill
  BY <1>4 DEF ContextKill
<1>5. CASE Reader
  <2>1. CASE ReaderScan
    <3>1. nread + 1 \in 0 .. Len(emitted)
      BY <2>1 DEF ReaderScan
    <3>2. msgs \in Seq(1 .. (nread + 1))
      BY LogWiden
    <3> QED
      BY <2>1, <3>1, <3>2 DEF ReaderScan
  <2>2. CASE ReaderPush
    <3>1. held \in 1 .. nread
      BY <2>2 DEF ReaderPush
    <3> QED
      BY <2>2, <3>1, LogAppend DEF ReaderPush
  <2>3. CASE ReaderEOF
    BY <2>3 DEF ReaderEOF
  <2> QED
    BY <1>5, <2>1, <2>2, <2>3 DEF Reader
<1>6. CASE CloseProgress
  BY <1>6 DEF CloseProgress, CloseInterrupt, CloseKill, Reap, CloseFinish
<1>7. CASE CloseBegin
  BY <1>7 DEF CloseBegin
<1>8. CASE Receive
  BY <1>8 DEF Receive
<1>9. ASSUME NEW w \in Writers, WriteAccepted(w)
      PROVE  TransportTypeOK'
  BY <1>9, LogAppend DEF WriteAccepted
<1>10. CASE CancelContext
  BY <1>10 DEF CancelContext
<1>11. CASE UNCHANGED tvars
  BY <1>11 DEF tvars
<1> QED
  BY <1>1, <1>2, <1>3, <1>4, <1>5, <1>6, <1>7, <1>8, <1>9, <1>10, <1>11
  DEF TransportNext

\* The fields of a transport always hold values of their kind.
THEOREM TransportTypeCorrect == TransportSpec => []TransportTypeOK
<1>1. TransportInit => TransportTypeOK
  BY TransportTypeInit
<1>2. TransportTypeOK /\ [TransportNext]_tvars => TransportTypeOK'
  BY TransportTypeStep
<1> QED
  BY <1>1, <1>2, PTL DEF TransportSpec

-----------------------------------------------------------------------------
(* The life of the process and of Close, which NothingLeftBehind needs:      *)
(* Close waits exactly when there is a child, and only Close reaps it.       *)
LifeCycle ==
  /\ launch \in {"new", "spawning", "failed"} => child = "none" /\ reader = "off"
  /\ launch \in {"new", "failed"} => payload = "none"
  /\ launch = "ready" => child # "none" /\ reader # "off"
  /\ closed <=> closing # "no"
  /\ closing # "no" => launch \in {"ready", "failed"}
  /\ closing = "cleanup" => launch = "failed"
  /\ Waiting => launch = "ready"
  /\ closing = "done" => payload = "none" /\ child \in {"none", "reaped"}
  /\ child = "reaped" => closed

LEMMA LifeCycleStep ==
  TransportTypeOK /\ LifeCycle /\ [TransportNext]_tvars => LifeCycle'
<1> SUFFICES ASSUME TransportTypeOK, LifeCycle, [TransportNext]_tvars
             PROVE  LifeCycle'
  OBVIOUS
<1> USE DEF TransportTypeOK, LifeCycle, Waiting, outVars, inVars, procVars, closeVars
<1>1. CASE Initialize
  BY <1>1 DEF Initialize, LaunchRefused, WritePayload, SpawnFails, Spawn
<1>2. CASE \E l \in CliLines : CliEmit(l)
  BY <1>2 DEF CliEmit
<1>3. CASE Cli \/ ContextKill
  BY <1>3 DEF Cli, CliHear, CliExit, ContextKill
<1>4. CASE Reader
  BY <1>4 DEF Reader, ReaderScan, ReaderPush, ReaderEOF
<1>5. CASE CloseProgress
  BY <1>5 DEF CloseProgress, CloseInterrupt, CloseKill, Reap, CloseFinish
<1>6. CASE CloseBegin
  BY <1>6 DEF CloseBegin
<1>7. CASE Receive \/ (\E w \in Writers : WriteAccepted(w)) \/ CancelContext
  BY <1>7 DEF Receive, WriteAccepted, CancelContext
<1>8. CASE UNCHANGED tvars
  BY <1>8 DEF tvars
<1> QED
  BY <1>1, <1>2, <1>3, <1>4, <1>5, <1>6, <1>7, <1>8 DEF TransportNext

LEMMA LifeCycleHolds == TransportSpec => []LifeCycle
<1>1. TransportInit => LifeCycle
  BY DEF TransportInit, LifeCycle, Waiting
<1> QED
  BY <1>1, LifeCycleStep, TransportTypeCorrect, PTL DEF TransportSpec

\* After Close has returned or Initialize has failed, no child runs unreaped
\* and no auth payload is on disk, for every interleaving of teardown, context
\* cancellation, crash of the CLI and traffic.
THEOREM NothingIsLeftBehind == TransportSpec => []NothingLeftBehind
<1>1. LifeCycle => NothingLeftBehind
  BY DEF LifeCycle, NothingLeftBehind
<1> QED
  BY <1>1, LifeCycleHolds, PTL

-----------------------------------------------------------------------------
(* The message channel. *)

LEMMA InOrderStep ==
  TransportTypeOK /\ MsgsInOrder /\ [TransportNext]_tvars => MsgsInOrder'
<1> SUFFICES ASSUME TransportTypeOK, MsgsInOrder, [TransportNext]_tvars
             PROVE  MsgsInOrder'
  OBVIOUS
<1>1. CASE UNCHANGED <<reader, held, msgs>>
  BY <1>1 DEF MsgsInOrder
<1>2. CASE ReaderScan
  <2>1. \A i \in 1 .. Len(msgs) : msgs[i] \in 1 .. nread
    BY ElementOfSeq DEF TransportTypeOK
  <2>2. msgs' = msgs /\ nread \in Nat /\ (reader' = "push" => held' = nread + 1)
    BY <1>2 DEF ReaderScan, TransportTypeOK
  <2>3. ASSUME NEW i \in 1 .. Len(msgs), reader' = "push"
        PROVE  msgs[i] < held'
    BY <2>1, <2>2, <2>3
  <2> QED
    BY <2>2, <2>3 DEF MsgsInOrder
<1>3. CASE ReaderPush
  <2>1. held \in 1 .. nread
    BY <1>3 DEF ReaderPush, TransportTypeOK
  <2>2. msgs' = Append(msgs, held) /\ reader' = "scan" /\ reader = "push"
    BY <1>3 DEF ReaderPush
  <2>3. /\ Len(msgs') = Len(msgs) + 1 /\ msgs'[Len(msgs) + 1] = held
        /\ \A i \in 1 .. Len(msgs) : msgs'[i] = msgs[i]
    BY <2>1, <2>2, LogAppend DEF TransportTypeOK
  <2>4. Len(msgs) \in Nat
    BY DEF TransportTypeOK
  <2>5. ASSUME NEW i \in 1 .. Len(msgs'), NEW j \in 1 .. Len(msgs'), i < j
        PROVE  msgs'[i] < msgs'[j]
    <3>1. i \in 1 .. Len(msgs)
      BY <2>3, <2>4, <2>5
    <3>2. CASE j \in 1 .. Len(msgs)
      BY <2>3, <2>5, <3>1, <3>2 DEF MsgsInOrder
    <3>3. CASE j = Len(msgs) + 1
      BY <2>2, <2>3, <3>1, <3>3 DEF MsgsInOrder
    <3> QED
      BY <2>3, <2>4, <3>2, <3>3
  <2> QED
    BY <2>2, <2>5 DEF MsgsInOrder
<1>4. CASE ReaderEOF
  BY <1>4 DEF ReaderEOF, MsgsInOrder
<1>5. CASE Spawn
  BY <1>5 DEF Spawn, MsgsInOrder
<1> QED
  BY <1>1, <1>2, <1>3, <1>4, <1>5
  DEF TransportNext, tvars, Initialize, LaunchRefused, WritePayload, SpawnFails, CliEmit,
      Cli, CliHear, CliExit, ContextKill, Reader, CloseProgress,
      CloseInterrupt, CloseKill, Reap, CloseFinish, CloseBegin, Receive, WriteAccepted,
      CancelContext, outVars

\* Messages are on the channel in the order the CLI wrote them, each once.
THEOREM ChannelInOrder == TransportSpec => []MsgsInOrder
<1>1. TransportInit => MsgsInOrder
  BY EmptySeq DEF TransportInit, MsgsInOrder
<1> QED
  BY <1>1, InOrderStep, TransportTypeCorrect, PTL DEF TransportSpec

\* While send() blocks, the line it holds is the last one scanned.
HeldIsLast == reader = "push" => held = nread

LEMMA GapFreeStep ==
  TransportTypeOK /\ LifeCycle /\ HeldIsLast /\ MsgsGapFree /\ [TransportNext]_tvars
    => HeldIsLast' /\ MsgsGapFree'
<1> SUFFICES ASSUME TransportTypeOK, LifeCycle, HeldIsLast, MsgsGapFree,
                    [TransportNext]_tvars
             PROVE  HeldIsLast' /\ MsgsGapFree'
  OBVIOUS
<1> USE DEF HeldIsLast
<1>1. CASE UNCHANGED <<emitted, nread, reader, held, msgs>> /\ (closed => closed')
  BY <1>1 DEF MsgsGapFree
<1>2. ASSUME NEW l \in CliLines, CliEmit(l)
      PROVE  HeldIsLast' /\ MsgsGapFree'
  <2>1. \A k \in 1 .. nread : emitted'[k] = emitted[k]
    BY <1>2, LogAppend DEF CliEmit, TransportTypeOK
  <2> QED
    BY <1>2, <2>1 DEF CliEmit, MsgsGapFree, closeVars, TransportTypeOK
<1>3. CASE ReaderScan
  <2>1. \A k \in 1 .. nread : Parses(emitted[k]) => \E i \in 1 .. Len(msgs) : msgs[i] = k
    BY <1>3 DEF ReaderScan, MsgsGapFree
  <2>2. nread' = nread + 1 /\ emitted' = emitted /\ msgs' = msgs /\ closed' = closed
    BY <1>3 DEF ReaderScan, closeVars
  <2>3. Parses(emitted[nread + 1]) =>
          \/ reader' = "push" /\ held' = nread + 1
          \/ reader' = "done" /\ closed
    BY <1>3 DEF ReaderScan, Parses
  <2>4. HeldIsLast'
    BY <1>3 DEF ReaderScan
  <2>5. ASSUME NEW k \in 1 .. nread + 1, Parses(emitted[k])
        PROVE  \/ \E i \in 1 .. Len(msgs) : msgs[i] = k
               \/ reader' = "push" /\ held' = k
               \/ reader' = "done" /\ closed /\ k = nread + 1
    <3>1. k \in 1 .. nread \/ k = nread + 1
      BY DEF TransportTypeOK
    <3> QED
      BY <2>1, <2>3, <2>5, <3>1
  <2> QED
    BY <2>2, <2>4, <2>5 DEF MsgsGapFree
<1>4. CASE ReaderPush
  <2>1. held \in 1 .. nread
    BY <1>4 DEF ReaderPush, TransportTypeOK
  <2>2. msgs' = Append(msgs, held) /\ reader' = "scan" /\ reader = "push"
        /\ nread' = nread /\ emitted' = emitted
    BY <1>4 DEF ReaderPush
  <2>3. /\ Len(msgs') = Len(msgs) + 1 /\ msgs'[Len(msgs) + 1] = held
        /\ \A i \in 1 .. Len(msgs) : msgs'[i] = msgs[i]
    BY <2>1, <2>2, LogAppend DEF TransportTypeOK
  <2>4. Len(msgs) \in Nat
    BY DEF TransportTypeOK
  <2>5. ASSUME NEW k \in 1 .. nread, Parses(emitted[k])
        PROVE  \E i \in 1 .. Len(msgs') : msgs'[i] = k
    <3>1. CASE k = held
      BY <2>3, <2>4, <3>1
    <3>2. CASE k # held
      <4>1. PICK i \in 1 .. Len(msgs) : msgs[i] = k
        BY <2>2, <2>5, <3>2 DEF MsgsGapFree
      <4> QED
        BY <2>3, <2>4, <4>1
    <3> QED
      BY <3>1, <3>2
  <2> QED
    BY <2>2, <2>5 DEF MsgsGapFree
<1>5. CASE ReaderEOF
  BY <1>5 DEF ReaderEOF, MsgsGapFree
<1>6. CASE Spawn
  BY <1>6 DEF Spawn, LifeCycle, MsgsGapFree, closeVars
<1>7. CASE CloseBegin
  BY <1>7, <1>1 DEF CloseBegin, outVars
<1> QED
  BY <1>1, <1>2, <1>3, <1>4, <1>5, <1>6, <1>7
  DEF TransportNext, tvars, Initialize, LaunchRefused, WritePayload, SpawnFails,
      Cli, CliHear, CliExit, ContextKill, Reader, CloseProgress,
      CloseInterrupt, CloseKill, Reap, CloseFinish, Receive, WriteAccepted,
      CancelContext, outVars, closeVars

LEMMA HeldHolds == TransportSpec => [](HeldIsLast /\ MsgsGapFree)
<1>1. TransportInit => HeldIsLast /\ MsgsGapFree
  BY DEF TransportInit, HeldIsLast, MsgsGapFree
<1> QED
  BY <1>1, GapFreeStep, LifeCycleHolds, TransportTypeCorrect, PTL DEF TransportSpec

\* Back-pressure loses no message: every line scanned that parses is on the
\* channel or in the blocked send, except the one the closed transport refused.
THEOREM ChannelGapFree == TransportSpec => []MsgsGapFree
BY HeldHolds, PTL

LEMMA EndJustifiedStep ==
  TransportTypeOK /\ LifeCycle /\ EndOfStreamJustified /\ [TransportNext]_tvars
    => EndOfStreamJustified'
<1> SUFFICES ASSUME TransportTypeOK, LifeCycle, EndOfStreamJustified, [TransportNext]_tvars
             PROVE  EndOfStreamJustified'
  OBVIOUS
<1>1. ASSUME NEW l \in CliLines, CliEmit(l)
      PROVE  EndOfStreamJustified'
  <2>1. \A k \in 1 .. nread : emitted'[k] = emitted[k]
    BY <1>1, LogAppend DEF CliEmit, TransportTypeOK
  <2> QED
    BY <1>1, <2>1 DEF CliEmit, EndOfStreamJustified, closeVars, procVars
<1>2. CASE ReaderScan
  <2>1. CASE emitted[nread + 1].kind = "oversized"
    BY <1>2, <2>1 DEF ReaderScan, EndOfStreamJustified, TransportTypeOK
  <2>2. CASE emitted[nread + 1].kind # "oversized"
    BY <1>2, <2>2 DEF ReaderScan, EndOfStreamJustified, closeVars
  <2> QED
    BY <2>1, <2>2
<1>3. CASE ReaderPush
  BY <1>3 DEF ReaderPush, EndOfStreamJustified
<1>4. CASE ReaderEOF
  BY <1>4 DEF ReaderEOF, EndOfStreamJustified, LifeCycle, procVars, closeVars
<1>5. CASE Initialize
  BY <1>5 DEF Initialize, LaunchRefused, WritePayload, SpawnFails, Spawn,
              EndOfStreamJustified, LifeCycle, outVars, closeVars
<1>6. CASE Cli \/ ContextKill \/ CloseProgress \/ CloseBegin
  BY <1>6 DEF Cli, CliHear, CliExit, ContextKill, CloseProgress,
              CloseInterrupt, CloseKill, Reap, CloseFinish, CloseBegin,
              EndOfStreamJustified, outVars, closeVars, procVars
<1>7. CASE Receive \/ (\E w \in Writers : WriteAccepted(w)) \/ CancelContext
  BY <1>7 DEF Receive, WriteAccepted, CancelContext, EndOfStreamJustified, outVars,
              closeVars, procVars
<1>8. CASE UNCHANGED tvars
  BY <1>8 DEF tvars, EndOfStreamJustified
<1> QED
  BY <1>1, <1>2, <1>3, <1>4, <1>5, <1>6, <1>7, <1>8 DEF TransportNext, Reader

\* While the CLI keeps its lines under the scanner's limit, the channel of an open
\* transport never closes before the CLI is gone and its output is drained.
THEOREM StreamEndJustified == TransportSpec => []EndOfStreamJustified
<1>1. TransportInit => EndOfStreamJustified
  BY DEF TransportInit, EndOfStreamJustified
<1> QED
  BY <1>1, EndJustifiedStep, LifeCycleHolds, TransportTypeCorrect, PTL DEF TransportSpec

-----------------------------------------------------------------------------
(* What the pump has in hand: the loop's stream rests on it. *)

\* The scanner asks send() to hand over lines that parse, no others.
HeldParses == reader = "push" => Parses(emitted[held])

LEMMA HeldParsesStep ==
  TransportTypeOK /\ HeldParses /\ [TransportNext]_tvars => HeldParses'
<1> SUFFICES ASSUME TransportTypeOK, HeldParses, [TransportNext]_tvars
             PROVE  HeldParses'
  OBVIOUS
<1>1. CASE UNCHANGED <<emitted, reader, held>>
  BY <1>1 DEF HeldParses
<1>2. ASSUME NEW l \in CliLines, CliEmit(l)
      PROVE  HeldParses'
  <2>1. reader = "push" => emitted'[held] = emitted[held]
    BY <1>2, LogAppend DEF CliEmit, TransportTypeOK
  <2> QED
    BY <1>2, <2>1 DEF CliEmit, HeldParses
<1>3. CASE ReaderScan \/ ReaderPush \/ ReaderEOF \/ Spawn
  BY <1>3 DEF ReaderScan, ReaderPush, ReaderEOF, Spawn, HeldParses
<1> QED
  BY <1>1, <1>2, <1>3
  DEF TransportNext, tvars, Initialize, LaunchRefused, WritePayload, SpawnFails,
      Cli, CliHear, CliExit, ContextKill, Reader, CloseProgress, CloseInterrupt, CloseKill,
      Reap, CloseFinish, CloseBegin, Receive, WriteAccepted, CancelContext, outVars

PumpInv ==
  TransportTypeOK /\ LifeCycle /\ HeldIsLast /\ HeldParses /\ MsgsInOrder /\ MsgsGapFree

LEMMA PumpInvHolds == TransportSpec => []PumpInv
<1>1. TransportInit => HeldParses
  BY DEF TransportInit, HeldParses
<1>2. TransportSpec => []HeldParses
  BY <1>1, HeldParsesStep, TransportTypeCorrect, PTL DEF TransportSpec
<1> QED
  BY <1>2, TransportTypeCorrect, LifeCycleHolds, HeldHolds, ChannelInOrder, PTL DEF PumpInv
==============================================================================
