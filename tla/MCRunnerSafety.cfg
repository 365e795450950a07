\* One-shot query: the event stream and a control call in it.
SPECIFICATION RunnerSpec
CONSTANTS
  c1 = c1
  p1 = p1
  q1 = q1
  q2 = q2
  s1 = s1
  s2 = s2
  NoSid = NoSid
  Sids = {s1, s2}
  Calls = {c1}
  Requests = {}
  Writers = {c1, p1}
  SubOf <- NoSubs
  Callbacks = {}
  CliLines <- AllLines
  OneShot = TRUE
  MsgCap = 1
  OutCap = 1
  StdoutCap = 1
  StdinCap = 1
  MaxEmit = 3
  MaxWrites = 1
  AuthOn = TRUE
INVARIANTS
  RunnerTypeOK
  StreamComplete
  OneShotEndsAtResult
  SidFromFirst
  ShutdownReturnsAfterReap
  PendingExact
PROPERTIES
  LoopIsRelay
CHECK_DEADLOCK FALSE
