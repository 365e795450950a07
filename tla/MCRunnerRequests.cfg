\* Session runner: two control requests of the CLI, one with a callback that may hang.
SPECIFICATION RunnerFairSpec
CONSTANTS
  c1 = c1
  p1 = p1
  q1 = q1
  q2 = q2
  s1 = s1
  s2 = s2
  NoSid = NoSid
  Sids = {s1, s2}
  Calls = {}
  Requests = {q1, q2}
  Writers = {q1, q2}
  SubOf <- MixedSubs
  Callbacks = {"can_use_tool"}
  CliLines <- RequestLines
  OneShot = FALSE
  MsgCap = 1
  OutCap = 1
  StdoutCap = 1
  StdinCap = 1
  MaxEmit = 2
  MaxWrites = 2
  AuthOn = TRUE
PROPERTIES
  DeathEndsStream
  ShutdownReturns
  RequestsAnswered
CHECK_DEADLOCK FALSE
