\* One-shot query whose CLI writes an oversized line and runs on.
SPECIFICATION RunnerSpec
CONSTANTS
  c1 = c1
  p1 = p1
  q1 = q1
  q2 = q2
  s1 = s1
  s2 = s2
  NoSid = NoSid
  Sids = {s1, s2}
  Calls = {}
  Requests = {}
  Writers = {}
  SubOf <- NoSubs
  Callbacks = {}
  CliLines <- LongLines
  OneShot = TRUE
  MsgCap = 1
  OutCap = 1
  StdoutCap = 1
  StdinCap = 1
  MaxEmit = 1
  MaxWrites = 0
  AuthOn = TRUE
INVARIANTS
  QueryChannelClosesAfterResult
CHECK_DEADLOCK FALSE
