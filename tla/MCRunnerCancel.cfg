\* One-shot query whose context is cancelled while nobody reads the channel.
SPECIFICATION RunnerFairSpec
CONSTANTS
  c1 = c1
  p1 = p1
  q1 = q1
  q2 = q2
  s1 = s1
  s2 = s2
  NoSid = NoSid
  Sids = {s1, s2}
  Calls = {}
  Requests = {}
  Writers = {}
  SubOf <- NoSubs
  Callbacks = {}
  CliLines <- EventLines
  OneShot = TRUE
  MsgCap = 1
  OutCap = 1
  StdoutCap = 1
  StdinCap = 1
  MaxEmit = 2
  MaxWrites = 0
  AuthOn = TRUE
PROPERTIES
  CancelEndsSession
CHECK_DEADLOCK FALSE
