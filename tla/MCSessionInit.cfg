\* Session: the handshake of a CLI that does not answer.
SPECIFICATION SessionFairSpec
CONSTANTS
  init = init
  end = end
  c1 = c1
  p1 = p1
  q1 = q1
  s1 = s1
  NoSid = NoSid
  Sids = {s1}
  InitCall = init
  EndCall = end
  NeedSid = {}
  Calls = {init, end}
  Requests = {}
  Writers = {init, end}
  SubOf <- Subs1
  Callbacks = {}
  CliLines <- SessionLines
  OneShot = FALSE
  MsgCap = 1
  OutCap = 1
  EventsCap = 1
  StdoutCap = 1
  StdinCap = 1
  MaxEmit = 1
  MaxWrites = 2
  AuthOn = TRUE
PROPERTIES
  HandshakeEnds
CHECK_DEADLOCK FALSE
