\* Session: end_session against the teardown that follows it.
SPECIFICATION SessionSpec
CONSTANTS
  init = init
  end = end
  c1 = c1
  p1 = p1
  q1 = q1
  s1 = s1
  NoSid = NoSid
  Sids = {s1}
  InitCall = init
  EndCall = end
  NeedSid = {}
  Calls = {init, end}
  Requests = {}
  Writers = {init, end}
  SubOf <- Subs1
  Callbacks = {}
  CliLines <- SessionLines
  OneShot = FALSE
  MsgCap = 1
  OutCap = 1
  EventsCap = 1
  StdoutCap = 1
  StdinCap = 1
  MaxEmit = 2
  MaxWrites = 2
  AuthOn = TRUE
INVARIANTS
  EndSessionComesFirst
CHECK_DEADLOCK FALSE
