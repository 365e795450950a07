\* Session: its end against full channels, a full stdin pipe and calls under way.
SPECIFICATION BacklogSpec
CONSTANTS
  init = init
  end = end
  c1 = c1
  p1 = p1
  q1 = q1
  s1 = s1
  NoSid = NoSid
  Sids = {s1}
  InitCall = init
  EndCall = end
  NeedSid = {}
  Calls = {init, end, c1}
  Requests = {}
  Writers = {init, end, c1, p1}
  SubOf <- Subs1
  Callbacks = {}
  CliLines <- SessionLines
  OneShot = FALSE
  MsgCap = 1
  OutCap = 1
  EventsCap = 1
  StdoutCap = 1
  StdinCap = 1
  MaxEmit = 5
  MaxWrites = 4
  AuthOn = TRUE
PROPERTIES
  SessionEnds
  StreamIsRelay
CHECK_DEADLOCK FALSE
