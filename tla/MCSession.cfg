\* Session: the interplay of handshake, control method, Send and Close.
SPECIFICATION SessionSpec
CONSTANTS
  init = init
  end = end
  c1 = c1
  p1 = p1
  q1 = q1
  s1 = s1
  NoSid = NoSid
  Sids = {s1}
  InitCall = init
  EndCall = end
  NeedSid = {c1}
  Calls = {init, end, c1}
  Requests = {q1}
  Writers = {init, end, c1, p1, q1}
  SubOf <- Subs1
  Callbacks = {"can_use_tool"}
  CliLines <- AskingLines
  OneShot = FALSE
  MsgCap = 1
  OutCap = 1
  EventsCap = 1
  StdoutCap = 1
  StdinCap = 1
  MaxEmit = 2
  MaxWrites = 5
  AuthOn = TRUE
INVARIANTS
  SessionTypeOK
  FirstReplyWins
  ClosedMeansReaped
PROPERTIES
  QuietAfterClose
CHECK_DEADLOCK FALSE
