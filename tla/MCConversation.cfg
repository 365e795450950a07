\* Session and fake CLI: two turns, permission and hook prompts, one late answer, a crash.
SPECIFICATION ConvFairSpec
CONSTANTS
  init = init
  end = end
  set = set
  p1 = p1
  p2 = p2
  perm = perm
  hook = hook
  s1 = s1
  NoSid = NoSid
  Sids = {s1}
  InitCall = init
  EndCall = end
  SetModel = set
  NeedSid = {set}
  Calls = {init, end, set}
  Requests = {perm, hook}
  AskTool = perm
  AskHook = hook
  ToolPrompt = TRUE
  HookPrompt = TRUE
  FakeSid = s1
  KilledAt = {"result"}
  Writers = {init, end, set, p1, p2, perm, hook}
  SubOf <- Subtypes
  Callbacks = {"can_use_tool", "hook_callback"}
  CliLines <- FakeLines
  OneShot = FALSE
  MsgCap = 1
  OutCap = 1
  EventsCap = 1
  StdoutCap = 1
  StdinCap = 1
  MaxEmit = 12
  MaxWrites = 7
  AuthOn = TRUE
  MaxTimeouts = 1
INVARIANTS
  AnswersInTurn
  ModelFollows
PROPERTIES
  TurnsEnd
  FakeIsACli
CHECK_DEADLOCK FALSE
