\* The two one-shot entry points: what must eventually happen.
SPECIFICATION QueryFairSpec
CONSTANTS
  init = init
  ask = ask
  NoSid = NoSid
  Sids = {}
  InitCall = init
  Prompt = ask
  Entries = {"Query", "ListModels"}
  Calls = {init}
  Requests = {}
  Writers = {init, ask}
  SubOf <- NoSubs
  Callbacks = {}
  CliLines <- QueryLines
  OneShot = TRUE
  MsgCap = 1
  OutCap = 1
  StdoutCap = 1
  StdinCap = 1
  MaxEmit = 3
  MaxWrites = 2
  AuthOn = TRUE
INVARIANTS
  HandshakeFitsBuffer
  ReturnedMeansReaped
PROPERTIES
  HandshakeReleased
  ListingReturns
  CallsReturn
  OneShotCleansUp
CHECK_DEADLOCK FALSE
