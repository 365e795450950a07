\* Liveness without any assumption on the client: TransportFairSpec.
SPECIFICATION TransportFairSpec
CONSTANTS
  CliLines <- MCCliLines
  Writers = {w}
  MsgCap = 2
  StdoutCap = 2
  StdinCap = 1
  MaxEmit = 4
  MaxWrites = 1
  AuthOn = TRUE
INVARIANTS
  TransportTypeOK
  MsgsInOrder
  MsgsGapFree
  EndOfStreamJustified
  NothingLeftBehind
PROPERTIES
  CloseReturns
  StreamEndsWithChild
CHECK_DEADLOCK FALSE
