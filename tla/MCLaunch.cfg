\* Two sessions from one Options, their stderr, and a plugin call.
SPECIFICATION HostFairSpec
CONSTANTS
  a = a
  b = b
  Sessions = {a, b}
  Scenarios <- AllScenarios
  Events <- TwoEvents
  HostIds <- ChosenIds
  StderrCap = 1
  MaxErrs = 3
INVARIANTS
  OwnCredential
  HookIdsUsable
  PluginCallFits
PROPERTIES
  StderrFlows
CHECK_DEADLOCK FALSE
