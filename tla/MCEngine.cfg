SPECIFICATION Spec
CONSTANTS
  Watchable = {"interconnect", "cache"}
  Reporters = {"interconnect"}
  MaxSteps = 3
  MaxDelay = 2
  MaxTicks = 6
INVARIANTS
  TypeOK
  RunsComplete
PROPERTIES
  IsDebugger
CHECK_DEADLOCK FALSE
