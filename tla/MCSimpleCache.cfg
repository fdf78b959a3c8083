SPECIFICATION FairSpec
CONSTANTS
  ProcessorCount = 3
  Addrs = {0, 1}
  NULL = NULL
  DRAM_FETCH_TICKS = 3
  CACHE_DELAY = 2
  CACHE_TRANSFER = 2
  TraceLength = 2
  TaskLength = 2
  Mispredicts = {FALSE, TRUE}
INVARIANTS
  TypeOK
  NeverAborts
  OneRequestPerCore
  EndsQuiet
PROPERTIES
  KeepsToInterface
  SimulationEnds
CHECK_DEADLOCK FALSE
