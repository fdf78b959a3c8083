SPECIFICATION Spec
CONSTANTS
  ProcessorCount = 3
  Addrs = {a1, a2}
  NULL = NULL
  DRAM_FETCH_TICKS = 3
  CACHE_DELAY = 2
  CACHE_TRANSFER = 2
  Evictors <- AllEvictors
  MaxOutstanding = 1
INVARIANTS
  Lockstep
  GrantInv
  TypeOK
  AssertionsHold
  SingleHolder
  CachesAgree
  RequestAccounted
  CountdownsInStep
PROPERTIES
  ReleasedAnswered
  PortSpec
