SPECIFICATION Spec
CONSTANTS
  ProcessorCount = 2
  Addrs = {a1, a2}
  NULL = NULL
  DRAM_FETCH_TICKS = 3
  CACHE_DELAY = 2
  CACHE_TRANSFER = 2
  Evictors <- NoEvictors
  MaxOutstanding = 1
PROPERTIES
  RoundRobin
