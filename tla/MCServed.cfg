SPECIFICATION FairSpec
CONSTANTS
  ProcessorCount = 2
  Addrs = {a1, a2}
  NULL = NULL
  DRAM_FETCH_TICKS = 3
  CACHE_DELAY = 2
  CACHE_TRANSFER = 2
  Evictors <- OneEvictor
  MaxOutstanding = 2
INVARIANTS
  FlushAccounted
PROPERTIES
  RequestsServed
