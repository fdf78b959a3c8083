SPECIFICATION FairSpec
CONSTANTS
  ProcessorCount = 1
  Addrs = {0, 1, 2}
  NULL = NULL
  DRAM_FETCH_TICKS = 3
  CACHE_DELAY = 2
  CACHE_TRANSFER = 2
  B = 4
  AddressMax = 11
  E = 2
  S = 1
  RripMax = 3
  SequenceMax = 6
  Configurations <- MCConfigurations
  Window = 2
  MaxRequests = 4
  Accesses <- MCAccesses
INVARIANTS
  TypeOK
  NeverFailsUnbuffered
  InOrderOnce
  Inclusive
  CacheAssertions
  ToldBeforeData
  StampsSound
  SplitExact
PROPERTIES
  UnbufferedStays
  KeepsToInterface
  RequestsComplete
CHECK_DEADLOCK FALSE
