SPECIFICATION FairSpec
CONSTANTS
  Keys <- MCKeys
  Records = {r1, r2}
  NULL = NULL
INVARIANT
  SearchTree
PROPERTIES
  SplayClimbs
  Completes
  IsMap
