SPECIFICATION FairSpec
CONSTANTS
  Texts <- AnyTexts
  ARG_LIST_CHUNK_SIZE = 2
INVARIANTS
  TypeOK
  ReadsPlain
  EntriesFit
PROPERTIES
  EndsUnlessSlash
CHECK_DEADLOCK FALSE
