SPECIFICATION Spec
CONSTANTS
  Texts <- CommentTexts
  ARG_LIST_CHUNK_SIZE = 2
INVARIANTS
  CommentsSkipped
CHECK_DEADLOCK FALSE
