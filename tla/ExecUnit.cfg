CONSTANTS
  SPACE = 2
  QUEUE = 3
  CX_MAX = 2
  MAX_NEST = 1
  None = None
SPECIFICATION FairSpec
INVARIANTS BytesInOrder ProgramOrder ReturnsToNext RepCounted
PROPERTIES NmiServed
CHECK_DEADLOCK FALSE
