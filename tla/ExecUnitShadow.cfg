CONSTANTS
  SPACE = 2
  QUEUE = 3
  CX_MAX = 1
  MAX_NEST = 1
  None = None
SPECIFICATION Spec
INVARIANTS SegmentShadow
CHECK_DEADLOCK FALSE
