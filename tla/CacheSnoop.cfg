CONSTANTS
  Tags = {1}
  Sets = {0}
  LINE_WORDS = 2
  WAYS = 2
  WBUF_DEPTH = 1
  Lanes = {"w"}
  Vals = {0, 1}
  ExtTags = {1}
SPECIFICATION FairSpec
INVARIANTS OneWayPerTag Coherent
PROPERTIES KeepsPortContract AccessesFinish
