CONSTANTS
  Tags = {1, 2}
  Sets = {0}
  LINE_WORDS = 1
  WAYS = 1
  WBUF_DEPTH = 1
  Lanes = {"w"}
  Vals = {0, 1}
  ExtTags = {1}
SPECIFICATION Spec
INVARIANTS ReadsAreFresh
