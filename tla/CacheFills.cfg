CONSTANTS
  Tags = {1, 2}
  Sets = {0}
  LINE_WORDS = 2
  WAYS = 1
  WBUF_DEPTH = 2
  Lanes = {"w"}
  Vals = {0, 1}
  ExtTags = {}
SPECIFICATION Spec
INVARIANTS ReadsAreFresh
PROPERTIES StoresLand
