CONSTANTS
  SPACE = 8
  Vals = {0}
  Redirects = {0, 1, 6}
  Pops = {0, 1, 2, 7}
  DataAddrs = {1}
  NESTED_ENTER = FALSE
  DMA = "off"
SPECIFICATION FairSpec
INVARIANTS InstructionStream
PROPERTIES EuAnswered
