CONSTANTS
  SPACE = 2
  Vals = {0}
  Redirects = {}
  Pops = {0, 2}
  DataAddrs = {0, 1}
  NESTED_ENTER = TRUE
  DMA = "off"
SPECIFICATION FairSpec
PROPERTIES EuAnswered
