CONSTANTS
  SPACE = 2
  Vals = {0, 1}
  Redirects = {}
  Pops = {2}
  DataAddrs = {0, 1}
  NESTED_ENTER = FALSE
  DMA = "sync"
SPECIFICATION FairSpec
INVARIANTS DoneIsTrue
PROPERTIES WritesOnlyWhatIsAsked DmaServed
