CONSTANTS
  TIMERS = 1
  DMAS = 1
  INTS = 1
  PRIS = 1
  DEPTH = 2
SPECIFICATION FairSpec
INVARIANTS ServicesAccounted UrgencyRespected
PROPERTIES TopPinServed
