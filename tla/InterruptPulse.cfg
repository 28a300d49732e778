CONSTANTS
  TIMERS = 2
  DMAS = 1
  INTS = 1
  PRIS = 1
  DEPTH = 2
SPECIFICATION Spec
INVARIANTS PulseNeverLost
