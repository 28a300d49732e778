SPECIFICATION SysSpec
CONSTANTS
  NREQ = 2
  Rows = {r1, r2}
  Cols = {c1}
  Lanes = {lo}
  Vals = {0, 1}
  INIT_CYCLES = 1
  REFRESH_CYCLES = 16
  CAS_LATENCY = 2
  TREFI = 29
  NoRow = NoRow
  NoWord = NoWord
INVARIANTS ChipProtocol RefreshDeadline
PROPERTIES ImplementsSharedMemory EveryRequestAnswered
