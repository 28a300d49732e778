CONSTANTS
  KFIFO = 2
  KRING = 2
  KEYS = {"shift", "a", "up"}
  TWORD = 3
  MaxPresses = 3
  ROWS = 3
  COLS = 2
  CHARS = {"x"}
  ATTRS = {7}
  BLS = {0}
  BYTE = 8
  SWORDS = 2
  SECTORS = 5
  BASE = 4
  AMOD = 16
  CBYTE = 256
  GSPT = 2
  GHEADS = 2
  DBUF = 0
  DCYLS = {0, 1}
  DCOUNTS = {1, 2}
  MaxCalls = 2
SPECIFICATION Spec
INVARIANTS KeysInOrder ChainSeesOneByte TransferExact
PROPERTIES ClockNotTorn ReaderServed ImplementsTerminal
