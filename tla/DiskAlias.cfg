SPECIFICATION DiskSpec
CONSTANTS
  SWORDS = 2
  SECTORS = 8
  BASE = 2
  AMOD = 16
  CBYTE = 256
  GSPT = 4
  GHEADS = 2
  DBUF = 0
  DCYLS = {0}
  DCOUNTS = {1}
  MaxCalls = 1
INVARIANT DiskApart
CHECK_DEADLOCK FALSE
