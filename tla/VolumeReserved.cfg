SPECIFICATION VolumeSpec
CONSTANTS
  SECTOR = 32
  MAXCLUSTERS = 12
  ENDMARKS = 8
  SIZES = {17}
  ROOTS = {4}
  LENGTHS = {3}
  FILES = {"IO.SYS", "MSDOS.SYS", "A"}
  MaxEdits = 1
INVARIANT ReadsBack
CHECK_DEADLOCK FALSE
