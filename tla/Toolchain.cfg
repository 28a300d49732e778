CONSTANTS
  SECTOR = 32
  MAXCLUSTERS = 16
  ENDMARKS = 4080
  SIZES = {17, 30}
  ROOTS = {4}
  LENGTHS = {0, 3}
  FILES = {"IO.SYS", "MSDOS.SYS", "A"}
  MaxEdits = 4
  CBYTE = 8
  DEFAULT <- MCDefault
  GEOS <- MCGeos
  TOTAL = 22
  DEVSIZE = 30
  KSECS = 3
  KWRAP = 4
  WLBA = 7
  LABELS <- MCLabels
  GAPS = {0, 126, 128}
  REGS = {0, 3}
  IMMS <- MCImms
  DISPS <- MCDisps
  ASIZE = 400
  ORIGIN = 31744
  MaxItems = 3
SPECIFICATION Spec
INVARIANTS ReadsBack NoLostClusters SystemFilesFirst KernelWhole StepsBoot Disassembles
PROPERTIES BootDecides
CHECK_DEADLOCK FALSE
