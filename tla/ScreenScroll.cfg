SPECIFICATION ScreenSpec
CONSTANTS
  ROWS = 2
  COLS = 2
  CHARS = {"x"}
  ATTRS = {7}
  BYTE = 8
  BLS = {0, 1}
PROPERTY ScrollExact
