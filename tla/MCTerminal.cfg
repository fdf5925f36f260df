CONSTANTS
  Terminals = {t0, t1}
  NUM_COLS = 2
  NUM_ROWS = 5
  KEYBOARD_BUFFER_SIZE = 2
  Keys = {" ", "tab", "nl", "nul"}
  Output = {" ", "nl"}
  ClearKey = TRUE
SPECIFICATION Spec
INVARIANTS
  OneLine
  HardwareCursor
SYMMETRY Sym
