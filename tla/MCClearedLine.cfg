CONSTANTS
  Terminals = {t0}
  NUM_COLS = 3
  NUM_ROWS = 5
  KEYBOARD_BUFFER_SIZE = 3
  Keys = {" ", "tab", "nl", "nul"}
  Output = {" ", "nl"}
  ClearKey = TRUE
SPECIFICATION Spec
INVARIANT CursorOnScreen
