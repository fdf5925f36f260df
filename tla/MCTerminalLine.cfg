CONSTANTS
  Terminals = {t0}
  NUM_COLS = 2
  NUM_ROWS = 3
  KEYBOARD_BUFFER_SIZE = 4
  Keys = {"k", " ", "nl", "nul"}
  Output = {"o", "nl"}
  ClearKey = FALSE
SPECIFICATION Spec
INVARIANTS
  CursorOnScreen
  ScreenShowsLine
