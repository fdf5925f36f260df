CONSTANTS
  MOUSE_SPEED = 2
  VGA_WIDTH = 3
  VGA_HEIGHT = 3
  Moves <- MCMoves
  MaxSteps = 5
SPECIFICATION Spec
INVARIANT TracksMouse
PROPERTY PointerFollows
