CONSTANTS
  NoKey = NoKey
  Key = {"rshift", "caps", "lctrl", "k", "c"}
  Pos = {"rshift", "caps", "lctrl", "k1", "k2", "c", "off"}
  KeyAt <- MCKeyAt
  Held = {"lctrl", "rctrl"}
SPECIFICATION Spec
INVARIANTS
  NoStuckModifier
  HighlightFollows
  KeysShown
  OneKeyPerClick
