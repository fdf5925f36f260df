CONSTANTS
  a = a
  b = b
  NUL = NUL
  NL = NL
  Dot = Dot
  Null = Null
  FS_BLOCK_SIZE = 2
  FS_MAX_DBLKS = 3
  FS_MAX_FNAME_LEN = 2
  Word = 16
  UserStart = 4
  ProgStart = 9
  UserEnd = 12
  MagicSize = 1
  BUFSIZE = 3
  ARG_LENGTH = 5
  Images <- MCImages
  FileNames <- MCNames
  Buffers = {3, 4, 11, 13}
  Sizes = {0, 1, 3, 5, 7}
  Helloo <- MCHelloo
  Shel <- MCShel
  Setups <- MCSetups
  Lines <- MCLines
  ExitWord <- MCExitWord
  Ends <- MCEnds
  Blank = {" "}
SPECIFICATION ProgFairSpec
INVARIANTS
  FindsByName
  ReadsAsAsked
  ReadsInSequence
  StaysInUserPage
  ProgramsDeliver
  GrepFinds
  ShellTells
  SysErrPasses
PROPERTY ReadDataEnds
CHECK_DEADLOCK FALSE
