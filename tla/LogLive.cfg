SPECIFICATION UpSpec
CONSTANTS
  Procs = {p1, p2, p3}
  Blocks = {b1, b2, b3, b4}
  Vals = {x}
  Blank = x
  LOGSIZE = 4
  MAXOPBLOCKS = 2
  NLOG = 4
  OpBlocks = 1
  MaxDepth = 1
  NULL = null
INVARIANT LogFits
PROPERTY SleepersWoken
