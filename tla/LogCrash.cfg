SPECIFICATION Spec
CONSTANTS
  Procs = {p1, p2}
  Blocks = {b1, b2, b3}
  Vals = {x, y}
  Blank = x
  LOGSIZE = 4
  MAXOPBLOCKS = 2
  NLOG = 5
  OpBlocks = 2
  MaxDepth = 1
  NULL = null
SYMMETRY Symm
INVARIANT QuiescentInstalled
PROPERTY AtomicSpec
