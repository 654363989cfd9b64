SPECIFICATION Spec
CONSTANTS
  Procs = {p1, p2}
  b1 = b1
  b2 = b2
  Bufs = {b1, b2}
  Blocks = {1, 2, 3}
  Vals = {x, y}
  Blank = x
  Errors = {FALSE}
  NULL = null
  MRU <- MCMRU
  Nest <- MCNest
  MaxPinned = 1
  Changed = {1, 2}
INVARIANT PanicOnlyWhenFull
PROPERTY StoreSpec TransfersFinish
CHECK_DEADLOCK FALSE
