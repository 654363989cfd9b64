SPECIFICATION Spec
CONSTANTS
  p1 = p1
  p2 = p2
  Procs = {p1, p2}
  InitProc = p1
  Inums = {1, 2, 3, 4, 5, 6}
  Blocks = {1, 2, 3, 4, 5, 6, 7, 8}
  NDIRENT = 8
  ImageFiles <- MCImageFiles
  NDIRECT = 1
  MAXFILE = 3
  NINODE = 5
  Files = {1, 2, 3}
  Fds = {0, 1}
  NULL = null
  Names <- MCNames
  SwapName <- MCSwapName
  Programs <- MCRace
  MemoryFor = {TRUE}
INVARIANT NoDeadlock
CHECK_DEADLOCK FALSE
