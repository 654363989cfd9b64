SPECIFICATION Spec
CONSTANTS
  Procs = {init, p1, p2}
  initproc = init
  NPages = 2
  Frames = {f1,f2,f3,f4,f5,f6,f7}
  Vals = {z, x}
  Zero = z
  Junk = junk
  NULL = null
  MaxPid = 4
SYMMETRY Symm
CONSTRAINT Small
INVARIANT RefCountsExact FreeFramesUnheld WritableUnshared FreePagesNotUnder
PROPERTY PrivateSpec
\* After panic() no CPU takes a step.
CHECK_DEADLOCK FALSE
