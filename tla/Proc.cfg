SPECIFICATION Spec
CONSTANTS
  NPROC = 4
  CPUs = {c1, c2}
  NULL = null
  MaxPid = 4
  Lockers = {2, 3}
  KillPids = {0, 3}
SYMMETRY Symm
INVARIANT StackUnshared NoLostWakeup WaitersHaveWork ParentAlive MutualExclusion
\* panic() stops every CPU.
CHECK_DEADLOCK FALSE
