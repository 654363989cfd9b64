SPECIFICATION FairSpec
CONSTANTS
  NPROC = 3
  CPUs = {c1, c2}
  NULL = null
  MaxPid = 3
  Lockers = {}
  KillPids = {2}
PROPERTY KilledExit OrphansReaped
CHECK_DEADLOCK FALSE
