SPECIFICATION Spec
CONSTANTS
  MAX_PSYC_PAGES = 3
  MAX_TOTAL_PAGES = 6
  Policies = {"SCFIFO"}
  AGEBITS = 1
  NPages = 4
  ImagePages = 1
  MaxExecs = 1
  Programs = {{"shrink"}, {"fork"}, {"stray", "run out"}}
  LeftoverVas = {0,3}
VIEW View
INVARIANT ForkKeepsContents VictimFound
CHECK_DEADLOCK FALSE
