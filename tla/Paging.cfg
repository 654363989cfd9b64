SPECIFICATION Spec
CONSTANTS
  MAX_PSYC_PAGES = 3
  MAX_TOTAL_PAGES = 6
  Policies = {"SCFIFO", "NFUA", "LAPA", "AQ"}
  AGEBITS = 2
  NPages = 5
  ImagePages = 1
  MaxExecs = 1
  Programs = {{}}
  LeftoverVas = {0}
VIEW View
INVARIANT    VictimFound 
