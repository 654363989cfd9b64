SPECIFICATION Spec
CONSTANTS
  Readers = {q1, q2}
  INPUT_BUF = 3
  UINT = 6
  Chars = {"a", "\n", "^D"}
  MaxRead = 2
  ROWS = 2
  COLS = 2
  NONE = none
  Sleepers = {q1, q2}
  WORD = 4
  SleepArgs <- MCSleepArgs
  HeapStart = 2
  HeapEnd = 14
  CORE = 4
  Units = {2, 3, 5}
  NULL = null
  Slots = {1, 2, 3, 4, 5, 6}
  Fds = {0, 1, 2, 3, 4}
  MAXARGS = 3
  Lines <- MCLines
INVARIANT ReadersAwake SleepsExactly HeapExact IoWired
PROPERTY LinesInOrder PromptReturns
CHECK_DEADLOCK FALSE
