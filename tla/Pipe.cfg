SPECIFICATION Spec
CONSTANTS
  Procs = {p1, p2, p3}
  creator = p1
  PIPESIZE = 2
  MODULUS = 4
  Bytes = {a, b, c}
  a = a
  b = b
  c = c
  Messages <- OneMessage
  ReadSizes = {1, 2}
  Killable = {p1}
  NULL = null
SYMMETRY Symm
VIEW View
INVARIANT RefsExact FreedUnused SleepersHaveReason
PROPERTY FifoSpec
\* Everybody may close the pipe and be done, or wait for the others.
CHECK_DEADLOCK FALSE
