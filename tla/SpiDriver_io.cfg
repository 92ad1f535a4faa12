SPECIFICATION DriverSpec
CONSTANTS
  d1 = d1  d2 = d2
  Devs = {d1}
  Structs = {s1, s2}
  Files = {f1, f2}
  NMinors = 1
  UintMax = 3
  NULL = NULL
  Env <- EnvRemoval
  ChipSelect <- Selects
  Msgs <- MsgsMixed
  BufLen = 5
SYMMETRY Symmetry
INVARIANTS
  DriverTypeOK
  BufferStable
  LocksHeld
  QuietReply
\* a write that met a removed device hangs for good
CHECK_DEADLOCK FALSE
