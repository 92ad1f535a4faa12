SPECIFICATION DriverSpec
CONSTANTS
  d1 = d1  d2 = d2
  Devs = {d1}
  Structs = {s1}
  Files = {f1, f2}
  NMinors = 1
  UintMax = 3
  NULL = NULL
  Env <- EnvCopyFault
  ChipSelect <- Selects
  Msgs <- MsgsMixed
  BufLen = 5
INVARIANT
  BufferStable
