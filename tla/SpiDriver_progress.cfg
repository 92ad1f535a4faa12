SPECIFICATION FairDriverSpec
CONSTANTS
  d1 = d1  d2 = d2
  Devs = {d1}
  Structs = {s1}
  Files = {f1, f2}
  NMinors = 1
  UintMax = 3
  NULL = NULL
  Env <- EnvShared
  ChipSelect <- Selects
  Msgs <- MsgsTwo
  BufLen = 5
PROPERTIES
  WriteCompletes
  ExitCompletes
INVARIANTS
  ReadLockExclusive
  SyncBound
