SPECIFICATION Spec
CONSTANTS
  Devs = {d1}
  Structs = {s1}
  Files = {f1}
  NMinors = 1
  UintMax = 1
  NULL = NULL
  Env <- EnvWindow
INVARIANT
  NoDangling
CHECK_DEADLOCK FALSE
