SPECIFICATION Spec
CONSTANTS
  Devs = {d1, d2}
  Structs = {s1, s2}
  Files = {f1}
  NMinors = 1
  UintMax = 1
  NULL = NULL
  Env <- EnvUsual
INVARIANT
  FailedProbeFrees
CHECK_DEADLOCK FALSE
