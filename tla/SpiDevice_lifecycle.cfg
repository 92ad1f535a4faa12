SPECIFICATION Spec
CONSTANTS
  Devs = {d1, d2, d3}
  Structs = {s1, s2, s3, s4}
  Files = {f1, f2}
  NMinors = 2
  UintMax = 2
  NULL = NULL
  Env <- EnvUsual
SYMMETRY Symmetry
INVARIANTS
  IInv
  NoDangling
  MinorsExact
  UnloadClean
\* an exhausted minor space leaves device_list_lock locked for ever
PROPERTY RefcountSpec
CHECK_DEADLOCK FALSE
