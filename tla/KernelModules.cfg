SPECIFICATION FairSpec
CONSTANTS
  Drivers <- DriversAll
  Files = {f1, f2}
  Faults <- FaultsAll
  UnbindInUse <- SafeUnbind
  Modes <- ModesAll
  UintSize <- UintSizeTLC
  PageSize = 4096
INVARIANTS
  ModulesTypeOK
  HandlesValid
  NothingKept
  ScreenInMemory
  ModeAcceptable
PROPERTY
  ExitEnds
