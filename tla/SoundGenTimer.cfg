SPECIFICATION FairSpec
CONSTANTS
  PeriodSize = 2
  BufferSize = 4
  MaxLate = 3
INVARIANTS
  IInv
  OnPeriodGrid
PROPERTIES
  CallsReturn
  TimerRunsDown
  ContractSpec
