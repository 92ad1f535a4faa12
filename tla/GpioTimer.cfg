SPECIFICATION FairSpec
CONSTANTS
  Rate = 5
  HZ = 2
  PeriodSize = 2
  BufferSize = 3
  MusicLength = 4
  MusicTail = 1
  HalfBuffer = 2
  OtherHalf = 2
  UintSize = 21
  Cpus = 1
  MaxLate = 2
  MaxElapsed = 1
INVARIANTS
  TypeOK
  PositionExact
  NoPeriodLost
  ExpiresOnTime
  CopyStartsInMusic
PROPERTIES
  PeriodsReported
  ContractSpec
