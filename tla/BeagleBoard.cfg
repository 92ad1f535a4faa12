SPECIFICATION Spec
CONSTANTS
  Kconfigs <- KconfigsTwo
  Foreign <- ForeignSets
  Names <- NamesAll
INVARIANTS
  BoardTypeOK
  SpiDevicesWired
  OnlySpiTakesPads
  MmcConsistent
  DevicesUnique
\* the boot ends
CHECK_DEADLOCK FALSE
