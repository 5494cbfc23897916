SPECIFICATION FairLifecycleSpec
CONSTANTS
  NumTracks = 2
  Programs <- EveryProgram
  Contracts = {TRUE, FALSE}
  Orphans = FALSE
  MaxFaults = 3
INVARIANTS
  FreezeIsFinal
  RecordedIsTrue
PROPERTIES
  RecoveryEnds
  KeepsItsPromises
