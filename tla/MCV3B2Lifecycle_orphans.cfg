SPECIFICATION LifecycleSpec
CONSTANTS
  NumTracks = 3
  Programs <- EveryProgram
  Contracts = {TRUE, FALSE}
  Orphans = TRUE
  MaxFaults = 3
INVARIANTS
  ClaimedBeforeSent
  DestructionInOrder
  PublishedIsSound
PROPERTY
  NoForwardAct
