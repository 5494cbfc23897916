SPECIFICATION FairLifecycleSpec
CONSTANTS
  NumTracks = 1
  Programs <- NominalAndRecover
  Contracts = {TRUE, FALSE}
  Orphans = FALSE
  MaxFaults = 1
PROPERTY
  QuiesceIsRepeated
