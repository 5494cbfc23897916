SPECIFICATION FairSpec
CONSTANTS
  NumTracks = 2
  MaxFaults = 2
PROPERTY
  AmbiguousIsRemoved
CHECK_DEADLOCK FALSE
