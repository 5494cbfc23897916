SPECIFICATION FairSpec
CONSTANTS
  NumTracks = 3
  MaxFaults = 2
INVARIANTS
  SentIsRecorded
  AuthorityIsTrue
  CompleteIsTrue
PROPERTIES
  StartedAndToldOnce
  PromisesKept
  DownEnds
CHECK_DEADLOCK FALSE
