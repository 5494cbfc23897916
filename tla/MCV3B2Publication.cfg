SPECIFICATION PublicationSpec
CONSTANTS
  Tracks <- MCTracks
  Expected <- MCExpected
  Privates <- MCPrivates
  Strays <- MCStrays
  Other <- MCOther
  MaxFaults = 2
INVARIANTS
  PreparedIsPublished
  AcceptedStood
  AcceptedIsEarned
\* A bundle is read once.
CHECK_DEADLOCK FALSE
