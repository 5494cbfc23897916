SPECIFICATION EvidenceSpec
CONSTANTS
  NumTracks = 2
  Denied <- MCDenied
  MaxFaults = 2
  MaxChunks = 2
INVARIANTS
  FrozenIsSource
  EveryRetryReads
  CompleteIsNominal
  AttestedIsAccepted
CHECK_DEADLOCK FALSE
