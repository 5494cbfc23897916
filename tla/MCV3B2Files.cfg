SPECIFICATION Spec
CONSTANTS
  Absent = Absent
  Torn = Torn
  Whole = Whole
  Controllers = {c1, c2}
  MaxFaults = 3
SYMMETRY Symmetry
\* A preparation that died is never resumed.
CHECK_DEADLOCK FALSE
INVARIANTS
  MutationIsRecorded
  TerminalHasItsProof
  ProofsReplay
  PublishedIsDurable
PROPERTIES
  SetupSentOnce
  KeepsTheLog
