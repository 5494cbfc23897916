SPECIFICATION Spec
CONSTANTS
  Calls = {c1, c2, c3, c4}
  Ids = {i1, i2, i3}
  MaxRecords = 2
  MaxFaults = 3
SYMMETRY Symmetry
CHECK_DEADLOCK FALSE
INVARIANTS SoundUnlessInvalid AcknowledgedOnce
