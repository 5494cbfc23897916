SPECIFICATION SessionSpec
CONSTANTS
  Calls = {driver, other}
  Driver = driver
  Ids = {central}
  Request = central
  MaxRecords = 2
  MaxFaults = 2
  MaxBreaks = 2
INVARIANTS
  ReachedIsPermitted
  BeliefIsBacked
  JoinsTrue
PROPERTIES
  EndsInTime
CHECK_DEADLOCK FALSE
