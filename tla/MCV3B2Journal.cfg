SPECIFICATION Spec
CONSTANTS
  NumTracks = 2
INVARIANTS
  HistoryInOrder
  PlanLeadsOn
  PlanKeepsOrder
