SPECIFICATION Spec
\* A command ends; the gateways are asked MaxCalls times.
CHECK_DEADLOCK FALSE
CONSTANTS
  e1 = e1
  e2 = e2
  e3 = e3
  alice = alice
  bob = bob
  admin = admin
  lab = lab
  gone = gone
  used = used
  Names <- MCNames
  Amounts <- MCAmounts
  Rates <- MCRates
  Times <- MCTimes
  Divergences = {0, 1, 2, 3}
  InBand = {0, 1}
  Computed <- MCComputed
  DecayRaises <- MCDecayRaises
  Penalty <- MCPenalty
  LossRaises = {3}
  Slip = 1
  MaxValidity = 10
  Ids <- MCIds
  Bodies <- MCBodies
  Fixtures <- MCFixtures
  Keys = {lab}
  Revoked = {gone}
  MaxCalls = 3
  Writers = {"p", "q"}
  Artifacts = {"scenario", "decisions"}
  MaxPublished = 1
INVARIANTS
  SuccessIsConnected
  LocalWithinSigned
  ProofIsHistory
  BundleIsWhole
