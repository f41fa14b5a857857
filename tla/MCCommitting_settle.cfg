SPECIFICATION Spec
CONSTANTS
  None = None
  FullConfidence = 1
  ConfidenceGate = 0
  SlowTicks = 2
  EarlyConfidence = 1
  Renderings <- Revised
  MostWords = 3
  CanSettle = TRUE
  Steps <- MCSteps
  MaxAt = 4
INVARIANTS
  TypeOK
  NothingRaised
  NothingLost
PROPERTIES
  NoHoles
CHECK_DEADLOCK FALSE
