SPECIFICATION Spec
CONSTANTS
  None = None
  FullConfidence = 1
  ConfidenceGate = 1
  SlowTicks = 2
  EarlyConfidence = 2
  Renderings <- Settled3
  MostWords = 3
  CanSettle = TRUE
  Steps <- MCSteps
  MaxAt = 7
PROPERTIES
  NoHoles
CHECK_DEADLOCK FALSE
