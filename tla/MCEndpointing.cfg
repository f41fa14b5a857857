SPECIFICATION Spec
CONSTANTS
  None = None
  SilenceTicks = 2
  MaxSilenceTicks = 4
  Threshold = 2
  FullScore = 2
  TurnInterval = 2
  OneSecond = 5
  HasTurn = TRUE
  Steps <- MCSteps
  MaxAt = 10
INVARIANTS
  TypeOK
  BoundedSilence
  EndpointClosesAPause
  FreshScore
PROPERTY
  PromiseKept
CHECK_DEADLOCK FALSE
