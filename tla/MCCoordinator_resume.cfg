SPECIFICATION Spec
CONSTANTS
  None = None
  Stranger = Stranger
  Letters = 2
  MaxSpeakers = 2
  MaxGap = 1
  SegmentMemory = 10
  Solo = TRUE
  HasPolish = TRUE
  Renderings <- Pausing
  MostWords = 2
  SilenceTicks = 1
  MaxSilenceTicks = 3
  Threshold = 1
  FullScore = 1
  TurnInterval = 1
  OneSecond = 2
  HasTurn = TRUE
  FullConfidence = 0
  ConfidenceGate = 0
  SlowTicks = 1
  EarlyConfidence = 1
  HasVad = TRUE
  CanLag = FALSE
  Segments <- NoSegments
  Steps <- MCSteps
  MaxAt = 6
PROPERTY
  NothingSettledMidWord
CHECK_DEADLOCK FALSE
