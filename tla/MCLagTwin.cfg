SPECIFICATION TwinSpec
CONSTANTS
  None = None
  Stranger = Stranger
  Letters = 2
  MaxSpeakers = 2
  MaxGap = 1
  SegmentMemory = 10
  Solo = TRUE
  HasPolish = TRUE
  Renderings <- Pausing
  MostWords = 2
  SilenceTicks = 1
  MaxSilenceTicks = 2
  Threshold = 1
  FullScore = 1
  TurnInterval = 1
  OneSecond = 2
  HasTurn = TRUE
  FullConfidence = 0
  ConfidenceGate = 0
  SlowTicks = 1
  EarlyConfidence = 0
  HasVad = TRUE
  CanLag = TRUE
  Segments <- NoSegments
  Steps <- UnitStep
  MaxAt = 4
INVARIANTS
  NothingRaised
  SameContent
  LagChangesNothing
CHECK_DEADLOCK FALSE
