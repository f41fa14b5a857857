SPECIFICATION Spec
CONSTANTS
  None = None
  Stranger = Stranger
  Letters = 2
  MaxSpeakers = 2
  MaxGap = 1
  SegmentMemory = 10
  Solo = FALSE
  HasPolish = TRUE
  Renderings <- Voices2
  MostWords = 2
  SilenceTicks = 1
  MaxSilenceTicks = 1
  Threshold = 0
  FullScore = 0
  TurnInterval = 1
  OneSecond = 2
  HasTurn = FALSE
  FullConfidence = 0
  ConfidenceGate = 0
  SlowTicks = 1
  EarlyConfidence = 0
  HasVad = TRUE
  CanLag = FALSE
  Segments <- TwoSegments
  Steps <- UnitStep
  MaxAt = 4
INVARIANTS
  TurnsAreOneVoice
  NullsAreAbandoned
PROPERTIES
  NeverContradicted
CHECK_DEADLOCK FALSE
