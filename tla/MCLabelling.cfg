SPECIFICATION Spec
CONSTANTS
  None = None
  Stranger = Stranger
  Letters = 2
  MaxSpeakers = 3
  MaxGap = 1
  SegmentMemory = 4
  Segments <- MCSegments
  Spoken <- MCSpoken
INVARIANTS
  NobodyIsAbsorbed
  MemoryIsBounded
  ForgettingIsInvisible
PROPERTY
  SameVoiceStaysSame
CHECK_DEADLOCK FALSE
