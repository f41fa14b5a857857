SPECIFICATION AdaptersSpec
CONSTANTS
  None = None
  Window = 4
  MinRegion = 3
  MinSilence = 2
  MaxRegion = 11
  Steps = {1, 3, 9}
  MaxAt = 13
  TokenTail = 2
  Padding = 1
  MaxNew = 2
  MaxPieces = 4
  SherpaSteps = {1, 3}
  SherpaMaxAt = 5
  SpokenFrom <- MCFrom
  SpokenTo <- MCTo
  Jitter = 1
  Interval = 2
  Context = 1
  MaxBuffer = 5
  WhisperSteps = {1, 2}
  WhisperMaxAt = 10
  VadWindow = 2
  VadSteps = {1, 2, 5}
  VadMaxAt = 10
INVARIANTS
  EndsWithinTheAudio
  SegmentsAreDisjoint
  BufferIsTheTail
  SpeechIsAccountedFor
  NoSegmentSpansAPause
  EveryPieceIsSaid
  EachWordOnce
  DecisionsAreTheAudios
PROPERTIES
  KeepsContract
  StartsAreFinal
CHECK_DEADLOCK FALSE
