SPECIFICATION ServingSpec
CONSTANTS
  c1 = c1
  c2 = c2
  c3 = c3
  Clients <- MCClients
  Limit = 2
  MaxBurst = 2
  MaxSaid <- MCMaxSaid
  Pinned = TRUE
INVARIANTS
  SlotsAreCounted
  FramesFollowTheLog
  ModelIsWhole
PROPERTIES
  SlotsComeBack
  KeepsTheCap
CHECK_DEADLOCK FALSE
