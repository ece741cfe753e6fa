SPECIFICATION FairSpec
CONSTANTS
  t1 = t1
  t2 = t2
  NULL = NULL
  Thieves = {t1, t2}
  Capacity = 2
  MaxPush = 4
  Depths = {0, 2}
INVARIANTS
  TakenOnce
  LostOnlyByRace
  RaceNeedsReordering
  SizeAtRest
PROPERTIES
  PushReturns
CHECK_DEADLOCK FALSE
