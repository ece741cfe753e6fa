SPECIFICATION QueueSpec
CONSTANTS
  t1 = t1
  t2 = t2
  NULL = NULL
  Thieves = {t1}
  InitialCapacity = 2
  MaxPush = 3
  MaxBatch = 1
INVARIANTS
  NothingLost
CHECK_DEADLOCK FALSE
