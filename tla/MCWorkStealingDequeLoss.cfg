SPECIFICATION Spec
CONSTANTS
  t1 = t1
  t2 = t2
  NULL = NULL
  Thieves = {t1}
  Capacity = 2
  MaxPush = 3
  Depths = {1}
INVARIANTS
  NothingLost
CHECK_DEADLOCK FALSE
