SPECIFICATION QueueFairSpec
CONSTANTS
  t1 = t1
  t2 = t2
  NULL = NULL
  Thieves = {t1, t2}
  InitialCapacity = 1
  MaxPush = 3
  MaxBatch = 2
INVARIANTS
  TypeOK
  NoThiefInWindow
  NoUseAfterFree
  TakenOnce
  LostOnlyByStalePop
PROPERTIES
  ThievesEnter
  PushReturns
CHECK_DEADLOCK FALSE
