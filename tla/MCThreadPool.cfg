SPECIFICATION Spec
CONSTANTS
  c1 = c1
  d = d
  p1 = p1
  p2 = p2
  t1 = t1
  t2 = t2
  t3 = t3
  w1 = w1
  w2 = w2
  NULL = NULL
  Producers = {p1, p2}
  Workers = {w1, w2}
  Closers = {d, c1}
  Destroyer = d
  Tasks = {t1, t2, t3}
  Capacity = 1
  Policies <- AllPolicies
  LateSubmits = TRUE
SYMMETRY Symmetry
INVARIANTS
  TypeOK
  Accounting
  NoLostWakeup
  DrainedOnJoin
  DestroyedQuiescent
  FuturesResolved
PROPERTIES
  LateSubmitThrows
  ImplementsService
