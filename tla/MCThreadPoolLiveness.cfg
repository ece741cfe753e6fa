SPECIFICATION FairSpec
CONSTANTS
  c1 = c1
  d = d
  p1 = p1
  p2 = p2
  t1 = t1
  t2 = t2
  t3 = t3
  w1 = w1
  w2 = w2
  NULL = NULL
  Producers = {p1, p2}
  Workers = {w1}
  Closers = {d}
  Destroyer = d
  Tasks = {t1, t2}
  Capacity = 1
  Policies <- AllPolicies
  LateSubmits = FALSE
PROPERTIES
  AcceptedRuns
  CallsReturn
  ShutdownReturns
