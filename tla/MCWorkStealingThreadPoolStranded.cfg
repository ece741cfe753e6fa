SPECIFICATION Spec
CONSTANTS
  p1 = p1
  p2 = p2
  d = d
  c1 = c1
  t1 = t1
  t2 = t2
  t3 = t3
  t4 = t4
  NULL = NULL
  Producers = {p1}
  num_threads = 1
  Closers = {d}
  Destroyer = d
  Tasks = {t1}
  Capacity = 2
  kLocalBatchSize = 2
  Policies = {"BLOCK"}
  Kinds = {"submit"}
INVARIANTS
  NotStranded
