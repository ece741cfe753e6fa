SPECIFICATION MCSpec
SYMMETRY ThreadSymmetry
CONSTANTS
  p1 = p1
  p2 = p2
  c1 = c1
  c2 = c2
  s1 = s1
  s2 = s2
  w1 = w1
  w2 = w2
  a = a
  b = b
  NULL = NULL
  Producers = {p1, p2}
  Consumers = {c1, c2}
  Items = {1, 2, 3, 4}
  Values = {a, b}
  Capacity = 2
  WordBits = 4
  Requests = {0, 2, 3, 9}
  MaxSpscBatch = 3
  InitialCapacities = {0, 1, 2}
  DefaultGrow = 2
  MaxTasks = 4
  Setters = {s1, s2}
  PipeWorkers = {w1, w2}
  producers = 2
  per = 2
  QueueSize = 2
  SinkCapacity = 3
INVARIANTS
  CellExclusive
  RoundsUp
  Consistent
  SlotExclusive
  OneHolder
  SubmitSeesALiveSink
  ReportedOnce
  ResultAddsUp
PROPERTIES
  ImplementsFifo
  RingImplementsFifo
  SpscImplementsFifo
