SPECIFICATION Spec
CONSTANTS
  load = load
  latency = latency
  queue = queue
  throughput = throughput
  Node <- FourColumns
  Treatment = load
  Outcome = latency
  MaxWeight = 1
CHECK_DEADLOCK FALSE
INVARIANTS
  OrderedOnce
  KeptAcyclic
  DagUntouched
  HalfKept
  PathDecided
