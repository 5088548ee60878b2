SPECIFICATION Spec
CONSTANTS
  load = load
  latency = latency
  queue = queue
  throughput = throughput
  Node <- ThreeColumns
  Treatment = load
  Outcome = latency
  MaxWeight = 2
CHECK_DEADLOCK FALSE
INVARIANTS
  StrongerDirectionKept
