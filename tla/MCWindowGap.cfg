SPECIFICATION Spec
CONSTANTS
  load = load
  latency = latency
  Column <- OneColumn
  Length = 7
  Limit = 2
CHECK_DEADLOCK FALSE
INVARIANTS
  WideGapRefused
