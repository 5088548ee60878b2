SPECIFICATION Spec
CONSTANTS
  load = load
  latency = latency
  Column <- TwoColumns
  Length = 7
  Limit = 2
SYMMETRY Symmetric
CHECK_DEADLOCK FALSE
INVARIANTS
  NothingInvented
  NoLookAhead
  RefusedForGaps
