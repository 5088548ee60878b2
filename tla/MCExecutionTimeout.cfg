SPECIFICATION Spec
CONSTANTS
  v1 = v1
  d1 = d1
  n1 = n1
  n2 = n2
  None = None
  Unnamed = Unnamed
  Verdict <- OneVerdict
  Direct <- OneDirect
  Node <- OneNode
  RecentMax = 1
  MaxRestarts = 0
  MaxVerifies = 0
CHECK_DEADLOCK FALSE
INVARIANT
  FailedMeansNotExecuted
