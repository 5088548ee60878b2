SPECIFICATION FairSpec
CONSTANTS
  v1 = v1
  d1 = d1
  n1 = n1
  n2 = n2
  None = None
  Unnamed = Unnamed
  Verdict <- OneVerdict
  Direct <- OneDirect
  Node <- TwoNodes
  RecentMax = 1
  MaxRestarts = 2
  MaxVerifies = 2
CHECK_DEADLOCK FALSE
INVARIANTS
  ActsOnlyOnApproval
  AnswerTruth
  AnsweredIsVerifiable
  LogOrder
  RecentIsLogTail
PROPERTIES
  DiagnosisAnswered
  ActionsAreOneShot
