SPECIFICATION FairSpec
CONSTANTS
  w1 = w1
  w2 = w2
  Worker <- TwoWorkers
  MaxStored = 2
  MaxId = 3
CHECK_DEADLOCK FALSE
INVARIANTS
  OrderIsNewest
  StoreMatchesOrder
  SizeBounded
  NewestRetained
  AnswerWhole
PROPERTY
  RefinementSettles
