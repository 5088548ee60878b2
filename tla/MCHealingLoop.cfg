SPECIFICATION FairSpec
CONSTANTS
  Interval = 4
  Cooldown = 8
  Settle = 6
  Averaged = 4
  CallTimeout = 4
  Duration = 12
  Delay = 1
  MaxCycles = 3
CHECK_DEADLOCK FALSE
INVARIANTS
  MeasuredUnderCap
  OneCycleAtATime
PROPERTIES
  OneCapAtATime
  CycleEnds
  ActionsAreOneShot
