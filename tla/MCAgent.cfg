SPECIFICATION FairSpec
CONSTANTS
  a = a
  b = b
  None = None
  Neighbor <- TwoNeighbors
  Baseline = 1
  LoadValue <- Loads
  CapValue <- Caps
  FlowValue <- Flows
  LossValue <- Losses
  LatencyValue <- Latencies
  Duration <- Durations
  LoadStale = 1
  FlowStale = 1
  MaxCommands = 3
INVARIANTS
  LossReported
PROPERTIES
  EffectsAreLeases
  EverythingWearsOff
