SPECIFICATION Spec
CONSTANTS
    Length = 6
    Calm = 3
    Load = {0, 5, 12}
    Alpha = 3
    Scale = 10
    High = 8
    Low = 3
    Grid = 20
    Columns <- MCColumns
    NodeOf <- MCNodeOf
    Degradable <- MCDegradable
    LatencyOf <- MCLatencyOf
    Edge <- MCEdge
    Front = {0, 4}
    Recent = {0, 3, 15, 999}
    Onset = {1, 2}
    Threshold = 3
    Severity <- MCSeverity
    TopN = 2
    Later <- MCLater
    NoData = NoData
    None = None
INVARIANTS
    ModeByCrossings
    FastLasts
    SevereFirst
    FirstApprovedWins
    RecoveredIsRelative
