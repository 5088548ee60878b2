SPECIFICATION ClusterSpec
CONSTANTS
    a = a
    b = b
    Node = {a, b}
    Link <- MCLink
    Process = {p, q}
    Fault <- MCFault
    None = None
    AliveWindow = 2
    Never = Never
    Followed = {a}
INVARIANTS
    TruthAccounts
    PassEarned
PROPERTIES
    ScriptEnds
    KillNoticed
    RunningSeen
