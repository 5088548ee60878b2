SPECIFICATION ClusterSpec
CONSTANTS
    a = a
    b = b
    Node = {a, b}
    Link <- MCLink
    Process = {p, q}
    Fault <- MCEitherName
    None = None
    AliveWindow = 3
    Never = Never
    Followed = {a}
INVARIANT
    EitherNameWorks
