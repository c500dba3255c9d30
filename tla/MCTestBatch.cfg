\* Three configurations, one of them refused by Xray, two workers.
SPECIFICATION Spec
CONSTANTS
    NumSpecs = 3
    Concurrency = 2
    Ports = {p1, p2}
    BadConfigs = {2}
    TakenBound = 1
    Scores = {0, 80}
    p1 = p1
    p2 = p2
SYMMETRY PortSymmetry
INVARIANTS
    TypeOK
    NothingLeftBehind
    MeasuredThroughOwnCore
    ProcessesBounded
    ReportAccounts
    RankedByQuality
PROPERTY ImplementsContract
