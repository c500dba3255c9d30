\* Liveness of a batch under the fairness of the Go runtime; all tests are
\* given one port, Xray may hang in its validation.
SPECIFICATION FairSpec
CONSTANTS
    NumSpecs = 3
    Concurrency = 2
    Ports = {p1}
    p1 = p1
    BadConfigs = {2}
    TakenBound = 0
    Scores = {}
PROPERTIES
    CancelledBatchReturns
    BatchReturns
