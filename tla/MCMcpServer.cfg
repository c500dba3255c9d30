\* Three calls for two slots, one core to install, and time.
SPECIFICATION FairSpec
CONSTANTS
    r1 = r1
    r2 = r2
    r3 = r3
    Requests = {r1, r2, r3}
    MaxConcurrent = 2
    Timeout = 2
    MaxHold = 1
    HasRemote = TRUE
    None = None
INVARIANTS
    TypeOK
    TestsBounded
    SlotsReturned
    LatenessBounded
PROPERTY AllAnswered
