\* One release; the target has another, this or none.
SPECIFICATION Spec
CONSTANTS
    r1 = r1
    r2 = r2
    r3 = r3
    v1 = v1
    v2 = v2
    Requests = {r1, r2}
    Slots = 2
    Versions = {v1, v2}
    Client <- SameRelease
    Old = Old
    Chunks = 2
    MaxReboots = 1
    None = None
INVARIANT ExactRelease
