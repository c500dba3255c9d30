\* Two programs share the cache; each has its own ensureMu.
SPECIFICATION Spec
CONSTANTS
    a = a
    b = b
    p = p
    q = q
    Callers = {a, b}
    Processes = {p, q}
    ProcessOf <- InTwoPrograms
    NumChunks = 2
    Inodes = {1, 2, 3}
    Bodies = {"good"}
    HasDigest = TRUE
    XrayFirst = FALSE
    MaxCrashes = 0
INVARIANT ReadyIsIntact
