\* Two callers of one program that may crash, under the scheduler's fairness; the
\* digest comes from the ".dgst" asset, data files precede the binary in the archive.
SPECIFICATION FairSpec
CONSTANTS
    a = a
    b = b
    p = p
    q = q
    Callers = {a, b}
    Processes = {p}
    ProcessOf <- InOneProgram
    NumChunks = 2
    Inodes = {1, 2}
    Bodies = {"good", "bad"}
    HasDigest = FALSE
    XrayFirst = FALSE
    MaxCrashes = 1
INVARIANTS
    TypeOK
    ExecutableIsIntact
    ExecutableHasData
PROPERTIES
    OfferedStays
    ImplementsCache
    CallReturns
