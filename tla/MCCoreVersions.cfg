\* Three commands; the release in the middle is a prerelease.
SPECIFICATION Spec
CONSTANTS
    c1 = c1
    c2 = c2
    c3 = c3
    NumReleases = 3
    Prereleases = {2}
    NameRank <- TagOrder
    TagLength <- TagBytes
    Commands = {c1, c2, c3}
    Inodes = {1, 2, 3, 4}
    OneWriter = TRUE
    MaxCrashes = 1
SYMMETRY CommandSymmetry
INVARIANTS
    TypeOK
    DefaultIsInstalled
    RightVersion
    UsingIsCurrent
