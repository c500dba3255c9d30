\* Two setups, of which any is killed anywhere, and others that save: in turns, or
\* at any time.
SPECIFICATION Spec
CONSTANTS
    s1 = s1
    s2 = s2
    github = github
    theme = theme
    Setups = {s1, s2}
    Others = {github}
    Settings = {theme}
    None = None
    MaxSaves = 2
    MaxCrashes = 1
INVARIANTS
    TypeOK
    NoSilentLoss
PROPERTIES
    ImplementsMerge
