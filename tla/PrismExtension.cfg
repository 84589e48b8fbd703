SPECIFICATION Spec
CONSTANTS
    Mains = {m}
    Watchers = {w}
    NumFiles = 2
    Appends = {2}
    Templated = {1}
    MaxVersion = 2
    BadVersions = {2}
    MaxRules = 5
    Overlap = FALSE
    HostMayFail = TRUE
    NoSeq = NoSeq
INVARIANTS
    RememberedExact
PROPERTIES
    InsertionsLand
