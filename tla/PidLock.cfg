SPECIFICATION Spec
CONSTANTS
    Procs = {p1, p2, p3, p4}
    NoFile = NoFile
    Empty = Empty
    MayForce = FALSE
    Staggered = TRUE
INVARIANTS
    MutualExclusion
    HolderIsNamed
PROPERTIES
    RefusalJustified
    ImplementsLock
CHECK_DEADLOCK FALSE
