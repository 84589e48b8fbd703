SPECIFICATION Spec
CONSTANTS
    Procs = {p1, p2}
    NoFile = NoFile
    Empty = Empty
    MayForce = FALSE
    Staggered = FALSE
INVARIANTS
    MutualExclusion
CHECK_DEADLOCK FALSE
