SPECIFICATION FairSpec
CONSTANTS
    Callers = {p1}
    NoCaller = NoCaller
    MaxThreads = 3
    MaxChanges = 2
    JoinMayExpire = FALSE
    Patient = TRUE
    HostMayFail = TRUE
INVARIANTS
    WatchersInOrder
PROPERTIES
    NobodyHangs
    ChangesApplied
