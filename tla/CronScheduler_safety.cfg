\* Registrations may overlap and follow start; callbacks may outlast shutdown.
SPECIFICATION Spec
CONSTANTS
    Callers = {p1, p2}
    Names = {a, b}
    NoCaller = NoCaller
    NoName = NoName
    MaxCoroutines = 3
    MaxRegs = 2
    MaxStarts = 2
    LateRegister = TRUE
    BudgetMayExpire = TRUE
SYMMETRY Symmetry
INVARIANTS
    NoOverlappingCallbacks
    AtMostOneStrayCallback
    RegisteredTaskRuns
CHECK_DEADLOCK FALSE
