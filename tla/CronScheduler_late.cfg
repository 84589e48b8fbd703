\* register() may follow start().
SPECIFICATION FairSpec
CONSTANTS
    Callers = {p1, p2}
    Names = {a}
    NoCaller = NoCaller
    NoName = NoName
    MaxCoroutines = 3
    MaxRegs = 1
    MaxStarts = 1
    LateRegister = TRUE
    BudgetMayExpire = FALSE
PROPERTIES
    CallsReturn
CHECK_DEADLOCK FALSE
