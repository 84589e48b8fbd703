\* Registration only while stopped; callbacks return within the budget.
SPECIFICATION FairSpec
CONSTANTS
    Callers = {p1, p2}
    Names = {a}
    NoCaller = NoCaller
    NoName = NoName
    MaxCoroutines = 3
    MaxRegs = 2
    MaxStarts = 2
    LateRegister = FALSE
    BudgetMayExpire = FALSE
PROPERTIES
    NothingHangs
    KeepsFiring
CHECK_DEADLOCK FALSE
