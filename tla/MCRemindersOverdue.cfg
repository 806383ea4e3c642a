CONSTANTS
    Bill = {bill}
    Commitment = {}
    Policy = {}
    Runner = {beat}
    Window <- MCWindow
    MonthDays = 2
    FirstDay = 0
    LastDay = 1
    MaxRuns = 3
    MaxCrashes = 1
SPECIFICATION Spec
CHECK_DEADLOCK FALSE
INVARIANTS
    OverdueIsReminded
