CONSTANTS
    Bill = {}
    Commitment = {emi}
    Policy = {}
    Runner = {beat, cron}
    Window <- MCWindow
    MonthDays = 2
    FirstDay = 1
    LastDay = 2
    MaxRuns = 3
    MaxCrashes = 1
SPECIFICATION Spec
SYMMETRY Symmetry
CHECK_DEADLOCK FALSE
INVARIANTS
    TypeOK
    NoRepeatedReminder
    MailedIsMarked
    CompletedJobReminds
