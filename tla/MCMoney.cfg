CONSTANTS
    Client = {c1, c2}
    LedgerEntry = {e1}
    LedgerAmount = {10, 20}
    LastCash = 2
    Goal = {g1, g2}
    GoalTarget = {10, 25}
    Saving = {15}
    Loan = {l1}
    Opening <- MCOpening
    Prepayment = {1005}
    Rate <- MCRate
    Tenure = {3}
    LastMonth = 1
    Holding = {h1}
    Worth = {0, 70}
    MaxCommits = 2
    asha = asha
    bala = bala
    chitra = chitra
    Person = {asha, bala, chitra}
    MemberList <- MCMemberList
    GroupExpense = {x1, x2}
    GroupAmount = {25, 50}
    ClientSplits <- MCClientSplits
    Settled = {10}
    MaxSettlements = 1
SPECIFICATION MoneySpec
SYMMETRY Symmetry
CHECK_DEADLOCK FALSE
INVARIANTS
    MoneyTypeOK
    CashMirrorsEntries
    SavingsAddUp
    OneEmergencyFund
    LoanBalanceKept
    ScheduleRepays
    BalancesCancel
    EqualSharesFair
    SnapshotsAreReal
PROPERTIES
    MembersKeepDebts
