CONSTANTS
    Bill = {b1}
    Client = {c1}
    LastDay = 2
    MaxPayments = 3
    Period <- MCPeriod
SPECIFICATION FairSpec
INVARIANTS
    TypeOK
    OnePaymentPerCycle
    PaidBillHasPayment
    ClosedCyclesWerePaid
PROPERTIES
    UnpayUndoesThisCycle
    PaidBillsRollOver
