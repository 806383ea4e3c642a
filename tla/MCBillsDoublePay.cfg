CONSTANTS
    Bill = {b1}
    Client = {c1, c2}
    LastDay = 1
    MaxPayments = 2
    Period <- MCPeriod
SPECIFICATION Spec
INVARIANTS
    OnePaymentPerCycle
