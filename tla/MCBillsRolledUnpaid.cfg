CONSTANTS
    Bill = {b1}
    Client = {c1}
    LastDay = 1
    MaxPayments = 1
    Period <- MCPeriod
SPECIFICATION FairSpec
PROPERTIES
    RollsPaidBills
