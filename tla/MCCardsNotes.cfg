CONSTANTS
    Card = {card}
    Client = {c1}
    Limits = {20}
    Amounts = {10}
    CustomNote = {FALSE}
    CardNamed = {FALSE}
    MaxEntries = 2
SPECIFICATION Spec
CHECK_DEADLOCK FALSE
PROPERTIES
    NetWorthHitOnce
