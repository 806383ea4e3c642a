CONSTANTS
    Card = {card}
    Client = {c1, c2}
    Limits = {20}
    Amounts = {10, 15, 25}
    CustomNote = {TRUE}
    CardNamed = {FALSE}
    MaxEntries = 2
SPECIFICATION Spec
SYMMETRY Symmetry
CHECK_DEADLOCK FALSE
INVARIANTS
    TypeOK
    NeverOverpaid
    WithinLimit
    BooksAgree
PROPERTIES
    PayingBackIsNeutral
