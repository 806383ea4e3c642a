CONSTANTS
    Commitment = {emi}
    Policy = {policy}
    Client = {c1, c2}
    Month = {july, august}
    LastId = 3
SPECIFICATION Spec
SYMMETRY Symmetry
CHECK_DEADLOCK FALSE
INVARIANTS
    TypeOK
    OnePayment
PROPERTIES
    ToggleFlips
    IsRegister
