CONSTANTS
    Commitment = {emi}
    Policy = {policy}
    Client = {c1}
    Month = {july, august}
    LastId = 3
SPECIFICATION Spec
CHECK_DEADLOCK FALSE
INVARIANT LookupAnswers
