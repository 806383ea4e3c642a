------------------------------- MODULE MCBills -------------------------------
EXTENDS Bills, TLC

\* A bill falls due every day of the model's calendar: the shortest period in which
\* a paid bill rolls over and can be paid again before the calendar stops.
MCPeriod == [b \in Bill |-> 1]

Symmetry == Permutations(Client)
=============================================================================
