----------------------------- MODULE MCReminders -----------------------------
EXTENDS Reminders, TLC

\* A reminder the day before and on the due day: the shortest window in which one
\* day's key could block the next day's reminder.
MCWindow == [i \in Item |-> 1]

Symmetry == Permutations(Runner)
=============================================================================
