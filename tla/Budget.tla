-------------------------------- MODULE Budget --------------------------------
(***************************************************************************)
(* The monthly budget (api/v1/budget): one row per user, which a PUT       *)
(* creates or replaces, and what the months' summaries make of it.  How    *)
(* many days the month has left is left out.                               *)
(***************************************************************************)
EXTENDS Requests

CONSTANTS
    Limit,      \* monthly amounts a request may name, in tenths of a paisa; 0 is no budget
    AlertPct    \* percentages remaining at which the alert is raised

ASSUME BudgetAssumption == Limit \subseteq Nat /\ AlertPct \subseteq 5 .. 60

VARIABLES
    budget,     \* table budget_settings: the user's row
    budgetReq,  \* client -> its PUT in flight
    answered    \* history: what the latest response told, and whether its PUT was alone

budgetVars == <<budget, budgetReq, answered>>

BudgetRow == [limit : Nat, alertPct : AlertPct]
NoRow == [limit |-> 0, alertPct |-> 20]     \* what get_settings answers without a row

\* What the columns keep of a row.
StoredBudget(row) == [row EXCEPT !.limit = Stored(@)]

BudgetPut == [op : {"put"}, exists : BOOLEAN, loaded : BudgetRow \union {NoRow}, computed : BudgetRow, alone : BOOLEAN]

BudgetTypeOK ==
    /\ budget \in [exists : BOOLEAN, row : BudgetRow \union {NoRow}]
    /\ budgetReq \in [Client -> {NoRequest} \union BudgetPut]
    /\ answered \in [row : BudgetRow \union {NoRow}, alone : BOOLEAN]

\* A user that never chose a budget, or that has one.
BudgetInit ==
    /\ \/ budget = [exists |-> FALSE, row |-> NoRow]
       \/ \E limit \in Limit, pct \in AlertPct :
            budget = [exists |-> TRUE, row |-> StoredBudget([limit |-> limit, alertPct |-> pct])]
    /\ budgetReq = [c \in Client |-> NoRequest]
    /\ answered = [row |-> budget.row, alone |-> TRUE]

-----------------------------------------------------------------------------
\* History: the PUTs of the others are not alone any more.
Joined(c) == [d \in Client |-> IF d # c /\ budgetReq[d] # NoRequest
                                 THEN [budgetReq[d] EXCEPT !.alone = FALSE]
                                 ELSE budgetReq[d]]

\* update_settings: upsert looks for the row.
LoadBudget(c, row) ==
    /\ budgetReq[c] = NoRequest
    /\ budgetReq' = [Joined(c) EXCEPT ![c] =
         [op |-> "put", exists |-> budget.exists, loaded |-> budget.row, computed |-> row,
          alone |-> \A d \in Client : budgetReq[d] = NoRequest]]
    /\ UNCHANGED <<budget, answered>>

\* Mutation of ReplacedRow: the percentage of a row that is there is forgotten.
ReplacedRow_LimitOnly(r) == StoredBudget([budget.row EXCEPT !.limit = r.computed.limit])

\* The row that was there, after the UPDATE of the columns that changed.
ReplacedRow(r) == StoredBudget(Flush(budget.row, r.loaded, r.computed))

\* A row that was not there is inserted: user_id is unique, so it must not be there by now.
\* The response tells the session's object, which has the amount as the request named it.
CommitBudget(c) ==
    LET r == budgetReq[c] IN
    /\ r.op = "put"
    /\ r.exists \/ ~budget.exists
    /\ budget' = [exists |-> TRUE, row |-> IF r.exists THEN ReplacedRow(r) ELSE StoredBudget(r.computed)]
    /\ answered' = [row |-> r.computed, alone |-> r.alone]
    /\ budgetReq' = [budgetReq EXCEPT ![c] = NoRequest]

RollBackBudget(c) ==
    /\ budgetReq[c] # NoRequest
    /\ budgetReq' = [budgetReq EXCEPT ![c] = NoRequest]
    /\ UNCHANGED <<budget, answered>>

BudgetNext ==
    \E c \in Client :
        \/ \E limit \in Limit, pct \in AlertPct : LoadBudget(c, [limit |-> limit, alertPct |-> pct])
        \/ CommitBudget(c)
        \/ RollBackBudget(c)

BudgetSpec == BudgetInit /\ [][BudgetNext]_budgetVars

-----------------------------------------------------------------------------
(* What get_summary tells of a month in which `spent` was spent.           *)

Remaining(spent) == budget.row.limit - spent
OverBy(spent) == Max({spent - budget.row.limit, 0})

AlertTriggered(spent) ==
    \/ budget.row.limit > 0 /\ 100 * Remaining(spent) <= budget.row.limit * budget.row.alertPct
    \/ Remaining(spent) < 0

-----------------------------------------------------------------------------
(* Properties.                                                             *)

\* The row is the one the latest response told, in whole paise (the response may have told
\* parts of one), unless that PUT overlapped with another: then one of two first PUTs fails,
\* and of two later ones each may leave a column.
BudgetAsAnswered == answered.alone => budget.row = StoredBudget(answered.row)
=============================================================================
