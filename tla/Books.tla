-------------------------------- MODULE Books --------------------------------
(***************************************************************************)
(* The user's transactions (api/v1/transactions, and those that cards and  *)
(* the scanner record) and the views that add them up: the month's and the *)
(* all-time totals, the breakdown by category, the calendar, the budget's  *)
(* alert and the health score.  Each view has queries of its own.          *)
(*                                                                         *)
(* A PATCH checks its category against the transaction's type, which no    *)
(* request changes, and writes what it was asked to: nothing depends on a  *)
(* row read earlier, so every request here is one step.                    *)
(***************************************************************************)
EXTENDS Budget, Sequences

CONSTANTS
    Category,           \* the taxonomy, seeded by a migration and never changed
    IncomeCategory,     \* the categories of kind income
    BookAmount,         \* amounts a request may name, as the column keeps them
    MonthLength,        \* the months there are, as their numbers of days
    BookDate,           \* dates a request may name: days since the first month began
    Plan,               \* what goals, investments and loans add to the health score
    MaxRows             \* bound: transactions ever recorded

ASSUME BookAssumption ==
    /\ IncomeCategory \subseteq Category
    /\ BookAmount \subseteq Nat \ {0}
    /\ MonthLength \in Seq(Nat \ {0})
    /\ BookDate \subseteq Nat
    /\ Plan \subseteq [saved : Nat, target : Nat, sip : Nat, emi : Nat]
    /\ MaxRows \in Nat

VARIABLES
    book,       \* table transactions, in the order of creation
    plan        \* the emergency fund, the investments and the loans: Goals, NetWorth, Loans

bookVars == <<budgetVars, book, plan>>

Gone == [kind |-> "gone"]

\* kind: an expense or income, or an expense with a card, whose note says "payment" or not.
Recorded == [kind : {"expense", "income", "spend", "payment"}, category : Category,
             amount : BookAmount, date : BookDate]

BooksTypeOK ==
    /\ BudgetTypeOK
    /\ book \in Seq(Recorded \union {Gone}) /\ Len(book) <= MaxRows
    /\ \A i \in DOMAIN book : book[i].kind = "income" => book[i].category \in IncomeCategory
    /\ plan \in Plan

BooksInit ==
    /\ BudgetInit
    /\ book = << >>
    /\ plan \in Plan

-----------------------------------------------------------------------------
\* Mutation of FitsKind: any category will do.
FitsKind_Any(category, kind) == TRUE

\* The category's kind is the transaction's type.
FitsKind(category, kind) == category \in IncomeCategory <=> kind = "income"

Record(row) ==
    /\ Len(book) < MaxRows
    /\ book' = Append(book, row)
    /\ UNCHANGED <<budgetVars, plan>>

\* create_transaction.
CreateTransaction(kind, category, amount, date) ==
    /\ FitsKind(category, kind)
    /\ Record([kind |-> kind, category |-> category, amount |-> amount, date |-> date])

\* confirm_scan: record_transaction looks at no category's kind.
ConfirmScan(category, amount, date) ==
    Record([kind |-> "expense", category |-> category, amount |-> amount, date |-> date])

\* record_spend, record_payment: nor here.
RecordOnCard(kind, category, amount, date) ==
    Record([kind |-> kind, category |-> category, amount |-> amount, date |-> date])

\* update_transaction: any of the fields, the note of a card's transaction too.
UpdateTransaction(i, kind, category, amount, date) ==
    /\ book[i] # Gone
    /\ kind = book[i].kind \/ {kind, book[i].kind} = {"spend", "payment"}
    /\ category = book[i].category \/ FitsKind(category, kind)
    /\ book' = [book EXCEPT ![i] = [kind |-> kind, category |-> category, amount |-> amount, date |-> date]]
    /\ UNCHANGED <<budgetVars, plan>>

DeleteTransaction(i) ==
    /\ book[i] # Gone
    /\ book' = [book EXCEPT ![i] = Gone]
    /\ UNCHANGED <<budgetVars, plan>>

TransactionsNext ==
    \/ \E category \in Category, amount \in BookAmount, date \in BookDate :
          \/ \E kind \in {"income", "expense"} : CreateTransaction(kind, category, amount, date)
          \/ ConfirmScan(category, amount, date)
          \/ \E kind \in {"spend", "payment"} : RecordOnCard(kind, category, amount, date)
          \/ \E i \in DOMAIN book, kind \in {"income", "expense", "spend", "payment"} :
                UpdateTransaction(i, kind, category, amount, date)
    \/ \E i \in DOMAIN book : DeleteTransaction(i)

\* The user's other requests and those about the budget.
BooksNext == TransactionsNext \/ (BudgetNext /\ UNCHANGED <<book, plan>>)

BooksSpec == BooksInit /\ [][BooksNext]_bookVars

-----------------------------------------------------------------------------
(* The views.                                                              *)

Live == {i \in DOMAIN book : book[i] # Gone}
Months == DOMAIN MonthLength

SumOf(s) == SumFunction([i \in s |-> book[i].amount])

\* The last day of each month.
MonthEnd[m \in 0 .. Len(MonthLength)] == IF m = 0 THEN 0 ELSE MonthEnd[m - 1] + MonthLength[m]

\* The months the views are asked for are those that rows are dated in.
ASSUME DatesHaveMonths == BookDate \subseteq 1 .. MonthEnd[Len(MonthLength)]

\* Mutation of InMonth: the last day is left out.
InMonth_Open(s, m) == {i \in s : MonthEnd[m - 1] < book[i].date /\ book[i].date < MonthEnd[m]}

\* month_bounds: the first and the last day, both included.
InMonth(s, m) == {i \in s : MonthEnd[m - 1] < book[i].date /\ book[i].date <= MonthEnd[m]}

Income(s) == {i \in s : book[i].kind = "income"}
Expenses(s) == s \ Income(s)

\* _cash_relevant_filter: not what was spent with a card and is not paid yet.
CashRelevant(s) == {i \in s : book[i].kind # "spend"}

\* sum_by_type, sum_by_type_all_time.
IncomeTotal(s) == SumOf(Income(CashRelevant(s)))
ExpenseTotal(s) == SumOf(Expenses(CashRelevant(s)))

\* The breakdown's `card_only`: a card, and a note that does not say payment.
CardSpends(s) == {i \in s : book[i].kind = "spend"}

\* sum_expense_by_category.
Breakdown(s, cardOnly) ==
    [category \in {book[i].category : i \in Expenses(s)} |->
        SumOf({i \in IF cardOnly THEN CardSpends(s) ELSE Expenses(s) : book[i].category = category})]

\* _transactions_by_day, get_calendar: each day's outflow.
Outflow(s, m) ==
    [day \in MonthEnd[m - 1] + 1 .. MonthEnd[m] |-> SumOf({i \in Expenses(s) : book[i].date = day})]
Inflow(s, m) ==
    [day \in MonthEnd[m - 1] + 1 .. MonthEnd[m] |-> SumOf({i \in Income(s) : book[i].date = day})]

-----------------------------------------------------------------------------
(* The health score of a month with `income` and `expense`, when `last`    *)
(* was spent in the last three months.  Percentages are in tenths.         *)

Pct(part, whole) == IF whole = 0 THEN 0 ELSE (1000 * part) \div whole
AtMost100(tenths) == Min({1000, tenths})
AtLeast0(tenths) == Max({0, tenths})

SavingsLever(income, expense) == AtMost100((5 * Pct(income - expense, income)) \div 2)

InvestmentLever(income) == AtMost100(5 * Pct(plan.sip, income))

\* Mutation of BudgetLever: a budget that was never set is perfectly kept.
BudgetLever_Unset(expense) ==
    IF budget.row.limit = 0 THEN 1000 ELSE AtLeast0(Pct(Remaining(expense), budget.row.limit))

\* 100 less the utilisation, where there is a budget.
BudgetLever(expense) == AtLeast0(Pct(Remaining(expense), budget.row.limit))

\* get_emergency_fund: the months of average expenses that are saved, of six.
EmergencyLever(last) == IF last = 0 THEN 0 ELSE AtMost100((1000 * 3 * plan.saved) \div (6 * last))

DebtLever(income) == IF income = 0 THEN 0 ELSE AtLeast0(1000 - 2 * Pct(plan.emi, income))

GoalLever == AtMost100(Pct(plan.saved, plan.target))

\* get_health's composite score: the average of six levers, rounded.
Composite(income, expense, last) ==
    (SavingsLever(income, expense) + InvestmentLever(income) + BudgetLever(expense)
       + EmergencyLever(last) + DebtLever(income) + GoalLever + 30) \div 60

\* _avg_monthly_expenses looks at three months; today is in the last there is.
LastExpenses(s) ==
    SumFunction([m \in {n \in Months : n > Len(MonthLength) - 3} |-> ExpenseTotal(InMonth(s, m))])

Score(s, m) == Composite(IncomeTotal(InMonth(s, m)), ExpenseTotal(InMonth(s, m)), LastExpenses(s))

-----------------------------------------------------------------------------
(* Properties.                                                             *)

\* The views agree on the same books: the months add up to the all-time totals, the
\* calendar's days and the breakdown's categories to the month's outflow, and that is
\* what left the bank and what the cards are owed for.  No alert is missed: a month over
\* the budget has it.
ReportsAgree ==
    /\ IncomeTotal(Live) = SumFunction([m \in Months |-> IncomeTotal(InMonth(Live, m))])
    /\ ExpenseTotal(Live) = SumFunction([m \in Months |-> ExpenseTotal(InMonth(Live, m))])
    /\ \A m \in Months :
         LET s == InMonth(Live, m)
             spent == ExpenseTotal(s) IN
         /\ SumFunction(Inflow(Live, m)) = IncomeTotal(s)
         /\ SumFunction(Outflow(Live, m)) = spent + SumFunction(Breakdown(s, TRUE))
         /\ SumFunction(Breakdown(s, FALSE)) = SumFunction(Outflow(Live, m))
         /\ OverBy(spent) > 0 => AlertTriggered(spent)

\* The score of an account that has nothing is 0 ("must not invent a healthy score"), no
\* score is above 100, and none is below 0 while no more is spent than comes in.  Nobody
\* scores better for an expense, but for the first of the last three months, from which
\* the emergency fund begins to count, and nobody scores otherwise for a card's spend.
ScoreIsSound ==
    \A m \in Months :
        LET score == Score(Live, m)
            s == InMonth(Live, m) IN
        /\ Live = {} /\ budget.row.limit = 0 /\ plan.saved = 0 => score = 0
        /\ score <= 100
        /\ ExpenseTotal(s) <= IncomeTotal(s) => score >= 0
        /\ \A i \in Expenses(Live) :
             LET without == Score(Live \ {i}, m) IN
             IF i \in CashRelevant(Live)
               THEN score <= without \/ LastExpenses(Live \ {i}) = 0
               ELSE score = without
=============================================================================
