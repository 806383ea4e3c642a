-------------------------------- MODULE Loans --------------------------------
(***************************************************************************)
(* Loans the user repays (api/v1/loans): what is outstanding is entered by *)
(* the user, edited, and prepaid in parts; the schedule of what is left is *)
(* worked out whenever it is asked for, for the months that remain.        *)
(* Name, kind and the original principal are left out: the principal only  *)
(* shows in the installment of a loan with nothing outstanding.  Balances  *)
(* and amounts are in tenths of a paisa (UnitOfWork), schedules in paise.  *)
(***************************************************************************)
EXTENDS Requests, Amortization

CONSTANTS
    Loan,           \* ids of loans
    Opening,        \* balances a creation may name: the code takes any, below zero too
    Prepayment,     \* amounts a prepayment may name
    Rate,           \* monthly rates, [num, den]
    Tenure,         \* lengths in months
    LastMonth       \* bound: months that pass

ASSUME OpeningAssumption == Opening \subseteq Int
ASSUME PrepaymentAssumption == Prepayment \subseteq Nat \ {0}
ASSUME RateAssumption == Rate \subseteq [num : Nat, den : Nat \ {0}]
ASSUME TenureAssumption == Tenure \subseteq Nat \ {0} /\ LastMonth \in Nat
ASSUME TermsAssumption == Rate # {} /\ Tenure # {}

VARIABLES
    loans,          \* table loans: id -> row
    loanReq,        \* client -> its request in flight
    month,          \* months since the earliest start a request may name
    owed,           \* history: loan -> what the responses say is left, to the paisa, 0 once
                    \* it was raced
    openedBelow,    \* history: loans created with a balance below zero
    loansRaced      \* history: loans that two requests wrote at once

loanVars == <<loans, loanReq, month, owed, openedBelow, loansRaced>>

LoanRow == [status : {"absent", "live", "deleted"}, outstanding : Int, rate : Rate, tenure : Tenure,
            start : 0 .. LastMonth]
LoanWrite == [op : {"update", "prepay"}, loan : Loan, loaded : LoanRow, computed : LoanRow]

LoansTypeOK ==
    /\ loans \in [Loan -> LoanRow]
    /\ loanReq \in [Client -> {NoRequest} \union LoanWrite]
    /\ month \in 0 .. LastMonth
    /\ owed \in [Loan -> Int]
    /\ openedBelow \subseteq Loan
    /\ loansRaced \subseteq Loan

LoansInit ==
    /\ loans = [l \in Loan |->
         [status |-> "absent", outstanding |-> 0, rate |-> CHOOSE rate \in Rate : TRUE,
          tenure |-> CHOOSE tenure \in Tenure : TRUE, start |-> 0]]
    /\ loanReq = [c \in Client |-> NoRequest]
    /\ month = 0
    /\ owed = [l \in Loan |-> 0]
    /\ openedBelow = {}
    /\ loansRaced = {}

-----------------------------------------------------------------------------
LiveLoans == {l \in Loan : loans[l].status = "live"}

\* paid_months and remaining_months.
PaidMonths(row) ==
    LET passed == month - row.start
    IN  CASE passed < 0          -> 0
          [] passed > row.tenure -> row.tenure
          [] OTHER               -> passed
RemainingMonths(row) == row.tenure - PaidMonths(row)

\* build_schedule of a row, whose balance is whole paise.
Paise(row) == row.outstanding \div 10
ScheduleOf(row) == Schedule(Paise(row), row.rate, RemainingMonths(row))

\* A row with its balance as the column keeps it.
StoredLoan(row) == [row EXCEPT !.outstanding = Stored(@)]

\* create_loan: the loan may have begun already, or begin later.
CreateLoan(l, opening, rate, tenure, start) ==
    /\ loans[l].status = "absent"
    /\ loans' = [loans EXCEPT ![l] = StoredLoan(
         [status |-> "live", outstanding |-> opening, rate |-> rate, tenure |-> tenure, start |-> start])]
    /\ owed' = [owed EXCEPT ![l] = Stored(opening)]
    /\ openedBelow' = IF opening < 0 THEN openedBelow \union {l} ELSE openedBelow
    /\ UNCHANGED <<loanReq, month, loansRaced>>

LoadLoan(c, l, op, computed) ==
    /\ loanReq[c] = NoRequest
    /\ l \in LiveLoans
    /\ computed # loans[l]
    /\ loanReq' = [loanReq EXCEPT ![c] = [op |-> op, loan |-> l, loaded |-> loans[l], computed |-> computed]]
    /\ UNCHANGED <<loans, month, owed, openedBelow, loansRaced>>

\* update_loan: new terms, or the balance as the bank states it.
LoadLoanUpdate(c, l, rate, tenure, start) ==
    LoadLoan(c, l, "update", [loans[l] EXCEPT !.rate = rate, !.tenure = tenure, !.start = start])

LoadLoanBalance(c, l, balance) ==
    /\ balance >= 0
    /\ LoadLoan(c, l, "update", [loans[l] EXCEPT !.outstanding = balance])

\* Mutation of MayPrepay: any amount is taken.
MayPrepay_Any(row, amount) == TRUE

MayPrepay(row, amount) == amount <= row.outstanding

\* prepay: what is left is rounded before it is written.
LoadPrepayment(c, l, amount) ==
    /\ MayPrepay(loans[l], amount)
    /\ LoadLoan(c, l, "prepay", [loans[l] EXCEPT !.outstanding = 10 * WholePaise(@ - amount)])

\* History: does another request in flight write the row of `l`?
LoanContended(c, l) == \E d \in Client \ {c} : loanReq[d] # NoRequest /\ loanReq[d].loan = l

CommitLoan(c) ==
    LET r == loanReq[c] IN
    /\ r.op \in {"update", "prepay"}
    /\ loans' = [loans EXCEPT ![r.loan] = StoredLoan(Flush(@, r.loaded, r.computed))]
    /\ loansRaced' = IF LoanContended(c, r.loan) THEN loansRaced \union {r.loan} ELSE loansRaced
    /\ owed' = [owed EXCEPT ![r.loan] =
         IF r.loan \in loansRaced' THEN 0
         ELSE @ + (Stored(r.computed.outstanding) - r.loaded.outstanding)]
    /\ loanReq' = [loanReq EXCEPT ![c] = NoRequest]
    /\ UNCHANGED <<month, openedBelow>>

RollBackLoan(c) ==
    /\ loanReq[c] # NoRequest
    /\ loanReq' = [loanReq EXCEPT ![c] = NoRequest]
    /\ UNCHANGED <<loans, month, owed, openedBelow, loansRaced>>

DeleteLoan(l) ==
    /\ l \in LiveLoans
    /\ loans' = [loans EXCEPT ![l].status = "deleted"]
    /\ UNCHANGED <<loanReq, month, owed, openedBelow, loansRaced>>

\* The environment: a month passes.
PassMonth ==
    /\ month < LastMonth
    /\ month' = month + 1
    /\ UNCHANGED <<loans, loanReq, owed, openedBelow, loansRaced>>

-----------------------------------------------------------------------------
LoansNext ==
    \/ \E l \in Loan, opening \in Opening, rate \in Rate, tenure \in Tenure, start \in 0 .. LastMonth :
         CreateLoan(l, opening, rate, tenure, start)
    \/ \E c \in Client, l \in Loan, rate \in Rate, tenure \in Tenure, start \in 0 .. LastMonth :
         LoadLoanUpdate(c, l, rate, tenure, start)
    \/ \E c \in Client, l \in Loan, balance \in Opening : LoadLoanBalance(c, l, balance)
    \/ \E c \in Client, l \in Loan, amount \in Prepayment : LoadPrepayment(c, l, amount)
    \/ \E c \in Client : CommitLoan(c) \/ RollBackLoan(c)
    \/ \E l \in Loan : DeleteLoan(l)
    \/ PassMonth

LoansSpec == LoansInit /\ [][LoansNext]_loanVars

-----------------------------------------------------------------------------
(* Properties.                                                             *)

\* Prepayments, edits and lost races never take a balance below zero, unless the loan was
\* entered below it; and what is outstanding is what the responses said was left, rounded
\* to the paisa, but for loans that two requests wrote at once, where one prepayment may
\* be lost.
LoanBalanceKept ==
    \A l \in LiveLoans :
        /\ loans[l].outstanding >= 0 \/ l \in openedBelow
        /\ loans[l].outstanding = owed[l] \/ l \in loansRaced

\* What is left is no more than one paisa a month comes to with the interest on it:
\* ((1 + rate)^months - 1) / rate.
PaisaAMonth(left, rate, months) ==
    IF rate.num = 0 THEN left <= months
    ELSE left * rate.num * Power(rate.den, months - 1)
           <= Power(rate.num + rate.den, months) - Power(rate.den, months)

\* The schedule repays the loan: what its rows repay and the balance they leave add up to
\* what is outstanding, no balance is below zero or above the one before it, the interest
\* never grows, and what the last installment leaves, for want of a final one that sweeps it
\* up, is no more than what a paisa of rounding a month explains.
ScheduleRepays ==
    \A l \in LiveLoans :
        LET rows   == ScheduleOf(loans[l])
            repaid == SumFunction([row \in rows |-> row.principal])
            months == RemainingMonths(loans[l])
            left   == Paise(loans[l]) - repaid
        IN  /\ \A row \in rows : row.balance >= 0 /\ row.principal >= 0
            /\ rows # {} => left >= 0 /\ PaisaAMonth(left, loans[l].rate, months)
            /\ \A row, next \in rows :
                 next.month = row.month + 1 =>
                    next.balance = row.balance - next.principal /\ next.interest <= row.interest
=============================================================================
