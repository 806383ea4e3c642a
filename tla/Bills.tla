-------------------------------- MODULE Bills --------------------------------
(***************************************************************************)
(* Bills and the payments recorded for them: app/api/v1/bills/service.py,  *)
(* the linked-transaction half of app/api/v1/transactions, and the nightly *)
(* rollover task of app/worker.                                            *)
(*                                                                         *)
(* A request that reads and then writes is two or three steps: the reads   *)
(* (Load..., Find...) and the commit of what it computed.  Other requests  *)
(* and the rollover commit in between.  A request that writes one column   *)
(* with a value that depends on no read is a single step: the same effect  *)
(* at its commit.                                                          *)
(*                                                                         *)
(* Data no property tells apart is left out: names, amounts, notes,        *)
(* auto_pay and lead_days; `paid` is paid_on being non-null, as no write   *)
(* depends on which day it holds.                                          *)
(***************************************************************************)
EXTENDS Integers, FiniteSets, UnitOfWork

CONSTANTS
    Bill,       \* ids of bills
    Client,     \* devices of the user, each with at most one request in flight
    Period,     \* Period[b]: days by which advance_due_date moves bill b
    LastDay,    \* bound: the calendar stops here
    MaxPayments \* bound: payments a run records

ASSUME PeriodAssumption == Period \in [Bill -> Nat \ {0}]
ASSUME BoundsAssumption == LastDay \in Nat /\ MaxPayments \in Nat

VARIABLES
    bills,      \* table bills: id -> row
    payments,   \* transactions with a bill_id
    today,      \* dt.date.today()
    req,        \* client -> its request in flight
    rollover,   \* the rollover task: rows it loaded and will advance
    cycle,      \* history: bill -> times the rollover advanced it
    late        \* history: payments undone too late for the rollover to notice

vars == <<bills, payments, today, req, rollover, cycle, late>>

Day == 0 .. LastDay

\* Columns of `bills` that some write depends on.
BillRow == [status : {"absent", "live", "deleted"}, due : Nat, paid : BOOLEAN]

\* A payment: `id` is its place in created_at order, `cycle` the billing cycle
\* (history) in which it was recorded, `state` how it was deleted, if it was.
Payment == [id : 1 .. MaxPayments, bill : Bill, cycle : Nat,
            state : {"live", "undone", "removed"}]

NoPayment == 0

Idle == [op |-> "idle"]
PayRequest == [op : {"pay"}, bill : Bill, loaded : BillRow, id : 1 .. MaxPayments]
UnpayRequest == [op : {"unpay", "unpay_found"}, bill : Bill, loaded : BillRow,
                 id : 0 .. MaxPayments]
Request == {Idle} \union PayRequest \union UnpayRequest

TypeOK ==
    /\ bills \in [Bill -> BillRow]
    /\ payments \subseteq Payment
    /\ today \in Day
    /\ req \in [Client -> Request]
    /\ rollover \in [running : BOOLEAN, rolling : SUBSET Bill, loaded : [Bill -> BillRow]]
    /\ cycle \in [Bill -> Nat]
    /\ late \subseteq 1 .. MaxPayments

NoRow == [status |-> "absent", due |-> 0, paid |-> FALSE]
NotRunning == [running |-> FALSE, rolling |-> {}, loaded |-> [b \in Bill |-> NoRow]]

Init ==
    /\ bills = [b \in Bill |-> NoRow]
    /\ payments = {}
    /\ today = 0
    /\ req = [c \in Client |-> Idle]
    /\ rollover = NotRunning
    /\ cycle = [b \in Bill |-> 0]
    /\ late = {}

-----------------------------------------------------------------------------
(* Queries.                                                                *)

Live(b) == bills[b].status = "live"

LivePayments(b) == {p \in payments : p.bill = b /\ p.state = "live"}

\* Mutation of LatestPayment: ascending created_at order, the oldest one.
LatestPayment_Oldest(b) ==
    {p \in LivePayments(b) : \A q \in LivePayments(b) : p.id <= q.id}

\* get_by_bill_and_due_date: the latest live payment of the bill, if any.
\* Despite its name it does not look at the due date.
LatestPayment(b) ==
    {p \in LivePayments(b) : \A q \in LivePayments(b) : q.id <= p.id}

\* find_transaction_for_bill: its id, or none.
FindTransactionForBill(b) ==
    IF LatestPayment(b) = {} THEN {NoPayment} ELSE {p.id : p \in LatestPayment(b)}

\* created_at is the start of the inserting transaction, so an id is taken when
\* the request begins, not when its row appears.
TakenIds == {p.id : p \in payments} \union
            {req[c].id : c \in {d \in Client : req[d].op = "pay"}}
FreeIds == {n \in 1 .. MaxPayments : \A t \in TakenIds : t < n}

\* remove_transaction_by_id: the object was loaded by the find, so the
\* deleted_at test is on a stale row; deleting twice changes nothing.
SoftDelete(id, how) ==
    {IF p.id = id /\ p.state = "live" THEN [p EXCEPT !.state = how] ELSE p : p \in payments}

-----------------------------------------------------------------------------
(* Requests of the clients.                                                *)

Finish(c) == req' = [req EXCEPT ![c] = Idle]

CreateBill(b, due) ==
    /\ bills[b].status = "absent"
    /\ bills' = [bills EXCEPT ![b] = [status |-> "live", due |-> due, paid |-> FALSE]]
    /\ UNCHANGED <<payments, today, req, rollover, cycle, late>>

UpdateBill(b, due) ==
    /\ Live(b)
    /\ bills' = [bills EXCEPT ![b].due = due]
    /\ UNCHANGED <<payments, today, req, rollover, cycle, late>>

\* The payments of a deleted bill stay.
DeleteBill(b) ==
    /\ Live(b)
    /\ bills' = [bills EXCEPT ![b].status = "deleted"]
    /\ UNCHANGED <<payments, today, req, rollover, cycle, late>>

\* pay_bill up to its guard: a bill that is already paid is refused.
LoadForPay(c, b) ==
    /\ req[c].op = "idle"
    /\ Live(b)
    /\ ~bills[b].paid
    /\ \E id \in FreeIds :
         /\ \A other \in FreeIds : id <= other
         /\ req' = [req EXCEPT ![c] = [op |-> "pay", bill |-> b, loaded |-> bills[b], id |-> id]]
    /\ UNCHANGED <<bills, payments, today, rollover, cycle, late>>

\* The rest of pay_bill: record_transaction, paid_on = today, commit.
CommitPay(c) ==
    /\ req[c].op = "pay"
    /\ LET r == req[c] IN
         /\ payments' = payments \union
              {[id |-> r.id, bill |-> r.bill, cycle |-> cycle[r.bill], state |-> "live"]}
         /\ bills' = [bills EXCEPT
              ![r.bill] = Flush(@, r.loaded, [r.loaded EXCEPT !.paid = TRUE])]
    /\ Finish(c)
    /\ UNCHANGED <<today, rollover, cycle, late>>

\* unpay_bill: there is no guard, an unpaid bill can be unpaid.
LoadForUnpay(c, b) ==
    /\ req[c].op = "idle"
    /\ Live(b)
    /\ req' = [req EXCEPT ![c] =
                [op |-> "unpay", bill |-> b, loaded |-> bills[b], id |-> NoPayment]]
    /\ UNCHANGED <<bills, payments, today, rollover, cycle, late>>

\* Its second query, find_transaction_for_bill.
FindPayment(c) ==
    /\ req[c].op = "unpay"
    /\ \E id \in FindTransactionForBill(req[c].bill) :
         req' = [req EXCEPT ![c] = [@ EXCEPT !.op = "unpay_found", !.id = id]]
    /\ UNCHANGED <<bills, payments, today, rollover, cycle, late>>

\* (History.)  The rollover that closes the payment's cycle has read the bill as paid,
\* and does not see that the payment goes.
UnseenByRollover(p) == p.bill \in rollover.rolling \/ p.cycle < cycle[p.bill]

\* Removal of the payment found, paid_on = None, commit.
CommitUnpay(c) ==
    /\ req[c].op = "unpay_found"
    /\ LET r == req[c] IN
         /\ payments' = SoftDelete(r.id, "undone")
         /\ bills' = [bills EXCEPT
              ![r.bill] = Flush(@, r.loaded, [r.loaded EXCEPT !.paid = FALSE])]
         /\ late' = late \union
              {p.id : p \in {q \in payments : /\ q.id = r.id /\ q.state = "live"
                                             /\ UnseenByRollover(q)}}
    /\ Finish(c)
    /\ UNCHANGED <<today, rollover, cycle>>

\* DELETE /transactions/{id} on a payment: the bill is not told.
DeleteTransaction(p) ==
    /\ p \in payments
    /\ p.state = "live"
    /\ payments' = SoftDelete(p.id, "removed")
    /\ UNCHANGED <<bills, today, req, rollover, cycle, late>>

\* get_session rolls a failing request back: it leaves no trace.
RollBack(c) ==
    /\ req[c].op # "idle"
    /\ Finish(c)
    /\ UNCHANGED <<bills, payments, today, rollover, cycle, late>>

-----------------------------------------------------------------------------
(* The nightly rollover task.                                              *)

\* Mutation of Rolls: the paid_on test is dropped.
Rolls_Unpaid(b) == Live(b) /\ bills[b].due <= today

\* Mutation of Rolls: a bill due today waits for tomorrow.
Rolls_DayLate(b) == Live(b) /\ bills[b].paid /\ bills[b].due < today

\* The bills of list_by_user that rollover_paid_bills does not skip.
Rolls(b) == Live(b) /\ bills[b].paid /\ bills[b].due <= today

LoadRollover ==
    /\ ~rollover.running
    /\ rollover' = [running |-> TRUE, rolling |-> {b \in Bill : Rolls(b)}, loaded |-> bills]
    /\ UNCHANGED <<bills, payments, today, req, cycle, late>>

\* Mutation of AdvanceDueDate: the period is taken off.
AdvanceDueDate_Back(b, due) == due - Period[b]

\* The calendar arithmetic of advance_due_date moves a date forward by the
\* bill's period.
AdvanceDueDate(b, due) == due + Period[b]

\* Mutation of RolledOver: paid_on is not cleared.
RolledOver_StillPaid(b, row) == [row EXCEPT !.due = AdvanceDueDate(b, @)]

\* What rollover_paid_bills does to a loaded row: one period, however late.
RolledOver(b, row) == [row EXCEPT !.due = AdvanceDueDate(b, @), !.paid = FALSE]

CommitRollover ==
    /\ rollover.running
    /\ bills' = [b \in Bill |->
         IF b \in rollover.rolling
           THEN Flush(bills[b], rollover.loaded[b], RolledOver(b, rollover.loaded[b]))
           ELSE bills[b]]
    /\ cycle' = [b \in Bill |-> IF b \in rollover.rolling THEN cycle[b] + 1 ELSE cycle[b]]
    /\ rollover' = NotRunning
    /\ UNCHANGED <<payments, today, req, late>>

\* The worker dies, or the database refuses: nothing of the run is kept, and no unpay
\* of a cycle that is still open was too late.
RolloverCrash ==
    /\ rollover.running
    /\ rollover' = NotRunning
    /\ late' = late \ {p.id : p \in {q \in payments : q.cycle = cycle[q.bill]}}
    /\ UNCHANGED <<bills, payments, today, req, cycle>>

NextDay ==
    /\ today < LastDay
    /\ today' = today + 1
    /\ UNCHANGED <<bills, payments, req, rollover, cycle, late>>

-----------------------------------------------------------------------------
Next ==
    \/ \E b \in Bill, d \in Day : CreateBill(b, d)
    \/ \E b \in Bill, d \in Day : UpdateBill(b, d)
    \/ \E b \in Bill : DeleteBill(b)
    \/ \E c \in Client, b \in Bill : LoadForPay(c, b)
    \/ \E c \in Client : CommitPay(c)
    \/ \E c \in Client, b \in Bill : LoadForUnpay(c, b)
    \/ \E c \in Client : FindPayment(c)
    \/ \E c \in Client : CommitUnpay(c)
    \/ \E c \in Client : RollBack(c)
    \/ \E p \in payments : DeleteTransaction(p)
    \/ LoadRollover
    \/ CommitRollover
    \/ RolloverCrash
    \/ NextDay

Spec == Init /\ [][Next]_vars

\* Celery Beat starts the task every night, and the task cannot die every
\* single night for ever.
Fairness == WF_vars(LoadRollover) /\ SF_vars(CommitRollover)

FairSpec == Spec /\ Fairness

-----------------------------------------------------------------------------
(* Properties.                                                             *)

\* "Bill is already paid for this cycle" (pay_bill's 409): a cycle never has two
\* live payments.  True while the user acts on one device at a time.
OnePaymentPerCycle ==
    \A p, q \in payments :
        (p.state = "live" /\ q.state = "live" /\ p.bill = q.bill /\ p.cycle = q.cycle) => p = q

\* A bill that shows as paid has its payment of the current cycle in the books,
\* unless the user deleted that transaction itself.  True on one device.
PaidBillHasPayment ==
    \A b \in Bill : bills[b].paid =>
        \E p \in payments : p.bill = b /\ p.cycle = cycle[b] /\ p.state # "undone"

\* Every cycle the rollover closed was paid for: it has a payment that is in the books,
\* or was deleted there by hand, or was undone only after the rollover had read the
\* bill as paid (rollover_paid_bills skips bills that are not paid).  True on one device.
ClosedCyclesWerePaid ==
    \A b \in Bill : \A k \in 0 .. cycle[b] - 1 :
        \E p \in payments : p.bill = b /\ p.cycle = k /\ (p.state = "undone" => p.id \in late)

\* The rollover advances "paid recurring bills" (its docstring) and no other: a bill is
\* paid when its due date moves on.
RollsPaidBills == [][\A b \in Bill : cycle'[b] # cycle[b] => bills[b].paid]_vars

\* Undoing the payment of a bill that is paid takes back the payment of the current
\* cycle, although the query for it looks at no date, and never one of an earlier cycle:
\* unless the user deleted this cycle's transaction by hand.  True on one device.
UnpayUndoesThisCycle ==
    [][\A c \in Client : CommitUnpay(c) /\ bills[req[c].bill].paid =>
         \A p \in payments : p.id = req[c].id =>
            \/ p.cycle = cycle[p.bill]
            \/ \E q \in payments : /\ q.bill = p.bill /\ q.cycle = cycle[p.bill]
                                   /\ q.state = "removed"]_vars

\* A paid bill whose due date has come is rolled over in the end (or unpaid,
\* deleted or moved by the user first).
DuePaid(b) == Live(b) /\ bills[b].paid /\ bills[b].due <= today
PaidBillsRollOver == \A b \in Bill : DuePaid(b) ~> ~DuePaid(b)
=============================================================================
