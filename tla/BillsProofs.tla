----------------------------- MODULE BillsProofs -----------------------------
(***************************************************************************)
(* Proofs about Bills for any set of bills, of devices, any period and     *)
(* calendar: type correctness; and for a user with one device, that no     *)
(* cycle is paid for twice, that a bill that shows as paid was, that every *)
(* cycle the rollover closed was paid for, and that an unpay takes back    *)
(* the payment of the cycle that shows as paid.                            *)
(***************************************************************************)
EXTENDS Bills, TLAPS

\* A flush leaves a row a row, whatever the loaded and computed rows.
LEMMA FlushRow ==
    ASSUME NEW current \in BillRow, NEW loaded \in BillRow, NEW computed \in BillRow
    PROVE  Flush(current, loaded, computed) \in BillRow
BY DEF Flush, BillRow

\* The rollover turns a row into an unpaid row.
LEMMA RolledOverRow ==
    ASSUME NEW b \in Bill, NEW row \in BillRow
    PROVE  RolledOver(b, row) \in BillRow /\ RolledOver(b, row).paid = FALSE
<1>1. row.due + Period[b] \in Nat
  BY PeriodAssumption DEF BillRow
<1> QED
  BY <1>1 DEF RolledOver, AdvanceDueDate, BillRow

\* What an unpay finds is the id of a payment, or none.
LEMMA FindTransactionType ==
    ASSUME TypeOK, NEW b \in Bill
    PROVE  FindTransactionForBill(b) \subseteq 0 .. MaxPayments
<1>1. \A p \in LatestPayment(b) : p.id \in 1 .. MaxPayments
  BY DEF TypeOK, LatestPayment, LivePayments, Payment
<1>2. {p.id : p \in LatestPayment(b)} \subseteq 0 .. MaxPayments
  BY <1>1, BoundsAssumption
<1> QED
  BY <1>2, BoundsAssumption DEF FindTransactionForBill, NoPayment

\* Marking payments deleted yields payments.
LEMMA SoftDeleteType ==
    ASSUME TypeOK, NEW id, NEW how \in {"undone", "removed"}
    PROVE  SoftDelete(id, how) \subseteq Payment
BY DEF SoftDelete, TypeOK, Payment

\* Type correctness: no request, run or crash leaves anything but rows behind.
THEOREM TypeCorrect == Spec => []TypeOK
<1>1. Init => TypeOK
  BY BoundsAssumption DEF Init, TypeOK, NoRow, NotRunning, BillRow, Payment, Request, Idle, Day
<1>2. TypeOK /\ [Next]_vars => TypeOK'
  <2> SUFFICES ASSUME TypeOK, [Next]_vars PROVE TypeOK'
    OBVIOUS
  <2> USE DEF TypeOK
  <2>1. ASSUME NEW b \in Bill, NEW d \in Day, CreateBill(b, d) PROVE TypeOK'
    BY <2>1 DEF CreateBill, BillRow, Day
  <2>2. ASSUME NEW b \in Bill, NEW d \in Day, UpdateBill(b, d) PROVE TypeOK'
    BY <2>2 DEF UpdateBill, BillRow, Day
  <2>3. ASSUME NEW b \in Bill, DeleteBill(b) PROVE TypeOK'
    BY <2>3 DEF DeleteBill, BillRow
  <2>4. ASSUME NEW c \in Client, NEW b \in Bill, LoadForPay(c, b) PROVE TypeOK'
    <3>1. PICK id \in FreeIds :
            req' = [req EXCEPT ![c] = [op |-> "pay", bill |-> b, loaded |-> bills[b], id |-> id]]
      BY <2>4 DEF LoadForPay
    <3>2. [op |-> "pay", bill |-> b, loaded |-> bills[b], id |-> id] \in PayRequest
      BY DEF PayRequest, FreeIds
    <3> QED
      BY <2>4, <3>1, <3>2 DEF LoadForPay, Request
  <2>5. ASSUME NEW c \in Client, CommitPay(c) PROVE TypeOK'
    <3> DEFINE r == req[c]
    <3>1. r \in PayRequest
      BY <2>5 DEF CommitPay, Request, Idle, PayRequest, UnpayRequest
    <3>2. r.bill \in Bill /\ r.loaded \in BillRow /\ r.id \in 1 .. MaxPayments
      BY <3>1 DEF PayRequest
    <3>3. [r.loaded EXCEPT !.paid = TRUE] \in BillRow
      BY <3>2 DEF BillRow
    <3>4. Flush(bills[r.bill], r.loaded, [r.loaded EXCEPT !.paid = TRUE]) \in BillRow
      BY <3>2, <3>3, FlushRow
    <3>5. bills' \in [Bill -> BillRow]
      BY <2>5, <3>2, <3>4 DEF CommitPay
    <3>6. [id |-> r.id, bill |-> r.bill, cycle |-> cycle[r.bill], state |-> "live"] \in Payment
      BY <3>2 DEF Payment
    <3>7. payments' \subseteq Payment
      BY <2>5, <3>6 DEF CommitPay
    <3> QED
      BY <2>5, <3>5, <3>7 DEF CommitPay, Finish, Request
  <2>6. ASSUME NEW c \in Client, NEW b \in Bill, LoadForUnpay(c, b) PROVE TypeOK'
    <3>1. [op |-> "unpay", bill |-> b, loaded |-> bills[b], id |-> NoPayment] \in UnpayRequest
      BY BoundsAssumption DEF UnpayRequest, NoPayment
    <3> QED
      BY <2>6, <3>1 DEF LoadForUnpay, Request
  <2>7. ASSUME NEW c \in Client, FindPayment(c) PROVE TypeOK'
    <3> DEFINE r == req[c]
    <3>1. r \in UnpayRequest
      BY <2>7 DEF FindPayment, Request, Idle, PayRequest, UnpayRequest
    <3>2. PICK id \in FindTransactionForBill(r.bill) :
            req' = [req EXCEPT ![c] = [r EXCEPT !.op = "unpay_found", !.id = id]]
      BY <2>7 DEF FindPayment
    <3>3. id \in 0 .. MaxPayments
      BY <3>1, <3>2, FindTransactionType DEF UnpayRequest
    <3>4. [r EXCEPT !.op = "unpay_found", !.id = id] \in UnpayRequest
      BY <3>1, <3>3 DEF UnpayRequest
    <3> QED
      BY <2>7, <3>2, <3>4 DEF FindPayment, Request
  <2>8. ASSUME NEW c \in Client, CommitUnpay(c) PROVE TypeOK'
    <3> DEFINE r == req[c]
    <3>1. r \in UnpayRequest
      BY <2>8 DEF CommitUnpay, Request, Idle, PayRequest, UnpayRequest
    <3>2. r.bill \in Bill /\ r.loaded \in BillRow /\ [r.loaded EXCEPT !.paid = FALSE] \in BillRow
      BY <3>1 DEF UnpayRequest, BillRow
    <3>3. bills' \in [Bill -> BillRow]
      BY <2>8, <3>2, FlushRow DEF CommitUnpay
    <3>4. payments' \subseteq Payment
      BY <2>8, SoftDeleteType DEF CommitUnpay
    <3>5. late' \subseteq 1 .. MaxPayments
      <4>1. \A p \in payments : p.id \in 1 .. MaxPayments
        BY DEF Payment
      <4> QED
        BY <2>8, <4>1 DEF CommitUnpay
    <3> QED
      BY <2>8, <3>3, <3>4, <3>5 DEF CommitUnpay, Finish, Request
  <2>9. ASSUME NEW c \in Client, RollBack(c) PROVE TypeOK'
    BY <2>9 DEF RollBack, Finish, Request
  <2>10. ASSUME NEW p \in payments, DeleteTransaction(p) PROVE TypeOK'
    <3>1. payments' \subseteq Payment
      BY <2>10, SoftDeleteType DEF DeleteTransaction
    <3> QED
      BY <2>10, <3>1 DEF DeleteTransaction
  <2>11. CASE LoadRollover
    BY <2>11 DEF LoadRollover
  <2>12. CASE CommitRollover
    <3>1. bills' \in [Bill -> BillRow]
      BY <2>12, FlushRow, RolledOverRow DEF CommitRollover
    <3>2. cycle' \in [Bill -> Nat]
      BY <2>12 DEF CommitRollover
    <3> QED
      BY <2>12, <3>1, <3>2 DEF CommitRollover, NotRunning, NoRow, BillRow
  <2>13. CASE RolloverCrash
    BY <2>13 DEF RolloverCrash, NotRunning, NoRow, BillRow
  <2>14. CASE NextDay
    BY <2>14, BoundsAssumption DEF NextDay, Day
  <2>15. CASE UNCHANGED vars
    BY <2>15 DEF vars
  <2> QED
    BY <2>1, <2>2, <2>3, <2>4, <2>5, <2>6, <2>7, <2>8, <2>9, <2>10, <2>11, <2>12, <2>13,
       <2>14, <2>15 DEF Next
<1> QED
  BY <1>1, <1>2, PTL DEF Spec

-----------------------------------------------------------------------------
(* What a flush does to `paid`, and what the rollover reads.                *)

\* Clearing the paid flag never sets it ...
LEMMA FlushNeverPays ==
    ASSUME NEW current \in BillRow, NEW loaded \in BillRow, NEW computed \in BillRow,
           computed.paid = FALSE
    PROVE  Flush(current, loaded, computed).paid => current.paid
<1>1. "paid" \in DOMAIN current
  BY DEF BillRow
<1> QED
  BY <1>1 DEF Flush

\* ... and does clear it if the row was loaded as paid.
LEMMA FlushClearsPaid ==
    ASSUME NEW current \in BillRow, NEW loaded \in BillRow, NEW computed \in BillRow,
           computed.paid = FALSE, loaded.paid = TRUE
    PROVE  Flush(current, loaded, computed).paid = FALSE
<1>1. "paid" \in DOMAIN current
  BY DEF BillRow
<1> QED
  BY <1>1 DEF Flush

\* What the running rollover advances, it read as paid.
RolledBillsWerePaid == \A b \in rollover.rolling : rollover.loaded[b].paid

LEMMA RolledOnlyPaid == Spec => []RolledBillsWerePaid
<1>1. Init => RolledBillsWerePaid
  BY DEF Init, RolledBillsWerePaid, NotRunning
<1>2. RolledBillsWerePaid /\ [Next]_vars => RolledBillsWerePaid'
  <2> SUFFICES ASSUME RolledBillsWerePaid, [Next]_vars PROVE RolledBillsWerePaid'
    OBVIOUS
  <2>1. UNCHANGED rollover \/ rollover' = NotRunning \/ LoadRollover
    BY DEF Next, vars, CreateBill, UpdateBill, DeleteBill, LoadForPay, CommitPay, LoadForUnpay,
           FindPayment, CommitUnpay, RollBack, DeleteTransaction, CommitRollover, RolloverCrash,
           NextDay
  <2> QED
    BY <2>1 DEF RolledBillsWerePaid, NotRunning, LoadRollover, Rolls
<1> QED
  BY <1>1, <1>2, PTL DEF Spec

-----------------------------------------------------------------------------
(* One payment in each cycle, and a paid bill with its payment in the      *)
(* books: what a user who acts on one device at a time can count on, while *)
(* the rollover runs when it likes.  Neither is inductive.  What keeps     *)
(* them is that a bill that is not paid has no payment of its cycle, that  *)
(* the latest payment is the one of the current cycle if there is one, and *)
(* that all a request in flight can miss is the rollover clearing `paid`.  *)

\* At most one request is in flight at a time.
OneDevice == \A c, d \in Client : c = d

\* The payments of a bill's current cycle that are not deleted.
CurrentPayments(b) == {p \in LivePayments(b) : p.cycle = cycle[b]}

\* Ids grow with the cycles of a bill, and tell payments apart.
PaymentsAreOrdered ==
    /\ \A p \in payments : p.cycle <= cycle[p.bill]
    /\ \A p, q \in payments : p.id = q.id => p = q
    /\ \A p, q \in payments : p.bill = q.bill /\ p.cycle < q.cycle => p.id < q.id

\* A bill that is not paid has no payment of its cycle; one that is not there is not paid.
UnpaidBillHasNone ==
    \A b \in Bill : /\ ~bills[b].paid => CurrentPayments(b) = {}
                    /\ bills[b].status = "absent" => ~bills[b].paid

\* The request in flight.  What it read can be out of date in one way only: the rollover
\* may have cleared `paid` since.
PayKnows(r) ==
    /\ bills[r.bill].status # "absent" /\ ~bills[r.bill].paid /\ ~r.loaded.paid
    /\ \A p \in payments : p.id < r.id

UnpayKnows(r) ==
    /\ bills[r.bill].status # "absent"
    /\ ~r.loaded.paid => ~bills[r.bill].paid
    /\ r.op = "unpay_found" => /\ \A p \in payments : p.id = r.id => p.bill = r.bill
                               /\ \A p \in CurrentPayments(r.bill) : p.id = r.id

RequestKnows(r) ==
    /\ r.op = "pay" => PayKnows(r)
    /\ r.op \in {"unpay", "unpay_found"} => UnpayKnows(r)

\* The inductive invariant: the books, and the request that is about to change them.
BooksInv == PaymentsAreOrdered /\ OnePaymentPerCycle /\ PaidBillHasPayment /\ UnpaidBillHasNone

OneDeviceInv == BooksInv /\ \A c \in Client : RequestKnows(req[c])

\* A write of `paid` alone leaves the status of the row.
LEMMA FlushKeepsStatus ==
    ASSUME NEW current \in BillRow, NEW loaded \in BillRow, NEW computed \in BillRow,
           computed.status = loaded.status
    PROVE  Flush(current, loaded, computed).status = current.status
<1>1. "status" \in DOMAIN current
  BY DEF BillRow
<1> QED
  BY <1>1 DEF Flush

\* A bill that was read as unpaid is paid once `paid` is written.
LEMMA FlushPays ==
    ASSUME NEW current \in BillRow, NEW loaded \in BillRow, NEW computed \in BillRow,
           loaded.paid = FALSE, computed.paid = TRUE
    PROVE  Flush(current, loaded, computed).paid
<1>1. "paid" \in DOMAIN current
  BY DEF BillRow
<1> QED
  BY <1>1 DEF Flush

\* Deleting payments neither renumbers them nor brings one back.
LEMMA SoftDeleteRows ==
    ASSUME TypeOK, NEW id, NEW how \in {"undone", "removed"}, NEW p \in SoftDelete(id, how)
    PROVE  \E q \in payments : /\ p.id = q.id /\ p.bill = q.bill /\ p.cycle = q.cycle
                               /\ p.state = (IF q.id = id /\ q.state = "live" THEN how
                                             ELSE q.state)
                               /\ p = (IF q.id = id /\ q.state = "live"
                                         THEN [q EXCEPT !.state = how] ELSE q)
<1>1. PICK q \in payments :
        p = (IF q.id = id /\ q.state = "live" THEN [q EXCEPT !.state = how] ELSE q)
  BY DEF SoftDelete
<1>2. q \in Payment
  BY DEF TypeOK
<1> QED
  BY <1>1, <1>2 DEF Payment

\* So the order of the payments and the one payment per cycle are kept.
LEMMA SoftDeleteKeeps ==
    ASSUME TypeOK, PaymentsAreOrdered, OnePaymentPerCycle,
           NEW id, NEW how \in {"undone", "removed"},
           payments' = SoftDelete(id, how), cycle' = cycle
    PROVE  PaymentsAreOrdered' /\ OnePaymentPerCycle'
<1>1. \A p \in payments' : \E q \in payments :
          /\ p.id = q.id /\ p.bill = q.bill /\ p.cycle = q.cycle
          /\ p.state = (IF q.id = id /\ q.state = "live" THEN how ELSE q.state)
          /\ p = (IF q.id = id /\ q.state = "live" THEN [q EXCEPT !.state = how] ELSE q)
  BY SoftDeleteRows
<1>2. \A p \in payments' : p.cycle <= cycle'[p.bill]
  BY <1>1 DEF PaymentsAreOrdered
<1>3. \A p, q \in payments' : p.id = q.id => p = q
  <2> SUFFICES ASSUME NEW p \in payments', NEW q \in payments', p.id = q.id PROVE p = q
    OBVIOUS
  <2>1. PICK p0 \in payments : p.id = p0.id
          /\ p = (IF p0.id = id /\ p0.state = "live" THEN [p0 EXCEPT !.state = how] ELSE p0)
    BY <1>1
  <2>2. PICK q0 \in payments : q.id = q0.id
          /\ q = (IF q0.id = id /\ q0.state = "live" THEN [q0 EXCEPT !.state = how] ELSE q0)
    BY <1>1
  <2>3. p0 = q0
    BY <2>1, <2>2 DEF PaymentsAreOrdered
  <2> QED
    BY <2>1, <2>2, <2>3
<1>4. \A p, q \in payments' : p.bill = q.bill /\ p.cycle < q.cycle => p.id < q.id
  BY <1>1 DEF PaymentsAreOrdered
<1>5. OnePaymentPerCycle'
  <2> SUFFICES ASSUME NEW p \in payments', NEW q \in payments', p.state = "live",
                      q.state = "live", p.bill = q.bill, p.cycle = q.cycle
               PROVE  p = q
    BY DEF OnePaymentPerCycle
  <2>1. p \in payments /\ q \in payments
    BY <1>1
  <2> QED
    BY <2>1 DEF OnePaymentPerCycle
<1> QED
  BY <1>2, <1>3, <1>4, <1>5 DEF PaymentsAreOrdered

\* A step that touches no payment and no `paid`, and makes no bill vanish.
Quiet ==
    /\ payments' = payments /\ cycle' = cycle
    /\ \A b \in Bill : /\ bills'[b].paid = bills[b].paid
                       /\ bills'[b].status = "absent" => bills[b].status = "absent"

\* Such a step keeps the books ...
LEMMA QuietKeepsBooks ==
    ASSUME BooksInv, Quiet
    PROVE  BooksInv'
<1>1. \A b \in Bill : CurrentPayments(b)' = CurrentPayments(b)
  BY DEF Quiet, CurrentPayments, LivePayments
<1>2. PaymentsAreOrdered' /\ OnePaymentPerCycle' /\ PaidBillHasPayment'
  BY DEF Quiet, BooksInv, PaymentsAreOrdered, OnePaymentPerCycle, PaidBillHasPayment
<1>3. UnpaidBillHasNone'
  BY <1>1 DEF Quiet, BooksInv, UnpaidBillHasNone
<1> QED
  BY <1>2, <1>3 DEF BooksInv

\* ... and what the request in flight knows.
LEMMA QuietKeepsKnowledge ==
    ASSUME Quiet, NEW c \in Client, req'[c] = req[c], TypeOK, RequestKnows(req[c])
    PROVE  RequestKnows(req[c])'
<1>1. CASE req[c] = Idle
  BY <1>1 DEF RequestKnows, Idle
<1>2. CASE req[c] # Idle
  <2>1. req[c].bill \in Bill
    BY <1>2 DEF TypeOK, Request, PayRequest, UnpayRequest
  <2>2. CurrentPayments(req[c].bill)' = CurrentPayments(req[c].bill)
    BY DEF Quiet, CurrentPayments, LivePayments
  <2> QED
    BY <2>1, <2>2 DEF Quiet, RequestKnows, PayKnows, UnpayKnows
<1> QED
  BY <1>1, <1>2

\* Recording a payment of an unpaid bill makes it paid, with one payment of its cycle.
LEMMA PayKeepsBooks ==
    ASSUME TypeOK, BooksInv, NEW c \in Client, RequestKnows(req[c]), CommitPay(c)
    PROVE  BooksInv'
<1> DEFINE r == req[c]
           new == [id |-> r.id, bill |-> r.bill, cycle |-> cycle[r.bill], state |-> "live"]
<1>1. r \in PayRequest /\ PayKnows(r)
  BY DEF CommitPay, TypeOK, Request, Idle, PayRequest, UnpayRequest, RequestKnows
<1>2. r.bill \in Bill /\ r.loaded \in BillRow /\ r.id \in 1 .. MaxPayments
  BY <1>1 DEF PayRequest
<1>3. payments' = payments \union {new} /\ cycle' = cycle
  BY DEF CommitPay
<1>4. /\ \A p \in payments : p \in Payment /\ p.id < new.id /\ p.cycle <= cycle[p.bill]
      /\ new.cycle = cycle[new.bill] /\ new.id \in Nat /\ new.cycle \in Nat /\ new.bill = r.bill
      /\ new.state = "live"
  BY <1>1, <1>2, BoundsAssumption DEF PayKnows, BooksInv, PaymentsAreOrdered, TypeOK
<1>5. CurrentPayments(r.bill) = {}
  BY <1>1, <1>2 DEF PayKnows, BooksInv, UnpaidBillHasNone
<1>6. PaymentsAreOrdered'
  <2>1. \A p \in payments' : p.cycle <= cycle'[p.bill]
    BY <1>3, <1>4
  <2>2. \A p, q \in payments' : p.id = q.id => p = q
    <3> SUFFICES ASSUME NEW p \in payments', NEW q \in payments', p.id = q.id PROVE p = q
      OBVIOUS
    <3>1. \A x \in payments : x.id \in Nat
      BY <1>4, BoundsAssumption DEF Payment
    <3> QED
      BY <1>3, <1>4, <3>1 DEF BooksInv, PaymentsAreOrdered
  <2>3. \A p, q \in payments' : p.bill = q.bill /\ p.cycle < q.cycle => p.id < q.id
    <3> SUFFICES ASSUME NEW p \in payments', NEW q \in payments', p.bill = q.bill,
                        p.cycle < q.cycle
                 PROVE  p.id < q.id
      OBVIOUS
    <3>1. \A x \in payments : x.cycle \in Nat
      BY <1>4 DEF Payment
    <3>2. CASE p = new
      <4>1. q.cycle <= cycle[q.bill]
        BY <1>3, <1>4
      <4>2. q.cycle \in Nat
        BY <1>3, <1>4, <3>1
      <4> QED
        BY <3>2, <4>1, <4>2, <1>4
    <3>3. CASE p \in payments
      BY <3>3, <1>3, <1>4 DEF BooksInv, PaymentsAreOrdered
    <3> QED
      BY <3>2, <3>3, <1>3
  <2> QED
    BY <2>1, <2>2, <2>3 DEF PaymentsAreOrdered
<1>7. OnePaymentPerCycle'
  <2>1. \A p \in payments : ~(p.state = "live" /\ p.bill = new.bill /\ p.cycle = new.cycle)
    BY <1>4, <1>5 DEF CurrentPayments, LivePayments
  <2>2. \A p, q \in payments' :
          (p.state = "live" /\ q.state = "live" /\ p.bill = q.bill /\ p.cycle = q.cycle) => p = q
    BY <1>3, <2>1 DEF BooksInv, OnePaymentPerCycle
  <2> QED
    BY <2>2 DEF OnePaymentPerCycle
<1>8. \A b \in Bill : b # r.bill => bills'[b] = bills[b]
  BY DEF CommitPay, TypeOK
<1>9. bills'[r.bill] \in BillRow /\ bills'[r.bill].paid
      /\ bills'[r.bill].status = bills[r.bill].status
  <2>1. [r.loaded EXCEPT !.paid = TRUE] \in BillRow
        /\ [r.loaded EXCEPT !.paid = TRUE].paid = TRUE
        /\ [r.loaded EXCEPT !.paid = TRUE].status = r.loaded.status
    BY <1>2 DEF BillRow
  <2>2. bills'[r.bill] = Flush(bills[r.bill], r.loaded, [r.loaded EXCEPT !.paid = TRUE])
    BY <1>2 DEF CommitPay, TypeOK
  <2>3. r.loaded.paid = FALSE /\ bills[r.bill] \in BillRow
    BY <1>1, <1>2 DEF PayKnows, BillRow, TypeOK
  <2>4. Flush(bills[r.bill], r.loaded, [r.loaded EXCEPT !.paid = TRUE]).status
          = bills[r.bill].status
    BY <2>1, <2>3, <1>2, FlushKeepsStatus
  <2>5. Flush(bills[r.bill], r.loaded, [r.loaded EXCEPT !.paid = TRUE]).paid
    BY <2>1, <2>3, <1>2, FlushPays
  <2>6. Flush(bills[r.bill], r.loaded, [r.loaded EXCEPT !.paid = TRUE]) \in BillRow
    BY <2>1, <2>3, <1>2, FlushRow
  <2> QED
    BY <2>2, <2>4, <2>5, <2>6
<1>10. PaidBillHasPayment'
  <2> SUFFICES ASSUME NEW b \in Bill, bills'[b].paid
               PROVE  \E p \in payments' : p.bill = b /\ p.cycle = cycle'[b] /\ p.state # "undone"
    BY DEF PaidBillHasPayment
  <2>1. CASE b = r.bill
    BY <2>1, <1>3, <1>4
  <2>2. CASE b # r.bill
    BY <2>2, <1>3, <1>8 DEF BooksInv, PaidBillHasPayment
  <2> QED
    BY <2>1, <2>2
<1>11. UnpaidBillHasNone'
  <2> SUFFICES ASSUME NEW b \in Bill
               PROVE  /\ ~bills'[b].paid => CurrentPayments(b)' = {}
                      /\ bills'[b].status = "absent" => ~bills'[b].paid
    BY DEF UnpaidBillHasNone
  <2>1. CASE b = r.bill
    BY <2>1, <1>1, <1>9 DEF PayKnows
  <2>2. CASE b # r.bill
    <3>1. CurrentPayments(b)' = CurrentPayments(b)
      BY <2>2, <1>3, <1>4 DEF CurrentPayments, LivePayments
    <3> QED
      BY <2>2, <3>1, <1>8 DEF BooksInv, UnpaidBillHasNone
  <2> QED
    BY <2>1, <2>2
<1> QED
  BY <1>6, <1>7, <1>10, <1>11 DEF BooksInv

\* Taking a payment back: the one found is the one of the cycle, and the bill ends unpaid.
LEMMA UnpayKeepsBooks ==
    ASSUME TypeOK, BooksInv, NEW c \in Client, RequestKnows(req[c]), CommitUnpay(c)
    PROVE  BooksInv'
<1> DEFINE r == req[c]
<1>1. r \in UnpayRequest /\ UnpayKnows(r) /\ r.op = "unpay_found"
  BY DEF CommitUnpay, TypeOK, Request, Idle, PayRequest, UnpayRequest, RequestKnows
<1>2. r.bill \in Bill /\ r.loaded \in BillRow
  BY <1>1 DEF UnpayRequest
<1>3. payments' = SoftDelete(r.id, "undone") /\ cycle' = cycle
  BY DEF CommitUnpay
<1>4. PaymentsAreOrdered' /\ OnePaymentPerCycle'
  BY <1>3, SoftDeleteKeeps DEF BooksInv
<1>5. \A b \in Bill : b # r.bill => bills'[b] = bills[b]
  BY DEF CommitUnpay, TypeOK
<1>6. bills'[r.bill].paid = FALSE /\ bills'[r.bill].status = bills[r.bill].status
  <2>1. [r.loaded EXCEPT !.paid = FALSE] \in BillRow
        /\ [r.loaded EXCEPT !.paid = FALSE].paid = FALSE
        /\ [r.loaded EXCEPT !.paid = FALSE].status = r.loaded.status
    BY <1>2 DEF BillRow
  <2>2. bills'[r.bill] = Flush(bills[r.bill], r.loaded, [r.loaded EXCEPT !.paid = FALSE])
    BY <1>2 DEF CommitUnpay, TypeOK
  <2>3. bills[r.bill] \in BillRow
    BY <1>2 DEF TypeOK
  <2>4. Flush(bills[r.bill], r.loaded, [r.loaded EXCEPT !.paid = FALSE]) \in BillRow
    BY <2>1, <2>3, <1>2, FlushRow
  <2>5. Flush(bills[r.bill], r.loaded, [r.loaded EXCEPT !.paid = FALSE]).paid = FALSE
    <3>1. CASE r.loaded.paid = TRUE
      BY <3>1, <2>1, <2>3, <1>2, FlushClearsPaid
    <3>2. CASE r.loaded.paid = FALSE
      <4>1. ~bills[r.bill].paid
        BY <3>2, <1>1 DEF UnpayKnows
      <4>2. Flush(bills[r.bill], r.loaded, [r.loaded EXCEPT !.paid = FALSE]).paid
              => bills[r.bill].paid
        BY <2>1, <2>3, <1>2, FlushNeverPays
      <4> QED
        BY <4>1, <4>2, <2>4 DEF BillRow
    <3> QED
      BY <3>1, <3>2, <1>2 DEF BillRow
  <2>6. Flush(bills[r.bill], r.loaded, [r.loaded EXCEPT !.paid = FALSE]).status
          = bills[r.bill].status
    BY <2>1, <2>3, <1>2, FlushKeepsStatus
  <2> QED
    BY <2>2, <2>5, <2>6
<1>7. \A p \in payments' : \E q \in payments :
          /\ p.id = q.id /\ p.bill = q.bill /\ p.cycle = q.cycle
          /\ p.state = (IF q.id = r.id /\ q.state = "live" THEN "undone" ELSE q.state)
  BY <1>3, SoftDeleteRows
<1>8. PaidBillHasPayment'
  <2> SUFFICES ASSUME NEW b \in Bill, bills'[b].paid
               PROVE  \E p \in payments' : p.bill = b /\ p.cycle = cycle'[b] /\ p.state # "undone"
    BY DEF PaidBillHasPayment
  <2>1. b # r.bill /\ bills[b].paid
    BY <1>5, <1>6
  <2>2. PICK p \in payments : p.bill = b /\ p.cycle = cycle[b] /\ p.state # "undone"
    BY <2>1 DEF BooksInv, PaidBillHasPayment
  <2>3. p.id # r.id
    BY <2>1, <2>2, <1>1 DEF UnpayKnows
  <2>4. p \in payments'
    BY <2>3, <1>3 DEF SoftDelete
  <2> QED
    BY <2>2, <2>4, <1>3
<1>9. UnpaidBillHasNone'
  <2> SUFFICES ASSUME NEW b \in Bill
               PROVE  /\ ~bills'[b].paid => CurrentPayments(b)' = {}
                      /\ bills'[b].status = "absent" => ~bills'[b].paid
    BY DEF UnpaidBillHasNone
  <2>0. \A p \in payments' : p.bill = b /\ p.state = "live" /\ p.cycle = cycle'[b] =>
            \E q \in CurrentPayments(b) : q.id = p.id /\ q.id # r.id
    BY <1>3, <1>7 DEF CurrentPayments, LivePayments
  <2>1. CASE b = r.bill
    <3>1. CurrentPayments(b)' = {}
      BY <2>0, <2>1, <1>1 DEF UnpayKnows, CurrentPayments, LivePayments
    <3> QED
      BY <3>1, <2>1, <1>6
  <2>2. CASE b # r.bill
    <3>1. CurrentPayments(b) = {} => CurrentPayments(b)' = {}
      BY <2>0 DEF CurrentPayments, LivePayments
    <3> QED
      BY <2>2, <3>1, <1>5 DEF BooksInv, UnpaidBillHasNone
  <2> QED
    BY <2>1, <2>2
<1> QED
  BY <1>4, <1>8, <1>9 DEF BooksInv

\* A payment deleted by hand leaves its bill paid, and is not undone.
LEMMA DeleteKeepsBooks ==
    ASSUME TypeOK, BooksInv, NEW t \in payments, DeleteTransaction(t)
    PROVE  BooksInv'
<1>1. payments' = SoftDelete(t.id, "removed") /\ cycle' = cycle /\ bills' = bills
  BY DEF DeleteTransaction
<1>2. PaymentsAreOrdered' /\ OnePaymentPerCycle'
  BY <1>1, SoftDeleteKeeps DEF BooksInv
<1>3. PaidBillHasPayment'
  <2> SUFFICES ASSUME NEW b \in Bill, bills[b].paid
               PROVE  \E p \in payments' : p.bill = b /\ p.cycle = cycle[b] /\ p.state # "undone"
    BY <1>1 DEF PaidBillHasPayment
  <2>1. PICK p \in payments : p.bill = b /\ p.cycle = cycle[b] /\ p.state # "undone"
    BY DEF BooksInv, PaidBillHasPayment
  <2>2. p \in Payment
    BY DEF TypeOK
  <2>3. PICK q \in payments' :
          q = (IF p.id = t.id /\ p.state = "live" THEN [p EXCEPT !.state = "removed"] ELSE p)
    BY <1>1 DEF SoftDelete
  <2>4. q.bill = b /\ q.cycle = cycle[b] /\ q.state # "undone"
    BY <2>1, <2>2, <2>3 DEF Payment
  <2> QED
    BY <2>4
<1>4. UnpaidBillHasNone'
  <2>1. \A p \in payments' : \E q \in payments :
            /\ p.id = q.id /\ p.bill = q.bill /\ p.cycle = q.cycle
            /\ p.state = (IF q.id = t.id /\ q.state = "live" THEN "removed" ELSE q.state)
    BY <1>1, SoftDeleteRows
  <2>2. \A b \in Bill : CurrentPayments(b) = {} => CurrentPayments(b)' = {}
    BY <1>1, <2>1 DEF CurrentPayments, LivePayments
  <2> QED
    BY <1>1, <2>2 DEF BooksInv, UnpaidBillHasNone
<1> QED
  BY <1>2, <1>3, <1>4 DEF BooksInv

\* The rollover opens a cycle that has no payment, and leaves the bill unpaid.
LEMMA RolloverKeepsBooks ==
    ASSUME TypeOK, BooksInv, RolledBillsWerePaid, CommitRollover
    PROVE  /\ BooksInv'
           /\ \A b \in Bill : /\ bills'[b].paid => bills[b].paid
                              /\ bills'[b].status = bills[b].status
                              /\ \A p \in CurrentPayments(b)' : p \in CurrentPayments(b)
<1>0. payments' = payments
  BY DEF CommitRollover
<1>1. \A b \in Bill : b \notin rollover.rolling => bills'[b] = bills[b] /\ cycle'[b] = cycle[b]
  BY DEF CommitRollover
<1>2. ASSUME NEW b \in Bill, b \in rollover.rolling
      PROVE  /\ bills'[b].paid = FALSE /\ bills'[b].status = bills[b].status
             /\ cycle'[b] = cycle[b] + 1
  <2>1. rollover.loaded[b] \in BillRow /\ bills[b] \in BillRow
    BY DEF TypeOK
  <2>2. rollover.loaded[b].paid = TRUE
    BY <1>2, <2>1 DEF RolledBillsWerePaid, BillRow
  <2>3. /\ RolledOver(b, rollover.loaded[b]) \in BillRow
        /\ RolledOver(b, rollover.loaded[b]).paid = FALSE
    BY <2>1, RolledOverRow
  <2>4. RolledOver(b, rollover.loaded[b]).status = rollover.loaded[b].status
    BY <2>1 DEF RolledOver, BillRow
  <2>5. bills'[b] = Flush(bills[b], rollover.loaded[b], RolledOver(b, rollover.loaded[b]))
    BY <1>2 DEF CommitRollover
  <2>6. Flush(bills[b], rollover.loaded[b], RolledOver(b, rollover.loaded[b])).paid = FALSE
    BY <2>1, <2>2, <2>3, FlushClearsPaid
  <2>7. Flush(bills[b], rollover.loaded[b], RolledOver(b, rollover.loaded[b])).status
          = bills[b].status
    BY <2>1, <2>3, <2>4, FlushKeepsStatus
  <2>8. cycle'[b] = cycle[b] + 1
    BY <1>2 DEF CommitRollover
  <2> QED
    BY <2>5, <2>6, <2>7, <2>8
<1>3. \A b \in Bill : cycle[b] \in Nat
  BY DEF TypeOK
<1>4. \A p \in payments : p.bill \in Bill /\ p.cycle \in Nat /\ p.cycle <= cycle[p.bill]
  BY DEF TypeOK, Payment, BooksInv, PaymentsAreOrdered
<1>5. \A p \in payments : p.cycle <= cycle'[p.bill]
  <2> SUFFICES ASSUME NEW p \in payments PROVE p.cycle <= cycle'[p.bill]
    OBVIOUS
  <2>1. p.bill \in Bill /\ p.cycle \in Nat /\ p.cycle <= cycle[p.bill] /\ cycle[p.bill] \in Nat
    BY <1>3, <1>4
  <2>2. CASE p.bill \in rollover.rolling
    <3>1. cycle'[p.bill] = cycle[p.bill] + 1
      BY <1>2, <2>1, <2>2
    <3> QED
      BY <2>1, <3>1
  <2>3. CASE p.bill \notin rollover.rolling
    BY <2>1, <2>3, <1>1
  <2> QED
    BY <2>2, <2>3
<1>6. PaymentsAreOrdered' /\ OnePaymentPerCycle'
  BY <1>0, <1>5 DEF BooksInv, PaymentsAreOrdered, OnePaymentPerCycle
<1>7. ASSUME NEW b \in Bill
      PROVE  /\ bills'[b].paid => bills[b].paid
             /\ bills'[b].status = bills[b].status
             /\ \A p \in CurrentPayments(b)' : p \in CurrentPayments(b)
             /\ b \in rollover.rolling => CurrentPayments(b)' = {}
  <2>1. CASE b \in rollover.rolling
    <3>1. \A p \in payments : p.bill = b => p.cycle # cycle'[b]
      <4> SUFFICES ASSUME NEW p \in payments, p.bill = b PROVE p.cycle # cycle'[b]
        OBVIOUS
      <4>1. p.cycle \in Nat /\ p.cycle <= cycle[b] /\ cycle[b] \in Nat
        BY <1>3, <1>4
      <4>2. cycle'[b] = cycle[b] + 1
        BY <1>2, <2>1
      <4> QED
        BY <4>1, <4>2
    <3>2. CurrentPayments(b)' = {}
      BY <1>0, <3>1 DEF CurrentPayments, LivePayments
    <3> QED
      BY <2>1, <1>2, <3>2
  <2>2. CASE b \notin rollover.rolling
    <3>1. CurrentPayments(b)' = CurrentPayments(b)
      BY <2>2, <1>0, <1>1 DEF CurrentPayments, LivePayments
    <3> QED
      BY <2>2, <1>1, <3>1
  <2> QED
    BY <2>1, <2>2
<1>8. PaidBillHasPayment'
  <2> SUFFICES ASSUME NEW b \in Bill, bills'[b].paid
               PROVE  \E p \in payments' : p.bill = b /\ p.cycle = cycle'[b] /\ p.state # "undone"
    BY DEF PaidBillHasPayment
  <2>1. b \notin rollover.rolling
    BY <1>2
  <2> QED
    BY <2>1, <1>0, <1>1 DEF BooksInv, PaidBillHasPayment
<1>9. UnpaidBillHasNone'
  <2> SUFFICES ASSUME NEW b \in Bill
               PROVE  /\ ~bills'[b].paid => CurrentPayments(b)' = {}
                      /\ bills'[b].status = "absent" => ~bills'[b].paid
    BY DEF UnpaidBillHasNone
  <2>1. CASE b \in rollover.rolling
    BY <2>1, <1>2, <1>7
  <2>2. CASE b \notin rollover.rolling
    <3>1. CurrentPayments(b) = {} => CurrentPayments(b)' = {}
      BY <1>7
    <3> QED
      BY <2>2, <1>1, <3>1 DEF BooksInv, UnpaidBillHasNone
  <2> QED
    BY <2>1, <2>2
<1> QED
  BY <1>6, <1>7, <1>8, <1>9 DEF BooksInv

\* The payment an unpay finds is the one of the current cycle, if the bill has one.
LEMMA FindsThePayment ==
    ASSUME TypeOK, BooksInv, NEW b \in Bill, NEW id \in FindTransactionForBill(b)
    PROVE  /\ \A p \in payments : p.id = id => p.bill = b
           /\ \A p \in CurrentPayments(b) : p.id = id
<1>1. \A p \in payments : p \in Payment /\ p.id \in 1 .. MaxPayments
  BY DEF TypeOK, Payment
<1>2. \A p \in CurrentPayments(b) : p \in LatestPayment(b)
  <2> SUFFICES ASSUME NEW p \in CurrentPayments(b), NEW q \in LivePayments(b)
               PROVE  q.id <= p.id
    BY DEF LatestPayment, CurrentPayments
  <2>1. /\ p \in payments /\ p.bill = b /\ p.state = "live" /\ p.cycle = cycle[b]
        /\ q \in payments /\ q.bill = b /\ q.state = "live" /\ q.cycle <= cycle[b]
    BY DEF CurrentPayments, LivePayments, BooksInv, PaymentsAreOrdered
  <2>2. p.cycle \in Nat /\ q.cycle \in Nat /\ p.id \in Nat /\ q.id \in Nat
    BY <2>1, <1>1, BoundsAssumption DEF Payment
  <2>3. CASE q.cycle < p.cycle
    <3>1. q.id < p.id
      BY <2>1, <2>3 DEF BooksInv, PaymentsAreOrdered
    <3> QED
      BY <3>1, <2>2
  <2>4. CASE q.cycle = p.cycle
    <3>1. p = q
      BY <2>1, <2>4 DEF BooksInv, OnePaymentPerCycle
    <3> QED
      BY <3>1, <2>2
  <2> QED
    BY <2>1, <2>2, <2>3, <2>4
<1>3. \A p, q \in LatestPayment(b) : p.id = q.id
  <2> SUFFICES ASSUME NEW p \in LatestPayment(b), NEW q \in LatestPayment(b) PROVE p.id = q.id
    OBVIOUS
  <2>1. p.id <= q.id /\ q.id <= p.id
    BY DEF LatestPayment
  <2>2. p.id \in Nat /\ q.id \in Nat
    BY <1>1, BoundsAssumption DEF LatestPayment, LivePayments
  <2> QED
    BY <2>1, <2>2
<1>4. CASE LatestPayment(b) = {}
  <2>1. id = 0
    BY <1>4 DEF FindTransactionForBill, NoPayment
  <2> QED
    BY <1>1, <1>2, <1>4, <2>1
<1>5. CASE LatestPayment(b) # {}
  <2>1. PICK l \in LatestPayment(b) : id = l.id
    BY <1>5 DEF FindTransactionForBill
  <2>2. l \in payments /\ l.bill = b
    BY DEF LatestPayment, LivePayments
  <2>3. \A p \in payments : p.id = id => p = l
    BY <2>1, <2>2 DEF BooksInv, PaymentsAreOrdered
  <2> QED
    BY <1>2, <1>3, <2>1, <2>2, <2>3
<1> QED
  BY <1>4, <1>5

\* On one device every step keeps the invariant.
LEMMA OneDeviceStep ==
    ASSUME OneDevice, TypeOK, RolledBillsWerePaid, OneDeviceInv, [Next]_vars
    PROVE  OneDeviceInv'
<1>0. BooksInv /\ \A c \in Client : RequestKnows(req[c])
  BY DEF OneDeviceInv

\* A quiet step that leaves the requests alone.
<1>a. ASSUME Quiet, req' = req PROVE OneDeviceInv'
  BY <1>0, <1>a, QuietKeepsBooks, QuietKeepsKnowledge DEF OneDeviceInv

\* A step of the one client that leaves it idle.
<1>b. ASSUME NEW c \in Client, Finish(c), BooksInv' PROVE OneDeviceInv'
  <2>1. \A d \in Client : req'[d] = Idle
    BY <1>b DEF OneDevice, Finish, TypeOK
  <2>2. \A d \in Client : RequestKnows(req[d])'
    BY <2>1 DEF RequestKnows, Idle
  <2> QED
    BY <1>b, <2>2 DEF OneDeviceInv

\* A step in which the one client reads.
<1>c. ASSUME NEW c \in Client, Quiet, NEW r, req' = [req EXCEPT ![c] = r], RequestKnows(r)'
      PROVE  OneDeviceInv'
  <2>1. \A d \in Client : req'[d] = r
    BY <1>c DEF OneDevice, TypeOK
  <2>2. \A d \in Client : RequestKnows(req[d])'
    BY <1>c, <2>1
  <2> QED
    BY <1>0, <1>c, <2>2, QuietKeepsBooks DEF OneDeviceInv
<1>1. ASSUME NEW b \in Bill, NEW d \in Day, CreateBill(b, d) PROVE OneDeviceInv'
  <2>1. bills[b].paid = FALSE /\ \A x \in Bill : bills[x] \in BillRow
    BY <1>0, <1>1 DEF CreateBill, BooksInv, UnpaidBillHasNone, TypeOK, BillRow
  <2>2. bills'[b].paid = FALSE /\ bills'[b].status = "live"
        /\ \A x \in Bill : x # b => bills'[x] = bills[x]
    BY <1>1 DEF CreateBill, TypeOK
  <2>3. Quiet
    BY <1>1, <2>1, <2>2 DEF CreateBill, Quiet
  <2> QED
    BY <1>1, <1>a, <2>3 DEF CreateBill
<1>2. ASSUME NEW b \in Bill, NEW d \in Day, UpdateBill(b, d) PROVE OneDeviceInv'
  <2>1. Quiet
    BY <1>2 DEF UpdateBill, Quiet, TypeOK, BillRow
  <2> QED
    BY <1>2, <1>a, <2>1 DEF UpdateBill
<1>3. ASSUME NEW b \in Bill, DeleteBill(b) PROVE OneDeviceInv'
  <2>1. Quiet
    BY <1>3 DEF DeleteBill, Quiet, TypeOK, BillRow
  <2> QED
    BY <1>3, <1>a, <2>1 DEF DeleteBill
<1>4. ASSUME NEW c \in Client, NEW b \in Bill, LoadForPay(c, b) PROVE OneDeviceInv'
  <2>1. PICK id \in FreeIds :
          req' = [req EXCEPT ![c] = [op |-> "pay", bill |-> b, loaded |-> bills[b], id |-> id]]
    BY <1>4 DEF LoadForPay
  <2> DEFINE r == [op |-> "pay", bill |-> b, loaded |-> bills[b], id |-> id]
  <2>2. \A p \in payments : p.id < id
    BY DEF FreeIds, TakenIds
  <2>3. PICK row \in BillRow : row = bills[b] /\ row.status = "live" /\ row.paid = FALSE
    BY <1>4 DEF LoadForPay, Live, TypeOK, BillRow
  <2>4. PICK x : x = [op |-> "pay", bill |-> b, loaded |-> row, id |-> id]
    OBVIOUS
  <2>5. x.op = "pay" /\ x.bill = b /\ x.loaded = row /\ x.id = id
    BY <2>4
  <2>6. bills' = bills /\ payments' = payments
    BY <1>4 DEF LoadForPay
  <2>7. RequestKnows(x)'
    BY <2>2, <2>3, <2>5, <2>6 DEF RequestKnows, PayKnows
  <2>8. Quiet /\ req' = [req EXCEPT ![c] = x]
    BY <1>4, <2>1, <2>3, <2>4 DEF LoadForPay, Quiet
  <2> QED
    BY <1>c, <2>7, <2>8
<1>5. ASSUME NEW c \in Client, CommitPay(c) PROVE OneDeviceInv'
  BY <1>0, <1>5, <1>b, PayKeepsBooks DEF CommitPay
<1>6. ASSUME NEW c \in Client, NEW b \in Bill, LoadForUnpay(c, b) PROVE OneDeviceInv'
  <2>1. PICK row \in BillRow : row = bills[b] /\ row.status = "live"
    BY <1>6 DEF LoadForUnpay, Live, TypeOK
  <2>2. PICK x : x = [op |-> "unpay", bill |-> b, loaded |-> row, id |-> NoPayment]
    OBVIOUS
  <2>3. x.op = "unpay" /\ x.bill = b /\ x.loaded = row
    BY <2>2
  <2>4. bills' = bills
    BY <1>6 DEF LoadForUnpay
  <2>5. RequestKnows(x)'
    BY <2>1, <2>3, <2>4 DEF RequestKnows, UnpayKnows
  <2>6. Quiet /\ req' = [req EXCEPT ![c] = x]
    BY <1>6, <2>1, <2>2 DEF LoadForUnpay, Quiet
  <2> QED
    BY <1>c, <2>5, <2>6
<1>7. ASSUME NEW c \in Client, FindPayment(c) PROVE OneDeviceInv'
  <2>1. PICK old \in UnpayRequest : old = req[c] /\ old.op = "unpay"
    BY <1>7 DEF FindPayment, TypeOK, Request, Idle, PayRequest, UnpayRequest
  <2>2. PICK id \in FindTransactionForBill(old.bill) :
          req' = [req EXCEPT ![c] = [old EXCEPT !.op = "unpay_found", !.id = id]]
    BY <1>7, <2>1 DEF FindPayment
  <2>3. old.bill \in Bill
    BY <2>1 DEF UnpayRequest
  <2>4. PICK x : x = [old EXCEPT !.op = "unpay_found", !.id = id]
    OBVIOUS
  <2>5. x.op = "unpay_found" /\ x.bill = old.bill /\ x.loaded = old.loaded /\ x.id = id
    BY <2>1, <2>4 DEF UnpayRequest
  <2>6. bills[old.bill].status # "absent" /\ (~old.loaded.paid => ~bills[old.bill].paid)
    BY <1>0, <2>1 DEF RequestKnows, UnpayKnows
  <2>7. /\ \A p \in payments : p.id = id => p.bill = old.bill
        /\ \A p \in CurrentPayments(old.bill) : p.id = id
    BY <1>0, <2>2, <2>3, FindsThePayment
  <2>8. bills' = bills /\ payments' = payments /\ cycle' = cycle
    BY <1>7 DEF FindPayment
  <2>9. CurrentPayments(old.bill)' = CurrentPayments(old.bill)
    BY <2>8 DEF CurrentPayments, LivePayments
  <2>10. RequestKnows(x)'
    BY <2>5, <2>6, <2>7, <2>8, <2>9 DEF RequestKnows, UnpayKnows
  <2>11. Quiet /\ req' = [req EXCEPT ![c] = x]
    BY <2>2, <2>4, <2>8 DEF Quiet
  <2> QED
    BY <1>c, <2>10, <2>11
<1>8. ASSUME NEW c \in Client, CommitUnpay(c) PROVE OneDeviceInv'
  BY <1>0, <1>8, <1>b, UnpayKeepsBooks DEF CommitUnpay
<1>9. ASSUME NEW c \in Client, RollBack(c) PROVE OneDeviceInv'
  <2>1. Quiet
    BY <1>9 DEF RollBack, Quiet
  <2> QED
    BY <1>0, <1>9, <1>b, <2>1, QuietKeepsBooks DEF RollBack
<1>10. ASSUME NEW t \in payments, DeleteTransaction(t) PROVE OneDeviceInv'
  <2>1. payments' = SoftDelete(t.id, "removed") /\ cycle' = cycle /\ bills' = bills /\ req' = req
    BY <1>10 DEF DeleteTransaction
  <2>2. \A p \in payments' : \E q \in payments :
            /\ p.id = q.id /\ p.bill = q.bill /\ p.cycle = q.cycle
            /\ p.state = (IF q.id = t.id /\ q.state = "live" THEN "removed" ELSE q.state)
    BY <2>1, SoftDeleteRows
  <2>3. \A b : \A p \in CurrentPayments(b)' : \E q \in CurrentPayments(b) : p.id = q.id
    BY <2>1, <2>2 DEF CurrentPayments, LivePayments
  <2>4. ASSUME NEW c \in Client PROVE RequestKnows(req[c])'
    <3>1. PICK r : r = req[c]
      OBVIOUS
    <3>2. RequestKnows(r)
      BY <1>0, <3>1
    <3>3. r.op = "pay" => \A p \in payments' : p.id < r.id
      BY <2>2, <3>2 DEF RequestKnows, PayKnows
    <3>4. ASSUME r.op = "unpay_found"
          PROVE  /\ \A p \in payments' : p.id = r.id => p.bill = r.bill
                 /\ \A p \in CurrentPayments(r.bill)' : p.id = r.id
      <4>1. UnpayKnows(r)
        BY <3>2, <3>4 DEF RequestKnows
      <4> QED
        BY <2>2, <2>3, <3>4, <4>1 DEF UnpayKnows
    <3>5. RequestKnows(r)'
      BY <2>1, <3>2, <3>3, <3>4 DEF RequestKnows, PayKnows, UnpayKnows
    <3> QED
      BY <2>1, <3>1, <3>5
  <2> QED
    BY <1>0, <1>10, <2>4, DeleteKeepsBooks DEF OneDeviceInv
<1>11. CASE LoadRollover
  BY <1>11, <1>a DEF LoadRollover, Quiet
<1>12. CASE CommitRollover
  <2>1. req' = req /\ payments' = payments
    BY <1>12 DEF CommitRollover
  <2>2. /\ BooksInv'
        /\ \A b \in Bill : /\ bills'[b].paid => bills[b].paid
                           /\ bills'[b].status = bills[b].status
                           /\ \A p \in CurrentPayments(b)' : p \in CurrentPayments(b)
    BY <1>0, <1>12, RolloverKeepsBooks
  <2>3. ASSUME NEW c \in Client PROVE RequestKnows(req[c])'
    <3>1. RequestKnows(req[c])
      BY <1>0
    <3>2. CASE req[c] = Idle
      BY <2>1, <3>2 DEF RequestKnows, Idle
    <3>3. CASE req[c] # Idle
      <4>1. req[c].bill \in Bill
        BY <3>3 DEF TypeOK, Request, PayRequest, UnpayRequest
      <4> QED
        BY <2>1, <2>2, <3>1, <4>1 DEF RequestKnows, PayKnows, UnpayKnows
    <3> QED
      BY <3>2, <3>3
  <2> QED
    BY <2>2, <2>3 DEF OneDeviceInv
<1>13. CASE RolloverCrash
  BY <1>13, <1>a DEF RolloverCrash, Quiet
<1>14. CASE NextDay
  BY <1>14, <1>a DEF NextDay, Quiet
<1>15. CASE UNCHANGED vars
  BY <1>15, <1>a DEF vars, Quiet
<1> QED
  BY <1>1, <1>2, <1>3, <1>4, <1>5, <1>6, <1>7, <1>8, <1>9, <1>10, <1>11, <1>12, <1>13,
     <1>14, <1>15 DEF Next

\* So it holds in every reachable state, with the types and with what the rollover read.
LEMMA OneDeviceIsInvariant ==
    ASSUME OneDevice
    PROVE  Spec => []OneDeviceInv
<1>1. Init => OneDeviceInv
  BY DEF Init, OneDeviceInv, BooksInv, PaymentsAreOrdered, OnePaymentPerCycle, PaidBillHasPayment,
         UnpaidBillHasNone, CurrentPayments, LivePayments, RequestKnows, NoRow, Idle
<1>2. TypeOK /\ RolledBillsWerePaid /\ OneDeviceInv /\ [Next]_vars => OneDeviceInv'
  BY OneDeviceStep
<1> QED
  BY <1>1, <1>2, TypeCorrect, RolledOnlyPaid, PTL DEF Spec

\* Whatever the rollover does in between, a user on one device never pays a cycle twice.
THEOREM PaidOncePerCycle ==
    ASSUME OneDevice
    PROVE  Spec => []OnePaymentPerCycle
<1>1. OneDeviceInv => OnePaymentPerCycle
  BY DEF OneDeviceInv, BooksInv
<1> QED
  BY <1>1, OneDeviceIsInvariant, PTL

\* And what shows as paid has its payment in the books, unless the user deleted it there.
THEOREM PaidBillsHavePayments ==
    ASSUME OneDevice
    PROVE  Spec => []PaidBillHasPayment
<1>1. OneDeviceInv => PaidBillHasPayment
  BY DEF OneDeviceInv, BooksInv
<1> QED
  BY <1>1, OneDeviceIsInvariant, PTL

-----------------------------------------------------------------------------
(* Every closed cycle was paid for.  Not inductive by itself: that a cycle *)
(* is paid for has to be known when the rollover reads the bill, and has   *)
(* to outlast an unpay that commits before the rollover does.              *)

\* Payment p pays for cycle k of bill b, as far as the rollover could know.
PaysFor(p, b, k) == p.bill = b /\ p.cycle = k /\ (p.state = "undone" => p.id \in late)

PaidFor(b, k) == \E p \in payments : PaysFor(p, b, k)

\* The cycles that are closed, and the ones that the rollover is about to close.
CyclesInv ==
    \A b \in Bill : /\ \A k \in 0 .. cycle[b] - 1 : PaidFor(b, k)
                    /\ b \in rollover.rolling => PaidFor(b, cycle[b])

\* A payment that is undone after the rollover read its bill still pays for its cycle.
LEMMA UnpayKeepsPaidFor ==
    ASSUME TypeOK, NEW c \in Client, CommitUnpay(c), NEW b \in Bill, NEW k \in Nat, PaidFor(b, k),
           k < cycle[b] \/ (k = cycle[b] /\ b \in rollover.rolling)
    PROVE  PaidFor(b, k)'
<1>1. PICK p \in payments : PaysFor(p, b, k)
  BY DEF PaidFor
<1>2. p \in Payment
  BY DEF TypeOK
<1>3. payments' = SoftDelete(req[c].id, "undone")
      /\ late' = late \union {q.id : q \in {x \in payments : /\ x.id = req[c].id
                                                         /\ x.state = "live"
                                                         /\ UnseenByRollover(x)}}
  BY DEF CommitUnpay
<1>4. CASE p.id = req[c].id /\ p.state = "live"
  <2>1. UnseenByRollover(p)
    BY <1>1 DEF PaysFor, UnseenByRollover
  <2>2. p.id \in late'
    BY <1>3, <1>4, <2>1
  <2>3. [p EXCEPT !.state = "undone"] \in payments'
    BY <1>3, <1>4 DEF SoftDelete
  <2>4. PaysFor([p EXCEPT !.state = "undone"], b, k)'
    BY <1>1, <1>2, <2>2 DEF PaysFor, Payment
  <2> QED
    BY <2>3, <2>4 DEF PaidFor
<1>5. CASE ~(p.id = req[c].id /\ p.state = "live")
  <2>1. p \in payments' /\ late \subseteq late'
    BY <1>3, <1>5 DEF SoftDelete
  <2> QED
    BY <1>1, <2>1 DEF PaidFor, PaysFor
<1> QED
  BY <1>4, <1>5

\* So does one that is deleted by hand.
LEMMA DeleteKeepsPaidFor ==
    ASSUME TypeOK, NEW t \in payments, DeleteTransaction(t), NEW b, NEW k, PaidFor(b, k)
    PROVE  PaidFor(b, k)'
<1>1. PICK p \in payments : PaysFor(p, b, k)
  BY DEF PaidFor
<1>2. p \in Payment
  BY DEF TypeOK
<1>3. payments' = SoftDelete(t.id, "removed") /\ late' = late
  BY DEF DeleteTransaction
<1>4. PICK q \in payments' :
        q = (IF p.id = t.id /\ p.state = "live" THEN [p EXCEPT !.state = "removed"] ELSE p)
  BY <1>3 DEF SoftDelete
<1>5. q.bill = p.bill /\ q.cycle = p.cycle /\ q.id = p.id /\ (q.state = "undone" => p.state = "undone")
  BY <1>2, <1>4 DEF Payment
<1> QED
  BY <1>1, <1>3, <1>4, <1>5 DEF PaidFor, PaysFor

\* Every step keeps CyclesInv, on one device.
LEMMA CyclesStep ==
    ASSUME TypeOK, BooksInv, CyclesInv, [Next]_vars
    PROVE  CyclesInv'
<1>0. \A b \in Bill : cycle[b] \in Nat
  BY DEF TypeOK
\* A step that leaves payments, cycles and the rollover's list alone.
<1>a. ASSUME payments \subseteq payments', late' = late, cycle' = cycle,
             rollover'.rolling \subseteq rollover.rolling
      PROVE  CyclesInv'
  BY <1>a DEF CyclesInv, PaidFor, PaysFor
<1>1. ASSUME NEW b \in Bill, NEW d \in Day, CreateBill(b, d) PROVE CyclesInv'
  BY <1>1, <1>a DEF CreateBill
<1>2. ASSUME NEW b \in Bill, NEW d \in Day, UpdateBill(b, d) PROVE CyclesInv'
  BY <1>2, <1>a DEF UpdateBill
<1>3. ASSUME NEW b \in Bill, DeleteBill(b) PROVE CyclesInv'
  BY <1>3, <1>a DEF DeleteBill
<1>4. ASSUME NEW c \in Client, NEW b \in Bill, LoadForPay(c, b) PROVE CyclesInv'
  BY <1>4, <1>a DEF LoadForPay
<1>5. ASSUME NEW c \in Client, CommitPay(c) PROVE CyclesInv'
  BY <1>5, <1>a DEF CommitPay
<1>6. ASSUME NEW c \in Client, NEW b \in Bill, LoadForUnpay(c, b) PROVE CyclesInv'
  BY <1>6, <1>a DEF LoadForUnpay
<1>7. ASSUME NEW c \in Client, FindPayment(c) PROVE CyclesInv'
  BY <1>7, <1>a DEF FindPayment
<1>8. ASSUME NEW c \in Client, CommitUnpay(c) PROVE CyclesInv'
  <2>1. cycle' = cycle /\ rollover' = rollover
    BY <1>8 DEF CommitUnpay
  <2> SUFFICES ASSUME NEW b \in Bill
               PROVE  /\ \A k \in 0 .. cycle[b] - 1 : PaidFor(b, k)'
                      /\ b \in rollover.rolling => PaidFor(b, cycle[b])'
    BY <2>1 DEF CyclesInv, PaidFor, PaysFor
  <2>2. ASSUME NEW k \in 0 .. cycle[b] - 1 PROVE PaidFor(b, k)'
    <3>1. k \in Nat /\ k < cycle[b] /\ PaidFor(b, k)
      BY <1>0 DEF CyclesInv
    <3> QED
      BY <1>8, <3>1, UnpayKeepsPaidFor
  <2>3. ASSUME b \in rollover.rolling PROVE PaidFor(b, cycle[b])'
    <3>1. PICK k \in Nat : k = cycle[b]
      BY <1>0
    <3>2. PaidFor(b, k)
      BY <2>3, <3>1 DEF CyclesInv
    <3>3. PaidFor(b, k)'
      BY <1>8, <2>3, <3>1, <3>2, UnpayKeepsPaidFor
    <3> QED
      BY <2>1, <3>1, <3>3
  <2> QED
    BY <2>2, <2>3
<1>9. ASSUME NEW c \in Client, RollBack(c) PROVE CyclesInv'
  BY <1>9, <1>a DEF RollBack
<1>10. ASSUME NEW t \in payments, DeleteTransaction(t) PROVE CyclesInv'
  <2>1. cycle' = cycle /\ rollover' = rollover
    BY <1>10 DEF DeleteTransaction
  <2>2. \A b, k : PaidFor(b, k) => PaidFor(b, k)'
    BY <1>10, DeleteKeepsPaidFor
  <2> QED
    BY <2>1, <2>2 DEF CyclesInv
<1>11. CASE LoadRollover
  <2>1. payments' = payments /\ late' = late /\ cycle' = cycle
        /\ rollover'.rolling = {b \in Bill : Rolls(b)}
    BY <1>11 DEF LoadRollover
  <2>2. \A b \in Bill : Rolls(b) => PaidFor(b, cycle[b])
    BY DEF Rolls, BooksInv, PaidBillHasPayment, PaidFor, PaysFor
  <2> QED
    BY <2>1, <2>2 DEF CyclesInv, PaidFor, PaysFor
<1>12. CASE CommitRollover
  <2>1. payments' = payments /\ late' = late /\ rollover'.rolling = {}
    BY <1>12 DEF CommitRollover, NotRunning
  <2>2. \A b, k : PaidFor(b, k) => PaidFor(b, k)'
    BY <2>1 DEF PaidFor, PaysFor
  <2> SUFFICES ASSUME NEW b \in Bill, NEW k \in 0 .. cycle'[b] - 1 PROVE PaidFor(b, k)'
    BY <2>1 DEF CyclesInv
  <2>3. CASE b \in rollover.rolling
    <3>1. cycle'[b] = cycle[b] + 1
      BY <1>12, <2>3 DEF CommitRollover
    <3>2. k \in 0 .. cycle[b] - 1 \/ k = cycle[b]
      BY <1>0, <3>1
    <3> QED
      BY <2>2, <2>3, <3>2 DEF CyclesInv
  <2>4. CASE b \notin rollover.rolling
    <3>1. cycle'[b] = cycle[b]
      BY <1>12, <2>4 DEF CommitRollover
    <3> QED
      BY <2>2, <3>1 DEF CyclesInv
  <2> QED
    BY <2>3, <2>4
<1>13. CASE RolloverCrash
  <2>1. payments' = payments /\ cycle' = cycle /\ rollover'.rolling = {}
        /\ late' = late \ {p.id : p \in {q \in payments : q.cycle = cycle[q.bill]}}
    BY <1>13 DEF RolloverCrash, NotRunning
  <2> SUFFICES ASSUME NEW b \in Bill, NEW k \in 0 .. cycle[b] - 1 PROVE PaidFor(b, k)'
    BY <2>1 DEF CyclesInv
  <2>2. PICK p \in payments : PaysFor(p, b, k)
    BY DEF CyclesInv, PaidFor
  <2>3. ASSUME NEW q \in payments, q.cycle = cycle[q.bill] PROVE q.id # p.id
    <3>1. k # cycle[b]
      BY <1>0
    <3>2. q # p
      BY <2>2, <2>3, <3>1 DEF PaysFor
    <3> QED
      BY <3>2 DEF BooksInv, PaymentsAreOrdered
  <2>4. p.id \in late => p.id \in late'
    BY <2>1, <2>3
  <2> QED
    BY <2>1, <2>2, <2>4 DEF PaidFor, PaysFor
<1>14. CASE NextDay
  BY <1>14, <1>a DEF NextDay
<1>15. CASE UNCHANGED vars
  BY <1>15, <1>a DEF vars
<1> QED
  BY <1>1, <1>2, <1>3, <1>4, <1>5, <1>6, <1>7, <1>8, <1>9, <1>10, <1>11, <1>12, <1>13,
     <1>14, <1>15 DEF Next

\* Every cycle the rollover closed on a user with one device was paid for, in a payment
\* that still counts or that went when the rollover had already read the bill.
THEOREM ClosedCyclesPaid ==
    ASSUME OneDevice
    PROVE  Spec => []ClosedCyclesWerePaid
<1>1. Init => CyclesInv
  BY DEF Init, CyclesInv, NotRunning
<1>2. TypeOK /\ OneDeviceInv /\ CyclesInv /\ [Next]_vars => CyclesInv'
  BY CyclesStep DEF OneDeviceInv
<1>3. CyclesInv => ClosedCyclesWerePaid
  BY DEF CyclesInv, ClosedCyclesWerePaid, PaidFor, PaysFor
<1> QED
  BY <1>1, <1>2, <1>3, TypeCorrect, OneDeviceIsInvariant, PTL DEF Spec

\* What an unpay takes back from a paid bill is the payment of the cycle that shows as
\* paid, on one device, or that one was deleted by hand.
THEOREM UnpaysThisCycle ==
    ASSUME OneDevice
    PROVE  Spec => UnpayUndoesThisCycle
<1> DEFINE Same(p) == \/ p.cycle = cycle[p.bill]
                      \/ \E q \in payments : /\ q.bill = p.bill /\ q.cycle = cycle[p.bill]
                                             /\ q.state = "removed"
           Undoes == \A c \in Client : CommitUnpay(c) /\ bills[req[c].bill].paid =>
                        \A p \in payments : p.id = req[c].id => Same(p)
<1>1. ASSUME TypeOK, OneDeviceInv PROVE Undoes
  <2> SUFFICES ASSUME NEW c \in Client, CommitUnpay(c), bills[req[c].bill].paid,
                      NEW p \in payments, p.id = req[c].id
               PROVE  Same(p)
    OBVIOUS
  <2>1. PICK r : r = req[c]
    OBVIOUS
  <2>2. r.op = "unpay_found" /\ r.bill \in Bill /\ UnpayKnows(r)
    BY <1>1, <2>1 DEF CommitUnpay, TypeOK, Request, Idle, PayRequest, UnpayRequest, OneDeviceInv,
                      RequestKnows
  <2>3. p.bill = r.bill /\ \A q \in CurrentPayments(r.bill) : q.id = r.id
    BY <2>1, <2>2 DEF UnpayKnows
  <2>4. PICK q \in payments : q.bill = r.bill /\ q.cycle = cycle[r.bill] /\ q.state # "undone"
    BY <1>1, <2>1, <2>2 DEF OneDeviceInv, BooksInv, PaidBillHasPayment
  <2>5. CASE q.state = "removed"
    BY <2>3, <2>4, <2>5
  <2>6. CASE q.state = "live"
    <3>1. q \in CurrentPayments(r.bill)
      BY <2>4, <2>6 DEF CurrentPayments, LivePayments
    <3>2. q.id = p.id
      BY <2>1, <2>3, <3>1
    <3>3. q = p
      BY <1>1, <3>2 DEF OneDeviceInv, BooksInv, PaymentsAreOrdered
    <3> QED
      BY <2>3, <2>4, <3>3
  <2>7. q \in Payment
    BY <1>1 DEF TypeOK
  <2> QED
    BY <2>5, <2>6, <2>4, <2>7 DEF Payment
<1> HIDE DEF Undoes, Same
<1>2. TypeOK /\ OneDeviceInv => Undoes
  BY <1>1
<1>3. Spec => [][Undoes]_vars
  BY <1>2, TypeCorrect, OneDeviceIsInvariant, PTL DEF Spec
<1>4. Undoes <=> \A c \in Client : CommitUnpay(c) /\ bills[req[c].bill].paid =>
         \A p \in payments : p.id = req[c].id =>
            \/ p.cycle = cycle[p.bill]
            \/ \E q \in payments : /\ q.bill = p.bill /\ q.cycle = cycle[p.bill]
                                   /\ q.state = "removed"
  BY DEF Undoes, Same
<1> QED
  BY <1>3, <1>4, PTL DEF UnpayUndoesThisCycle
=============================================================================
