-------------------------- MODULE PaidTogglesProofs --------------------------
(***************************************************************************)
(* Proofs about PaidToggles for any items, devices and months, and any     *)
(* number of payments: type correctness, at most one payment per subject,  *)
(* that a toggle flips its subject, and that every step is one PaidRegister *)
(* allows.                                                                 *)
(***************************************************************************)
EXTENDS PaidToggles, TLAPS

\* What a request was told by its lookup: a payment is recorded only where none was
\* found and removed only where one was.
DecidedOnLookup ==
    \A c \in Client : /\ req[c].op = "pay" => req[c].seen = {}
                      /\ req[c].op = "unpay" => req[c].seen # {}

\* A place in created_at order is one row's, or one request's.
OwnIds ==
    /\ \A p, q \in payments : p.id = q.id => p = q
    /\ \A c \in Client : req[c].op # "idle" =>
         /\ \A p \in payments : p.id # req[c].id
         /\ \A d \in Client \ {c} : req[d].op # "idle" => req[d].id # req[c].id

Inv == TypeOK /\ DecidedOnLookup /\ OwnIds /\ OnePayment

-----------------------------------------------------------------------------
(* The operators.                                                          *)

\* A payment is of a subject.
LEMMA AboutType ==
    ASSUME NEW i \in Item, NEW m \in Month
    PROVE  About(i, m) \in Subject /\ About(i, m)[1] = i
BY DEF About, Subject, Period

\* A request in flight is of a subject, and so is every payment.
LEMMA RequestType ==
    ASSUME TypeOK, NEW c \in Client, req[c].op # "idle"
    PROVE  /\ req[c].item \in Item
           /\ req[c].month \in Month
           /\ req[c].id \in Id
           /\ AboutOf(c) \in Subject
<1>1. req[c] \in Asked \union Decided
  BY DEF TypeOK, Idle
<1>2. req[c].item \in Item /\ req[c].month \in Month /\ req[c].id \in Id
  BY <1>1 DEF Asked, Decided
<1> QED
  BY <1>2, AboutType DEF AboutOf

\* A new place in created_at order is nobody's.
LEMMA NewIdsAreFree ==
    ASSUME TypeOK, NEW id \in NewIds
    PROVE  /\ id \in Id
           /\ \A p \in payments : p.id # id
           /\ \A c \in Client : req[c].op # "idle" => req[c].id # id
<1>1. id \in Id /\ \A t \in TakenIds : t < id
  BY DEF NewIds, FreeIds
<1>2. ASSUME NEW p \in payments PROVE p.id # id
  <2>1. p.id < id
    BY <1>1 DEF TakenIds
  <2> QED
    BY <1>1, <2>1 DEF TypeOK, Payment, Id
<1>3. ASSUME NEW c \in Client, req[c].op # "idle" PROVE req[c].id # id
  <2>1. req[c].id < id
    BY <1>1, <1>3 DEF TakenIds
  <2> QED
    BY <1>1, <2>1, <1>3, RequestType DEF Id
<1> QED
  BY <1>1, <1>2, <1>3

\* A row marked deleted is a row.
LEMMA DeadType ==
    ASSUME NEW p \in Payment
    PROVE  /\ Dead(p) \in Payment
           /\ Dead(p).id = p.id
           /\ Dead(p).item = p.item
           /\ Dead(p).month = p.month
           /\ ~Dead(p).live
BY DEF Dead, Payment

\* Removing leaves rows, and among the live ones only rows that were there.
LEMMA RemovedRows ==
    ASSUME TypeOK, NEW found
    PROVE  /\ Removed(found) \subseteq Payment
           /\ \A p \in Removed(found) : p.live => p \in payments /\ p.id # found.id
           /\ \A p \in payments : p.id # found.id => p \in Removed(found)
           /\ \A p \in Removed(found) : \E q \in payments : p = q \/ p = Dead(q)
BY DeadType DEF TypeOK, Removed

-----------------------------------------------------------------------------
(* Type correctness.                                                       *)

\* One record of a decided request.
LEMMA DecideType ==
    ASSUME TypeOK, NEW c \in Client, NEW op \in {"pay", "unpay"}, req[c].op = "toggle",
           Decide(c, op)
    PROVE  TypeOK'
<1> DEFINE r == [op |-> op, item |-> req[c].item, month |-> req[c].month, id |-> req[c].id,
                 seen |-> Linked(AboutOf(c))]
<1>1. Linked(AboutOf(c)) \subseteq Payment
  BY DEF Linked, TypeOK
<1>2. r \in Decided
  BY <1>1, RequestType DEF Decided
<1>3. req' = [req EXCEPT ![c] = r]
  BY DEF Decide
<1> QED
  BY <1>2, <1>3 DEF Decide, TypeOK

\* The end of a request.
LEMMA FinishType ==
    ASSUME TypeOK, NEW c \in Client, req[c].op # "idle", Finish(c), payments' \subseteq Payment
    PROVE  TypeOK'
<1>1. AboutOf(c) \in Subject
  BY RequestType
<1>2. raced' \subseteq Subject
  BY <1>1 DEF Finish, TypeOK
<1>3. req' \in [Client -> {Idle} \union Asked \union Decided]
  BY DEF Finish, TypeOK
<1> QED
  BY <1>2, <1>3 DEF Finish, TypeOK

\* The type of the state is kept by every step.
LEMMA TypeStep == TypeOK /\ [Next]_vars => TypeOK'
<1> SUFFICES ASSUME TypeOK, [Next]_vars PROVE TypeOK'
  OBVIOUS
<1>1. ASSUME NEW i \in Item, Create(i) PROVE TypeOK'
  BY <1>1 DEF Create, TypeOK
<1>2. ASSUME NEW i \in Item, Delete(i) PROVE TypeOK'
  BY <1>2 DEF Delete, TypeOK
<1>3. ASSUME NEW c \in Client, NEW i \in Item, NEW m \in Month, LoadForToggle(c, i, m)
      PROVE TypeOK'
  <2>1. PICK id \in NewIds :
          req' = [req EXCEPT ![c] = [op |-> "toggle", item |-> i, month |-> m, id |-> id]]
    BY <1>3 DEF LoadForToggle
  <2>2. [op |-> "toggle", item |-> i, month |-> m, id |-> id] \in Asked
    BY NewIdsAreFree DEF Asked
  <2> QED
    BY <1>3, <2>1, <2>2 DEF LoadForToggle, TypeOK
<1>4. ASSUME NEW c \in Client, FindNothing(c) PROVE TypeOK'
  BY <1>4, DecideType DEF FindNothing
<1>5. ASSUME NEW c \in Client, FindPayment(c) PROVE TypeOK'
  BY <1>5, DecideType DEF FindPayment
<1>6. ASSUME NEW c \in Client, CommitPay(c) PROVE TypeOK'
  <2>1. req[c].op # "idle" /\ Finish(c)
    BY <1>6 DEF CommitPay
  <2>2. [id |-> req[c].id, item |-> req[c].item, month |-> req[c].month, live |-> TRUE] \in Payment
    BY <2>1, RequestType DEF Payment
  <2>3. payments' \subseteq Payment
    BY <1>6, <2>2 DEF CommitPay, TypeOK
  <2> QED
    BY <2>1, <2>3, FinishType
<1>7. ASSUME NEW c \in Client, CommitUnpay(c) PROVE TypeOK'
  <2>1. req[c].op # "idle" /\ Finish(c)
    BY <1>7 DEF CommitUnpay
  <2>2. payments' \subseteq Payment
    BY <1>7, RemovedRows DEF CommitUnpay
  <2> QED
    BY <2>1, <2>2, FinishType
<1>8. ASSUME NEW c \in Client, RollBack(c) PROVE TypeOK'
  BY <1>8 DEF RollBack, TypeOK
<1>9. ASSUME NEW p \in payments, DeleteTransaction(p) PROVE TypeOK'
  BY <1>9, DeadType DEF DeleteTransaction, TypeOK
<1>10. ASSUME NEW p \in payments, NEW m \in Month, MoveTransaction(p, m) PROVE TypeOK'
  <2>1. p \in Payment /\ [p EXCEPT !.month = m] \in Payment
    BY DEF TypeOK, Payment
  <2>2. About(p.item, m) \in Subject
    BY <2>1, AboutType DEF Payment
  <2>3. payments' \subseteq Payment
    BY <1>10, <2>1 DEF MoveTransaction, TypeOK
  <2>4. crowded' \subseteq Subject
    BY <1>10, <2>2 DEF MoveTransaction, TypeOK
  <2> QED
    BY <1>10, <2>3, <2>4 DEF MoveTransaction, TypeOK
<1>11. CASE UNCHANGED vars
  BY <1>11 DEF vars, TypeOK
<1> QED
  BY <1>1, <1>2, <1>3, <1>4, <1>5, <1>6, <1>7, <1>8, <1>9, <1>10, <1>11 DEF Next

\* Type correctness: no request, however it overlaps others, leaves anything but rows.
THEOREM TypeCorrect == Spec => []TypeOK
<1>1. Init => TypeOK
  BY DEF Init, TypeOK
<1> QED
  BY <1>1, TypeStep, PTL DEF Spec

-----------------------------------------------------------------------------
(* At most one payment.                                                    *)

\* A decision is of the lookup's answer; the end of a request takes no decision.
LEMMA DecidedStep == TypeOK /\ DecidedOnLookup /\ [Next]_vars => DecidedOnLookup'
<1> SUFFICES ASSUME TypeOK, DecidedOnLookup, [Next]_vars PROVE DecidedOnLookup'
  OBVIOUS
<1>1. CASE UNCHANGED req
  BY <1>1 DEF DecidedOnLookup
<1>2. ASSUME NEW c \in Client, NEW i \in Item, NEW m \in Month, LoadForToggle(c, i, m)
      PROVE DecidedOnLookup'
  BY <1>2 DEF LoadForToggle, TypeOK, DecidedOnLookup
<1>3. ASSUME NEW c \in Client, FindNothing(c) PROVE DecidedOnLookup'
  BY <1>3 DEF FindNothing, IsPaid, Decide, TypeOK, DecidedOnLookup
<1>4. ASSUME NEW c \in Client, FindPayment(c) PROVE DecidedOnLookup'
  BY <1>4 DEF FindPayment, IsPaid, Decide, TypeOK, DecidedOnLookup
<1>5. ASSUME NEW c \in Client, req' = [req EXCEPT ![c] = Idle] PROVE DecidedOnLookup'
  BY <1>5 DEF TypeOK, Idle, DecidedOnLookup
<1> QED
  BY <1>1, <1>2, <1>3, <1>4, <1>5
     DEF Next, vars, Create, Delete, CommitPay, CommitUnpay, Finish, RollBack, DeleteTransaction,
         MoveTransaction

\* Ids stay with the request that took them until its row has them.
LEMMA OwnIdsStep == TypeOK /\ OwnIds /\ [Next]_vars => OwnIds'
<1> SUFFICES ASSUME TypeOK, OwnIds, [Next]_vars PROVE OwnIds'
  OBVIOUS
<1>1. CASE UNCHANGED <<payments, req>>
  BY <1>1 DEF OwnIds
<1>2. ASSUME NEW c \in Client, NEW i \in Item, NEW m \in Month, LoadForToggle(c, i, m)
      PROVE OwnIds'
  <2>1. PICK id \in NewIds :
          req' = [req EXCEPT ![c] = [op |-> "toggle", item |-> i, month |-> m, id |-> id]]
    BY <1>2 DEF LoadForToggle
  <2> QED
    BY <1>2, <2>1, NewIdsAreFree DEF LoadForToggle, TypeOK, OwnIds
<1>3. ASSUME NEW c \in Client, NEW op, Decide(c, op), req[c].op = "toggle" PROVE OwnIds'
  BY <1>3 DEF Decide, TypeOK, OwnIds
<1>4. ASSUME NEW c \in Client, CommitPay(c) PROVE OwnIds'
  <2> DEFINE new == [id |-> req[c].id, item |-> req[c].item, month |-> req[c].month, live |-> TRUE]
  <2>1. payments' = payments \union {new} /\ req' = [req EXCEPT ![c] = Idle]
    BY <1>4 DEF CommitPay, Finish
  <2>2. req[c].op # "idle" /\ new.id = req[c].id
    BY <1>4 DEF CommitPay
  <2>3. \A p \in payments : p.id # new.id
    BY <2>2 DEF OwnIds
  <2>4. \A p, q \in payments' : p.id = q.id => p = q
    BY <2>1, <2>3 DEF OwnIds
  <2>5. ASSUME NEW d \in Client, req'[d].op # "idle"
        PROVE  /\ d # c
               /\ req'[d] = req[d]
    BY <2>1, <2>5 DEF TypeOK, Idle
  <2>6. ASSUME NEW d \in Client, req'[d].op # "idle"
        PROVE  \A p \in payments' : p.id # req'[d].id
    BY <2>1, <2>2, <2>5, <2>6 DEF OwnIds
  <2> QED
    BY <2>4, <2>5, <2>6 DEF OwnIds
<1>5. ASSUME NEW c \in Client, req' = [req EXCEPT ![c] = Idle],
             \A p \in payments' : \E q \in payments : p.id = q.id,
             \A p, q \in payments' : p.id = q.id => p = q
      PROVE OwnIds'
  <2>1. \A d \in Client : req'[d].op # "idle" => d # c /\ req'[d] = req[d]
    BY <1>5 DEF TypeOK, Idle
  <2> QED
    BY <1>5, <2>1 DEF OwnIds
<1>6. ASSUME NEW c \in Client, CommitUnpay(c) PROVE OwnIds'
  <2>1. PICK found : payments' = Removed(found)
    BY <1>6 DEF CommitUnpay
  <2>2. \A p \in payments : p \in Payment
    BY DEF TypeOK
  <2>3. \A p \in payments' : \E q \in payments : p.id = q.id
    BY <2>1, <2>2, RemovedRows, DeadType
  <2>4. \A p, q \in payments' : p.id = q.id => p = q
    BY <2>1, <2>2, DeadType DEF Removed, OwnIds
  <2> QED
    BY <1>5, <1>6, <2>3, <2>4 DEF CommitUnpay, Finish
<1>7. ASSUME NEW c \in Client, RollBack(c) PROVE OwnIds'
  BY <1>5, <1>7 DEF RollBack, OwnIds
<1>8. ASSUME NEW p \in payments, NEW q, q.id = p.id, payments' = (payments \ {p}) \union {q},
             req' = req
      PROVE OwnIds'
  BY <1>8 DEF OwnIds
<1>9. ASSUME NEW p \in payments, DeleteTransaction(p) PROVE OwnIds'
  BY <1>8, <1>9, DeadType DEF DeleteTransaction, TypeOK
<1>10. ASSUME NEW p \in payments, NEW m \in Month, MoveTransaction(p, m) PROVE OwnIds'
  <2>1. [p EXCEPT !.month = m].id = p.id
    BY DEF TypeOK, Payment
  <2> QED
    BY <1>8, <1>10, <2>1 DEF MoveTransaction
<1> QED
  BY <1>1, <1>2, <1>3, <1>4, <1>6, <1>7, <1>9, <1>10
     DEF Next, vars, Create, Delete, FindNothing, FindPayment

\* A request that ends without having overlapped another found what is there now.
LEMMA NotOverlapped ==
    ASSUME TypeOK, NEW c \in Client, req[c].op # "idle", Finish(c), AboutOf(c) \notin raced'
    PROVE  Linked(AboutOf(c)) = req[c].seen
BY DEF Finish, Overlapped

\* A second payment of a subject comes from an overlap or from a move.
LEMMA OnePaymentStep == TypeOK /\ DecidedOnLookup /\ OnePayment /\ [Next]_vars => OnePayment'
<1> SUFFICES ASSUME TypeOK, DecidedOnLookup, OnePayment, [Next]_vars,
                    NEW s \in Subject, s \notin raced', s \notin crowded'
             PROVE  (\A p, q \in Linked(s) : p = q)'
  BY DEF OnePayment
<1>1. s \notin raced /\ s \notin crowded
  BY DEF Next, vars, Create, Delete, LoadForToggle, FindNothing, FindPayment, Decide, CommitPay,
         CommitUnpay, Finish, RollBack, DeleteTransaction, MoveTransaction
<1>2. \A p, q \in Linked(s) : p = q
  BY <1>1 DEF OnePayment
<1>3. ASSUME Linked(s)' \subseteq Linked(s) PROVE (\A p, q \in Linked(s) : p = q)'
  BY <1>2, <1>3
<1>4. CASE UNCHANGED payments
  BY <1>2, <1>4 DEF Linked
<1>5. ASSUME NEW c \in Client, CommitPay(c) PROVE (\A p, q \in Linked(s) : p = q)'
  <2> DEFINE new == [id |-> req[c].id, item |-> req[c].item, month |-> req[c].month, live |-> TRUE]
  <2>1. payments' = payments \union {new} /\ About(new.item, new.month) = AboutOf(c)
    BY <1>5 DEF CommitPay, AboutOf
  <2>2. CASE s = AboutOf(c)
    <3>1. Linked(s) = {}
      BY <1>5, <2>2, NotOverlapped DEF CommitPay, DecidedOnLookup
    <3>2. Linked(s)' \subseteq {new}
      BY <2>1, <3>1 DEF Linked
    <3> QED
      BY <3>2
  <2>3. CASE s # AboutOf(c)
    <3>1. Linked(s)' \subseteq Linked(s)
      BY <2>1, <2>3 DEF Linked
    <3> QED
      BY <1>3, <3>1
  <2> QED
    BY <2>2, <2>3
<1>6. ASSUME NEW c \in Client, CommitUnpay(c) PROVE (\A p, q \in Linked(s) : p = q)'
  <2>1. PICK found : payments' = Removed(found)
    BY <1>6 DEF CommitUnpay
  <2>2. Linked(s)' \subseteq Linked(s)
    BY <2>1, RemovedRows DEF Linked
  <2> QED
    BY <1>3, <2>2
<1>7. ASSUME NEW p \in payments, DeleteTransaction(p) PROVE (\A q, r \in Linked(s) : q = r)'
  <2>1. Linked(s)' \subseteq Linked(s)
    BY <1>7, DeadType DEF DeleteTransaction, Linked, TypeOK
  <2> QED
    BY <1>3, <2>1
<1>8. ASSUME NEW p \in payments, NEW m \in Month, MoveTransaction(p, m)
      PROVE (\A q, r \in Linked(s) : q = r)'
  <2> DEFINE moved == [p EXCEPT !.month = m]
  <2>1. payments' = (payments \ {p}) \union {moved} /\ moved.item = p.item /\ moved.month = m
    BY <1>8 DEF MoveTransaction, TypeOK, Payment
  <2>2. CASE s = About(p.item, m)
    <3>1. Linked(s) \ {p} = {}
      BY <1>8, <2>2 DEF MoveTransaction, Crowds
    <3>2. Linked(s)' \subseteq {moved}
      BY <2>1, <3>1 DEF Linked
    <3> QED
      BY <3>2
  <2>3. CASE s # About(p.item, m)
    <3>1. Linked(s)' \subseteq Linked(s)
      BY <2>1, <2>3 DEF Linked
    <3> QED
      BY <1>3, <3>1
  <2> QED
    BY <2>2, <2>3
<1> QED
  BY <1>4, <1>5, <1>6, <1>7, <1>8
     DEF Next, vars, Create, Delete, LoadForToggle, FindNothing, FindPayment, Decide, RollBack

\* The invariant holds in every reachable state.
LEMMA InvHolds == Spec => []Inv
<1>1. Init => Inv
  BY DEF Init, Inv, TypeOK, Idle, DecidedOnLookup, OwnIds, OnePayment, Linked
<1>2. Inv /\ [Next]_vars => Inv'
  BY TypeStep, DecidedStep, OwnIdsStep, OnePaymentStep DEF Inv
<1> QED
  BY <1>1, <1>2, PTL DEF Spec

\* However many devices toggle, edit and delete: a subject has at most one live
\* payment unless toggles of it overlapped or a second payment was moved there.
THEOREM AtMostOnePayment == Spec => []OnePayment
BY InvHolds, PTL DEF Inv

-----------------------------------------------------------------------------
(* Toggles and the register.                                               *)

\* Whether a subject is paid, in terms of its rows.
LEMMA PaidMeans ==
    ASSUME TypeOK, NEW p \in payments, p.live
    PROVE  About(p.item, p.month) \in Paid
BY AboutType DEF TypeOK, Payment, Paid, IsPaid, Linked

\* A row is recorded: its subject is paid.
LEMMA RecordPays ==
    ASSUME TypeOK, NEW new \in Payment, new.live, payments' = payments \union {new}
    PROVE  Paid' = Paid \union {About(new.item, new.month)}
<1> DEFINE s == About(new.item, new.month)
<1>1. s \in Subject
  BY AboutType DEF Payment
<1>2. Linked(s)' = Linked(s) \union {new}
  BY DEF Linked
<1>3. \A t \in Subject \ {s} : Linked(t)' = Linked(t)
  BY DEF Linked
<1> QED
  BY <1>1, <1>2, <1>3 DEF Paid, IsPaid

\* A row is replaced by its deleted self: at most its subject ceases to be paid.
LEMMA RemoveUnpays ==
    ASSUME TypeOK, NEW p \in payments, payments' = (payments \ {p}) \union {Dead(p)}
    PROVE  Paid' = Paid \/ (About(p.item, p.month) \in Paid
                            /\ Paid' = Paid \ {About(p.item, p.month)})
<1> DEFINE s == About(p.item, p.month)
<1>1. ~Dead(p).live
  BY DeadType DEF TypeOK
<1>2. \A t \in Subject : Linked(t)' = Linked(t) \ {p}
  BY <1>1 DEF Linked
<1>3. \A t \in Subject \ {s} : Linked(t)' = Linked(t)
  BY <1>2 DEF Linked
<1>4. \A t \in Subject \ {s} : t \in Paid' <=> t \in Paid
  BY <1>3 DEF Paid, IsPaid
<1>5. s \in Paid' => s \in Paid
  BY <1>2 DEF Paid, IsPaid
<1>6. Paid \subseteq Subject /\ Paid' \subseteq Subject
  BY DEF Paid
<1> QED
  BY <1>4, <1>5, <1>6

\* What remove_transaction_by_id does to the one row it is about.
LEMMA RemovedRow ==
    ASSUME TypeOK, OwnIds, NEW found
    PROVE  \/ Removed(found) = payments
           \/ \E p \in payments :
                /\ p.id = found.id
                /\ Removed(found) = (payments \ {p}) \union {Dead(p)}
<1>1. CASE \E p \in payments : p.id = found.id
  <2>1. PICK p \in payments : p.id = found.id
    BY <1>1
  <2>2. \A q \in payments : q.id = found.id <=> q = p
    BY <2>1 DEF OwnIds
  <2>3. Removed(found) = (payments \ {p}) \union {Dead(p)}
    BY <2>1, <2>2 DEF Removed
  <2> QED
    BY <2>1, <2>3
<1>2. CASE \A p \in payments : p.id # found.id
  BY <1>2 DEF Removed
<1> QED
  BY <1>1, <1>2

\* Every step of the requests is one of the register, or none.
LEMMA RegisterStep == Inv /\ [Next]_vars => [Register!Next]_Paid
<1> SUFFICES ASSUME Inv, [Next]_vars PROVE Register!Next \/ Paid' = Paid
  OBVIOUS
<1> USE DEF Inv
<1>1. CASE UNCHANGED payments
  BY <1>1 DEF Paid, IsPaid, Linked
<1>2. ASSUME NEW s \in Subject, s \notin Paid, Paid' = Paid \union {s} PROVE Register!Next
  BY <1>2 DEF Register!Next, Register!Toggle
<1>3. ASSUME NEW s \in Subject, s \in Paid, Paid' = Paid \ {s} PROVE Register!Next
  BY <1>3 DEF Register!Next, Register!Toggle
<1>4. ASSUME NEW p \in payments, payments' = (payments \ {p}) \union {Dead(p)}
      PROVE  Register!Next \/ Paid' = Paid
  BY <1>3, <1>4, RemoveUnpays DEF Paid
<1>5. ASSUME NEW c \in Client, CommitPay(c) PROVE Register!Next \/ Paid' = Paid
  <2> DEFINE new == [id |-> req[c].id, item |-> req[c].item, month |-> req[c].month, live |-> TRUE]
  <2>1. new \in Payment /\ AboutOf(c) \in Subject
    BY <1>5, RequestType DEF CommitPay, Payment
  <2>2. Paid' = Paid \union {AboutOf(c)}
    BY <1>5, <2>1, RecordPays DEF CommitPay, AboutOf
  <2> QED
    BY <1>2, <2>1, <2>2
<1>6. ASSUME NEW c \in Client, CommitUnpay(c) PROVE Register!Next \/ Paid' = Paid
  <2>1. PICK found : payments' = Removed(found)
    BY <1>6 DEF CommitUnpay
  <2> QED
    BY <1>1, <1>4, <2>1, RemovedRow
<1>7. ASSUME NEW p \in payments, DeleteTransaction(p) PROVE Register!Next \/ Paid' = Paid
  BY <1>4, <1>7 DEF DeleteTransaction
<1>8. ASSUME NEW p \in payments, NEW m \in Month, MoveTransaction(p, m)
      PROVE  Register!Next \/ Paid' = Paid
  <2> DEFINE moved == [p EXCEPT !.month = m]
             from == About(p.item, p.month)
             to == About(p.item, m)
  <2>1. p \in Payment /\ p.live /\ moved.item = p.item /\ moved.month = m /\ moved.live
    BY <1>8 DEF MoveTransaction, TypeOK, Payment
  <2>2. from \in Paid /\ from \in Subject /\ to \in Subject /\ from[1] = to[1]
    BY <1>8, <2>1, PaidMeans, AboutType DEF Payment
  <2>3. payments' = (payments \ {p}) \union {moved}
    BY <1>8 DEF MoveTransaction
  <2>4. moved \in Linked(to)'
    BY <2>1, <2>3 DEF Linked
  <2>5. \A t \in Subject \ {from, to} : Linked(t)' = Linked(t)
    BY <2>1, <2>3 DEF Linked
  <2>6. to \in Paid' /\ \A t \in Subject \ {from, to} : t \in Paid' <=> t \in Paid
    BY <2>2, <2>4, <2>5 DEF Paid, IsPaid
  <2>7. Paid' \subseteq Subject /\ Paid \subseteq Subject
    BY DEF Paid
  <2>8. Paid' = Paid \union {to} \/ Paid' = (Paid \ {from}) \union {to}
    BY <2>2, <2>6, <2>7
  <2> QED
    BY <2>2, <2>8 DEF Register!Next, Register!Move
<1> QED
  BY <1>1, <1>5, <1>6, <1>7, <1>8
     DEF Next, vars, Create, Delete, LoadForToggle, FindNothing, FindPayment, Decide, RollBack

\* Whatever overlaps, the subjects that are paid change as the abstract register
\* allows: one toggle, or one payment moved within its item, at a time.
THEOREM ImplementsRegister == Spec => IsRegister
<1>1. Init => Register!Init
  BY DEF Init, Register!Init, Paid, IsPaid, Linked
<1> QED
  BY <1>1, InvHolds, RegisterStep, PTL DEF Spec, IsRegister, Register!Spec

-----------------------------------------------------------------------------

\* A toggle that did not overlap another flips what it was asked for and no more.
LEMMA FlipStep ==
    ASSUME Inv, NEW c \in Client, CommitPay(c) \/ CommitUnpay(c),
           AboutOf(c) \notin raced' \union crowded
    PROVE  Paid' = (Paid \ {AboutOf(c)}) \union ({AboutOf(c)} \ Paid)
<1> USE DEF Inv
<1>1. AboutOf(c) \in Subject /\ Linked(AboutOf(c)) = req[c].seen
  BY RequestType, NotOverlapped DEF CommitPay, CommitUnpay
<1>2. AboutOf(c) \notin raced
  BY DEF CommitPay, CommitUnpay, Finish
<1>3. CASE CommitPay(c)
  <2> DEFINE new == [id |-> req[c].id, item |-> req[c].item, month |-> req[c].month, live |-> TRUE]
  <2>1. new \in Payment
    BY <1>3, RequestType DEF CommitPay, Payment
  <2>2. Paid' = Paid \union {AboutOf(c)}
    BY <1>3, <2>1, RecordPays DEF CommitPay, AboutOf
  <2>3. AboutOf(c) \notin Paid
    BY <1>1, <1>3 DEF CommitPay, DecidedOnLookup, Paid, IsPaid
  <2> QED
    BY <2>2, <2>3
<1>4. CASE CommitUnpay(c)
  <2>1. PICK found \in Latest(req[c].seen) : payments' = Removed(found)
    BY <1>4 DEF CommitUnpay
  <2>2. found \in Linked(AboutOf(c)) /\ found \in payments
    BY <1>1, <2>1 DEF Latest, Linked
  <2>3. \A p \in Linked(AboutOf(c)) : p = found
    BY <1>1, <1>2, <2>2 DEF OnePayment
  <2>4. AboutOf(c) \in Paid
    BY <1>1, <2>2 DEF Paid, IsPaid
  <2>5. \A p \in payments' : p.live => p \in payments /\ p # found
    BY <2>1, RemovedRows
  <2>6. \A p \in payments' : p.live => About(p.item, p.month) # AboutOf(c)
    BY <2>3, <2>5 DEF Linked
  <2>7. AboutOf(c) \notin Paid'
    BY <2>6 DEF Paid, IsPaid, Linked
  <2>8. payments' # payments
    BY <2>2, <2>5 DEF Linked
  <2>9. payments' = (payments \ {found}) \union {Dead(found)}
    BY <2>1, <2>2, <2>8, RemovedRow DEF OwnIds
  <2>10. About(found.item, found.month) = AboutOf(c)
    BY <2>2 DEF Linked
  <2>11. Paid' = Paid \ {AboutOf(c)}
    BY <2>2, <2>4, <2>7, <2>9, <2>10, RemoveUnpays
  <2> QED
    BY <2>4, <2>11
<1> QED
  BY <1>3, <1>4

\* A toggle that overlapped no other flips its own item and month, and nothing else.
THEOREM TogglesFlip == Spec => ToggleFlips
<1>1. Inv /\ [Next]_vars => [\A c \in Client :
         (CommitPay(c) \/ CommitUnpay(c)) /\ AboutOf(c) \notin raced' \union crowded =>
             Paid' = (Paid \ {AboutOf(c)}) \union ({AboutOf(c)} \ Paid)]_vars
  BY FlipStep
<1> QED
  BY <1>1, InvHolds, PTL DEF Spec, ToggleFlips
=============================================================================
