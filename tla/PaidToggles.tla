----------------------------- MODULE PaidToggles -----------------------------
(***************************************************************************)
(* "Mark as paid" of fixed commitments and policies.  Neither has a column *)
(* that says so: an item is paid if a live transaction linked to it is     *)
(* found, for a commitment one dated in the month asked for, for a policy  *)
(* of any date.  Toggling removes the transaction found or records one     *)
(* (fixed_commitments/service.py, policies/service.py, and the lookups of  *)
(* transactions/repository.py).                                            *)
(*                                                                         *)
(* A toggle is three steps: its first query, the lookup, and the commit.   *)
(* Other requests commit in between.  Amounts, names, categories, due days *)
(* and renewal dates are left out: no lookup depends on them.              *)
(***************************************************************************)
EXTENDS Naturals

CONSTANTS
    Commitment, Policy, \* ids of what can be marked paid
    Client,             \* devices of the user, each with at most one request in flight
    Month,              \* months a request or a transaction may name
    LastId              \* bound: payments a run records

Item == Commitment \union Policy

ASSUME KindsAssumption == Commitment \intersect Policy = {}
ASSUME LastIdAssumption == LastId \in Nat

VARIABLES
    items,      \* tables fixed_commitments and policies: id -> status
    payments,   \* transactions with a fixed_commitment_id or a policy_id
    req,        \* client -> its request in flight
    raced,      \* history: subjects whose payments changed during a toggle
    crowded     \* history: subjects to which a payment was moved while one was there

vars == <<items, payments, req, raced, crowded>>

Id == 1 .. LastId

\* The row of a payment; `id` is its place in created_at order.
Payment == [id : Id, item : Item, month : Month, live : BOOLEAN]

\* A policy is paid or not; a commitment is paid for a month.
Ever == "ever"
Period == [i \in Item |-> IF i \in Policy THEN {Ever} ELSE Month]
Subject == {s \in Item \X (UNION {Period[i] : i \in Item}) : s[2] \in Period[s[1]]}

Idle == [op |-> "idle"]
Asked == [op : {"toggle"}, item : Item, month : Month, id : Id]
Decided == [op : {"pay", "unpay"}, item : Item, month : Month, id : Id,
            seen : SUBSET Payment]

TypeOK ==
    /\ items \in [Item -> {"absent", "live", "deleted"}]
    /\ payments \subseteq Payment
    /\ req \in [Client -> {Idle} \union Asked \union Decided]
    /\ raced \subseteq Subject
    /\ crowded \subseteq Subject

Init ==
    /\ items = [i \in Item |-> "absent"]
    /\ payments = {}
    /\ req = [c \in Client |-> Idle]
    /\ raced = {}
    /\ crowded = {}

-----------------------------------------------------------------------------
(* Queries.                                                                *)

\* Mutation of About: policies, too, are looked up by month.
About_ByMonth(i, m) == <<i, m>>

\* The subject that a payment in month `m` is of.
About(i, m) == <<i, IF i \in Policy THEN Ever ELSE m>>

\* Mutation of Linked: the bounds of the month are dropped.
Linked_AnyMonth(s) == {p \in payments : p.live /\ p.item = s[1]}

\* The rows that the lookup of subject `s` selects.
Linked(s) == {p \in payments : p.live /\ About(p.item, p.month) = s}

\* What the lookup picks of the rows it saw: the latest one.
Latest(ps) == {p \in ps : \A q \in ps : q.id <= p.id}

\* A policy's lookup is limited to one row.  A commitment's is not, and
\* scalar_one_or_none raises an exception when there are two.
Raises(s) == s[1] \in Commitment /\ \E p, q \in Linked(s) : p # q

IsPaid(s) == Linked(s) # {}

TakenIds == {p.id : p \in payments} \union {req[c].id : c \in {d \in Client : req[d].op # "idle"}}
FreeIds == {n \in Id : \A t \in TakenIds : t < n}
NewIds == {n \in FreeIds : \A other \in FreeIds : n <= other}

-----------------------------------------------------------------------------
(* Requests.                                                               *)

Create(i) ==
    /\ items[i] = "absent"
    /\ items' = [items EXCEPT ![i] = "live"]
    /\ UNCHANGED <<payments, req, raced, crowded>>

\* The payments of a deleted item stay.
Delete(i) ==
    /\ items[i] = "live"
    /\ items' = [items EXCEPT ![i] = "deleted"]
    /\ UNCHANGED <<payments, req, raced, crowded>>

\* The first query of a toggle: get_by_id.
LoadForToggle(c, i, m) ==
    /\ req[c].op = "idle"
    /\ items[i] = "live"
    /\ \E id \in NewIds :
         req' = [req EXCEPT ![c] = [op |-> "toggle", item |-> i, month |-> m, id |-> id]]
    /\ UNCHANGED <<items, payments, raced, crowded>>

\* Where the lookup of a request in flight stands.
AboutOf(c) == About(req[c].item, req[c].month)

Decide(c, op) ==
    /\ req' = [req EXCEPT ![c] =
         [op |-> op, item |-> @.item, month |-> @.month, id |-> @.id,
          seen |-> Linked(AboutOf(c))]]
    /\ UNCHANGED <<items, payments, raced, crowded>>

\* Mutation of FindNothing: what the lookup found is not looked at.
FindNothing_Unchecked(c) == req[c].op = "toggle" /\ Decide(c, "pay")

\* The lookup answers none: a payment will be recorded.
FindNothing(c) ==
    /\ req[c].op = "toggle"
    /\ ~IsPaid(AboutOf(c))
    /\ Decide(c, "pay")

\* The lookup answers a payment: it will be removed.
FindPayment(c) ==
    /\ req[c].op = "toggle"
    /\ IsPaid(AboutOf(c))
    /\ ~Raises(AboutOf(c))
    /\ Decide(c, "unpay")

\* History: did the rows of the lookup change since?
Overlapped(c) == Linked(AboutOf(c)) # req[c].seen

Finish(c) ==
    /\ raced' = IF Overlapped(c) THEN raced \union {AboutOf(c)} ELSE raced
    /\ req' = [req EXCEPT ![c] = Idle]
    /\ UNCHANGED <<items, crowded>>

\* record_transaction and commit.  A commitment's payment is dated in the month of
\* the request, a policy's today: here, too, the month of the request.
CommitPay(c) ==
    /\ req[c].op = "pay"
    /\ payments' = payments \union
         {[id |-> req[c].id, item |-> req[c].item, month |-> req[c].month, live |-> TRUE]}
    /\ Finish(c)

Dead(p) == [p EXCEPT !.live = FALSE]

\* Mutation of Removed: every payment of the item goes.
Removed_All(found) == {IF p.item = found.item THEN Dead(p) ELSE p : p \in payments}

\* remove_transaction_by_id: the row goes by its id, wherever it has moved since.
Removed(found) == {IF p.id = found.id THEN Dead(p) ELSE p : p \in payments}

CommitUnpay(c) ==
    /\ req[c].op = "unpay"
    /\ \E found \in Latest(req[c].seen) : payments' = Removed(found)
    /\ Finish(c)

\* A failing request leaves no trace.  One whose lookup raised always ends so.
RollBack(c) ==
    /\ req[c].op # "idle"
    /\ req' = [req EXCEPT ![c] = Idle]
    /\ UNCHANGED <<items, payments, raced, crowded>>

\* DELETE /transactions/{id}: the item is not asked.
DeleteTransaction(p) ==
    /\ p \in payments
    /\ p.live
    /\ payments' = (payments \ {p}) \union {Dead(p)}
    /\ UNCHANGED <<items, req, raced, crowded>>

\* History: moving `p` to subject `s` makes it one of two.
Crowds(p, s) == Linked(s) \ {p} # {}

\* PATCH /transactions/{id} with a date: it asks no one either.
MoveTransaction(p, m) ==
    /\ p \in payments
    /\ p.live
    /\ p.month # m
    /\ payments' = (payments \ {p}) \union {[p EXCEPT !.month = m]}
    /\ crowded' = IF Crowds(p, About(p.item, m)) THEN crowded \union {About(p.item, m)}
                                                 ELSE crowded
    /\ UNCHANGED <<items, req, raced>>

-----------------------------------------------------------------------------
Next ==
    \/ \E i \in Item : Create(i)
    \/ \E i \in Item : Delete(i)
    \/ \E c \in Client, i \in Item, m \in Month : LoadForToggle(c, i, m)
    \/ \E c \in Client : FindNothing(c)
    \/ \E c \in Client : FindPayment(c)
    \/ \E c \in Client : CommitPay(c)
    \/ \E c \in Client : CommitUnpay(c)
    \/ \E c \in Client : RollBack(c)
    \/ \E p \in payments : DeleteTransaction(p)
    \/ \E p \in payments, m \in Month : MoveTransaction(p, m)

Spec == Init /\ [][Next]_vars

-----------------------------------------------------------------------------
(* Properties.                                                             *)

\* A month of a commitment, and a policy, has at most one payment (what the lookups
\* rely on: two make every later one fail), unless toggles of it overlapped or the
\* user moved a second payment there.
OnePayment ==
    \A s \in Subject \ (raced \union crowded) : \A p, q \in Linked(s) : p = q

\* The lookup of "mark as paid" has an answer for every item and month, as the docstring
\* of toggle_paid has it: the transaction exists for this month, or one is created.
LookupAnswers == \A s \in Subject : ~Raises(s)

Paid == {s \in Subject : IsPaid(s)}

\* A toggle flips its own item and month, and no other, unless toggles of them have
\* overlapped or payments were moved together.
ToggleFlips ==
    [][\A c \in Client :
         (CommitPay(c) \/ CommitUnpay(c)) /\ AboutOf(c) \notin raced' \union crowded =>
             Paid' = (Paid \ {AboutOf(c)}) \union ({AboutOf(c)} \ Paid)
      ]_vars

\* Whatever overlaps, a step changes no more than PaidRegister allows.
Register == INSTANCE PaidRegister WITH paid <- Paid
IsRegister == Register!Spec
=============================================================================
