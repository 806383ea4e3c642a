---------------------------- MODULE PaidRegister ----------------------------
(***************************************************************************)
(* What "mark as paid" promises the user: a set of subjects that are paid, *)
(* an item and the period it is paid for.  A toggle or the deletion of a   *)
(* payment changes one subject; moving a payment to another date takes it  *)
(* to another period of the same item.  Nothing else changes.              *)
(***************************************************************************)

CONSTANT Subject    \* what can be paid: pairs <<item, period>>

VARIABLE paid

Init == paid = {}

Toggle(s) ==
    paid' = IF s \in paid THEN paid \ {s} ELSE paid \union {s}

\* `from` stays paid if it was paid twice.
Move(from, to) ==
    /\ from \in paid
    /\ from[1] = to[1]
    /\ \/ paid' = paid \union {to}
       \/ paid' = (paid \ {from}) \union {to}

Next ==
    \/ \E s \in Subject : Toggle(s)
    \/ \E from, to \in Subject : Move(from, to)

Spec == Init /\ [][Next]_paid
=============================================================================
