------------------------------ MODULE Requests ------------------------------
(***************************************************************************)
(* What the components share whose requests read rows and write them in a  *)
(* later step: the user's devices, and the absence of a request.           *)
(***************************************************************************)
EXTENDS Integers, FiniteSets, UnitOfWork, FiniteSetsExt

CONSTANT Client     \* devices of the user, each with at most one request in flight

NoRequest == [op |-> "none"]

\* One of the things that `s` holds, if it holds any: a query that is limited to one
\* row, where nothing the model keeps tells which.
AnyOf(s) == IF s = {} THEN {{}} ELSE {{x} : x \in s}
=============================================================================
