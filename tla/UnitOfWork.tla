----------------------------- MODULE UnitOfWork -----------------------------
(***************************************************************************)
(* What one request's database session writes.                             *)
(*                                                                         *)
(* Every request, and every worker task, owns one SQLAlchemy session and   *)
(* one READ COMMITTED transaction (app/core/database.py).  No query locks  *)
(* a row and no table has a version column, so a request works on the rows *)
(* it loaded, however stale.  When it flushes, the UPDATE statement names  *)
(* only the columns whose value differs from the loaded one, and writes    *)
(* the value the request computed, not a change relative to the row.       *)
(*                                                                         *)
(* Amounts are in tenths of a paisa wherever a request may name parts of a *)
(* paisa: no schema limits the decimals of an amount, and every column for *)
(* one is Numeric(14, 2).                                                  *)
(***************************************************************************)
EXTENDS Integers

\* The row after a session that loaded `loaded`, and left its object equal to
\* `computed`, flushes to a row that by now is `current`.
Flush(current, loaded, computed) ==
    [col \in DOMAIN current |-> IF computed[col] = loaded[col]
                                  THEN current[col]
                                  ELSE computed[col]]

\* What a Numeric(14, 2) column keeps of an amount: whole paise, a half rounded away
\* from zero.  The object in the session, and so the response, keeps the amount itself.
Stored(amount) == IF amount < 0 THEN 0 - 10 * ((5 - amount) \div 10)
                                ELSE 10 * ((amount + 5) \div 10)

\* What Decimal.quantize and to_integral_value make of an amount: a number of whole paise,
\* a half rounded to the even one.
WholePaise(amount) ==
    LET paise == amount \div 10
        part  == amount % 10
    IN  IF part > 5 \/ (part = 5 /\ paise % 2 = 1) THEN paise + 1 ELSE paise
=============================================================================
