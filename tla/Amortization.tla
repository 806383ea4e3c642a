---------------------------- MODULE Amortization ----------------------------
(***************************************************************************)
(* The repayment of a loan in equal monthly installments                   *)
(* (api/v1/loans/schemas.py).  Amounts are whole paise, as the columns     *)
(* keep them; a monthly rate is the fraction rate.num / rate.den, the      *)
(* yearly percentage over 1200 in lowest terms.                            *)
(***************************************************************************)
EXTENDS Integers, FiniteSetsExt

\* Decimal.quantize: n / d to the nearest whole paisa, a tie to the even one.
Quantize(n, d) ==
    LET q == n \div d
        r == n % d
    IN  IF 2 * r > d \/ (2 * r = d /\ q % 2 = 1) THEN q + 1 ELSE q

\* x ** n.
Power(x, n) ==
    LET power[k \in 0 .. n] == IF k = 0 THEN 1 ELSE x * power[k - 1]
    IN  power[n]

\* compute_emi: with g = 1 + rate, principal * rate * g^months / (g^months - 1).
Emi(principal, rate, months) ==
    LET grown == Power(rate.num + rate.den, months)
        kept  == Power(rate.den, months)
    IN  CASE months <= 0  -> 0
          [] rate.num = 0 -> Quantize(principal, months)
          [] OTHER        -> Quantize(principal * rate.num * grown, rate.den * (grown - kept))

Interest(balance, rate) == Quantize(balance * rate.num, rate.den)

\* Mutation of PrincipalPart: an installment is not cut off at the balance.
PrincipalPart_Uncut(emi, balance, rate) == emi - Interest(balance, rate)

\* What an installment repays: at most the balance, and all of it if the installment
\* does not even cover the interest.
PrincipalPart(emi, balance, rate) ==
    LET part == emi - Interest(balance, rate)
    IN  IF part < 0 \/ part > balance THEN balance ELSE part

\* The balance after each month of build_schedule.
BalanceAfter(outstanding, rate, months) ==
    LET emi == Emi(outstanding, rate, months)
        balance[k \in 0 .. months] ==
            IF k = 0 THEN outstanding
            ELSE LET b == balance[k - 1]
                 IN  IF b <= 0 THEN b ELSE b - PrincipalPart(emi, b, rate)
    IN  balance

\* build_schedule: one row a month, until nothing is left.
Schedule(outstanding, rate, months) ==
    LET after == BalanceAfter(outstanding, rate, months)
    IN  IF months <= 0 \/ outstanding <= 0 THEN {}
        ELSE {[month |-> k,
               interest |-> Interest(after[k - 1], rate),
               principal |-> PrincipalPart(Emi(outstanding, rate, months), after[k - 1], rate),
               balance |-> after[k]] : k \in {j \in 1 .. months : after[j - 1] > 0}}
=============================================================================
