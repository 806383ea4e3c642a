------------------------- MODULE AmortizationProofs -------------------------
(***************************************************************************)
(* What the schedule of a loan adds up to, for any loan: proofs about the  *)
(* functions of Amortization.                                              *)
(***************************************************************************)
EXTENDS Amortization, Sums

-----------------------------------------------------------------------------
(* Powers.                                                                 *)

PowerOn(p, x, n) == p = [k \in 0 .. n |-> IF k = 0 THEN 1 ELSE x * p[k - 1]]

\* Two of them agree.
LEMMA PowersAgree ==
    ASSUME NEW x \in Int, NEW n \in Nat, NEW m \in Nat, NEW p, PowerOn(p, x, n),
           NEW q, PowerOn(q, x, m)
    PROVE  \A k \in Nat : k <= n /\ k <= m => p[k] = q[k]
<1> DEFINE P == {k \in Nat : k <= n /\ k <= m => p[k] = q[k]}
<1>1. 0 \in P
  <2>1. p[0] = 1 /\ q[0] = 1
    BY DEF PowerOn
  <2> QED
    BY <2>1
<1>2. ASSUME NEW k \in Nat, k \in P PROVE k + 1 \in P
  <2> SUFFICES ASSUME k + 1 <= n, k + 1 <= m PROVE p[k + 1] = q[k + 1]
    OBVIOUS
  <2>1. p[k] = q[k]
    BY <1>2
  <2>2. k + 1 \in 0 .. n /\ k + 1 \in 0 .. m /\ k + 1 # 0 /\ (k + 1) - 1 = k
    OBVIOUS
  <2>3. p[k + 1] = x * p[(k + 1) - 1] /\ q[k + 1] = x * q[(k + 1) - 1]
    BY <2>2 DEF PowerOn
  <2> QED
    BY <2>1, <2>2, <2>3
<1> HIDE DEF P
<1>3. \A k \in Nat : k \in P
  BY <1>1, <1>2, NumberInduction
<1> QED
  BY <1>3 DEF P

\* There is one, of integers.
LEMMA PowersExist ==
    ASSUME NEW x \in Int, NEW n \in Nat
    PROVE  \E p : PowerOn(p, x, n) /\ p \in [0 .. n -> Int]
<1> DEFINE step == [a \in Nat \X Int |-> x * a[2]]
<1>1. step \in [Nat \X Int -> Int]
  OBVIOUS
<1>2. \A k \in Nat, b \in Int : step[<<k, b>>] = x * b
  OBVIOUS
<1> HIDE DEF step
<1>3. PICK f : Iterates(f, n, 1, step)
  BY <1>1, IterationExists
<1>4. ASSUME NEW k \in 1 .. n PROVE f[k] = x * f[k - 1]
  <2>1. k \in Nat /\ k - 1 \in 0 .. n
    OBVIOUS
  <2>2. f[k - 1] \in Int
    BY <1>3, <2>1 DEF Iterates
  <2> QED
    BY <1>2, <1>3, <2>1, <2>2 DEF Iterates
<1>5. PowerOn(f, x, n)
  <2>1. \A k \in 0 .. n : k = 0 \/ k \in 1 .. n
    OBVIOUS
  <2>2. \A k \in 0 .. n : f[k] = IF k = 0 THEN 1 ELSE x * f[k - 1]
    BY <1>3, <1>4, <2>1 DEF Iterates
  <2> QED
    BY <1>3, <2>2 DEF PowerOn, Iterates
<1> QED
  BY <1>3, <1>5 DEF Iterates

\* Power is what any such list of powers has.
LEMMA PowerIs ==
    ASSUME NEW x \in Int, NEW n \in Nat, NEW p, PowerOn(p, x, n), NEW k \in 0 .. n
    PROVE  Power(x, k) = p[k]
<1> DEFINE q == CHOOSE r : PowerOn(r, x, k)
<1>1. k \in Nat
  OBVIOUS
<1>2. \E r : PowerOn(r, x, k)
  BY <1>1, PowersExist
<1>3. PowerOn(q, x, k)
  BY <1>2
<1>4. Power(x, k) = q[k]
  BY DEF Power, PowerOn
<1> HIDE DEF q
<1> QED
  BY <1>1, <1>3, <1>4, PowersAgree

\* The powers of a number.
LEMMA PowerEquation ==
    ASSUME NEW x \in Int, NEW n \in Nat
    PROVE  /\ Power(x, n) \in Int
           /\ Power(x, 0) = 1
           /\ Power(x, n + 1) = x * Power(x, n)
<1>1. PICK p : PowerOn(p, x, n + 1) /\ p \in [0 .. n + 1 -> Int]
  <2>1. n + 1 \in Nat
    OBVIOUS
  <2> QED
    BY <2>1, PowersExist
<1>2. \A k \in 0 .. n + 1 : Power(x, k) = p[k]
  BY <1>1, PowerIs
<1>3. 0 \in 0 .. n + 1 /\ n \in 0 .. n + 1 /\ n + 1 \in 0 .. n + 1 /\ n + 1 # 0 /\ (n + 1) - 1 = n
  OBVIOUS
<1>4. p[0] = 1 /\ p[n + 1] = x * p[(n + 1) - 1] /\ p[n] \in Int
  BY <1>1, <1>3 DEF PowerOn
<1> QED
  BY <1>2, <1>3, <1>4

\* A positive number has positive powers.
LEMMA PowerPositive ==
    ASSUME NEW x \in Nat \ {0}, NEW n \in Nat
    PROVE  Power(x, n) \in Nat \ {0}
<1> DEFINE P == {k \in Nat : Power(x, k) \in Nat \ {0}}
<1>1. 0 \in P
  BY PowerEquation
<1>2. ASSUME NEW k \in Nat, k \in P PROVE k + 1 \in P
  <2>1. Power(x, k + 1) = x * Power(x, k) /\ Power(x, k) \in Nat \ {0}
    BY <1>2, PowerEquation
  <2>2. x * Power(x, k) \in Nat \ {0}
    BY <2>1
  <2> QED
    BY <2>1, <2>2
<1> HIDE DEF P
<1>3. n \in P
  BY <1>1, <1>2, NumberInduction
<1> QED
  BY <1>3 DEF P

-----------------------------------------------------------------------------
(* Rounding.                                                               *)

\* It is off by half a unit at most.
LEMMA QuantizeNear ==
    ASSUME NEW n \in Int, NEW d \in Nat \ {0}
    PROVE  /\ Quantize(n, d) \in Int
           /\ 2 * (Quantize(n, d) * d - n) <= d /\ 2 * (n - Quantize(n, d) * d) <= d
<1> DEFINE q == n \div d
           r == n % d
<1>1. q \in Int /\ r \in Int /\ n = d * q + r /\ 0 <= r /\ r < d
  BY DivMod
<1>2. \/ Quantize(n, d) = q + 1 /\ 2 * r >= d
      \/ Quantize(n, d) = q /\ 2 * r <= d
  BY <1>1 DEF Quantize
<1> HIDE DEF q, r
<1>3. (q + 1) * d = d * q + d /\ q * d = d * q
  BY <1>1
<1>4. PICK m \in Int : m = d * q
  BY <1>1
<1>5. CASE Quantize(n, d) = q + 1 /\ 2 * r >= d
  BY <1>1, <1>3, <1>4, <1>5
<1>6. CASE Quantize(n, d) = q /\ 2 * r <= d
  BY <1>1, <1>3, <1>4, <1>6
<1> QED
  BY <1>2, <1>5, <1>6

\* A larger amount is not rounded to a smaller one.
LEMMA QuantizeGrows ==
    ASSUME NEW a \in Int, NEW b \in Int, a <= b, NEW d \in Nat \ {0}
    PROVE  Quantize(a, d) <= Quantize(b, d)
<1> DEFINE qa == a \div d
           qb == b \div d
           ra == a % d
           rb == b % d
<1>1. qa \in Int /\ ra \in Int /\ a = d * qa + ra /\ 0 <= ra /\ ra < d
  BY DivMod
<1>2. qb \in Int /\ rb \in Int /\ b = d * qb + rb /\ 0 <= rb /\ rb < d
  BY DivMod
<1>3. Quantize(a, d) = IF 2 * ra > d \/ (2 * ra = d /\ qa % 2 = 1) THEN qa + 1 ELSE qa
  BY DEF Quantize
<1>4. Quantize(b, d) = IF 2 * rb > d \/ (2 * rb = d /\ qb % 2 = 1) THEN qb + 1 ELSE qb
  BY DEF Quantize
<1> HIDE DEF qa, qb, ra, rb
<1>5. qa <= qb
  <2> SUFFICES ASSUME qa >= qb + 1 PROVE FALSE
    BY <1>1, <1>2
  <2>1. d * qa >= d * (qb + 1)
    BY <1>1, <1>2
  <2>2. d * (qb + 1) = d * qb + d
    BY <1>2
  <2>3. d * qa \in Int /\ d * qb \in Int
    BY <1>1, <1>2
  <2> QED
    BY <1>1, <1>2, <2>1, <2>2, <2>3
<1>6. CASE qa = qb
  <2>1. ra <= rb
    BY <1>1, <1>2, <1>6
  <2> QED
    BY <1>1, <1>2, <1>3, <1>4, <1>6, <2>1
<1>7. CASE qa + 1 <= qb
  <2>1. Quantize(a, d) <= qa + 1 /\ qb <= Quantize(b, d)
        /\ Quantize(a, d) \in Int /\ Quantize(b, d) \in Int
    BY <1>1, <1>2, <1>3, <1>4
  <2> QED
    BY <1>1, <1>2, <1>7, <2>1
<1> QED
  BY <1>1, <1>2, <1>5, <1>6, <1>7

\* Nothing is rounded to nothing.
LEMMA QuantizeZero ==
    ASSUME NEW d \in Nat \ {0}
    PROVE  Quantize(0, d) = 0
<1> DEFINE q == Quantize(0, d)
<1>1. q \in Int /\ 2 * (q * d - 0) <= d /\ 2 * (0 - q * d) <= d
  BY QuantizeNear
<1>2. PICK a \in Int, b \in Int : a = 0 \div d /\ b = 0 % d /\ 0 = d * a + b /\ 0 <= b /\ b < d
  BY DivMod
<1>3. a = 0
  <2>1. CASE a >= 1
    <3>1. d * a >= d
      BY <2>1
    <3>2. d * a \in Int
      OBVIOUS
    <3> QED
      BY <1>2, <3>1, <3>2
  <2>2. CASE a <= -1
    <3>1. d * a <= -d
      BY <2>2
    <3>2. d * a \in Int
      OBVIOUS
    <3> QED
      BY <1>2, <3>1, <3>2
  <2> QED
    BY <2>1, <2>2
<1>4. b = 0
  BY <1>2, <1>3
<1> QED
  BY <1>2, <1>3, <1>4 DEF Quantize

-----------------------------------------------------------------------------
(* The balances.                                                           *)

RateRecord == [num : Nat, den : Nat \ {0}]

\* With interest, one paisa grows.
LEMMA PowersApart ==
    ASSUME NEW rate \in RateRecord, rate.num > 0, NEW n \in Nat \ {0}
    PROVE  Power(rate.num + rate.den, n) - Power(rate.den, n) \in Nat \ {0}
<1> DEFINE num == rate.num
           den == rate.den
           g == num + den
           A(k) == Power(g, k)
           D(k) == Power(den, k)
           P == {k \in Nat : A(k + 1) - D(k + 1) \in Nat \ {0}}
<1>0. num \in Nat \ {0} /\ den \in Nat \ {0} /\ g \in Nat \ {0} /\ g = num + den
  BY DEF RateRecord
<1> HIDE DEF num, den, g
<1>a. ASSUME NEW k \in Nat PROVE A(k + 1) = g * A(k) /\ D(k + 1) = den * D(k)
  <2>1. g \in Int /\ den \in Int
    BY <1>0
  <2> QED
    BY <2>1, PowerEquation
<1>1. 0 \in P
  <2>1. A(0) = 1 /\ D(0) = 1
    <3>1. g \in Int /\ den \in Int /\ 0 \in Nat
      BY <1>0
    <3> QED
      BY <3>1, PowerEquation
  <2>2. A(0 + 1) = g * A(0) /\ D(0 + 1) = den * D(0)
    BY <1>a
  <2>3. A(0 + 1) - D(0 + 1) = num
    <3> HIDE DEF A, D
    <3> QED
      BY <1>0, <2>1, <2>2
  <2> QED
    BY <1>0, <2>3
<1>2. ASSUME NEW k \in Nat, k \in P PROVE k + 1 \in P
  <2> DEFINE a == A(k + 1)
             d == D(k + 1)
  <2>1. a \in Nat \ {0} /\ d \in Nat \ {0} /\ a - d \in Nat \ {0}
    BY <1>0, <1>2, PowerPositive
  <2>2. A((k + 1) + 1) = (num + den) * a /\ D((k + 1) + 1) = den * d
    <3>1. k + 1 \in Nat
      OBVIOUS
    <3>2. A((k + 1) + 1) = g * A(k + 1) /\ D((k + 1) + 1) = den * D(k + 1)
      BY <3>1, <1>a
    <3> QED
      BY <1>0, <3>2
  <2> HIDE DEF a, d
  <2>3. (num + den) * a - den * d = num * a + den * (a - d)
    BY <1>0, <2>1
  <2>4. num * a \in Nat \ {0} /\ den * (a - d) \in Nat \ {0}
    BY <1>0, <2>1
  <2>5. A((k + 1) + 1) - D((k + 1) + 1) \in Nat \ {0}
    BY <2>2, <2>3, <2>4
  <2> QED
    BY <2>5
<1>3. n - 1 \in P
  <2>1. n - 1 \in Nat
    OBVIOUS
  <2> HIDE DEF P
  <2> QED
    BY <1>1, <1>2, <2>1, NumberInduction
<1>4. (n - 1) + 1 = n
  OBVIOUS
<1> QED
  BY <1>3, <1>4 DEF num, den, g

\* The installment: half a paisa from the one that repays the loan exactly.
LEMMA EmiNear ==
    ASSUME NEW P \in Nat, NEW rate \in RateRecord, NEW n \in Nat \ {0}
    PROVE  LET e == Emi(P, rate, n)
               grown == Power(rate.num + rate.den, n)
               gained == grown - Power(rate.den, n)
           IN  /\ e \in Int
               /\ rate.num = 0 => 2 * (P - e * n) <= n
               /\ rate.num > 0 => 2 * (P * rate.num * grown - e * (rate.den * gained))
                                    <= rate.den * gained
<1> DEFINE e == Emi(P, rate, n)
           grown == Power(rate.num + rate.den, n)
           gained == grown - Power(rate.den, n)
<1>0. rate.num \in Nat /\ rate.den \in Nat \ {0} /\ rate.num + rate.den \in Nat \ {0}
  BY DEF RateRecord
<1>1. CASE rate.num = 0
  <2>1. e = Quantize(P, n)
    BY <1>1 DEF Emi
  <2>2. Quantize(P, n) \in Int /\ 2 * (P - Quantize(P, n) * n) <= n
    BY QuantizeNear
  <2> QED
    BY <1>1, <2>1, <2>2
<1>2. CASE rate.num > 0
  <2>1. e = Quantize(P * rate.num * grown, rate.den * gained)
    BY <1>2 DEF Emi
  <2>2. gained \in Nat \ {0} /\ grown \in Int
    <3>1. rate.num + rate.den \in Int
      BY <1>0
    <3>2. n \in Nat
      OBVIOUS
    <3>3. grown \in Int
      BY <3>1, <3>2, PowerEquation
    <3> QED
      BY <1>2, <3>3, PowersApart
  <2> HIDE DEF grown, gained, e
  <2>3. rate.den * gained \in Nat \ {0} /\ P * rate.num * grown \in Int
    BY <1>0, <2>2
  <2>4. e \in Int /\ 2 * (P * rate.num * grown - e * (rate.den * gained)) <= rate.den * gained
    BY <2>1, <2>3, QuantizeNear
  <2> QED
    BY <1>2, <2>4 DEF e, grown, gained
<1> QED
  BY <1>0, <1>1, <1>2

\* An installment repays something between nothing and the balance.
LEMMA InstallmentRepays ==
    ASSUME NEW e \in Int, NEW b \in Nat \ {0}, NEW rate \in RateRecord
    PROVE  LET part == PrincipalPart(e, b, rate) IN
           /\ part \in 0 .. b
           /\ part = b \/ part = e - Interest(b, rate)
           /\ Interest(b, rate) \in Int
           /\ 2 * (Interest(b, rate) * rate.den - b * rate.num) <= rate.den
           /\ rate.num = 0 => Interest(b, rate) = 0
<1>0. rate.num \in Nat /\ rate.den \in Nat \ {0} /\ b * rate.num \in Int
  BY DEF RateRecord
<1> DEFINE i == Interest(b, rate)
<1>1. i \in Int /\ 2 * (i * rate.den - b * rate.num) <= rate.den
  BY <1>0, QuantizeNear DEF Interest
<1>2. rate.num = 0 => i = 0
  <2> SUFFICES ASSUME rate.num = 0 PROVE i = 0
    OBVIOUS
  <2>1. b * rate.num = 0
    BY <1>0
  <2> QED
    BY <1>0, <2>1, QuantizeZero DEF Interest
<1>3. PrincipalPart(e, b, rate) = IF e - i < 0 \/ e - i > b THEN b ELSE e - i
  BY DEF PrincipalPart
<1> HIDE DEF i
<1>4. PrincipalPart(e, b, rate) \in 0 .. b
      /\ (PrincipalPart(e, b, rate) = b \/ PrincipalPart(e, b, rate) = e - i)
  BY <1>1, <1>3
<1> QED
  BY <1>1, <1>2, <1>4 DEF i

\* One month.
MonthAfter(b, e, rate) == IF b <= 0 THEN b ELSE b - PrincipalPart(e, b, rate)

BalanceOn(B, P, rate, n) ==
    B = [k \in 0 .. n |-> IF k = 0 THEN P ELSE MonthAfter(B[k - 1], Emi(P, rate, n), rate)]

\* The balances that the code's loop works out, month by month, exist for any number of
\* months.
LEMMA BalancesExist ==
    ASSUME NEW P \in Nat, NEW rate \in RateRecord, NEW n \in Nat \ {0}
    PROVE  BalanceOn(BalanceAfter(P, rate, n), P, rate, n)
<1> DEFINE e == Emi(P, rate, n)
           step == [a \in Nat \X Int |-> MonthAfter(a[2], e, rate)]
<1>0. e \in Int
  BY EmiNear
<1> HIDE DEF e
<1>1. ASSUME NEW b \in Int PROVE MonthAfter(b, e, rate) \in Int
  <2>1. CASE b <= 0
    BY <2>1 DEF MonthAfter
  <2>2. CASE b > 0
    <3>1. PrincipalPart(e, b, rate) \in 0 .. b
      BY <1>0, <2>2, InstallmentRepays
    <3> QED
      BY <2>2, <3>1 DEF MonthAfter
  <2> QED
    BY <2>1, <2>2
<1>2. step \in [Nat \X Int -> Int]
  BY <1>1
<1>3. \A k \in Nat, b \in Int : step[<<k, b>>] = MonthAfter(b, e, rate)
  OBVIOUS
<1> HIDE DEF step
<1>4. PICK f : Iterates(f, n, P, step)
  BY <1>2, IterationExists
<1>5. ASSUME NEW k \in 1 .. n PROVE f[k] = MonthAfter(f[k - 1], e, rate)
  <2>1. k \in Nat /\ k - 1 \in 0 .. n
    OBVIOUS
  <2>2. f[k - 1] \in Int /\ f[k] = step[<<k, f[k - 1]>>]
    BY <1>4, <2>1 DEF Iterates
  <2> QED
    BY <1>3, <2>1, <2>2
<1>6. BalanceOn(f, P, rate, n)
  <2>1. \A k \in 0 .. n : k = 0 \/ k \in 1 .. n
    OBVIOUS
  <2>2. \A k \in 0 .. n : f[k] = IF k = 0 THEN P ELSE MonthAfter(f[k - 1], e, rate)
    BY <1>4, <1>5, <2>1 DEF Iterates
  <2> QED
    BY <1>4, <2>2 DEF BalanceOn, Iterates, e
<1> QED
  BY <1>6 DEF BalanceAfter, BalanceOn, MonthAfter

\* The balances start at what is outstanding, never grow and never go below zero.
LEMMA Balances ==
    ASSUME NEW P \in Nat, NEW rate \in RateRecord, NEW n \in Nat \ {0}
    PROVE  LET B == BalanceAfter(P, rate, n)
               e == Emi(P, rate, n)
           IN  /\ B[0] = P
               /\ \A k \in 0 .. n : B[k] \in Nat
               /\ \A k \in 1 .. n : IF B[k - 1] = 0 THEN B[k] = 0
                                    ELSE B[k] = B[k - 1] - PrincipalPart(e, B[k - 1], rate)
<1> DEFINE B == BalanceAfter(P, rate, n)
           e == Emi(P, rate, n)
           Q == {k \in Nat : k <= n => B[k] \in Nat}
<1>0. e \in Int /\ BalanceOn(B, P, rate, n)
  BY EmiNear, BalancesExist
<1>1. B[0] = P /\ \A k \in 1 .. n : B[k] = MonthAfter(B[k - 1], e, rate)
  BY <1>0 DEF BalanceOn
<1> HIDE DEF B, e
<1>2. ASSUME NEW b \in Nat
      PROVE  /\ MonthAfter(b, e, rate) \in Nat
             /\ IF b = 0 THEN MonthAfter(b, e, rate) = 0
                ELSE MonthAfter(b, e, rate) = b - PrincipalPart(e, b, rate)
  <2>1. CASE b = 0
    BY <2>1 DEF MonthAfter
  <2>2. CASE b # 0
    <3>1. PrincipalPart(e, b, rate) \in 0 .. b
      BY <1>0, <2>2, InstallmentRepays
    <3> QED
      BY <2>2, <3>1 DEF MonthAfter
  <2> QED
    BY <2>1, <2>2
<1>3. 0 \in Q
  BY <1>1
<1>4. ASSUME NEW k \in Nat, k \in Q PROVE k + 1 \in Q
  <2> SUFFICES ASSUME k + 1 <= n PROVE B[k + 1] \in Nat
    OBVIOUS
  <2>1. k + 1 \in 1 .. n /\ (k + 1) - 1 = k /\ B[k] \in Nat
    BY <1>4
  <2>2. B[k + 1] = MonthAfter(B[(k + 1) - 1], e, rate)
    BY <1>1, <2>1
  <2> QED
    BY <1>2, <2>1, <2>2
<1>5. \A k \in 0 .. n : B[k] \in Nat
  <2>1. \A k \in Nat : k \in Q
    <3> HIDE DEF Q
    <3> QED
      BY <1>3, <1>4, NumberInduction
  <2> QED
    BY <2>1
<1>6. ASSUME NEW k \in 1 .. n
      PROVE  IF B[k - 1] = 0 THEN B[k] = 0
             ELSE B[k] = B[k - 1] - PrincipalPart(e, B[k - 1], rate)
  <2>1. B[k - 1] \in Nat
    BY <1>5
  <2> QED
    BY <1>1, <1>2, <2>1
<1> QED
  BY <1>1, <1>5, <1>6 DEF B, e

-----------------------------------------------------------------------------
(* What is left at the end.  While no installment is cut off, each adds    *)
(* half a paisa of its own rounding and half of the interest's, and both   *)
(* grow with the interest of the months that follow.                       *)

\* A month of the induction below, in the numbers it is about.
LEMMA MonthGrows ==
    ASSUME NEW num \in Nat, NEW den \in Nat \ {0}, NEW e \in Int, NEW P \in Nat,
           NEW a \in Nat \ {0}, NEW d \in Nat \ {0}, NEW b \in Nat, NEW c \in Nat, NEW i \in Int,
           2 * (i * den - b * num) <= den,
           c = b - (e - i),
           2 * (num * (d * b)) <= 2 * (num * (a * P)) - (2 * e - 1) * (den * (a - d))
    PROVE  2 * (num * ((den * d) * c))
             <= 2 * (num * (((num + den) * a) * P))
                  - (2 * e - 1) * (den * ((num + den) * a - den * d))
<1> DEFINE g == num + den
           w == 2 * e - 1
           nd == num * d
<1>1. nd \in Nat /\ w \in Int /\ g \in Nat
  OBVIOUS

\* The rounded interest.
<1>2. 2 * (den * c) <= 2 * (g * b) - den * w
  <2>1. den * c = den * b - den * e + i * den
    OBVIOUS
  <2>2. g * b = b * num + den * b /\ den * w = 2 * (den * e) - den
    OBVIOUS
  <2> QED
    BY <2>1, <2>2
<1>3. nd * (2 * (den * c)) <= nd * (2 * (g * b) - den * w)
  <2> DEFINE x == 2 * (den * c)
             y == 2 * (g * b) - den * w
  <2>1. x \in Int /\ y \in Int /\ x <= y /\ nd \in Nat
    BY <1>1, <1>2
  <2> HIDE DEF x, y, nd
  <2>2. nd * x <= nd * y
    BY <2>1
  <2> QED
    BY <2>2 DEF x, y

\* The balance so far.
<1>4. g * (2 * (num * (d * b))) <= g * (2 * (num * (a * P)) - w * (den * (a - d)))
  <2> DEFINE x == 2 * (num * (d * b))
             y == 2 * (num * (a * P)) - w * (den * (a - d))
  <2>1. x \in Int /\ y \in Int /\ x <= y /\ g \in Nat
    BY <1>1
  <2> HIDE DEF x, y, g
  <2>2. g * x <= g * y
    BY <2>1
  <2> QED
    BY <2>2 DEF x, y
<1>5. nd * (2 * (den * c)) = 2 * (num * ((den * d) * c))
  OBVIOUS
<1>6. nd * (2 * (g * b) - den * w) = g * (2 * (num * (d * b))) - nd * (den * w)
  OBVIOUS
<1>7. g * (2 * (num * (a * P)) - w * (den * (a - d))) - nd * (den * w)
        = 2 * (num * ((g * a) * P)) - w * (den * (g * a - den * d))
  OBVIOUS
<1> DEFINE l1 == nd * (2 * (den * c))
           l2 == g * (2 * (num * (d * b)))
           l3 == nd * (den * w)
           l4 == g * (2 * (num * (a * P)) - w * (den * (a - d)))
<1>8. l1 \in Int /\ l2 \in Int /\ l3 \in Int /\ l4 \in Int
  OBVIOUS
<1>9. l1 <= l2 - l3 /\ l2 <= l4
  BY <1>3, <1>4, <1>6
<1> HIDE DEF l1, l2, l3, l4
<1>10. l1 <= l4 - l3
  BY <1>8, <1>9
<1> QED
  BY <1>5, <1>7, <1>10 DEF l1, l3, l4

\* A loan with interest: while there is a balance, it is that of the exact installment, and
\* the rounding so far.
LEMMA BalanceWithInterest ==
    ASSUME NEW P \in Nat, NEW rate \in RateRecord, rate.num > 0, NEW n \in Nat \ {0}
    PROVE  LET B == BalanceAfter(P, rate, n)
               e == Emi(P, rate, n)
               A(k) == Power(rate.num + rate.den, k)
               D(k) == Power(rate.den, k)
           IN  B[n] > 0 => 2 * (rate.num * (D(n) * B[n]))
                             <= 2 * (rate.num * (A(n) * P))
                                  - (2 * e - 1) * (rate.den * (A(n) - D(n)))
<1> DEFINE num == rate.num
           den == rate.den
           g == num + den
           B == BalanceAfter(P, rate, n)
           e == Emi(P, rate, n)
           A(k) == Power(g, k)
           D(k) == Power(den, k)
           Bound(k) == 2 * (num * (D(k) * B[k]))
                         <= 2 * (num * (A(k) * P)) - (2 * e - 1) * (den * (A(k) - D(k)))
           Q == {k \in Nat : k <= n /\ B[k] > 0 => Bound(k)}
<1>1. num \in Nat \ {0} /\ den \in Nat \ {0} /\ g \in Nat \ {0} /\ e \in Int
  BY EmiNear DEF RateRecord
<1>2. /\ B[0] = P
      /\ \A k \in 0 .. n : B[k] \in Nat
      /\ \A k \in 1 .. n : IF B[k - 1] = 0 THEN B[k] = 0
                           ELSE B[k] = B[k - 1] - PrincipalPart(e, B[k - 1], rate)
  BY Balances
<1>3. ASSUME NEW b \in Nat \ {0}
      PROVE  /\ PrincipalPart(e, b, rate) = b
                \/ PrincipalPart(e, b, rate) = e - Interest(b, rate)
             /\ Interest(b, rate) \in Int
             /\ 2 * (Interest(b, rate) * den - b * num) <= den
  BY <1>1, InstallmentRepays
<1>4. g = num + den
  OBVIOUS
<1> HIDE DEF B, e, num, den, g
<1>5. ASSUME NEW k \in Nat
      PROVE  /\ A(k) \in Nat \ {0} /\ D(k) \in Nat \ {0} /\ A(0) = 1 /\ D(0) = 1
             /\ A(k + 1) = g * A(k) /\ D(k + 1) = den * D(k)
  <2>1. g \in Int /\ den \in Int
    BY <1>1
  <2>2. A(0) = 1 /\ D(0) = 1 /\ A(k + 1) = g * A(k) /\ D(k + 1) = den * D(k)
    BY <2>1, PowerEquation
  <2> QED
    BY <1>1, <2>2, PowerPositive
<1>6. 0 \in Q
  <2>1. A(0) = 1 /\ D(0) = 1
    BY <1>5
  <2>2. Bound(0)
    BY <1>1, <1>2, <2>1
  <2> QED
    BY <2>2
<1>7. ASSUME NEW k \in Nat, k \in Q PROVE k + 1 \in Q
  <2> SUFFICES ASSUME k + 1 <= n, B[k + 1] > 0 PROVE Bound(k + 1)
    OBVIOUS
  <2>1. k \in 0 .. n /\ k + 1 \in 1 .. n /\ (k + 1) - 1 = k
    OBVIOUS
  <2>2. IF B[k] = 0 THEN B[k + 1] = 0
        ELSE B[k + 1] = B[k] - PrincipalPart(e, B[k], rate)
    <3>1. IF B[(k + 1) - 1] = 0 THEN B[k + 1] = 0
          ELSE B[k + 1] = B[(k + 1) - 1] - PrincipalPart(e, B[(k + 1) - 1], rate)
      BY <1>2, <2>1
    <3> QED
      BY <2>1, <3>1
  <2>3. B[k] \in Nat \ {0} /\ B[k + 1] \in Nat
    <3>1. B[k] \in Nat /\ B[k + 1] \in Nat
      BY <1>2, <2>1
    <3> QED
      BY <2>2, <3>1
  <2>4. Bound(k)
    BY <1>7, <2>3
  <2>5. PICK i \in Int : i = Interest(B[k], rate)
    BY <1>3, <2>3
  <2>6. B[k + 1] = B[k] - (e - i) /\ 2 * (i * den - B[k] * num) <= den
    <3>1. PrincipalPart(e, B[k], rate) # B[k]
      BY <2>2, <2>3
    <3> QED
      BY <1>3, <2>2, <2>3, <2>5, <3>1
  <2> DEFINE a == A(k)
             d == D(k)
             b == B[k]
             c == B[k + 1]
  <2>7. a \in Nat \ {0} /\ d \in Nat \ {0} /\ A(k + 1) = g * a /\ D(k + 1) = den * d
    BY <1>5
  <2>8. 2 * (num * (d * b)) <= 2 * (num * (a * P)) - (2 * e - 1) * (den * (a - d))
    BY <2>4
  <2>9. /\ b \in Nat /\ c \in Nat /\ c = b - (e - i) /\ 2 * (i * den - b * num) <= den
        /\ num \in Nat
    BY <1>1, <2>3, <2>6
  <2> HIDE DEF a, d, b, c, A, D
  <2>10. 2 * (num * ((den * d) * c))
           <= 2 * (num * (((num + den) * a) * P))
                - (2 * e - 1) * (den * ((num + den) * a - den * d))
    BY <1>1, <2>7, <2>8, <2>9, MonthGrows
  <2>11. 2 * (num * (D(k + 1) * c))
           <= 2 * (num * (A(k + 1) * P)) - (2 * e - 1) * (den * (A(k + 1) - D(k + 1)))
    BY <1>4, <2>7, <2>10
  <2> QED
    BY <2>11 DEF c
<1>8. n \in Q
  <2> HIDE DEF Q
  <2> QED
    BY <1>6, <1>7, NumberInduction
<1>9. B[n] > 0 => Bound(n)
  BY <1>8
<1> QED
  BY <1>9 DEF num, den, g, e, B

\* A loan without: it is repaid in equal parts.
LEMMA BalanceWithoutInterest ==
    ASSUME NEW P \in Nat, NEW rate \in RateRecord, rate.num = 0, NEW n \in Nat \ {0}
    PROVE  LET B == BalanceAfter(P, rate, n)
               e == Emi(P, rate, n)
           IN  B[n] > 0 => B[n] = P - n * e
<1> DEFINE B == BalanceAfter(P, rate, n)
           e == Emi(P, rate, n)
           Q == {k \in Nat : k <= n /\ B[k] > 0 => B[k] = P - k * e}
<1>1. e \in Int
  BY EmiNear
<1>2. /\ B[0] = P
      /\ \A k \in 0 .. n : B[k] \in Nat
      /\ \A k \in 1 .. n : IF B[k - 1] = 0 THEN B[k] = 0
                           ELSE B[k] = B[k - 1] - PrincipalPart(e, B[k - 1], rate)
  BY Balances
<1>3. ASSUME NEW b \in Nat \ {0}
      PROVE  PrincipalPart(e, b, rate) = b \/ PrincipalPart(e, b, rate) = e
  BY <1>1, InstallmentRepays
<1> HIDE DEF B, e
<1>4. 0 \in Q
  BY <1>1, <1>2
<1>5. ASSUME NEW k \in Nat, k \in Q PROVE k + 1 \in Q
  <2> SUFFICES ASSUME k + 1 <= n, B[k + 1] > 0 PROVE B[k + 1] = P - (k + 1) * e
    OBVIOUS
  <2>1. k \in 0 .. n /\ k + 1 \in 1 .. n /\ (k + 1) - 1 = k
    OBVIOUS
  <2>2. IF B[(k + 1) - 1] = 0 THEN B[k + 1] = 0
        ELSE B[k + 1] = B[(k + 1) - 1] - PrincipalPart(e, B[(k + 1) - 1], rate)
    BY <1>2, <2>1
  <2>3. B[k] \in Nat /\ B[k + 1] \in Nat
    BY <1>2, <2>1
  <2>4. B[k] # 0 /\ B[k + 1] = B[k] - e
    BY <1>3, <2>1, <2>2, <2>3
  <2>5. B[k] = P - k * e
    BY <1>5, <2>3, <2>4
  <2>6. (k + 1) * e = k * e + e /\ k * e \in Int
    BY <1>1
  <2> QED
    BY <1>1, <2>4, <2>5, <2>6
<1>6. n \in Q
  <2> HIDE DEF Q
  <2> QED
    BY <1>4, <1>5, NumberInduction
<1> QED
  BY <1>6 DEF B, e

\* The last step for a loan with interest: d, e, ... are numbers from here on.
LEMMA LeftOver ==
    ASSUME NEW num \in Nat \ {0}, NEW den \in Nat \ {0}, NEW e \in Int, NEW P \in Nat,
           NEW a \in Int, NEW d \in Nat \ {0}, NEW b \in Nat,
           2 * (num * ((den * d) * b))
             <= 2 * (num * (a * P)) - (2 * e - 1) * (den * (a - den * d)),
           2 * (P * num * a - e * (den * (a - den * d))) <= den * (a - den * d)
    PROVE  b * num * d <= a - den * d
<1> DEFINE y == a - den * d
           x == b * num * d
<1>1. x \in Int /\ y \in Int
  OBVIOUS
<1>2. 2 * (num * ((den * d) * b)) = 2 * (den * x)
  OBVIOUS
<1>3. 2 * (num * (a * P)) - (2 * e - 1) * (den * (a - den * d))
        = 2 * (P * num * a - e * (den * (a - den * d))) + den * y
  OBVIOUS
<1> DEFINE l == den * x
           r == den * y
           m == 2 * (P * num * a - e * (den * (a - den * d)))
<1>4. l \in Int /\ r \in Int /\ m \in Int
  OBVIOUS
<1>5. 2 * l <= m + r /\ m <= r
  BY <1>2, <1>3
<1>6. l <= r
  <2> HIDE DEF l, r, m
  <2> QED
    BY <1>4, <1>5
<1>7. den * (x - y) <= 0
  BY <1>6
<1> HIDE DEF x, y
<1>8. x <= y
  <2> SUFFICES ASSUME x - y >= 1 PROVE FALSE
    BY <1>1
  <2>1. den * (x - y) >= den
    BY <1>1
  <2>2. den * (x - y) \in Int
    BY <1>1
  <2> QED
    BY <1>7, <2>1, <2>2
<1> QED
  BY <1>8 DEF x, y

\* What the last installment leaves.
LEMMA LeftAtTheEnd ==
    ASSUME NEW P \in Nat, NEW rate \in RateRecord, NEW n \in Nat \ {0}
    PROVE  LET left == BalanceAfter(P, rate, n)[n] IN
           /\ left \in Nat
           /\ IF rate.num = 0 THEN left <= n
              ELSE left * rate.num * Power(rate.den, n - 1)
                     <= Power(rate.num + rate.den, n) - Power(rate.den, n)
<1> DEFINE num == rate.num
           den == rate.den
           left == BalanceAfter(P, rate, n)[n]
           e == Emi(P, rate, n)
           a == Power(num + den, n)
           d == Power(den, n - 1)
<1>1. num \in Nat /\ den \in Nat \ {0} /\ num + den \in Nat \ {0} /\ e \in Int
  BY EmiNear DEF RateRecord
<1>2. left \in Nat
  BY Balances
<1>3. CASE num = 0
  <2>1. 2 * (P - e * n) <= n
    BY <1>3, EmiNear
  <2>2. left > 0 => left = P - n * e
    BY <1>3, BalanceWithoutInterest
  <2> HIDE DEF left, e
  <2>3. e * n = n * e /\ n * e \in Int
    BY <1>1
  <2>4. left <= n
    BY <1>1, <1>2, <2>1, <2>2, <2>3
  <2> QED
    BY <1>2, <1>3, <2>4 DEF left
<1>4. CASE num > 0
  <2>1. n - 1 \in Nat /\ (n - 1) + 1 = n /\ den \in Int
    BY <1>1
  <2>2. Power(den, n) = den * d /\ d \in Nat \ {0}
    <3>1. Power(den, (n - 1) + 1) = den * d
      BY <2>1, PowerEquation
    <3> QED
      BY <1>1, <2>1, <3>1, PowerPositive
  <2>3. a - den * d \in Nat \ {0} /\ a \in Int
    <3>1. n \in Nat /\ num + den \in Int
      BY <1>1
    <3>2. a \in Int
      BY <3>1, PowerEquation
    <3> QED
      BY <1>4, <2>2, <3>2, PowersApart
  <2>4. 2 * (P * num * a - e * (den * (a - den * d))) <= den * (a - den * d)
    BY <1>4, <2>2, EmiNear
  <2>5. left > 0 => 2 * (num * ((den * d) * left))
                      <= 2 * (num * (a * P)) - (2 * e - 1) * (den * (a - den * d))
    BY <1>4, <2>2, BalanceWithInterest
  <2>6. num \in Nat \ {0}
    BY <1>1, <1>4
  <2> HIDE DEF left, e, a, d, num, den
  <2>7. left * num * d <= a - den * d
    <3>1. CASE left > 0
      BY <1>1, <1>2, <2>2, <2>3, <2>4, <2>5, <2>6, <3>1, LeftOver
    <3>2. CASE left = 0
      <4>1. left * num * d = 0
        BY <2>2, <2>6, <3>2
      <4> QED
        BY <2>3, <4>1
    <3> QED
      BY <1>2, <3>1, <3>2
  <2> QED
    BY <1>2, <2>2, <2>6, <2>7 DEF left, a, d, num, den
<1> QED
  BY <1>1, <1>3, <1>4

-----------------------------------------------------------------------------
(* The schedule.                                                           *)

\* The row of month k.
RowOf(P, rate, n, k) ==
    [month |-> k,
     interest |-> Interest(BalanceAfter(P, rate, n)[k - 1], rate),
     principal |-> PrincipalPart(Emi(P, rate, n), BalanceAfter(P, rate, n)[k - 1], rate),
     balance |-> BalanceAfter(P, rate, n)[k]]

\* What it is of a schedule that has it.
LEMMA RowFacts ==
    ASSUME NEW P \in Nat, NEW rate \in RateRecord, NEW n \in Nat \ {0}, NEW k \in 1 .. n,
           BalanceAfter(P, rate, n)[k - 1] > 0
    PROVE  LET row == RowOf(P, rate, n, k)
               B == BalanceAfter(P, rate, n)
           IN  /\ row.month = k /\ row.balance = B[k] /\ row.balance \in Nat /\ row.principal \in Nat
               /\ B[k - 1] = B[k] + row.principal
               /\ row.interest = Interest(B[k - 1], rate)
<1> DEFINE B == BalanceAfter(P, rate, n)
           e == Emi(P, rate, n)
<1>1. e \in Int
  BY EmiNear
<1>2. /\ \A j \in 0 .. n : B[j] \in Nat
      /\ \A j \in 1 .. n : IF B[j - 1] = 0 THEN B[j] = 0
                           ELSE B[j] = B[j - 1] - PrincipalPart(e, B[j - 1], rate)
  BY Balances
<1>3. k - 1 \in 0 .. n /\ k \in 0 .. n
  OBVIOUS
<1>4. B[k - 1] \in Nat \ {0} /\ B[k] \in Nat /\ B[k] = B[k - 1] - PrincipalPart(e, B[k - 1], rate)
  BY <1>2, <1>3
<1>5. PrincipalPart(e, B[k - 1], rate) \in 0 .. B[k - 1]
  BY <1>1, <1>4, InstallmentRepays
<1> DEFINE row == RowOf(P, rate, n, k)
<1>6. /\ row.month = k /\ row.balance = B[k] /\ row.principal = PrincipalPart(e, B[k - 1], rate)
      /\ row.interest = Interest(B[k - 1], rate)
  BY DEF RowOf
<1> HIDE DEF B, e, row
<1>7. row.balance \in Nat /\ row.principal \in Nat /\ B[k - 1] = B[k] + row.principal
  BY <1>4, <1>5, <1>6
<1> QED
  BY <1>6, <1>7 DEF B, e, row

Repays(P, rate, n) == {j \in 1 .. n : BalanceAfter(P, rate, n)[j - 1] > 0}

\* A schedule is a set of rows, one for each month that repays anything.
LEMMA ScheduleRows ==
    ASSUME NEW P \in Nat \ {0}, NEW rate \in RateRecord, NEW n \in Nat \ {0}
    PROVE  Schedule(P, rate, n) = {RowOf(P, rate, n, k) : k \in Repays(P, rate, n)}
BY DEF Schedule, RowOf, Repays

\* The rows repay what is gone at the end.
LEMMA ScheduleAddsUp ==
    ASSUME NEW P \in Nat \ {0}, NEW rate \in RateRecord, NEW n \in Nat \ {0}
    PROVE  LET rows == Schedule(P, rate, n) IN
           SumFunction([row \in rows |-> row.principal]) = P - BalanceAfter(P, rate, n)[n]
<1> DEFINE rows == Schedule(P, rate, n)
           B == BalanceAfter(P, rate, n)
           J == Repays(P, rate, n)
           R(k) == {RowOf(P, rate, n, j) : j \in {i \in J : i <= k}}
           f == [row \in rows |-> row.principal]
           Q == {k \in Nat : k <= n => IsFiniteSet(R(k)) /\ SumFunctionOnSet(f, R(k)) = P - B[k]}
<1>1. rows = {RowOf(P, rate, n, k) : k \in J}
  BY ScheduleRows
<1>2. B[0] = P /\ (\A k \in 0 .. n : B[k] \in Nat) /\ P \in Nat
      /\ \A k \in 1 .. n : B[k - 1] = 0 => B[k] = 0
  BY Balances
<1>3. ASSUME NEW k \in J
      PROVE  LET row == RowOf(P, rate, n, k) IN
             /\ row \in rows /\ f[row] = row.principal /\ row.principal \in Nat
             /\ row.month = k /\ B[k - 1] = B[k] + row.principal
  <2>1. k \in 1 .. n /\ B[k - 1] > 0
    BY DEF Repays
  <2>2. RowOf(P, rate, n, k) \in rows
    BY <1>1
  <2> QED
    BY <2>1, <2>2, RowFacts
<1>a. J = {j \in 1 .. n : B[j - 1] > 0}
  BY DEF Repays
<1> HIDE DEF B, J, f, rows
<1>4. 0 \in Q
  <2>1. R(0) = {}
    BY <1>a
  <2>2. SumFunctionOnSet(f, R(0)) = 0
    BY <2>1, SumOfNone
  <2>3. IsFiniteSet(R(0))
    BY <2>1, FS_EmptySet
  <2> HIDE DEF R
  <2> QED
    BY <1>2, <2>2, <2>3
<1>5. ASSUME NEW k \in Nat, k \in Q PROVE k + 1 \in Q
  <2> SUFFICES ASSUME k + 1 <= n
               PROVE  IsFiniteSet(R(k + 1)) /\ SumFunctionOnSet(f, R(k + 1)) = P - B[k + 1]
    OBVIOUS
  <2>1. IsFiniteSet(R(k)) /\ SumFunctionOnSet(f, R(k)) = P - B[k]
    BY <1>5
  <2>2. k \in 0 .. n /\ k + 1 \in 0 .. n /\ k + 1 \in 1 .. n /\ (k + 1) - 1 = k
    OBVIOUS
  <2>3. B[k] \in Nat /\ B[k + 1] \in Nat
    BY <1>2, <2>2
  <2>4. CASE k + 1 \notin J
    <3>1. R(k + 1) = R(k)
      <4>1. \A i \in J : i <= k + 1 <=> i <= k
        BY <1>a, <2>4
      <4> QED
        BY <4>1
    <3>2. B[k] = 0 /\ B[k + 1] = 0
      BY <1>2, <1>a, <2>2, <2>3, <2>4
    <3> HIDE DEF R
    <3> QED
      BY <2>1, <3>1, <3>2
  <2>5. CASE k + 1 \in J
    <3> DEFINE new == RowOf(P, rate, n, k + 1)
    <3>1. /\ f[new] = new.principal /\ new.principal \in Nat /\ new.month = k + 1
          /\ B[(k + 1) - 1] = B[k + 1] + new.principal
      BY <1>3, <2>5
    <3>2. \A row \in R(k) : row.month <= k /\ row.month \in Nat /\ f[row] \in Int
      BY <1>3, <1>a
    <3>3. R(k + 1) = R(k) \union {new}
      <4>1. {i \in J : i <= k + 1} = {i \in J : i <= k} \union {k + 1}
        BY <1>a, <2>5
      <4> QED
        BY <4>1
    <3>4. new \notin R(k)
      <4> HIDE DEF R, new
      <4> QED
        BY <3>1, <3>2
    <3> HIDE DEF R, new
    <3>5. \A row \in R(k) \union {new} : f[row] \in Int
      BY <3>1, <3>2
    <3>6. SumFunctionOnSet(f, R(k) \union {new}) = f[new] + SumFunctionOnSet(f, R(k))
      BY <2>1, <3>4, <3>5, SumAdd
    <3>7. IsFiniteSet(R(k) \union {new})
      BY <2>1, FS_AddElement
    <3>8. f[new] + SumFunctionOnSet(f, R(k)) = P - B[k + 1]
      <4>1. /\ f[new] = new.principal /\ new.principal \in Nat
            /\ B[k] = B[k + 1] + new.principal
        BY <2>2, <3>1
      <4> QED
        BY <1>2, <2>1, <2>3, <4>1
    <3>9. SumFunctionOnSet(f, R(k + 1)) = P - B[k + 1]
      BY <3>3, <3>6, <3>8
    <3> QED
      BY <3>3, <3>7, <3>9
  <2> QED
    BY <2>4, <2>5
<1>6. n \in Q
  <2> HIDE DEF Q
  <2> QED
    BY <1>4, <1>5, NumberInduction
<1>7. R(n) = rows
  <2>1. {i \in J : i <= n} = J
    BY <1>a
  <2> QED
    BY <1>1, <2>1
<1>8. SumFunction(f) = SumFunctionOnSet(f, rows)
  BY DEF SumFunction, SumFunctionOnSet, FoldFunction, f
<1>9. SumFunctionOnSet(f, rows) = P - B[n]
  <2> HIDE DEF R
  <2> QED
    BY <1>6, <1>7
<1> QED
  BY <1>8, <1>9 DEF f, rows, B

\* The interest of a month is at most that of the month before.
LEMMA InterestShrinks ==
    ASSUME NEW a \in Nat, NEW b \in Nat, a <= b, NEW rate \in RateRecord
    PROVE  Interest(a, rate) <= Interest(b, rate)
<1>1. rate.num \in Nat /\ rate.den \in Nat \ {0}
  BY DEF RateRecord
<1>2. a * rate.num \in Int /\ b * rate.num \in Int /\ a * rate.num <= b * rate.num
  BY <1>1
<1> QED
  BY <1>1, <1>2, QuantizeGrows DEF Interest

\* From a row to the next.
LEMMA ScheduleSteps ==
    ASSUME NEW P \in Nat \ {0}, NEW rate \in RateRecord, NEW n \in Nat \ {0},
           NEW row \in Schedule(P, rate, n), NEW next \in Schedule(P, rate, n),
           next.month = row.month + 1
    PROVE  next.balance = row.balance - next.principal /\ next.interest <= row.interest
<1> DEFINE B == BalanceAfter(P, rate, n)
<1>1. PICK j \in Repays(P, rate, n) : row = RowOf(P, rate, n, j)
  BY ScheduleRows
<1>2. PICK k \in Repays(P, rate, n) : next = RowOf(P, rate, n, k)
  BY ScheduleRows
<1>3. j \in 1 .. n /\ B[j - 1] > 0 /\ k \in 1 .. n /\ B[k - 1] > 0
  BY DEF Repays
<1>4. /\ row.month = j /\ row.balance = B[j] /\ row.balance \in Nat /\ row.principal \in Nat
      /\ B[j - 1] = B[j] + row.principal /\ row.interest = Interest(B[j - 1], rate)
  BY <1>1, <1>3, RowFacts
<1>5. /\ next.month = k /\ next.balance = B[k] /\ next.balance \in Nat /\ next.principal \in Nat
      /\ B[k - 1] = B[k] + next.principal /\ next.interest = Interest(B[k - 1], rate)
  BY <1>2, <1>3, RowFacts
<1>6. k - 1 = j
  BY <1>3, <1>4, <1>5
<1>7. B[j] \in Nat /\ B[j - 1] \in Nat /\ B[j] <= B[j - 1]
  <2> HIDE DEF B
  <2> QED
    BY <1>4
<1> HIDE DEF B
<1> QED
  BY <1>4, <1>5, <1>6, <1>7, InterestShrinks
=============================================================================
