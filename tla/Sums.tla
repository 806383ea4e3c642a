-------------------------------- MODULE Sums --------------------------------
(***************************************************************************)
(* Facts about numbers that the models of money rest on: division with     *)
(* rest, functions that iterate a step, and SumFunctionOnSet of the        *)
(* community modules, the sum of f[x] for x in a finite set, which rows    *)
(* are totalled with, and the rounding of the columns that keep amounts.   *)
(*                                                                         *)
(* The fold behind a sum is a recursive function on the subsets of a set,  *)
(* and every fact is an induction over these: SubsetInduction, which takes *)
(* the property as a set and follows from a strict subset being a          *)
(* well-founded order.                                                     *)
(***************************************************************************)
EXTENDS UnitOfWork, FiniteSetsExt, FiniteSetTheorems, WellFoundedInduction, TLAPS

\* Induction over the subsets of a finite set: a property that holds of a set when
\* it holds of the set less any one of its elements holds of every subset.
LEMMA SubsetInduction ==
    ASSUME NEW S, IsFiniteSet(S), NEW P,
           \A T \in SUBSET S : (\A x \in T : T \ {x} \in P) => T \in P
    PROVE  \A T \in SUBSET S : T \in P
<1> DEFINE B == {T \in SUBSET S : T \notin P}
<1> SUFFICES ASSUME B # {} PROVE FALSE
  OBVIOUS
<1>1. B \subseteq FiniteSubsetsOf(S)
  BY FS_Subset DEF FiniteSubsetsOf
<1>2. PICK T \in B : \A U \in B : <<U, T>> \notin StrictSubsetOrdering(S)
  BY <1>1, FS_StrictSubsetOrderingWellFounded, WFMin
<1>3. ASSUME NEW x \in T PROVE T \ {x} \in P
  <2>1. T \ {x} \in SUBSET S /\ T \ {x} # T /\ T \ {x} \subseteq T
    BY <1>3
  <2> QED
    BY <1>2, <2>1 DEF StrictSubsetOrdering
<1> QED
  BY <1>3

\* Induction over the numbers: of the intervals that end where the property fails, one
\* would be a least.
LEMMA NumberInduction ==
    ASSUME NEW P, 0 \in P, \A n \in Nat : n \in P => n + 1 \in P
    PROVE  \A n \in Nat : n \in P
<1> SUFFICES ASSUME NEW n \in Nat, n \notin P PROVE FALSE
  OBVIOUS
<1> DEFINE B == {1 .. m : m \in {k \in 0 .. n : k \notin P}}
<1>1. IsFiniteSet(1 .. n)
  BY FS_Interval
<1>2. B \subseteq FiniteSubsetsOf(1 .. n)
  BY <1>1, FS_Subset DEF FiniteSubsetsOf
<1>3. 1 .. n \in B
  OBVIOUS
<1>4. PICK T \in B : \A U \in B : <<U, T>> \notin StrictSubsetOrdering(1 .. n)
  <2> HIDE DEF B
  <2> QED
    BY <1>1, <1>2, <1>3, FS_StrictSubsetOrderingWellFounded, WFMin
<1>5. PICK m \in 0 .. n : m \notin P /\ T = 1 .. m
  OBVIOUS
<1>6. m # 0 /\ m - 1 \in 0 .. n /\ m - 1 \notin P
  <2>1. m # 0
    BY <1>5
  <2>2. m - 1 \in Nat /\ (m - 1) + 1 = m
    BY <2>1
  <2> QED
    BY <1>5, <2>1, <2>2
<1>7. 1 .. (m - 1) \in B
  BY <1>6
<1>8. <<1 .. (m - 1), T>> \in StrictSubsetOrdering(1 .. n)
  <2>1. 1 .. (m - 1) \subseteq 1 .. n /\ T \subseteq 1 .. n
    BY <1>5
  <2>2. 1 .. (m - 1) \subseteq T /\ 1 .. (m - 1) # T
    <3>1. m \in T /\ m \notin 1 .. (m - 1)
      BY <1>5, <1>6
    <3> QED
      BY <1>5, <3>1
  <2> QED
    BY <2>1, <2>2 DEF StrictSubsetOrdering
<1> QED
  BY <1>4, <1>7, <1>8

-----------------------------------------------------------------------------
(* The equation of a sum.                                                  *)

\* What the fold does with the set `s`, if `g` is the fold of smaller ones.
One(s) == CHOOSE x \in s : TRUE
Step(g, f, s) == IF s = {} THEN 0 ELSE f[One(s)] + g[s \ {One(s)}]
Folds(g, f, S) == g = [s \in SUBSET S |-> Step(g, f, s)]

\* The sum is the value of its fold at the whole set.
LEMMA SumIsFold ==
    ASSUME NEW f, NEW S
    PROVE  SumFunctionOnSet(f, S) = (CHOOSE g : Folds(g, f, S))[S]
BY DEF SumFunctionOnSet, FoldFunctionOnSet, MapThenFoldSet, Folds, Step, One

\* The element a fold takes out of a set is in it.
LEMMA OneIsIn == ASSUME NEW s, s # {} PROVE One(s) \in s
BY DEF One

\* Two folds agree where both are defined.
LEMMA FoldsAgree ==
    ASSUME NEW f, NEW S, IsFiniteSet(S), NEW T, S \subseteq T,
           NEW g, Folds(g, f, S), NEW h, Folds(h, f, T)
    PROVE  \A s \in SUBSET S : g[s] = h[s]
<1> DEFINE P == {s \in SUBSET S : g[s] = h[s]}
<1>1. ASSUME NEW s \in SUBSET S, \A x \in s : s \ {x} \in P
      PROVE  s \in P
  <2>1. g[s] = Step(g, f, s) /\ h[s] = Step(h, f, s)
    BY DEF Folds
  <2>2. CASE s = {}
    BY <2>1, <2>2 DEF Step
  <2>3. CASE s # {}
    <3>1. One(s) \in s
      BY <2>3, OneIsIn
    <3>2. g[s \ {One(s)}] = h[s \ {One(s)}]
      BY <1>1, <3>1
    <3> QED
      BY <2>1, <2>3, <3>2 DEF Step
  <2> QED
    BY <2>2, <2>3
<1> HIDE DEF P
<1>2. \A s \in SUBSET S : s \in P
  BY <1>1, SubsetInduction
<1> QED
  BY <1>2 DEF P

\* A fold over each subset is there.
LEMMA FoldExists ==
    ASSUME NEW f, NEW S, IsFiniteSet(S)
    PROVE  \A T \in SUBSET S : \E g : Folds(g, f, T)
<1> DEFINE P == {T \in SUBSET S : \E g : Folds(g, f, T)}
<1>1. ASSUME NEW T \in SUBSET S, \A x \in T : T \ {x} \in P
      PROVE  T \in P
  <2> DEFINE F(U) == CHOOSE g : Folds(g, f, U)
             \* The fold of a proper subset is that of any set between.
             Q == {U \in SUBSET S : U # T => Folds(F(U), f, U)}
  <2>0. \A U \in SUBSET T : U # T => \E g : Folds(g, f, U)
    <3>1. ASSUME NEW U \in SUBSET T, U # T
          PROVE  \E g : Folds(g, f, U)
      <4>1. PICK x \in T : x \notin U
        BY <3>1
      <4>2. PICK g : Folds(g, f, T \ {x})
        BY <1>1, <4>1
      <4>3. SUBSET U \subseteq SUBSET (T \ {x})
        BY <4>1
      <4> DEFINE h == [s \in SUBSET U |-> g[s]]
      <4>4. ASSUME NEW s \in SUBSET U
            PROVE  h[s] = Step(h, f, s)
        <5>1. h[s] = Step(g, f, s)
          BY <4>2, <4>3 DEF Folds
        <5>2. s # {} => h[s \ {One(s)}] = g[s \ {One(s)}]
          OBVIOUS
        <5> QED
          BY <5>1, <5>2 DEF Step
      <4>5. Folds(h, f, U)
        BY <4>4 DEF Folds
      <4> QED
        BY <4>5
    <3> QED
      BY <3>1
  <2>1. \A U \in SUBSET T : U # T => Folds(F(U), f, U)
    BY <2>0
  <2> HIDE DEF F
  <2> DEFINE h == [s \in SUBSET T |-> IF s = T THEN Step([u \in SUBSET T |-> F(u)[u]], f, T) ELSE F(s)[s]]
  <2>2. ASSUME NEW s \in SUBSET T
        PROVE  h[s] = Step(h, f, s)
    <3>1. CASE s = {} /\ s # T
      <4>1. F(s)[s] = Step(F(s), f, s)
        BY <2>1, <3>1 DEF Folds
      <4> QED
        BY <3>1, <4>1 DEF Step
    <3>2. CASE s = {} /\ s = T
      BY <3>2 DEF Step
    <3>3. CASE s # {}
      <4>1. One(s) \in s
        BY <3>3, OneIsIn
      <4> DEFINE r == s \ {One(s)}
      <4>2. r \in SUBSET T /\ r # T /\ r \subseteq s
        BY <4>1
      <4>3. h[r] = F(r)[r]
        BY <4>2
      <4>4. CASE s = T
        BY <3>3, <4>2, <4>3, <4>4 DEF Step
      <4>5. CASE s # T
        <5>1. F(s)[s] = Step(F(s), f, s)
          BY <2>1, <4>5 DEF Folds
        <5>2. IsFiniteSet(r)
          BY <4>2, FS_Subset
        <5>3. F(r)[r] = F(s)[r]
          BY <2>1, <4>2, <4>5, <5>2, FoldsAgree
        <5> QED
          BY <3>3, <4>3, <4>5, <5>1, <5>3 DEF Step
      <4> QED
        BY <4>4, <4>5
    <3> QED
      BY <3>1, <3>2, <3>3
  <2>3. Folds(h, f, T)
    BY <2>2 DEF Folds
  <2> QED
    BY <2>3
<1> HIDE DEF P
<1>2. \A T \in SUBSET S : T \in P
  BY <1>1, SubsetInduction
<1> QED
  BY <1>2 DEF P

\* The sum of a set is the value of one element and the sum of the others.
LEMMA SumEquation ==
    ASSUME NEW f, NEW S, IsFiniteSet(S)
    PROVE  SumFunctionOnSet(f, S) =
             IF S = {} THEN 0 ELSE f[One(S)] + SumFunctionOnSet(f, S \ {One(S)})
<1> DEFINE F(U) == CHOOSE g : Folds(g, f, U)
<1>1. \A U \in SUBSET S : Folds(F(U), f, U)
  BY FoldExists
<1>2. \A U : SumFunctionOnSet(f, U) = F(U)[U]
  BY SumIsFold
<1> HIDE DEF F
<1>3. F(S)[S] = Step(F(S), f, S)
  BY <1>1 DEF Folds
<1>4. CASE S = {}
  BY <1>2, <1>3, <1>4 DEF Step
<1>5. CASE S # {}
  <2> DEFINE r == S \ {One(S)}
  <2>1. IsFiniteSet(r)
    BY FS_Subset
  <2>2. F(r)[r] = F(S)[r]
    BY <1>1, <2>1, FoldsAgree
  <2> QED
    BY <1>2, <1>3, <1>5, <2>2 DEF Step
<1> QED
  BY <1>4, <1>5
-----------------------------------------------------------------------------
(* Sums of integers.                                                       *)

\* Nothing sums to zero.
LEMMA SumOfNone == ASSUME NEW f PROVE SumFunctionOnSet(f, {}) = 0
BY SumEquation, FS_EmptySet

\* A sum of integers is one.
LEMMA SumType ==
    ASSUME NEW f, NEW S, IsFiniteSet(S), \A x \in S : f[x] \in Int
    PROVE  SumFunctionOnSet(f, S) \in Int
<1> DEFINE P == {T \in SUBSET S : SumFunctionOnSet(f, T) \in Int}
<1>1. ASSUME NEW T \in SUBSET S, \A x \in T : T \ {x} \in P
      PROVE  T \in P
  <2>1. SumFunctionOnSet(f, T) = IF T = {} THEN 0 ELSE f[One(T)] + SumFunctionOnSet(f, T \ {One(T)})
    BY FS_Subset, SumEquation
  <2>2. T # {} => One(T) \in T
    BY OneIsIn
  <2> QED
    BY <1>1, <2>1, <2>2
<1> HIDE DEF P
<1>2. \A T \in SUBSET S : T \in P
  BY <1>1, SubsetInduction
<1> QED
  BY <1>2 DEF P

\* It does not matter which element is taken out first.
LEMMA SumTakeOut ==
    ASSUME NEW f, NEW S, IsFiniteSet(S), \A y \in S : f[y] \in Int, NEW x \in S
    PROVE  SumFunctionOnSet(f, S) = f[x] + SumFunctionOnSet(f, S \ {x})
<1> DEFINE Sum(T) == SumFunctionOnSet(f, T)
           P == {T \in SUBSET S : \A y \in T : Sum(T) = f[y] + Sum(T \ {y})}
<1>0. \A T \in SUBSET S : IsFiniteSet(T) /\ Sum(T) \in Int
  BY FS_Subset, SumType
<1>1. ASSUME NEW T \in SUBSET S, \A y \in T : T \ {y} \in P
      PROVE  T \in P
  <2> SUFFICES ASSUME NEW y \in T PROVE Sum(T) = f[y] + Sum(T \ {y})
    OBVIOUS
  <2> DEFINE o == One(T)
  <2>1. o \in T /\ Sum(T) = f[o] + Sum(T \ {o})
    BY <1>0, OneIsIn, SumEquation
  <2>2. CASE y = o
    BY <2>1, <2>2
  <2>3. CASE y # o
    <3> HIDE DEF o
    <3>1. Sum(T \ {o}) = f[y] + Sum((T \ {o}) \ {y})
      BY <1>1, <2>1, <2>3
    <3>2. Sum(T \ {y}) = f[o] + Sum((T \ {y}) \ {o})
      BY <1>1, <2>1, <2>3
    <3>3. (T \ {o}) \ {y} = (T \ {y}) \ {o}
      OBVIOUS
    <3>4. f[o] \in Int /\ f[y] \in Int /\ Sum((T \ {y}) \ {o}) \in Int
      BY <1>0, <2>1
    <3> DEFINE rest == Sum((T \ {y}) \ {o})
    <3>5. /\ Sum(T) = f[o] + (f[y] + rest)
          /\ Sum(T \ {y}) = f[o] + rest
          /\ f[o] \in Int /\ f[y] \in Int /\ rest \in Int
      BY <2>1, <3>1, <3>2, <3>3, <3>4
    <3> HIDE DEF Sum, rest, P
    <3> QED
      BY <3>5
  <2> QED
    BY <2>2, <2>3
<1> HIDE DEF P
<1>2. \A T \in SUBSET S : T \in P
  BY <1>1, SubsetInduction
<1> QED
  BY <1>2 DEF P

\* A new element adds its value.
LEMMA SumAdd ==
    ASSUME NEW f, NEW S, IsFiniteSet(S), NEW x, x \notin S, \A y \in S \union {x} : f[y] \in Int
    PROVE  SumFunctionOnSet(f, S \union {x}) = f[x] + SumFunctionOnSet(f, S)
<1>1. IsFiniteSet(S \union {x}) /\ (S \union {x}) \ {x} = S
  BY FS_AddElement
<1> QED
  BY <1>1, SumTakeOut

\* Only the values in the set matter.
LEMMA SumSame ==
    ASSUME NEW f, NEW g, NEW S, IsFiniteSet(S), \A x \in S : f[x] = g[x]
    PROVE  SumFunctionOnSet(f, S) = SumFunctionOnSet(g, S)
<1> DEFINE P == {T \in SUBSET S : SumFunctionOnSet(f, T) = SumFunctionOnSet(g, T)}
<1>1. ASSUME NEW T \in SUBSET S, \A x \in T : T \ {x} \in P
      PROVE  T \in P
  <2> DEFINE o == One(T)
  <2>1. /\ SumFunctionOnSet(f, T) = IF T = {} THEN 0 ELSE f[o] + SumFunctionOnSet(f, T \ {o})
        /\ SumFunctionOnSet(g, T) = IF T = {} THEN 0 ELSE g[o] + SumFunctionOnSet(g, T \ {o})
    BY FS_Subset, SumEquation
  <2>2. T # {} => o \in T
    BY OneIsIn
  <2> QED
    BY <1>1, <2>1, <2>2
<1> HIDE DEF P
<1>2. \A T \in SUBSET S : T \in P
  BY <1>1, SubsetInduction
<1> QED
  BY <1>2 DEF P

\* Nothing but zeros sums to zero.
LEMMA SumOfZero ==
    ASSUME NEW f, NEW S, IsFiniteSet(S), \A x \in S : f[x] = 0
    PROVE  SumFunctionOnSet(f, S) = 0
<1> DEFINE P == {T \in SUBSET S : SumFunctionOnSet(f, T) = 0}
<1>1. ASSUME NEW T \in SUBSET S, \A x \in T : T \ {x} \in P
      PROVE  T \in P
  <2> DEFINE o == One(T)
  <2>1. SumFunctionOnSet(f, T) = IF T = {} THEN 0 ELSE f[o] + SumFunctionOnSet(f, T \ {o})
    BY FS_Subset, SumEquation
  <2>2. T # {} => o \in T
    BY OneIsIn
  <2> QED
    BY <1>1, <2>1, <2>2
<1> HIDE DEF P
<1>2. \A T \in SUBSET S : T \in P
  BY <1>1, SubsetInduction
<1> QED
  BY <1>2 DEF P

\* If one value changes, the sum changes by as much.
LEMMA SumChange ==
    ASSUME NEW f, NEW g, NEW S, IsFiniteSet(S), NEW x \in S,
           \A y \in S : f[y] \in Int /\ g[y] \in Int,
           \A y \in S \ {x} : f[y] = g[y]
    PROVE  SumFunctionOnSet(g, S) = SumFunctionOnSet(f, S) + (g[x] - f[x])
<1>1. /\ SumFunctionOnSet(f, S) = f[x] + SumFunctionOnSet(f, S \ {x})
      /\ SumFunctionOnSet(g, S) = g[x] + SumFunctionOnSet(g, S \ {x})
  BY SumTakeOut
<1>2. IsFiniteSet(S \ {x}) /\ SumFunctionOnSet(f, S \ {x}) = SumFunctionOnSet(g, S \ {x})
  BY FS_Subset, SumSame
<1>3. SumFunctionOnSet(f, S \ {x}) \in Int
  BY <1>2, SumType
<1> QED
  BY <1>1, <1>2, <1>3

\* The sum of sums.
LEMMA SumPlus ==
    ASSUME NEW f, NEW g, NEW h, NEW S, IsFiniteSet(S),
           \A x \in S : f[x] \in Int /\ g[x] \in Int /\ h[x] = f[x] + g[x]
    PROVE  SumFunctionOnSet(h, S) = SumFunctionOnSet(f, S) + SumFunctionOnSet(g, S)
<1> DEFINE Sum(k, T) == SumFunctionOnSet(k, T)
           P == {T \in SUBSET S : Sum(h, T) = Sum(f, T) + Sum(g, T)}
<1>1. ASSUME NEW T \in SUBSET S, \A x \in T : T \ {x} \in P
      PROVE  T \in P
  <2> DEFINE o == One(T)
  <2>1. IsFiniteSet(T) /\ IsFiniteSet(T \ {o})
    BY FS_Subset
  <2>2. CASE T = {}
    BY <2>2, SumOfNone
  <2>3. CASE T # {}
    <3>1. /\ Sum(f, T) = f[o] + Sum(f, T \ {o})
          /\ Sum(g, T) = g[o] + Sum(g, T \ {o})
          /\ Sum(h, T) = h[o] + Sum(h, T \ {o})
      BY <2>1, <2>3, SumEquation
    <3>2. o \in T
      BY <2>3, OneIsIn
    <3>3. Sum(f, T \ {o}) \in Int /\ Sum(g, T \ {o}) \in Int
      BY <2>1, SumType
    <3>4. f[o] \in Int /\ g[o] \in Int /\ h[o] = f[o] + g[o]
      BY <3>2
    <3>5. Sum(h, T \ {o}) = Sum(f, T \ {o}) + Sum(g, T \ {o})
      BY <1>1, <3>2
    <3>6. Sum(h, T) = Sum(f, T) + Sum(g, T)
      <4> HIDE DEF Sum, o
      <4> QED
        BY <3>1, <3>3, <3>4, <3>5
    <3> QED
      BY <3>6
  <2> QED
    BY <2>2, <2>3
<1> HIDE DEF P
<1>2. \A T \in SUBSET S : T \in P
  BY <1>1, SubsetInduction
<1> QED
  BY <1>2 DEF P

\* The elements counted by where `k` sends them are counted once each.
LEMMA SumFibers ==
    ASSUME NEW f, NEW k, NEW S, IsFiniteSet(S), NEW T, IsFiniteSet(T),
           \A x \in S : f[x] \in Int /\ k[x] \in T
    PROVE  SumFunctionOnSet([t \in T |-> SumFunctionOnSet(f, {x \in S : k[x] = t})], T)
             = SumFunctionOnSet(f, S)
<1> DEFINE Fiber(U, t) == {x \in U : k[x] = t}
           Counted(U) == [t \in T |-> SumFunctionOnSet(f, Fiber(U, t))]
           P == {U \in SUBSET S : SumFunctionOnSet(Counted(U), T) = SumFunctionOnSet(f, U)}
<1>1. ASSUME NEW U \in SUBSET S, \A x \in U : U \ {x} \in P
      PROVE  U \in P
  <2>1. IsFiniteSet(U) /\ \A t : IsFiniteSet(Fiber(U, t))
    BY FS_Subset
  <2>2. CASE U = {}
    <3>1. \A t \in T : Counted(U)[t] = 0
      BY <2>2, SumOfNone
    <3>2. SumFunctionOnSet(Counted(U), T) = 0
      <4> HIDE DEF Counted
      <4> QED
        BY <3>1, SumOfZero
    <3> QED
      BY <2>2, <3>2, SumOfNone
  <2>3. ASSUME NEW x \in U PROVE U \in P
    <3> DEFINE V == U \ {x}
    <3>1. SumFunctionOnSet(Counted(V), T) = SumFunctionOnSet(f, V)
      BY <1>1, <2>3
    <3>2. SumFunctionOnSet(f, U) = f[x] + SumFunctionOnSet(f, V)
      BY <2>1, <2>3, SumTakeOut
    <3>3. Fiber(U, k[x]) \ {x} = Fiber(V, k[x]) /\ x \in Fiber(U, k[x])
      BY <2>3
    <3>4. SumFunctionOnSet(f, Fiber(U, k[x])) = f[x] + SumFunctionOnSet(f, Fiber(V, k[x]))
      <4>1. \A y \in Fiber(U, k[x]) : f[y] \in Int
        OBVIOUS
      <4> HIDE DEF Fiber, V
      <4> QED
        BY <2>1, <3>3, <4>1, SumTakeOut
    <3>5. \A t \in T \ {k[x]} : Counted(U)[t] = Counted(V)[t]
      <4>1. \A t \in T \ {k[x]} : Fiber(U, t) = Fiber(V, t)
        OBVIOUS
      <4> HIDE DEF Fiber
      <4> QED
        BY <4>1
    <3>6. \A t \in T : Counted(U)[t] \in Int /\ Counted(V)[t] \in Int
      <4>1. ASSUME NEW t \in T
            PROVE  /\ IsFiniteSet(Fiber(U, t)) /\ \A y \in Fiber(U, t) : f[y] \in Int
                   /\ IsFiniteSet(Fiber(V, t)) /\ \A y \in Fiber(V, t) : f[y] \in Int
        <5>1. Fiber(V, t) \subseteq Fiber(U, t)
          OBVIOUS
        <5> QED
          BY <2>1, <5>1, FS_Subset
      <4> HIDE DEF Fiber, V
      <4> QED
        BY <4>1, SumType
    <3>7. k[x] \in T /\ Counted(U)[k[x]] - Counted(V)[k[x]] = f[x]
      <4>1. /\ k[x] \in T /\ f[x] \in Int
            /\ Counted(U)[k[x]] = SumFunctionOnSet(f, Fiber(U, k[x]))
            /\ Counted(V)[k[x]] = SumFunctionOnSet(f, Fiber(V, k[x]))
        BY <2>3
      <4> HIDE DEF Counted, Fiber, V
      <4> QED
        BY <3>4, <3>6, <4>1
    <3> HIDE DEF Counted, Fiber
    <3>8. SumFunctionOnSet(Counted(U), T) = SumFunctionOnSet(Counted(V), T) + (Counted(U)[k[x]] - Counted(V)[k[x]])
      <4> DEFINE before == Counted(V)
                 after == Counted(U)
                 here == k[x]
      <4>1. /\ \A t \in T : before[t] \in Int /\ after[t] \in Int
            /\ \A t \in T \ {here} : before[t] = after[t]
            /\ here \in T
        BY <3>5, <3>6, <3>7
      <4> HIDE DEF before, after, here
      <4>2. SumFunctionOnSet(after, T) = SumFunctionOnSet(before, T) + (after[here] - before[here])
        BY <4>1, SumChange
      <4> QED
        BY <4>2 DEF before, after, here
    <3>9. SumFunctionOnSet(f, V) \in Int /\ f[x] \in Int
      BY <2>1, <2>3, FS_Subset, SumType
    <3> QED
      BY <3>1, <3>2, <3>7, <3>8, <3>9
  <2> QED
    BY <2>2, <2>3
<1> HIDE DEF P
<1>2. \A U \in SUBSET S : U \in P
  BY <1>1, SubsetInduction
<1>3. S \in P
  BY <1>2
<1> QED
  BY <1>3 DEF P

\* What a row, and a column, of a table adds up to.
RowSum(f, x, T) == SumFunctionOnSet([y \in T |-> f[<<x, y>>]], T)
ColumnSum(f, y, S) == SumFunctionOnSet([x \in S |-> f[<<x, y>>]], S)

\* A table adds up to the same by rows and by columns.
LEMMA SumSwap ==
    ASSUME NEW f, NEW S, IsFiniteSet(S), NEW T, IsFiniteSet(T),
           \A x \in S, y \in T : f[<<x, y>>] \in Int
    PROVE  /\ \A x \in S : RowSum(f, x, T) \in Int
           /\ SumFunctionOnSet([x \in S |-> RowSum(f, x, T)], S)
                = SumFunctionOnSet([y \in T |-> ColumnSum(f, y, S)], T)
<1> DEFINE Row(x) == [y \in T |-> f[<<x, y>>]]
           Column(y) == [x \in S |-> f[<<x, y>>]]
           Rows(U) == [x \in S |-> SumFunctionOnSet(Row(x), U)]
           columns == [y \in T |-> SumFunctionOnSet(Column(y), S)]
           P == {U \in SUBSET T : SumFunctionOnSet(Rows(U), S) = SumFunctionOnSet(columns, U)}
<1>0. /\ \A x \in S, y \in T : Row(x)[y] \in Int
      /\ \A y \in T : columns[y] \in Int
  <2>1. \A x \in S, y \in T : Row(x)[y] \in Int /\ Column(y)[x] \in Int
    OBVIOUS
  <2> HIDE DEF Row, Column
  <2> QED
    BY <2>1, SumType
<1>1. ASSUME NEW U \in SUBSET T, \A y \in U : U \ {y} \in P
      PROVE  U \in P
  <2>1. IsFiniteSet(U)
    BY FS_Subset
  <2>2. CASE U = {}
    <3>1. \A x \in S : Rows(U)[x] = 0
      BY <2>2, SumOfNone
    <3>2. SumFunctionOnSet(Rows(U), S) = 0
      <4> HIDE DEF Rows
      <4> QED
        BY <3>1, SumOfZero
    <3> QED
      BY <2>2, <3>2, SumOfNone
  <2>3. ASSUME NEW y \in U PROVE U \in P
    <3> DEFINE V == U \ {y}
    <3>1. SumFunctionOnSet(Rows(V), S) = SumFunctionOnSet(columns, V)
      BY <1>1, <2>3
    <3>2. SumFunctionOnSet(columns, U) = columns[y] + SumFunctionOnSet(columns, V)
      <4>1. \A z \in U : columns[z] \in Int
        BY <1>0
      <4> HIDE DEF columns
      <4> QED
        BY <2>1, <2>3, <4>1, SumTakeOut
    <3>3. ASSUME NEW x \in S
          PROVE  /\ Rows(V)[x] \in Int /\ Column(y)[x] \in Int
                 /\ Rows(U)[x] = Rows(V)[x] + Column(y)[x]
      <4>1. Rows(U)[x] = SumFunctionOnSet(Row(x), U) /\ Rows(V)[x] = SumFunctionOnSet(Row(x), V)
        OBVIOUS
      <4>2. Column(y)[x] = Row(x)[y] /\ Row(x)[y] \in Int /\ \A z \in U : Row(x)[z] \in Int
        BY <1>0, <2>3
      <4>3. IsFiniteSet(V) /\ V \subseteq U
        BY <2>1, FS_Subset
      <4> HIDE DEF Row, Column, Rows
      <4>4. SumFunctionOnSet(Row(x), U) = Row(x)[y] + SumFunctionOnSet(Row(x), V)
        BY <2>1, <2>3, <4>2, SumTakeOut
      <4>5. SumFunctionOnSet(Row(x), V) \in Int
        BY <4>2, <4>3, SumType
      <4> QED
        BY <4>1, <4>2, <4>4, <4>5
    <3>4. SumFunctionOnSet(Rows(U), S) = SumFunctionOnSet(Rows(V), S) + SumFunctionOnSet(Column(y), S)
      <4> DEFINE all == Rows(U)
                 most == Rows(V)
                 column == Column(y)
      <4>1. \A x \in S : most[x] \in Int /\ column[x] \in Int /\ all[x] = most[x] + column[x]
        BY <3>3
      <4> HIDE DEF all, most, column
      <4>2. SumFunctionOnSet(all, S) = SumFunctionOnSet(most, S) + SumFunctionOnSet(column, S)
        BY <4>1, SumPlus
      <4> QED
        BY <4>2 DEF all, most, column
    <3>5. columns[y] = SumFunctionOnSet(Column(y), S)
      OBVIOUS
    <3>6. SumFunctionOnSet(columns, V) \in Int /\ columns[y] \in Int
      <4>1. columns[y] \in Int /\ IsFiniteSet(V) /\ \A z \in V : columns[z] \in Int
        BY <1>0, <2>1, FS_Subset
      <4> HIDE DEF columns
      <4> QED
        BY <4>1, SumType
    <3> HIDE DEF Rows, columns, Column
    <3> QED
      BY <3>1, <3>2, <3>4, <3>5, <3>6
  <2> QED
    BY <2>2, <2>3
<1> HIDE DEF P
<1>2. \A U \in SUBSET T : U \in P
  BY <1>1, SubsetInduction
<1>3. T \in P
  BY <1>2
<1>4. \A x \in S : RowSum(f, x, T) \in Int
  <2>1. \A x \in S : RowSum(f, x, T) = SumFunctionOnSet(Row(x), T)
    BY DEF RowSum
  <2>2. \A x \in S : \A y \in T : Row(x)[y] \in Int
    BY <1>0
  <2> HIDE DEF Row
  <2> QED
    BY <2>1, <2>2, SumType
<1> QED
  BY <1>3, <1>4 DEF P, RowSum, ColumnSum

\* A sum whose values differ from zero on `R` only, and by `bound` at most, differs from
\* zero by that much for each element of `R` at most.
LEMMA SumBound ==
    ASSUME NEW f, NEW S, IsFiniteSet(S), NEW R, NEW bound \in Nat,
           \A x \in S : f[x] \in Int /\ (IF x \in R THEN f[x] \in -bound .. bound ELSE f[x] = 0)
    PROVE  SumFunctionOnSet(f, S) \in (-(bound * Cardinality(S \intersect R))) .. (bound * Cardinality(S \intersect R))
<1> DEFINE Sum(U) == SumFunctionOnSet(f, U)
           n(U) == Cardinality(U \intersect R)
           P == {U \in SUBSET S : Sum(U) \in (-(bound * n(U))) .. (bound * n(U))}
<1>1. ASSUME NEW U \in SUBSET S, \A x \in U : U \ {x} \in P
      PROVE  U \in P
  <2>1. IsFiniteSet(U) /\ IsFiniteSet(U \intersect R)
    BY FS_Subset
  <2>2. CASE U = {}
    <3>1. n(U) = 0 /\ Sum(U) = 0
      BY <2>2, SumOfNone, FS_EmptySet
    <3>2. bound * 0 = 0 /\ 0 \in (-(bound * 0)) .. (bound * 0)
      OBVIOUS
    <3> QED
      BY <3>1, <3>2
  <2>3. ASSUME NEW x \in U PROVE U \in P
    <3> DEFINE V == U \ {x}
    <3>1. Sum(U) = f[x] + Sum(V)
      BY <2>1, SumTakeOut
    <3>2. Sum(V) \in (-(bound * n(V))) .. (bound * n(V))
      BY <1>1
    <3>3. IsFiniteSet(V \intersect R) /\ n(V) \in Nat /\ n(U) \in Nat
      BY <2>1, FS_Subset, FS_CardinalityType
    <3>4. f[x] \in Int
      OBVIOUS
    <3>5. CASE x \in R
      <4>1. (V \intersect R) \union {x} = U \intersect R /\ x \notin V \intersect R
        BY <3>5
      <4>2. n(U) = n(V) + 1
        BY <3>3, <4>1, FS_AddElement
      <4>3. f[x] \in -bound .. bound
        BY <3>5
      <4>4. bound * n(U) = bound * n(V) + bound
        <5> HIDE DEF n
        <5> QED
          BY <3>3, <4>2
      <4>5. bound * n(V) \in Int
        BY <3>3
      <4> HIDE DEF Sum, n, V
      <4>6. Sum(U) \in (-(bound * n(U))) .. (bound * n(U))
        BY <3>1, <3>2, <3>4, <4>3, <4>4, <4>5
      <4> QED
        BY <4>6
    <3>6. CASE x \notin R
      <4>1. V \intersect R = U \intersect R /\ f[x] = 0
        BY <3>6
      <4>2. n(U) = n(V)
        BY <4>1
      <4> HIDE DEF Sum, n, V
      <4>3. Sum(U) = Sum(V)
        BY <3>1, <3>2, <4>1
      <4> QED
        BY <3>2, <4>2, <4>3
    <3> QED
      BY <3>5, <3>6
  <2> QED
    BY <2>2, <2>3
<1> HIDE DEF P
<1>2. \A U \in SUBSET S : U \in P
  BY <1>1, SubsetInduction
<1>3. S \in P
  BY <1>2
<1> QED
  BY <1>3 DEF P

\* What is 0 outside a set adds up to what the set does.
LEMMA SumSubset ==
    ASSUME NEW g, NEW S, IsFiniteSet(S), NEW T \in SUBSET S, \A x \in S : g[x] \in Int,
           \A x \in S \ T : g[x] = 0
    PROVE  SumFunctionOnSet(g, S) = SumFunctionOnSet(g, T)
<1> DEFINE Sum(U) == SumFunctionOnSet(g, U)
           P == {U \in SUBSET S : Sum(U) = Sum(U \intersect T)}
<1>0. \A U \in SUBSET S : IsFiniteSet(U)
  BY FS_Subset
<1>1. ASSUME NEW U \in SUBSET S, \A x \in U : U \ {x} \in P
      PROVE  U \in P
  <2>1. CASE U = {}
    BY <2>1
  <2>2. ASSUME NEW x \in U PROVE U \in P
    <3>1. Sum(U) = g[x] + Sum(U \ {x})
      BY <1>0, SumTakeOut
    <3>2. Sum(U \ {x}) = Sum((U \ {x}) \intersect T)
      BY <1>1
    <3>3. CASE x \in T
      <4>1. Sum(U \intersect T) = g[x] + Sum((U \intersect T) \ {x})
        <5>1. U \intersect T \in SUBSET S /\ x \in U \intersect T
          BY <3>3
        <5> PICK V : V = U \intersect T
          OBVIOUS
        <5>2. Sum(V) = g[x] + Sum(V \ {x})
          BY <1>0, <5>1, SumTakeOut
        <5> QED
          BY <5>2
      <4>2. (U \intersect T) \ {x} = (U \ {x}) \intersect T
        OBVIOUS
      <4> QED
        BY <3>1, <3>2, <4>1, <4>2
    <3>4. CASE x \notin T
      <4>1. g[x] = 0 /\ (U \ {x}) \intersect T = U \intersect T
        BY <3>4
      <4>2. Sum(U \ {x}) \in Int
        <5>1. IsFiniteSet(U \ {x}) /\ \A y \in U \ {x} : g[y] \in Int
          BY <1>0
        <5> QED
          BY <5>1, SumType
      <4>3. Sum(U) = Sum(U \ {x})
        <5> HIDE DEF Sum
        <5> QED
          BY <3>1, <4>1, <4>2
      <4> QED
        BY <3>2, <4>1, <4>3
    <3> QED
      BY <3>3, <3>4
  <2> QED
    BY <2>1, <2>2
<1>2. \A U \in SUBSET S : U \in P
  <2> HIDE DEF P
  <2> QED
    BY <1>1, SubsetInduction
<1>3. S \intersect T = T
  OBVIOUS
<1> QED
  BY <1>2, <1>3

\* So does the sum of what is that of another function in the set.
LEMMA SumExtends ==
    ASSUME NEW f, NEW g, NEW S, IsFiniteSet(S), NEW T \in SUBSET S,
           \A x \in T : g[x] = f[x] /\ f[x] \in Int, \A x \in S \ T : g[x] = 0
    PROVE  SumFunctionOnSet(g, S) = SumFunctionOnSet(f, T)
<1>1. \A x \in S : g[x] \in Int
  OBVIOUS
<1>2. SumFunctionOnSet(g, S) = SumFunctionOnSet(g, T)
  BY <1>1, SumSubset
<1>3. SumFunctionOnSet(g, T) = SumFunctionOnSet(f, T)
  BY FS_Subset, SumSame
<1> QED
  BY <1>2, <1>3

\* What a finite set is mapped to is finite.
LEMMA ImageIsFinite ==
    ASSUME NEW f, NEW S, IsFiniteSet(S)
    PROVE  IsFiniteSet({f[x] : x \in S})
<1> DEFINE Image(T) == {f[x] : x \in T}
           P == {T \in SUBSET S : IsFiniteSet(Image(T))}
<1>1. ASSUME NEW T \in SUBSET S, \A x \in T : T \ {x} \in P
      PROVE  T \in P
  <2>1. CASE T = {}
    BY <2>1, FS_EmptySet
  <2>2. CASE T # {}
    <3>1. PICK x \in T : TRUE
      BY <2>2
    <3>2. IsFiniteSet(Image(T \ {x}))
      BY <1>1, <3>1
    <3>3. Image(T) = Image(T \ {x}) \union {f[x]}
      BY <3>1
    <3>4. IsFiniteSet(Image(T \ {x}) \union {f[x]})
      <4> HIDE DEF Image
      <4> QED
        BY <3>2, FS_AddElement
    <3> QED
      BY <3>3, <3>4
  <2> QED
    BY <2>1, <2>2
<1> HIDE DEF P
<1>2. \A T \in SUBSET S : T \in P
  BY <1>1, SubsetInduction
<1> QED
  BY <1>2 DEF P

\* Disjoint sets add up.
LEMMA SumUnion ==
    ASSUME NEW f, NEW S, IsFiniteSet(S), NEW T, IsFiniteSet(T), S \intersect T = {},
           \A x \in S \union T : f[x] \in Int
    PROVE  SumFunctionOnSet(f, S \union T) = SumFunctionOnSet(f, S) + SumFunctionOnSet(f, T)
<1> DEFINE U == S \union T
           g == [x \in U |-> IF x \in S THEN f[x] ELSE 0]
           h == [x \in U |-> IF x \in T THEN f[x] ELSE 0]
<1>1. IsFiniteSet(U) /\ S \in SUBSET U /\ T \in SUBSET U
  BY FS_Union
<1>2. /\ \A x \in U : g[x] \in Int /\ h[x] \in Int /\ f[x] = g[x] + h[x]
      /\ \A x \in S : g[x] = f[x] /\ f[x] \in Int
      /\ \A x \in T : h[x] = f[x] /\ f[x] \in Int
      /\ \A x \in U \ S : g[x] = 0
      /\ \A x \in U \ T : h[x] = 0
  OBVIOUS
<1> HIDE DEF U, g, h
<1>3. SumFunctionOnSet(f, U) = SumFunctionOnSet(g, U) + SumFunctionOnSet(h, U)
  BY <1>1, <1>2, SumPlus
<1>4. SumFunctionOnSet(g, U) = SumFunctionOnSet(f, S)
  BY <1>1, <1>2, SumExtends
<1>5. SumFunctionOnSet(h, U) = SumFunctionOnSet(f, T)
  BY <1>1, <1>2, SumExtends
<1> QED
  BY <1>3, <1>4, <1>5 DEF U

\* A sum of natural numbers is one.
LEMMA SumNat ==
    ASSUME NEW f, NEW S, IsFiniteSet(S), \A x \in S : f[x] \in Nat
    PROVE  SumFunctionOnSet(f, S) \in Nat
<1> DEFINE P == {T \in SUBSET S : SumFunctionOnSet(f, T) \in Nat}
<1>1. ASSUME NEW T \in SUBSET S, \A x \in T : T \ {x} \in P
      PROVE  T \in P
  <2>1. SumFunctionOnSet(f, T) = IF T = {} THEN 0 ELSE f[One(T)] + SumFunctionOnSet(f, T \ {One(T)})
    BY FS_Subset, SumEquation
  <2>2. T # {} => One(T) \in T
    BY OneIsIn
  <2> QED
    BY <1>1, <2>1, <2>2
<1> HIDE DEF P
<1>2. \A T \in SUBSET S : T \in P
  BY <1>1, SubsetInduction
<1> QED
  BY <1>2 DEF P

\* Smaller values add up to less.
LEMMA SumMonotone ==
    ASSUME NEW f, NEW g, NEW S, IsFiniteSet(S),
           \A x \in S : f[x] \in Int /\ g[x] \in Int /\ f[x] <= g[x]
    PROVE  SumFunctionOnSet(f, S) <= SumFunctionOnSet(g, S)
<1> DEFINE d == [x \in S |-> g[x] - f[x]]
<1>1. \A x \in S : f[x] \in Int /\ d[x] \in Int /\ d[x] \in Nat /\ g[x] = f[x] + d[x]
  OBVIOUS
<1> HIDE DEF d
<1>2. SumFunctionOnSet(g, S) = SumFunctionOnSet(f, S) + SumFunctionOnSet(d, S)
  BY <1>1, SumPlus
<1>3. SumFunctionOnSet(d, S) \in Nat /\ SumFunctionOnSet(f, S) \in Int
  BY <1>1, SumNat, SumType
<1> QED
  BY <1>2, <1>3

-----------------------------------------------------------------------------
(* Functions on numbers that are given by their first value and a step.    *)

\* A function on 0 .. n that starts at `init` and takes the step `step` from each number to
\* the next.
Iterates(f, n, init, step) ==
    /\ f \in [0 .. n -> Int]
    /\ f[0] = init
    /\ \A k \in 1 .. n : f[k] = step[<<k, f[k - 1]>>]

\* There is one.
LEMMA IterationExists ==
    ASSUME NEW n \in Nat, NEW init \in Int, NEW step \in [Nat \X Int -> Int]
    PROVE  \E f : Iterates(f, n, init, step)
<1> DEFINE P == {m \in Nat : \E f : Iterates(f, m, init, step)}
<1>1. 0 \in P
  <2> DEFINE f == [k \in 0 .. 0 |-> init]
  <2>1. Iterates(f, 0, init, step)
    BY DEF Iterates
  <2> QED
    BY <2>1
<1>2. ASSUME NEW m \in Nat, m \in P PROVE m + 1 \in P
  <2>1. PICK f : Iterates(f, m, init, step)
    BY <1>2
  <2> DEFINE g == [k \in 0 .. m + 1 |-> IF k = m + 1 THEN step[<<m + 1, f[m]>>] ELSE f[k]]
  <2>2. \A k \in 0 .. m : g[k] = f[k] /\ f[k] \in Int
    BY <2>1 DEF Iterates
  <2>3. g[m + 1] = step[<<m + 1, f[m]>>] /\ g[m + 1] \in Int
    <3>0. m + 1 \in 0 .. m + 1 /\ m \in 0 .. m
      OBVIOUS
    <3>1. f[m] \in Int /\ g[m + 1] = step[<<m + 1, f[m]>>]
      <4>1. f[m] \in Int
        BY <2>2, <3>0
      <4>2. g[m + 1] = step[<<m + 1, f[m]>>]
        BY <3>0
      <4> QED
        BY <4>1, <4>2
    <3>2. <<m + 1, f[m]>> \in Nat \X Int
      BY <3>1
    <3> HIDE DEF g
    <3> QED
      BY <3>1, <3>2
  <2>4. g \in [0 .. m + 1 -> Int]
    <3>1. \A k \in 0 .. m + 1 : g[k] \in Int
      <4> HIDE DEF g
      <4>1. \A k \in 0 .. m + 1 : k \in 0 .. m \/ k = m + 1
        OBVIOUS
      <4> QED
        BY <2>2, <2>3, <4>1
    <3> QED
      BY <3>1
  <2>5. ASSUME NEW k \in 1 .. m + 1 PROVE g[k] = step[<<k, g[k - 1]>>]
    <3> HIDE DEF g
    <3>1. CASE k = m + 1
      BY <2>2, <2>3, <3>1
    <3>2. CASE k \in 1 .. m
      <4>1. k \in 0 .. m /\ k - 1 \in 0 .. m
        BY <3>2
      <4> QED
        BY <2>1, <2>2, <3>2, <4>1 DEF Iterates
    <3> QED
      BY <3>1, <3>2
  <2>6. Iterates(g, m + 1, init, step)
    <3>1. g[0] = init
      BY <2>1, <2>2 DEF Iterates
    <3> HIDE DEF g
    <3> QED
      BY <2>4, <2>5, <3>1 DEF Iterates
  <2> QED
    BY <2>6
<1> HIDE DEF P
<1>3. n \in P
  BY <1>1, <1>2, NumberInduction
<1> QED
  BY <1>3 DEF P

-----------------------------------------------------------------------------
(* Division.                                                               *)

\* Quotient and remainder.
LEMMA DivMod ==
    ASSUME NEW n \in Int, NEW d \in Nat \ {0}
    PROVE  /\ n \div d \in Int /\ n % d \in Int
           /\ n = d * (n \div d) + (n % d) /\ 0 <= n % d /\ n % d < d
OBVIOUS
-----------------------------------------------------------------------------
(* Amounts as Numeric(14, 2) columns keep them.                             *)

\* What a column keeps of an amount is whole paise, half a paisa away at most, and not
\* negative if the amount is not.
LEMMA StoredAmount ==
    ASSUME NEW a \in Int
    PROVE  /\ Stored(a) \in Int
           /\ Stored(a) % 10 = 0
           /\ Stored(a) - a \in -5 .. 5
           /\ a >= 0 => Stored(a) >= 0
<1>1. CASE a < 0
  <2>1. PICK q \in Int : q = (5 - a) \div 10
    OBVIOUS
  <2>2. 10 * q <= 5 - a /\ 5 - a < 10 * q + 10
    BY <2>1
  <2>3. Stored(a) = 0 - 10 * q
    BY <1>1, <2>1 DEF Stored
  <2>4. (0 - 10 * q) % 10 = 0
    OBVIOUS
  <2> QED
    BY <1>1, <2>2, <2>3, <2>4
<1>2. CASE a >= 0
  <2>1. PICK q \in Int : q = (a + 5) \div 10
    OBVIOUS
  <2>2. 10 * q <= a + 5 /\ a + 5 < 10 * q + 10
    BY <2>1
  <2>3. Stored(a) = 10 * q
    BY <1>2, <2>1 DEF Stored
  <2>4. (10 * q) % 10 = 0
    OBVIOUS
  <2> QED
    BY <1>2, <2>2, <2>3, <2>4
<1> QED
  BY <1>1, <1>2

\* A column keeps the order of amounts.
LEMMA StoredMonotone ==
    ASSUME NEW a \in Int, NEW b \in Int, a <= b
    PROVE  Stored(a) <= Stored(b)
<1>1. CASE a < 0 /\ b < 0
  BY <1>1 DEF Stored
<1>2. CASE a < 0 /\ b >= 0
  BY <1>2 DEF Stored
<1>3. CASE a >= 0
  BY <1>3 DEF Stored
<1> QED
  BY <1>1, <1>2, <1>3

\* A column keeps whole paise as they are.
LEMMA StoredWhole ==
    ASSUME NEW a \in Int, a % 10 = 0
    PROVE  Stored(a) = a
BY DEF Stored

\* To add to whole paise and store is to store and add.
LEMMA StoredAdd ==
    ASSUME NEW whole \in Nat, whole % 10 = 0, NEW a \in Nat
    PROVE  Stored(whole + a) = whole + Stored(a)
BY DEF Stored

\* To take off whole paise and store is to store and take off, but for one paisa where
\* the amount names half of one.
LEMMA StoredSub ==
    ASSUME NEW whole \in Nat, whole % 10 = 0, NEW a \in Nat, a <= whole
    PROVE  Stored(whole - a) = whole - Stored(a) + (IF a % 10 = 5 THEN 10 ELSE 0)
<1>1. PICK n \in Nat : whole = 10 * n
  <2>1. whole = 10 * (whole \div 10)
    OBVIOUS
  <2>2. whole \div 10 \in Nat
    OBVIOUS
  <2> QED
    BY <2>1, <2>2
<1>2. PICK q \in Nat, r \in 0 .. 9 : a = 10 * q + r /\ q = a \div 10 /\ r = a % 10
  OBVIOUS
<1>3. Stored(whole - a) = 10 * ((10 * n - 10 * q - r + 5) \div 10)
  BY <1>1, <1>2 DEF Stored
<1>4. Stored(a) = 10 * ((10 * q + r + 5) \div 10)
  BY <1>2 DEF Stored
<1> QED
  BY <1>1, <1>2, <1>3, <1>4
=============================================================================
