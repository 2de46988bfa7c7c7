----------------------------- MODULE Induction -----------------------------
(***************************************************************************)
(* Induction on natural numbers as a fact about sets, with no predicate as *)
(* a parameter: what holds of 0 and of every successor is the set of those *)
(* numbers it holds of.  It follows from the library's theorem that finite *)
(* sets are well-founded under strict inclusion.  The folds of the         *)
(* community modules are shown to exist from it.                           *)
(***************************************************************************)
EXTENDS FiniteSetTheorems, FiniteSetsExt, TLAPS

(* A set of natural numbers that is not empty has a least element: the     *)
(* sets 0..n, for n in it, have a minimal one.                             *)
LEMMA LeastElement ==
    ASSUME NEW S \in SUBSET Nat, S # {}
    PROVE  \E m \in S : \A k \in S : m <= k
<1> DEFINE intervals == {0..n : n \in S}
<1>1. intervals \subseteq FiniteSubsetsOf(Nat) /\ intervals # {}
  <2>1. ASSUME NEW n \in S
        PROVE  (0..n) \in FiniteSubsetsOf(Nat)
    <3>1. IsFiniteSet(0..n) /\ (0..n) \in SUBSET Nat
      BY FS_Interval
    <3> QED
      BY <3>1 DEF FiniteSubsetsOf
  <2> QED
    BY <2>1
<1>2. PICK x \in intervals : \A y \in intervals : <<y, x>> \notin StrictSubsetOrdering(Nat)
  <2> HIDE DEF intervals
  <2> QED
    BY <1>1, FS_StrictSubsetOrderingWellFounded, WFMin
<1>3. PICK m \in S : x = 0..m
  OBVIOUS
<1>4. ASSUME NEW k \in S, k < m
      PROVE  FALSE
  <2>1. /\ (0..k) \in SUBSET Nat /\ (0..m) \in SUBSET Nat
        /\ 0..k \subseteq 0..m
        /\ m \in 0..m /\ m \notin 0..k
    BY <1>4
  <2>2. <<0..k, 0..m>> \in StrictSubsetOrdering(Nat)
    BY <2>1 DEF StrictSubsetOrdering
  <2> QED
    BY <1>2, <1>3, <2>2
<1> QED
  BY <1>4

(* Induction: a set of natural numbers that has 0 and with each number its *)
(* successor has them all.                                                 *)
LEMMA InductiveSet ==
    ASSUME NEW S \in SUBSET Nat, 0 \in S, \A n \in S : n + 1 \in S
    PROVE  S = Nat
<1> SUFFICES ASSUME Nat \ S # {}
             PROVE  FALSE
  OBVIOUS
<1> DEFINE rest == Nat \ S
<1>1. PICK m \in rest : \A k \in rest : m <= k
  <2>1. rest \in SUBSET Nat /\ rest # {}
    OBVIOUS
  <2> HIDE DEF rest
  <2> QED
    BY <2>1, LeastElement
<1>2. m \in Nat /\ m # 0 /\ m - 1 \in Nat /\ m - 1 \in S
  BY <1>1
<1> QED
  BY <1>1, <1>2

(* The greatest element of an interval, or of a set with its upper end.    *)
LEMMA MaxOfInterval ==
    ASSUME NEW n \in Nat, NEW s \in SUBSET (1..n), n \in s
    PROVE  Max(s) = n
<1>1. n \in s /\ \A y \in s : n >= y
  OBVIOUS
<1>2. \A x \in s : (\A y \in s : x >= y) => x = n
  OBVIOUS
<1> QED
  BY <1>1, <1>2 DEF Max

(* The greatest element of a set of positions is one of them.              *)
LEMMA MaxIsIn ==
    ASSUME NEW n \in Nat, NEW s \in SUBSET (1..n), s # {}
    PROVE  Max(s) \in s
<1> DEFINE below == {n - x : x \in s}
<1>1. PICK m \in below : \A k \in below : m <= k
  <2>1. \A x \in s : n - x \in Nat
    OBVIOUS
  <2>2. below \in SUBSET Nat
    BY <2>1
  <2>3. below # {}
    OBVIOUS
  <2> HIDE DEF below
  <2> QED
    BY <2>2, <2>3, LeastElement
<1>2. PICK x \in s : m = n - x
  OBVIOUS
<1>3. ASSUME NEW y \in s
      PROVE  x >= y
  <2>1. m <= n - y
    BY <1>1
  <2> QED
    BY <1>2, <2>1
<1> QED
  BY <1>3 DEF Max

\* The recursive function by which MapThenFoldSet goes through the positions
\* 1..n of a list
IsFold(n, base, step, iter) ==
    \A s \in SUBSET (1..n) :
       iter[s] = IF s = {} THEN base ELSE step[<<Max(s), iter[s \ {Max(s)}]>>]

(* It exists, for any step function.                                       *)
LEMMA FoldExists ==
    ASSUME NEW n \in Nat, NEW B, NEW base \in B, NEW step \in [(1..n) \X B -> B]
    PROVE  \E iter \in [SUBSET (1..n) -> B] : IsFold(n, base, step, iter)
<1> DEFINE Folds(m, iter) ==
              \A s \in SUBSET (1..m) :
                 iter[s] = IF s = {} THEN base ELSE step[<<Max(s), iter[s \ {Max(s)}]>>]
           P(m) == m <= n => \E iter \in [SUBSET (1..m) -> B] : Folds(m, iter)
<1>1. P(0)
  <2> DEFINE iter == [s \in SUBSET (1..0) |-> base]
  <2>1. iter \in [SUBSET (1..0) -> B] /\ \A s \in SUBSET (1..0) : s = {} /\ iter[s] = base
    OBVIOUS
  <2>2. Folds(0, iter)
    BY <2>1
  <2> QED
    BY <2>1, <2>2
<1>2. ASSUME NEW m \in Nat, P(m)
      PROVE  P(m + 1)
  <2> SUFFICES ASSUME m + 1 <= n
               PROVE  \E iter \in [SUBSET (1..m+1) -> B] : Folds(m + 1, iter)
    OBVIOUS
  <2>1. PICK old \in [SUBSET (1..m) -> B] : Folds(m, old)
    <3> HIDE DEF Folds
    <3>1. m <= n
      OBVIOUS
    <3> QED
      BY <1>2, <3>1
  <2> DEFINE iter == [s \in SUBSET (1..m+1) |->
                         IF m + 1 \in s THEN step[<<m + 1, old[s \ {m + 1}]>>] ELSE old[s]]
  <2>2. ASSUME NEW s \in SUBSET (1..m+1)
        PROVE  /\ iter[s] \in B
               /\ iter[s] = IF s = {} THEN base ELSE step[<<Max(s), iter[s \ {Max(s)}]>>]
    <3>1. CASE m + 1 \in s
      <4>1. Max(s) = m + 1
        BY <3>1, MaxOfInterval
      <4> DEFINE r == s \ {m + 1}
      <4>2. r \in SUBSET (1..m) /\ r \in SUBSET (1..m+1) /\ m + 1 \notin r /\ old[r] \in B
        <5>1. r \in SUBSET (1..m)
          OBVIOUS
        <5> QED
          BY <5>1
      <4>3. iter[s] = step[<<m + 1, old[r]>>] /\ iter[r] = old[r]
        BY <3>1, <4>2
      <4>4. <<m + 1, old[r]>> \in (1..n) \X B
        BY <4>2
      <4> HIDE DEF r
      <4>5. step[<<m + 1, old[r]>>] \in B
        BY <4>4
      <4> QED
        BY <3>1, <4>1, <4>3, <4>5 DEF r
    <3>2. CASE m + 1 \notin s
      <4>1. s \in SUBSET (1..m) /\ iter[s] = old[s]
        BY <3>2
      <4>2. CASE s = {}
        BY <2>1, <4>1, <4>2
      <4>3. CASE s # {}
        <5> DEFINE r == s \ {Max(s)}
        <5>1. r \subseteq s /\ m + 1 \notin r
          BY <3>2
        <5>2. r \in SUBSET (1..m) /\ r \in SUBSET (1..m+1)
          BY <4>1, <5>1
        <5>3. iter[r] = old[r]
          BY <5>1, <5>2
        <5> QED
          BY <2>1, <4>1, <4>3, <5>3
      <4> QED
        BY <4>2, <4>3
    <3> QED
      BY <3>1, <3>2
  <2>3. iter \in [SUBSET (1..m+1) -> B]
    BY <2>2
  <2>4. Folds(m + 1, iter)
    BY <2>2
  <2> QED
    BY <2>3, <2>4
<1> DEFINE S == {m \in Nat : P(m)}
<1> HIDE DEF P
<1>3. S = Nat
  <2>1. S \in SUBSET Nat /\ 0 \in S /\ \A m \in S : m + 1 \in S
    BY <1>1, <1>2
  <2> HIDE DEF S
  <2> QED
    BY <2>1, InductiveSet
<1>4. P(n)
  BY <1>3
<1>5. \E iter \in [SUBSET (1..n) -> B] : Folds(n, iter)
  <2> HIDE DEF Folds, S
  <2>1. n <= n
    OBVIOUS
  <2> QED
    BY <1>4, <2>1 DEF P
<1> QED
  BY <1>5 DEF IsFold

(* Induction up to a bound.                                                *)
LEMMA InductionUpTo ==
    ASSUME NEW n \in Nat, NEW S \in SUBSET Nat,
           0 \in S, \A k \in S : k < n => k + 1 \in S
    PROVE  n \in S
<1> DEFINE T == {k \in Nat : k <= n => k \in S}
<1>1. T \in SUBSET Nat /\ 0 \in T
  OBVIOUS
<1>2. ASSUME NEW k \in T
      PROVE  k + 1 \in T
  OBVIOUS
<1>3. T = Nat
  <2> HIDE DEF T
  <2> QED
    BY <1>1, <1>2, InductiveSet
<1>4. n \in T
  <2> HIDE DEF T
  <2> QED
    BY <1>3
<1> QED
  BY <1>4

(* The first positions of a list, and the last of them.                    *)
LEMMA FirstPositions ==
    ASSUME NEW n \in Nat
    PROVE  /\ 1..0 = {} /\ 1..0 \in SUBSET (1..n)
           /\ \A k \in 1..n : /\ 1..k \in SUBSET (1..n) /\ 1..k # {} /\ k \in 1..k
                             /\ Max(1..k) = k /\ (1..k) \ {k} = 1..(k-1)
<1>1. 1..0 = {} /\ 1..0 \in SUBSET (1..n)
  OBVIOUS
<1>2. ASSUME NEW k \in 1..n
      PROVE  /\ 1..k \in SUBSET (1..n) /\ 1..k # {} /\ k \in 1..k
             /\ Max(1..k) = k /\ (1..k) \ {k} = 1..(k-1)
  <2>1. k \in Nat /\ k \in 1..k /\ 1..k \in SUBSET (1..k)
    OBVIOUS
  <2>2. Max(1..k) = k
    BY <2>1, MaxOfInterval
  <2>3. 1..k \in SUBSET (1..n)
    OBVIOUS
  <2>4. (1..k) \ {k} = 1..(k-1)
    OBVIOUS
  <2> QED
    BY <2>1, <2>2, <2>3, <2>4
<1> QED
  BY <1>1, <1>2

(* The same for the positions of a list.                                   *)
LEMMA InductiveInterval ==
    ASSUME NEW k \in Nat, NEW S \in SUBSET (1..k),
           k > 0 => 1 \in S,
           \A i \in S : i < k => i + 1 \in S
    PROVE  S = 1..k
<1> DEFINE T == {n \in Nat : n \in 1..k => n \in S}
<1>1. T \in SUBSET Nat /\ 0 \in T
  OBVIOUS
<1>2. ASSUME NEW n \in T
      PROVE  n + 1 \in T
  <2> SUFFICES ASSUME n + 1 \in 1..k
               PROVE  n + 1 \in S
    OBVIOUS
  <2>1. CASE n = 0
    BY <2>1
  <2>2. CASE n # 0
    BY <2>2
  <2> QED
    BY <2>1, <2>2
<1>3. T = Nat
  <2> HIDE DEF T
  <2> QED
    BY <1>1, <1>2, InductiveSet
<1>4. \A i \in 1..k : i \in T
  <2> HIDE DEF T
  <2> QED
    BY <1>3
<1> QED
  BY <1>4

-----------------------------------------------------------------------------
(* Adding up the legs of a route.                                          *)

\* along[i] is the length of the first i - 1 legs
Sums(k, leg, along) == along = [i \in 1..k |-> IF i = 1 THEN 0 ELSE along[i - 1] + leg[i]]

(* The recursive function that adds up the legs exists.                    *)
LEMMA SumsExist ==
    ASSUME NEW k \in Nat \ {0}, NEW leg \in [2..k -> Nat]
    PROVE  \E along \in [1..k -> Nat] : Sums(k, leg, along)
<1> DEFINE S == {m \in 1..k : \E along \in [1..m -> Nat] : Sums(m, leg, along)}
<1>1. 1 \in S
  <2> DEFINE along == [i \in 1..1 |-> 0]
  <2>1. along \in [1..1 -> Nat] /\ Sums(1, leg, along)
    BY DEF Sums
  <2> QED
    BY <2>1
<1>2. ASSUME NEW m \in S, m < k
      PROVE  m + 1 \in S
  <2>1. m \in 1..k /\ m + 1 \in 1..k /\ m + 1 \in 2..k
    BY <1>2
  <2>2. PICK old \in [1..m -> Nat] : Sums(m, leg, old)
    BY <1>2
  <2> DEFINE along == [i \in 1..m+1 |-> IF i = m + 1 THEN old[m] + leg[m + 1] ELSE old[i]]
  <2>3. along \in [1..m+1 -> Nat]
    BY <2>1
  <2>4. ASSUME NEW i \in 1..m+1
        PROVE  along[i] = IF i = 1 THEN 0 ELSE along[i - 1] + leg[i]
    <3>1. CASE i = m + 1
      BY <2>1, <3>1
    <3>2. CASE i # m + 1
      <4>1. i \in 1..m /\ along[i] = old[i]
        BY <2>1, <3>2
      <4>2. i # 1 => along[i - 1] = old[i - 1]
        BY <2>1, <4>1
      <4>3. old[i] = IF i = 1 THEN 0 ELSE old[i - 1] + leg[i]
        BY <2>2, <4>1 DEF Sums
      <4> QED
        BY <4>1, <4>2, <4>3
    <3> QED
      BY <3>1, <3>2
  <2> HIDE DEF along
  <2>5. Sums(m + 1, leg, along)
    BY <2>3, <2>4 DEF Sums
  <2> QED
    BY <2>1, <2>3, <2>5
<1>3. S = 1..k
  <2>1. S \in SUBSET (1..k)
    OBVIOUS
  <2> HIDE DEF S
  <2> QED
    BY <1>1, <1>2, <2>1, InductiveInterval
<1>4. k \in S
  <2> HIDE DEF S
  <2> QED
    BY <1>3
<1> QED
  BY <1>4

(* Whatever satisfies its equation has natural numbers for values.         *)
LEMMA SumsType ==
    ASSUME NEW k \in Nat \ {0}, NEW leg \in [2..k -> Nat], NEW along, Sums(k, leg, along)
    PROVE  along \in [1..k -> Nat]
<1> DEFINE S == {i \in 1..k : along[i] \in Nat}
<1>1. along[1] = 0 /\ \A i \in 2..k : along[i] = along[i - 1] + leg[i]
  BY DEF Sums
<1>2. S \in SUBSET (1..k) /\ 1 \in S
  BY <1>1
<1>3. ASSUME NEW i \in S, i < k
      PROVE  i + 1 \in S
  <2>1. i + 1 \in 2..k /\ (i + 1) - 1 = i /\ i + 1 \in 1..k
    BY <1>3
  <2> QED
    BY <1>1, <2>1
<1>4. S = 1..k
  <2> HIDE DEF S
  <2> QED
    BY <1>2, <1>3, InductiveInterval
<1>5. \A i \in 1..k : along[i] \in Nat
  BY <1>4
<1> QED
  BY <1>5 DEF Sums

(* What rises along each leg by no more than its length rises along the    *)
(* route by no more than the sum.                                          *)
LEMMA SumsBound ==
    ASSUME NEW k \in Nat \ {0}, NEW leg \in [2..k -> Nat],
           NEW along \in [1..k -> Nat], Sums(k, leg, along),
           NEW p \in [1..k -> Int], p[1] = 0,
           \A i \in 2..k : p[i] <= p[i - 1] + leg[i]
    PROVE  p[k] <= along[k]
<1> DEFINE S == {i \in 1..k : p[i] <= along[i]}
<1>1. along[1] = 0 /\ \A i \in 2..k : along[i] = along[i - 1] + leg[i]
  BY DEF Sums
<1>2. S \in SUBSET (1..k) /\ 1 \in S
  BY <1>1
<1>3. ASSUME NEW i \in S, i < k
      PROVE  i + 1 \in S
  <2>1. i + 1 \in 2..k /\ (i + 1) - 1 = i /\ i \in 1..k /\ i + 1 \in 1..k
    BY <1>3
  <2>2. p[i + 1] <= p[i] + leg[i + 1] /\ along[i + 1] = along[i] + leg[i + 1]
    BY <1>1, <2>1
  <2>3. {p[i], p[i + 1], along[i], along[i + 1], leg[i + 1]} \subseteq Int /\ p[i] <= along[i]
    BY <2>1
  <2> QED
    BY <2>1, <2>2, <2>3
<1>4. S = 1..k
  <2> HIDE DEF S
  <2> QED
    BY <1>2, <1>3, InductiveInterval
<1>5. k \in S
  <2> HIDE DEF S
  <2> QED
    BY <1>4
<1> QED
  BY <1>5

(* What rises by exactly its length adds up to the sum.                    *)
LEMMA SumsMatch ==
    ASSUME NEW k \in Nat \ {0}, NEW leg \in [2..k -> Nat],
           NEW along \in [1..k -> Nat], Sums(k, leg, along),
           NEW p \in [1..k -> Int], p[1] = 0,
           \A i \in 2..k : p[i] = p[i - 1] + leg[i]
    PROVE  p[k] = along[k]
<1> DEFINE S == {i \in 1..k : p[i] = along[i]}
<1>1. along[1] = 0 /\ \A i \in 2..k : along[i] = along[i - 1] + leg[i]
  BY DEF Sums
<1>2. S \in SUBSET (1..k) /\ 1 \in S
  BY <1>1
<1>3. ASSUME NEW i \in S, i < k
      PROVE  i + 1 \in S
  <2>1. i + 1 \in 2..k /\ (i + 1) - 1 = i /\ i \in 1..k /\ i + 1 \in 1..k
    BY <1>3
  <2> QED
    BY <1>1, <2>1
<1>4. S = 1..k
  <2> HIDE DEF S
  <2> QED
    BY <1>2, <1>3, InductiveInterval
<1>5. k \in S
  <2> HIDE DEF S
  <2> QED
    BY <1>4
<1> QED
  BY <1>5

(* What rises along every leg is nowhere the same twice.                   *)
LEMMA RisingIsInjective ==
    ASSUME NEW k \in Nat, NEW p \in [1..k -> Int], \A i \in 2..k : p[i - 1] < p[i]
    PROVE  \A i, j \in 1..k : i < j => p[i] < p[j]
<1> DEFINE S == {j \in 1..k : \A i \in 1..k : i < j => p[i] < p[j]}
<1>1. S \in SUBSET (1..k) /\ (k > 0 => 1 \in S)
  OBVIOUS
<1>2. ASSUME NEW j \in S, j < k
      PROVE  j + 1 \in S
  <2>1. j + 1 \in 2..k /\ (j + 1) - 1 = j /\ j \in 1..k /\ j + 1 \in 1..k
    BY <1>2
  <2>2. p[j] < p[j + 1]
    BY <2>1
  <2>3. ASSUME NEW i \in 1..k, i < j + 1
        PROVE  p[i] < p[j + 1]
    <3>1. i = j \/ i < j
      BY <2>1, <2>3
    <3>2. p[i] <= p[j] /\ {p[i], p[j], p[j + 1]} \subseteq Int
      BY <2>1, <3>1
    <3> QED
      BY <2>2, <3>2
  <2> QED
    BY <2>1, <2>3
<1>3. S = 1..k
  <2> HIDE DEF S
  <2> QED
    BY <1>1, <1>2, InductiveInterval
<1> QED
  BY <1>3
=============================================================================
