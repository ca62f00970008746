--------------------------- MODULE RuntimeTallies ---------------------------
(***************************************************************************)
(* What wait_group counts and spreads: the round robin, the statistics and *)
(* the tasks that the ratio makes significant, for any number of workers,  *)
(* tasks and groups.  First how far the rounding of Floats may go, for any *)
(* precision.                                                              *)
(***************************************************************************)
EXTENDS RuntimeOrder

USE PrecisionAssumption

-----------------------------------------------------------------------------
(***************************************************************************)
(* Powers of two.  The provers know them from the number of subsets only.  *)
(***************************************************************************)
LEMMA Power ==
  ASSUME NEW n \in Nat
  PROVE  2^n \in Nat \ {0}
<1>1. IsFiniteSet(1 .. n) /\ Cardinality(1 .. n) = n
  BY FS_Interval
<1>2. IsFiniteSet(SUBSET (1 .. n)) /\ Cardinality(SUBSET (1 .. n)) = 2^n
  BY <1>1, FS_SUBSET
<1>3. {} \in SUBSET (1 .. n)
  OBVIOUS
<1> QED
  BY <1>2, <1>3, FS_CardinalityType, FS_EmptySet

LEMMA PowerZero == 2^0 = 1
OBVIOUS

LEMMA PowerNext ==
  ASSUME NEW n \in Nat
  PROVE  2^(n + 1) = 2 * 2^n
<1> DEFINE S == 1 .. n
           T == {A \cup {n + 1} : A \in SUBSET S}
           f == [A \in SUBSET S |-> A \cup {n + 1}]
<1>1. /\ IsFiniteSet(S) /\ Cardinality(S) = n
      /\ IsFiniteSet(1 .. n + 1) /\ Cardinality(1 .. n + 1) = n + 1
  BY FS_Interval
<1>2. /\ IsFiniteSet(SUBSET S) /\ Cardinality(SUBSET S) = 2^n
      /\ Cardinality(SUBSET (1 .. n + 1)) = 2^(n + 1)
  BY <1>1, FS_SUBSET
<1>3. n + 1 \notin S /\ 1 .. n + 1 = S \cup {n + 1}
  OBVIOUS
<1>4. f \in Bijection(SUBSET S, T)
  <2>1. f \in [SUBSET S -> T] /\ \A y \in T : \E A \in SUBSET S : f[A] = y
    OBVIOUS
  <2>2. ASSUME NEW A \in SUBSET S, NEW C \in SUBSET S, f[A] = f[C]
        PROVE  A = C
    BY <1>3, <2>2
  <2> QED
    BY <2>1, <2>2 DEF Bijection, Injection, Surjection, IsInjective
<1>5. IsFiniteSet(T) /\ Cardinality(T) = 2^n
  BY <1>2, <1>4, FS_Bijection DEF ExistsBijection
<1>6. SUBSET (1 .. n + 1) = (SUBSET S) \cup T
  <2>1. ASSUME NEW A \in SUBSET (1 .. n + 1), n + 1 \in A
        PROVE  A \in T
    <3>1. A \ {n + 1} \in SUBSET S /\ A = (A \ {n + 1}) \cup {n + 1}
      BY <1>3, <2>1
    <3> QED
      BY <3>1
  <2>2. ASSUME NEW A \in SUBSET (1 .. n + 1), n + 1 \notin A
        PROVE  A \in SUBSET S
    BY <1>3, <2>2
  <2>3. SUBSET S \subseteq SUBSET (1 .. n + 1)
    BY <1>3
  <2>4. T \subseteq SUBSET (1 .. n + 1)
    BY <1>3
  <2> HIDE DEF T, S
  <2> QED
    BY <2>1, <2>2, <2>3, <2>4
<1>7. (SUBSET S) \cap T = {}
  BY <1>3
<1>8. Cardinality({}) = 0
  BY FS_EmptySet
<1> HIDE DEF S, T, f
<1>9. 2^(n + 1) = 2^n + 2^n - 0
  BY <1>2, <1>5, <1>6, <1>7, <1>8, FS_Union
<1> QED
  BY <1>9, Power

-----------------------------------------------------------------------------
(***************************************************************************)
(* Division of a multiple.                                                 *)
(***************************************************************************)
LEMMA Multiple ==
  ASSUME NEW x \in Nat, NEW u \in Nat \ {0}
  PROVE  /\ x * u \in Nat
         /\ (x * u) % u = 0
         /\ (x * u) \div u = x
OBVIOUS

(***************************************************************************)
(* What division leaves.                                                   *)
(***************************************************************************)
LEMMA Quotient ==
  ASSUME NEW n \in Nat, NEW u \in Nat \ {0}
  PROVE  /\ n \div u \in Nat
         /\ (n \div u) * u <= n
         /\ n < (n \div u) * u + u
OBVIOUS

Full == 2^PRECISION

LEMMA FullFacts ==
  /\ Full \in Nat \ {0}
  /\ 2^(PRECISION - 1) \in Nat \ {0}
  /\ Full = 2 * 2^(PRECISION - 1)
<1>1. PRECISION - 1 \in Nat /\ (PRECISION - 1) + 1 = PRECISION
  OBVIOUS
<1>2. 2^((PRECISION - 1) + 1) = 2 * 2^(PRECISION - 1)
  BY <1>1, PowerNext
<1> QED
  BY <1>1, <1>2, Power DEF Full

(***************************************************************************)
(* A significand times a power of two is a float.                          *)
(***************************************************************************)
LEMMA FloatMade ==
  ASSUME NEW e \in 0 .. LargestExponent - 1, NEW x \in 0 .. Full
  PROVE  /\ 2^e \in Nat \ {0}
         /\ x * 2^e \in Nat
         /\ IsFloat(x * 2^e)
<1>1. /\ e \in Nat /\ e \in Exponents /\ e + 1 \in Exponents
      /\ x \in Nat /\ Full \in Nat
  BY FullFacts DEF Exponents
<1>2. 2^e \in Nat \ {0} /\ 2^(e + 1) = 2 * 2^e /\ 2^(e + 1) \in Nat \ {0}
  BY <1>1, Power, PowerNext
<1>3. x * 2^e \in Nat
  BY <1>1, <1>2, Multiple
<1>4. CASE x < Full
  <2>1. (x * 2^e) % 2^e = 0 /\ (x * 2^e) \div 2^e = x
    BY <1>1, <1>2, Multiple
  <2> QED
    BY <1>1, <1>2, <1>3, <1>4, <2>1 DEF IsFloat, HasBits, Full
<1>5. CASE x = Full
  <2> DEFINE h == 2^(PRECISION - 1)
  <2>1. h \in Nat /\ h < Full /\ Full = 2 * h
    BY FullFacts
  <2>2. x * 2^e = h * 2^(e + 1)
    BY <1>2, <1>5, <2>1
  <2>3. (h * 2^(e + 1)) % 2^(e + 1) = 0 /\ (h * 2^(e + 1)) \div 2^(e + 1) = h
    BY <1>2, <2>1, Multiple
  <2> QED
    BY <1>1, <1>2, <1>3, <2>1, <2>2, <2>3 DEF IsFloat, HasBits, Full
<1> QED
  BY <1>1, <1>2, <1>3, <1>4, <1>5

(***************************************************************************)
(* Rounding does not go past a float.                                      *)
(***************************************************************************)
LEMMA RoundedNearest ==
  ASSUME NEW n \in Nat, NEW p \in Rounded(n), NEW q \in Nat, IsFloat(q)
  PROVE  /\ p \in Nat
         /\ p <= 2 * n
         /\ q <= n => q <= p
         /\ q >= n => p <= q
         /\ q <= 2 * n => Distance(n, p) <= Distance(n, q)
<1>1. p \in 0 .. 2 * n
  BY DEF Rounded
<1>2. q \in 0 .. 2 * n => Distance(n, p) <= Distance(n, q)
  BY DEF Rounded
<1> QED
  BY <1>1, <1>2 DEF Distance

LEMMA FloatFits ==
  ASSUME NEW n \in 0 .. Full
  PROVE  IsFloat(n)
<1>1. n * 2^0 = n /\ 0 \in 0 .. LargestExponent - 1
  BY FullFacts, PowerZero
<1> QED
  BY <1>1, FloatMade

(***************************************************************************)
(* A set of places up to a last one has a first place: else each would     *)
(* have the one before it in the set too, and the last would be taken for  *)
(* none, though the set is finite.                                         *)
(***************************************************************************)
LEMMA FirstPlace ==
  ASSUME NEW l \in Nat, NEW T \in SUBSET (0 .. l), l \in T
  PROVE  \E e \in T : e # 0 => e - 1 \notin T
<1> SUFFICES ASSUME \A e \in T : e # 0 /\ e - 1 \in T
             PROVE  FALSE
  OBVIOUS
<1> DEFINE before == [e \in T |-> e - 1]
<1>1. IsFiniteSet(T)
  <2>1. IsFiniteSet(0 .. l)
    BY FS_Interval
  <2> QED
    BY <2>1, FS_Subset
<1>2. before \in Injection(T, T)
  BY DEF Injection, IsInjective
<1>3. before \in Surjection(T, T)
  BY <1>1, <1>2, FS_Injection
<1>4. \E e \in T : before[e] = l
  BY <1>3 DEF Surjection
<1> QED
  BY <1>4

(***************************************************************************)
(* The first exponent at which n has few enough bits.                      *)
(***************************************************************************)
LEMMA FirstExponent ==
  ASSUME NEW n \in Nat, n < Full * 2^(LargestExponent - 1)
  PROVE  \E e \in 0 .. LargestExponent - 1 :
            /\ n \div 2^e < Full
            /\ e # 0 => n \div 2^(e - 1) >= Full
<1> DEFINE l == LargestExponent - 1
           f == [e \in 0 .. l |-> n \div 2^e]
           T == {e \in 0 .. l : f[e] < Full}
<1>0. l \in Nat
  OBVIOUS
<1>1. ASSUME NEW e \in 0 .. l
      PROVE  f[e] = n \div 2^e /\ f[e] \in Nat
  <2>1. 2^e \in Nat \ {0}
    BY <1>0, Power
  <2> QED
    BY <2>1, Quotient
<1>2. l \in T
  <2>1. PICK u \in Nat \ {0} : u = 2^l /\ n < Full * u
    BY <1>0, Power
  <2>2. n \div u < Full
    BY <2>1, Quotient, FullFacts
  <2> QED
    BY <1>0, <1>1, <2>1, <2>2
<1>3. PICK e \in T : e # 0 => e - 1 \notin T
  BY <1>0, <1>2, FirstPlace
<1>4. Full \in Nat
  BY FullFacts
<1>5. e \in 0 .. l /\ n \div 2^e < Full
  BY <1>1, <1>3
<1>6. ASSUME e # 0
      PROVE  n \div 2^(e - 1) >= Full
  <2>1. e - 1 \in 0 .. l /\ ~ f[e - 1] < Full
    BY <1>0, <1>3, <1>5, <1>6
  <2> QED
    BY <1>1, <1>4, <2>1
<1> QED
  BY <1>5, <1>6

(***************************************************************************)
(* What rounding adds to n is at most one part in 2^PRECISION of it.       *)
(***************************************************************************)
LEMMA RoundError ==
  ASSUME NEW n \in Nat, n <= Full * 2^(LargestExponent - 1),
         NEW p \in Rounded(n)
  PROVE  p \in Nat /\ (p - n) * Full <= n
<1>1. p \in 0 .. 2 * n /\ Full \in Nat \ {0} /\ p - n \in Int
  BY FullFacts DEF Rounded
<1>2. CASE IsFloat(n)
  <2>1. p <= n
    BY <1>2, RoundedNearest
  <2> QED
    BY <1>1, <2>1
<1>3. CASE n < Full * 2^(LargestExponent - 1) /\ ~ IsFloat(n)
  <2>1. PICK e \in 0 .. LargestExponent - 1 :
               /\ n \div 2^e < Full
               /\ e # 0 => n \div 2^(e - 1) >= Full
    BY <1>3, FirstExponent
  <2>2. e # 0
    <3> SUFFICES ASSUME e = 0
                 PROVE  FALSE
      OBVIOUS
    <3>1. n \div 1 = n
      OBVIOUS
    <3>2. n \in 0 .. Full
      BY <1>1, <2>1, <3>1, PowerZero
    <3> QED
      BY <1>3, <3>2, FloatFits
  <2> DEFINE h == 2^(e - 1)
             x == n \div 2^e
  <2>3. h \in Nat \ {0} /\ 2^e = 2 * h /\ 2^e \in Nat \ {0}
    <3>1. e - 1 \in Nat /\ (e - 1) + 1 = e
      BY <2>2
    <3> QED
      BY <3>1, Power, PowerNext
  <2>4. x \in Nat /\ x < Full /\ x * 2^e <= n /\ n < x * 2^e + 2^e
    BY <2>1, <2>3, Quotient
  <2>5. n >= Full * h
    <3>1. n \div h >= Full /\ (n \div h) * h <= n /\ n \div h \in Nat
      BY <2>1, <2>2, <2>3, Quotient
    <3>2. (n \div h) * h >= Full * h
      BY <1>1, <2>3, <3>1
    <3> QED
      BY <1>1, <2>3, <3>1, <3>2
  <2>6. /\ IsFloat(x * 2^e) /\ x * 2^e \in Nat
        /\ IsFloat((x + 1) * 2^e) /\ (x + 1) * 2^e \in Nat
    <3>1. x \in 0 .. Full /\ x + 1 \in 0 .. Full
      BY <1>1, <2>4
    <3> QED
      BY <3>1, FloatMade
  <2>7. (x + 1) * 2^e = x * 2^e + 2 * h
    BY <2>3, <2>4
  <2>8. 2 * h <= n
    <3>1. Full >= 2 /\ Full * h >= 2 * h
      BY <2>3, FullFacts
    <3> QED
      BY <1>1, <2>3, <2>5, <3>1
  <2> DEFINE d == x * 2^e
  <2>9. d \in Nat /\ d <= n /\ n < d + 2 * h /\ IsFloat(d) /\ IsFloat(d + 2 * h)
    BY <2>3, <2>4, <2>6, <2>7
  <2> HIDE DEF d, h, x
  <2>10. /\ Distance(n, p) <= Distance(n, d)
         /\ Distance(n, p) <= Distance(n, d + 2 * h)
    BY <2>3, <2>8, <2>9, RoundedNearest
  <2>11. p - n <= h
    BY <1>1, <2>3, <2>9, <2>10 DEF Distance
  <2>12. (p - n) * Full <= h * Full
    BY <1>1, <2>3, <2>11
  <2> QED
    BY <1>1, <2>3, <2>5, <2>12
<1>4. CASE n = Full * 2^(LargestExponent - 1)
  <2>1. LargestExponent - 1 \in 0 .. LargestExponent - 1 /\ Full \in 0 .. Full
    BY FullFacts
  <2>2. IsFloat(n)
    BY <1>4, <2>1, FloatMade
  <2> QED
    BY <1>2, <2>2
<1>5. 2^(LargestExponent - 1) \in Nat
  BY Power
<1> QED
  BY <1>1, <1>2, <1>3, <1>4, <1>5

LEMMA PowerGrows ==
  ASSUME NEW e \in 0 .. LargestExponent - 1
  PROVE  2^e <= 2^(LargestExponent - 1)
<1> DEFINE l == LargestExponent - 1
<1>1. l \in Nat /\ e \in Nat /\ e <= l
  OBVIOUS
<1> HIDE DEF l
<1>2. /\ IsFiniteSet(1 .. e) /\ Cardinality(1 .. e) = e
      /\ IsFiniteSet(1 .. l) /\ Cardinality(1 .. l) = l
  BY <1>1, FS_Interval
<1>3. /\ Cardinality(SUBSET (1 .. e)) = 2^e
      /\ IsFiniteSet(SUBSET (1 .. l)) /\ Cardinality(SUBSET (1 .. l)) = 2^l
  BY <1>2, FS_SUBSET
<1>4. SUBSET (1 .. e) \subseteq SUBSET (1 .. l)
  BY <1>1
<1>5. 2^e <= 2^l
  BY <1>3, <1>4, FS_Subset
<1> QED
  BY <1>5 DEF l

(***************************************************************************)
(* The share of n tasks that a float r asks for: the product is rounded to *)
(* a float and then truncated.  It is never too small, and never larger    *)
(* than the exact one by more than one part in 2^PRECISION of the product, *)
(* or by more than one task.                                               *)
(***************************************************************************)
LEMMA ShareAsked ==
  ASSUME NEW e \in 0 .. LargestExponent - 1, NEW n \in 0 .. Full,
         NEW m \in Rounded(n), NEW r \in 0 .. 2^e, NEW p \in Rounded(m * r)
  PROVE  LET asked == n * r
             share == p \div 2^e
         IN  /\ asked \in Nat
             /\ share \in Nat
             /\ share < n => asked < (share + 1) * 2^e
             /\ (share * 2^e - asked) * Full <= asked
             /\ share \in {asked \div 2^e, asked \div 2^e + 1}
<1> DEFINE asked == n * r
           share == p \div 2^e
           exact == asked \div 2^e
           u == 2^e
<1>1. /\ Full \in Nat \ {0} /\ n \in Nat /\ r \in Nat /\ asked \in Nat
      /\ u \in Nat \ {0}
  BY FullFacts, Power
<1>2. m = n
  BY <1>1, FloatFits, RoundedNearest
<1>3. p \in Rounded(asked) /\ p \in 0 .. 2 * asked
  BY <1>2 DEF Rounded
<1>4. asked <= n * u /\ n * u <= Full * u
  BY <1>1
<1>5. asked <= Full * 2^(LargestExponent - 1)
  <2>1. u <= 2^(LargestExponent - 1) /\ 2^(LargestExponent - 1) \in Nat
    <3>1. LargestExponent - 1 \in Nat
      OBVIOUS
    <3>2. 2^(LargestExponent - 1) \in Nat
      BY <3>1, Power
    <3> QED
      BY <3>2, PowerGrows
  <2>2. Full * u <= Full * 2^(LargestExponent - 1)
    BY <1>1, <2>1
  <2> QED
    BY <1>1, <1>4, <2>1, <2>2
<1>6. (p - asked) * Full <= asked
  BY <1>1, <1>3, <1>5, RoundError
<1>7. share \in Nat /\ share * u <= p /\ p < share * u + u
  <2>1. p \in Nat
    BY <1>1, <1>3
  <2> HIDE DEF u
  <2>2. /\ p \div u \in Nat
        /\ (p \div u) * u <= p
        /\ p < (p \div u) * u + u
    BY <1>1, <2>1, Quotient
  <2> QED
    BY <2>2 DEF u
<1>8. exact \in Nat /\ exact * u <= asked /\ asked < exact * u + u
  BY <1>1, Quotient
<1>9. ASSUME NEW x \in 0 .. Full
      PROVE  /\ IsFloat(x * u) /\ x * u \in Nat
             /\ x * u <= asked => x * u <= p
             /\ x * u >= asked => p <= x * u
  <2>1. IsFloat(x * u) /\ x * u \in Nat
    BY FloatMade
  <2> QED
    BY <1>1, <1>3, <2>1, RoundedNearest
<1> HIDE DEF u, share, exact, asked
<1>10. (share * u - asked) * Full <= asked
  <2>1. share * u - asked <= p - asked /\ share * u \in Nat
    BY <1>1, <1>3, <1>7
  <2>2. (share * u - asked) * Full <= (p - asked) * Full
    BY <1>1, <1>3, <2>1
  <2> QED
    BY <1>1, <1>3, <1>6, <2>1, <2>2
<1>11. share < n => asked < (share + 1) * u
  <2> SUFFICES ASSUME share < n, (share + 1) * u <= asked
               PROVE  FALSE
    BY <1>1, <1>7
  <2>1. share + 1 \in 0 .. Full /\ (share + 1) * u = share * u + u
    BY <1>1, <1>7
  <2>2. (share + 1) * u <= p
    BY <1>9, <2>1
  <2> QED
    BY <1>1, <1>3, <1>7, <2>1, <2>2
<1>12. exact <= n
  <2> SUFFICES ASSUME exact >= n + 1
               PROVE  FALSE
    BY <1>1, <1>8
  <2>1. exact * u >= (n + 1) * u /\ (n + 1) * u = n * u + u
    BY <1>1, <1>8
  <2> QED
    BY <1>1, <1>4, <1>8, <2>1
<1>13. share >= exact
  <2>1. exact * u <= p
    BY <1>1, <1>8, <1>9, <1>12
  <2> SUFFICES ASSUME share + 1 <= exact
               PROVE  FALSE
    BY <1>7, <1>8
  <2>2. (share + 1) * u <= exact * u /\ (share + 1) * u = share * u + u
    BY <1>1, <1>7, <1>8
  <2> QED
    BY <1>1, <1>3, <1>7, <1>8, <2>1, <2>2
<1>14. share <= exact + 1
  <2>1. CASE exact + 1 <= Full
    <3>1. exact + 1 \in 0 .. Full /\ (exact + 1) * u = exact * u + u
      BY <1>1, <1>8, <2>1
    <3>2. p <= (exact + 1) * u
      <4>1. (exact + 1) * u >= asked
        BY <1>1, <1>8, <3>1
      <4> QED
        BY <1>9, <3>1, <4>1
    <3> SUFFICES ASSUME share >= exact + 2
                 PROVE  FALSE
      BY <1>7, <1>8
    <3>3. share * u >= (exact + 2) * u /\ (exact + 2) * u = exact * u + 2 * u
      BY <1>1, <1>7, <1>8
    <3> QED
      BY <1>1, <1>3, <1>7, <1>8, <3>1, <3>2, <3>3
  <2>2. CASE exact = Full
    <3>1. asked = exact * u
      BY <1>1, <1>4, <1>8, <2>2
    <3>2. p = exact * u
      BY <1>1, <1>3, <1>9, <2>2, <3>1
    <3> SUFFICES ASSUME share >= exact + 1
                 PROVE  FALSE
      BY <1>7, <1>8
    <3>3. share * u >= (exact + 1) * u /\ (exact + 1) * u = exact * u + u
      BY <1>1, <1>7, <1>8
    <3> QED
      BY <1>1, <1>3, <1>7, <1>8, <3>2, <3>3
  <2> QED
    BY <1>1, <1>8, <1>12, <2>1, <2>2
<1>15. share \in {exact, exact + 1}
  BY <1>7, <1>8, <1>13, <1>14
<1> QED
  BY <1>1, <1>7, <1>10, <1>11, <1>15 DEF u, share, exact, asked

-----------------------------------------------------------------------------
HIDE PrecisionAssumption
USE RuntimeAssumption

\* Every set of tasks is finite and no larger than the bound.
LEMMA TaskSets ==
  ASSUME NEW S \in SUBSET Tasks
  PROVE  IsFiniteSet(S) /\ Cardinality(S) \in 0 .. MaxTasks
<1>1. IsFiniteSet(Tasks) /\ Cardinality(Tasks) = MaxTasks
  BY FS_Interval DEF Tasks
<1>2. /\ IsFiniteSet(S)
      /\ Cardinality(S) <= MaxTasks
  BY <1>1, FS_Subset
<1> QED
  BY <1>2, FS_CardinalityType

\* The bucket of a task is told by its group and the arrays alone.
LEMMA SameBucket ==
  ASSUME UNCHANGED <<pending_q, my_group>>, NEW t
  PROVE  Bucket(t)' = Bucket(t)
BY DEF Bucket, InBucket

(***************************************************************************)
(* Steps that take no task out of its bucket and count none.               *)
(***************************************************************************)
LEMMA TallyFrame ==
  ASSUME Tallied,
         UNCHANGED <<my_group, pending_q, placed, total, total_sig_tasks,
                     total_non_sig_tasks>>,
         \A t \in Tasks : /\ stage'[t] \in Taken <=> stage[t] \in Taken
                          /\ stage'[t] \in Dispatched <=>
                               stage[t] \in Dispatched
                          /\ stage'[t] \in Taken =>
                               /\ significance'[t] = significance[t]
                               /\ versions'[t] = versions[t],
         mainPc' \in InWait =>
           /\ mainPc \in InWait
           /\ UNCHANGED <<cur, goal, current, worker, ratio, significance>>,
         DealtOut' => DealtOut \/ \A t \in Members(cur) : stage[t] \in Taken,
         Uncounted' = Uncounted
  PROVE  Tallied'
<1> USE DEF Tallied
<1>0. /\ \A g : Members(g)' = Members(g)
      /\ \A t \in Tasks : stage'[t] \in Dispatched => stage'[t] \in Taken
  BY DEF Members, Dispatched, Taken
<1>1. Decided'
  BY <1>0 DEF Decided
<1>2. AllTaken'
  BY <1>0 DEF AllTaken, Members, DealtOut, InWait
<1>3. Unplaced'
  BY DEF Unplaced
<1>4. RoundRobin'
  BY <1>0 DEF RoundRobin, Dealt
<1>5. TotalCounts'
  BY <1>0 DEF TotalCounts
<1>6. StatsCount'
  <2>1. ASSUME NEW g \in Groups
        PROVE  /\ {t \in CountedOf(g) : significance[t] = SIGNIFICANT}'
                    = {t \in CountedOf(g) : significance[t] = SIGNIFICANT}
               /\ {t \in CountedOf(g) : significance[t] # SIGNIFICANT}'
                    = {t \in CountedOf(g) : significance[t] # SIGNIFICANT}
    BY <1>0 DEF CountedOf, Members
  <2> QED
    BY <2>1 DEF StatsCount
<1>7. GoalAsked'
  BY DEF GoalAsked
<1>8. QuotaCounts'
  <2>1. ASSUME mainPc' \in InWait
        PROVE  Promoted' = Promoted /\ Middling' = Middling
               /\ \A t \in Middling : t \in Tasks
    BY <1>0, <2>1, SameBucket DEF Promoted, Middling, Members
  <2>2. ASSUME mainPc' \in InWait
        PROVE  {t \in Middling : stage[t] \in Taken}'
                 = {t \in Middling : stage[t] \in Taken}
    BY <2>1, <2>2
  <2> QED
    BY <2>1, <2>2 DEF QuotaCounts
<1> QED
  BY <1>1, <1>2, <1>3, <1>4, <1>5, <1>6, <1>7, <1>8

\* The application adds tasks that wait_group has not taken.
LEMMA ApplicationTallies ==
  ASSUME TypeOK, Structure, Tallied, Application
  PROVE  Tallied'
<1>0. /\ stage \in [Tasks -> Stages]
      /\ significance \in [Tasks -> Levels]
      /\ versions \in [Tasks -> SUBSET Versions]
      /\ my_group \in [Tasks -> groups \cup {NULL}]
      /\ groups \subseteq Groups
  BY DEF TypeOK, HistoryType, TaskType, GroupType
<1>1. /\ mainPc = "user" /\ mainPc' \notin InWait
      /\ ~ DealtOut' /\ Uncounted' = Uncounted
  BY DEF Application, NewTask, PushTask, PushUngrouped, WaitGroup, WaitAborts,
         Shutdown, InWait, DealtOut, Uncounted
<1>2. ASSUME NEW s \in SigChoices, NEW v \in VersionChoices, NewTask(s, v)
      PROVE  Tallied'
  <2>1. PICK t \in Tasks : t = id /\ stage[t] = "unborn"
    BY <1>2 DEF NewTask, TypeOK, TaskType, Tasks, Structure, Ids
  <2>2. /\ stage'[t] = "made"
        /\ \A u \in Tasks \ {t} : /\ stage'[u] = stage[u]
                                  /\ significance'[u] = significance[u]
                                  /\ versions'[u] = versions[u]
        /\ UNCHANGED <<my_group, pending_q, placed, total, total_sig_tasks,
                       total_non_sig_tasks>>
    BY <1>0, <1>2, <2>1 DEF NewTask, buckets, counts
  <2>3. \A u \in Tasks : /\ stage'[u] \in Taken <=> stage[u] \in Taken
                         /\ stage'[u] \in Dispatched <=>
                              stage[u] \in Dispatched
                         /\ stage'[u] \in Taken =>
                              /\ significance'[u] = significance[u]
                              /\ versions'[u] = versions[u]
    BY <2>1, <2>2 DEF Taken, Dispatched
  <2> QED
    BY <1>1, <2>2, <2>3, TallyFrame
<1>3. ASSUME NEW t \in Tasks, PushUngrouped(t)
      PROVE  Tallied'
  <2>1. /\ stage[t] = "made"
        /\ stage' = [stage EXCEPT ![t] = "ungrouped"]
        /\ UNCHANGED <<my_group, pending_q, placed, total, total_sig_tasks,
                       total_non_sig_tasks, significance, versions>>
    BY <1>3 DEF PushUngrouped, buckets, counts
  <2>2. \A u \in Tasks : /\ stage'[u] \in Taken <=> stage[u] \in Taken
                         /\ stage'[u] \in Dispatched <=>
                              stage[u] \in Dispatched
    BY <1>0, <2>1 DEF Taken, Dispatched
  <2> QED
    BY <1>1, <2>1, <2>2, TallyFrame
<1>4. ASSUME NEW t \in Tasks, NEW g \in Groups, PushTask(t, g)
      PROVE  Tallied'
  <2> USE DEF Tallied
  <2>1. /\ stage[t] = "made" /\ my_group[t] = NULL
        /\ stage' = [stage EXCEPT ![t] = "pending"]
        /\ my_group' = [my_group EXCEPT ![t] = g]
        /\ total' = [total EXCEPT ![g] = @ + 1]
        /\ total \in [Groups -> Nat]
        /\ UNCHANGED <<placed, total_sig_tasks, total_non_sig_tasks,
                       significance, versions>>
    BY <1>4 DEF PushTask, counts, Structure, GroupKnown, TypeOK, GroupType
  <2>2. \A u \in Tasks : /\ stage'[u] \in Taken <=> stage[u] \in Taken
                         /\ stage'[u] \in Dispatched <=>
                              stage[u] \in Dispatched
    BY <1>0, <2>1 DEF Taken, Dispatched
  <2>3. Decided' /\ Unplaced'
    BY <2>1, <2>2 DEF Decided, Unplaced
  <2>4. AllTaken' /\ RoundRobin' /\ GoalAsked' /\ QuotaCounts'
    BY <1>1 DEF AllTaken, RoundRobin, GoalAsked, QuotaCounts
  <2>5. TotalCounts'
    <3> SUFFICES ASSUME NEW h \in Groups
                 PROVE  total'[h] = Cardinality(Members(h)')
      BY DEF TotalCounts
    <3>1. CASE h = g
      <4>1. Members(g)' = Members(g) \cup {t} /\ t \notin Members(g)
        BY <1>0, <2>1 DEF Members
      <4>2. Cardinality(Members(g)') = Cardinality(Members(g)) + 1
        BY <4>1, TaskSets, OneMore DEF Members
      <4> QED
        BY <2>1, <3>1, <4>2 DEF TotalCounts
    <3>2. CASE h # g
      <4>1. Members(h)' = Members(h)
        BY <1>0, <2>1, <3>2 DEF Members
      <4> QED
        BY <2>1, <3>2, <4>1 DEF TotalCounts
    <3> QED
      BY <3>1, <3>2
  <2>6. StatsCount'
    <3>1. ASSUME NEW h \in Groups
          PROVE  CountedOf(h)' = CountedOf(h)
      <4>1. stage[t] \notin Dispatched
        BY <2>1 DEF Dispatched
      <4>2. \A u \in Tasks : /\ stage'[u] \in Dispatched
                               <=> stage[u] \in Dispatched
                             /\ stage[u] \in Dispatched =>
                                  my_group'[u] = my_group[u]
        BY <1>0, <2>1, <2>2, <4>1
      <4> QED
        BY <1>1, <4>2 DEF CountedOf, Members
    <3> QED
      BY <2>1, <3>1 DEF StatsCount
  <2> QED
    BY <2>3, <2>4, <2>5, <2>6
<1>5. ASSUME NEW g \in Groups, WaitGroup(g) \/ WaitAborts(g)
      PROVE  Tallied'
  <2>1. UNCHANGED <<my_group, pending_q, placed, total, total_sig_tasks,
                    total_non_sig_tasks, significance, versions, stage>>
    BY <1>5 DEF WaitGroup, WaitAborts, tasks, buckets, counts, history
  <2> QED
    BY <1>1, <2>1, TallyFrame
<1>6. CASE Shutdown
  <2>1. UNCHANGED <<my_group, pending_q, placed, total, total_sig_tasks,
                    total_non_sig_tasks, significance, versions, stage>>
    BY <1>6 DEF Shutdown, tasks, buckets, counts, history
  <2> QED
    BY <1>1, <2>1, TallyFrame
<1> QED
  BY <1>2, <1>3, <1>4, <1>5, <1>6 DEF Application

\* A worker moves tasks among the stages they have when they are dispatched.
LEMMA WorkerTallies ==
  ASSUME TypeOK, Structure, Tallied, NEW w \in Workers, Worker(w)
  PROVE  Tallied'
<1>1. /\ UNCHANGED <<pending_q, my_group, significance, versions, cur, sig, i,
                     current, goal, worker, placed, total, ratio,
                     total_sig_tasks, total_non_sig_tasks>>
      /\ mainPc' = mainPc \/ (mainPc = "asleep" /\ mainPc' = "awake")
  <2>1. CASE CountDown(w)
    BY <2>1 DEF CountDown, CountDownAnd, locals, tasks, buckets
  <2>2. CASE ~ CountDown(w)
    BY <2>2 DEF Worker, CheckRunning, PopNothing, Recheck, LoopTest, PopTask,
                RunTask, EnterSync, TakeLock, LeaveSync, locals, tasks,
                buckets, counts, history
  <2> QED
    BY <2>1, <2>2
<1>2. \A t \in Tasks : /\ stage'[t] \in Taken <=> stage[t] \in Taken
                       /\ stage'[t] \in Dispatched <=> stage[t] \in Dispatched
  BY WorkerStages
<1>3. Uncounted' = Uncounted
  BY <1>1 DEF Uncounted, Here
<1>4. mainPc' \in InWait => mainPc \in InWait
  BY <1>1 DEF InWait
<1>5. DealtOut' => DealtOut
  BY <1>1 DEF DealtOut
<1> QED
  BY <1>1, <1>2, <1>3, <1>4, <1>5, TallyFrame

\* When the loops are through every task of the group has been taken.
LEMMA LoopsThrough ==
  ASSUME TypeOK, Ordered, Chosen, CondWait
  PROVE  \A t \in Members(cur) : stage[t] \in Taken
<1>1. /\ mainPc = "select" /\ Dealing /\ sig = NON_SIGNIFICANT
      /\ i > Len(pending_q[cur][sig])
  BY DEF CondWait, EndLoops, BucketDone, Dealing
<1>2. /\ cur \in Groups /\ i \in Nat /\ cur # NULL
      /\ pending_q \in [Groups -> [Levels -> Seq(Tasks)]]
  BY <1>1 DEF TypeOK, MainType, GroupType, InWait
<1> SUFFICES ASSUME NEW t \in Tasks, my_group[t] = cur
             PROVE  stage[t] \in Taken
  BY DEF Members
<1>3. PICK l \in Levels : InBucket(t, l)
  BY <1>2 DEF Ordered, InSomeBucket
<1>4. PICK n \in 1 .. Len(pending_q[cur][l]) : pending_q[cur][l][n] = t
  BY <1>3 DEF InBucket
<1>5. pending_q[cur][l] \in Seq(Tasks) /\ n \in Nat
  BY <1>2
<1>6. ~ Ahead(l, n)
  BY <1>1, <1>2, <1>5 DEF Ahead, Levels, NON_SIGNIFICANT
<1> QED
  BY <1>1, <1>4, <1>6 DEF Chosen, PassedTaken

\* The other steps that take no task out of its bucket.
LEMMA CallTallies ==
  ASSUME TypeOK, Structure, Ordered, Chosen, Tallied,
         \/ StartWorker \/ NextLevel \/ CondWait \/ WaitReturn
         \/ StopWorker \/ JoinWorker \/ JoinCrashes \/ SpuriousWakeup
  PROVE  Tallied'
<1>1. /\ UNCHANGED <<my_group, pending_q, placed, total, total_sig_tasks,
                     total_non_sig_tasks, significance, versions, stage>>
      /\ mainPc # "count" /\ mainPc' # "count"
      /\ mainPc' \in InWait =>
           /\ mainPc \in InWait
           /\ UNCHANGED <<cur, goal, current, worker, ratio>>
      /\ DealtOut' => DealtOut \/ CondWait
  BY DEF StartWorker, NextLevel, LowerLevel, BucketDone, CondWait, EndLoops,
         WaitReturn, StopWorker, JoinWorker, JoinCrashes, SpuriousWakeup,
         DealtOut, InWait, locals, tasks, buckets, counts, history
<1>2. Uncounted' = Uncounted
  BY <1>1 DEF Uncounted
<1> QED
  BY <1>1, <1>2, LoopsThrough, TallyFrame

(***************************************************************************)
(* At the lock every task of the group is pending and none has been placed.*)
(***************************************************************************)
LEMMA LockTallies ==
  ASSUME TypeOK, Structure, Ordered, Chosen, Tallied,
         NEW r \in Ratios, LockGroup(r)
  PROVE  Tallied'
<1> USE DEF Tallied
<1>1. /\ mainPc = "lock" /\ lock[cur] = FREE
      /\ mainPc' = "select"
      /\ ratio' = [ratio EXCEPT ![cur] = r]
      /\ goal' \in Goals(total[cur], r)
      /\ current' = 0 /\ worker' = 0
      /\ UNCHANGED <<cur, pending_q, my_group, significance, versions, stage,
                     placed, total, total_sig_tasks, total_non_sig_tasks>>
  BY DEF LockGroup, BeginWait, tasks, buckets, history
<1>2. /\ cur \in Groups /\ cur \notin waited /\ cur # NULL
      /\ ratio \in [Groups -> Ratios \cup {0}]
      /\ total[cur] \in Nat
  BY <1>1 DEF TypeOK, MainType, GroupType, Structure, MainLocks
<1>3. ASSUME NEW t \in Members(cur)
      PROVE  stage[t] = "pending" /\ stage[t] \notin Dispatched
  <2>1. t \in Tasks /\ my_group[t] = cur /\ my_group[t] # NULL
    BY <1>2 DEF Members
  <2>2. stage[t] \in Stages \ {"unborn", "made", "ungrouped"}
    BY <2>1 DEF Structure, GroupKnown, TypeOK, HistoryType
  <2>3. stage[t] \notin Taken
    BY <1>1, <1>2, <2>1 DEF Structure, TakenInWait, InWait
  <2> QED
    BY <2>2, <2>3 DEF Stages, Taken, Dispatched
<1>4. \A g : Members(g)' = Members(g)
  BY <1>1 DEF Members
<1>5. Decided' /\ Unplaced' /\ TotalCounts'
  BY <1>1, <1>4 DEF Decided, Unplaced, TotalCounts
<1>6. AllTaken'
  BY <1>1 DEF AllTaken, DealtOut
<1>7. StatsCount'
  <2>1. Uncounted' = Uncounted
    BY <1>1 DEF Uncounted
  <2>2. \A g \in Groups : CountedOf(g)' = CountedOf(g)
    BY <1>1, <1>4, <2>1 DEF CountedOf
  <2> QED
    BY <1>1, <2>2 DEF StatsCount
<1>8. GoalAsked'
  BY <1>1, <1>2 DEF GoalAsked
<1>9. RoundRobin'
  <2>1. ASSUME NEW w \in Workers
        PROVE  Dealt(w)' = {} /\ Cardinality(Dealt(w)') = 0
    <3>1. \A t \in Members(cur) : placed[t] = NULL
      BY <1>3 DEF Unplaced, Members
    <3>2. Dealt(w)' = {}
      BY <1>1, <1>4, <3>1 DEF Dealt
    <3> QED
      BY <3>2, FS_EmptySet
  <2>2. 0 \in 0 .. MaxTasks
    OBVIOUS
  <2>3. \A w \in Workers : w \notin 1 .. worker'
    BY <1>1
  <2> QED
    BY <2>1, <2>2, <2>3 DEF RoundRobin
<1>10. QuotaCounts'
  <2>1. \A t : Bucket(t)' = Bucket(t)
    BY <1>1, SameBucket
  <2>2. Middling' = Middling /\ Promoted' = Promoted
    BY <1>1, <1>4, <2>1 DEF Middling, Promoted
  <2>3. {t \in Middling : stage[t] \in Taken} = {}
    BY <1>3 DEF Middling, Taken
  <2>4. Promoted = {}
    <3> SUFFICES ASSUME NEW t \in Members(cur), Undecided(Bucket(t)),
                        significance[t] = SIGNIFICANT
                 PROVE  FALSE
      BY DEF Promoted, Middling
    <3>1. t \in Tasks /\ my_group[t] # NULL /\ stage[t] = "pending"
      BY <1>2, <1>3 DEF Members
    <3>2. Bucket(t) \in Levels /\ InBucket(t, Bucket(t))
      BY <3>1, BucketIsIn DEF Ordered
    <3> QED
      BY <3>1, <3>2 DEF Chosen, AsPushed, Undecided
  <2>5. goal' \in Nat
    BY <1>1, <1>2, GoalsAreNat
  <2>6. Cardinality({t \in Middling : stage[t] \in Taken})' = 0
    BY <1>1, <2>2, <2>3, FS_EmptySet
  <2>7. Cardinality(Promoted') = 0
    BY <2>2, <2>4, FS_EmptySet
  <2>8. (IF current < goal THEN current ELSE goal)' = 0
    BY <1>1, <2>5
  <2> QED
    BY <1>1, <2>6, <2>7, <2>8 DEF QuotaCounts
<1> QED
  BY <1>5, <1>6, <1>7, <1>8, <1>9, <1>10

(***************************************************************************)
(* The task that wait_group has come to, and what it decides on it.        *)
(***************************************************************************)
LEMMA TaskTaken ==
  ASSUME TypeOK, Structure, Chosen, SkipTask \/ DispatchTask
  PROVE  /\ mainPc = "select" /\ mainPc \in InWait
         /\ mainPc' \in {"select", "count"}
         /\ cur \in Groups /\ sig \in Levels /\ Here \in Tasks
         /\ my_group[Here] = cur /\ stage[Here] = "pending"
         /\ significance[Here] = sig
         /\ \A l \in Levels : InBucket(Here, l) <=> l = sig
         /\ significance' = [significance EXCEPT ![Here] = Decision(Here)]
         /\ stage'[Here] = IF SkipTask THEN "skipped" ELSE "queued"
         /\ \A t \in Tasks \ {Here} : /\ stage'[t] = stage[t]
                                      /\ significance'[t] = significance[t]
         /\ significance'[Here] = Decision(Here)
         /\ current' = IF Undecided(sig) THEN current + 1 ELSE current
         /\ UNCHANGED <<cur, goal, ratio, versions, my_group, pending_q,
                        total, total_sig_tasks, total_non_sig_tasks>>
         /\ \A g : Members(g)' = Members(g)
<1>1. /\ mainPc = "select" /\ i <= Len(pending_q[cur][sig])
      /\ mainPc' \in {"select", "count"}
      /\ Decide(Here)
      /\ stage' = [stage EXCEPT ![Here] =
                     IF mainPc' = "count" THEN "queued" ELSE "skipped"]
      /\ mainPc' = "count" <=> ~ SkipTask
      /\ UNCHANGED <<cur, goal, ratio, versions, my_group, pending_q,
                     total, total_sig_tasks, total_non_sig_tasks>>
  BY DEF SkipTask, DispatchTask, Deal, AtTask, counts, buckets
<1>2. /\ stage \in [Tasks -> Stages]
      /\ significance \in [Tasks -> Levels]
  BY DEF TypeOK, TaskType, HistoryType
<1>3. /\ cur \in Groups /\ sig \in Levels /\ Here \in Tasks
      /\ my_group[Here] = cur
      /\ \A l \in Levels : InBucket(Here, l) <=> l = sig
  BY <1>1, HereType, HereBucket DEF Dealing
<1>4. stage[Here] = "pending"
  BY <1>1, HereType DEF Structure, CursorHolds, Ahead, Dealing, Here
<1>5. significance[Here] = sig
  BY <1>3, <1>4 DEF Chosen, AsPushed
<1>6. /\ significance' = [significance EXCEPT ![Here] = Decision(Here)]
      /\ current' = IF Undecided(sig) THEN current + 1 ELSE current
  BY <1>1, <1>5 DEF Decide
<1>7. /\ stage'[Here] = IF SkipTask THEN "skipped" ELSE "queued"
      /\ \A t \in Tasks \ {Here} : /\ stage'[t] = stage[t]
                                   /\ significance'[t] = significance[t]
      /\ significance'[Here] = Decision(Here)
  BY <1>1, <1>2, <1>3, <1>6
<1> QED
  BY <1>1, <1>3, <1>4, <1>5, <1>6, <1>7 DEF InWait, Members

\* A task is made significant while there is quota left.
LEMMA QuotaTaken ==
  ASSUME TypeOK, Structure, Ordered, Chosen, Tallied, SkipTask \/ DispatchTask
  PROVE  QuotaCounts'
<1>1. /\ current \in Nat /\ goal \in Nat
      /\ cur # NULL
  BY TaskTaken DEF TypeOK, MainType
<1>2. /\ current = Cardinality({t \in Middling : stage[t] \in Taken})
      /\ Cardinality(Promoted) = IF current < goal THEN current ELSE goal
  BY TaskTaken DEF Tallied, QuotaCounts
<1>3. Bucket(Here) = sig
  BY TaskTaken DEF Bucket
<1>4. /\ Middling' = Middling
      /\ Here \in Middling <=> Undecided(sig)
      /\ Middling \subseteq Tasks /\ Promoted \subseteq Tasks
      /\ {t \in Middling : stage[t] \in Taken} \subseteq Tasks
  <2>1. \A t : Bucket(t)' = Bucket(t)
    BY TaskTaken, SameBucket
  <2>2. Middling' = Middling
    BY TaskTaken, <2>1 DEF Middling
  <2>3. Here \in Middling <=> Undecided(sig)
    BY TaskTaken, <1>3 DEF Middling, Members
  <2> QED
    BY <2>2, <2>3 DEF Middling, Promoted, Members
<1>5. /\ Here \notin {t \in Middling : stage[t] \in Taken}
      /\ stage'[Here] \in Taken
  BY TaskTaken DEF Taken
<1>6. CASE Undecided(sig)
  <2>1. {t \in Middling : stage[t] \in Taken}'
          = {t \in Middling : stage[t] \in Taken} \cup {Here}
    BY TaskTaken, <1>4, <1>5, <1>6
  <2>2. Cardinality({t \in Middling : stage[t] \in Taken}') = current + 1
    BY <1>2, <1>4, <1>5, <2>1, TaskSets, OneMore
  <2>3. Here \notin Promoted
    BY TaskTaken, <1>6 DEF Promoted, Undecided
  <2>4. CASE current < goal
    <3>1. Decision(Here) = SIGNIFICANT
      BY TaskTaken, <1>6, <2>4 DEF Decision, DecisionBy
    <3>2. Promoted' = Promoted \cup {Here}
      BY TaskTaken, <1>4, <1>6, <3>1 DEF Promoted
    <3>3. Cardinality(Promoted') = current + 1
      BY <1>2, <1>4, <2>3, <2>4, <3>2, TaskSets, OneMore
    <3>4. (IF current < goal THEN current ELSE goal)' = current + 1
      BY TaskTaken, <1>1, <1>6, <2>4
    <3>5. current' = current + 1
      BY TaskTaken, <1>6
    <3> QED
      BY <2>2, <3>3, <3>4, <3>5 DEF QuotaCounts
  <2>5. CASE ~ (current < goal)
    <3>1. Decision(Here) # SIGNIFICANT
      BY TaskTaken, <1>6, <2>5 DEF Decision, DecisionBy, NON_SIGNIFICANT
    <3>2. Promoted' = Promoted
      BY TaskTaken, <1>4, <2>3, <3>1 DEF Promoted
    <3>3. (IF current < goal THEN current ELSE goal)' = goal
      BY TaskTaken, <1>1, <1>6, <2>5
    <3>4. current' = current + 1
      BY TaskTaken, <1>6
    <3> QED
      BY <1>2, <2>2, <2>5, <3>2, <3>3, <3>4 DEF QuotaCounts
  <2> QED
    BY <2>4, <2>5
<1>7. CASE ~ Undecided(sig)
  <2>1. {t \in Middling : stage[t] \in Taken}'
          = {t \in Middling : stage[t] \in Taken}
    BY TaskTaken, <1>4, <1>7
  <2>2. Promoted' = Promoted
    BY TaskTaken, <1>4, <1>7 DEF Promoted
  <2>3. current' = current /\ goal' = goal
    BY TaskTaken, <1>7
  <2> QED
    BY <1>2, <2>1, <2>2, <2>3 DEF QuotaCounts
<1> QED
  BY <1>6, <1>7

\* The next worker, in a round that does not leave one out.
LEMMA NextInRound ==
  ASSUME worker \in Workers
  PROVE  NextWorker = IF worker + 1 = NumWorkers THEN 0 ELSE worker + 1
<1>1. \A a \in 0 .. NumWorkers - 1 : a % NumWorkers = a
  OBVIOUS
<1>2. NumWorkers % NumWorkers = 0
  OBVIOUS
<1>3. /\ worker \in Nat /\ worker < NumWorkers /\ NumWorkers \in Nat
  BY DEF Workers
<1>4. CASE worker + 1 = NumWorkers
  BY <1>2, <1>4 DEF NextWorker
<1>5. CASE worker + 1 # NumWorkers
  <2>1. worker + 1 \in 0 .. NumWorkers - 1
    BY <1>3, <1>5
  <2> QED
    BY <1>1, <1>5, <2>1 DEF NextWorker
<1> QED
  BY <1>4, <1>5

\* The task goes to the worker that comes next, which is one behind.
LEMMA RoundTaken ==
  ASSUME TypeOK, Structure, Chosen, Tallied, DispatchTask
  PROVE  RoundRobin'
<1>0. PICK v \in Workers : v = NextWorker
  BY NextWorkerType DEF TypeOK, MainType
<1>1. /\ placed' = [placed EXCEPT ![Here] = v]
      /\ worker' = v
      /\ placed \in [Tasks -> Workers \cup {NULL}]
      /\ worker \in Workers
  BY <1>0 DEF DispatchTask, Deal, TypeOK, HistoryType, MainType
<1>2. placed[Here] = NULL
  BY TaskTaken DEF Tallied, Unplaced, Dispatched
<1>3. v = IF worker + 1 = NumWorkers THEN 0 ELSE worker + 1
  BY <1>0, <1>1, NextInRound
<1>4. PICK n \in 0 .. MaxTasks : \A w \in Workers :
         Cardinality(Dealt(w)) = IF w \in 1 .. worker THEN n + 1 ELSE n
  BY TaskTaken DEF Tallied, RoundRobin
<1>5. /\ Here \notin Dealt(v)
      /\ Dealt(v)' = Dealt(v) \cup {Here}
  BY TaskTaken, <1>1, <1>2, <1>3 DEF Dealt, Members
<1>6. \A w \in Workers : w # v => Dealt(w)' = Dealt(w)
  BY TaskTaken, <1>1, <1>2 DEF Dealt, Members
<1>7. /\ Cardinality(Dealt(v)') = Cardinality(Dealt(v)) + 1
      /\ Cardinality(Dealt(v)') \in 0 .. MaxTasks
  BY <1>5, TaskSets, OneMore DEF Dealt, Members
<1>8. CASE worker + 1 = NumWorkers
  <2>1. n + 1 \in 0 .. MaxTasks
    BY <1>4, <1>7, <1>3, <1>8
  <2>2. ASSUME NEW w \in Workers
        PROVE  Cardinality(Dealt(w)')
                 = IF w \in 1 .. worker' THEN (n + 1) + 1 ELSE n + 1
    <3>1. CASE w = v
      BY <1>1, <1>4, <1>7, <1>3, <1>8, <3>1
    <3>2. CASE w # v
      <4>1. w \in 1 .. worker /\ w \notin 1 .. worker'
        BY <1>1, <1>3, <1>8, <3>2 DEF Workers
      <4> QED
        BY <1>4, <1>6, <3>2, <4>1
    <3> QED
      BY <3>1, <3>2
  <2> QED
    BY <2>1, <2>2 DEF RoundRobin
<1>9. CASE worker + 1 # NumWorkers
  <2>1. ASSUME NEW w \in Workers
        PROVE  Cardinality(Dealt(w)')
                 = IF w \in 1 .. worker' THEN n + 1 ELSE n
    <3>1. CASE w = v
      <4>1. w \notin 1 .. worker /\ w \in 1 .. worker'
        BY <1>1, <1>3, <1>9, <3>1 DEF Workers
      <4> QED
        BY <1>4, <1>7, <3>1, <4>1
    <3>2. CASE w # v
      <4>1. w \in 1 .. worker <=> w \in 1 .. worker'
        BY <1>1, <1>3, <1>9, <3>2 DEF Workers
      <4> QED
        BY <1>4, <1>6, <3>2, <4>1
    <3> QED
      BY <3>1, <3>2
  <2> QED
    BY <2>1 DEF RoundRobin
<1> QED
  BY <1>8, <1>9

\* A task that is taken is dispatched before it is counted.
LEMMA TakenTallies ==
  ASSUME TypeOK, Structure, Ordered, Chosen, Tallied, SkipTask \/ DispatchTask
  PROVE  Tallied'
<1> USE DEF Tallied
<1>1. QuotaCounts'
  BY QuotaTaken
<1>2. GoalAsked' /\ TotalCounts'
  BY TaskTaken DEF GoalAsked, TotalCounts
<1>3. AllTaken'
  BY TaskTaken DEF AllTaken, DealtOut
<1>4. Decided'
  <2>1. /\ Decision(Here) \in {NON_SIGNIFICANT, SIGNIFICANT}
        /\ ~ SkipTask => \/ Decision(Here) = SIGNIFICANT
                         \/ "approx" \in versions[Here]
    <3>1. Decision(Here) \in {NON_SIGNIFICANT, SIGNIFICANT}
      BY TaskTaken DEF Decision, DecisionBy, Undecided
    <3> QED
      BY <3>1 DEF DispatchTask, Deal, Droppable
  <2>2. "skipped" \notin Dispatched
    BY DEF Dispatched
  <2> QED
    BY TaskTaken, <2>1, <2>2 DEF Decided
<1>5. RoundRobin' /\ Unplaced'
  <2>1. CASE SkipTask
    <3>1. UNCHANGED <<placed, worker>>
      BY <2>1 DEF SkipTask
    <3>2. \A t \in Tasks : stage'[t] \notin Dispatched
                             => stage[t] \notin Dispatched
      BY TaskTaken DEF Dispatched
    <3>3. \A w : Dealt(w)' = Dealt(w)
      BY TaskTaken, <3>1 DEF Dealt
    <3> QED
      BY TaskTaken, <3>1, <3>2, <3>3 DEF RoundRobin, Unplaced
  <2>2. CASE DispatchTask
    <3>1. placed' = [placed EXCEPT ![Here] = NextWorker]
      BY <2>2 DEF DispatchTask, Deal
    <3>2. ~ SkipTask /\ stage'[Here] \in Dispatched
      BY TaskTaken, <2>2 DEF Dispatched, DispatchTask, Deal, SkipTask
    <3>3. placed \in [Tasks -> Workers \cup {NULL}]
      BY DEF TypeOK, HistoryType
    <3>4. Unplaced'
      BY TaskTaken, <3>1, <3>2, <3>3 DEF Unplaced
    <3> QED
      BY <2>2, <3>4, RoundTaken
  <2> QED
    BY <2>1, <2>2
<1>6. StatsCount'
  <2>1. Uncounted = {} /\ Uncounted' = IF SkipTask THEN {} ELSE {Here}
    <3>1. SkipTask => mainPc' = "select"
      BY TaskTaken DEF SkipTask
    <3>2. ~ SkipTask => mainPc' = "count" /\ Here' = Here
      BY DEF DispatchTask, Deal, Here, buckets
    <3> QED
      BY TaskTaken, <3>1, <3>2 DEF Uncounted
  <2>2. ASSUME NEW g \in Groups
        PROVE  /\ CountedOf(g)' = CountedOf(g)
               /\ \A t \in CountedOf(g) : t \in Tasks \ {Here}
    BY TaskTaken, <2>1 DEF CountedOf, Members, Dispatched
  <2>3. ASSUME NEW g \in Groups
        PROVE  /\ {t \in CountedOf(g) : significance[t] = SIGNIFICANT}'
                    = {t \in CountedOf(g) : significance[t] = SIGNIFICANT}
               /\ {t \in CountedOf(g) : significance[t] # SIGNIFICANT}'
                    = {t \in CountedOf(g) : significance[t] # SIGNIFICANT}
    BY TaskTaken, <2>2
  <2> QED
    BY TaskTaken, <2>3 DEF StatsCount
<1> QED
  BY <1>1, <1>2, <1>3, <1>4, <1>5, <1>6

\* CountTask counts the task that was dispatched last.
LEMMA CountTallies ==
  ASSUME TypeOK, Structure, Tallied, CountTask
  PROVE  Tallied'
<1> USE DEF Tallied
<1>1. /\ mainPc = "count" /\ mainPc' = "select"
      /\ UNCHANGED <<cur, goal, current, worker, ratio, my_group, pending_q,
                     total, significance, versions, stage, placed>>
      /\ IF significance[Here] = SIGNIFICANT
         THEN /\ total_sig_tasks' =
                   [total_sig_tasks EXCEPT ![cur] = Increment(@)]
              /\ UNCHANGED total_non_sig_tasks
         ELSE /\ total_non_sig_tasks' =
                   [total_non_sig_tasks EXCEPT ![cur] = Increment(@)]
              /\ UNCHANGED total_sig_tasks
  BY DEF CountTask, Count, tasks, buckets, history
<1>2. /\ cur \in Groups /\ Here \in Tasks /\ my_group[Here] = cur
      /\ stage[Here] \in Out
      /\ total_sig_tasks \in [Groups -> 0 .. UINT_MAX]
      /\ total_non_sig_tasks \in [Groups -> 0 .. UINT_MAX]
  BY <1>1, HereType, HereBucket DEF Structure, CursorHolds, Dealing, TypeOK,
                                    GroupType
<1>3. /\ \A g : Members(g)' = Members(g)
      /\ \A t : Bucket(t)' = Bucket(t)
      /\ mainPc \in InWait
  BY <1>1, SameBucket DEF Members, InWait
<1>4. Decided' /\ Unplaced' /\ TotalCounts' /\ GoalAsked'
  BY <1>1, <1>3 DEF Decided, Unplaced, TotalCounts, GoalAsked
<1>5. AllTaken'
  BY <1>1 DEF AllTaken, DealtOut
<1>6. RoundRobin'
  BY <1>1, <1>3 DEF RoundRobin, Dealt
<1>7. QuotaCounts'
  <2>1. Middling' = Middling /\ Promoted' = Promoted
    BY <1>1, <1>3 DEF Middling, Promoted
  <2>2. {t \in Middling : stage[t] \in Taken}'
          = {t \in Middling : stage[t] \in Taken}
    BY <1>1, <2>1
  <2> QED
    BY <1>1, <1>3, <2>1, <2>2 DEF QuotaCounts
<1>8. StatsCount'
  <2>1. Uncounted = {Here} /\ Uncounted' = {}
    BY <1>1 DEF Uncounted
  <2>2. /\ Here \notin CountedOf(cur)
        /\ CountedOf(cur)' = CountedOf(cur) \cup {Here}
        /\ \A g \in Groups \ {cur} : CountedOf(g)' = CountedOf(g)
        /\ \A g : CountedOf(g) \subseteq Tasks
        /\ \A g : CountedOf(g)' \subseteq Tasks
    BY <1>1, <1>2, <1>3, <2>1 DEF CountedOf, Members, Dispatched, Out
  <2> DEFINE Sig(T) == {t \in T : significance[t] = SIGNIFICANT}
             Non(T) == {t \in T : significance[t] # SIGNIFICANT}
             C == CountedOf(cur)
  <2>3. \A n \in 0 .. MaxTasks : n # MaxTasks => Increment(n) = n + 1
    BY DEF Increment
  <2>4. ASSUME NEW S \in SUBSET Tasks, Here \notin S
        PROVE  /\ Cardinality(S \cup {Here}) = Cardinality(S) + 1
               /\ Increment(Cardinality(S)) = Cardinality(S) + 1
    <3>1. /\ Cardinality(S) \in 0 .. MaxTasks
          /\ Cardinality(S \cup {Here}) \in 0 .. MaxTasks
          /\ Cardinality(S \cup {Here}) = Cardinality(S) + 1
      BY <1>2, <2>4, TaskSets, OneMore
    <3> QED
      BY <2>3, <3>1
  <2>5. /\ total_sig_tasks[cur] = Cardinality(Sig(C))
        /\ total_non_sig_tasks[cur] = Cardinality(Non(C))
    BY <1>2 DEF StatsCount
  <2>6. ASSUME NEW g \in Groups \ {cur}
        PROVE  /\ total_sig_tasks'[g] = Cardinality(Sig(CountedOf(g)'))
               /\ total_non_sig_tasks'[g] = Cardinality(Non(CountedOf(g)'))
    BY <1>1, <1>2, <2>2 DEF StatsCount
  <2>7. /\ total_sig_tasks'[cur] = Cardinality(Sig(CountedOf(cur)'))
        /\ total_non_sig_tasks'[cur] = Cardinality(Non(CountedOf(cur)'))
    <3>1. CASE significance[Here] = SIGNIFICANT
      <4>1. /\ Sig(CountedOf(cur)') = Sig(C) \cup {Here}
            /\ Non(CountedOf(cur)') = Non(C)
            /\ Sig(C) \in SUBSET Tasks /\ Here \notin Sig(C)
        BY <2>2, <3>1
      <4>2. /\ total_sig_tasks'[cur] = Increment(total_sig_tasks[cur])
            /\ total_non_sig_tasks'[cur] = total_non_sig_tasks[cur]
        BY <1>1, <1>2, <3>1
      <4> HIDE DEF Sig, Non, C
      <4> QED
        BY <2>4, <2>5, <4>1, <4>2
    <3>2. CASE significance[Here] # SIGNIFICANT
      <4>1. /\ Non(CountedOf(cur)') = Non(C) \cup {Here}
            /\ Sig(CountedOf(cur)') = Sig(C)
            /\ Non(C) \in SUBSET Tasks /\ Here \notin Non(C)
        BY <2>2, <3>2
      <4>2. /\ total_non_sig_tasks'[cur] =
                 Increment(total_non_sig_tasks[cur])
            /\ total_sig_tasks'[cur] = total_sig_tasks[cur]
        BY <1>1, <1>2, <3>2
      <4> HIDE DEF Sig, Non, C
      <4> QED
        BY <2>4, <2>5, <4>1, <4>2
    <3> QED
      BY <3>1, <3>2
  <2>8. \A g \in Groups :
           /\ Sig(CountedOf(g))' = Sig(CountedOf(g)')
           /\ Non(CountedOf(g))' = Non(CountedOf(g)')
    BY <1>1
  <2> QED
    BY <1>1, <2>6, <2>7, <2>8 DEF StatsCount
<1> QED
  BY <1>4, <1>5, <1>6, <1>7, <1>8

(***************************************************************************)
(* Tallied is inductive.                                                   *)
(***************************************************************************)
LEMMA NextTallied ==
  ASSUME TypeOK, Structure, Ordered, Chosen, Tallied, [Next]_vars
  PROVE  Tallied'
<1>1. CASE UNCHANGED vars
  <2>1. UNCHANGED <<my_group, pending_q, placed, total, total_sig_tasks,
                    total_non_sig_tasks, significance, versions, stage,
                    mainPc, cur, sig, i, goal, current, worker, ratio>>
    BY <1>1 DEF vars, locals, tasks, buckets, counts, history
  <2>2. Uncounted' = Uncounted /\ (DealtOut' => DealtOut)
    BY <2>1 DEF Uncounted, Here, DealtOut
  <2> QED
    BY <2>1, <2>2, TallyFrame
<1> QED
  BY <1>1, ApplicationTallies, CallTallies, LockTallies, TakenTallies,
     CountTallies, WorkerTallies
  DEF Next, Call

LEMMA InitTallied == Init => Tallied
<1> SUFFICES ASSUME Init PROVE Tallied
  OBVIOUS
<1>1. \A t \in Tasks : /\ stage[t] = "unborn" /\ placed[t] = NULL
                       /\ my_group[t] = NULL
  BY DEF Init
<1>2. Decided /\ Unplaced
  BY <1>1 DEF Decided, Unplaced, Taken, Dispatched
<1>3. AllTaken /\ RoundRobin /\ GoalAsked /\ QuotaCounts
  BY DEF Init, AllTaken, DealtOut, RoundRobin, GoalAsked, QuotaCounts, InWait
<1>4. \A g \in Groups : Members(g) = {}
  BY <1>1 DEF Members
<1>5. TotalCounts
  BY <1>4, FS_EmptySet DEF TotalCounts, Init
<1>6. StatsCount
  <2> SUFFICES ASSUME NEW g \in Groups
               PROVE  /\ total_sig_tasks[g] = Cardinality(
                           {t \in CountedOf(g) : significance[t] = SIGNIFICANT})
                      /\ total_non_sig_tasks[g] = Cardinality(
                           {t \in CountedOf(g) : significance[t] # SIGNIFICANT})
    BY DEF StatsCount
  <2>1. CountedOf(g) = {}
    BY <1>4 DEF CountedOf
  <2>2. /\ {t \in CountedOf(g) : significance[t] = SIGNIFICANT} = {}
        /\ {t \in CountedOf(g) : significance[t] # SIGNIFICANT} = {}
    BY <2>1
  <2>3. total_sig_tasks[g] = 0 /\ total_non_sig_tasks[g] = 0
    BY DEF Init
  <2> QED
    BY <2>2, <2>3, FS_EmptySet
<1> QED
  BY <1>2, <1>3, <1>5, <1>6 DEF Tallied

\* So what is chosen and counted is as told in every state.
LEMMA InvariantTallied == Spec => [](IInv /\ Ordered /\ Chosen /\ Tallied)
<1>1. IInv /\ Ordered /\ Chosen /\ Tallied /\ [Next]_vars => Tallied'
  BY NextTallied DEF IInv
<1> QED
  BY <1>1, InitTallied, InvariantChosen, PTL DEF Spec

(***************************************************************************)
(* No worker is dealt two tasks more than another in one wait (group.c:155)*)
(***************************************************************************)
THEOREM BalanceCorrect == Spec => []Balanced
<1>1. Tallied => Balanced
  <2> SUFFICES ASSUME Tallied, mainPc \in InWait,
                      NEW v \in Workers, NEW w \in Workers
               PROVE  Cardinality(Dealt(v)) <= Cardinality(Dealt(w)) + 1
    BY DEF Balanced
  <2>1. PICK n \in 0 .. MaxTasks : \A u \in Workers :
           Cardinality(Dealt(u)) = IF u \in 1 .. worker THEN n + 1 ELSE n
    BY DEF Tallied, RoundRobin
  <2> QED
    BY <2>1
<1> QED
  BY <1>1, InvariantTallied, PTL

\* A larger number has the larger multiple.
LEMMA ScaledOrder ==
  ASSUME NEW a \in Int, NEW b \in Int, NEW u \in Nat, a <= b
  PROVE  a * u <= b * u
OBVIOUS

(***************************************************************************)
(* As many tasks as the ratio asks for become significant, of those that   *)
(* left the choice to the runtime; too many only by the rounding of the    *)
(* floats, whatever their precision.                                       *)
(***************************************************************************)
THEOREM QuotaCorrect == Spec => []Quota
<1>1. IInv /\ Tallied => Quota
  <2> SUFFICES ASSUME IInv, Tallied, DealtOut,
                      Cardinality(Members(cur)) <= Full
               PROVE  LET asked == Cardinality(Members(cur)) * ratio[cur]
                          got   == Cardinality(Promoted)
                      IN  /\ got < Cardinality(Middling)
                               => asked < (got + 1) * RatioUnit
                          /\ got > 0
                               => (got * RatioUnit - asked) * Full <= asked
    BY DEF Quota, Full
  <2>1. mainPc \in InWait
    BY DEF DealtOut, InWait
  <2> DEFINE n == Cardinality(Members(cur))
             asked == n * ratio[cur]
             got == Cardinality(Promoted)
  <2>2. /\ Members(cur) \subseteq Tasks
        /\ Middling \subseteq Members(cur) /\ Promoted \subseteq Members(cur)
    BY DEF Members, Middling, Promoted
  <2>3. /\ n \in 0 .. Full /\ got \in Nat /\ Cardinality(Middling) \in Nat
        /\ Cardinality(Middling) <= n
    BY <2>2, TaskSets, FS_Subset, FullFacts
  <2>4. /\ {t \in Middling : stage[t] \in Taken} = Middling
    BY DEF Tallied, AllTaken, Middling
  <2>5. /\ current = Cardinality(Middling)
        /\ got = IF current < goal THEN current ELSE goal
    BY <2>1, <2>4 DEF Tallied, QuotaCounts
  <2>6. /\ cur \in Groups /\ ratio[cur] \in Ratios
        /\ goal \in Goals(n, ratio[cur])
    BY <2>1 DEF Tallied, GoalAsked, TotalCounts, IInv, TypeOK, MainType,
                GroupType
  <2>7. PICK e \in 0 .. LargestExponent - 1 : RatioUnit = 2^e
    BY RatioAssumption
  <2>8. PICK m \in Rounded(n) : \E p \in Rounded(m * ratio[cur]) :
           goal = p \div RatioUnit
    BY <2>6 DEF Goals
  <2>9. ratio[cur] \in 0 .. 2^e
    BY <2>6, <2>7
  <2> HIDE DEF n, asked, got
  <2>10. /\ asked \in Nat /\ goal \in Nat
         /\ goal < n => asked < (goal + 1) * RatioUnit
         /\ (goal * RatioUnit - asked) * Full <= asked
    <3>1. PICK p \in Rounded(m * ratio[cur]) : goal = p \div RatioUnit
      BY <2>8
    <3> QED
      BY <2>3, <2>7, <2>9, <3>1, ShareAsked DEF asked
  <2>11. got < Cardinality(Middling) => asked < (got + 1) * RatioUnit
    BY <2>3, <2>5, <2>10
  <2>12. (got * RatioUnit - asked) * Full <= asked
    <3>1. got <= goal
      BY <2>3, <2>5, <2>10
    <3>2. /\ RatioUnit \in Nat /\ Full \in Nat
      BY FullFacts
    <3>3. got * RatioUnit <= goal * RatioUnit
          /\ got * RatioUnit \in Nat /\ goal * RatioUnit \in Nat
      BY <2>3, <2>10, <3>1, <3>2
    <3>4. (got * RatioUnit - asked) * Full <= (goal * RatioUnit - asked) * Full
      BY <2>10, <3>2, <3>3, ScaledOrder
    <3>5. ASSUME NEW a \in Int, NEW b \in Int, a <= b, b <= asked
          PROVE  a <= asked
      BY <2>10, <3>5
    <3> QED
      BY <2>10, <3>2, <3>3, <3>4, <3>5
  <2> QED
    BY <2>11, <2>12 DEF asked, got, n
<1> QED
  BY <1>1, InvariantTallied, PTL

(***************************************************************************)
(* When wait_group goes on, every task of its group has been executed as   *)
(* its significance calls for, unless pthread_cond_wait returned           *)
(* spuriously.                                                             *)
(***************************************************************************)
THEOREM ServedCorrect ==
  ASSUME ~ SpuriousWakeups
  PROVE  Spec => []Served
<1>1. AllIn /\ Logged /\ Tallied => Served
  <2> SUFFICES ASSUME AllIn, Logged, Tallied, mainPc = "awake",
                      NEW t \in Members(cur)
               PROVE  ran[t] = Due(t)
    BY DEF Served
  <2>1. t \in Tasks
    BY DEF Members
  <2>2. stage[t] \in Taken
    BY DEF Tallied, AllTaken, DealtOut
  <2>3. stage[t] \notin Out
    BY <2>1 DEF AllIn, Counted, OutOf, Uncounted
  <2> QED
    BY <2>1, <2>2, <2>3 DEF Logged, Taken, Out
<1> QED
  BY <1>1, InvariantAllIn, InvariantLogged, InvariantTallied, PTL

(***************************************************************************)
(* The statistics are the numbers of tasks executed exactly and            *)
(* approximately when every task has an exact function, unless             *)
(* pthread_cond_wait returns spuriously.                                   *)
(***************************************************************************)
THEOREM StatisticsCorrect ==
  ASSUME ~ SpuriousWakeups
  PROVE  Spec => []Statistics
<1>1. IInv /\ AllIn /\ Logged /\ Tallied => Statistics
  <2> SUFFICES ASSUME IInv, AllIn, Logged, Tallied, NEW g \in waited,
                      \A t \in Members(g) : "exact" \in versions[t]
               PROVE  /\ total_sig_tasks[g] = Cardinality(RanAs(g, "exact"))
                      /\ total_non_sig_tasks[g] =
                           Cardinality(RanAs(g, "approx"))
    BY DEF Statistics
  <2>1. g \in Groups /\ g # NULL
    BY DEF IInv, TypeOK, HistoryType, GroupType
  <2>2. Rendezvous /\ OutOf(g) = {}
    BY AllInRendezvous, InFlightIsOut DEF IInv, Rendezvous
  <2>3. ASSUME NEW t \in Members(g)
        PROVE  /\ t \in Tasks /\ t \notin Uncounted
               /\ stage[t] \in Dispatched <=> stage[t] = "finished"
    <3>1. t \in Tasks /\ stage[t] \notin Out
      BY <2>2 DEF Members, OutOf
    <3>2. t \notin Uncounted
      BY <3>1 DEF Uncounted, IInv, Structure, CursorHolds
    <3> QED
      BY <3>1, <3>2 DEF Out, Dispatched
  <2>4. CountedOf(g) = {t \in Members(g) : stage[t] = "finished"}
    BY <2>3 DEF CountedOf
  <2>5. ASSUME NEW t \in Members(g)
        PROVE  /\ stage[t] # "finished" => ran[t] = << >>
               /\ stage[t] = "finished" =>
                    /\ significance[t] = SIGNIFICANT => ran[t] = <<"exact">>
                    /\ significance[t] # SIGNIFICANT => ran[t] = <<"approx">>
    <3>1. CASE stage[t] = "finished"
      <4>1. ran[t] = Due(t)
        BY <2>3, <3>1 DEF Logged
      <4>2. \/ significance[t] = SIGNIFICANT
            \/ significance[t] = NON_SIGNIFICANT /\ "approx" \in versions[t]
        BY <2>3, <3>1 DEF Tallied, Decided, Taken, Dispatched
      <4>3. SIGNIFICANT # NON_SIGNIFICANT
        BY DEF NON_SIGNIFICANT
      <4>4. Due(t) = IF significance[t] = SIGNIFICANT THEN <<"exact">>
                     ELSE <<"approx">>
        BY <4>2, <4>3 DEF Due
      <4> QED
        BY <3>1, <4>1, <4>4
    <3>2. CASE stage[t] # "finished"
      <4>1. stage[t] # "held"
        BY <2>2, <2>3 DEF OutOf, Out
      <4> QED
        BY <2>3, <3>2, <4>1 DEF Logged
    <3> QED
      BY <3>1, <3>2
  <2>6. /\ << >> # <<"exact">> /\ << >> # <<"approx">>
        /\ <<"exact">> # <<"approx">>
    OBVIOUS
  <2>7. /\ RanAs(g, "exact")
             = {t \in CountedOf(g) : significance[t] = SIGNIFICANT}
        /\ RanAs(g, "approx")
             = {t \in CountedOf(g) : significance[t] # SIGNIFICANT}
    BY <2>4, <2>5, <2>6 DEF RanAs
  <2> QED
    BY <2>1, <2>7 DEF Tallied, StatsCount
<1> QED
  BY <1>1, InvariantAllIn, InvariantLogged, InvariantTallied, PTL

=============================================================================
