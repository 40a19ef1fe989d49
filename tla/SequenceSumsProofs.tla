------------------------- MODULE SequenceSumsProofs -------------------------
(***************************************************************************)
(* What SequenceSums computes, for sequences of every length.  Induction   *)
(* over the naturals is by least counterexample: LeastElement follows from *)
(* the library's theorems on well-founded relations, which (unlike its     *)
(* induction theorems) take no operator as a parameter.                    *)
(***************************************************************************)
EXTENDS SequenceSums, WellFoundedInduction, TLAPS

\* Every non-empty set of naturals has a least element.
LEMMA LeastElement ==
    ASSUME NEW S \in SUBSET Nat, S # {}
    PROVE  \E k \in S : \A m \in S : k <= m
<1> DEFINE R == OpToRel(<, Nat)
<1>1. IsWellFoundedOn(R, Nat)
  BY NatLessThanWellFounded
<1>2. PICK x \in S : \A y \in S : ~ (<<y, x>> \in R)
  BY <1>1, WFMin
<1>3. \A y \in S : y < x => <<y, x>> \in R
  BY DEF OpToRel
<1> HIDE DEF R
<1>4. \A y \in S : ~ (y < x)
  BY <1>2, <1>3
<1> QED BY <1>4

\* Induction for a set: it holds every natural if it holds 0 and, with a
\* number, the next one.
LEMMA SetInduction ==
    ASSUME NEW P, 0 \in P, \A k \in Nat : k \in P => k + 1 \in P
    PROVE  \A k \in Nat : k \in P
<1> DEFINE Bad == {k \in Nat : k \notin P}
<1>1. SUFFICES ASSUME Bad # {} PROVE FALSE
  OBVIOUS
<1>2. PICK k \in Bad : \A m \in Bad : k <= m
  BY <1>1, LeastElement
<1>3. k \in Nat /\ k # 0 /\ k - 1 \in Nat
  BY <1>2
<1>4. k - 1 \in P
  BY <1>2, <1>3
<1> QED BY <1>2, <1>3, <1>4

\* The recursive definition of the partial sums has a solution.
LEMMA PartialSumsExist ==
    ASSUME NEW s
    PROVE  \A n \in Nat : \E f :
               f = [i \in 0..n |-> IF i = 0 THEN 0 ELSE f[i - 1] + s[i]]
<1> DEFINE P == {n \in Nat : \E f :
                   f = [i \in 0..n |-> IF i = 0 THEN 0 ELSE f[i - 1] + s[i]]}
<1>1. 0 \in P
  <2> DEFINE f == [i \in 0..0 |-> 0]
  <2>1. f = [i \in 0..0 |-> IF i = 0 THEN 0 ELSE f[i - 1] + s[i]]
    OBVIOUS
  <2> QED BY <2>1
<1>2. ASSUME NEW n \in Nat, n \in P PROVE n + 1 \in P
  <2>1. PICK g : g = [i \in 0..n |-> IF i = 0 THEN 0 ELSE g[i - 1] + s[i]]
    BY <1>2
  <2> DEFINE f == [i \in 0..(n + 1) |-> IF i = n + 1 THEN g[n] + s[n + 1] ELSE g[i]]
  <2>2. f = [i \in 0..(n + 1) |-> IF i = 0 THEN 0 ELSE f[i - 1] + s[i]]
    BY <2>1
  <2> HIDE DEF f
  <2>3. \E h : h = [i \in 0..(n + 1) |-> IF i = 0 THEN 0 ELSE h[i - 1] + s[i]]
    BY <2>2
  <2> QED BY <2>3
<1> HIDE DEF P
<1>3. \A n \in Nat : n \in P
  BY <1>1, <1>2, SetInduction
<1> QED BY <1>3 DEF P

\* The defining equation of the partial sums.
LEMMA PartialSumsDef ==
    ASSUME NEW s, NEW n \in Nat
    PROVE  /\ PartialSums(s, n) = [i \in 0..n |->
                 IF i = 0 THEN 0 ELSE PartialSums(s, n)[i - 1] + s[i]]
           /\ PartialSums(s, n)[0] = 0
           /\ \A i \in 1..n : PartialSums(s, n)[i] = PartialSums(s, n)[i - 1] + s[i]
<1>1. \E f : f = [i \in 0..n |-> IF i = 0 THEN 0 ELSE f[i - 1] + s[i]]
  BY PartialSumsExist
<1>2. PartialSums(s, n) = [i \in 0..n |->
                 IF i = 0 THEN 0 ELSE PartialSums(s, n)[i - 1] + s[i]]
  BY <1>1 DEF PartialSums
<1> DEFINE f == PartialSums(s, n)
<1> HIDE DEF f
<1>3. f = [i \in 0..n |-> IF i = 0 THEN 0 ELSE f[i - 1] + s[i]]
  BY <1>2 DEF f
<1>4. f[0] = 0 /\ \A i \in 1..n : f[i] = f[i - 1] + s[i]
  BY <1>3
<1> QED BY <1>2, <1>4 DEF f

\* Partial sums of naturals are naturals.
LEMMA PartialSumsType ==
    ASSUME NEW s, NEW n \in Nat, \A i \in 1..n : s[i] \in Nat
    PROVE  \A i \in 0..n : PartialSums(s, n)[i] \in Nat
<1> DEFINE f == PartialSums(s, n)
           P == {i \in Nat : i <= n => f[i] \in Nat}
<1>1. f[0] = 0 /\ \A i \in 1..n : f[i] = f[i - 1] + s[i]
  BY PartialSumsDef
<1> HIDE DEF f
<1>2. 0 \in P
  BY <1>1
<1>3. ASSUME NEW k \in Nat, k \in P PROVE k + 1 \in P
  BY <1>1, <1>3
<1> HIDE DEF P
<1>4. \A i \in Nat : i \in P
  BY <1>2, <1>3, SetInduction
<1> QED BY <1>4 DEF P, f

\* A partial sum only depends on the elements it adds.
LEMMA PartialSumsAgree ==
    ASSUME NEW s, NEW t, NEW m \in Nat, NEW n \in Nat, m <= n,
           \A i \in 1..m : s[i] = t[i]
    PROVE  \A i \in 0..m : PartialSums(s, m)[i] = PartialSums(t, n)[i]
<1> DEFINE f == PartialSums(s, m)
           g == PartialSums(t, n)
           P == {i \in Nat : i <= m => f[i] = g[i]}
<1>1. f[0] = 0 /\ \A i \in 1..m : f[i] = f[i - 1] + s[i]
  BY PartialSumsDef
<1>2. g[0] = 0 /\ \A i \in 1..n : g[i] = g[i - 1] + t[i]
  BY PartialSumsDef
<1> HIDE DEF f, g
<1>3. 0 \in P
  BY <1>1, <1>2
<1>4. ASSUME NEW k \in Nat, k \in P PROVE k + 1 \in P
  BY <1>1, <1>2, <1>4
<1> HIDE DEF P
<1>5. \A i \in Nat : i \in P
  BY <1>3, <1>4, SetInduction
<1> QED BY <1>5 DEF P, f, g

\* The sum of a sequence of naturals is a natural.
LEMMA SeqSumType ==
    ASSUME NEW s \in Seq(Nat)
    PROVE  SeqSum(s) \in Nat
BY PartialSumsType DEF SeqSum

\* Partial sums of smaller numbers, one of them smaller by d, are smaller by d
\* from there on.
LEMMA PartialSumsDrop ==
    ASSUME NEW s, NEW t, NEW n \in Nat, NEW j \in 1..n, NEW d \in Nat,
           \A i \in 1..n : s[i] \in Nat /\ t[i] \in Nat /\ s[i] <= t[i],
           s[j] + d <= t[j]
    PROVE  PartialSums(s, n)[n] + d <= PartialSums(t, n)[n]
<1> DEFINE f == PartialSums(s, n)
           g == PartialSums(t, n)
           P == {i \in Nat : i <= n => /\ f[i] <= g[i]
                                       /\ i >= j => f[i] + d <= g[i]}
<1>1. f[0] = 0 /\ \A i \in 1..n : f[i] = f[i - 1] + s[i]
  BY PartialSumsDef
<1>2. g[0] = 0 /\ \A i \in 1..n : g[i] = g[i - 1] + t[i]
  BY PartialSumsDef
<1>3. \A i \in 0..n : f[i] \in Nat
  BY PartialSumsType
<1>4. \A i \in 0..n : g[i] \in Nat
  BY PartialSumsType
<1> HIDE DEF f, g
<1>5. 0 \in P
  BY <1>1, <1>2
<1>6. ASSUME NEW k \in Nat, k \in P PROVE k + 1 \in P
  <2>1. SUFFICES ASSUME k + 1 <= n
                 PROVE  /\ f[k + 1] <= g[k + 1]
                        /\ k + 1 >= j => f[k + 1] + d <= g[k + 1]
    OBVIOUS
  <2>2. k + 1 \in 1..n /\ k \in 0..n
    BY <2>1
  <2>3. /\ f[k + 1] = f[k] + s[k + 1]
        /\ g[k + 1] = g[k] + t[k + 1]
    BY <2>2, <1>1, <1>2
  <2>4. /\ f[k] \in Nat /\ g[k] \in Nat
        /\ s[k + 1] \in Nat /\ t[k + 1] \in Nat /\ s[k + 1] <= t[k + 1]
    BY <2>2, <1>3, <1>4
  <2>5. f[k] <= g[k] /\ (k >= j => f[k] + d <= g[k])
    BY <1>6, <2>1
  <2>6. k >= j \/ k + 1 = j \/ k + 1 < j
    OBVIOUS
  <2> QED BY <2>3, <2>4, <2>5, <2>6
<1> HIDE DEF P
<1>7. n \in P
  BY <1>5, <1>6, SetInduction
<1> QED BY <1>7 DEF P, f, g

\* A sequence that is pointwise at most another one, and less than it by d at
\* one place, has a sum that is less by d.
LEMMA SeqSumDrop ==
    ASSUME NEW s \in Seq(Nat), NEW t \in Seq(Nat), Len(s) = Len(t),
           \A i \in 1..Len(s) : s[i] <= t[i],
           NEW j \in 1..Len(s), NEW d \in Nat, s[j] + d <= t[j]
    PROVE  SeqSum(s) + d <= SeqSum(t)
<1>1. \A i \in 1..Len(s) : s[i] \in Nat /\ t[i] \in Nat /\ s[i] <= t[i]
  OBVIOUS
<1>2. Len(s) \in Nat
  OBVIOUS
<1> QED BY <1>1, <1>2, PartialSumsDrop DEF SeqSum

\* A sequence that is pointwise at most another one has at most its sum.
LEMMA SeqSumMonotone ==
    ASSUME NEW s \in Seq(Nat), NEW t \in Seq(Nat), Len(s) = Len(t),
           \A i \in 1..Len(s) : s[i] <= t[i]
    PROVE  SeqSum(s) <= SeqSum(t)
<1>1. CASE Len(s) = 0
  <2>1. PartialSums(s, 0)[0] = 0 /\ PartialSums(t, 0)[0] = 0
    BY PartialSumsDef
  <2> QED BY <1>1, <2>1 DEF SeqSum
<1>2. CASE Len(s) # 0
  <2>1. Len(s) \in 1..Len(s) /\ s[Len(s)] + 0 <= t[Len(s)]
    BY <1>2
  <2>2. SeqSum(s) + 0 <= SeqSum(t)
    BY <2>1, SeqSumDrop
  <2>3. SeqSum(s) \in Nat /\ SeqSum(t) \in Nat
    BY SeqSumType
  <2> QED BY <2>2, <2>3
<1> QED BY <1>1, <1>2

\* The first n numbers of s are at most those of t and u together.
Below(s, t, u, n) ==
    \A i \in 1..n : /\ s[i] \in Nat /\ t[i] \in Nat /\ u[i] \in Nat
                    /\ s[i] <= t[i] + u[i]

\* Numbers that are pointwise at most the sum of two others add up to at most
\* their two sums together.
LEMMA PartialSumsAdd ==
    ASSUME NEW s, NEW t, NEW u, NEW n \in Nat, Below(s, t, u, n)
    PROVE  PartialSums(s, n)[n] <= PartialSums(t, n)[n] + PartialSums(u, n)[n]
<1> DEFINE f == PartialSums(s, n)
           g == PartialSums(t, n)
           h == PartialSums(u, n)
           P == {i \in Nat : i <= n => f[i] <= g[i] + h[i]}
<1>1. \A i \in 1..n : /\ s[i] \in Nat /\ t[i] \in Nat /\ u[i] \in Nat
                      /\ s[i] <= t[i] + u[i]
  BY DEF Below
<1>2. f[0] = 0 /\ \A i \in 1..n : f[i] = f[i - 1] + s[i]
  BY PartialSumsDef
<1>3. g[0] = 0 /\ \A i \in 1..n : g[i] = g[i - 1] + t[i]
  BY PartialSumsDef
<1>4. h[0] = 0 /\ \A i \in 1..n : h[i] = h[i - 1] + u[i]
  BY PartialSumsDef
<1>5. \A i \in 0..n : f[i] \in Nat /\ g[i] \in Nat /\ h[i] \in Nat
  BY <1>1, PartialSumsType
<1> HIDE DEF f, g, h
<1>6. 0 \in P
  BY <1>2, <1>3, <1>4
<1>7. ASSUME NEW k \in Nat, k \in P PROVE k + 1 \in P
  <2>1. SUFFICES ASSUME k + 1 <= n PROVE f[k + 1] <= g[k + 1] + h[k + 1]
    OBVIOUS
  <2>2. k + 1 \in 1..n /\ k \in 0..n
    BY <2>1
  <2>3. /\ f[k + 1] = f[k] + s[k + 1]
        /\ g[k + 1] = g[k] + t[k + 1]
        /\ h[k + 1] = h[k] + u[k + 1]
    BY <2>2, <1>2, <1>3, <1>4
  <2>4. /\ f[k] \in Nat /\ g[k] \in Nat /\ h[k] \in Nat
        /\ s[k + 1] \in Nat /\ t[k + 1] \in Nat /\ u[k + 1] \in Nat
        /\ s[k + 1] <= t[k + 1] + u[k + 1]
    BY <2>2, <1>1, <1>5
  <2>5. f[k] <= g[k] + h[k]
    BY <1>7, <2>1
  <2>6. \A a, b, c, x, y, z \in Nat :
            a <= b + c /\ x <= y + z => a + x <= (b + y) + (c + z)
    OBVIOUS
  <2>7. f[k] + s[k + 1] <= (g[k] + t[k + 1]) + (h[k] + u[k + 1])
    BY <2>4, <2>5, <2>6
  <2> QED BY <2>3, <2>7
<1> HIDE DEF P
<1>8. n \in P
  BY <1>6, <1>7, SetInduction
<1> QED BY <1>8 DEF P, f, g, h

\* The first m + n elements of u are m elements of s and n of t.
Joins(u, s, m, t, n) ==
    /\ \A i \in 1..m : u[i] = s[i] /\ s[i] \in Nat
    /\ \A i \in 1..n : u[m + i] = t[i] /\ t[i] \in Nat

\* Numbers that continue s with t add up to the two sums together.
LEMMA PartialSumsConcat ==
    ASSUME NEW s, NEW t, NEW u, NEW m \in Nat, NEW n \in Nat,
           NEW l \in Nat, l = m + n, Joins(u, s, m, t, n)
    PROVE  PartialSums(u, l)[l] = PartialSums(s, m)[m] + PartialSums(t, n)[n]
<1> DEFINE f == PartialSums(u, l)
           g == PartialSums(t, n)
           a == PartialSums(s, m)[m]
           P == {i \in Nat : i <= n => f[m + i] = a + g[i]}
<1>1. l \in Nat /\ l = m + n /\ m <= l
  OBVIOUS
<1> USE DEF Joins
<1>2. f[0] = 0 /\ \A i \in 1..l : f[i] = f[i - 1] + u[i]
  BY <1>1, PartialSumsDef
<1>3. g[0] = 0 /\ \A i \in 1..n : g[i] = g[i - 1] + t[i]
  BY PartialSumsDef
<1>4. \A i \in 0..n : g[i] \in Nat
  BY PartialSumsType
<1>5. a \in Nat
  BY PartialSumsType
<1>6. f[m] = a
  <2>1. \A i \in 1..m : s[i] = u[i]
    OBVIOUS
  <2>2. \A i \in 0..m : PartialSums(s, m)[i] = PartialSums(u, l)[i]
    BY <1>1, <2>1, PartialSumsAgree
  <2> QED BY <2>2
<1> HIDE DEF f, g, a
<1>7. 0 \in P
  BY <1>3, <1>5, <1>6
<1>8. ASSUME NEW k \in Nat, k \in P PROVE k + 1 \in P
  <2>1. SUFFICES ASSUME k + 1 <= n PROVE f[m + (k + 1)] = a + g[k + 1]
    OBVIOUS
  <2>2. f[m + k] = a + g[k] /\ g[k] \in Nat
    BY <1>8, <2>1, <1>4
  <2>3. m + (k + 1) \in 1..l /\ (m + (k + 1)) - 1 = m + k
    BY <2>1, <1>1
  <2>4. f[m + (k + 1)] = f[m + k] + u[m + (k + 1)]
    BY <2>3, <1>2
  <2>5. u[m + (k + 1)] = t[k + 1] /\ g[k + 1] = g[k] + t[k + 1] /\ t[k + 1] \in Nat
    BY <2>1, <1>3
  <2> QED BY <2>2, <2>4, <2>5, <1>5
<1> HIDE DEF P
<1>9. n \in P
  BY <1>7, <1>8, SetInduction
<1> QED BY <1>9 DEF P, f, g, a

\* The sum of a concatenation.
LEMMA SeqSumConcat ==
    ASSUME NEW s \in Seq(Nat), NEW t \in Seq(Nat)
    PROVE  SeqSum(s \o t) = SeqSum(s) + SeqSum(t)
<1>1. Joins(s \o t, s, Len(s), t, Len(t))
  BY DEF Joins
<1>2. Len(s) \in Nat /\ Len(t) \in Nat /\ Len(s \o t) \in Nat /\ Len(s \o t) = Len(s) + Len(t)
  OBVIOUS
<1> QED BY <1>1, <1>2, PartialSumsConcat DEF SeqSum

\* The sum of a sequence that starts like s and goes on like t.
LEMMA SeqSumJoins ==
    ASSUME NEW s \in Seq(Nat), NEW t \in Seq(Nat), NEW u \in Seq(Nat),
           Len(u) = Len(s) + Len(t), Joins(u, s, Len(s), t, Len(t))
    PROVE  SeqSum(u) = SeqSum(s) + SeqSum(t)
<1>1. Len(s) \in Nat /\ Len(t) \in Nat /\ Len(u) \in Nat
  OBVIOUS
<1> QED BY <1>1, PartialSumsConcat DEF SeqSum

\* The sum of no elements.
LEMMA SeqSumEmpty ==
    ASSUME NEW s \in Seq(Nat), Len(s) = 0
    PROVE  SeqSum(s) = 0
<1>1. PartialSums(s, 0)[0] = 0
  BY PartialSumsDef
<1> QED BY <1>1 DEF SeqSum

\* The sum of one element.
LEMMA SeqSumSingle ==
    ASSUME NEW x \in Nat
    PROVE  SeqSum(<<x>>) = x
<1>1. /\ PartialSums(<<x>>, 1)[0] = 0
      /\ PartialSums(<<x>>, 1)[1] = PartialSums(<<x>>, 1)[0] + <<x>>[1]
  BY PartialSumsDef
<1> QED BY <1>1 DEF SeqSum

\* A sequence of numbers below a bound.
LEMMA SeqSumBound ==
    ASSUME NEW s \in Seq(Nat), NEW b \in Nat, \A i \in 1..Len(s) : s[i] <= b
    PROVE  SeqSum(s) <= Len(s) * b
<1> DEFINE n == Len(s)
           f == PartialSums(s, n)
           P == {i \in Nat : i <= n => f[i] <= i * b}
<1>1. n \in Nat /\ \A i \in 1..n : s[i] \in Nat
  OBVIOUS
<1>2. f[0] = 0 /\ \A i \in 1..n : f[i] = f[i - 1] + s[i]
  BY <1>1, PartialSumsDef
<1>3. \A i \in 0..n : f[i] \in Nat
  BY <1>1, PartialSumsType
<1>4. SeqSum(s) = f[n]
  BY DEF SeqSum
<1> HIDE DEF f, n
<1>5. 0 \in P
  BY <1>2
<1>6. ASSUME NEW k \in Nat, k \in P PROVE k + 1 \in P
  <2>1. SUFFICES ASSUME k + 1 <= n PROVE f[k + 1] <= (k + 1) * b
    OBVIOUS
  <2>2. f[k + 1] = f[k] + s[k + 1] /\ f[k] \in Nat /\ s[k + 1] \in Nat
    BY <2>1, <1>1, <1>2, <1>3
  <2>3. s[k + 1] <= b
    BY <2>1, <1>1 DEF n
  <2>4. f[k] <= k * b
    BY <1>1, <1>6, <2>1
  <2>5. (k + 1) * b = k * b + b /\ k * b \in Nat
    OBVIOUS
  <2> QED BY <2>2, <2>3, <2>4, <2>5
<1> HIDE DEF P
<1>7. n \in P
  BY <1>1, <1>5, <1>6, SetInduction
<1> QED BY <1>7, <1>4, <1>1 DEF P, n
=============================================================================
