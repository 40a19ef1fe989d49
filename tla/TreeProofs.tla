----------------------------- MODULE TreeProofs -----------------------------
(***************************************************************************)
(* The Merkle trees and their hash, for trees of any depth, any number of  *)
(* leaves and rotations, exports and restarts.  Parts, each on the ones    *)
(* before it:                                                              *)
(*   - the full tree: its levels, its empty subtrees, the paths through    *)
(*     it, and that a root determines the leaves;                          *)
(*   - the contract's incremental tree: ContractInv, what can be proved    *)
(*     against its root, and that it implements CommitmentTree;            *)
(*   - the sequencer's mirror: MirrorInv, that its paths lead to its root, *)
(*     and that the contract knows that root if the depths are equal;      *)
(*   - the tree of the SDK, and where it is not the contract's;            *)
(*   - the hash of the contract and the hash of the operator are one, for  *)
(*     every field, diagonal and table of constants.  A layer is compared  *)
(*     with its matrix by congruence modulo P; the rounds by induction     *)
(*     over their number.                                                  *)
(* A recursive definition is a choice of a function that solves it: that   *)
(* there is one is proved by induction over the levels, and what follows   *)
(* is about the equations of its levels.                                   *)
(***************************************************************************)
EXTENDS TreeMirror, Poseidon2, SequenceSumsProofs

-----------------------------------------------------------------------------
\* Powers of two and the indexes of the nodes above a leaf

IsPowers(f, n) == f = [i \in 0..n |-> IF i = 0 THEN 1 ELSE 2 * f[i - 1]]
Powers(n) == CHOOSE f : IsPowers(f, n)

\* The recursive definition of the powers of two has a solution.
LEMMA PowersExist ==
    \A n \in Nat : \E f : IsPowers(f, n)
<1> DEFINE S == {n \in Nat : \E f : IsPowers(f, n)}
<1>1. 0 \in S
  <2> DEFINE f == [i \in 0..0 |-> 1]
  <2>1. IsPowers(f, 0)
    BY DEF IsPowers
  <2> QED BY <2>1
<1>2. ASSUME NEW n \in Nat, n \in S PROVE n + 1 \in S
  <2>1. PICK g : IsPowers(g, n)
    BY <1>2
  <2> DEFINE f == [i \in 0..(n + 1) |-> IF i = n + 1 THEN 2 * g[n] ELSE g[i]]
  <2>2. IsPowers(f, n + 1)
    BY <2>1 DEF IsPowers
  <2> HIDE DEF f
  <2>3. n + 1 \in Nat
    OBVIOUS
  <2> QED BY <2>2, <2>3
<1> HIDE DEF S
<1>3. \A n \in Nat : n \in S
  BY <1>1, <1>2, SetInduction
<1> QED BY <1>3 DEF S

\* The powers of two, by the equations of their definition.
LEMMA PowersDef ==
    ASSUME NEW n \in Nat
    PROVE  /\ Pow2(n) = Powers(n)[n]
           /\ Powers(n)[0] = 1
           /\ \A i \in 1..n : Powers(n)[i] = 2 * Powers(n)[i - 1]
<1>1. \E f : IsPowers(f, n)
  BY PowersExist
<1>2. IsPowers(Powers(n), n)
  BY <1>1 DEF Powers
<1>3. Pow2(n) = Powers(n)[n]
  BY DEF Pow2, Powers, IsPowers
<1> DEFINE f == Powers(n)
<1> HIDE DEF f
<1>4. f = [i \in 0..n |-> IF i = 0 THEN 1 ELSE 2 * f[i - 1]]
  BY <1>2 DEF f, IsPowers
<1>5. f[0] = 1 /\ \A i \in 1..n : f[i] = 2 * f[i - 1]
  BY <1>4
<1> QED BY <1>3, <1>5 DEF f

\* Powers of two: the first, the next, and that they are positive numbers.
LEMMA Pow2Rules ==
    /\ Pow2(0) = 1
    /\ \A n \in Nat : /\ Pow2(n) \in Nat /\ Pow2(n) > 0
                      /\ Pow2(n + 1) = 2 * Pow2(n)
<1>1. Pow2(0) = 1
  BY PowersDef
<1>2. ASSUME NEW n \in Nat PROVE Pow2(n + 1) = 2 * Pow2(n)
  <2> DEFINE f == Powers(n)
             g == Powers(n + 1)
             S == {i \in Nat : i <= n => f[i] = g[i]}
  <2>1. Pow2(n) = f[n] /\ f[0] = 1 /\ \A i \in 1..n : f[i] = 2 * f[i - 1]
    BY PowersDef
  <2>2. n + 1 \in Nat
    OBVIOUS
  <2>3. Pow2(n + 1) = g[n + 1] /\ g[0] = 1 /\ \A i \in 1..(n + 1) : g[i] = 2 * g[i - 1]
    BY <2>2, PowersDef
  <2> HIDE DEF f, g
  <2>4. 0 \in S
    BY <2>1, <2>3
  <2>5. ASSUME NEW k \in Nat, k \in S PROVE k + 1 \in S
    BY <2>1, <2>3, <2>5
  <2> HIDE DEF S
  <2>6. n \in S
    BY <2>4, <2>5, SetInduction
  <2>7. f[n] = g[n]
    BY <2>6 DEF S
  <2>8. n + 1 \in 1..(n + 1) /\ (n + 1) - 1 = n
    OBVIOUS
  <2> QED BY <2>1, <2>3, <2>7, <2>8
<1>3. \A n \in Nat : Pow2(n) \in Nat /\ Pow2(n) > 0
  <2> DEFINE S == {n \in Nat : Pow2(n) \in Nat /\ Pow2(n) > 0}
  <2>1. 0 \in S
    BY <1>1
  <2>2. ASSUME NEW k \in Nat, k \in S PROVE k + 1 \in S
    BY <1>2, <2>2
  <2> HIDE DEF S
  <2>3. \A n \in Nat : n \in S
    BY <2>1, <2>2, SetInduction
  <2> QED BY <2>3 DEF S
<1> QED BY <1>1, <1>2, <1>3

\* The node above leaf i at a level.
Up(i, level) == i \div Pow2(level)

\* Quotients and remainders.
LEMMA Halves ==
    ASSUME NEW i \in Nat
    PROVE  /\ i \div 2 \in Nat /\ i % 2 \in {0, 1}
           /\ i = 2 * (i \div 2) + (i % 2)
<1>1. i \div 2 \in Nat
  OBVIOUS
<1>2. i % 2 \in {0, 1}
  OBVIOUS
<1>3. i = 2 * (i \div 2) + (i % 2)
  OBVIOUS
<1> QED BY <1>1, <1>2, <1>3

\* A quotient is a natural number, 0 below the divisor.
LEMMA Quotient ==
    ASSUME NEW i \in Nat, NEW p \in Nat, p > 0
    PROVE  i \div p \in Nat /\ (i < p => i \div p = 0)
OBVIOUS

\* Half a quotient is the quotient by the double.
LEMMA HalfQuotient ==
    ASSUME NEW i \in Nat, NEW p \in Nat, p > 0
    PROVE  i \div (2 * p) = (i \div p) \div 2
OBVIOUS

\* The node above a leaf one level higher is the parent, at half the index.
LEMMA UpRules ==
    ASSUME NEW i \in Nat
    PROVE  /\ Up(i, 0) = i
           /\ \A d \in Nat : /\ Up(i, d) \in Nat
                             /\ Up(i, d + 1) = Up(i, d) \div 2
<1>1. Up(i, 0) = i
  BY Pow2Rules DEF Up
<1>2. ASSUME NEW d \in Nat PROVE Up(i, d) \in Nat
  BY Pow2Rules, Quotient DEF Up
<1>3. ASSUME NEW d \in Nat PROVE Up(i, d + 1) = Up(i, d) \div 2
  <2>1. Pow2(d) \in Nat /\ Pow2(d) > 0 /\ Pow2(d + 1) = 2 * Pow2(d)
    BY Pow2Rules
  <2> QED BY <2>1, HalfQuotient DEF Up
<1> QED BY <1>1, <1>2, <1>3

\* The index at a level is that of a node of a tree which has the leaf.
LEMMA UpRange ==
    ASSUME NEW depth \in Nat, NEW i \in 0..(Pow2(depth) - 1)
    PROVE  /\ \A d \in 0..depth : Up(i, d) \in 0..(Pow2(depth - d) - 1)
           /\ Up(i, depth) = 0
<1> DEFINE S == {d \in Nat : d <= depth => Up(i, d) \in 0..(Pow2(depth - d) - 1)}
<1>0. i \in Nat /\ Pow2(depth) \in Nat
  BY Pow2Rules
<1>1. 0 \in S
  BY <1>0, UpRules
<1>2. ASSUME NEW d \in Nat, d \in S PROVE d + 1 \in S
  <2>1. SUFFICES ASSUME d + 1 <= depth
                 PROVE  Up(i, d + 1) \in 0..(Pow2(depth - (d + 1)) - 1)
    OBVIOUS
  <2> DEFINE e == depth - (d + 1)
  <2>2. e \in Nat /\ depth - d = e + 1
    BY <2>1
  <2>3. Pow2(e) \in Nat /\ Pow2(depth - d) = 2 * Pow2(e)
    BY <2>2, Pow2Rules
  <2>4. Up(i, d) \in Nat /\ Up(i, d) <= 2 * Pow2(e) - 1
    BY <1>2, <2>1, <2>3
  <2>5. Up(i, d + 1) = Up(i, d) \div 2
    BY <1>0, UpRules
  <2> HIDE DEF e
  <2>6. Up(i, d) \div 2 \in Nat /\ Up(i, d) = 2 * (Up(i, d) \div 2) + (Up(i, d) % 2) /\ Up(i, d) % 2 \in {0, 1}
    BY <2>4, Halves
  <2>7. Up(i, d) \div 2 <= Pow2(e) - 1
    BY <2>3, <2>4, <2>6
  <2> QED BY <2>3, <2>5, <2>6, <2>7 DEF e
<1> HIDE DEF S
<1>3. \A d \in Nat : d \in S
  BY <1>1, <1>2, SetInduction
<1>4. \A d \in 0..depth : Up(i, d) \in 0..(Pow2(depth - d) - 1)
  BY <1>3 DEF S
<1>5. Up(i, depth) \in 0..(Pow2(0) - 1)
  BY <1>4
<1> QED BY <1>4, <1>5, Pow2Rules

\* The nodes above two consecutive leaves are the same or consecutive.
LEMMA UpNext ==
    ASSUME NEW i \in Nat
    PROVE  \A d \in Nat : Up(i + 1, d) \in {Up(i, d), Up(i, d) + 1}
<1> DEFINE S == {d \in Nat : Up(i + 1, d) \in {Up(i, d), Up(i, d) + 1}}
<1>0. i + 1 \in Nat
  OBVIOUS
<1>1. 0 \in S
  BY <1>0, UpRules
<1>2. ASSUME NEW d \in Nat, d \in S PROVE d + 1 \in S
  <2>1. Up(i, d) \in Nat /\ Up(i + 1, d) \in Nat
    BY <1>0, UpRules
  <2>2. Up(i, d + 1) = Up(i, d) \div 2 /\ Up(i + 1, d + 1) = Up(i + 1, d) \div 2
    BY <1>0, UpRules
  <2>3. Up(i + 1, d) \div 2 \in {Up(i, d) \div 2, (Up(i, d) \div 2) + 1}
    BY <1>2, <2>1
  <2> QED BY <2>2, <2>3
<1> HIDE DEF S
<1>3. \A d \in Nat : d \in S
  BY <1>1, <1>2, SetInduction
<1> QED BY <1>3 DEF S

-----------------------------------------------------------------------------
\* The full tree and the hashes of empty subtrees, level by level

LeafAt(lvs, i) == IF i < Len(lvs) THEN lvs[i + 1] ELSE Zero

\* A level of the full tree, from the level below.
LevelOver(below, lvs, depth, d) ==
    [i \in 0..(Pow2(depth - d) - 1) |->
        IF d > 0 THEN Hash(below[2 * i], below[2 * i + 1])
        ELSE IF i < Len(lvs) THEN lvs[i + 1] ELSE Zero]

IsLevels(f, lvs, depth, n) == f = [d \in 0..n |-> LevelOver(f[d - 1], lvs, depth, d)]

\* The lowest level is that of the leaves, whatever is below.
LEMMA LowestLevel ==
    ASSUME NEW lvs, NEW depth, NEW x, NEW y
    PROVE  LevelOver(x, lvs, depth, 0) = LevelOver(y, lvs, depth, 0)
BY DEF LevelOver

\* The recursive definition of the levels has a solution.
LEMMA LevelsExist ==
    ASSUME NEW lvs, NEW depth
    PROVE  \A n \in Nat : \E f : IsLevels(f, lvs, depth, n)
<1> DEFINE S == {n \in Nat : \E f : IsLevels(f, lvs, depth, n)}
<1>1. 0 \in S
  <2> DEFINE f == [d \in 0..0 |-> LevelOver(0, lvs, depth, 0)]
  <2>1. LevelOver(f[0 - 1], lvs, depth, 0) = LevelOver(0, lvs, depth, 0)
    BY LowestLevel
  <2>2. f = [d \in 0..0 |-> LevelOver(f[d - 1], lvs, depth, d)]
    BY <2>1
  <2>3. IsLevels(f, lvs, depth, 0)
    BY <2>2 DEF IsLevels
  <2> QED BY <2>3
<1>2. ASSUME NEW n \in Nat, n \in S PROVE n + 1 \in S
  <2>1. PICK g : IsLevels(g, lvs, depth, n)
    BY <1>2
  <2>2. g = [d \in 0..n |-> LevelOver(g[d - 1], lvs, depth, d)]
    BY <2>1 DEF IsLevels
  <2> DEFINE f == [d \in 0..(n + 1) |-> IF d = n + 1 THEN LevelOver(g[n], lvs, depth, n + 1)
                                        ELSE g[d]]
  <2>3. LevelOver(f[0 - 1], lvs, depth, 0) = LevelOver(g[0 - 1], lvs, depth, 0)
    BY LowestLevel
  <2>4. ASSUME NEW d \in 0..(n + 1) PROVE f[d] = LevelOver(f[d - 1], lvs, depth, d)
    <3>1. CASE d = 0
      BY <3>1, <2>2, <2>3
    <3>2. CASE d # 0 /\ d # n + 1
      <4>1. d \in 0..n /\ d - 1 \in 0..(n + 1) /\ d - 1 # n + 1
        BY <3>2
      <4>2. f[d] = g[d] /\ f[d - 1] = g[d - 1]
        BY <4>1
      <4>3. g[d] = LevelOver(g[d - 1], lvs, depth, d)
        BY <4>1, <2>2
      <4> QED BY <4>2, <4>3
    <3>3. CASE d = n + 1
      <4>1. f[d - 1] = g[n] /\ f[d] = LevelOver(g[n], lvs, depth, n + 1)
        BY <3>3
      <4> QED BY <4>1, <3>3
    <3> QED BY <3>1, <3>2, <3>3
  <2>5. IsLevels(f, lvs, depth, n + 1)
    BY <2>4 DEF IsLevels
  <2> HIDE DEF f
  <2>6. n + 1 \in Nat
    OBVIOUS
  <2> QED BY <2>5, <2>6
<1> HIDE DEF S
<1>3. \A n \in Nat : n \in S
  BY <1>1, <1>2, SetInduction
<1> QED BY <1>3 DEF S

\* The full tree solves its recursive definition.
LEMMA FullTreeLevels ==
    ASSUME NEW lvs, NEW depth \in Nat
    PROVE  IsLevels(FullTree(lvs, depth), lvs, depth, depth)
<1>1. \E f : IsLevels(f, lvs, depth, depth)
  BY LevelsExist
<1>2. FullTree(lvs, depth) = CHOOSE f : IsLevels(f, lvs, depth, depth)
  BY DEF FullTree, IsLevels, LevelOver
<1> QED BY <1>1, <1>2

\* Node i of a level of the full tree over lvs.
At(lvs, depth, d, i) == FullTree(lvs, depth)[d][i]

\* A tree of a depth has a node i at level d.
Has(depth, d, i) == d \in 0..depth /\ i \in 0..(Pow2(depth - d) - 1)

\* The children of a node are nodes.
LEMMA HasChildren ==
    ASSUME NEW depth \in Nat, NEW d \in Nat, NEW i, Has(depth, d + 1, i)
    PROVE  /\ i \in Nat /\ 2 * i \in Nat /\ 2 * i + 1 \in Nat
           /\ Has(depth, d, 2 * i)
           /\ Has(depth, d, 2 * i + 1)
<1> DEFINE e == depth - (d + 1)
<1>1. e \in Nat /\ depth - d = e + 1 /\ d \in 0..depth /\ i \in 0..(Pow2(e) - 1)
  BY DEF Has
<1>2. Pow2(e) \in Nat /\ Pow2(depth - d) = 2 * Pow2(e)
  BY <1>1, Pow2Rules
<1> HIDE DEF e
<1>3. i \in Nat /\ i + 1 <= Pow2(e)
  BY <1>1, <1>2
<1>4. 2 * i \in 0..(2 * Pow2(e) - 1) /\ 2 * i + 1 \in 0..(2 * Pow2(e) - 1)
  BY <1>2, <1>3
<1> QED BY <1>1, <1>2, <1>3, <1>4 DEF Has

\* What the nodes of the full tree are.
LEMMA TreeRules ==
    ASSUME NEW lvs, NEW depth \in Nat
    PROVE  /\ \A i : Has(depth, 0, i) => At(lvs, depth, 0, i) = LeafAt(lvs, i)
           /\ \A d \in Nat : \A i : Has(depth, d + 1, i) =>
                At(lvs, depth, d + 1, i) =
                  Hash(At(lvs, depth, d, 2 * i), At(lvs, depth, d, 2 * i + 1))
           /\ FullRoot(lvs, depth) = At(lvs, depth, depth, 0)
           /\ \A d \in 0..depth : \A i : i \in DOMAIN FullTree(lvs, depth)[d] <=> Has(depth, d, i)
<1> DEFINE f == FullTree(lvs, depth)
<1>1. f = [d \in 0..depth |-> LevelOver(f[d - 1], lvs, depth, d)]
  BY FullTreeLevels DEF IsLevels
<1>2. FullRoot(lvs, depth) = At(lvs, depth, depth, 0)
  BY DEF FullRoot, At
<1>3. \A d, i : At(lvs, depth, d, i) = f[d][i]
  BY DEF At
<1> HIDE DEF f
<1>4. ASSUME NEW i, Has(depth, 0, i) PROVE At(lvs, depth, 0, i) = LeafAt(lvs, i)
  <2>1. 0 \in 0..depth /\ i \in 0..(Pow2(depth - 0) - 1)
    BY <1>4 DEF Has
  <2>2. f[0] = LevelOver(f[0 - 1], lvs, depth, 0)
    BY <1>1, <2>1
  <2>3. f[0][i] = LeafAt(lvs, i)
    BY <2>1, <2>2 DEF LevelOver, LeafAt
  <2> QED BY <2>3, <1>3
<1>5. ASSUME NEW d \in Nat, NEW i, Has(depth, d + 1, i)
      PROVE  At(lvs, depth, d + 1, i) = Hash(At(lvs, depth, d, 2 * i), At(lvs, depth, d, 2 * i + 1))
  <2>1. d + 1 \in 0..depth /\ i \in 0..(Pow2(depth - (d + 1)) - 1) /\ d + 1 > 0 /\ (d + 1) - 1 = d
    BY <1>5 DEF Has
  <2>2. f[d + 1] = LevelOver(f[(d + 1) - 1], lvs, depth, d + 1)
    BY <1>1, <2>1
  <2>3. f[d + 1] = LevelOver(f[d], lvs, depth, d + 1)
    BY <2>1, <2>2
  <2>4. f[d + 1][i] = Hash(f[d][2 * i], f[d][2 * i + 1])
    BY <2>1, <2>3 DEF LevelOver
  <2> QED BY <2>4, <1>3
<1>6. ASSUME NEW d \in 0..depth
      PROVE  \A i : i \in DOMAIN f[d] <=> Has(depth, d, i)
  <2>1. f[d] = LevelOver(f[d - 1], lvs, depth, d)
    BY <1>1
  <2>2. DOMAIN f[d] = 0..(Pow2(depth - d) - 1)
    BY <2>1 DEF LevelOver
  <2> QED BY <2>2 DEF Has
<1> QED BY <1>2, <1>4, <1>5, <1>6 DEF f

IsZeros(f, n) == f = [i \in 0..n |-> IF i = 0 THEN Zero ELSE Hash(f[i - 1], f[i - 1])]

\* The recursive definition of the hashes of empty subtrees has a solution.
LEMMA ZerosExist ==
    \A n \in Nat : \E f : IsZeros(f, n)
<1> DEFINE S == {n \in Nat : \E f : IsZeros(f, n)}
<1>1. 0 \in S
  <2> DEFINE f == [i \in 0..0 |-> Zero]
  <2>1. IsZeros(f, 0)
    BY DEF IsZeros
  <2> QED BY <2>1
<1>2. ASSUME NEW n \in Nat, n \in S PROVE n + 1 \in S
  <2>1. PICK g : IsZeros(g, n)
    BY <1>2
  <2> DEFINE f == [i \in 0..(n + 1) |-> IF i = n + 1 THEN Hash(g[n], g[n]) ELSE g[i]]
  <2>2. g = [i \in 0..n |-> IF i = 0 THEN Zero ELSE Hash(g[i - 1], g[i - 1])]
    BY <2>1 DEF IsZeros
  <2>3. ASSUME NEW i \in 0..(n + 1)
        PROVE  f[i] = IF i = 0 THEN Zero ELSE Hash(f[i - 1], f[i - 1])
    <3>1. CASE i = 0
      BY <3>1, <2>2
    <3>2. CASE i # 0 /\ i # n + 1
      <4>1. i \in 0..n /\ i - 1 \in 0..(n + 1) /\ i - 1 # n + 1
        BY <3>2
      <4>2. f[i] = g[i] /\ f[i - 1] = g[i - 1]
        BY <4>1
      <4>3. g[i] = Hash(g[i - 1], g[i - 1])
        BY <4>1, <3>2, <2>2
      <4> QED BY <4>2, <4>3, <3>2
    <3>3. CASE i = n + 1
      <4>1. f[i - 1] = g[n] /\ f[i] = Hash(g[n], g[n])
        BY <3>3
      <4> QED BY <4>1, <3>3
    <3> QED BY <3>1, <3>2, <3>3
  <2>4. IsZeros(f, n + 1)
    BY <2>3 DEF IsZeros
  <2> HIDE DEF f
  <2>5. n + 1 \in Nat
    OBVIOUS
  <2> QED BY <2>4, <2>5
<1> HIDE DEF S
<1>3. \A n \in Nat : n \in S
  BY <1>1, <1>2, SetInduction
<1> QED BY <1>3 DEF S

\* The hashes of empty subtrees.
LEMMA ZerosRules ==
    ASSUME NEW depth \in Nat
    PROVE  /\ Zeros(depth)[0] = Zero
           /\ \A d \in Nat : d + 1 <= depth =>
                Zeros(depth)[d + 1] = Hash(Zeros(depth)[d], Zeros(depth)[d])
<1>1. \E f : IsZeros(f, depth)
  BY ZerosExist
<1>2. Zeros(depth) = CHOOSE f : IsZeros(f, depth)
  BY DEF Zeros, IsZeros
<1>3. IsZeros(Zeros(depth), depth)
  BY <1>1, <1>2
<1> DEFINE z == Zeros(depth)
<1>4. z = [i \in 0..depth |-> IF i = 0 THEN Zero ELSE Hash(z[i - 1], z[i - 1])]
  BY <1>3 DEF IsZeros
<1> HIDE DEF z
<1>5. z[0] = Zero
  BY <1>4
<1>6. ASSUME NEW d \in Nat, d + 1 <= depth PROVE z[d + 1] = Hash(z[d], z[d])
  <2>1. d + 1 \in 0..depth /\ d + 1 # 0 /\ (d + 1) - 1 = d
    BY <1>6
  <2>2. z[d + 1] = Hash(z[(d + 1) - 1], z[(d + 1) - 1])
    BY <2>1, <1>4
  <2> QED BY <2>1, <2>2
<1> QED BY <1>5, <1>6 DEF z

-----------------------------------------------------------------------------
\* Subtrees that are empty, and those an appended leaf leaves alone

\* Node i of level d is right of those above the leaves.
Beyond(lvs, d, i) == Len(lvs) = 0 \/ i > Up(Len(lvs) - 1, d)

\* Right of the last leaf every node is the hash of an empty subtree.
LEMMA EmptySubtrees ==
    ASSUME NEW lvs, Len(lvs) \in Nat, NEW depth \in Nat
    PROVE  \A d \in Nat : \A i : 
             (Has(depth, d, i) /\ Beyond(lvs, d, i)) =>
               At(lvs, depth, d, i) = Zeros(depth)[d]
<1> DEFINE S == {d \in Nat : \A i : (Has(depth, d, i) /\ Beyond(lvs, d, i)) =>
                                      At(lvs, depth, d, i) = Zeros(depth)[d]}
<1>1. 0 \in S
  <2>1. SUFFICES ASSUME NEW i, Has(depth, 0, i), Beyond(lvs, 0, i)
                 PROVE  At(lvs, depth, 0, i) = Zeros(depth)[0]
    OBVIOUS
  <2>2. i \in Nat /\ ~ (i < Len(lvs))
    <3>1. i \in Nat
      BY <2>1, Pow2Rules DEF Has
    <3>2. CASE Len(lvs) = 0
      BY <3>1, <3>2
    <3>3. CASE Len(lvs) # 0
      <4>1. Len(lvs) - 1 \in Nat
        BY <3>3
      <4>2. i > Len(lvs) - 1
        BY <4>1, <2>1, <3>3, UpRules DEF Beyond
      <4> QED BY <3>1, <4>2
    <3> QED BY <3>2, <3>3
  <2>3. At(lvs, depth, 0, i) = LeafAt(lvs, i)
    BY <2>1, TreeRules
  <2> QED BY <2>2, <2>3, ZerosRules DEF LeafAt
<1>2. ASSUME NEW d \in Nat, d \in S PROVE d + 1 \in S
  <2>1. SUFFICES ASSUME NEW i, Has(depth, d + 1, i), Beyond(lvs, d + 1, i)
                 PROVE  At(lvs, depth, d + 1, i) = Zeros(depth)[d + 1]
    OBVIOUS
  <2>2. i \in Nat /\ Has(depth, d, 2 * i) /\ Has(depth, d, 2 * i + 1)
    BY <2>1, HasChildren
  <2>3. Beyond(lvs, d, 2 * i) /\ Beyond(lvs, d, 2 * i + 1)
    <3>1. SUFFICES ASSUME Len(lvs) # 0
                   PROVE  2 * i > Up(Len(lvs) - 1, d) /\ 2 * i + 1 > Up(Len(lvs) - 1, d)
      BY DEF Beyond
    <3> DEFINE n == Len(lvs) - 1
    <3>2. n \in Nat
      BY <3>1
    <3>3. i > Up(n, d + 1)
      BY <2>1, <3>1 DEF Beyond
    <3> HIDE DEF n
    <3>4. Up(n, d) \in Nat /\ Up(n, d + 1) = Up(n, d) \div 2
      BY <3>2, UpRules
    <3>5. 2 * i > Up(n, d)
      BY <2>2, <3>3, <3>4
    <3>6. 2 * i + 1 > Up(n, d)
      BY <2>2, <3>4, <3>5
    <3> QED BY <3>5, <3>6 DEF n
  <2>4. At(lvs, depth, d, 2 * i) = Zeros(depth)[d] /\ At(lvs, depth, d, 2 * i + 1) = Zeros(depth)[d]
    BY <1>2, <2>2, <2>3
  <2>5. At(lvs, depth, d + 1, i) = Hash(At(lvs, depth, d, 2 * i), At(lvs, depth, d, 2 * i + 1))
    BY <2>1, TreeRules
  <2>6. d + 1 <= depth
    BY <2>1 DEF Has
  <2>7. Zeros(depth)[d + 1] = Hash(Zeros(depth)[d], Zeros(depth)[d])
    BY <2>6, ZerosRules
  <2> QED BY <2>4, <2>5, <2>7
<1> HIDE DEF S
<1>3. \A d \in Nat : d \in S
  BY <1>1, <1>2, SetInduction
<1> QED BY <1>3 DEF S

\* The nodes right of an appended leaf are hashes of empty subtrees.
LEMMA RightOfAppended ==
    ASSUME NEW T, NEW lvs \in Seq(T), NEW leaf \in T, NEW depth \in Nat,
           NEW d \in Nat, NEW i, Has(depth, d, i), i > Up(Len(lvs), d)
    PROVE  At(Append(lvs, leaf), depth, d, i) = Zeros(depth)[d]
<1> DEFINE new == Append(lvs, leaf)
<1>1. Len(new) \in Nat /\ Len(new) - 1 = Len(lvs)
  OBVIOUS
<1> HIDE DEF new
<1>2. Beyond(new, d, i)
  BY <1>1 DEF Beyond
<1>3. At(new, depth, d, i) = Zeros(depth)[d]
  BY <1>1, <1>2, EmptySubtrees
<1> QED BY <1>3 DEF new

\* An appended leaf changes only the nodes above it.
LEMMA AppendedLeaf ==
    ASSUME NEW T, NEW lvs \in Seq(T), NEW leaf \in T, NEW depth \in Nat
    PROVE  \A d \in Nat : \A i :
             (Has(depth, d, i) /\ i # Up(Len(lvs), d)) =>
               At(Append(lvs, leaf), depth, d, i) = At(lvs, depth, d, i)
<1> DEFINE n == Len(lvs)
           new == Append(lvs, leaf)
           S == {d \in Nat : \A i : (Has(depth, d, i) /\ i # Up(n, d)) =>
                                      At(new, depth, d, i) = At(lvs, depth, d, i)}
<1>0. n \in Nat
  OBVIOUS
<1>1. 0 \in S
  <2>1. SUFFICES ASSUME NEW i, Has(depth, 0, i), i # Up(n, 0)
                 PROVE  At(new, depth, 0, i) = At(lvs, depth, 0, i)
    OBVIOUS
  <2>2. i \in Nat
    BY <2>1, Pow2Rules DEF Has
  <2>3. i # n
    BY <2>1, <1>0, UpRules
  <2>4. LeafAt(new, i) = LeafAt(lvs, i)
    BY <2>2, <2>3 DEF LeafAt
  <2> HIDE DEF new
  <2>5. At(new, depth, 0, i) = LeafAt(new, i) /\ At(lvs, depth, 0, i) = LeafAt(lvs, i)
    BY <2>1, TreeRules
  <2> QED BY <2>4, <2>5
<1> HIDE DEF new
<1>2. ASSUME NEW d \in Nat, d \in S PROVE d + 1 \in S
  <2>1. SUFFICES ASSUME NEW i, Has(depth, d + 1, i), i # Up(n, d + 1)
                 PROVE  At(new, depth, d + 1, i) = At(lvs, depth, d + 1, i)
    OBVIOUS
  <2>2. i \in Nat /\ Has(depth, d, 2 * i) /\ Has(depth, d, 2 * i + 1)
    BY <2>1, HasChildren
  <2>3. 2 * i # Up(n, d) /\ 2 * i + 1 # Up(n, d)
    <3>1. Up(n, d) \in Nat /\ Up(n, d + 1) = Up(n, d) \div 2
      BY <1>0, UpRules
    <3>2. i # Up(n, d) \div 2
      BY <3>1, <2>1
    <3> HIDE DEF n
    <3> QED BY <3>1, <3>2, <2>2
  <2>4. At(new, depth, d, 2 * i) = At(lvs, depth, d, 2 * i)
        /\ At(new, depth, d, 2 * i + 1) = At(lvs, depth, d, 2 * i + 1)
    BY <1>2, <2>2, <2>3
  <2>5. At(new, depth, d + 1, i) = Hash(At(new, depth, d, 2 * i), At(new, depth, d, 2 * i + 1))
    BY <2>1, TreeRules
  <2>6. At(lvs, depth, d + 1, i) = Hash(At(lvs, depth, d, 2 * i), At(lvs, depth, d, 2 * i + 1))
    BY <2>1, TreeRules
  <2> QED BY <2>4, <2>5, <2>6
<1> HIDE DEF S
<1>3. \A d \in Nat : d \in S
  BY <1>1, <1>2, SetInduction
<1> QED BY <1>3 DEF S, new

-----------------------------------------------------------------------------
\* Siblings and paths

\* A node and its sibling are the children of one parent.
LEMMA Siblings ==
    ASSUME NEW depth \in Nat, NEW d \in Nat, d < depth, NEW i, Has(depth, d, i)
    PROVE  /\ i \in Nat /\ i \div 2 \in Nat
           /\ Has(depth, d, Sibling(i))
           /\ Has(depth, d + 1, i \div 2)
           /\ i % 2 = 0 => i = 2 * (i \div 2) /\ Sibling(i) = 2 * (i \div 2) + 1
           /\ i % 2 # 0 => i = 2 * (i \div 2) + 1 /\ Sibling(i) = 2 * (i \div 2)
<1> DEFINE e == depth - (d + 1)
           h == i \div 2
<1>1. e \in Nat /\ depth - d = e + 1 /\ d \in 0..depth /\ d + 1 \in 0..depth
  OBVIOUS
<1>2. Pow2(e) \in Nat /\ Pow2(depth - d) = 2 * Pow2(e)
  BY <1>1, Pow2Rules
<1>3. i \in 0..(2 * Pow2(e) - 1)
  BY <1>2 DEF Has
<1>4. i \in Nat /\ h \in Nat /\ i = 2 * h + (i % 2) /\ i % 2 \in {0, 1}
  BY <1>2, <1>3, Halves
<1> HIDE DEF h
<1>5. i % 2 = 0 => i = 2 * h /\ Sibling(i) = 2 * h + 1
  BY <1>4 DEF Sibling
<1>6. i % 2 # 0 => i = 2 * h + 1 /\ Sibling(i) = 2 * h
  BY <1>4 DEF Sibling
<1>7. h \in 0..(Pow2(e) - 1)
  BY <1>2, <1>3, <1>4
<1>8. Has(depth, d + 1, h)
  BY <1>1, <1>7 DEF Has
<1>9. Has(depth, d, 2 * h) /\ Has(depth, d, 2 * h + 1)
  BY <1>8, HasChildren
<1>10. Has(depth, d, Sibling(i))
  BY <1>4, <1>5, <1>6, <1>9
<1> QED BY <1>4, <1>5, <1>6, <1>8, <1>10 DEF h

\* The parent of a node of the full tree and of its sibling is a node of it.
LEMMA TreeParent ==
    ASSUME NEW lvs, NEW depth \in Nat, NEW d \in Nat, d < depth, NEW i, Has(depth, d, i)
    PROVE  At(lvs, depth, d + 1, i \div 2) =
             Parent(At(lvs, depth, d, i), At(lvs, depth, d, Sibling(i)), i % 2)
<1> DEFINE h == i \div 2
<1>0. Has(depth, d + 1, h)
  BY Siblings
<1>1. At(lvs, depth, d + 1, h) = Hash(At(lvs, depth, d, 2 * h), At(lvs, depth, d, 2 * h + 1))
  BY <1>0, TreeRules
<1>2. /\ i % 2 = 0 => i = 2 * h /\ Sibling(i) = 2 * h + 1
      /\ i % 2 # 0 => i = 2 * h + 1 /\ Sibling(i) = 2 * h
  BY Siblings
<1> HIDE DEF h
<1>3. At(lvs, depth, d + 1, h) = Parent(At(lvs, depth, d, i), At(lvs, depth, d, Sibling(i)), i % 2)
  <2>1. CASE i % 2 = 0
    <3>1. Parent(At(lvs, depth, d, i), At(lvs, depth, d, Sibling(i)), i % 2)
            = Hash(At(lvs, depth, d, i), At(lvs, depth, d, Sibling(i)))
      BY <2>1 DEF Parent
    <3> QED BY <1>1, <1>2, <2>1, <3>1
  <2>2. CASE i % 2 # 0
    <3>1. Parent(At(lvs, depth, d, i), At(lvs, depth, d, Sibling(i)), i % 2)
            = Hash(At(lvs, depth, d, Sibling(i)), At(lvs, depth, d, i))
      BY <2>2 DEF Parent
    <3> QED BY <1>1, <1>2, <2>2, <3>1
  <2> QED BY <2>1, <2>2
<1> QED BY <1>3 DEF h

IsPath(f, leaf, siblings, bits, n) ==
    f = [d \in 0..n |-> IF d = 0 THEN leaf ELSE Parent(f[d - 1], siblings[d - 1], bits[d - 1])]

\* The recursive definition of the nodes of a path has a solution.
LEMMA PathExists ==
    ASSUME NEW leaf, NEW siblings, NEW bits
    PROVE  \A n \in Nat : \E f : IsPath(f, leaf, siblings, bits, n)
<1> DEFINE S == {n \in Nat : \E f : IsPath(f, leaf, siblings, bits, n)}
<1>1. 0 \in S
  <2> DEFINE f == [i \in 0..0 |-> leaf]
  <2>1. IsPath(f, leaf, siblings, bits, 0)
    BY DEF IsPath
  <2> QED BY <2>1
<1>2. ASSUME NEW n \in Nat, n \in S PROVE n + 1 \in S
  <2>1. PICK g : IsPath(g, leaf, siblings, bits, n)
    BY <1>2
  <2> DEFINE f == [d \in 0..(n + 1) |-> IF d = n + 1 THEN Parent(g[n], siblings[n], bits[n])
                                        ELSE g[d]]
  <2>2. g = [d \in 0..n |-> IF d = 0 THEN leaf ELSE Parent(g[d - 1], siblings[d - 1], bits[d - 1])]
    BY <2>1 DEF IsPath
  <2>3. ASSUME NEW d \in 0..(n + 1)
        PROVE  f[d] = IF d = 0 THEN leaf ELSE Parent(f[d - 1], siblings[d - 1], bits[d - 1])
    <3>1. CASE d = 0
      BY <3>1, <2>2
    <3>2. CASE d # 0 /\ d # n + 1
      <4>1. d \in 0..n /\ d - 1 \in 0..(n + 1) /\ d - 1 # n + 1
        BY <3>2
      <4>2. f[d] = g[d] /\ f[d - 1] = g[d - 1]
        BY <4>1
      <4>3. g[d] = Parent(g[d - 1], siblings[d - 1], bits[d - 1])
        BY <4>1, <3>2, <2>2
      <4> QED BY <4>2, <4>3, <3>2
    <3>3. CASE d = n + 1
      <4>1. f[d - 1] = g[n] /\ f[d] = Parent(g[n], siblings[n], bits[n]) /\ d - 1 = n
        BY <3>3
      <4> QED BY <4>1, <3>3
    <3> QED BY <3>1, <3>2, <3>3
  <2>4. IsPath(f, leaf, siblings, bits, n + 1)
    BY <2>3 DEF IsPath
  <2> HIDE DEF f
  <2>5. n + 1 \in Nat
    OBVIOUS
  <2> QED BY <2>4, <2>5
<1> HIDE DEF S
<1>3. \A n \in Nat : n \in S
  BY <1>1, <1>2, SetInduction
<1> QED BY <1>3 DEF S

\* The nodes a leaf and a path lead through.
PathNodes(leaf, siblings, bits, depth) == CHOOSE f : IsPath(f, leaf, siblings, bits, depth)

\* The nodes a leaf and a path lead through, by level; the last is the root.
LEMMA PathRules ==
    ASSUME NEW leaf, NEW siblings, NEW bits, NEW depth \in Nat
    PROVE  /\ PathRoot(leaf, siblings, bits, depth) = PathNodes(leaf, siblings, bits, depth)[depth]
           /\ PathNodes(leaf, siblings, bits, depth)[0] = leaf
           /\ \A d \in Nat : d < depth =>
                PathNodes(leaf, siblings, bits, depth)[d + 1] =
                  Parent(PathNodes(leaf, siblings, bits, depth)[d], siblings[d], bits[d])
<1> DEFINE f == PathNodes(leaf, siblings, bits, depth)
<1>1. \E g : IsPath(g, leaf, siblings, bits, depth)
  BY PathExists
<1>2. IsPath(f, leaf, siblings, bits, depth)
  BY <1>1 DEF PathNodes
<1>3. PathRoot(leaf, siblings, bits, depth) = f[depth]
  BY DEF PathRoot, PathNodes, IsPath
<1> HIDE DEF f
<1>4. f = [d \in 0..depth |-> IF d = 0 THEN leaf ELSE Parent(f[d - 1], siblings[d - 1], bits[d - 1])]
  BY <1>2 DEF IsPath
<1>5. f[0] = leaf
  BY <1>4
<1>6. ASSUME NEW d \in Nat, d < depth PROVE f[d + 1] = Parent(f[d], siblings[d], bits[d])
  <2>1. d + 1 \in 0..depth /\ d + 1 # 0 /\ (d + 1) - 1 = d
    BY <1>6
  <2>2. f[d + 1] = Parent(f[(d + 1) - 1], siblings[(d + 1) - 1], bits[(d + 1) - 1])
    BY <2>1, <1>4
  <2> QED BY <2>1, <2>2
<1> QED BY <1>3, <1>5, <1>6 DEF f

\* The bit of a level tells whether the node above the leaf is a right child.
LEMMA BitOfLevel ==
    ASSUME NEW i, NEW depth \in Nat, NEW d \in Nat, d < depth
    PROVE  Bits(i, depth)[d] = Up(i, d) % 2
<1>1. d \in 0..(depth - 1)
  OBVIOUS
<1> QED BY <1>1 DEF Bits, Up

\* A leaf of the full tree and the siblings on its path lead to the root.
LEMMA PathLeadsToRoot ==
    ASSUME NEW lvs, NEW depth \in Nat, NEW i \in 0..(Pow2(depth) - 1), NEW siblings,
           \A d \in Nat : d < depth => siblings[d] = At(lvs, depth, d, Sibling(Up(i, d)))
    PROVE  PathRoot(LeafAt(lvs, i), siblings, Bits(i, depth), depth) = FullRoot(lvs, depth)
<1> DEFINE bits == Bits(i, depth)
           f == PathNodes(LeafAt(lvs, i), siblings, bits, depth)
           S == {d \in Nat : d <= depth => f[d] = At(lvs, depth, d, Up(i, d))}
<1>0. i \in Nat
  BY Pow2Rules
<1>1. f[0] = LeafAt(lvs, i) /\ \A d \in Nat : d < depth => f[d + 1] = Parent(f[d], siblings[d], bits[d])
  BY PathRules
<1>2. PathRoot(LeafAt(lvs, i), siblings, bits, depth) = f[depth]
  BY PathRules
<1>3. \A d \in Nat : d < depth => bits[d] = Up(i, d) % 2
  BY BitOfLevel
<1> HIDE DEF f, bits
<1>4. \A d \in Nat : d <= depth => Has(depth, d, Up(i, d))
  BY UpRange DEF Has
<1>5. 0 \in S
  <2>1. Up(i, 0) = i
    BY <1>0, UpRules
  <2>2. Has(depth, 0, i)
    BY <1>4, <2>1
  <2>3. At(lvs, depth, 0, i) = LeafAt(lvs, i)
    BY <2>2, TreeRules
  <2> QED BY <1>1, <2>1, <2>3
<1>6. ASSUME NEW d \in Nat, d \in S PROVE d + 1 \in S
  <2>1. SUFFICES ASSUME d < depth PROVE f[d + 1] = At(lvs, depth, d + 1, Up(i, d + 1))
    OBVIOUS
  <2>2. f[d + 1] = Parent(At(lvs, depth, d, Up(i, d)), At(lvs, depth, d, Sibling(Up(i, d))), Up(i, d) % 2)
    BY <1>1, <1>3, <1>6, <2>1
  <2>3. Has(depth, d, Up(i, d))
    BY <1>4, <2>1
  <2>4. At(lvs, depth, d + 1, Up(i, d) \div 2) =
          Parent(At(lvs, depth, d, Up(i, d)), At(lvs, depth, d, Sibling(Up(i, d))), Up(i, d) % 2)
    BY <2>1, <2>3, TreeParent
  <2>5. Up(i, d + 1) = Up(i, d) \div 2
    BY <1>0, UpRules
  <2> QED BY <2>2, <2>4, <2>5
<1> HIDE DEF S
<1>7. depth \in S
  BY <1>5, <1>6, SetInduction
<1>8. f[depth] = At(lvs, depth, depth, 0)
  BY <1>7, UpRange DEF S
<1> QED BY <1>2, <1>8, TreeRules DEF bits

\* A hash determines what was hashed.
LEMMA HashInjective ==
    ASSUME NEW a, NEW b, NEW c, NEW d, Hash(a, b) = Hash(c, d)
    PROVE  a = c /\ b = d
BY DEF Hash

\* A parent determines its two children, if the side is known.
LEMMA ParentInjective ==
    ASSUME NEW a, NEW b, NEW c, NEW d, NEW bit, Parent(a, b, bit) = Parent(c, d, bit)
    PROVE  a = c /\ b = d
<1>1. CASE bit = 0
  <2>1. Hash(a, b) = Hash(c, d)
    BY <1>1 DEF Parent
  <2> QED BY <2>1, HashInjective
<1>2. CASE bit # 0
  <2>1. Hash(b, a) = Hash(d, c)
    BY <1>2 DEF Parent
  <2> QED BY <2>1, HashInjective
<1> QED BY <1>1, <1>2

\* What leads to the root with the bits of an index is the leaf at the index,
\* whatever the siblings are.
LEMMA PathFromRoot ==
    ASSUME NEW lvs, NEW depth \in Nat, NEW i \in 0..(Pow2(depth) - 1), NEW siblings, NEW leaf,
           PathRoot(leaf, siblings, Bits(i, depth), depth) = FullRoot(lvs, depth)
    PROVE  leaf = LeafAt(lvs, i)
<1> DEFINE bits == Bits(i, depth)
           f == PathNodes(leaf, siblings, bits, depth)
           S == {k \in Nat : k <= depth =>
                   f[depth - k] = At(lvs, depth, depth - k, Up(i, depth - k))}
<1>0. i \in Nat
  BY Pow2Rules
<1>1. f[0] = leaf /\ \A d \in Nat : d < depth => f[d + 1] = Parent(f[d], siblings[d], bits[d])
  BY PathRules
<1>2. f[depth] = At(lvs, depth, depth, 0)
  BY PathRules, TreeRules
<1>3. \A d \in Nat : d < depth => bits[d] = Up(i, d) % 2
  BY BitOfLevel
<1> HIDE DEF f, bits
<1>4. \A d \in Nat : d <= depth => Has(depth, d, Up(i, d))
  BY UpRange DEF Has
<1>5. 0 \in S
  BY <1>2, UpRange
<1>6. ASSUME NEW k \in Nat, k \in S PROVE k + 1 \in S
  <2> DEFINE d == depth - (k + 1)
  <2>1. SUFFICES ASSUME k + 1 <= depth PROVE f[d] = At(lvs, depth, d, Up(i, d))
    OBVIOUS
  <2>2. d \in Nat /\ d < depth /\ depth - k = d + 1
    BY <2>1
  <2>3. f[depth - k] = At(lvs, depth, depth - k, Up(i, depth - k))
    BY <1>6, <2>1
  <2> HIDE DEF d
  <2>4. f[d + 1] = At(lvs, depth, d + 1, Up(i, d + 1))
    BY <2>2, <2>3
  <2>5. Has(depth, d, Up(i, d))
    BY <1>4, <2>2
  <2>6. At(lvs, depth, d + 1, Up(i, d) \div 2) =
          Parent(At(lvs, depth, d, Up(i, d)), At(lvs, depth, d, Sibling(Up(i, d))), Up(i, d) % 2)
    BY <2>2, <2>5, TreeParent
  <2>7. Up(i, d + 1) = Up(i, d) \div 2
    BY <1>0, <2>2, UpRules
  <2>8. f[d + 1] = Parent(f[d], siblings[d], Up(i, d) % 2)
    BY <1>1, <1>3, <2>2
  <2> QED BY <2>4, <2>6, <2>7, <2>8, ParentInjective
<1> HIDE DEF S
<1>7. depth \in S
  BY <1>5, <1>6, SetInduction
<1>8. f[depth - depth] = At(lvs, depth, depth - depth, Up(i, depth - depth))
  BY <1>7 DEF S
<1>9. Up(i, 0) = i /\ Has(depth, 0, Up(i, 0)) /\ depth - depth = 0
  BY <1>0, <1>4, UpRules
<1>10. f[0] = At(lvs, depth, 0, i)
  BY <1>8, <1>9
<1>11. At(lvs, depth, 0, i) = LeafAt(lvs, i)
  BY <1>9, TreeRules
<1> QED BY <1>1, <1>10, <1>11

\* The siblings on the path of a leaf.
TreePath(lvs, depth, i) == [d \in 0..(depth - 1) |-> At(lvs, depth, d, Sibling(Up(i, d)))]

\* The path of a leaf of the full tree leads to its root.
LEMMA TreePathLeads ==
    ASSUME NEW lvs, NEW depth \in Nat, NEW i \in 0..(Pow2(depth) - 1)
    PROVE  PathRoot(LeafAt(lvs, i), TreePath(lvs, depth, i), Bits(i, depth), depth)
             = FullRoot(lvs, depth)
<1> DEFINE s == TreePath(lvs, depth, i)
<1>1. \A d \in Nat : d < depth => s[d] = At(lvs, depth, d, Sibling(Up(i, d)))
  BY DEF TreePath
<1> HIDE DEF s
<1>2. PathRoot(LeafAt(lvs, i), s, Bits(i, depth), depth) = FullRoot(lvs, depth)
  BY <1>1, PathLeadsToRoot
<1> QED BY <1>2 DEF s

\* A root determines the leaves of its tree.
LEMMA RootInjective ==
    ASSUME NEW a, NEW b, NEW depth \in Nat, FullRoot(a, depth) = FullRoot(b, depth)
    PROVE  \A i \in 0..(Pow2(depth) - 1) : LeafAt(a, i) = LeafAt(b, i)
<1> SUFFICES ASSUME NEW i \in 0..(Pow2(depth) - 1) PROVE LeafAt(a, i) = LeafAt(b, i)
  OBVIOUS
<1>1. PathRoot(LeafAt(a, i), TreePath(a, depth, i), Bits(i, depth), depth) = FullRoot(b, depth)
  BY TreePathLeads
<1> QED BY <1>1, PathFromRoot

\* The trees of one tree's leaves are told apart by their roots.
LEMMA TreeLeavesInjective ==
    ASSUME NEW a \in TreeLeaves, NEW b \in TreeLeaves, FullRoot(a, Depth) = FullRoot(b, Depth)
    PROVE  a = b
<1>0. Depth \in Nat /\ Zero \notin Leaf
  BY TreeAssumption
<1>1. PICK m : m \in 1..MAX_LEAVES /\ a \in [1..m -> Leaf]
  BY DEF TreeLeaves
<1>2. PICK n : n \in 1..MAX_LEAVES /\ b \in [1..n -> Leaf]
  BY DEF TreeLeaves
<1>3. MAX_LEAVES \in Nat /\ MAX_LEAVES = Pow2(Depth)
  BY <1>0, Pow2Rules DEF MAX_LEAVES
<1>4. \A i \in 0..(MAX_LEAVES - 1) : LeafAt(a, i) = LeafAt(b, i)
  BY <1>0, <1>3, RootInjective
<1>5. Len(a) = m /\ Len(b) = n
  BY <1>1, <1>2, <1>3
<1>6. m = n
  <2>1. CASE m < n
    <3>1. m \in 0..(MAX_LEAVES - 1) /\ m + 1 \in 1..n
      BY <2>1, <1>1, <1>2, <1>3
    <3>2. LeafAt(a, m) = Zero /\ LeafAt(b, m) = b[m + 1] /\ b[m + 1] \in Leaf
      BY <3>1, <2>1, <1>1, <1>2, <1>5 DEF LeafAt
    <3> QED BY <3>1, <3>2, <1>0, <1>4
  <2>2. CASE n < m
    <3>1. n \in 0..(MAX_LEAVES - 1) /\ n + 1 \in 1..m
      BY <2>2, <1>1, <1>2, <1>3
    <3>2. LeafAt(b, n) = Zero /\ LeafAt(a, n) = a[n + 1] /\ a[n + 1] \in Leaf
      BY <3>1, <2>2, <1>1, <1>2, <1>5 DEF LeafAt
    <3> QED BY <3>1, <3>2, <1>0, <1>4
  <2> QED BY <2>1, <2>2, <1>1, <1>2
<1>7. ASSUME NEW j \in 1..m PROVE a[j] = b[j]
  <2>1. j - 1 \in 0..(MAX_LEAVES - 1) /\ j - 1 < m /\ (j - 1) + 1 = j
    BY <1>1, <1>3
  <2>2. LeafAt(a, j - 1) = a[j] /\ LeafAt(b, j - 1) = b[j]
    BY <2>1, <1>5, <1>6 DEF LeafAt
  <2> QED BY <2>1, <2>2, <1>4
<1> QED BY <1>1, <1>2, <1>6, <1>7

-----------------------------------------------------------------------------
\* The climb of an insertion

\* The stored left nodes are those of the tree that the next insertion needs.
Filled(lvs, filled) ==
    \A d \in 0..(Depth - 1) : Up(Len(lvs), d) % 2 # 0 =>
        filled[d] = At(lvs, Depth, d, Up(Len(lvs), d) - 1)

Start(leaf, index, filled) == [node |-> leaf, index |-> index, filled |-> filled]

IsClimb(f, from, n) == f = [level \in 0..n |-> IF level = 0 THEN from ELSE Climb(f[level - 1], level - 1)]

\* The recursive definition of the climb has a solution.
LEMMA ClimbExists ==
    ASSUME NEW from
    PROVE  \A n \in Nat : \E f : IsClimb(f, from, n)
<1> DEFINE S == {n \in Nat : \E f : IsClimb(f, from, n)}
<1>1. 0 \in S
  <2> DEFINE f == [i \in 0..0 |-> from]
  <2>1. IsClimb(f, from, 0)
    BY DEF IsClimb
  <2> QED BY <2>1
<1>2. ASSUME NEW n \in Nat, n \in S PROVE n + 1 \in S
  <2>1. PICK g : IsClimb(g, from, n)
    BY <1>2
  <2> DEFINE f == [d \in 0..(n + 1) |-> IF d = n + 1 THEN Climb(g[n], n) ELSE g[d]]
  <2>2. g = [d \in 0..n |-> IF d = 0 THEN from ELSE Climb(g[d - 1], d - 1)]
    BY <2>1 DEF IsClimb
  <2>3. ASSUME NEW d \in 0..(n + 1)
        PROVE  f[d] = IF d = 0 THEN from ELSE Climb(f[d - 1], d - 1)
    <3>1. CASE d = 0
      BY <3>1, <2>2
    <3>2. CASE d # 0 /\ d # n + 1
      <4>1. d \in 0..n /\ d - 1 \in 0..(n + 1) /\ d - 1 # n + 1
        BY <3>2
      <4>2. f[d] = g[d] /\ f[d - 1] = g[d - 1]
        BY <4>1
      <4>3. g[d] = Climb(g[d - 1], d - 1)
        BY <4>1, <3>2, <2>2
      <4> QED BY <4>2, <4>3, <3>2
    <3>3. CASE d = n + 1
      <4>1. f[d - 1] = g[n] /\ f[d] = Climb(g[n], n) /\ d - 1 = n
        BY <3>3
      <4> QED BY <4>1, <3>3
    <3> QED BY <3>1, <3>2, <3>3
  <2>4. IsClimb(f, from, n + 1)
    BY <2>3 DEF IsClimb
  <2> HIDE DEF f
  <2>5. n + 1 \in Nat
    OBVIOUS
  <2> QED BY <2>4, <2>5
<1> HIDE DEF S
<1>3. \A n \in Nat : n \in S
  BY <1>1, <1>2, SetInduction
<1> QED BY <1>3 DEF S

\* The rounds of _insert's loop.
ClimbRounds(from) == CHOOSE f : IsClimb(f, from, Depth)

\* The rounds of the loop, one after the other.
LEMMA ClimbRules ==
    ASSUME NEW from
    PROVE  /\ ClimbRounds(from)[0] = from
           /\ \A d \in Nat : d < Depth => ClimbRounds(from)[d + 1] = Climb(ClimbRounds(from)[d], d)
<1> DEFINE f == ClimbRounds(from)
<1>0. Depth \in Nat
  BY TreeAssumption
<1>1. \E g : IsClimb(g, from, Depth)
  BY <1>0, ClimbExists
<1>2. IsClimb(f, from, Depth)
  BY <1>1 DEF ClimbRounds
<1> HIDE DEF f
<1>4. f = [level \in 0..Depth |-> IF level = 0 THEN from ELSE Climb(f[level - 1], level - 1)]
  BY <1>2 DEF IsClimb
<1>5. f[0] = from
  BY <1>0, <1>4
<1>6. ASSUME NEW d \in Nat, d < Depth PROVE f[d + 1] = Climb(f[d], d)
  <2>1. d + 1 \in 0..Depth /\ d + 1 # 0 /\ (d + 1) - 1 = d
    BY <1>0, <1>6
  <2>2. f[d + 1] = Climb(f[(d + 1) - 1], (d + 1) - 1)
    BY <2>1, <1>4
  <2> QED BY <2>1, <2>2
<1> QED BY <1>5, <1>6 DEF f

\* A function on the levels.
OnLevels(filled) == filled = [level \in 0..(Depth - 1) |-> filled[level]]

\* What a round leaves in the stored left nodes: those below it are of the new
\* tree where the index has a left child, the others are as before.
Stored(filled, old, new, n, d) ==
    \A x \in 0..(Depth - 1) :
        filled[x] = IF x < d /\ Up(n, x) % 2 = 0 THEN At(new, Depth, x, Up(n, x)) ELSE old[x]

\* One round takes the node of the new tree at a level to that of the next.
LEMMA RoundComputes ==
    ASSUME NEW lvs \in Seq(Leaf), Len(lvs) < MAX_LEAVES, NEW leaf \in Leaf,
           NEW old, Filled(lvs, old),
           NEW new, new = Append(lvs, leaf), NEW n, n = Len(lvs),
           NEW d \in Nat, d < Depth, NEW c, NEW F, OnLevels(F),
           c = [node |-> At(new, Depth, d, Up(n, d)), index |-> Up(n, d), filled |-> F],
           Stored(F, old, new, n, d)
    PROVE  \E G : /\ Climb(c, d) = [node |-> At(new, Depth, d + 1, Up(n, d + 1)),
                                    index |-> Up(n, d + 1), filled |-> G]
                  /\ OnLevels(G) /\ Stored(G, old, new, n, d + 1)
<1>0. /\ Depth \in Nat /\ d \in 0..(Depth - 1) /\ MAX_LEAVES = Pow2(Depth) /\ Pow2(Depth) \in Nat
      /\ n \in Nat /\ n \in 0..(Pow2(Depth) - 1)
  <2>1. Depth \in Nat
    BY TreeAssumption
  <2>2. MAX_LEAVES = Pow2(Depth) /\ Pow2(Depth) \in Nat
    BY <2>1, Pow2Rules DEF MAX_LEAVES
  <2> QED BY <2>1, <2>2
<1> DEFINE u == Up(n, d)
           x == At(new, Depth, d, u)
<1>1. Up(n, d + 1) = u \div 2 /\ u \in Nat
  BY <1>0, UpRules
<1>2. Has(Depth, d, u)
  BY <1>0, UpRange DEF Has
<1>3. At(new, Depth, d + 1, u \div 2) = Parent(x, At(new, Depth, d, Sibling(u)), u % 2)
  BY <1>0, <1>2, TreeParent
<1>4. Has(Depth, d, Sibling(u))
  BY <1>0, <1>2, Siblings
<1>5. \A i : Has(Depth, d, i) /\ i # u => At(new, Depth, d, i) = At(lvs, Depth, d, i)
  BY <1>0, AppendedLeaf
<1>6. Len(new) = n + 1
  BY <1>0
<1>7. CASE u % 2 = 0
  <2> DEFINE G == [F EXCEPT ![d] = x]
  <2>1. Climb(c, d) = [node |-> Hash(x, Zeros(Depth)[d]), index |-> u \div 2, filled |-> G]
    BY <1>7 DEF Climb
  <2>2. At(new, Depth, d, Sibling(u)) = Zeros(Depth)[d]
    <3>1. Sibling(u) = u + 1
      BY <1>7 DEF Sibling
    <3>2. Sibling(u) > Up(Len(lvs), d)
      BY <3>1, <1>0, <1>1
    <3> HIDE DEF u
    <3> QED BY <3>2, <1>0, <1>4, RightOfAppended
  <2>3. Hash(x, Zeros(Depth)[d]) = At(new, Depth, d + 1, u \div 2)
    BY <2>2, <1>3, <1>7 DEF Parent
  <2>4. OnLevels(G)
    BY <1>0 DEF OnLevels
  <2>5. Stored(G, old, new, n, d + 1)
    <3>1. SUFFICES ASSUME NEW y \in 0..(Depth - 1)
                   PROVE  G[y] = IF y < d + 1 /\ Up(n, y) % 2 = 0 THEN At(new, Depth, y, Up(n, y)) ELSE old[y]
      BY DEF Stored
    <3>2. F[y] = IF y < d /\ Up(n, y) % 2 = 0 THEN At(new, Depth, y, Up(n, y)) ELSE old[y]
      BY DEF Stored
    <3>3. CASE y = d
      <4>1. G[y] = x
        BY <3>3, <1>0 DEF OnLevels
      <4> QED BY <4>1, <3>3, <1>7
    <3>4. CASE y # d
      <4>1. G[y] = F[y]
        BY <3>4, <1>0 DEF OnLevels
      <4>2. y < d + 1 <=> y < d
        BY <3>4, <1>0
      <4> QED BY <4>1, <4>2, <3>2
    <3> QED BY <3>3, <3>4
  <2> HIDE DEF G
  <2> QED BY <2>1, <2>3, <2>4, <2>5, <1>1
<1>8. CASE u % 2 # 0
  <2>1. Climb(c, d) = [node |-> Hash(F[d], x), index |-> u \div 2, filled |-> F]
    BY <1>8 DEF Climb
  <2>2. F[d] = old[d]
    BY <1>0 DEF Stored
  <2>3. old[d] = At(lvs, Depth, d, u - 1)
    BY <1>0, <1>8 DEF Filled
  <2>4. Sibling(u) = u - 1 /\ u - 1 # u
    BY <1>1, <1>8 DEF Sibling
  <2>5. At(new, Depth, d, Sibling(u)) = F[d]
    BY <2>2, <2>3, <2>4, <1>4, <1>5
  <2>6. Hash(F[d], x) = At(new, Depth, d + 1, u \div 2)
    BY <2>5, <1>3, <1>8 DEF Parent
  <2>7. Stored(F, old, new, n, d + 1)
    <3>1. SUFFICES ASSUME NEW y \in 0..(Depth - 1)
                   PROVE  F[y] = IF y < d + 1 /\ Up(n, y) % 2 = 0 THEN At(new, Depth, y, Up(n, y)) ELSE old[y]
      BY DEF Stored
    <3>2. F[y] = IF y < d /\ Up(n, y) % 2 = 0 THEN At(new, Depth, y, Up(n, y)) ELSE old[y]
      BY DEF Stored
    <3>3. CASE y = d
      BY <3>2, <3>3, <1>0, <1>8
    <3>4. CASE y # d
      <4>1. y < d + 1 <=> y < d
        BY <3>4, <1>0
      <4> QED BY <4>1, <3>2
    <3> QED BY <3>3, <3>4
  <2> QED BY <2>1, <2>6, <2>7, <1>1
<1> QED BY <1>7, <1>8

\* The climb of an insertion ends in the root of the tree with the new leaf,
\* and keeps the left nodes that the next one needs.
LEMMA ClimbComputes ==
    ASSUME NEW lvs \in Seq(Leaf), Len(lvs) < MAX_LEAVES, NEW leaf \in Leaf,
           NEW old, OnLevels(old), Filled(lvs, old)
    PROVE  LET top == ClimbRounds(Start(leaf, Len(lvs), old))[Depth]
               new == Append(lvs, leaf)
           IN /\ top.node = FullRoot(new, Depth)
              /\ OnLevels(top.filled)
              /\ Filled(new, top.filled)
<1> DEFINE n == Len(lvs)
           new == Append(lvs, leaf)
           f == ClimbRounds(Start(leaf, n, old))
           Good(d) == \E F : /\ f[d] = [node |-> At(new, Depth, d, Up(n, d)), index |-> Up(n, d), filled |-> F]
                             /\ OnLevels(F) /\ Stored(F, old, new, n, d)
           S == {d \in Nat : d <= Depth => Good(d)}
<1>0. /\ Depth \in Nat /\ MAX_LEAVES = Pow2(Depth) /\ Pow2(Depth) \in Nat
      /\ n \in Nat /\ n \in 0..(Pow2(Depth) - 1)
  <2>1. Depth \in Nat
    BY TreeAssumption
  <2>2. MAX_LEAVES = Pow2(Depth) /\ Pow2(Depth) \in Nat
    BY <2>1, Pow2Rules DEF MAX_LEAVES
  <2> QED BY <2>1, <2>2
<1>1. f[0] = Start(leaf, n, old) /\ \A d \in Nat : d < Depth => f[d + 1] = Climb(f[d], d)
  BY ClimbRules
<1>2. Len(new) = n + 1 /\ new[n + 1] = leaf /\ \A i \in 1..n : new[i] = lvs[i]
  BY <1>0
<1> HIDE DEF f
<1>3. 0 \in S
  <2>1. Up(n, 0) = n
    BY <1>0, UpRules
  <2>2. Has(Depth, 0, n)
    BY <1>0 DEF Has
  <2>3. At(new, Depth, 0, n) = LeafAt(new, n)
    BY <1>0, <2>2, TreeRules
  <2>4. LeafAt(new, n) = leaf
    BY <1>0, <1>2 DEF LeafAt
  <2>5. f[0] = [node |-> At(new, Depth, 0, Up(n, 0)), index |-> Up(n, 0), filled |-> old]
    BY <1>1, <2>1, <2>3, <2>4 DEF Start
  <2>6. Stored(old, old, new, n, 0)
    BY DEF Stored
  <2> QED BY <2>5, <2>6
<1> HIDE DEF Good
<1>4. ASSUME NEW d \in Nat, d \in S PROVE d + 1 \in S
  <2>1. SUFFICES ASSUME d < Depth PROVE Good(d + 1)
    BY <1>0
  <2>2. Good(d)
    BY <1>0, <1>4, <2>1
  <2>3. PICK F : /\ f[d] = [node |-> At(new, Depth, d, Up(n, d)), index |-> Up(n, d), filled |-> F]
                 /\ OnLevels(F) /\ Stored(F, old, new, n, d)
    BY <2>2 DEF Good
  <2> DEFINE c == f[d]
             m == new
  <2>4. c = [node |-> At(m, Depth, d, Up(n, d)), index |-> Up(n, d), filled |-> F]
        /\ OnLevels(F) /\ Stored(F, old, m, n, d)
    BY <2>3
  <2>5. m = Append(lvs, leaf) /\ n = Len(lvs)
    OBVIOUS
  <2>6. f[d + 1] = Climb(c, d)
    BY <1>1, <2>1
  <2> HIDE DEF c, m, n
  <2>7. \E G : /\ Climb(c, d) = [node |-> At(m, Depth, d + 1, Up(n, d + 1)),
                                 index |-> Up(n, d + 1), filled |-> G]
               /\ OnLevels(G) /\ Stored(G, old, m, n, d + 1)
    BY <2>1, <2>4, <2>5, RoundComputes
  <2> QED BY <2>6, <2>7 DEF m, Good
<1> HIDE DEF S
<1>5. Depth \in S
  BY <1>0, <1>3, <1>4, SetInduction
<1>6. PICK F : /\ f[Depth] = [node |-> At(new, Depth, Depth, Up(n, Depth)), index |-> Up(n, Depth), filled |-> F]
               /\ OnLevels(F) /\ Stored(F, old, new, n, Depth)
  BY <1>0, <1>5 DEF S, Good
<1>7. f[Depth].node = At(new, Depth, Depth, 0) /\ f[Depth].filled = F
  BY <1>0, <1>6, UpRange
<1>8. f[Depth].node = FullRoot(new, Depth)
  BY <1>0, <1>7, TreeRules
<1>9. Filled(new, F)
  <2>1. SUFFICES ASSUME NEW d \in 0..(Depth - 1), Up(n + 1, d) % 2 # 0
                 PROVE  F[d] = At(new, Depth, d, Up(n + 1, d) - 1)
    BY <1>2 DEF Filled
  <2>2. F[d] = IF d < Depth /\ Up(n, d) % 2 = 0 THEN At(new, Depth, d, Up(n, d)) ELSE old[d]
    BY <1>6 DEF Stored
  <2>0. d \in Nat /\ d < Depth
    BY <1>0
  <2>3. d \in Nat /\ d < Depth /\ Up(n, d) \in Nat
    BY <2>0, <1>0, UpRules
  <2>4. CASE Up(n, d) % 2 = 0
    <3>1. Up(n + 1, d) = Up(n, d) + 1
      <4>1. Up(n + 1, d) \in {Up(n, d), Up(n, d) + 1}
        BY <2>3, <1>0, UpNext
      <4> QED BY <2>1, <2>4, <4>1
    <3> QED BY <3>1, <2>2, <2>3, <2>4
  <2>5. CASE Up(n, d) % 2 # 0
    <3>1. Up(n + 1, d) = Up(n, d)
      <4>1. Up(n + 1, d) \in {Up(n, d), Up(n, d) + 1}
        BY <2>3, <1>0, UpNext
      <4>2. (Up(n, d) + 1) % 2 = 0
        BY <2>3, <2>5
      <4> QED BY <2>1, <4>1, <4>2
    <3>2. old[d] = At(lvs, Depth, d, Up(n, d) - 1)
      BY <2>5 DEF Filled
    <3>3. Has(Depth, d, Up(n, d))
      BY <1>0, <2>3, UpRange DEF Has
    <3>4. Sibling(Up(n, d)) = Up(n, d) - 1 /\ Up(n, d) - 1 # Up(n, d)
      BY <2>3, <2>5 DEF Sibling
    <3>5. Has(Depth, d, Up(n, d) - 1)
      BY <1>0, <2>3, <3>3, <3>4, Siblings
    <3>6. At(new, Depth, d, Up(n, d) - 1) = At(lvs, Depth, d, Up(n, d) - 1)
      BY <1>0, <2>3, <3>4, <3>5, AppendedLeaf
    <3> QED BY <2>2, <2>5, <3>1, <3>2, <3>6
  <2> QED BY <2>4, <2>5
<1> QED BY <1>6, <1>7, <1>8, <1>9 DEF f

-----------------------------------------------------------------------------
\* The invariant of the contract's tree

\* The leaves, among the first n, of the tree that the n-th one is in.
TreeOf(s, n) == SubSeq(s, ((n - 1) \div MAX_LEAVES) * MAX_LEAVES + 1, n)

\* The leaves of a tree.
LeavesFrom(s, tree) == SubSeq(s, tree * MAX_LEAVES + 1, Len(s))

RootsOf(s) == {FullRoot(TreeOf(s, n), Depth) : n \in 1..Len(s)}

CountsMatch ==
    /\ Len(inserted) = totalLeaves
    /\ totalLeaves = currentTreeIndex * MAX_LEAVES + leafCounts[currentTreeIndex]
    /\ leafCounts[currentTreeIndex] = 0 => currentTreeIndex = 0

NodesMatch ==
    /\ filledSubtrees = [t \in Tree |-> filledSubtrees[t]]
    /\ \A t \in Tree : OnLevels(filledSubtrees[t])
    /\ Filled(LeavesFrom(inserted, currentTreeIndex), filledSubtrees[currentTreeIndex])

RootsMatch ==
    /\ totalLeaves > 0 => currentRoot = FullRoot(TreeOf(inserted, totalLeaves), Depth)
    /\ knownRoots = RootsOf(inserted)

ContractInv == TypeOK /\ CountsMatch /\ NodesMatch /\ RootsMatch

\* Numbers of whole trees and a rest.
LEMMA TreeNumbers ==
    ASSUME NEW p \in Nat, p > 0, NEW t \in Nat, NEW j \in Nat, j < p
    PROVE  /\ t * p \in Nat
           /\ (t + 1) * p = t * p + p
           /\ (t * p + j) \div p = t
<1>1. t * p \in Nat
  OBVIOUS
<1>2. (t + 1) * p = t * p + p
  OBVIOUS
<1>3. (t * p + j) \div p = t
  <2> DEFINE a == t * p + j
             q == a \div p
  <2>1. a \in Nat
    BY <1>1
  <2>2. q \in Nat /\ q * p <= a /\ a < (q + 1) * p
    OBVIOUS
  <2>3. ~ (q < t)
    <3>1. SUFFICES ASSUME q < t PROVE FALSE
      OBVIOUS
    <3> HIDE DEF q
    <3>2. (q + 1) * p <= t * p
      BY <2>2, <3>1
    <3> QED BY <1>1, <2>2, <3>2
  <2>4. ~ (q > t)
    <3>1. SUFFICES ASSUME q > t PROVE FALSE
      OBVIOUS
    <3> HIDE DEF q
    <3>2. (t + 1) * p <= q * p
      BY <2>2, <3>1
    <3> QED BY <1>1, <1>2, <2>2, <3>2
  <2> HIDE DEF q
  <2> QED BY <2>2, <2>3, <2>4 DEF q
<1> QED BY <1>1, <1>2, <1>3

\* As many whole trees as fit in m leaves are at most the quotient.
LEMMA TreesWithin ==
    ASSUME NEW p \in Nat, p > 0, NEW t \in Nat, NEW m \in Nat, t * p <= m
    PROVE  t <= m \div p
<1> DEFINE q == m \div p
<1>1. q \in Nat /\ m < (q + 1) * p
  OBVIOUS
<1>2. ~ (t >= q + 1)
  <2>1. SUFFICES ASSUME t >= q + 1 PROVE FALSE
    OBVIOUS
  <2> HIDE DEF q
  <2>2. (q + 1) * p <= t * p
    BY <1>1, <2>1
  <2>3. t * p \in Nat /\ (q + 1) * p \in Nat
    BY <1>1
  <2> QED BY <1>1, <2>2, <2>3
<1> HIDE DEF q
<1> QED BY <1>1, <1>2 DEF q

\* Subsequences of an extended sequence.
LEMMA SubSeqOfAppend ==
    ASSUME NEW T, NEW s \in Seq(T), NEW x \in T, NEW lo \in Nat \ {0}
    PROVE  /\ lo <= Len(s) + 1 =>
                SubSeq(Append(s, x), lo, Len(s) + 1) = Append(SubSeq(s, lo, Len(s)), x)
           /\ \A hi \in 0..Len(s) : SubSeq(Append(s, x), lo, hi) = SubSeq(s, lo, hi)
<1>1. ASSUME lo <= Len(s) + 1
      PROVE  SubSeq(Append(s, x), lo, Len(s) + 1) = Append(SubSeq(s, lo, Len(s)), x)
  BY <1>1
<1>2. ASSUME NEW hi \in 0..Len(s)
      PROVE  SubSeq(Append(s, x), lo, hi) = SubSeq(s, lo, hi)
  OBVIOUS
<1> QED BY <1>1, <1>2

\* The capacity of a tree.
LEMMA Capacity ==
    /\ Depth \in Nat /\ Depth > 0 /\ MaxInserts \in Nat /\ Zero \notin Leaf
    /\ MAX_LEAVES = Pow2(Depth) /\ MAX_LEAVES \in Nat /\ MAX_LEAVES > 0
<1>1. Depth \in Nat /\ Depth > 0 /\ MaxInserts \in Nat /\ Zero \notin Leaf
  BY TreeAssumption
<1> QED BY <1>1, Pow2Rules DEF MAX_LEAVES

\* What an insertion does, with the tree and the index it goes to: a tree that
\* is full is followed by the next one.
InsertsAt(leaf, tree, index) ==
    /\ IF IsFull(leafCounts[currentTreeIndex])
       THEN tree = currentTreeIndex + 1 /\ index = 0
       ELSE tree = currentTreeIndex /\ index = leafCounts[currentTreeIndex]
    /\ totalLeaves < MaxInserts
    /\ currentTreeIndex' = tree
    /\ filledSubtrees' = [filledSubtrees EXCEPT ![tree] =
                            ClimbRounds(Start(leaf, index, filledSubtrees[tree]))[Depth].filled]
    /\ leafCounts' = [leafCounts EXCEPT ![tree] = index + 1]
    /\ totalLeaves' = totalLeaves + 1
    /\ currentRoot' = ClimbRounds(Start(leaf, index, filledSubtrees[tree]))[Depth].node
    /\ knownRoots' = knownRoots \cup {currentRoot'}
    /\ inserted' = Append(inserted, leaf)

\* What _insert does, with the tree and the index it chose.
LEMMA InsertLeafAt ==
    ASSUME NEW leaf, InsertLeaf(leaf)
    PROVE  \E tree, index : InsertsAt(leaf, tree, index)
<1> DEFINE full == IsFull(leafCounts[currentTreeIndex])
           tree == IF full THEN currentTreeIndex + 1 ELSE currentTreeIndex
           index == IF full THEN 0 ELSE leafCounts[currentTreeIndex]
           top == ClimbRounds(Start(leaf, index, filledSubtrees[tree]))[Depth]
<1>1. /\ totalLeaves < MaxInserts
      /\ currentTreeIndex' = tree
      /\ filledSubtrees' = [filledSubtrees EXCEPT ![tree] = top.filled]
      /\ leafCounts' = [leafCounts EXCEPT ![tree] = index + 1]
      /\ totalLeaves' = totalLeaves + 1
      /\ currentRoot' = top.node
      /\ knownRoots' = knownRoots \cup {top.node}
      /\ inserted' = Append(inserted, leaf)
  BY DEF InsertLeaf, ClimbRounds, IsClimb, Start
<1>2. IF full THEN tree = currentTreeIndex + 1 /\ index = 0
      ELSE tree = currentTreeIndex /\ index = leafCounts[currentTreeIndex]
  OBVIOUS
<1>3. top = ClimbRounds(Start(leaf, index, filledSubtrees[tree]))[Depth]
  OBVIOUS
<1> HIDE DEF full, tree, index, top
<1>4. InsertsAt(leaf, tree, index)
  BY <1>1, <1>2, <1>3 DEF InsertsAt, full
<1> QED BY <1>4

\* Where an insertion goes there is room, and the stored left nodes are those
\* of the leaves that are there.
LEMMA RoomForInsertion ==
    ASSUME ContractInv, NEW leaf \in Leaf, NEW tree, NEW index, InsertsAt(leaf, tree, index)
    PROVE  /\ tree \in Tree /\ tree \in Nat /\ index \in Nat /\ index < MAX_LEAVES
           /\ Len(inserted) = tree * MAX_LEAVES + index
           /\ tree * MAX_LEAVES \in Nat
           /\ LeavesFrom(inserted, tree) \in Seq(Leaf)
           /\ Len(LeavesFrom(inserted, tree)) = index
           /\ OnLevels(filledSubtrees[tree])
           /\ Filled(LeavesFrom(inserted, tree), filledSubtrees[tree])
<1> DEFINE c == currentTreeIndex
           k == leafCounts[c]
           n == Len(inserted)
<1>1. /\ MAX_LEAVES \in Nat /\ MAX_LEAVES > 0 /\ MaxInserts \in Nat
  BY Capacity
<1>2. /\ c \in Nat /\ c \in Tree /\ k \in 0..MAX_LEAVES /\ n \in Nat
      /\ n = c * MAX_LEAVES + k /\ inserted \in Seq(Leaf) /\ n < MaxInserts
  <2>1. c \in Tree /\ leafCounts \in [Tree -> 0..MAX_LEAVES] /\ inserted \in Seq(Leaf)
    BY DEF ContractInv, TypeOK
  <2>2. c \in Nat
    BY <2>1, <1>1 DEF Tree
  <2>3. n = totalLeaves /\ totalLeaves = c * MAX_LEAVES + k
    BY DEF ContractInv, CountsMatch
  <2>4. totalLeaves < MaxInserts
    BY DEF InsertsAt
  <2> QED BY <2>1, <2>2, <2>3, <2>4
<1>3. IF k >= MAX_LEAVES THEN tree = c + 1 /\ index = 0 ELSE tree = c /\ index = k
  BY DEF InsertsAt, IsFull
<1>4. c * MAX_LEAVES \in Nat /\ (c + 1) * MAX_LEAVES = c * MAX_LEAVES + MAX_LEAVES
  <2>1. c \in Nat /\ MAX_LEAVES \in Nat
    BY <1>1, <1>2
  <2> HIDE DEF c
  <2> QED BY <2>1
<1>5. Filled(LeavesFrom(inserted, c), filledSubtrees[c])
  BY DEF ContractInv, NodesMatch
<1>6. \A t \in Tree : OnLevels(filledSubtrees[t])
  BY DEF ContractInv, NodesMatch
<1> HIDE DEF c, k, n
<1>7. tree \in Nat /\ index \in Nat /\ index < MAX_LEAVES
  BY <1>1, <1>2, <1>3
<1>8. n = tree * MAX_LEAVES + index /\ tree * MAX_LEAVES \in Nat
  <2>1. CASE k >= MAX_LEAVES
    BY <2>1, <1>1, <1>2, <1>3, <1>4
  <2>2. CASE ~ (k >= MAX_LEAVES)
    BY <2>2, <1>1, <1>2, <1>3, <1>4
  <2> QED BY <2>1, <2>2
<1>9. tree \in Tree
  <2>1. tree * MAX_LEAVES <= MaxInserts
    BY <1>1, <1>2, <1>7, <1>8
  <2>2. tree <= MaxInserts \div MAX_LEAVES
    BY <2>1, <1>1, <1>7, TreesWithin
  <2>3. MaxInserts \div MAX_LEAVES \in Nat
    BY <1>1, Quotient
  <2> QED BY <2>2, <2>3, <1>7 DEF Tree
<1>10. LeavesFrom(inserted, tree) \in Seq(Leaf) /\ Len(LeavesFrom(inserted, tree)) = index
  <2> DEFINE a == tree * MAX_LEAVES
  <2>1. a \in Nat /\ Len(inserted) = a + index /\ inserted \in Seq(Leaf)
    BY <1>2, <1>8 DEF n
  <2>2. LeavesFrom(inserted, tree) = SubSeq(inserted, a + 1, Len(inserted))
    BY DEF LeavesFrom
  <2> HIDE DEF a
  <2>3. SubSeq(inserted, a + 1, Len(inserted)) \in Seq(Leaf)
    BY <2>1
  <2>4. Len(SubSeq(inserted, a + 1, Len(inserted))) = index
    BY <2>1, <1>7
  <2> QED BY <2>2, <2>3, <2>4
<1>11. Filled(LeavesFrom(inserted, tree), filledSubtrees[tree])
  <2>1. CASE k >= MAX_LEAVES
    <3>1. Len(LeavesFrom(inserted, tree)) = 0
      BY <2>1, <1>3, <1>10
    <3>2. ASSUME NEW d \in 0..(Depth - 1) PROVE Up(0, d) % 2 = 0
      <4>1. Pow2(d) \in Nat /\ Pow2(d) > 0
        BY Capacity, Pow2Rules
      <4>2. Up(0, d) = 0
        BY <4>1, Quotient DEF Up
      <4> QED BY <4>2
    <3> QED BY <3>1, <3>2 DEF Filled
  <2>2. CASE ~ (k >= MAX_LEAVES)
    BY <2>2, <1>3, <1>5
  <2> QED BY <2>1, <2>2
<1> QED BY <1>6, <1>7, <1>8, <1>9, <1>10, <1>11 DEF n

\* What an insertion does to the leaves of its tree and to those before.
Extended(new, s, leaf, tree) ==
    /\ LeavesFrom(new, tree) = Append(LeavesFrom(s, tree), leaf)
    /\ TreeOf(new, Len(new)) = Append(LeavesFrom(s, tree), leaf)
    /\ \A n \in 1..Len(s) : TreeOf(new, n) = TreeOf(s, n)
    /\ Len(new) = Len(s) + 1 /\ new \in Seq(Leaf)
    /\ RootsOf(new) = RootsOf(s) \cup {FullRoot(TreeOf(new, Len(new)), Depth)}

\* What an insertion does to the leaves of the current tree and to the trees
\* after every leaf.
LEMMA InsertedLeaves ==
    ASSUME NEW s \in Seq(Leaf), NEW leaf \in Leaf, NEW tree \in Nat, NEW index \in Nat,
           index < MAX_LEAVES, tree * MAX_LEAVES \in Nat, Len(s) = tree * MAX_LEAVES + index,
           NEW new, new = Append(s, leaf)
    PROVE  Extended(new, s, leaf, tree)
<1>1. MAX_LEAVES \in Nat /\ MAX_LEAVES > 0
  BY Capacity
<1>2. Len(new) = Len(s) + 1 /\ new \in Seq(Leaf) /\ Len(s) \in Nat
  OBVIOUS
<1> DEFINE a == tree * MAX_LEAVES
<1>3. a \in Nat /\ Len(s) = a + index
  OBVIOUS
<1>4. LeavesFrom(new, tree) = SubSeq(new, a + 1, Len(new)) /\ LeavesFrom(s, tree) = SubSeq(s, a + 1, Len(s))
  BY DEF LeavesFrom
<1>5. (Len(new) - 1) \div MAX_LEAVES = tree
  <2>1. (tree * MAX_LEAVES + index) \div MAX_LEAVES = tree
    BY <1>1, TreeNumbers
  <2>2. Len(new) - 1 = tree * MAX_LEAVES + index
    BY <1>2
  <2> QED BY <2>1, <2>2
<1>6. TreeOf(new, Len(new)) = SubSeq(new, a + 1, Len(new))
  BY <1>5 DEF TreeOf
<1> HIDE DEF a
<1>7. SubSeq(Append(s, leaf), a + 1, Len(s) + 1) = Append(SubSeq(s, a + 1, Len(s)), leaf)
  <2>1. a + 1 \in Nat \ {0} /\ a + 1 <= Len(s) + 1
    BY <1>3
  <2> QED BY <2>1, SubSeqOfAppend
<1>8. ASSUME NEW n \in 1..Len(s) PROVE TreeOf(new, n) = TreeOf(s, n)
  <2> DEFINE b == ((n - 1) \div MAX_LEAVES) * MAX_LEAVES
  <2>1. b \in Nat
    <3>1. n - 1 \in Nat
      OBVIOUS
    <3>2. (n - 1) \div MAX_LEAVES \in Nat
      BY <3>1, <1>1, Quotient
    <3> QED BY <3>2, <1>1
  <2>2. TreeOf(new, n) = SubSeq(new, b + 1, n) /\ TreeOf(s, n) = SubSeq(s, b + 1, n)
    BY DEF TreeOf
  <2> HIDE DEF b
  <2>3. b + 1 \in Nat \ {0} /\ n \in 0..Len(s)
    BY <2>1
  <2>4. SubSeq(Append(s, leaf), b + 1, n) = SubSeq(s, b + 1, n)
    BY <2>3, SubSeqOfAppend
  <2> QED BY <2>2, <2>4
<1>9. RootsOf(new) = RootsOf(s) \cup {FullRoot(TreeOf(new, Len(new)), Depth)}
  <2>1. 1..Len(new) = (1..Len(s)) \cup {Len(new)}
    BY <1>2
  <2> DEFINE R(n) == FullRoot(TreeOf(new, n), Depth)
             Q(n) == FullRoot(TreeOf(s, n), Depth)
  <2>2. \A n \in 1..Len(s) : R(n) = Q(n)
    BY <1>8
  <2>3. RootsOf(new) = {R(n) : n \in 1..Len(new)} /\ RootsOf(s) = {Q(n) : n \in 1..Len(s)}
    BY DEF RootsOf
  <2> HIDE DEF R, Q
  <2>4. {R(n) : n \in 1..Len(new)} = {Q(n) : n \in 1..Len(s)} \cup {R(Len(new))}
    BY <2>1, <2>2
  <2> QED BY <2>3, <2>4 DEF R
<1> QED BY <1>2, <1>4, <1>6, <1>7, <1>8, <1>9 DEF Extended

\* Before the first insertion.
LEMMA ContractInvInit ==
    ASSUME Init PROVE ContractInv
<1>1. /\ MAX_LEAVES \in Nat /\ MAX_LEAVES > 0 /\ MaxInserts \in Nat /\ Depth \in Nat
  BY Capacity
<1>2. /\ filledSubtrees = [t \in Tree |-> [level \in 0..(Depth - 1) |-> Zero]]
      /\ leafCounts = [t \in Tree |-> 0] /\ currentTreeIndex = 0 /\ totalLeaves = 0
      /\ knownRoots = {} /\ inserted = <<>>
  BY DEF Init
<1>3. 0 \in Tree
  <2>1. MaxInserts \div MAX_LEAVES \in Nat
    BY <1>1, Quotient
  <2> QED BY <2>1 DEF Tree
<1>4. TypeOK
  <2>1. inserted \in Seq(Leaf)
    BY <1>2
  <2>2. leafCounts \in [Tree -> 0..MAX_LEAVES]
    BY <1>1, <1>2
  <2> QED BY <1>1, <1>2, <1>3, <2>1, <2>2 DEF TypeOK
<1>5. CountsMatch
  <2>1. leafCounts[currentTreeIndex] = 0
    BY <1>2, <1>3
  <2>2. Len(inserted) = 0 /\ 0 * MAX_LEAVES + 0 = 0
    BY <1>1, <1>2
  <2> QED BY <1>2, <2>1, <2>2 DEF CountsMatch
<1>6. NodesMatch
  <2>1. filledSubtrees = [t \in Tree |-> filledSubtrees[t]]
    BY <1>2
  <2>2. \A t \in Tree : OnLevels(filledSubtrees[t])
    BY <1>2 DEF OnLevels
  <2>3. Len(LeavesFrom(inserted, currentTreeIndex)) = 0
    <3>1. inserted = <<>> /\ Len(inserted) = 0 /\ currentTreeIndex * MAX_LEAVES + 1 = 1
      BY <1>1, <1>2
    <3> QED BY <3>1 DEF LeavesFrom
  <2>4. ASSUME NEW d \in 0..(Depth - 1) PROVE Up(0, d) % 2 = 0
    <3>1. Pow2(d) \in Nat /\ Pow2(d) > 0
      BY Capacity, Pow2Rules
    <3>2. Up(0, d) = 0
      BY <3>1, Quotient DEF Up
    <3> QED BY <3>2
  <2>5. Filled(LeavesFrom(inserted, currentTreeIndex), filledSubtrees[currentTreeIndex])
    BY <2>3, <2>4 DEF Filled
  <2> QED BY <2>1, <2>2, <2>5 DEF NodesMatch
<1>7. RootsMatch
  <2>1. 1..Len(inserted) = {}
    BY <1>2
  <2>2. RootsOf(inserted) = {}
    BY <2>1 DEF RootsOf
  <2> QED BY <1>2, <2>2 DEF RootsMatch
<1> QED BY <1>4, <1>5, <1>6, <1>7 DEF ContractInv

\* An insertion, in the current tree or in the one after it.
LEMMA ContractInvStep ==
    ASSUME ContractInv, NEW leaf \in Leaf, InsertLeaf(leaf)
    PROVE  ContractInv'
<1>1. PICK tree, index : InsertsAt(leaf, tree, index)
  BY InsertLeafAt
<1>2. /\ tree \in Tree /\ tree \in Nat /\ index \in Nat /\ index < MAX_LEAVES
      /\ Len(inserted) = tree * MAX_LEAVES + index
      /\ tree * MAX_LEAVES \in Nat
      /\ LeavesFrom(inserted, tree) \in Seq(Leaf)
      /\ Len(LeavesFrom(inserted, tree)) = index
      /\ OnLevels(filledSubtrees[tree])
      /\ Filled(LeavesFrom(inserted, tree), filledSubtrees[tree])
  BY <1>1, RoomForInsertion
<1>3. MAX_LEAVES \in Nat /\ MAX_LEAVES > 0 /\ MaxInserts \in Nat
  BY Capacity
<1> DEFINE lvs == LeavesFrom(inserted, tree)
           top == ClimbRounds(Start(leaf, index, filledSubtrees[tree]))[Depth]
<1>4. /\ totalLeaves < MaxInserts
      /\ currentTreeIndex' = tree
      /\ filledSubtrees' = [filledSubtrees EXCEPT ![tree] = top.filled]
      /\ leafCounts' = [leafCounts EXCEPT ![tree] = index + 1]
      /\ totalLeaves' = totalLeaves + 1
      /\ currentRoot' = top.node
      /\ knownRoots' = knownRoots \cup {currentRoot'}
      /\ inserted' = Append(inserted, leaf)
  BY <1>1 DEF InsertsAt
<1>5. /\ top.node = FullRoot(Append(lvs, leaf), Depth)
      /\ OnLevels(top.filled)
      /\ Filled(Append(lvs, leaf), top.filled)
  <2> HIDE DEF lvs
  <2>1. lvs \in Seq(Leaf) /\ Len(lvs) = index /\ Filled(lvs, filledSubtrees[tree])
    BY <1>2 DEF lvs
  <2> QED BY <1>2, <2>1, ClimbComputes
<1> HIDE DEF top
<1>6. /\ inserted \in Seq(Leaf) /\ leafCounts \in [Tree -> 0..MAX_LEAVES] /\ totalLeaves \in 0..MaxInserts
  BY DEF ContractInv, TypeOK
<1>7. Len(inserted) = totalLeaves
  BY DEF ContractInv, CountsMatch
<1>8. /\ LeavesFrom(inserted', tree) = Append(lvs, leaf)
      /\ TreeOf(inserted', Len(inserted')) = Append(lvs, leaf)
      /\ Len(inserted') = Len(inserted) + 1 /\ inserted' \in Seq(Leaf)
      /\ RootsOf(inserted') = RootsOf(inserted) \cup {FullRoot(TreeOf(inserted', Len(inserted')), Depth)}
  <2> DEFINE s == inserted
             new == inserted'
  <2>1. /\ s \in Seq(Leaf) /\ tree \in Nat /\ index \in Nat /\ index < MAX_LEAVES
        /\ tree * MAX_LEAVES \in Nat /\ Len(s) = tree * MAX_LEAVES + index
        /\ new = Append(s, leaf)
    BY <1>2, <1>4, <1>6
  <2> HIDE DEF s, new
  <2>2. Extended(new, s, leaf, tree)
    BY <2>1, InsertedLeaves
  <2> QED BY <2>2 DEF s, new, Extended, lvs
<1> HIDE DEF lvs
<1>9. leafCounts'[tree] = index + 1
  BY <1>2, <1>4, <1>6
<1>10. TypeOK'
  <2>1. leafCounts' \in [Tree -> 0..MAX_LEAVES]
    <3>1. index + 1 \in 0..MAX_LEAVES
      BY <1>2, <1>3
    <3> QED BY <3>1, <1>4, <1>6
  <2>2. totalLeaves' \in 0..MaxInserts
    BY <1>3, <1>4, <1>6
  <2> QED BY <2>1, <2>2, <1>2, <1>4, <1>8 DEF TypeOK, Tree
<1>11. CountsMatch'
  <2>1. Len(inserted') = totalLeaves'
    BY <1>4, <1>7, <1>8
  <2>2. totalLeaves' = tree * MAX_LEAVES + (index + 1)
    BY <1>2, <1>4, <1>7
  <2>3. leafCounts'[tree] # 0
    BY <1>2, <1>9
  <2> QED BY <2>1, <2>2, <2>3, <1>4, <1>9 DEF CountsMatch, MAX_LEAVES
<1>12. NodesMatch'
  <2>1. filledSubtrees = [t \in Tree |-> filledSubtrees[t]] /\ \A t \in Tree : OnLevels(filledSubtrees[t])
    BY DEF ContractInv, NodesMatch
  <2>2. filledSubtrees' = [t \in Tree |-> filledSubtrees'[t]]
    BY <2>1, <1>4
  <2>3. filledSubtrees'[tree] = top.filled
    BY <2>1, <1>2, <1>4
  <2>4. ASSUME NEW t \in Tree PROVE OnLevels(filledSubtrees'[t])
    <3>1. CASE t = tree
      BY <3>1, <2>3, <1>5
    <3>2. CASE t # tree
      <4>1. filledSubtrees'[t] = filledSubtrees[t]
        BY <3>2, <2>1, <1>4
      <4> QED BY <4>1, <2>1
    <3> QED BY <3>1, <3>2
  <2>5. Filled(LeavesFrom(inserted', currentTreeIndex'), filledSubtrees'[currentTreeIndex'])
    BY <2>3, <1>4, <1>5, <1>8
  <2> QED BY <2>2, <2>4, <2>5 DEF NodesMatch, Tree, MAX_LEAVES, OnLevels, Filled, LeavesFrom
<1>13. RootsMatch'
  <2>1. currentRoot' = FullRoot(TreeOf(inserted', totalLeaves'), Depth)
    BY <1>4, <1>5, <1>7, <1>8
  <2>2. knownRoots = RootsOf(inserted)
    BY DEF ContractInv, RootsMatch
  <2>3. knownRoots' = RootsOf(inserted')
    BY <2>1, <2>2, <1>4, <1>7, <1>8
  <2> QED BY <2>1, <2>3 DEF RootsMatch
<1> QED BY <1>10, <1>11, <1>12, <1>13 DEF ContractInv

\* What leaves the contract alone.
LEMMA ContractInvStutter ==
    ASSUME ContractInv, UNCHANGED contractVars
    PROVE  ContractInv'
BY DEF ContractInv, contractVars, TypeOK, CountsMatch, NodesMatch, RootsMatch

\* The contract's tree is, after every sequence of insertions, what it should
\* be: the counts add up across rotations, every stored left node that the
\* next insertion needs is the node of the full tree, and the known roots are
\* exactly the roots of the trees after every leaf.
THEOREM ContractInvariant == Spec => []ContractInv
<1>1. Init => ContractInv
  BY ContractInvInit
<1>2. ContractInv /\ [Next]_contractVars => ContractInv'
  <2>1. SUFFICES ASSUME ContractInv, [Next]_contractVars PROVE ContractInv'
    OBVIOUS
  <2>2. CASE UNCHANGED contractVars
    BY <2>1, <2>2, ContractInvStutter
  <2>3. CASE Next
    <3>1. PICK leaf \in Leaf : InsertLeaf(leaf)
      BY <2>3 DEF Next
    <3> QED BY <3>1, <2>1, ContractInvStep
  <2> QED BY <2>1, <2>2, <2>3
<1> QED BY <1>1, <1>2, PTL DEF Spec

-----------------------------------------------------------------------------
\* The abstract tree

TreesOf(s) == {TreeOf(s, n) : n \in 1..Len(s)}

\* The leaves of the tree of an inserted leaf, up to it, are those of one tree.
LEMMA TreeOfType ==
    ASSUME NEW s \in Seq(Leaf), NEW n \in 1..Len(s)
    PROVE  /\ TreeOf(s, n) \in TreeLeaves
           /\ TreeOf(s, n) \in Seq(Leaf)
           /\ Len(TreeOf(s, n)) \in 1..MAX_LEAVES
<1>1. MAX_LEAVES \in Nat /\ MAX_LEAVES > 0
  BY Capacity
<1> DEFINE q == (n - 1) \div MAX_LEAVES
           a == q * MAX_LEAVES
<1>2. n \in Nat /\ n >= 1 /\ n <= Len(s) /\ n - 1 \in Nat
  OBVIOUS
<1>3. q \in Nat
  BY <1>1, <1>2, Quotient
<1>4. a \in Nat /\ a <= n - 1 /\ n - 1 < a + MAX_LEAVES
  <2>1. q * MAX_LEAVES <= n - 1 /\ n - 1 < (q + 1) * MAX_LEAVES
    BY <1>1, <1>2
  <2> HIDE DEF q
  <2>2. (q + 1) * MAX_LEAVES = q * MAX_LEAVES + MAX_LEAVES /\ q * MAX_LEAVES \in Nat
    BY <1>1, <1>3
  <2> QED BY <2>1, <2>2
<1>5. TreeOf(s, n) = SubSeq(s, a + 1, n)
  BY DEF TreeOf
<1> HIDE DEF a
<1> DEFINE m == n - a
<1>6. m \in 1..MAX_LEAVES
  BY <1>1, <1>2, <1>4
<1> DEFINE t == TreeOf(s, n)
<1>7. t \in Seq(Leaf)
  BY <1>2, <1>4, <1>5
<1>8. Len(t) = m
  BY <1>2, <1>4, <1>5
<1> HIDE DEF m, t
<1>9. t \in [1..m -> Leaf]
  BY <1>7, <1>8
<1> QED BY <1>6, <1>7, <1>8, <1>9 DEF TreeLeaves, t

\* The abstract known roots are the trees after every leaf.
LEMMA AbstractRoots ==
    ASSUME NEW s \in Seq(Leaf), NEW roots, roots = RootsOf(s)
    PROVE  {lvs \in TreeLeaves : RootOf[lvs] \in roots} = TreesOf(s)
<1>1. ASSUME NEW n \in 1..Len(s)
      PROVE  TreeOf(s, n) \in TreeLeaves /\ RootOf[TreeOf(s, n)] \in roots
  <2>1. TreeOf(s, n) \in TreeLeaves
    BY TreeOfType
  <2>2. RootOf[TreeOf(s, n)] = FullRoot(TreeOf(s, n), Depth)
    BY <2>1 DEF RootOf
  <2> QED BY <2>1, <2>2 DEF RootsOf
<1>2. ASSUME NEW lvs \in TreeLeaves, RootOf[lvs] \in roots
      PROVE  \E n \in 1..Len(s) : lvs = TreeOf(s, n)
  <2>1. FullRoot(lvs, Depth) \in RootsOf(s)
    BY <1>2 DEF RootOf
  <2>2. PICK n \in 1..Len(s) : FullRoot(lvs, Depth) = FullRoot(TreeOf(s, n), Depth)
    BY <2>1 DEF RootsOf
  <2>3. TreeOf(s, n) \in TreeLeaves
    BY TreeOfType
  <2> QED BY <2>2, <2>3, TreeLeavesInjective
<1> QED BY <1>1, <1>2 DEF TreesOf

\* An insertion of the contract is one of the abstract tree.
LEMMA InsertionRefines ==
    ASSUME ContractInv, ContractInv', NEW leaf \in Leaf, InsertLeaf(leaf)
    PROVE  Abstract!Insert(<<leaf>>)
<1>1. PICK tree, index : InsertsAt(leaf, tree, index)
  BY InsertLeafAt
<1> DEFINE s == inserted
           new == inserted'
           old == {lvs \in TreeLeaves : RootOf[lvs] \in knownRoots}
           now == {lvs \in TreeLeaves : RootOf[lvs] \in knownRoots'}
<1>2. s \in Seq(Leaf) /\ knownRoots = RootsOf(s)
  BY DEF ContractInv, TypeOK, RootsMatch
<1>3. new \in Seq(Leaf) /\ knownRoots' = RootsOf(new)
  BY DEF ContractInv, TypeOK, RootsMatch, RootsOf, TreeOf, MAX_LEAVES
<1>4. new = Append(s, leaf)
  BY <1>1 DEF InsertsAt
<1>5. /\ tree \in Nat /\ index \in Nat /\ index < MAX_LEAVES
      /\ tree * MAX_LEAVES \in Nat /\ Len(s) = tree * MAX_LEAVES + index
  BY <1>1, RoomForInsertion
<1>6. Extended(new, s, leaf, tree)
  <2> HIDE DEF s, new
  <2> QED BY <1>2, <1>4, <1>5, InsertedLeaves
<1>7. old = TreesOf(s)
  <2> HIDE DEF s
  <2> QED BY <1>2, AbstractRoots
<1>8. now = TreesOf(new)
  <2> DEFINE roots == knownRoots'
  <2> HIDE DEF new, roots
  <2>1. {lvs \in TreeLeaves : RootOf[lvs] \in roots} = TreesOf(new)
    BY <1>3, AbstractRoots DEF roots
  <2> QED BY <2>1 DEF roots
<1> HIDE DEF s, new, old, now
<1>9. new = s \o <<leaf>> /\ Len(new) = Len(s) + 1 /\ Len(s) \in Nat
  BY <1>2, <1>4
<1>10. TreesOf(new) = TreesOf(s) \cup {TreeOf(new, Len(new))}
  <2>1. 1..Len(new) = (1..Len(s)) \cup {Len(new)}
    BY <1>9
  <2>2. \A n \in 1..Len(s) : TreeOf(new, n) = TreeOf(s, n)
    BY <1>6 DEF Extended
  <2>3. {TreeOf(new, n) : n \in 1..Len(new)} = {TreeOf(s, n) : n \in 1..Len(s)} \cup {TreeOf(new, Len(new))}
    BY <2>1, <2>2
  <2> QED BY <2>3 DEF TreesOf
<1>11. {TreeOf(new, n) : n \in (Len(s) + 1)..Len(new)} = {TreeOf(new, Len(new))}
  <2>1. (Len(s) + 1)..Len(new) = {Len(new)}
    BY <1>9
  <2> QED BY <2>1
<1>12. now = old \cup {TreeOf(new, n) : n \in (Len(s) + 1)..Len(new)}
  BY <1>7, <1>8, <1>10, <1>11
<1> QED BY <1>9, <1>12 DEF Abstract!Insert, Abstract!RootAfter, TreeOf, s, new, old, now

\* ImplementsCommitmentTree: the incremental algorithm over hashes, with its
\* rotation, implements the tree of leaves the pool is specified with, for
\* every depth.
THEOREM TreeImplementsCommitmentTree == Spec => ImplementsCommitmentTree
<1>1. Init => Abstract!InitTree
  <2>1. SUFFICES ASSUME Init PROVE Abstract!InitTree
    OBVIOUS
  <2>2. inserted = <<>> /\ knownRoots = {}
    BY <2>1 DEF Init
  <2> QED BY <2>2 DEF Abstract!InitTree
<1>2. ContractInv /\ ContractInv' /\ [Next]_contractVars =>
        [\E note \in Leaf : Abstract!Insert(<<note>>)]_<<inserted,
           {lvs \in TreeLeaves : RootOf[lvs] \in knownRoots}>>
  <2>1. SUFFICES ASSUME ContractInv, ContractInv', [Next]_contractVars
        PROVE [\E note \in Leaf : Abstract!Insert(<<note>>)]_<<inserted,
                 {lvs \in TreeLeaves : RootOf[lvs] \in knownRoots}>>
    OBVIOUS
  <2>2. CASE UNCHANGED contractVars
    <3>1. inserted' = inserted /\ knownRoots' = knownRoots
      BY <2>2 DEF contractVars
    <3>2. RootOf' = RootOf /\ TreeLeaves' = TreeLeaves
      BY DEF RootOf, TreeLeaves, MAX_LEAVES, FullRoot
    <3> QED BY <3>1, <3>2
  <2>3. CASE Next
    <3>1. PICK leaf \in Leaf : InsertLeaf(leaf)
      BY <2>3 DEF Next
    <3>2. Abstract!Insert(<<leaf>>)
      BY <3>1, <2>1, InsertionRefines
    <3> QED BY <3>2
  <2> QED BY <2>1, <2>2, <2>3
<1> QED BY <1>1, <1>2, ContractInvariant, PTL
        DEF Spec, ImplementsCommitmentTree, Abstract!TreeSpec

-----------------------------------------------------------------------------
\* What a path can be found for

\* The paths made of nodes of the full tree, a node of each level.
PathsIn(lvs) ==
    LET tree == FullTree(lvs, Depth)
        within == [level \in 0..(Depth - 1) |-> {tree[level][i] : i \in DOMAIN tree[level]}]
    IN {s \in [0..(Depth - 1) -> UNION {within[d] : d \in DOMAIN within}] :
          \A d \in DOMAIN s : s[d] \in within[d]}

\* The path of a leaf of the tree is made of its nodes.
LEMMA PathInTree ==
    ASSUME NEW lvs, NEW index \in 0..(MAX_LEAVES - 1)
    PROVE  TreePath(lvs, Depth, index) \in PathsIn(lvs)
<1> DEFINE tree == FullTree(lvs, Depth)
           within == [level \in 0..(Depth - 1) |-> {tree[level][i] : i \in DOMAIN tree[level]}]
           path == TreePath(lvs, Depth, index)
<1>0. Depth \in Nat /\ Depth > 0 /\ index \in 0..(Pow2(Depth) - 1) /\ index \in Nat
  BY Capacity
<1>1. ASSUME NEW d \in 0..(Depth - 1) PROVE path[d] \in within[d]
  <2>1. d \in Nat /\ d < Depth /\ d \in 0..Depth
    BY <1>0
  <2>2. Has(Depth, d, Up(index, d))
    BY <1>0, <2>1, UpRange DEF Has
  <2>3. Has(Depth, d, Sibling(Up(index, d)))
    BY <1>0, <2>1, <2>2, Siblings
  <2>4. Sibling(Up(index, d)) \in DOMAIN tree[d]
    BY <1>0, <2>1, <2>3, TreeRules
  <2>5. path[d] = tree[d][Sibling(Up(index, d))]
    BY DEF TreePath, At
  <2> HIDE DEF tree, path
  <2> QED BY <2>4, <2>5
<1>2. DOMAIN path = 0..(Depth - 1) /\ path = [d \in 0..(Depth - 1) |-> path[d]]
  BY DEF TreePath
<1>3. DOMAIN within = 0..(Depth - 1)
  OBVIOUS
<1> HIDE DEF path, within
<1>4. path \in [0..(Depth - 1) -> UNION {within[d] : d \in DOMAIN within}]
  BY <1>1, <1>2, <1>3
<1>5. path \in {s \in [0..(Depth - 1) -> UNION {within[d] : d \in DOMAIN within}] :
                   \A d \in DOMAIN s : s[d] \in within[d]}
  BY <1>1, <1>2, <1>4
<1> QED BY <1>5 DEF PathsIn, path, within

\* With nodes of the tree as siblings, exactly the leaf at the index leads to
\* the root.
LEMMA ProvableAt ==
    ASSUME NEW lvs \in Seq(Leaf), NEW index \in 0..(MAX_LEAVES - 1)
    PROVE  {leaf \in Leaf : \E s \in PathsIn(lvs) :
                PathRoot(leaf, s, Bits(index, Depth), Depth) = FullRoot(lvs, Depth)}
             = IF index < Len(lvs) THEN {lvs[index + 1]} ELSE {}
<1>0. /\ Depth \in Nat /\ index \in 0..(Pow2(Depth) - 1) /\ index \in Nat
      /\ Zero \notin Leaf
  BY Capacity
<1>1. ASSUME NEW leaf \in Leaf, NEW s \in PathsIn(lvs),
             PathRoot(leaf, s, Bits(index, Depth), Depth) = FullRoot(lvs, Depth)
      PROVE  leaf = LeafAt(lvs, index)
  BY <1>0, <1>1, PathFromRoot
<1>2. \E s \in PathsIn(lvs) :
         PathRoot(LeafAt(lvs, index), s, Bits(index, Depth), Depth) = FullRoot(lvs, Depth)
  BY <1>0, PathInTree, TreePathLeads
<1>3. CASE index < Len(lvs)
  <2>1. LeafAt(lvs, index) = lvs[index + 1] /\ lvs[index + 1] \in Leaf
    BY <1>0, <1>3 DEF LeafAt
  <2> QED BY <1>1, <1>2, <1>3, <2>1
<1>4. CASE ~ (index < Len(lvs))
  <2>1. LeafAt(lvs, index) = Zero
    BY <1>4 DEF LeafAt
  <2> QED BY <1>0, <1>1, <1>4, <2>1
<1> QED BY <1>3, <1>4

\* ProvableAreInserted: whatever the depth and the insertions, the leaves that
\* can be proved against the current root are those of its tree, each at its
\* own index.
THEOREM ProvableLeavesInserted == Spec => []ProvableAreInserted
<1>1. ContractInv => ProvableAreInserted
  <2>1. SUFFICES ASSUME ContractInv, totalLeaves > 0, NEW index \in 0..(MAX_LEAVES - 1)
        PROVE  {leaf \in Leaf : \E s \in PathsIn(Prefix(totalLeaves)) :
                  PathRoot(leaf, s, Bits(index, Depth), Depth) = currentRoot}
                 = IF index < Len(Prefix(totalLeaves)) THEN {Prefix(totalLeaves)[index + 1]} ELSE {}
    BY DEF ProvableAreInserted, PathsIn
  <2> DEFINE lvs == Prefix(totalLeaves)
  <2>2. lvs = TreeOf(inserted, totalLeaves)
    BY DEF Prefix, TreeOf
  <2>3. currentRoot = FullRoot(lvs, Depth)
    BY <2>1, <2>2 DEF ContractInv, RootsMatch
  <2>4. lvs \in Seq(Leaf)
    <3>1. inserted \in Seq(Leaf) /\ totalLeaves \in 1..Len(inserted)
      BY <2>1 DEF ContractInv, TypeOK, CountsMatch
    <3> QED BY <3>1, <2>2, TreeOfType
  <2> HIDE DEF lvs
  <2>5. {leaf \in Leaf : \E s \in PathsIn(lvs) :
           PathRoot(leaf, s, Bits(index, Depth), Depth) = FullRoot(lvs, Depth)}
             = IF index < Len(lvs) THEN {lvs[index + 1]} ELSE {}
    BY <2>1, <2>4, ProvableAt
  <2> QED BY <2>3, <2>5 DEF lvs
<1> QED BY <1>1, ContractInvariant, PTL

-----------------------------------------------------------------------------
\* The sequencer's copy

\* A node that was set, and the others.
LEMMA NodeOfSet ==
    ASSUME NEW ns, NEW level, NEW index, NEW value, NEW d, NEW i
    PROVE  Node(SetNode(ns, level, index, value), d, i)
             = IF d = level /\ i = index THEN value ELSE Node(ns, d, i)
<1> DEFINE new == SetNode(ns, level, index, value)
<1>1. DOMAIN new = DOMAIN ns \cup {<<level, index>>}
  BY DEF SetNode
<1>2. \A at \in DOMAIN new : new[at] = IF at = <<level, index>> THEN value ELSE ns[at]
  BY DEF SetNode
<1>3. <<d, i>> = <<level, index>> <=> d = level /\ i = index
  OBVIOUS
<1> HIDE DEF new
<1>4. CASE d = level /\ i = index
  <2>1. <<d, i>> \in DOMAIN new /\ new[<<d, i>>] = value
    BY <1>1, <1>2, <1>3, <1>4
  <2> QED BY <2>1, <1>4 DEF Node, new
<1>5. CASE ~ (d = level /\ i = index)
  <2>1. <<d, i>> \in DOMAIN new <=> <<d, i>> \in DOMAIN ns
    BY <1>1, <1>3, <1>5
  <2>2. <<d, i>> \in DOMAIN new => new[<<d, i>>] = ns[<<d, i>>]
    BY <1>2, <1>3, <1>5
  <2> QED BY <2>1, <2>2, <1>5 DEF Node, new
<1> QED BY <1>4, <1>5

MirrorRound(from, n, level) ==
    LET index == n \div Pow2(level)
        up == Parent(from.node, Node(from.nodes, level, Sibling(index)), index % 2)
    IN [node |-> up, nodes |-> SetNode(from.nodes, level + 1, index \div 2, up)]

IsMirrorClimb(f, from, n, m) ==
    f = [level \in 0..m |->
            IF level = 0 THEN from
            ELSE LET index == n \div Pow2(level - 1)
                     below == f[level - 1]
                     up == Parent(below.node, Node(below.nodes, level - 1, Sibling(index)), index % 2)
                 IN [node |-> up, nodes |-> SetNode(below.nodes, level, index \div 2, up)]]

\* The rounds of the mirror's insert are those of its recursive definition.
LEMMA MirrorClimbRounds ==
    ASSUME NEW f, NEW from, NEW n, NEW m \in Nat
    PROVE  IsMirrorClimb(f, from, n, m) <=>
             f = [level \in 0..m |-> IF level = 0 THEN from ELSE MirrorRound(f[level - 1], n, level - 1)]
<1>1. ASSUME NEW level \in 0..m
      PROVE  MirrorRound(f[level - 1], n, level - 1) =
               LET index == n \div Pow2(level - 1)
                   below == f[level - 1]
                   up == Parent(below.node, Node(below.nodes, level - 1, Sibling(index)), index % 2)
               IN [node |-> up, nodes |-> SetNode(below.nodes, level, index \div 2, up)]
  <2>1. (level - 1) + 1 = level
    OBVIOUS
  <2> QED BY <2>1 DEF MirrorRound
<1> QED BY <1>1 DEF IsMirrorClimb

\* The recursive definition of the climb of the copy has a solution.
LEMMA MirrorClimbExists ==
    ASSUME NEW from, NEW n
    PROVE  \A m \in Nat : \E f : IsMirrorClimb(f, from, n, m)
<1> DEFINE S == {m \in Nat : \E f : IsMirrorClimb(f, from, n, m)}
<1>1. 0 \in S
  <2> DEFINE f == [i \in 0..0 |-> from]
  <2>1. IsMirrorClimb(f, from, n, 0)
    BY DEF IsMirrorClimb
  <2> QED BY <2>1
<1>2. ASSUME NEW m \in Nat, m \in S PROVE m + 1 \in S
  <2>0. m + 1 \in Nat
    OBVIOUS
  <2>1. PICK g : IsMirrorClimb(g, from, n, m)
    BY <1>2
  <2> DEFINE f == [d \in 0..(m + 1) |-> IF d = m + 1 THEN MirrorRound(g[m], n, m) ELSE g[d]]
  <2>2. g = [d \in 0..m |-> IF d = 0 THEN from ELSE MirrorRound(g[d - 1], n, d - 1)]
    BY <2>1, MirrorClimbRounds
  <2>3. ASSUME NEW d \in 0..(m + 1)
        PROVE  f[d] = IF d = 0 THEN from ELSE MirrorRound(f[d - 1], n, d - 1)
    <3>1. CASE d = 0
      BY <3>1, <2>2
    <3>2. CASE d # 0 /\ d # m + 1
      <4>1. d \in 0..m /\ d - 1 \in 0..(m + 1) /\ d - 1 # m + 1
        BY <3>2
      <4>2. f[d] = g[d] /\ f[d - 1] = g[d - 1]
        BY <4>1
      <4>3. g[d] = MirrorRound(g[d - 1], n, d - 1)
        BY <4>1, <3>2, <2>2
      <4> QED BY <4>2, <4>3, <3>2
    <3>3. CASE d = m + 1
      <4>1. f[d - 1] = g[m] /\ f[d] = MirrorRound(g[m], n, m) /\ d - 1 = m
        BY <3>3
      <4> QED BY <4>1, <3>3
    <3> QED BY <3>1, <3>2, <3>3
  <2>4. f = [d \in 0..(m + 1) |-> IF d = 0 THEN from ELSE MirrorRound(f[d - 1], n, d - 1)]
    BY <2>3
  <2> HIDE DEF f
  <2>5. IsMirrorClimb(f, from, n, m + 1)
    BY <2>0, <2>4, MirrorClimbRounds
  <2> QED BY <2>0, <2>5
<1> HIDE DEF S
<1>3. \A m \in Nat : m \in S
  BY <1>1, <1>2, SetInduction
<1> QED BY <1>3 DEF S

\* The rounds of insert's loop.
MirrorRounds(from, n) == CHOOSE f : IsMirrorClimb(f, from, n, MirrorDepth)

\* The rounds of the mirror's loop, one after the other.
LEMMA MirrorRoundsRules ==
    ASSUME NEW from, NEW n
    PROVE  /\ MirrorRounds(from, n)[0] = from
           /\ \A d \in Nat : d < MirrorDepth =>
                MirrorRounds(from, n)[d + 1] = MirrorRound(MirrorRounds(from, n)[d], n, d)
<1> DEFINE f == MirrorRounds(from, n)
<1>0. MirrorDepth \in Nat
  BY MirrorAssumption
<1>1. \E g : IsMirrorClimb(g, from, n, MirrorDepth)
  BY <1>0, MirrorClimbExists
<1>2. IsMirrorClimb(f, from, n, MirrorDepth)
  BY <1>1 DEF MirrorRounds
<1> HIDE DEF f
<1>4. f = [d \in 0..MirrorDepth |-> IF d = 0 THEN from ELSE MirrorRound(f[d - 1], n, d - 1)]
  BY <1>0, <1>2, MirrorClimbRounds
<1>5. f[0] = from
  BY <1>0, <1>4
<1>6. ASSUME NEW d \in Nat, d < MirrorDepth PROVE f[d + 1] = MirrorRound(f[d], n, d)
  <2>1. d + 1 \in 0..MirrorDepth /\ d + 1 # 0 /\ (d + 1) - 1 = d
    BY <1>0, <1>6
  <2>2. f[d + 1] = MirrorRound(f[(d + 1) - 1], n, (d + 1) - 1)
    BY <2>1, <1>4
  <2> QED BY <2>1, <2>2
<1> QED BY <1>5, <1>6 DEF f

\* The copy's nodes are those of the full tree.
NodesOf(ns, lvs) ==
    \A d, i : Has(MirrorDepth, d, i) => Node(ns, d, i) = At(lvs, MirrorDepth, d, i)

\* They are those of the new tree up to a level, and of the old one above it.
NodesUpTo(ns, old, new, level) ==
    \A d, i : Has(MirrorDepth, d, i) =>
        Node(ns, d, i) = IF d <= level THEN At(new, MirrorDepth, d, i) ELSE At(old, MirrorDepth, d, i)

\* One round writes the node of the next level.
LEMMA MirrorRoundComputes ==
    ASSUME NEW T, NEW lvs \in Seq(T), NEW leaf \in T, NEW new, new = Append(lvs, leaf),
           NEW n, n = Len(lvs), n < Pow2(MirrorDepth),
           NEW d \in Nat, d < MirrorDepth, NEW ns, NodesUpTo(ns, lvs, new, d),
           NEW c, c = [node |-> At(new, MirrorDepth, d, Up(n, d)), nodes |-> ns]
    PROVE  \E ms : /\ MirrorRound(c, n, d) =
                        [node |-> At(new, MirrorDepth, d + 1, Up(n, d + 1)), nodes |-> ms]
                   /\ NodesUpTo(ms, lvs, new, d + 1)
<1> DEFINE M == MirrorDepth
           u == Up(n, d)
           up == At(new, M, d + 1, u \div 2)
           ms == SetNode(ns, d + 1, u \div 2, up)
<1>0. /\ M \in Nat /\ Pow2(M) \in Nat /\ n \in Nat /\ n \in 0..(Pow2(M) - 1) /\ d \in 0..M
  <2>1. M \in Nat
    BY MirrorAssumption
  <2>2. Pow2(M) \in Nat
    BY <2>1, Pow2Rules
  <2> QED BY <2>1, <2>2
<1>1. Up(n, d + 1) = u \div 2 /\ u \in Nat
  BY <1>0, UpRules
<1>2. Has(M, d, u)
  BY <1>0, UpRange DEF Has
<1>3. Has(M, d, Sibling(u))
  BY <1>0, <1>2, Siblings
<1>4. Node(ns, d, Sibling(u)) = At(new, M, d, Sibling(u))
  BY <1>0, <1>3 DEF NodesUpTo
<1>5. up = Parent(At(new, M, d, u), At(new, M, d, Sibling(u)), u % 2)
  BY <1>0, <1>2, TreeParent
<1>6. MirrorRound(c, n, d) = [node |-> up, nodes |-> ms]
  <2>1. n \div Pow2(d) = u
    BY DEF Up
  <2>2. Parent(c.node, Node(c.nodes, d, Sibling(u)), u % 2) = up
    BY <1>4, <1>5
  <2>3. c.nodes = ns
    OBVIOUS
  <2> HIDE DEF up, u
  <2> QED BY <2>1, <2>2, <2>3 DEF MirrorRound
<1>7. NodesUpTo(ms, lvs, new, d + 1)
  <2>1. SUFFICES ASSUME NEW e, NEW i, Has(M, e, i)
        PROVE  Node(ms, e, i) = IF e <= d + 1 THEN At(new, M, e, i) ELSE At(lvs, M, e, i)
    BY DEF NodesUpTo
  <2>2. e \in Nat
    BY <2>1, <1>0 DEF Has
  <2>3. Node(ms, e, i) = IF e = d + 1 /\ i = u \div 2 THEN up ELSE Node(ns, e, i)
    BY NodeOfSet
  <2>4. Node(ns, e, i) = IF e <= d THEN At(new, M, e, i) ELSE At(lvs, M, e, i)
    BY <2>1 DEF NodesUpTo
  <2> HIDE DEF ms, u
  <2>5. CASE e = d + 1
    <3>1. CASE i = u \div 2
      BY <3>1, <2>3, <2>5
    <3>2. CASE i # u \div 2
      <4>1. At(new, M, e, i) = At(lvs, M, e, i)
        BY <3>2, <2>1, <2>2, <2>5, <1>0, <1>1, AppendedLeaf
      <4> QED BY <4>1, <3>2, <2>3, <2>4, <2>5
    <3> QED BY <3>1, <3>2
  <2>6. CASE e # d + 1
    <3>1. e <= d + 1 <=> e <= d
      BY <2>2, <2>6
    <3> QED BY <3>1, <2>3, <2>4, <2>6
  <2> QED BY <2>5, <2>6
<1> HIDE DEF up, ms, u
<1>8. MirrorRound(c, n, d) = [node |-> At(new, MirrorDepth, d + 1, Up(n, d + 1)), nodes |-> ms]
  BY <1>1, <1>6 DEF up
<1> QED BY <1>7, <1>8

\* insert adds the leaf to the copy, and its climb ends in the root.
LEMMA MirrorClimbComputes ==
    ASSUME NEW T, NEW lvs \in Seq(T), NEW leaf \in T, Len(lvs) < Pow2(MirrorDepth),
           NEW ns, NodesOf(ns, lvs)
    PROVE  LET top == MirrorRounds([node |-> leaf, nodes |-> SetNode(ns, 0, Len(lvs), leaf)],
                                   Len(lvs))[MirrorDepth]
           IN /\ top.node = FullRoot(Append(lvs, leaf), MirrorDepth)
              /\ NodesOf(top.nodes, Append(lvs, leaf))
<1> DEFINE M == MirrorDepth
           n == Len(lvs)
           new == Append(lvs, leaf)
           ns0 == SetNode(ns, 0, n, leaf)
           f == MirrorRounds([node |-> leaf, nodes |-> ns0], n)
           Good(d) == \E ms : /\ f[d] = [node |-> At(new, M, d, Up(n, d)), nodes |-> ms]
                              /\ NodesUpTo(ms, lvs, new, d)
           S == {d \in Nat : d <= M => Good(d)}
<1>0. /\ M \in Nat /\ Pow2(M) \in Nat /\ n \in Nat /\ n \in 0..(Pow2(M) - 1)
  <2>1. M \in Nat
    BY MirrorAssumption
  <2>2. Pow2(M) \in Nat
    BY <2>1, Pow2Rules
  <2> QED BY <2>1, <2>2
<1>1. f[0] = [node |-> leaf, nodes |-> ns0] /\ \A d \in Nat : d < M => f[d + 1] = MirrorRound(f[d], n, d)
  BY MirrorRoundsRules
<1>2. Len(new) = n + 1 /\ new[n + 1] = leaf
  BY <1>0
<1> HIDE DEF f
<1>3. Good(0)
  <2>1. Up(n, 0) = n
    BY <1>0, UpRules
  <2>2. Has(M, 0, n)
    BY <1>0 DEF Has
  <2>3. At(new, M, 0, n) = leaf
    <3>1. At(new, M, 0, n) = LeafAt(new, n)
      BY <1>0, <2>2, TreeRules
    <3>2. LeafAt(new, n) = leaf
      BY <1>0, <1>2 DEF LeafAt
    <3> QED BY <3>1, <3>2
  <2>4. NodesUpTo(ns0, lvs, new, 0)
    <3>1. SUFFICES ASSUME NEW e, NEW i, Has(M, e, i)
          PROVE  Node(ns0, e, i) = IF e <= 0 THEN At(new, M, e, i) ELSE At(lvs, M, e, i)
      BY DEF NodesUpTo
    <3>2. e \in Nat
      BY <3>1, <1>0 DEF Has
    <3>3. Node(ns0, e, i) = IF e = 0 /\ i = n THEN leaf ELSE Node(ns, e, i)
      BY NodeOfSet
    <3>4. Node(ns, e, i) = At(lvs, M, e, i)
      BY <3>1 DEF NodesOf
    <3> HIDE DEF ns0
    <3>5. CASE e = 0 /\ i = n
      BY <3>3, <3>5, <2>3
    <3>6. CASE e = 0 /\ i # n
      <4>1. At(new, M, e, i) = At(lvs, M, e, i)
        BY <3>1, <3>2, <3>6, <2>1, <1>0, AppendedLeaf
      <4> QED BY <4>1, <3>3, <3>4, <3>6
    <3>7. CASE e # 0
      BY <3>2, <3>3, <3>4, <3>7
    <3> QED BY <3>5, <3>6, <3>7
  <2>5. f[0] = [node |-> At(new, M, 0, Up(n, 0)), nodes |-> ns0]
    BY <1>1, <2>1, <2>3
  <2> HIDE DEF ns0
  <2> QED BY <2>4, <2>5
<1> HIDE DEF Good
<1>4. ASSUME NEW d \in Nat, d \in S PROVE d + 1 \in S
  <2>1. SUFFICES ASSUME d < M PROVE Good(d + 1)
    BY <1>0
  <2>2. Good(d)
    BY <1>0, <1>4, <2>1
  <2>3. PICK ms : /\ f[d] = [node |-> At(new, M, d, Up(n, d)), nodes |-> ms]
                  /\ NodesUpTo(ms, lvs, new, d)
    BY <2>2 DEF Good
  <2> DEFINE c == f[d]
             m == new
  <2>4. c = [node |-> At(m, MirrorDepth, d, Up(n, d)), nodes |-> ms] /\ NodesUpTo(ms, lvs, m, d)
    BY <2>3
  <2>5. m = Append(lvs, leaf) /\ n = Len(lvs)
    OBVIOUS
  <2>6. f[d + 1] = MirrorRound(c, n, d) /\ n < Pow2(MirrorDepth) /\ d < MirrorDepth
    BY <1>1, <2>1
  <2> HIDE DEF c, m, n
  <2>7. \E ks : /\ MirrorRound(c, n, d) =
                     [node |-> At(m, MirrorDepth, d + 1, Up(n, d + 1)), nodes |-> ks]
                /\ NodesUpTo(ks, lvs, m, d + 1)
    BY <2>4, <2>5, <2>6, MirrorRoundComputes
  <2> QED BY <2>6, <2>7 DEF m, Good
<1>5. 0 \in S
  BY <1>3
<1> HIDE DEF S
<1>6. M \in S
  BY <1>0, <1>4, <1>5, SetInduction
<1>7. Good(M)
  BY <1>0, <1>6 DEF S
<1>8. PICK ms : /\ f[M] = [node |-> At(new, M, M, Up(n, M)), nodes |-> ms]
                /\ NodesUpTo(ms, lvs, new, M)
  BY <1>7 DEF Good
<1>9. f[M].node = At(new, M, M, 0) /\ f[M].nodes = ms
  BY <1>0, <1>8, UpRange
<1>10. f[M].node = FullRoot(new, M)
  BY <1>0, <1>9, TreeRules
<1>11. NodesOf(ms, new)
  <2>1. \A d, i : Has(M, d, i) => d <= M
    BY <1>0 DEF Has
  <2> QED BY <2>1, <1>8 DEF NodesUpTo, NodesOf
<1> QED BY <1>9, <1>10, <1>11 DEF f

\* Nodes and a count that are those of the tree over the first leaves of s.
Mirrored(ns, count, s) ==
    /\ count \in Nat /\ count <= Len(s) /\ count <= Pow2(MirrorDepth)
    /\ NodesOf(ns, SubSeq(s, 1, count))

MirrorInv ==
    /\ inserted \in Seq(Leaf)
    /\ Mirrored(nodes, leafCount, inserted)
    /\ Mirrored(disk.nodes, disk.leafCount, inserted)
    /\ root = FullRoot(SubSeq(inserted, 1, leafCount), MirrorDepth)

\* A tree without leaves: its nodes are the default ones.
LEMMA EmptyMirror ==
    ASSUME NEW s \in Seq(Leaf)
    PROVE  /\ NodesOf(<<>>, SubSeq(s, 1, 0))
           /\ FullRoot(SubSeq(s, 1, 0), MirrorDepth) = Default[MirrorDepth]
<1> DEFINE lvs == SubSeq(s, 1, 0)
<1>0. MirrorDepth \in Nat
  BY MirrorAssumption
<1>1. Len(lvs) = 0
  OBVIOUS
<1> HIDE DEF lvs
<1>2. ASSUME NEW d, NEW i, Has(MirrorDepth, d, i)
      PROVE  At(lvs, MirrorDepth, d, i) = Default[d]
  <2>1. d \in Nat
    BY <1>0, <1>2 DEF Has
  <2>2. Beyond(lvs, d, i)
    BY <1>1 DEF Beyond
  <2>3. Len(lvs) \in Nat
    BY <1>1
  <2> QED BY <1>0, <1>2, <2>1, <2>2, <2>3, EmptySubtrees DEF Default
<1>3. \A d, i : Node(<<>>, d, i) = Default[d]
  BY DEF Node
<1>4. Has(MirrorDepth, MirrorDepth, 0)
  <2>1. MirrorDepth - MirrorDepth = 0 /\ Pow2(0) - 1 = 0
    BY <1>0, Pow2Rules
  <2> QED BY <1>0, <2>1 DEF Has
<1>5. FullRoot(lvs, MirrorDepth) = Default[MirrorDepth]
  BY <1>0, <1>2, <1>4, TreeRules
<1> QED BY <1>2, <1>3, <1>5 DEF NodesOf, lvs

\* Leaves the contract inserts later change nothing for the copy.
LEMMA MirroredStays ==
    ASSUME NEW s \in Seq(Leaf), NEW leaf \in Leaf, NEW ns, NEW count, Mirrored(ns, count, s)
    PROVE  /\ Mirrored(ns, count, Append(s, leaf))
           /\ SubSeq(Append(s, leaf), 1, count) = SubSeq(s, 1, count)
<1>1. count \in 0..Len(s) /\ 1 \in Nat \ {0}
  BY DEF Mirrored
<1>2. SubSeq(Append(s, leaf), 1, count) = SubSeq(s, 1, count)
  BY <1>1, SubSeqOfAppend
<1>3. count <= Len(Append(s, leaf))
  BY <1>1
<1> QED BY <1>2, <1>3 DEF Mirrored

\* The mirror starts empty, without a file.
LEMMA MirrorInvInit ==
    ASSUME MirrorInit PROVE MirrorInv
<1>1. inserted = <<>> /\ nodes = <<>> /\ leafCount = 0 /\ root = Default[MirrorDepth]
      /\ disk.leafCount = 0 /\ disk.nodes = <<>>
  BY DEF MirrorInit, Init, NoFile
<1>2. inserted \in Seq(Leaf) /\ Len(inserted) = 0
  BY <1>1
<1>3. 0 <= Pow2(MirrorDepth)
  BY MirrorAssumption, Pow2Rules
<1>4. /\ NodesOf(<<>>, SubSeq(inserted, 1, 0))
      /\ FullRoot(SubSeq(inserted, 1, 0), MirrorDepth) = Default[MirrorDepth]
  BY <1>2, EmptyMirror
<1> QED BY <1>1, <1>2, <1>3, <1>4 DEF MirrorInv, Mirrored

\* An insertion of the contract, which the mirror has not seen yet.
LEMMA MirrorInvContract ==
    ASSUME MirrorInv, NEW leaf \in Leaf, InsertLeaf(leaf), UNCHANGED mirrorVars
    PROVE  MirrorInv'
<1>1. inserted' = Append(inserted, leaf)
  BY DEF InsertLeaf
<1>2. nodes' = nodes /\ leafCount' = leafCount /\ root' = root /\ disk' = disk
  BY DEF mirrorVars
<1>3. /\ inserted \in Seq(Leaf)
      /\ Mirrored(nodes, leafCount, inserted)
      /\ Mirrored(disk.nodes, disk.leafCount, inserted)
      /\ root = FullRoot(SubSeq(inserted, 1, leafCount), MirrorDepth)
  BY DEF MirrorInv
<1> DEFINE s == inserted
           new == Append(s, leaf)
<1>4. /\ Mirrored(nodes, leafCount, new)
      /\ Mirrored(disk.nodes, disk.leafCount, new)
      /\ SubSeq(new, 1, leafCount) = SubSeq(s, 1, leafCount)
  BY <1>3, MirroredStays
<1>5. new \in Seq(Leaf)
  BY <1>3
<1> HIDE DEF s, new
<1>6. inserted' = new
  BY <1>1 DEF s, new
<1> QED BY <1>2, <1>3, <1>4, <1>5, <1>6 DEF MirrorInv, Mirrored, s

\* An insertion of the mirror.
LEMMA MirrorInvInsert ==
    ASSUME MirrorInv, MirrorInsert
    PROVE  MirrorInv'
<1> DEFINE s == inserted
           n == leafCount
           leaf == s[n + 1]
           from == [node |-> leaf, nodes |-> SetNode(nodes, 0, n, leaf)]
           top == MirrorRounds(from, n)[MirrorDepth]
<1>1. /\ s \in Seq(Leaf)
      /\ n \in Nat /\ n <= Len(s) /\ n <= Pow2(MirrorDepth)
      /\ NodesOf(nodes, SubSeq(s, 1, n))
      /\ Mirrored(disk.nodes, disk.leafCount, s)
  BY DEF MirrorInv, Mirrored
<1>2. /\ n < Len(s) /\ n < Pow2(MirrorDepth)
      /\ nodes' = top.nodes /\ root' = top.node /\ leafCount' = n + 1
      /\ inserted' = s /\ disk' = disk
  BY DEF MirrorInsert, MirrorRounds, IsMirrorClimb, contractVars
<1> DEFINE lvs == SubSeq(s, 1, n)
<1>3. leaf \in Leaf /\ lvs \in Seq(Leaf) /\ Len(lvs) = n
  BY <1>1, <1>2
<1>4. SubSeq(s, 1, n + 1) = Append(lvs, leaf)
  BY <1>1, <1>2
<1>5. /\ top.node = FullRoot(Append(lvs, leaf), MirrorDepth)
      /\ NodesOf(top.nodes, Append(lvs, leaf))
  <2> DEFINE ns == nodes
  <2>1. n = Len(lvs) /\ Len(lvs) < Pow2(MirrorDepth) /\ NodesOf(ns, lvs) /\ leaf \in Leaf /\ lvs \in Seq(Leaf)
    BY <1>1, <1>2, <1>3
  <2>2. top = MirrorRounds([node |-> leaf, nodes |-> SetNode(ns, 0, n, leaf)], n)[MirrorDepth]
    OBVIOUS
  <2> HIDE DEF top, leaf, lvs, n, ns
  <2> QED BY <2>1, <2>2, MirrorClimbComputes
<1> HIDE DEF top, leaf, lvs, s, n
<1>6. n + 1 \in Nat /\ n + 1 <= Len(s) /\ n + 1 <= Pow2(MirrorDepth)
  <2>1. Len(s) \in Nat /\ Pow2(MirrorDepth) \in Nat
    BY <1>1, MirrorAssumption, Pow2Rules
  <2> QED BY <1>1, <1>2, <2>1
<1>7. Mirrored(top.nodes, n + 1, s)
  BY <1>4, <1>5, <1>6 DEF Mirrored
<1> QED BY <1>1, <1>2, <1>4, <1>5, <1>7 DEF MirrorInv, Mirrored

\* A restart from the file.
LEMMA MirrorInvRestart ==
    ASSUME MirrorInv, Restart
    PROVE  MirrorInv'
<1>1. /\ nodes' = disk.nodes /\ leafCount' = disk.leafCount /\ root' = ImportedRoot(disk)
      /\ inserted' = inserted /\ disk' = disk
  BY DEF Restart, contractVars
<1>2. inserted \in Seq(Leaf) /\ Mirrored(disk.nodes, disk.leafCount, inserted)
  BY DEF MirrorInv
<1>3. disk.leafCount \in Nat /\ NodesOf(disk.nodes, SubSeq(inserted, 1, disk.leafCount))
  BY <1>2 DEF Mirrored
<1>4. root' = FullRoot(SubSeq(inserted, 1, disk.leafCount), MirrorDepth)
  <2>0. MirrorDepth \in Nat
    BY MirrorAssumption
  <2>1. CASE disk.leafCount > 0
    <3>1. Has(MirrorDepth, MirrorDepth, 0)
      <4>1. MirrorDepth - MirrorDepth = 0 /\ Pow2(0) - 1 = 0
        BY <2>0, Pow2Rules
      <4> QED BY <2>0, <4>1 DEF Has
    <3> DEFINE lvs == SubSeq(inserted, 1, disk.leafCount)
    <3> HIDE DEF lvs
    <3>2. Node(disk.nodes, MirrorDepth, 0) = At(lvs, MirrorDepth, MirrorDepth, 0)
      BY <1>3, <3>1 DEF NodesOf, lvs
    <3>3. FullRoot(lvs, MirrorDepth) = At(lvs, MirrorDepth, MirrorDepth, 0)
      BY <2>0, TreeRules
    <3> QED BY <1>1, <2>1, <3>2, <3>3 DEF ImportedRoot, lvs
  <2>2. CASE disk.leafCount = 0
    BY <1>1, <1>2, <2>2, EmptyMirror DEF ImportedRoot
  <2> QED BY <1>3, <2>1, <2>2
<1> QED BY <1>1, <1>2, <1>4 DEF MirrorInv, Mirrored

\* The mirror is, after every interleaving of the contract's insertions with
\* its own, with exports and restarts, the full tree over the first leafCount
\* leaves; so is the file it will restart from.
THEOREM MirrorInvariant == MirrorSpec => []MirrorInv
<1>1. MirrorInit => MirrorInv
  BY MirrorInvInit
<1>2. MirrorInv /\ [MirrorNext]_<<contractVars, mirrorVars>> => MirrorInv'
  <2> SUFFICES ASSUME MirrorInv, [MirrorNext]_<<contractVars, mirrorVars>> PROVE MirrorInv'
    OBVIOUS
  <2>1. CASE UNCHANGED <<contractVars, mirrorVars>>
    BY <2>1 DEF MirrorInv, Mirrored, contractVars, mirrorVars
  <2>2. CASE Next /\ UNCHANGED mirrorVars
    <3>1. PICK leaf \in Leaf : InsertLeaf(leaf)
      BY <2>2 DEF Next
    <3> QED BY <2>2, <3>1, MirrorInvContract
  <2>3. CASE MirrorInsert
    BY <2>3, MirrorInvInsert
  <2>4. CASE Export
    <3>1. /\ disk'.leafCount = leafCount /\ disk'.nodes = nodes
          /\ inserted' = inserted /\ nodes' = nodes /\ leafCount' = leafCount /\ root' = root
      BY <2>4 DEF Export, contractVars
    <3> QED BY <3>1 DEF MirrorInv, Mirrored
  <2>5. CASE Restart
    BY <2>5, MirrorInvRestart
  <2> QED BY <2>1, <2>2, <2>3, <2>4, <2>5 DEF MirrorNext
<1> QED BY <1>1, <1>2, PTL DEF MirrorSpec

\* The contract does not notice the mirror.
LEMMA MirrorKeepsContract == MirrorSpec => Spec
<1>1. MirrorInit => Init
  BY DEF MirrorInit
<1>2. [MirrorNext]_<<contractVars, mirrorVars>> => [Next]_contractVars
  BY DEF MirrorNext, MirrorInsert, Export, Restart
<1> QED BY <1>1, <1>2, PTL DEF MirrorSpec, Spec

\* ServedProofsVerify: every path the sequencer serves leads to the root it
\* announces, for every depth, whatever happened to the nodes around it.
THEOREM ServedProofsLead == MirrorSpec => []ServedProofsVerify
<1>1. MirrorInv => ServedProofsVerify
  <2> SUFFICES ASSUME MirrorInv PROVE ServedProofsVerify
    OBVIOUS
  <2> DEFINE s == inserted
             n == leafCount
             lvs == SubSeq(s, 1, n)
             proofs == GetProofs(0, n)
  <2>0. MirrorDepth \in Nat /\ Pow2(MirrorDepth) \in Nat
    BY MirrorAssumption, Pow2Rules
  <2>1. /\ s \in Seq(Leaf) /\ n \in Nat /\ n <= Len(s) /\ n <= Pow2(MirrorDepth)
        /\ NodesOf(nodes, lvs) /\ root = FullRoot(lvs, MirrorDepth)
    BY DEF MirrorInv, Mirrored
  <2>2. proofs = [index \in 0..(n - 1) |-> Proof(index)]
    BY <2>1 DEF GetProofs
  <2>3. DOMAIN proofs = 0..(n - 1) /\ \A index \in 0..(n - 1) : proofs[index] = Proof(index)
    BY <2>2
  <2>4. Len(lvs) = n /\ \A i \in 1..n : lvs[i] = s[i]
    BY <2>1
  <2> HIDE DEF s, n, lvs, proofs
  <2>5. ASSUME NEW index \in 0..(n - 1)
        PROVE  PathRoot(s[index + 1], proofs[index].siblings, proofs[index].bits, MirrorDepth) = root
    <3>1. index \in 0..(Pow2(MirrorDepth) - 1) /\ index < n /\ index + 1 \in 1..n
      BY <2>0, <2>1
    <3>2. LeafAt(lvs, index) = s[index + 1]
      BY <2>4, <3>1 DEF LeafAt
    <3> DEFINE siblings == Proof(index).siblings
    <3>3. Proof(index).bits = Bits(index, MirrorDepth)
      BY DEF Proof
    <3>4. ASSUME NEW d \in Nat, d < MirrorDepth
          PROVE  siblings[d] = At(lvs, MirrorDepth, d, Sibling(Up(index, d)))
      <4>1. d \in 0..(MirrorDepth - 1) /\ d \in 0..MirrorDepth
        BY <2>0, <3>4
      <4>2. siblings[d] = Node(nodes, d, Sibling(Up(index, d)))
        BY <4>1 DEF Proof, Up
      <4>3. Has(MirrorDepth, d, Up(index, d))
        BY <2>0, <3>1, <4>1, UpRange DEF Has
      <4>4. Has(MirrorDepth, d, Sibling(Up(index, d)))
        BY <2>0, <3>4, <4>3, Siblings
      <4> QED BY <4>2, <4>4, <2>1 DEF NodesOf
    <3> HIDE DEF siblings
    <3>5. PathRoot(LeafAt(lvs, index), siblings, Bits(index, MirrorDepth), MirrorDepth)
            = FullRoot(lvs, MirrorDepth)
      BY <2>0, <3>1, <3>4, PathLeadsToRoot
    <3> QED BY <2>1, <2>3, <3>2, <3>3, <3>5 DEF siblings
  <2> QED BY <2>3, <2>5 DEF ServedProofsVerify, s, n, proofs
<1> QED BY <1>1, MirrorInvariant, PTL

\* The first leaf of a tree that has one, at the bottom left.
LEMMA FirstLeaf ==
    ASSUME NEW lvs \in Seq(Leaf), Len(lvs) > 0, NEW depth \in Nat
    PROVE  At(lvs, depth, 0, 0) \in Leaf
<1>0. Pow2(depth) \in Nat /\ Pow2(depth) > 0
  BY Pow2Rules, Zenon
<1>1. depth - 0 = depth /\ 0 \in 0..depth
  OBVIOUS
<1>2. Has(depth, 0, 0)
  BY <1>0, <1>1 DEF Has
<1>3. At(lvs, depth, 0, 0) = LeafAt(lvs, 0)
  BY <1>2, TreeRules
<1>4. LeafAt(lvs, 0) = lvs[1]
  BY DEF LeafAt
<1>5. lvs[1] \in Leaf
  OBVIOUS
<1> QED BY <1>3, <1>4, <1>5

\* The leftmost node of a level above the leaves is the hash of two nodes, the
\* first of which is the leftmost of the level below.
LEMMA LeftmostIsHash ==
    ASSUME NEW lvs, NEW depth \in Nat, NEW d \in Nat, d < depth
    PROVE  At(lvs, depth, d + 1, 0) = Hash(At(lvs, depth, d, 0), At(lvs, depth, d, 1))
<1>1. Has(depth, d + 1, 0)
  <2>1. depth - (d + 1) \in Nat
    OBVIOUS
  <2>2. Pow2(depth - (d + 1)) \in Nat /\ Pow2(depth - (d + 1)) > 0
    BY <2>1, Pow2Rules
  <2> QED BY <2>2 DEF Has
<1>2. At(lvs, depth, d + 1, 0) = Hash(At(lvs, depth, d, 2 * 0), At(lvs, depth, d, 2 * 0 + 1))
  BY <1>1, TreeRules
<1>3. 2 * 0 = 0 /\ 2 * 0 + 1 = 1
  OBVIOUS
<1> QED BY <1>2, <1>3

\* Trees of two depths have different roots when a leaf is never a node: going
\* down their left sides together, one arrives at a leaf, the other at a hash.
LEMMA DeeperRootDiffers ==
    ASSUME \A leaf \in Leaf : \A a, b : leaf # Hash(a, b),
           NEW s \in Seq(Leaf), Len(s) > 0, NEW t \in Seq(Leaf),
           NEW m \in Nat, NEW n \in Nat, m < n
    PROVE  FullRoot(s, m) # FullRoot(t, n)
<1> SUFFICES ASSUME FullRoot(s, m) = FullRoot(t, n) PROVE FALSE
  OBVIOUS
<1> DEFINE S == {k \in Nat : k <= m => At(s, m, m - k, 0) = At(t, n, n - k, 0)}
<1>1. 0 \in S
  <2>1. m - 0 = m /\ n - 0 = n
    OBVIOUS
  <2>2. FullRoot(s, m) = At(s, m, m, 0)
    BY TreeRules
  <2>3. FullRoot(t, n) = At(t, n, n, 0)
    BY TreeRules
  <2> QED BY <2>1, <2>2, <2>3
<1>2. ASSUME NEW k \in Nat, k \in S PROVE k + 1 \in S
  <2> SUFFICES ASSUME k + 1 <= m
               PROVE  At(s, m, m - (k + 1), 0) = At(t, n, n - (k + 1), 0)
    OBVIOUS
  <2> DEFINE d == m - (k + 1)
             e == n - (k + 1)
  <2>1. d \in Nat /\ d < m /\ m - k = d + 1 /\ e \in Nat /\ e < n /\ n - k = e + 1 /\ k <= m
    OBVIOUS
  <2>2. At(s, m, m - k, 0) = At(t, n, n - k, 0)
    BY <1>2, <2>1
  <2> HIDE DEF d, e, S
  <2>3. At(s, m, d + 1, 0) = Hash(At(s, m, d, 0), At(s, m, d, 1))
    BY <2>1, LeftmostIsHash
  <2>4. At(t, n, e + 1, 0) = Hash(At(t, n, e, 0), At(t, n, e, 1))
    BY <2>1, LeftmostIsHash
  <2>5. Hash(At(s, m, d, 0), At(s, m, d, 1)) = Hash(At(t, n, e, 0), At(t, n, e, 1))
    BY <2>1, <2>2, <2>3, <2>4
  <2>6. At(s, m, d, 0) = At(t, n, e, 0)
    BY <2>5, HashInjective
  <2> QED BY <2>6 DEF d, e
<1> HIDE DEF S
<1>3. \A k \in Nat : k \in S
  BY <1>1, <1>2, SetInduction
<1> DEFINE e == n - m
<1>4. At(s, m, m - m, 0) = At(t, n, n - m, 0)
  BY <1>3 DEF S
<1>5. m - m = 0 /\ e - 1 \in Nat /\ e - 1 < n /\ (e - 1) + 1 = n - m
  OBVIOUS
<1>6. At(s, m, 0, 0) \in Leaf
  BY FirstLeaf
<1> HIDE DEF e
<1>7. At(t, n, (e - 1) + 1, 0) = Hash(At(t, n, e - 1, 0), At(t, n, e - 1, 1))
  BY <1>5, LeftmostIsHash
<1> QED BY <1>4, <1>5, <1>6, <1>7

\* RootKnownIfSameDepth, for every depth of the mirror and of the contract: the
\* contract knows the mirror's root if they are the same, and never otherwise
\* (the code's are 32 and 20).  The second half takes that no commitment is the
\* hash of two nodes: commitments and nodes are hashed in different domains.
THEOREM MirrorRootsKnown ==
    ASSUME \A leaf \in Leaf : \A a, b : leaf # Hash(a, b)
    PROVE  MirrorSpec => []RootKnownIfSameDepth
<1>1. MirrorInv /\ ContractInv => RootKnownIfSameDepth
  <2> SUFFICES ASSUME MirrorInv, ContractInv, leafCount > 0
               PROVE  root \in knownRoots <=> MirrorDepth = Depth
    BY DEF RootKnownIfSameDepth
  <2>1. /\ inserted \in Seq(Leaf)
        /\ leafCount \in Nat /\ leafCount <= Len(inserted) /\ leafCount <= Pow2(MirrorDepth)
        /\ root = FullRoot(SubSeq(inserted, 1, leafCount), MirrorDepth)
    BY DEF MirrorInv, Mirrored
  <2>2. /\ MAX_LEAVES \in Nat /\ MAX_LEAVES > 0 /\ MAX_LEAVES = Pow2(Depth)
        /\ MirrorDepth \in Nat /\ Depth \in Nat
    BY Capacity, MirrorAssumption, TreeAssumption
  <2>3. knownRoots = RootsOf(inserted)
    BY DEF ContractInv, RootsMatch
  <2>4. ASSUME MirrorDepth = Depth PROVE root \in knownRoots
    <3>1. leafCount - 1 \in Nat /\ leafCount - 1 < MAX_LEAVES
      BY <2>1, <2>2, <2>4
    <3>2. (leafCount - 1) \div MAX_LEAVES = 0
      BY <2>2, <3>1, Quotient
    <3>3. 0 * MAX_LEAVES + 1 = 1
      BY <2>2
    <3>4. TreeOf(inserted, leafCount) = SubSeq(inserted, 1, leafCount)
      BY <3>2, <3>3 DEF TreeOf
    <3>5. leafCount \in 1..Len(inserted)
      BY <2>1
    <3> QED BY <2>1, <2>3, <2>4, <3>4, <3>5 DEF RootsOf
  <2>5. ASSUME root \in knownRoots, MirrorDepth # Depth PROVE FALSE
    <3>1. PICK n \in 1..Len(inserted) : root = FullRoot(TreeOf(inserted, n), Depth)
      BY <2>3, <2>5 DEF RootsOf
    <3> DEFINE s == SubSeq(inserted, 1, leafCount)
               t == TreeOf(inserted, n)
    <3>2. s \in Seq(Leaf) /\ Len(s) > 0
      BY <2>1
    <3>3. t \in Seq(Leaf) /\ Len(t) > 0
      BY <2>1, TreeOfType
    <3>4. FullRoot(s, MirrorDepth) = FullRoot(t, Depth)
      BY <2>1, <3>1
    <3> HIDE DEF s, t
    <3>5. CASE MirrorDepth < Depth
      BY <2>2, <3>2, <3>3, <3>4, <3>5, DeeperRootDiffers
    <3>6. CASE Depth < MirrorDepth
      BY <2>2, <3>2, <3>3, <3>4, <3>6, DeeperRootDiffers
    <3> QED BY <2>2, <2>5, <3>5, <3>6
  <2> QED BY <2>4, <2>5
<1> QED BY <1>1, MirrorInvariant, MirrorKeepsContract, ContractInvariant, PTL

-----------------------------------------------------------------------------
\* The SDK's tree

\* A higher power of two is no smaller.
LEMMA Pow2Monotone ==
    ASSUME NEW m \in Nat
    PROVE  \A k \in Nat : Pow2(m) <= Pow2(m + k)
<1> DEFINE S == {k \in Nat : Pow2(m) <= Pow2(m + k)}
<1>1. 0 \in S
  <2>1. Pow2(m) \in Nat /\ m + 0 = m
    BY Pow2Rules
  <2> QED BY <2>1
<1>2. ASSUME NEW k \in Nat, k \in S PROVE k + 1 \in S
  <2>1. m + k \in Nat /\ m + (k + 1) = (m + k) + 1
    OBVIOUS
  <2>2. Pow2(m) \in Nat /\ Pow2(m + k) \in Nat /\ Pow2((m + k) + 1) = 2 * Pow2(m + k)
    BY <2>1, Pow2Rules
  <2>3. Pow2(m) <= Pow2(m + (k + 1))
    BY <1>2, <2>1, <2>2
  <2> QED BY <2>3
<1> HIDE DEF S
<1>3. \A k \in Nat : k \in S
  BY <1>1, <1>2, SetInduction
<1> QED BY <1>3 DEF S

\* The size of the tree the SDK builds: the shift yields a power of two, a
\* negative number or 1.
LEMMA Shifts ==
    ASSUME NEW depth \in 1..ShiftWidth, ShiftWidth > 1
    PROVE  /\ depth < ShiftWidth - 1 => ShiftedOne(depth) = Pow2(depth)
           /\ depth = ShiftWidth - 1 => ShiftedOne(depth) < 0
           /\ depth = ShiftWidth => ShiftedOne(depth) = 1
<1>0. ShiftWidth \in Nat /\ depth \in Nat
  BY TreeAssumption
<1>1. ASSUME depth < ShiftWidth - 1 PROVE ShiftedOne(depth) = Pow2(depth)
  <2>1. depth % ShiftWidth = depth
    BY <1>0, <1>1
  <2> QED BY <1>1, <2>1, <1>0 DEF ShiftedOne
<1>2. ASSUME depth = ShiftWidth - 1 PROVE ShiftedOne(depth) < 0
  <2>1. depth % ShiftWidth = depth
    BY <1>0, <1>2
  <2>2. Pow2(depth) \in Nat /\ Pow2(depth) > 0
    BY <1>0, Pow2Rules
  <2> QED BY <1>2, <2>1, <2>2 DEF ShiftedOne
<1>3. ASSUME depth = ShiftWidth PROVE ShiftedOne(depth) = 1
  <2>1. depth % ShiftWidth = 0
    BY <1>0, <1>3
  <2>2. Pow2(0) = 1 /\ 0 # ShiftWidth - 1
    BY <1>0, Pow2Rules
  <2> QED BY <2>1, <2>2 DEF ShiftedOne
<1> QED BY <1>1, <1>2, <1>3

\* A level of the SDK's tree, from the level below.
BuiltLevel(below, lvs, size, d) ==
    IF d = 0
    THEN [i \in 0..(size - 1) |-> IF i < Len(lvs) THEN lvs[i + 1] ELSE Zero]
    ELSE [i \in {j \div 2 : j \in DOMAIN below} |-> Hash(Entry(below, 2 * i), Entry(below, 2 * i + 1))]

IsBuilt(f, lvs, size, n) == f = [d \in 0..n |-> BuiltLevel(f[d - 1], lvs, size, d)]

\* The lowest level is that of the leaves, whatever is below.
LEMMA LowestBuiltLevel ==
    ASSUME NEW lvs, NEW size, NEW x, NEW y
    PROVE  BuiltLevel(x, lvs, size, 0) = BuiltLevel(y, lvs, size, 0)
BY DEF BuiltLevel

\* The recursive definition of the SDK's levels has a solution.
LEMMA BuiltExist ==
    ASSUME NEW lvs, NEW size
    PROVE  \A n \in Nat : \E f : IsBuilt(f, lvs, size, n)
<1> DEFINE S == {n \in Nat : \E f : IsBuilt(f, lvs, size, n)}
<1>1. 0 \in S
  <2> DEFINE f == [d \in 0..0 |-> BuiltLevel(0, lvs, size, 0)]
  <2>1. BuiltLevel(f[0 - 1], lvs, size, 0) = BuiltLevel(0, lvs, size, 0)
    BY LowestBuiltLevel
  <2>2. f = [d \in 0..0 |-> BuiltLevel(f[d - 1], lvs, size, d)]
    BY <2>1
  <2>3. IsBuilt(f, lvs, size, 0)
    BY <2>2 DEF IsBuilt
  <2> QED BY <2>3
<1>2. ASSUME NEW n \in Nat, n \in S PROVE n + 1 \in S
  <2>1. PICK g : IsBuilt(g, lvs, size, n)
    BY <1>2
  <2>2. g = [d \in 0..n |-> BuiltLevel(g[d - 1], lvs, size, d)]
    BY <2>1 DEF IsBuilt
  <2> DEFINE f == [d \in 0..(n + 1) |-> IF d = n + 1 THEN BuiltLevel(g[n], lvs, size, n + 1)
                                        ELSE g[d]]
  <2>3. BuiltLevel(f[0 - 1], lvs, size, 0) = BuiltLevel(g[0 - 1], lvs, size, 0)
    BY LowestBuiltLevel
  <2>4. ASSUME NEW d \in 0..(n + 1) PROVE f[d] = BuiltLevel(f[d - 1], lvs, size, d)
    <3>1. CASE d = 0
      BY <3>1, <2>2, <2>3
    <3>2. CASE d # 0 /\ d # n + 1
      <4>1. d \in 0..n /\ d - 1 \in 0..(n + 1) /\ d - 1 # n + 1
        BY <3>2
      <4>2. f[d] = g[d] /\ f[d - 1] = g[d - 1]
        BY <4>1
      <4>3. g[d] = BuiltLevel(g[d - 1], lvs, size, d)
        BY <4>1, <2>2
      <4> QED BY <4>2, <4>3
    <3>3. CASE d = n + 1
      <4>1. f[d - 1] = g[n] /\ f[d] = BuiltLevel(g[n], lvs, size, n + 1)
        BY <3>3
      <4> QED BY <4>1, <3>3
    <3> QED BY <3>1, <3>2, <3>3
  <2>5. IsBuilt(f, lvs, size, n + 1)
    BY <2>4 DEF IsBuilt
  <2> HIDE DEF f
  <2>6. n + 1 \in Nat
    OBVIOUS
  <2> QED BY <2>5, <2>6
<1> HIDE DEF S
<1>3. \A n \in Nat : n \in S
  BY <1>1, <1>2, SetInduction
<1> QED BY <1>3 DEF S

Built(lvs, size, depth) == CHOOSE f : IsBuilt(f, lvs, size, depth)

\* What the levels of the SDK's tree are.
LEMMA BuiltRules ==
    ASSUME NEW lvs, NEW size, NEW depth \in Nat
    PROVE  /\ DOMAIN Built(lvs, size, depth)[0] = 0..(size - 1)
           /\ \A i \in 0..(size - 1) : Built(lvs, size, depth)[0][i] = LeafAt(lvs, i)
           /\ \A d \in Nat : d < depth =>
                /\ DOMAIN Built(lvs, size, depth)[d + 1]
                     = {j \div 2 : j \in DOMAIN Built(lvs, size, depth)[d]}
                /\ \A i \in DOMAIN Built(lvs, size, depth)[d + 1] :
                     Built(lvs, size, depth)[d + 1][i]
                       = Hash(Entry(Built(lvs, size, depth)[d], 2 * i),
                              Entry(Built(lvs, size, depth)[d], 2 * i + 1))
<1> DEFINE f == Built(lvs, size, depth)
<1>1. \E g : IsBuilt(g, lvs, size, depth)
  BY BuiltExist
<1>2. IsBuilt(f, lvs, size, depth)
  BY <1>1 DEF Built
<1> HIDE DEF f
<1>3. f = [d \in 0..depth |-> BuiltLevel(f[d - 1], lvs, size, d)]
  BY <1>2 DEF IsBuilt
<1>4. f[0] = [i \in 0..(size - 1) |-> IF i < Len(lvs) THEN lvs[i + 1] ELSE Zero]
  <2>1. f[0] = BuiltLevel(f[0 - 1], lvs, size, 0)
    BY <1>3
  <2> QED BY <2>1 DEF BuiltLevel
<1>5. ASSUME NEW d \in Nat, d < depth
      PROVE  f[d + 1] = [i \in {j \div 2 : j \in DOMAIN f[d]} |-> Hash(Entry(f[d], 2 * i), Entry(f[d], 2 * i + 1))]
  <2>1. d + 1 \in 0..depth /\ d + 1 # 0 /\ (d + 1) - 1 = d
    BY <1>5
  <2>2. f[d + 1] = BuiltLevel(f[(d + 1) - 1], lvs, size, d + 1)
    BY <2>1, <1>3
  <2> QED BY <2>1, <2>2 DEF BuiltLevel
<1>6. DOMAIN f[0] = 0..(size - 1) /\ \A i \in 0..(size - 1) : f[0][i] = LeafAt(lvs, i)
  BY <1>4 DEF LeafAt
<1>7. ASSUME NEW d \in Nat, d < depth
      PROVE  /\ DOMAIN f[d + 1] = {j \div 2 : j \in DOMAIN f[d]}
             /\ \A i \in DOMAIN f[d + 1] :
                  f[d + 1][i] = Hash(Entry(f[d], 2 * i), Entry(f[d], 2 * i + 1))
  BY <1>5, <1>7
<1> QED BY <1>6, <1>7 DEF f

BuiltSize(lvs, depth) ==
    IF Len(lvs) > ShiftedOne(depth) THEN Len(lvs) ELSE ShiftedOne(depth)

\* buildMerkleTree throws at a negative size, and builds the levels otherwise.
LEMMA BuildCases ==
    ASSUME NEW lvs, NEW depth \in Nat
    PROVE  /\ ShiftedOne(depth) < 0 =>
                BuildMerkleTree(lvs, depth) = [d \in 0..depth |-> <<>>]
           /\ ~ (ShiftedOne(depth) < 0) =>
                BuildMerkleTree(lvs, depth) = Built(lvs, BuiltSize(lvs, depth), depth)
BY DEF BuildMerkleTree, Built, IsBuilt, BuiltLevel, BuiltSize

\* With room for all leaves the SDK's nodes are those of the full tree.
LEMMA BuiltAgrees ==
    ASSUME NEW lvs, NEW depth \in Nat, NEW size \in Nat, Pow2(depth) <= size
    PROVE  \A d \in Nat : \A i : Has(depth, d, i) =>
             /\ i \in DOMAIN Built(lvs, size, depth)[d]
             /\ Built(lvs, size, depth)[d][i] = At(lvs, depth, d, i)
<1> DEFINE b == Built(lvs, size, depth)
           S == {d \in Nat : \A i : Has(depth, d, i) =>
                   i \in DOMAIN b[d] /\ b[d][i] = At(lvs, depth, d, i)}
<1>1. /\ DOMAIN b[0] = 0..(size - 1)
      /\ \A i \in 0..(size - 1) : b[0][i] = LeafAt(lvs, i)
  BY BuiltRules
<1>2. ASSUME NEW d \in Nat, d < depth
      PROVE  /\ DOMAIN b[d + 1] = {j \div 2 : j \in DOMAIN b[d]}
             /\ \A i \in DOMAIN b[d + 1] : b[d + 1][i] = Hash(Entry(b[d], 2 * i), Entry(b[d], 2 * i + 1))
  BY <1>2, BuiltRules
<1> HIDE DEF b
<1>3. 0 \in S
  <2>1. SUFFICES ASSUME NEW i, Has(depth, 0, i)
                 PROVE  i \in DOMAIN b[0] /\ b[0][i] = At(lvs, depth, 0, i)
    OBVIOUS
  <2>2. i \in 0..(Pow2(depth) - 1) /\ Pow2(depth) \in Nat
    BY <2>1, Pow2Rules DEF Has
  <2>3. i \in 0..(size - 1)
    BY <2>2
  <2>4. At(lvs, depth, 0, i) = LeafAt(lvs, i)
    BY <2>1, TreeRules
  <2> QED BY <1>1, <2>3, <2>4
<1>4. ASSUME NEW d \in Nat, d \in S PROVE d + 1 \in S
  <2>1. SUFFICES ASSUME NEW i, Has(depth, d + 1, i)
                 PROVE  i \in DOMAIN b[d + 1] /\ b[d + 1][i] = At(lvs, depth, d + 1, i)
    OBVIOUS
  <2>2. /\ i \in Nat /\ 2 * i \in Nat /\ Has(depth, d, 2 * i) /\ Has(depth, d, 2 * i + 1)
    BY <2>1, HasChildren
  <2>3. d < depth
    BY <2>1 DEF Has
  <2>4. /\ 2 * i \in DOMAIN b[d] /\ b[d][2 * i] = At(lvs, depth, d, 2 * i)
        /\ 2 * i + 1 \in DOMAIN b[d] /\ b[d][2 * i + 1] = At(lvs, depth, d, 2 * i + 1)
    BY <1>4, <2>2
  <2>5. i = (2 * i) \div 2
    BY <2>2
  <2>6. i \in DOMAIN b[d + 1]
    BY <1>2, <2>3, <2>4, <2>5
  <2>7. b[d + 1][i] = Hash(Entry(b[d], 2 * i), Entry(b[d], 2 * i + 1))
    BY <1>2, <2>3, <2>6
  <2>8. Entry(b[d], 2 * i) = At(lvs, depth, d, 2 * i) /\ Entry(b[d], 2 * i + 1) = At(lvs, depth, d, 2 * i + 1)
    BY <2>4 DEF Entry
  <2>9. At(lvs, depth, d + 1, i) = Hash(At(lvs, depth, d, 2 * i), At(lvs, depth, d, 2 * i + 1))
    BY <2>1, TreeRules
  <2> QED BY <2>6, <2>7, <2>8, <2>9
<1> HIDE DEF S
<1>5. \A d \in Nat : d \in S
  BY <1>3, <1>4, SetInduction
<1> QED BY <1>5 DEF S, b

\* Nodes of the SDK's tree are above one of its places.
LEMMA BuiltPlaces ==
    ASSUME NEW lvs, NEW depth \in Nat, NEW size \in Nat, size > 0
    PROVE  \A d \in Nat : d <= depth =>
             /\ 0 \in DOMAIN Built(lvs, size, depth)[d]
             /\ \A i \in DOMAIN Built(lvs, size, depth)[d] : \E x \in 0..(size - 1) : i = Up(x, d)
<1> DEFINE b == Built(lvs, size, depth)
           S == {d \in Nat : d <= depth =>
                   /\ 0 \in DOMAIN b[d]
                   /\ \A i \in DOMAIN b[d] : \E x \in 0..(size - 1) : i = Up(x, d)}
<1>1. DOMAIN b[0] = 0..(size - 1)
  BY BuiltRules
<1>2. ASSUME NEW d \in Nat, d < depth
      PROVE  /\ DOMAIN b[d + 1] = {j \div 2 : j \in DOMAIN b[d]}
             /\ \A i \in DOMAIN b[d + 1] : b[d + 1][i] = Hash(Entry(b[d], 2 * i), Entry(b[d], 2 * i + 1))
  BY <1>2, BuiltRules
<1> HIDE DEF b
<1>3. 0 \in S
  <2>1. 0 \in DOMAIN b[0]
    BY <1>1
  <2>2. \A i \in DOMAIN b[0] : i \in 0..(size - 1) /\ i = Up(i, 0)
    BY <1>1, UpRules
  <2> QED BY <2>1, <2>2
<1>4. ASSUME NEW d \in Nat, d \in S PROVE d + 1 \in S
  <2>1. SUFFICES ASSUME d + 1 <= depth
                 PROVE  /\ 0 \in DOMAIN b[d + 1]
                        /\ \A i \in DOMAIN b[d + 1] : \E x \in 0..(size - 1) : i = Up(x, d + 1)
    OBVIOUS
  <2>2. d < depth /\ d <= depth
    BY <2>1
  <2>3. 0 \in DOMAIN b[d] /\ \A i \in DOMAIN b[d] : \E x \in 0..(size - 1) : i = Up(x, d)
    BY <1>4, <2>2
  <2>4. DOMAIN b[d + 1] = {j \div 2 : j \in DOMAIN b[d]}
    BY <1>2, <2>2
  <2>5. 0 \in DOMAIN b[d + 1]
    <3>1. 0 = 0 \div 2
      OBVIOUS
    <3> QED BY <3>1, <2>3, <2>4
  <2>6. ASSUME NEW i \in DOMAIN b[d + 1]
        PROVE  \E x \in 0..(size - 1) : i = Up(x, d + 1)
    <3>1. PICK j \in DOMAIN b[d] : i = j \div 2
      BY <2>4
    <3>2. PICK x \in 0..(size - 1) : j = Up(x, d)
      BY <2>3
    <3>3. Up(x, d + 1) = Up(x, d) \div 2
      BY UpRules
    <3> QED BY <3>1, <3>2, <3>3
  <2> QED BY <2>5, <2>6
<1> HIDE DEF S
<1>5. \A d \in Nat : d \in S
  BY <1>3, <1>4, SetInduction
<1> QED BY <1>5 DEF S, b

\* No hash is the empty leaf or what reading outside an array gives.
PerfectHash == \A a, b : Hash(a, b) # Undefined /\ Hash(a, b) # Zero

\* An inner node of the full tree is none of those.
LEMMA InnerNode ==
    ASSUME PerfectHash, NEW lvs, NEW depth \in Nat, NEW d \in Nat, NEW i, Has(depth, d + 1, i)
    PROVE  At(lvs, depth, d + 1, i) # Undefined /\ At(lvs, depth, d + 1, i) # Zero
<1>1. At(lvs, depth, d + 1, i) = Hash(At(lvs, depth, d, 2 * i), At(lvs, depth, d, 2 * i + 1))
  BY TreeRules
<1> QED BY <1>1 DEF PerfectHash

\* At the depths that the shift can compute the size for, the SDK's nodes are
\* those of the full tree.
LEMMA BuildAgrees ==
    ASSUME NEW lvs, Len(lvs) \in Nat, NEW depth \in 1..ShiftWidth, depth < ShiftWidth - 1
    PROVE  \A d \in Nat : \A i : Has(depth, d, i) =>
             Entry(BuildMerkleTree(lvs, depth)[d], i) = At(lvs, depth, d, i)
<1>0. ShiftWidth \in Nat /\ depth \in Nat /\ ShiftWidth > 1
  BY TreeAssumption
<1>1. ShiftedOne(depth) = Pow2(depth) /\ Pow2(depth) \in Nat
  BY <1>0, Shifts, Pow2Rules
<1> DEFINE size == BuiltSize(lvs, depth)
<1>2. size \in Nat /\ Pow2(depth) <= size
  BY <1>1 DEF BuiltSize
<1>3. BuildMerkleTree(lvs, depth) = Built(lvs, size, depth)
  BY <1>0, <1>1, BuildCases
<1> HIDE DEF size
<1>4. \A d \in Nat : \A i : Has(depth, d, i) =>
             /\ i \in DOMAIN Built(lvs, size, depth)[d]
             /\ Built(lvs, size, depth)[d][i] = At(lvs, depth, d, i)
  BY <1>0, <1>2, BuiltAgrees
<1> QED BY <1>3, <1>4 DEF Entry

\* The root of a tree of some depth is a hash, of the two nodes below it.
LEMMA RootIsHash ==
    ASSUME NEW lvs, NEW depth \in Nat, depth > 0
    PROVE  /\ FullRoot(lvs, depth) = Hash(At(lvs, depth, depth - 1, 0), At(lvs, depth, depth - 1, 1))
           /\ Has(depth, depth, 0) /\ Has(depth, depth - 1, 0) /\ Has(depth, depth - 1, 1)
<1> DEFINE d == depth - 1
<1>1. d \in Nat /\ d + 1 = depth
  OBVIOUS
<1>2. Has(depth, depth, 0)
  <2>1. depth - depth = 0 /\ Pow2(0) - 1 = 0
    BY Pow2Rules
  <2> QED BY <2>1 DEF Has
<1> HIDE DEF d
<1>3. Has(depth, d + 1, 0)
  BY <1>1, <1>2
<1>4. Has(depth, d, 2 * 0) /\ Has(depth, d, 2 * 0 + 1)
  BY <1>1, <1>3, HasChildren
<1>5. At(lvs, depth, d + 1, 0) = Hash(At(lvs, depth, d, 2 * 0), At(lvs, depth, d, 2 * 0 + 1))
  BY <1>1, <1>3, TreeRules
<1>6. 2 * 0 = 0 /\ 2 * 0 + 1 = 1
  OBVIOUS
<1> QED BY <1>1, <1>2, <1>4, <1>5, <1>6, TreeRules DEF d

\* A root is the SDK's exactly at the depths its shift can compute.
LEMMA BuiltRootAgrees ==
    ASSUME PerfectHash, Depth < ShiftWidth - 1,
           NEW lvs, NEW len, len = Len(lvs), len \in 1..MAX_LEAVES, NEW depth \in 1..ShiftWidth
    PROVE  BuiltRoot(lvs, depth) = FullRoot(lvs, depth) <=> depth < ShiftWidth - 1
<1>0. /\ ShiftWidth \in Nat /\ depth \in Nat /\ depth > 0 /\ Depth \in Nat /\ ShiftWidth > 1
      /\ MAX_LEAVES = Pow2(Depth) /\ MAX_LEAVES \in Nat /\ Depth > 0
  BY TreeAssumption, Capacity
<1>1. /\ FullRoot(lvs, depth) = Hash(At(lvs, depth, depth - 1, 0), At(lvs, depth, depth - 1, 1))
      /\ Has(depth, depth, 0) /\ Has(depth, depth - 1, 0) /\ Has(depth, depth - 1, 1)
  BY <1>0, RootIsHash
<1>2. CASE depth < ShiftWidth - 1
  <2>1. Len(lvs) \in Nat
    BY <1>0
  <2>2. Entry(BuildMerkleTree(lvs, depth)[depth], 0) = At(lvs, depth, depth, 0)
    BY <1>0, <1>1, <1>2, <2>1, BuildAgrees
  <2>3. At(lvs, depth, depth, 0) = FullRoot(lvs, depth)
    BY <1>0, TreeRules
  <2> QED BY <1>2, <2>2, <2>3 DEF BuiltRoot
<1>3. CASE depth = ShiftWidth - 1
  <2>1. ShiftedOne(depth) < 0
    BY <1>0, <1>3, Shifts
  <2>2. BuildMerkleTree(lvs, depth)[depth] = <<>>
    BY <1>0, <2>1, BuildCases
  <2>3. BuiltRoot(lvs, depth) = Undefined
    BY <2>2 DEF BuiltRoot, Entry
  <2> QED BY <1>0, <1>1, <1>3, <2>3 DEF PerfectHash
<1>4. CASE depth = ShiftWidth
  <2> DEFINE e == depth - 1
             b == Built(lvs, len, depth)
  <2>0. e \in Nat /\ e + 1 = depth /\ e < depth /\ e <= depth /\ Depth <= e /\ len \in Nat /\ len > 0
    BY <1>0, <1>4
  <2>1. ShiftedOne(depth) = 1
    BY <1>0, <1>4, Shifts
  <2>2. BuiltSize(lvs, depth) = len
    BY <1>0, <2>0, <2>1 DEF BuiltSize
  <2>3. BuildMerkleTree(lvs, depth) = b
    BY <1>0, <2>1, <2>2, BuildCases
  <2>4. /\ 0 \in DOMAIN b[depth]
        /\ \A i \in DOMAIN b[e] : \E x \in 0..(len - 1) : i = Up(x, e)
    BY <1>0, <2>0, BuiltPlaces
  <2>5. \A i \in DOMAIN b[e + 1] : b[e + 1][i] = Hash(Entry(b[e], 2 * i), Entry(b[e], 2 * i + 1))
    BY <1>0, <2>0, BuiltRules
  <2> HIDE DEF b, e
  <2>6. len <= Pow2(e) /\ Pow2(e) \in Nat
    <3> DEFINE k == e - Depth
    <3>1. k \in Nat /\ Depth + k = e
      BY <1>0, <2>0
    <3>2. Pow2(Depth) <= Pow2(Depth + k)
      BY <1>0, <3>1, Pow2Monotone
    <3>3. Pow2(e) \in Nat
      BY <2>0, Pow2Rules
    <3> QED BY <1>0, <2>0, <3>1, <3>2, <3>3
  <2>7. 1 \notin DOMAIN b[e]
    <3>1. ASSUME NEW x \in 0..(len - 1) PROVE Up(x, e) = 0
      <4>1. x \in 0..(Pow2(e) - 1)
        BY <2>0, <2>6
      <4> QED BY <2>0, <4>1, UpRange
    <3> QED BY <2>4, <3>1
  <2>8. b[depth][0] = Hash(Entry(b[e], 0), Undefined)
    <3>1. b[e + 1][0] = Hash(Entry(b[e], 2 * 0), Entry(b[e], 2 * 0 + 1))
      BY <2>0, <2>4, <2>5
    <3>2. Entry(b[e], 1) = Undefined
      BY <2>7 DEF Entry
    <3>3. 2 * 0 = 0 /\ 2 * 0 + 1 = 1
      OBVIOUS
    <3> QED BY <2>0, <3>1, <3>2, <3>3
  <2>9. BuiltRoot(lvs, depth) = Hash(Entry(b[e], 0), Undefined)
    BY <2>3, <2>4, <2>8 DEF BuiltRoot, Entry
  <2>10. At(lvs, depth, e, 1) # Undefined
    <3> DEFINE g == e - 1
    <3>1. g \in Nat /\ g + 1 = e
      BY <1>0, <2>0
    <3>2. Has(depth, e, 1)
      BY <1>1 DEF e
    <3> HIDE DEF g
    <3>3. Has(depth, g + 1, 1)
      BY <3>1, <3>2
    <3>4. At(lvs, depth, g + 1, 1) # Undefined
      BY <1>0, <3>1, <3>3, InnerNode
    <3> QED BY <3>1, <3>4
  <2>11. FullRoot(lvs, depth) = Hash(At(lvs, depth, e, 0), At(lvs, depth, e, 1))
    BY <1>1 DEF e
  <2>12. BuiltRoot(lvs, depth) # FullRoot(lvs, depth)
    BY <2>9, <2>10, <2>11, HashInjective
  <2> QED BY <2>12, <1>0, <1>4
<1> QED BY <1>0, <1>2, <1>3, <1>4

\* A sparse proof of the only leaf leads to the root in a tree of depth 1 only.
LEMMA SparseAgrees ==
    ASSUME PerfectHash, NEW lvs, NEW leaf, Len(lvs) = 1, leaf = lvs[1]
    PROVE  SparseProof(leaf, 0, Depth).root = FullRoot(lvs, Depth) <=> Depth = 1
<1> DEFINE e == Depth - 1
           siblings == [level \in 0..(Depth - 1) |-> Zero]
           bits == Bits(0, Depth)
           f == PathNodes(leaf, siblings, bits, Depth)
<1>0. /\ Depth \in Nat /\ Depth > 0 /\ e \in Nat /\ e + 1 = Depth /\ e < Depth
      /\ Depth = 1 <=> e = 0
  BY Capacity
<1>1. SparseProof(leaf, 0, Depth).root = PathRoot(leaf, siblings, bits, Depth)
  BY DEF SparseProof
<1>2. /\ PathRoot(leaf, siblings, bits, Depth) = f[Depth]
      /\ f[0] = leaf
      /\ \A d \in Nat : d < Depth => f[d + 1] = Parent(f[d], siblings[d], bits[d])
  BY <1>0, PathRules
<1>3. siblings[e] = Zero
  BY <1>0
<1>4. bits[e] = 0
  <2>1. bits[e] = Up(0, e) % 2
    BY <1>0, BitOfLevel
  <2>2. Up(0, e) = 0
    <3>1. Pow2(e) \in Nat /\ Pow2(e) > 0
      BY <1>0, Pow2Rules
    <3> QED BY <3>1, Quotient DEF Up
  <2> QED BY <2>1, <2>2
<1> HIDE DEF f, siblings, bits
<1>5. f[Depth] = Hash(f[e], Zero)
  <2>1. f[e + 1] = Parent(f[e], siblings[e], bits[e])
    BY <1>0, <1>2
  <2> QED BY <2>1, <1>0, <1>3, <1>4 DEF Parent
<1>6. /\ FullRoot(lvs, Depth) = Hash(At(lvs, Depth, e, 0), At(lvs, Depth, e, 1))
      /\ Has(Depth, e, 0) /\ Has(Depth, e, 1)
  BY <1>0, RootIsHash
<1> HIDE DEF e
<1>7. ASSUME e = 0
      PROVE  SparseProof(leaf, 0, Depth).root = FullRoot(lvs, Depth)
  <2>1. At(lvs, Depth, 0, 0) = LeafAt(lvs, 0) /\ At(lvs, Depth, 0, 1) = LeafAt(lvs, 1)
    BY <1>0, <1>6, <1>7, TreeRules
  <2>2. LeafAt(lvs, 0) = leaf /\ LeafAt(lvs, 1) = Zero
    BY DEF LeafAt
  <2> QED BY <1>1, <1>2, <1>5, <1>6, <1>7, <2>1, <2>2
<1>8. ASSUME e # 0
      PROVE  SparseProof(leaf, 0, Depth).root # FullRoot(lvs, Depth)
  <2> DEFINE g == e - 1
  <2>1. g \in Nat /\ g + 1 = e
    BY <1>0, <1>8
  <2> HIDE DEF g
  <2>2. Has(Depth, g + 1, 1)
    BY <2>1, <1>6
  <2>3. At(lvs, Depth, e, 1) # Zero
    BY <1>0, <2>1, <2>2, InnerNode
  <2> QED BY <1>1, <1>2, <1>5, <1>6, <2>3, HashInjective
<1> QED BY <1>0, <1>7, <1>8

\* A proof of the SDK's tree leads to the root of the full tree.
LEMMA BuiltProofLeads ==
    ASSUME Depth < ShiftWidth - 1, NEW lvs \in Seq(Leaf), Len(lvs) <= MAX_LEAVES,
           NEW index \in 0..(Len(lvs) - 1)
    PROVE  PathRoot(lvs[index + 1], BuiltProof(lvs, Depth, index).siblings,
                    BuiltProof(lvs, Depth, index).bits, Depth) = FullRoot(lvs, Depth)
<1> DEFINE siblings == BuiltProof(lvs, Depth, index).siblings
<1>0. /\ Depth \in Nat /\ Depth > 0 /\ MAX_LEAVES \in Nat /\ MAX_LEAVES = Pow2(Depth)
      /\ ShiftWidth \in Nat /\ Len(lvs) \in Nat
  BY Capacity, TreeAssumption
<1>1. Depth \in 1..ShiftWidth /\ index \in Nat /\ index < Len(lvs) /\ index \in 0..(Pow2(Depth) - 1)
  BY <1>0
<1>2. BuiltProof(lvs, Depth, index).bits = Bits(index, Depth)
  BY DEF BuiltProof, Bits
<1>3. ASSUME NEW d \in Nat, d < Depth
      PROVE  siblings[d] = At(lvs, Depth, d, Sibling(Up(index, d)))
  <2>1. d \in 0..(Depth - 1) /\ d \in 0..Depth
    BY <1>0, <1>3
  <2>2. siblings[d] = Entry(BuildMerkleTree(lvs, Depth)[d], Sibling(Up(index, d)))
    BY <2>1 DEF BuiltProof, BuiltSibling, Sibling, Up
  <2> HIDE DEF siblings
  <2>3. Has(Depth, d, Up(index, d))
    BY <1>0, <1>1, <2>1, UpRange DEF Has
  <2>4. Has(Depth, d, Sibling(Up(index, d)))
    BY <1>0, <1>3, <2>3, Siblings
  <2>5. \A i : Has(Depth, d, i) => Entry(BuildMerkleTree(lvs, Depth)[d], i) = At(lvs, Depth, d, i)
    BY <1>0, <1>1, BuildAgrees
  <2> QED BY <2>2, <2>4, <2>5
<1> HIDE DEF siblings
<1>4. PathRoot(LeafAt(lvs, index), siblings, Bits(index, Depth), Depth) = FullRoot(lvs, Depth)
  BY <1>0, <1>1, <1>3, PathLeadsToRoot
<1>5. LeafAt(lvs, index) = lvs[index + 1]
  BY <1>1 DEF LeafAt
<1> QED BY <1>2, <1>4, <1>5 DEF siblings

\* The SDK's tree agrees with the contract's.
LEMMA SdkTree ==
    ASSUME PerfectHash, Depth < ShiftWidth - 1, ContractInv
    PROVE  SdkTreeAgrees
<1> DEFINE current == Prefix(totalLeaves)
<1>1. SUFFICES ASSUME totalLeaves > 0
      PROVE
        /\ \A depth \in 1..ShiftWidth :
               BuiltRoot(current, depth) = FullRoot(current, depth) <=> depth < ShiftWidth - 1
        /\ \A index \in 0..(Len(current) - 1) :
               PathRoot(current[index + 1], BuiltProof(current, Depth, index).siblings,
                        BuiltProof(current, Depth, index).bits, Depth) = currentRoot
        /\ totalLeaves = 1 =>
               (SparseProof(inserted[1], 0, Depth).root \in knownRoots <=> Depth = 1)
  BY DEF SdkTreeAgrees
<1>2. /\ inserted \in Seq(Leaf) /\ Len(inserted) = totalLeaves
      /\ currentRoot = FullRoot(TreeOf(inserted, totalLeaves), Depth)
      /\ knownRoots = RootsOf(inserted)
  BY <1>1 DEF ContractInv, TypeOK, CountsMatch, RootsMatch
<1>3. current = TreeOf(inserted, totalLeaves)
  BY DEF Prefix, TreeOf
<1>4. totalLeaves \in 1..Len(inserted)
  BY <1>1, <1>2
<1> HIDE DEF current
<1>5. current \in Seq(Leaf) /\ Len(current) \in 1..MAX_LEAVES
  BY <1>2, <1>3, <1>4, TreeOfType
<1>6. \A depth \in 1..ShiftWidth :
        BuiltRoot(current, depth) = FullRoot(current, depth) <=> depth < ShiftWidth - 1
  BY <1>5, BuiltRootAgrees
<1>7. MAX_LEAVES \in Nat
  BY Capacity
<1>8. \A index \in 0..(Len(current) - 1) :
        PathRoot(current[index + 1], BuiltProof(current, Depth, index).siblings,
                 BuiltProof(current, Depth, index).bits, Depth) = currentRoot
  <2>1. SUFFICES ASSUME NEW index \in 0..(Len(current) - 1)
                 PROVE  PathRoot(current[index + 1], BuiltProof(current, Depth, index).siblings,
                                 BuiltProof(current, Depth, index).bits, Depth) = FullRoot(current, Depth)
    BY <1>2, <1>3
  <2>2. Len(current) <= MAX_LEAVES
    BY <1>5, <1>7
  <2> QED BY <1>5, <2>2, BuiltProofLeads
<1>9. ASSUME totalLeaves = 1
      PROVE  SparseProof(inserted[1], 0, Depth).root \in knownRoots <=> Depth = 1
  <2>1. current = SubSeq(inserted, 1, 1)
    <3>1. (1 - 1) \div MAX_LEAVES = 0 /\ 0 * MAX_LEAVES + 1 = 1
      BY Capacity, Quotient
    <3> QED BY <1>3, <1>9, <3>1 DEF TreeOf
  <2>2. Len(current) = 1 /\ current[1] = inserted[1]
    BY <1>2, <1>9, <2>1
  <2>3. knownRoots = {FullRoot(current, Depth)}
    <3>1. 1..Len(inserted) = {1}
      BY <1>2, <1>9
    <3>2. RootsOf(inserted) = {FullRoot(TreeOf(inserted, 1), Depth)}
      BY <3>1 DEF RootsOf
    <3> QED BY <1>2, <1>3, <1>9, <3>2
  <2>4. SparseProof(inserted[1], 0, Depth).root = FullRoot(current, Depth) <=> Depth = 1
    BY <2>2, SparseAgrees
  <2> QED BY <2>3, <2>4
<1> QED BY <1>6, <1>8, <1>9

\* SdkTreeAgrees: at every depth the shift can compute, the SDK's tree and its
\* proofs are the contract's, at the two depths above they are not, and a
\* sparse proof only in a tree of one level.  The depth of the contract has to
\* be one the shift can compute (20, of 32).
THEOREM SdkTreeMatches ==
    ASSUME PerfectHash, Depth < ShiftWidth - 1
    PROVE  Spec => []SdkTreeAgrees
<1>1. ContractInv => SdkTreeAgrees
  BY SdkTree
<1> QED BY <1>1, ContractInvariant, PTL

-----------------------------------------------------------------------------
(* Arithmetic modulo P.                                                    *)

\* Quotient and remainder.
LEMMA DivMod ==
    ASSUME P \in Nat \ {0}, NEW x \in Int
    PROVE  /\ x % P \in 0 .. P - 1
           /\ x \div P \in Int
           /\ x = (x \div P) * P + (x % P)
<1>1. x = P * (x \div P) + (x % P) /\ x % P \in 0 .. P - 1 /\ x \div P \in Int
  OBVIOUS
<1>2. P * (x \div P) = (x \div P) * P
  BY <1>1
<1> QED BY <1>1, <1>2

\* A multiple of P that is between -P and P is zero.
LEMMA SmallMultiple ==
    ASSUME P \in Nat \ {0}, NEW k \in Int, k * P < P, - P < k * P
    PROVE  k = 0
<1>1. CASE k >= 1
  <2>1. k - 1 \in Nat /\ (k - 1) * P \in Nat
    BY <1>1
  <2>2. k * P = (k - 1) * P + P
    BY <1>1
  <2> QED BY <2>1, <2>2
<1>2. CASE k <= -1
  <2>1. (- k) - 1 \in Nat /\ ((- k) - 1) * P \in Nat
    BY <1>2
  <2>2. (- k) * P = ((- k) - 1) * P + P /\ (- k) * P = - (k * P)
    BY <1>2
  <2> QED BY <2>1, <2>2
<1> QED BY <1>1, <1>2

\* Numbers that differ by a multiple of P have one remainder.
LEMMA ModUnique ==
    ASSUME P \in Nat \ {0}, NEW x \in Int, NEW y \in Int, NEW k \in Int, x = y + k * P
    PROVE  x % P = y % P
<1> DEFINE q == x \div P
           p == y \div P
           r == x % P
           s == y % P
<1>1. /\ q \in Int /\ r \in 0 .. P - 1 /\ x = q * P + r
      /\ p \in Int /\ s \in 0 .. P - 1 /\ y = p * P + s
  BY DivMod
<1> HIDE DEF q, p, r, s
<1>2. (q - p - k) * P = q * P - p * P - k * P
  BY <1>1
<1>3. (q - p - k) * P = s - r
  BY <1>1, <1>2
<1>4. q - p - k = 0
  BY <1>1, <1>3, SmallMultiple
<1>5. s = r
  BY <1>1, <1>2, <1>3, <1>4
<1> QED BY <1>5 DEF r, s

\* A remainder is its own remainder.
LEMMA ModMod ==
    ASSUME P \in Nat \ {0}, NEW x \in Int
    PROVE  (x % P) % P = x % P
<1>1. x % P \in Int /\ x \div P \in Int /\ x = (x \div P) * P + (x % P)
  BY DivMod
<1>2. x = (x % P) + (x \div P) * P
  BY <1>1
<1> QED BY <1>1, <1>2, ModUnique

Congruent(x, y) == x \in Int /\ y \in Int /\ x % P = y % P

\* Sums and products of congruent numbers are congruent.
LEMMA ModAdd ==
    ASSUME P \in Nat \ {0}, NEW a, NEW b, NEW c, NEW d, Congruent(a, c), Congruent(b, d)
    PROVE  Congruent(a + b, c + d)
<1>0. /\ a \in Int /\ b \in Int /\ c \in Int /\ d \in Int
      /\ a % P = c % P /\ b % P = d % P
  BY DEF Congruent
<1> DEFINE ka == a \div P
           kb == b \div P
           kc == c \div P
           kd == d \div P
<1>1. /\ ka \in Int /\ a = ka * P + (a % P)
      /\ kb \in Int /\ b = kb * P + (b % P)
      /\ kc \in Int /\ c = kc * P + (c % P)
      /\ kd \in Int /\ d = kd * P + (d % P)
      /\ a % P \in Int /\ b % P \in Int /\ c % P \in Int /\ d % P \in Int
  BY <1>0, DivMod
<1> HIDE DEF ka, kb, kc, kd
<1>2. (ka + kb - kc - kd) * P = ka * P + kb * P - kc * P - kd * P
  BY <1>0, <1>1
<1> DEFINE k == ka + kb - kc - kd
           x == a + b
           y == c + d
<1>3. x = y + k * P /\ k \in Int /\ x \in Int /\ y \in Int
  BY <1>0, <1>1, <1>2
<1> HIDE DEF k, x, y
<1>4. x % P = y % P
  BY <1>3, ModUnique
<1> QED BY <1>3, <1>4 DEF x, y, Congruent

\* Congruent factors have congruent products.
LEMMA ModMul ==
    ASSUME P \in Nat \ {0}, NEW a, NEW b, NEW c, NEW d, Congruent(a, c), Congruent(b, d)
    PROVE  Congruent(a * b, c * d)
<1>0. /\ a \in Int /\ b \in Int /\ c \in Int /\ d \in Int
      /\ a % P = c % P /\ b % P = d % P
  BY DEF Congruent
<1> DEFINE ka == a \div P
           kb == b \div P
           kc == c \div P
           kd == d \div P
           r == a % P
           s == b % P
<1>1. /\ ka \in Int /\ a = ka * P + r
      /\ kb \in Int /\ b = kb * P + s
      /\ kc \in Int /\ c = kc * P + r
      /\ kd \in Int /\ d = kd * P + s
      /\ r \in Int /\ s \in Int
  BY <1>0, DivMod
<1> HIDE DEF ka, kb, kc, kd, r, s
<1>2. a * b = (ka * (kb * P) + ka * s + r * kb) * P + r * s
  BY <1>0, <1>1
<1>3. c * d = (kc * (kd * P) + kc * s + r * kd) * P + r * s
  BY <1>0, <1>1
<1> DEFINE m == ka * (kb * P) + ka * s + r * kb
           n == kc * (kd * P) + kc * s + r * kd
<1>4. m \in Int /\ n \in Int /\ a * b = m * P + r * s /\ c * d = n * P + r * s
  BY <1>1, <1>2, <1>3
<1>5. a * b \in Int /\ c * d \in Int /\ r * s \in Int
  BY <1>0, <1>1
<1> HIDE DEF m, n
<1>6. (m - n) * P = m * P - n * P
  BY <1>4
<1> DEFINE k == m - n
           x == a * b
           y == c * d
<1>7. x = y + k * P /\ k \in Int /\ x \in Int /\ y \in Int
  BY <1>4, <1>5, <1>6
<1> HIDE DEF k, x, y
<1>8. x % P = y % P
  BY <1>7, ModUnique
<1> QED BY <1>7, <1>8 DEF x, y, Congruent

-----------------------------------------------------------------------------
(* The operations of the contract, as congruences.                         *)

Reduced(x) == x \in 0 .. P - 1

\* A reduced number is the remainder of all that are congruent to it.
LEMMA ReducedIsRemainder ==
    ASSUME P \in Nat \ {0}, NEW x, NEW y, Reduced(x), Congruent(x, y)
    PROVE  x = y % P
<1> DEFINE k == x \div P
           r == x % P
<1>1. k \in Int /\ r \in 0 .. P - 1 /\ x = k * P + r /\ x \in 0 .. P - 1
  BY DivMod DEF Reduced, Congruent
<1> HIDE DEF k, r
<1>2. k * P < P /\ - P < k * P
  BY <1>1
<1>3. k = 0
  BY <1>1, <1>2, SmallMultiple
<1>4. x = r
  BY <1>1, <1>3
<1> QED BY <1>4 DEF r, Congruent

\* Every integer is congruent to itself.
LEMMA CongruentSelf ==
    ASSUME NEW x \in Int
    PROVE  Congruent(x, x)
BY DEF Congruent

\* addmod is addition, up to congruence.
LEMMA CongruentAdd ==
    ASSUME P \in Nat \ {0}, NEW a, NEW b, NEW c, NEW d, Congruent(a, c), Congruent(b, d)
    PROVE  Congruent(addmod(a, b), c + d) /\ Reduced(addmod(a, b))
<1> DEFINE x == a + b
           y == c + d
<1>1. Congruent(x, y)
  BY ModAdd
<1> HIDE DEF x, y
<1>2. x % P \in 0 .. P - 1 /\ (x % P) % P = x % P
  BY <1>1, DivMod, ModMod DEF Congruent
<1>3. addmod(a, b) = x % P
  BY DEF addmod, x
<1> QED BY <1>1, <1>2, <1>3 DEF Congruent, Reduced, y

\* mulmod is multiplication, up to congruence.
LEMMA CongruentMul ==
    ASSUME P \in Nat \ {0}, NEW a, NEW b, NEW c, NEW d, Congruent(a, c), Congruent(b, d)
    PROVE  Congruent(mulmod(a, b), c * d) /\ Reduced(mulmod(a, b))
<1> DEFINE x == a * b
           y == c * d
<1>1. Congruent(x, y)
  BY ModMul
<1> HIDE DEF x, y
<1>2. x % P \in 0 .. P - 1 /\ (x % P) % P = x % P
  BY <1>1, DivMod, ModMod DEF Congruent
<1>3. mulmod(a, b) = x % P
  BY DEF mulmod, x
<1> QED BY <1>1, <1>2, <1>3 DEF Congruent, Reduced, y

\* The S-box is the fifth power.
LEMMA SboxIsPower ==
    ASSUME P \in Nat \ {0}, NEW x, NEW y, Congruent(x, y)
    PROVE  _sbox(x) = Power5(y) /\ _sbox(x) \in 0 .. P - 1
<1> DEFINE x2 == mulmod(x, x)
           x4 == mulmod(x2, x2)
           y2 == y * y
           y4 == y2 * y2
<1>1. Congruent(x2, y2)
  BY CongruentMul
<1> HIDE DEF x2, y2
<1>2. Congruent(x4, y4)
  BY <1>1, CongruentMul
<1> HIDE DEF x4, y4
<1>3. Congruent(mulmod(x4, x), y4 * y) /\ Reduced(mulmod(x4, x))
  BY <1>2, CongruentMul
<1>4. mulmod(x4, x) = (y4 * y) % P
  BY <1>3, ReducedIsRemainder
<1>5. y \in Int /\ y4 = (y * y) * (y * y)
  BY DEF y4, y2, Congruent
<1>6. y4 * y = y * y * y * y * y
  BY <1>5
<1> QED BY <1>3, <1>4, <1>6 DEF _sbox, Power5, x4, x2, Reduced

-----------------------------------------------------------------------------
(* The layers.                                                             *)

\* The decomposition of the external layer computes the product with the
\* matrix that Poseidon2.sol documents.
LEMMA ExternalLayerIsProduct ==
    ASSUME P \in Nat \ {0}, NEW s \in State
    PROVE  /\ _externalLayer(s) = Times(ExternalMatrix, s)
           /\ _externalLayer(s) \in [Lane -> 0 .. P - 1]
<1> DEFINE a == s[1]
           b == s[2]
           c == s[3]
           d == s[4]
           t0 == addmod(a, b)
           t1 == addmod(c, d)
           t2 == addmod(mulmod(2, b), t1)
           t3 == addmod(mulmod(2, d), t0)
           t4 == addmod(mulmod(4, t1), t3)
           t5 == addmod(mulmod(4, t0), t2)
           e1 == addmod(t3, t5)
           e3 == addmod(t2, t4)
<1>1. a \in Int /\ b \in Int /\ c \in Int /\ d \in Int
  BY DEF State, Lane
<1>2. _externalLayer(s) = <<e1, t5, e3, t4>>
  BY DEF _externalLayer
<1> HIDE DEF a, b, c, d
<1>3. /\ Congruent(a, a) /\ Congruent(b, b) /\ Congruent(c, c) /\ Congruent(d, d)
      /\ Congruent(2, 2) /\ Congruent(4, 4)
  BY <1>1, CongruentSelf
<1>4. Congruent(t0, a + b) /\ Congruent(t1, c + d)
  BY <1>3, CongruentAdd
<1> HIDE DEF t0, t1
<1>5. Congruent(mulmod(2, b), 2 * b) /\ Congruent(mulmod(2, d), 2 * d)
  BY <1>3, CongruentMul
<1>6. Congruent(mulmod(4, t1), 4 * (c + d)) /\ Congruent(mulmod(4, t0), 4 * (a + b))
  BY <1>3, <1>4, CongruentMul
<1>7. Congruent(t2, 2 * b + (c + d)) /\ Congruent(t3, 2 * d + (a + b))
  BY <1>4, <1>5, CongruentAdd
<1> HIDE DEF t2, t3
<1>8. /\ Congruent(t4, 4 * (c + d) + (2 * d + (a + b))) /\ Reduced(t4)
      /\ Congruent(t5, 4 * (a + b) + (2 * b + (c + d))) /\ Reduced(t5)
  BY <1>6, <1>7, CongruentAdd
<1> HIDE DEF t4, t5
<1>9. /\ Congruent(e1, (2 * d + (a + b)) + (4 * (a + b) + (2 * b + (c + d)))) /\ Reduced(e1)
      /\ Congruent(e3, (2 * b + (c + d)) + (4 * (c + d) + (2 * d + (a + b)))) /\ Reduced(e3)
  BY <1>7, <1>8, CongruentAdd
<1> HIDE DEF e1, e3
<1>10. /\ (2 * d + (a + b)) + (4 * (a + b) + (2 * b + (c + d))) = 5 * a + 7 * b + 1 * c + 3 * d
       /\ 4 * (a + b) + (2 * b + (c + d)) = 4 * a + 6 * b + 1 * c + 1 * d
       /\ (2 * b + (c + d)) + (4 * (c + d) + (2 * d + (a + b))) = 1 * a + 3 * b + 5 * c + 7 * d
       /\ 4 * (c + d) + (2 * d + (a + b)) = 1 * a + 1 * b + 4 * c + 6 * d
  BY <1>1
<1>11. /\ e1 = (5 * a + 7 * b + 1 * c + 3 * d) % P
       /\ t5 = (4 * a + 6 * b + 1 * c + 1 * d) % P
       /\ e3 = (1 * a + 3 * b + 5 * c + 7 * d) % P
       /\ t4 = (1 * a + 1 * b + 4 * c + 6 * d) % P
  BY <1>8, <1>9, <1>10, ReducedIsRemainder
<1>12. Times(ExternalMatrix, s) = <<(5 * a + 7 * b + 1 * c + 3 * d) % P,
                                    (4 * a + 6 * b + 1 * c + 1 * d) % P,
                                    (1 * a + 3 * b + 5 * c + 7 * d) % P,
                                    (1 * a + 1 * b + 4 * c + 6 * d) % P>>
  BY DEF Times, ExternalMatrix, Lane, a, b, c, d
<1>13. _externalLayer(s) = Times(ExternalMatrix, s)
  BY <1>2, <1>11, <1>12
<1>14. <<e1, t5, e3, t4>> \in [Lane -> 0 .. P - 1]
  BY <1>8, <1>9 DEF Lane, Reduced
<1> QED BY <1>2, <1>13, <1>14

\* The sum the contract shares between lanes makes the product with the
\* internal matrix.
LEMMA InternalLayerIsProduct ==
    ASSUME P \in Nat \ {0}, D \in State, NEW s \in State
    PROVE  /\ _internalLayer(s) = Times(InternalMatrix, s)
           /\ _internalLayer(s) \in [Lane -> 0 .. P - 1]
<1> DEFINE sum == addmod(addmod(s[1], s[2]), addmod(s[3], s[4]))
           total == (s[1] + s[2]) + (s[3] + s[4])
           M == InternalMatrix
<1>1. \A i \in Lane : s[i] \in Nat /\ D[i] \in Nat
  BY DEF State
<1>2. /\ Congruent(s[1], s[1]) /\ Congruent(s[2], s[2])
      /\ Congruent(s[3], s[3]) /\ Congruent(s[4], s[4])
  BY <1>1, CongruentSelf DEF Lane
<1>3. Congruent(addmod(s[1], s[2]), s[1] + s[2]) /\ Congruent(addmod(s[3], s[4]), s[3] + s[4])
  BY <1>2, CongruentAdd
<1>4. Congruent(sum, total)
  BY <1>3, CongruentAdd
<1> HIDE DEF sum
<1>5. ASSUME NEW i \in Lane
      PROVE  /\ addmod(mulmod(D[i], s[i]), sum) \in 0 .. P - 1
             /\ addmod(mulmod(D[i], s[i]), sum)
                  = (M[i][1] * s[1] + M[i][2] * s[2] + M[i][3] * s[3] + M[i][4] * s[4]) % P
  <2>1. Congruent(D[i], D[i]) /\ Congruent(s[i], s[i])
    BY <1>1, CongruentSelf
  <2>2. Congruent(mulmod(D[i], s[i]), D[i] * s[i])
    BY <2>1, CongruentMul
  <2> DEFINE e == addmod(mulmod(D[i], s[i]), sum)
             t == D[i] * s[i] + total
  <2>3. Congruent(e, t) /\ Reduced(e)
    BY <1>4, <2>2, CongruentAdd
  <2> HIDE DEF e, t
  <2>4. e = t % P
    BY <2>3, ReducedIsRemainder
  <2>5. t = M[i][1] * s[1] + M[i][2] * s[2] + M[i][3] * s[3] + M[i][4] * s[4]
    <3>1. \A j \in Lane : M[i][j] = IF i = j THEN D[i] + 1 ELSE 1
      BY DEF InternalMatrix
    <3>2. /\ s[1] \in Nat /\ s[2] \in Nat /\ s[3] \in Nat /\ s[4] \in Nat
          /\ D[i] \in Nat /\ (D[i] + 1) * s[i] = D[i] * s[i] + s[i]
      BY <1>1 DEF Lane
    <3> HIDE DEF M
    <3>3. CASE i = 1
      BY <3>1, <3>2, <3>3 DEF Lane, t
    <3>4. CASE i = 2
      BY <3>1, <3>2, <3>4 DEF Lane, t
    <3>5. CASE i = 3
      BY <3>1, <3>2, <3>5 DEF Lane, t
    <3>6. CASE i = 4
      BY <3>1, <3>2, <3>6 DEF Lane, t
    <3> QED BY <3>3, <3>4, <3>5, <3>6 DEF Lane
  <2> QED BY <2>3, <2>4, <2>5 DEF e, Reduced
<1> HIDE DEF M
<1>6. _internalLayer(s) = [i \in Lane |-> addmod(mulmod(D[i], s[i]), sum)]
  BY DEF _internalLayer, sum
<1>7. Times(M, s) =
        [i \in Lane |->
          (M[i][1] * s[1] + M[i][2] * s[2] + M[i][3] * s[3] + M[i][4] * s[4]) % P]
  BY DEF Times
<1> QED BY <1>5, <1>6, <1>7 DEF M

\* What is congruent leaves the external layer equal.
LEMMA ExternalLayerOfCongruent ==
    ASSUME P \in Nat \ {0}, NEW s, NEW t, \A i \in Lane : Congruent(s[i], t[i])
    PROVE  _externalLayer(s) = _externalLayer(t)
<1>1. /\ Congruent(s[1], t[1]) /\ Congruent(s[2], t[2])
      /\ Congruent(s[3], t[3]) /\ Congruent(s[4], t[4]) /\ Congruent(2, 2)
  BY CongruentSelf DEF Lane
<1>2. /\ Congruent(s[1] + s[2], t[1] + t[2]) /\ Congruent(s[3] + s[4], t[3] + t[4])
      /\ Congruent(2 * s[2], 2 * t[2]) /\ Congruent(2 * s[4], 2 * t[4])
  BY <1>1, ModAdd, ModMul
<1>3. /\ addmod(s[1], s[2]) = addmod(t[1], t[2]) /\ addmod(s[3], s[4]) = addmod(t[3], t[4])
      /\ mulmod(2, s[2]) = mulmod(2, t[2]) /\ mulmod(2, s[4]) = mulmod(2, t[4])
  BY <1>2 DEF addmod, mulmod, Congruent
<1> QED BY <1>3 DEF _externalLayer

-----------------------------------------------------------------------------
(* The rounds.                                                             *)

\* Reduced lanes are a state.
LEMMA ReducedIsState ==
    ASSUME P \in Nat \ {0}, NEW s \in [Lane -> 0 .. P - 1]
    PROVE  s \in State
BY DEF State

\* A round of the contract is one of the reference.
LEMMA RoundsAgree ==
    ASSUME Parameters, NEW s \in State, NEW r \in 0 .. Rounds - 1
    PROVE  _round(s, r) = Round(s, r) /\ _round(s, r) \in [Lane -> 0 .. P - 1]
<1>1. P \in Nat \ {0} /\ D \in State
  BY DEF Parameters
<1>2. CASE IsFullRound(r)
  <2> DEFINE rc == _rc[r]
             u == [i \in Lane |-> _sbox(addmod(s[i], rc[i]))]
             v == [i \in Lane |-> Power5(s[i] + rc[i])]
  <2>1. rc \in State
    BY <1>2 DEF Parameters
  <2> HIDE DEF rc
  <2>2. ASSUME NEW i \in Lane
        PROVE  _sbox(addmod(s[i], rc[i])) = Power5(s[i] + rc[i])
               /\ _sbox(addmod(s[i], rc[i])) \in 0 .. P - 1
    <3>1. s[i] \in Int /\ rc[i] \in Int
      BY <2>1 DEF State
    <3>2. Congruent(s[i], s[i]) /\ Congruent(rc[i], rc[i])
      BY <3>1, CongruentSelf
    <3>3. Congruent(addmod(s[i], rc[i]), s[i] + rc[i])
      BY <1>1, <3>2, CongruentAdd
    <3> QED BY <1>1, <3>3, SboxIsPower
  <2>3. u = v /\ u \in State
    BY <1>1, <2>2 DEF State
  <2> HIDE DEF u, v
  <2>4. _externalLayer(u) = Times(ExternalMatrix, v) /\ _externalLayer(u) \in [Lane -> 0 .. P - 1]
    BY <1>1, <2>3, ExternalLayerIsProduct
  <2>5. _round(s, r) = _externalLayer(u) /\ Round(s, r) = Times(ExternalMatrix, v)
    BY <1>2 DEF _round, Round, _fullRound, u, v, rc
  <2> QED BY <2>4, <2>5
<1>3. CASE ~ IsFullRound(r)
  <2> DEFINE rc == _rcPartial[r]
             u == [s EXCEPT ![1] = _sbox(addmod(s[1], rc))]
             v == [s EXCEPT ![1] = Power5(s[1] + rc)]
  <2>1. rc \in Int /\ s[1] \in Int
    BY <1>3 DEF Parameters, State, Lane
  <2> HIDE DEF rc
  <2>2. Congruent(s[1], s[1]) /\ Congruent(rc, rc)
    BY <2>1, CongruentSelf
  <2>3. Congruent(addmod(s[1], rc), s[1] + rc)
    BY <1>1, <2>2, CongruentAdd
  <2>4. _sbox(addmod(s[1], rc)) = Power5(s[1] + rc) /\ _sbox(addmod(s[1], rc)) \in 0 .. P - 1
    BY <1>1, <2>3, SboxIsPower
  <2>5. u = v /\ u \in State
    <3>1. u = v
      BY <2>4
    <3>2. _sbox(addmod(s[1], rc)) \in Nat /\ 1 \in Lane
      BY <1>1, <2>4 DEF Lane
    <3> QED BY <3>1, <3>2 DEF State
  <2> HIDE DEF u, v
  <2>6. _internalLayer(u) = Times(InternalMatrix, v) /\ _internalLayer(u) \in [Lane -> 0 .. P - 1]
    BY <1>1, <2>5, InternalLayerIsProduct
  <2>7. _round(s, r) = _internalLayer(u) /\ Round(s, r) = Times(InternalMatrix, v)
    BY <1>3 DEF _round, Round, _partialRound, u, v, rc
  <2> QED BY <2>6, <2>7
<1> QED BY <1>2, <1>3

\* Both recursions over the rounds have a solution.
LEMMA ContractRoundsExist ==
    ASSUME NEW s
    PROVE  \A n \in Nat : \E f :
               f = [r \in 0..n |-> IF r = 0 THEN _externalLayer(s) ELSE _round(f[r - 1], r - 1)]
<1> DEFINE Ok == {n \in Nat : \E f :
               f = [r \in 0..n |-> IF r = 0 THEN _externalLayer(s) ELSE _round(f[r - 1], r - 1)]}
<1>1. 0 \in Ok
  <2> DEFINE f == [r \in 0..0 |-> _externalLayer(s)]
  <2>1. f = [r \in 0..0 |-> IF r = 0 THEN _externalLayer(s) ELSE _round(f[r - 1], r - 1)]
    OBVIOUS
  <2> QED BY <2>1
<1>2. ASSUME NEW n \in Nat, n \in Ok PROVE n + 1 \in Ok
  <2>1. PICK g : g = [r \in 0..n |->
                        IF r = 0 THEN _externalLayer(s) ELSE _round(g[r - 1], r - 1)]
    BY <1>2
  <2> DEFINE f == [r \in 0..(n + 1) |-> IF r = n + 1 THEN _round(g[n], n) ELSE g[r]]
  <2>2. f = [r \in 0..(n + 1) |->
               IF r = 0 THEN _externalLayer(s) ELSE _round(f[r - 1], r - 1)]
    BY <2>1
  <2> HIDE DEF f
  <2>3. \E h : h = [r \in 0..(n + 1) |->
               IF r = 0 THEN _externalLayer(s) ELSE _round(h[r - 1], r - 1)]
    BY <2>2
  <2> QED BY <2>3
<1> HIDE DEF Ok
<1>3. \A n \in Nat : n \in Ok
  BY <1>1, <1>2, SetInduction
<1> QED BY <1>3 DEF Ok

\* The recursive definition of the reference's rounds has a solution.
LEMMA LibraryRoundsExist ==
    ASSUME NEW s
    PROVE  \A n \in Nat : \E f :
               f = [r \in 0..n |->
                      IF r = 0 THEN Times(ExternalMatrix, s) ELSE Round(f[r - 1], r - 1)]
<1> DEFINE Ok == {n \in Nat : \E f :
               f = [r \in 0..n |->
                      IF r = 0 THEN Times(ExternalMatrix, s) ELSE Round(f[r - 1], r - 1)]}
<1>1. 0 \in Ok
  <2> DEFINE f == [r \in 0..0 |-> Times(ExternalMatrix, s)]
  <2>1. f = [r \in 0..0 |-> IF r = 0 THEN Times(ExternalMatrix, s) ELSE Round(f[r - 1], r - 1)]
    OBVIOUS
  <2> QED BY <2>1
<1>2. ASSUME NEW n \in Nat, n \in Ok PROVE n + 1 \in Ok
  <2>1. PICK g : g = [r \in 0..n |->
                        IF r = 0 THEN Times(ExternalMatrix, s) ELSE Round(g[r - 1], r - 1)]
    BY <1>2
  <2> DEFINE f == [r \in 0..(n + 1) |-> IF r = n + 1 THEN Round(g[n], n) ELSE g[r]]
  <2>2. f = [r \in 0..(n + 1) |->
               IF r = 0 THEN Times(ExternalMatrix, s) ELSE Round(f[r - 1], r - 1)]
    BY <2>1
  <2> HIDE DEF f
  <2>3. \E h : h = [r \in 0..(n + 1) |->
               IF r = 0 THEN Times(ExternalMatrix, s) ELSE Round(h[r - 1], r - 1)]
    BY <2>2
  <2> QED BY <2>3
<1> HIDE DEF Ok
<1>3. \A n \in Nat : n \in Ok
  BY <1>1, <1>2, SetInduction
<1> QED BY <1>3 DEF Ok

-----------------------------------------------------------------------------
(* The permutation and the sponge.                                         *)

\* The permutation the contract unrolls is the one bb.js and Noir compute,
\* for every state of naturals, and its lanes are field elements.
THEOREM PermutationsAgree ==
    ASSUME Parameters, NEW s \in State
    PROVE  _permute(s) = Permutation(s) /\ _permute(s) \in [Lane -> 0 .. P - 1]
<1> DEFINE f == CHOOSE f : f = [r \in 0 .. Rounds |->
                  IF r = 0 THEN _externalLayer(s) ELSE _round(f[r - 1], r - 1)]
           g == CHOOSE g : g = [r \in 0 .. Rounds |->
                  IF r = 0 THEN Times(ExternalMatrix, s) ELSE Round(g[r - 1], r - 1)]
<1>1. P \in Nat \ {0} /\ Rounds \in Nat
  BY DEF Parameters, Rounds
<1>2. _permute(s) = f[Rounds] /\ Permutation(s) = g[Rounds]
  BY DEF _permute, Permutation
<1>3. f = [r \in 0 .. Rounds |-> IF r = 0 THEN _externalLayer(s) ELSE _round(f[r - 1], r - 1)]
  <2>1. \E h : h = [r \in 0 .. Rounds |->
                      IF r = 0 THEN _externalLayer(s) ELSE _round(h[r - 1], r - 1)]
    BY <1>1, ContractRoundsExist
  <2> QED BY <2>1
<1>4. g = [r \in 0 .. Rounds |->
             IF r = 0 THEN Times(ExternalMatrix, s) ELSE Round(g[r - 1], r - 1)]
  <2>1. \E h : h = [r \in 0 .. Rounds |->
                      IF r = 0 THEN Times(ExternalMatrix, s) ELSE Round(h[r - 1], r - 1)]
    BY <1>1, LibraryRoundsExist
  <2> QED BY <2>1
<1> HIDE DEF f, g
<1> DEFINE Ok == {n \in Nat : n <= Rounds => f[n] = g[n] /\ f[n] \in [Lane -> 0 .. P - 1]}
<1>5. 0 \in Ok
  BY <1>1, <1>3, <1>4, ExternalLayerIsProduct
<1>6. ASSUME NEW n \in Nat, n \in Ok PROVE n + 1 \in Ok
  <2>1. SUFFICES ASSUME n + 1 <= Rounds
                 PROVE  f[n + 1] = g[n + 1] /\ f[n + 1] \in [Lane -> 0 .. P - 1]
    OBVIOUS
  <2>2. n \in 0 .. Rounds - 1 /\ f[n] = g[n] /\ f[n] \in State
    BY <1>1, <1>6, <2>1, ReducedIsState
  <2>3. f[n + 1] = _round(f[n], n) /\ g[n + 1] = Round(g[n], n)
    BY <1>1, <1>3, <1>4, <2>1
  <2> QED BY <2>2, <2>3, RoundsAgree
<1> HIDE DEF Ok
<1>7. \A n \in Nat : n \in Ok
  BY <1>5, <1>6, SetInduction
<1> QED BY <1>1, <1>2, <1>7 DEF Ok

\* A state that fits into words reaches the permutation of bb.js as it is.
LEMMA WordsArePermuted ==
    ASSUME Parameters, NEW s \in State, \A i \in Lane : s[i] < Word
    PROVE  poseidon2Permutation(s) = _permute(s) /\ _permute(s) \in [Lane -> 0 .. P - 1]
BY PermutationsAgree DEF poseidon2Permutation

\* Adding to a lane and reducing, as the contract does, and adding only, as
\* the sequencer does, lead to the same permutation.
LEMMA AbsorbedAlike ==
    ASSUME Parameters, NEW q \in [Lane -> 0 .. P - 1],
           NEW d \in 0 .. P - 1, NEW e \in 0 .. P - 1, NEW f \in 0 .. P - 1
    PROVE  _permute(<<addmod(q[1], d), addmod(q[2], e), addmod(q[3], f), q[4]>>)
             = poseidon2Permutation(<<q[1] + d, q[2] + e, q[3] + f, q[4]>>)
<1> DEFINE s == <<addmod(q[1], d), addmod(q[2], e), addmod(q[3], f), q[4]>>
           t == <<q[1] + d, q[2] + e, q[3] + f, q[4]>>
<1>1. P \in Nat \ {0} /\ Word \in Nat /\ 2 * P <= Word
  BY DEF Parameters
<1>2. /\ q[1] \in 0 .. P - 1 /\ q[2] \in 0 .. P - 1 /\ q[3] \in 0 .. P - 1 /\ q[4] \in 0 .. P - 1
  BY DEF Lane
<1>3. /\ Congruent(q[1], q[1]) /\ Congruent(q[2], q[2]) /\ Congruent(q[3], q[3])
      /\ Congruent(q[4], q[4]) /\ Congruent(d, d) /\ Congruent(e, e) /\ Congruent(f, f)
  BY <1>1, <1>2, CongruentSelf
<1>4. /\ Congruent(addmod(q[1], d), q[1] + d) /\ Reduced(addmod(q[1], d))
      /\ Congruent(addmod(q[2], e), q[2] + e) /\ Reduced(addmod(q[2], e))
      /\ Congruent(addmod(q[3], f), q[3] + f) /\ Reduced(addmod(q[3], f))
  BY <1>1, <1>3, CongruentAdd
<1>5. \A i \in Lane : Congruent(s[i], t[i])
  BY <1>3, <1>4 DEF Lane
<1>6. s \in State /\ t \in State /\ \A i \in Lane : t[i] < Word
  BY <1>1, <1>2, <1>4 DEF State, Lane, Reduced
<1> HIDE DEF s, t
<1>7. _externalLayer(s) = _externalLayer(t)
  BY <1>1, <1>5, ExternalLayerOfCongruent
<1>8. _permute(s) = _permute(t)
  BY <1>7 DEF _permute
<1>9. poseidon2Permutation(t) = _permute(t)
  BY <1>6, WordsArePermuted
<1>10. _permute(s) = poseidon2Permutation(t)
  BY <1>8, <1>9
<1> QED BY <1>10 DEF s, t

\* Contract and sequencer hash alike: two, three, five and six field elements.
\* With three, the nodes of the contract's tree are those of the sequencer's.
THEOREM HashesAgree ==
    ASSUME Parameters,
           NEW a \in 0 .. P - 1, NEW b \in 0 .. P - 1, NEW c \in 0 .. P - 1,
           NEW d \in 0 .. P - 1, NEW e \in 0 .. P - 1, NEW f \in 0 .. P - 1
    PROVE  /\ hash_2(a, b) = poseidon2Hash2(a, b)
           /\ hash_3(a, b, c) = poseidon2Hash3(a, b, c)
           /\ hash_5(a, b, c, d, e) = poseidon2Hash5(a, b, c, d, e)
           /\ hash_6(a, b, c, d, e, f) = poseidon2Hash6(a, b, c, d, e, f)
<1>1. P \in Nat \ {0} /\ Word \in Nat /\ 2 * P <= Word
  BY DEF Parameters
<1> DEFINE s == <<a, b, 0, 0>>
           t == <<a, b, c, 0>>
<1>2. /\ s \in State /\ \A i \in Lane : s[i] < Word
      /\ t \in State /\ \A i \in Lane : t[i] < Word
  BY <1>1 DEF State, Lane
<1> DEFINE q == _permute(t)
<1> HIDE DEF s, t
<1>3. poseidon2Permutation(s) = _permute(s)
      /\ poseidon2Permutation(t) = q /\ q \in [Lane -> 0 .. P - 1]
  BY <1>2, WordsArePermuted
<1>4. hash_2(a, b) = poseidon2Hash2(a, b) /\ hash_3(a, b, c) = poseidon2Hash3(a, b, c)
  BY <1>3 DEF hash_2, hash_3, poseidon2Hash2, poseidon2Hash3, s, t
<1> HIDE DEF q
<1>5. _permute(<<addmod(q[1], d), addmod(q[2], e), addmod(q[3], f), q[4]>>)
        = poseidon2Permutation(<<q[1] + d, q[2] + e, q[3] + f, q[4]>>)
  BY <1>3, AbsorbedAlike
<1>6. hash_6(a, b, c, d, e, f) = poseidon2Hash6(a, b, c, d, e, f)
  BY <1>3, <1>5 DEF hash_6, poseidon2Hash6, q, t
<1>7. _permute(<<addmod(q[1], d), addmod(q[2], e), addmod(q[3], 0), q[4]>>)
        = poseidon2Permutation(<<q[1] + d, q[2] + e, q[3] + 0, q[4]>>)
  <2>1. 0 \in 0 .. P - 1
    BY <1>1
  <2> QED BY <1>3, <2>1, AbsorbedAlike
<1>8. addmod(q[3], 0) = q[3] /\ q[3] + 0 = q[3]
  <2>1. q[3] \in 0 .. P - 1
    BY <1>3 DEF Lane
  <2>2. Congruent(q[3], q[3]) /\ Reduced(q[3])
    BY <1>1, <2>1, CongruentSelf DEF Reduced
  <2>3. q[3] = q[3] % P
    BY <1>1, <2>2, ReducedIsRemainder
  <2>4. q[3] + 0 = q[3]
    BY <1>1, <2>1
  <2> QED BY <2>3, <2>4 DEF addmod
<1>9. hash_5(a, b, c, d, e) = poseidon2Hash5(a, b, c, d, e)
  BY <1>3, <1>7, <1>8 DEF hash_5, poseidon2Hash5, q, t
<1> QED BY <1>4, <1>6, <1>9
=============================================================================
