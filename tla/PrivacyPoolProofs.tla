------------------------- MODULE PrivacyPoolProofs -------------------------
(***************************************************************************)
(* Theorems about the pool contract, for every set of users, notes and     *)
(* denominations and every bound of the model.                             *)
(***************************************************************************)
EXTENDS PrivacyPool, SequenceSumsProofs

\* The root after n leaves is a sequence of leaves, and the n-th one is among
\* them.
LEMMA RootAfterLeaves ==
    ASSUME NEW lvs \in Seq(Note), NEW n \in 1..Len(lvs)
    PROVE  /\ RootAfter(lvs, n) \in Seq(Note)
           /\ \A i \in DOMAIN RootAfter(lvs, n) :
                \E j \in DOMAIN lvs : RootAfter(lvs, n)[i] = lvs[j]
           /\ InTree(lvs[n], RootAfter(lvs, n))
<1> DEFINE q == (n - 1) \div MaxLeaves
           lo == q * MaxLeaves + 1
<1>1. n \in Nat /\ n >= 1 /\ n <= Len(lvs) /\ Len(lvs) \in Nat /\ MaxLeaves \in Nat \ {0}
  BY ParameterAssumption
<1>2. q \in Nat /\ q * MaxLeaves <= n - 1
  <2>1. \A x \in Nat, y \in Nat \ {0} : x \div y \in Nat /\ (x \div y) * y <= x
    OBVIOUS
  <2> QED BY <1>1, <2>1
<1>3. lo \in Nat /\ lo >= 1 /\ lo <= n
  BY <1>1, <1>2
<1> HIDE DEF lo
<1>4. RootAfter(lvs, n) = SubSeq(lvs, lo, n)
  BY DEF RootAfter, lo
<1>5. /\ SubSeq(lvs, lo, n) \in Seq(Note)
      /\ DOMAIN SubSeq(lvs, lo, n) = 1..(n - lo + 1)
      /\ \A i \in 1..(n - lo + 1) : SubSeq(lvs, lo, n)[i] = lvs[lo + i - 1]
  BY <1>1, <1>3
<1>6. \A i \in 1..(n - lo + 1) : lo + i - 1 \in DOMAIN lvs
  BY <1>1, <1>3
<1>7. n - lo + 1 \in 1..(n - lo + 1) /\ lo + (n - lo + 1) - 1 = n
  BY <1>1, <1>3
<1> QED BY <1>4, <1>5, <1>6, <1>7 DEF InTree

-----------------------------------------------------------------------------
\* Type correctness

\* A transfer keeps the ledger a function to the naturals.
LEMMA TransferType ==
    ASSUME TypeOK, NEW from \in Address, NEW to \in Address, NEW amount \in Nat,
           Transfer(from, to, amount)
    PROVE  balance' \in [Address -> Nat]
BY DEF TypeOK, Transfer

\* Inserting leaves adds leaves and roots.
LEMMA InsertType ==
    ASSUME TypeOK, NEW new \in Seq(Note), Insert(new)
    PROVE  leaves' \in Seq(Note) /\ knownRoots' \subseteq Seq(Note)
<1>1. leaves' \in Seq(Note) /\ Len(leaves) \in Nat
  BY DEF TypeOK, Insert
<1>2. \A n \in (Len(leaves) + 1)..Len(leaves') : RootAfter(leaves', n) \in Seq(Note)
  BY <1>1, RootAfterLeaves
<1> QED BY <1>1, <1>2 DEF TypeOK, Insert

\* The amount of a note is a natural.
LEMMA NoteAmount ==
    ASSUME NEW note \in Note
    PROVE  note.amount \in Nat
BY NoteAssumption

\* The amounts callers name are naturals.
LEMMA AmountType == Amount \subseteq Nat
BY NoteAssumption, ParameterAssumption DEF Amount

\* So those of a batch are a sequence of naturals.
LEMMA AmountsType ==
    ASSUME NEW len \in Nat, NEW amounts \in [1..len -> Amount]
    PROVE  amounts \in Seq(Nat)
<1>1. amounts \in [1..len -> Nat]
  BY AmountType
<1> QED BY <1>1

\* What the multi-note withdrawal takes from a slot.
LEMMA SlotType ==
    ASSUME NEW spends \in [Slot -> Spend \cup {NoSpend}], NEW i \in 1..4
    PROVE  /\ SlotAmount(spends, i) \in Nat
           /\ SlotNullifier(spends, i) \in Nullifiers \cup {NoNullifier}
BY ParameterAssumption DEF SlotAmount, SlotNullifier, Spend, NoSpend, Nullifiers

\* One more transfer on the record of a nullifier.
LEMMA PaidType ==
    ASSUME TypeOK, NEW n \in Nullifiers, NEW recipient \in Recipient, NEW amount \in Nat
    PROVE  Paid(n, recipient, amount) \in [Nullifiers -> Seq(Payout)]
<1> DEFINE r == [recipient |-> recipient, amount |-> amount]
<1>1. r \in Payout
  BY DEF Payout
<1> HIDE DEF r
<1>2. payouts \in [Nullifiers -> Seq(Payout)]
  BY DEF TypeOK
<1>3. Append(payouts[n], r) \in Seq(Payout)
  BY <1>1, <1>2
<1>4. Paid(n, recipient, amount) = [payouts EXCEPT ![n] = Append(payouts[n], r)]
  BY DEF Paid, r
<1> QED BY <1>2, <1>3, <1>4

\* Completing a withdrawal, by attestation or by claim, keeps the types.
LEMMA CompleteType ==
    ASSUME TypeOK, NEW n \in Nullifiers, Complete(n)
    PROVE  TypeOK'
<1> DEFINE pw == pendingWithdrawals[n]
<1>1. pw \in Withdrawal /\ pw.recipient \in Recipient /\ pw.amount \in Nat
  BY DEF TypeOK, Complete, Open, Withdrawal
<1>2. balance' \in [Address -> Nat]
  BY <1>1, TransferType DEF Complete, Address
<1>3. pendingWithdrawals' \in [Nullifiers -> Withdrawal]
  <2>1. [pw EXCEPT !.completed = TRUE] \in Withdrawal
    <3> DEFINE hashes == {NoHash} \cup
                 {ComplianceHash(note, r, a) : note \in Note, r \in Recipient,
                                               a \in TransferAmount}
    <3> HIDE DEF hashes
    <3>1. Withdrawal = [recipient : Recipient \cup {ZeroAddr}, amount : Nat,
                        complianceHash : hashes, deadline : Nat, completed : BOOLEAN]
      BY DEF Withdrawal, hashes
    <3> QED BY <1>1, <3>1
  <2>2. pendingWithdrawals' = [pendingWithdrawals EXCEPT ![n] = [pw EXCEPT !.completed = TRUE]]
    BY DEF Complete
  <2> HIDE DEF pw
  <2>3. pendingWithdrawals \in [Nullifiers -> Withdrawal]
    BY DEF TypeOK
  <2> QED BY <2>1, <2>2, <2>3
<1>4. payouts' \in [Nullifiers -> Seq(Payout)]
  BY <1>1, PaidType DEF Complete
<1> QED BY <1>2, <1>3, <1>4 DEF TypeOK, Complete, tree

\* Every step keeps the types.
LEMMA TypeStep == TypeOK /\ [Next]_vars => TypeOK'
<1> SUFFICES ASSUME TypeOK, [Next]_vars PROVE TypeOK'
  OBVIOUS
<1>1. ASSUME NEW user \in User, NEW note \in Note, NEW amount \in Amount,
             Deposit(user, note, amount)
      PROVE  TypeOK'
  <2>1. user \in Address /\ Pool \in Address /\ amount \in Nat /\ <<note>> \in Seq(Note)
    BY AmountType DEF Address
  <2>2. balance' \in [Address -> Nat]
    BY <1>1, <2>1, TransferType DEF Deposit
  <2>3. leaves' \in Seq(Note) /\ knownRoots' \subseteq Seq(Note)
    BY <1>1, <2>1, InsertType DEF Deposit
  <2>4. announced' \in Seq(Nat)
    BY <1>1, <2>1 DEF Deposit, TypeOK
  <2> QED BY <1>1, <2>2, <2>3, <2>4 DEF Deposit, TypeOK
<1>2. ASSUME NEW user \in User, NEW len \in 1..MaxBatch, NEW batch \in [1..len -> Note],
             NEW amounts \in [1..len -> Amount], BatchDeposit(user, batch, amounts)
      PROVE  TypeOK'
  <2>1. user \in Address /\ Pool \in Address /\ batch \in Seq(Note) /\ amounts \in Seq(Nat)
    BY ParameterAssumption, AmountsType DEF Address
  <2>2. SeqSum(amounts) \in Nat
    BY <2>1, SeqSumType
  <2>3. balance' \in [Address -> Nat]
    BY <1>2, <2>1, <2>2, TransferType DEF BatchDeposit
  <2>4. leaves' \in Seq(Note) /\ knownRoots' \subseteq Seq(Note)
    BY <1>2, <2>1, InsertType DEF BatchDeposit
  <2>5. announced' \in Seq(Nat)
    BY <1>2, <2>1 DEF BatchDeposit, TypeOK
  <2> QED BY <1>2, <2>3, <2>4, <2>5 DEF BatchDeposit, TypeOK
<1>3. ASSUME NEW caller \in Address, NEW newRoot \in SUBSET Key,
             UpdateRegistrationRoot(caller, newRoot)
      PROVE  TypeOK'
  BY <1>3 DEF UpdateRegistrationRoot, TypeOK, tree
<1>4. ASSUME NEW note \in Note, NEW root \in knownRoots, NEW amount \in TransferAmount,
             NEW recipient \in Recipient, Withdraw(note, root, amount, recipient)
      PROVE  TypeOK'
  <2> DEFINE n == Nullifier(note)
  <2>1. n \in Nullifiers /\ amount \in Nat /\ Pool \in Address /\ recipient \in Address
    BY ParameterAssumption DEF Nullifiers, Address
  <2>2. balance' \in [Address -> Nat]
    BY <1>4, <2>1, TransferType DEF Withdraw
  <2>3. payouts' \in [Nullifiers -> Seq(Payout)]
    BY <1>4, <2>1, PaidType DEF Withdraw
  <2> QED BY <1>4, <2>1, <2>2, <2>3 DEF Withdraw, TypeOK, tree
<1>5. ASSUME NEW note \in Note, NEW root \in knownRoots, NEW amount \in TransferAmount,
             NEW recipient \in Recipient, NEW registrationRoot \in knownRegistrationRoots,
             InitiateWithdrawal(note, root, amount, recipient, registrationRoot)
      PROVE  TypeOK'
  <2> DEFINE n == Nullifier(note)
             pw == [recipient |-> recipient, amount |-> amount,
                    complianceHash |-> ComplianceHash(note, recipient, amount),
                    deadline |-> now + Window, completed |-> FALSE]
  <2>1. n \in Nullifiers /\ amount \in Nat /\ now + Window \in Nat
    BY ParameterAssumption DEF Nullifiers, TypeOK
  <2>2. pw \in Withdrawal
    BY <2>1 DEF Withdrawal
  <2>3. pendingWithdrawals' = [pendingWithdrawals EXCEPT ![n] = pw]
    BY <1>5 DEF InitiateWithdrawal
  <2>4. pendingWithdrawals' \in [Nullifiers -> Withdrawal]
    BY <2>1, <2>2, <2>3 DEF TypeOK
  <2> QED BY <1>5, <2>1, <2>4 DEF InitiateWithdrawal, TypeOK, tree
<1>6. ASSUME NEW spends \in [Slot -> Spend \cup {NoSpend}], NEW root \in knownRoots,
             NEW recipient \in Recipient, WithdrawMulti(spends, root, recipient)
      PROVE  TypeOK'
  <2> DEFINE used == {SlotNullifier(spends, i) : i \in Slot} \ {NoNullifier}
             total == SlotAmount(spends, 1) + SlotAmount(spends, 2)
                      + SlotAmount(spends, 3) + SlotAmount(spends, 4)
  <2>1. total \in Nat /\ Pool \in Address /\ recipient \in Address
    BY SlotType DEF Address
  <2>2. used \subseteq Nullifiers
    BY SlotType, ParameterAssumption
  <2>3. balance' \in [Address -> Nat]
    BY <1>6, <2>1, TransferType DEF WithdrawMulti
  <2>4. \A i \in Slot : spends[i].amount \in Nat
    <3> SUFFICES ASSUME NEW i \in Slot PROVE spends[i].amount \in Nat
      OBVIOUS
    <3>1. CASE spends[i] \in Spend
      BY <3>1, ParameterAssumption DEF Spend
    <3>2. CASE spends[i] = NoSpend
      BY <3>2 DEF NoSpend
    <3> QED BY <3>1, <3>2
  <2>5. \A n \in used : (CHOOSE j \in Slot : SlotNullifier(spends, j) = n) \in Slot
    OBVIOUS
  <2>6. payouts' \in [Nullifiers -> Seq(Payout)]
    <3> DEFINE slot(n) == CHOOSE j \in Slot : SlotNullifier(spends, j) = n
               r(n) == [recipient |-> recipient, amount |-> spends[slot(n)].amount]
    <3>1. \A n \in used : r(n) \in Payout
      BY <2>4, <2>5 DEF Payout
    <3>2. payouts' = [n \in Nullifiers |->
                        IF n \in used THEN Append(payouts[n], r(n)) ELSE payouts[n]]
      BY <1>6 DEF WithdrawMulti
    <3> HIDE DEF r, used
    <3>3. \A n \in Nullifiers : payouts[n] \in Seq(Payout)
      BY DEF TypeOK
    <3>4. \A n \in used : n \in Nullifiers => Append(payouts[n], r(n)) \in Seq(Payout)
      BY <3>1, <3>3
    <3> QED BY <3>2, <3>3, <3>4
  <2> QED BY <1>6, <2>2, <2>3, <2>6 DEF WithdrawMulti, TypeOK, tree
<1>7. ASSUME NEW n \in Nullifiers, NEW caller \in Address, AttestWithdrawal(caller, n)
      PROVE  TypeOK'
  BY <1>7, CompleteType DEF AttestWithdrawal
<1>8. ASSUME NEW n \in Nullifiers, ClaimWithdrawal(n)
      PROVE  TypeOK'
  BY <1>8, CompleteType DEF ClaimWithdrawal
<1>9. ASSUME NEW caller \in Relayer \cup {ZeroAddr}, NEW newRelayer \in Relayer \cup {ZeroAddr},
             SetRelayer(caller, newRelayer)
      PROVE  TypeOK'
  BY <1>9 DEF SetRelayer, TypeOK, tree
<1>10. CASE Tick
  BY <1>10 DEF Tick, TypeOK, tree
<1>11. CASE UNCHANGED vars
  BY <1>11 DEF vars, TypeOK
<1> QED
  BY <1>1, <1>2, <1>3, <1>4, <1>5, <1>6, <1>7, <1>8, <1>9, <1>10, <1>11 DEF Next

\* The variables have their types in every reachable state.
THEOREM TypeCorrect == Spec => []TypeOK
<1>1. Init => TypeOK
  BY ParameterAssumption DEF Init, InitTree, TypeOK, Withdrawal, NoWithdrawal, Address
<1> QED BY <1>1, TypeStep, PTL DEF Spec

-----------------------------------------------------------------------------
\* The inductive invariant

\* Known roots are roots of trees that hold only deposited notes.
RootsSound ==
    \A root \in knownRoots : \A i \in DOMAIN root :
        \E j \in DOMAIN leaves : root[i] = leaves[j]

\* For every leaf an allowed amount was paid in, and they are few enough.
LeavesPriced ==
    /\ Len(leaves) <= MaxDeposits
    /\ Len(announced) = Len(leaves)
    /\ \A i \in DOMAIN announced : announced[i] \in Denomination

\* A nullifier that is not marked was neither paid nor initiated.
Untouched ==
    \A n \in Nullifiers : n \notin nullifiers => payouts[n] = <<>> /\ ~Initiated(n)

\* The amount of an initiated withdrawal was proved against a leaf.
InitiatedBacked ==
    \A n \in Nullifiers : Initiated(n) =>
        \E i \in DOMAIN leaves : /\ Nullifier(leaves[i]) = n
                                 /\ AmountValid(pendingWithdrawals[n].amount, leaves[i])

\* The pool holds no tokens but those deposited.
PoolBounded == balance[Pool] <= SeqSum(announced)

Inv == /\ TypeOK
       /\ RootsSound /\ LeavesPriced /\ LeafStaysProvable
       /\ Untouched /\ InitiatedBacked
       /\ PaidOnceWithinNote /\ PaidAsInitiated
       /\ PoolBounded /\ Solvent

-----------------------------------------------------------------------------
\* Amounts

\* All the money in the pool is below 2^64, so no proved amount wraps around
\* in the circuit and is still payable.
LEMMA PoolBelowU64 ==
    ASSUME TypeOK, LeavesPriced, PoolBounded
    PROVE  balance[Pool] < U64
<1> DEFINE total == SeqSum(announced)
           len == Len(leaves)
<1>1. PICK cap \in 0..U64 : cap * MaxDeposits < U64 /\ \A d \in Denomination : d <= cap
  BY SupplyAssumption
<1>2. leaves \in Seq(Note) /\ balance[Pool] \in Nat
  BY DEF TypeOK, Address
<1>3. announced \in Seq(Nat) /\ Len(announced) = len /\ len \in Nat
  BY <1>2 DEF TypeOK, LeavesPriced
<1>4. \A i \in 1..Len(announced) : announced[i] <= cap
  BY <1>1, <1>3 DEF LeavesPriced
<1>5. cap \in Nat /\ U64 \in Nat /\ MaxDeposits \in Nat
  BY ParameterAssumption
<1>6. total <= len * cap /\ total \in Nat
  BY <1>3, <1>4, <1>5, SeqSumBound, SeqSumType
<1>7. len * cap <= cap * MaxDeposits
  <2>1. len <= MaxDeposits
    BY DEF LeavesPriced
  <2>2. \A x, y, z \in Nat : x <= y => x * z <= z * y
    OBVIOUS
  <2> HIDE DEF len
  <2> QED BY <1>3, <1>5, <2>1, <2>2
<1>8. len * cap \in Nat /\ cap * MaxDeposits \in Nat
  BY <1>3, <1>5
<1>9. balance[Pool] <= total
  BY DEF PoolBounded
<1> HIDE DEF total, len
<1> QED BY <1>1, <1>2, <1>5, <1>6, <1>7, <1>8, <1>9

\* A remainder is at most the number it is taken of.
LEMMA RemainderBelow ==
    \A x \in Nat, m \in Nat \ {0} : x % m \in Nat /\ x % m <= x
OBVIOUS

\* An amount proved against a leaf, and covered by the pool, is within the
\* leaf's amount.
LEMMA WithinNote ==
    ASSUME TypeOK, LeavesPriced, PoolBounded,
           NEW i \in DOMAIN leaves, NEW amount \in Nat,
           AmountValid(amount, leaves[i]), amount <= balance[Pool]
    PROVE  amount <= leaves[i].amount
<1>1. balance[Pool] < U64 /\ balance[Pool] \in Nat
  BY PoolBelowU64 DEF TypeOK, Address
<1>2. leaves[i].amount \in Nat
  BY NoteAmount DEF TypeOK
<1>3. U64 \in Nat \ {0}
  BY ParameterAssumption
<1>4. amount % U64 <= leaves[i].amount % U64
  BY DEF AmountValid
<1>5. \A x \in Nat, m \in Nat \ {0} : x < m => x % m = x
  OBVIOUS
<1>6. \A x \in Nat, m \in Nat \ {0} : x % m \in Nat /\ x % m <= x
  BY RemainderBelow
<1> QED BY <1>1, <1>2, <1>3, <1>4, <1>5, <1>6

\* Outstanding and Overstated of any leaves.
Unpaid(note) == IF payouts[Nullifier(note)] = <<>> THEN note.amount ELSE 0

OutstandingOf(lvs) == [i \in 1..Len(lvs) |-> Unpaid(lvs[i])]

Excess(x, y) == IF x > y THEN x - y ELSE 0

OverstatedOf(lvs, amounts) ==
    [i \in 1..Len(lvs) |-> Excess(lvs[i].amount, amounts[i])]

LEMMA ExcessType ==
    \A x, y \in Nat : Excess(x, y) \in Nat /\ x <= Excess(x, y) + y
BY DEF Excess

\* There are n leaves, and as many amounts.
Priced(lvs, amounts, n) ==
    /\ lvs \in Seq(Note) /\ Len(lvs) = n
    /\ amounts \in Seq(Nat) /\ Len(amounts) = n

LEMMA PricedType ==
    ASSUME NEW lvs, NEW amounts, NEW n \in Nat, Priced(lvs, amounts, n)
    PROVE  \A i \in 1..n : lvs[i].amount \in Nat /\ amounts[i] \in Nat
BY NoteAmount DEF Priced

\* A function from 1..n to the naturals is a sequence of n naturals.
LEMMA FunctionAsSeq ==
    \A n \in Nat : \A s \in [1..n -> Nat] : s \in Seq(Nat) /\ Len(s) = n
OBVIOUS

LEMMA OfType ==
    ASSUME NEW lvs, NEW amounts, NEW n \in Nat, Priced(lvs, amounts, n)
    PROVE  /\ OutstandingOf(lvs) \in Seq(Nat) /\ Len(OutstandingOf(lvs)) = n
           /\ OverstatedOf(lvs, amounts) \in Seq(Nat)
           /\ Len(OverstatedOf(lvs, amounts)) = n
<1>1. Len(lvs) = n /\ \A i \in 1..n : lvs[i].amount \in Nat /\ amounts[i] \in Nat
  BY PricedType DEF Priced
<1>2. OutstandingOf(lvs) \in [1..n -> Nat]
  BY <1>1 DEF OutstandingOf, Unpaid
<1>3. OverstatedOf(lvs, amounts) \in [1..n -> Nat]
  BY <1>1, ExcessType DEF OverstatedOf
<1> QED BY <1>2, <1>3, FunctionAsSeq

LEMMA OfElements ==
    ASSUME NEW lvs, NEW amounts, NEW n \in Nat, Priced(lvs, amounts, n)
    PROVE  \A i \in 1..n :
               /\ OutstandingOf(lvs)[i] = Unpaid(lvs[i])
               /\ OutstandingOf(lvs)[i] \in Nat
               /\ OverstatedOf(lvs, amounts)[i] = Excess(lvs[i].amount, amounts[i])
               /\ OverstatedOf(lvs, amounts)[i] \in Nat
<1>1. Len(lvs) = n /\ \A i \in 1..n : lvs[i].amount \in Nat /\ amounts[i] \in Nat
  BY PricedType DEF Priced
<1> QED BY <1>1, ExcessType DEF OutstandingOf, OverstatedOf, Unpaid

\* What is outstanding for leaves is at most what was paid in for them and
\* what they overstate.
LEMMA OfCovered ==
    ASSUME NEW lvs, NEW amounts, NEW n \in Nat, Priced(lvs, amounts, n)
    PROVE  SeqSum(OutstandingOf(lvs)) <= SeqSum(OverstatedOf(lvs, amounts)) + SeqSum(amounts)
<1> DEFINE s == OutstandingOf(lvs)
           t == OverstatedOf(lvs, amounts)
<1>1. \A i \in 1..n : lvs[i].amount \in Nat /\ amounts[i] \in Nat
  BY PricedType
<1>2. \A i \in 1..n : s[i] \in Nat /\ t[i] \in Nat /\ s[i] <= t[i] + amounts[i]
  <2> SUFFICES ASSUME NEW i \in 1..n
               PROVE  s[i] \in Nat /\ t[i] \in Nat /\ s[i] <= t[i] + amounts[i]
    OBVIOUS
  <2> DEFINE x == lvs[i].amount
             y == amounts[i]
  <2>1. x \in Nat /\ y \in Nat
    BY <1>1
  <2>2. s[i] \in Nat /\ s[i] <= x
    BY <2>1, OfElements DEF Unpaid
  <2>3. t[i] = Excess(x, y)
    BY OfElements
  <2> HIDE DEF s, t, x, y
  <2>4. Excess(x, y) \in Nat /\ x <= Excess(x, y) + y
    BY <2>1, ExcessType
  <2> QED BY <2>1, <2>2, <2>3, <2>4 DEF y
<1>3. Len(s) = n /\ Len(t) = n /\ Len(amounts) = n
  BY OfType DEF Priced
<1> HIDE DEF s, t
<1>4. Below(s, t, amounts, n)
  BY <1>1, <1>2 DEF Below
<1>5. PartialSums(s, n)[n] <= PartialSums(t, n)[n] + PartialSums(amounts, n)[n]
  BY <1>4, PartialSumsAdd
<1>6. /\ SeqSum(s) = PartialSums(s, n)[n] /\ SeqSum(t) = PartialSums(t, n)[n]
      /\ SeqSum(amounts) = PartialSums(amounts, n)[n]
  BY <1>3 DEF SeqSum
<1>7. SeqSum(s) <= SeqSum(t) + SeqSum(amounts)
  BY <1>5, <1>6
<1> QED BY <1>7 DEF s, t

\* What a concatenation is.
LEMMA ConcatFacts ==
    ASSUME NEW S, NEW s \in Seq(S), NEW t \in Seq(S)
    PROVE  /\ s \o t \in Seq(S) /\ Len(s \o t) = Len(s) + Len(t)
           /\ \A i \in 1..Len(s) : (s \o t)[i] = s[i]
           /\ \A i \in 1..Len(t) : (s \o t)[Len(s) + i] = t[i]
OBVIOUS

\* The m leaves lvs, then the n leaves new.
PricedTogether(all, sums, lvs, a, m, new, b, n) ==
    /\ Priced(all, sums, m + n)
    /\ \A i \in 1..m : all[i] = lvs[i] /\ sums[i] = a[i]
    /\ \A i \in 1..n : all[m + i] = new[i] /\ sums[m + i] = b[i]

LEMMA PricedConcat ==
    ASSUME NEW lvs, NEW a, NEW m \in Nat, Priced(lvs, a, m),
           NEW new, NEW b, NEW n \in Nat, Priced(new, b, n)
    PROVE  PricedTogether(lvs \o new, a \o b, lvs, a, m, new, b, n)
<1>1. lvs \in Seq(Note) /\ new \in Seq(Note) /\ a \in Seq(Nat) /\ b \in Seq(Nat)
  BY DEF Priced
<1>2. /\ lvs \o new \in Seq(Note) /\ Len(lvs \o new) = Len(lvs) + Len(new)
      /\ \A i \in 1..Len(lvs) : (lvs \o new)[i] = lvs[i]
      /\ \A i \in 1..Len(new) : (lvs \o new)[Len(lvs) + i] = new[i]
  BY <1>1, ConcatFacts
<1>3. /\ a \o b \in Seq(Nat) /\ Len(a \o b) = Len(a) + Len(b)
      /\ \A i \in 1..Len(a) : (a \o b)[i] = a[i]
      /\ \A i \in 1..Len(b) : (a \o b)[Len(a) + i] = b[i]
  BY <1>1, ConcatFacts
<1>7. Len(lvs) = m /\ Len(new) = n /\ Len(a) = m /\ Len(b) = n
  BY DEF Priced
<1> DEFINE all == lvs \o new
           sums == a \o b
<1> HIDE DEF all, sums
<1>4. /\ all \in Seq(Note) /\ Len(all) = m + n
      /\ \A i \in 1..m : all[i] = lvs[i]
      /\ \A i \in 1..n : all[m + i] = new[i]
  BY <1>7, <1>2, Zenon DEF all
<1>5. /\ sums \in Seq(Nat) /\ Len(sums) = m + n
      /\ \A i \in 1..m : sums[i] = a[i]
      /\ \A i \in 1..n : sums[m + i] = b[i]
  BY <1>7, <1>3, Zenon DEF sums
<1>6. Priced(all, sums, m + n)
  BY <1>4, <1>5, Zenon DEF Priced
<1> QED BY <1>4, <1>5, <1>6, Zenon DEF all, sums, PricedTogether

\* Both sums of more leaves.
LEMMA OfConcat ==
    ASSUME NEW lvs, NEW a, NEW m \in Nat, Priced(lvs, a, m),
           NEW new, NEW b, NEW n \in Nat, Priced(new, b, n)
    PROVE  /\ SeqSum(OutstandingOf(lvs \o new))
                = SeqSum(OutstandingOf(lvs)) + SeqSum(OutstandingOf(new))
           /\ SeqSum(OverstatedOf(lvs \o new, a \o b))
                = SeqSum(OverstatedOf(lvs, a)) + SeqSum(OverstatedOf(new, b))
<1> DEFINE all == lvs \o new
           sums == a \o b
           l == m + n
<1>1. /\ Priced(all, sums, l) /\ l \in Nat /\ l = m + n
      /\ \A i \in 1..m : i \in 1..l /\ all[i] = lvs[i] /\ sums[i] = a[i]
      /\ \A i \in 1..n : m + i \in 1..l /\ all[m + i] = new[i] /\ sums[m + i] = b[i]
  <2> HIDE DEF all, sums, l
  <2>1. /\ Priced(all, sums, l)
        /\ \A i \in 1..m : all[i] = lvs[i] /\ sums[i] = a[i]
        /\ \A i \in 1..n : all[m + i] = new[i] /\ sums[m + i] = b[i]
    <3>1. PricedTogether(lvs \o new, a \o b, lvs, a, m, new, b, n)
      BY PricedConcat
    <3> QED BY <3>1, Zenon DEF all, sums, l, PricedTogether
  <2>4. l \in Nat /\ l = m + n
    BY DEF l
  <2>2. \A i \in 1..m : i \in 1..l
    BY <2>4
  <2>3. \A i \in 1..n : m + i \in 1..l
    BY <2>4
  <2> QED BY <2>1, <2>2, <2>3, <2>4
<1> HIDE DEF all, sums, l
<1>2. SeqSum(OutstandingOf(all)) = SeqSum(OutstandingOf(lvs)) + SeqSum(OutstandingOf(new))
  <2> DEFINE u == OutstandingOf(all)
             v == OutstandingOf(lvs)
             w == OutstandingOf(new)
  <2>1. Len(u) = l /\ Len(v) = m /\ Len(w) = n
    BY <1>1, OfType
  <2>6. /\ \A i \in 1..l : u[i] = Unpaid(all[i])
        /\ \A i \in 1..m : v[i] = Unpaid(lvs[i]) /\ v[i] \in Nat
        /\ \A i \in 1..n : w[i] = Unpaid(new[i]) /\ w[i] \in Nat
    BY <1>1, OfElements
  <2> HIDE DEF u, v, w
  <2>2. \A i \in 1..m : u[i] = v[i] /\ v[i] \in Nat
    BY <1>1, <2>6
  <2>3. \A i \in 1..n : u[m + i] = w[i] /\ w[i] \in Nat
    BY <1>1, <2>6
  <2>4. Joins(u, v, m, w, n)
    BY <2>2, <2>3 DEF Joins
  <2>5. PartialSums(u, l)[l] = PartialSums(v, m)[m] + PartialSums(w, n)[n]
    BY <1>1, <2>4, PartialSumsConcat
  <2> QED BY <2>1, <2>5 DEF u, v, w, SeqSum
<1>3. SeqSum(OverstatedOf(all, sums)) = SeqSum(OverstatedOf(lvs, a)) + SeqSum(OverstatedOf(new, b))
  <2> DEFINE u == OverstatedOf(all, sums)
             v == OverstatedOf(lvs, a)
             w == OverstatedOf(new, b)
  <2>1. Len(u) = l /\ Len(v) = m /\ Len(w) = n
    BY <1>1, OfType
  <2>6. /\ \A i \in 1..l : u[i] = Excess(all[i].amount, sums[i])
        /\ \A i \in 1..m : v[i] = Excess(lvs[i].amount, a[i]) /\ v[i] \in Nat
        /\ \A i \in 1..n : w[i] = Excess(new[i].amount, b[i]) /\ w[i] \in Nat
    BY <1>1, OfElements
  <2> HIDE DEF u, v, w
  <2>2. \A i \in 1..m : u[i] = v[i] /\ v[i] \in Nat
    BY <1>1, <2>6
  <2>3. \A i \in 1..n : u[m + i] = w[i] /\ w[i] \in Nat
    BY <1>1, <2>6
  <2>4. Joins(u, v, m, w, n)
    BY <2>2, <2>3 DEF Joins
  <2>5. PartialSums(u, l)[l] = PartialSums(v, m)[m] + PartialSums(w, n)[n]
    BY <1>1, <2>4, PartialSumsConcat
  <2> QED BY <2>1, <2>5 DEF u, v, w, SeqSum
<1> QED BY <1>2, <1>3 DEF all, sums

\* Outstanding and Overstated are those of all leaves.
LEMMA OfLeaves ==
    ASSUME TypeOK, LeavesPriced
    PROVE  /\ Len(leaves) \in Nat /\ Priced(leaves, announced, Len(leaves))
           /\ Outstanding = OutstandingOf(leaves)
           /\ Overstated = OverstatedOf(leaves, announced)
BY DEF TypeOK, LeavesPriced, Priced, Outstanding, Overstated, OutstandingOf, OverstatedOf,
       Unpaid, Excess

\* What the pool holds for the leaves when the nullifiers in S are paid too.
Without(S) ==
    [i \in DOMAIN leaves |->
        IF payouts[Nullifier(leaves[i])] = <<>> /\ Nullifier(leaves[i]) \notin S
        THEN leaves[i].amount ELSE 0]

LEMMA WithoutType ==
    ASSUME TypeOK, NEW S
    PROVE  Without(S) \in Seq(Nat) /\ Len(Without(S)) = Len(leaves)
<1>1. leaves \in Seq(Note)
  BY DEF TypeOK
<1>2. \A i \in 1..Len(leaves) : leaves[i].amount \in Nat
  BY <1>1, NoteAmount
<1> QED BY <1>1, <1>2 DEF Without

LEMMA OverstatedType ==
    ASSUME TypeOK, LeavesPriced
    PROVE  Overstated \in Seq(Nat)
BY OfLeaves, OfType

\* Paying one more nullifier, at most the amount of a leaf, takes at least
\* that much from what the pool holds for the leaves.
LEMMA WithoutDrop ==
    ASSUME TypeOK, NEW S, NEW n \in Nullifiers, n \notin S, payouts[n] = <<>>,
           NEW i \in DOMAIN leaves, Nullifier(leaves[i]) = n,
           NEW amount \in Nat, amount <= leaves[i].amount
    PROVE  SeqSum(Without(S \cup {n})) + amount <= SeqSum(Without(S))
<1> DEFINE s == Without(S \cup {n})
           t == Without(S)
<1>1. s \in Seq(Nat) /\ t \in Seq(Nat) /\ Len(s) = Len(leaves) /\ Len(t) = Len(leaves)
  BY WithoutType
<1>2. leaves \in Seq(Note) /\ i \in 1..Len(leaves)
  BY DEF TypeOK
<1>3. \A j \in 1..Len(leaves) : leaves[j].amount \in Nat
  BY <1>2, NoteAmount
<1>4. \A j \in 1..Len(s) : s[j] <= t[j]
  BY <1>1, <1>2, <1>3 DEF Without
<1>5. s[i] + amount <= t[i]
  BY <1>2, <1>3 DEF Without
<1> HIDE DEF s, t
<1>6. i \in 1..Len(s) /\ Len(s) = Len(t)
  BY <1>1, <1>2
<1>7. SeqSum(s) + amount <= SeqSum(t)
  BY <1>1, <1>4, <1>5, <1>6, SeqSumDrop
<1> QED BY <1>7 DEF s, t

\* Solvency after a payment out of the pool for the nullifiers in used.
LEMMA SolventAfterPayment ==
    ASSUME TypeOK, LeavesPriced, Solvent, PoolBounded,
           NEW used, NEW recipient \in Address, NEW total \in Nat,
           Transfer(Pool, recipient, total), leaves' = leaves, announced' = announced,
           SeqSum(Without(used)) + total <= SeqSum(Without({})),
           \A n \in Nullifiers : payouts'[n] = <<>> <=> payouts[n] = <<>> /\ n \notin used
    PROVE  Solvent' /\ PoolBounded'
<1>1. balance \in [Address -> Nat] /\ Pool \in Address /\ leaves \in Seq(Note)
  BY DEF TypeOK, Address
<1>2. balance'[Pool] + total >= balance[Pool] /\ balance'[Pool] <= balance[Pool]
      /\ balance'[Pool] \in Nat /\ balance[Pool] \in Nat
  BY <1>1 DEF Transfer
<1>3. \A i \in DOMAIN leaves : Nullifier(leaves[i]) \in Nullifiers
  BY <1>1 DEF Nullifiers
<1>4. Outstanding = Without({})
  BY DEF Outstanding, Without
<1>5. Outstanding' = Without(used)
  BY <1>3 DEF Outstanding, Without
<1>6. SeqSum(Without(used)) \in Nat /\ SeqSum(Without({})) \in Nat
  BY WithoutType, SeqSumType
<1>7. Solvent'
  <2>1. balance[Pool] + SeqSum(Overstated) >= SeqSum(Without({}))
    BY <1>4 DEF Solvent
  <2>2. SeqSum(Overstated) \in Nat /\ Overstated' = Overstated
    BY OverstatedType, SeqSumType DEF Overstated
  <2>3. balance'[Pool] + SeqSum(Overstated) >= SeqSum(Without(used))
    BY <2>1, <2>2, <1>2, <1>6
  <2>4. Solvent' <=> balance'[Pool] + SeqSum(Overstated') >= SeqSum(Outstanding')
    BY DEF Solvent
  <2> QED BY <2>2, <2>3, <2>4, <1>5
<1>8. PoolBounded'
  <2>1. announced \in Seq(Nat) /\ SeqSum(announced) \in Nat
    BY SeqSumType DEF TypeOK
  <2>2. balance'[Pool] <= SeqSum(announced)
    BY <1>2, <2>1 DEF PoolBounded
  <2> QED BY <2>2 DEF PoolBounded
<1> QED BY <1>7, <1>8

-----------------------------------------------------------------------------
\* Steps

\* deposit and batchDeposit.
LEMMA DepositStep ==
    ASSUME Inv, TypeOK', NEW user \in User, NEW new \in Seq(Note), NEW amounts \in Seq(Nat),
           Len(amounts) = Len(new), \A i \in DOMAIN amounts : amounts[i] \in Denomination,
           Len(leaves) + Len(new) <= MaxDeposits,
           Transfer(user, Pool, SeqSum(amounts)), Insert(new),
           announced' = announced \o amounts,
           UNCHANGED <<nullifiers, pendingWithdrawals, payouts>>
    PROVE  Inv'
<1>1. /\ leaves \in Seq(Note) /\ leaves' \in Seq(Note) /\ leaves' = leaves \o new
      /\ Len(leaves') = Len(leaves) + Len(new) /\ Len(leaves) \in Nat /\ Len(new) \in Nat
  BY DEF Inv, TypeOK, Insert
<1>2. \A i \in DOMAIN leaves : i \in DOMAIN leaves' /\ leaves'[i] = leaves[i]
  BY <1>1
<1>3. \A i \in DOMAIN leaves' : i \notin DOMAIN leaves =>
           /\ i - Len(leaves) \in DOMAIN new
           /\ leaves'[i] = new[i - Len(leaves)]
           /\ i \in (Len(leaves) + 1)..Len(leaves')
  BY <1>1
<1>4. \A n \in (Len(leaves) + 1)..Len(leaves') :
           /\ n \in 1..Len(leaves')
           /\ \A i \in DOMAIN RootAfter(leaves', n) :
                \E j \in DOMAIN leaves' : RootAfter(leaves', n)[i] = leaves'[j]
           /\ InTree(leaves'[n], RootAfter(leaves', n))
           /\ RootAfter(leaves', n) \in knownRoots'
  <2> SUFFICES ASSUME NEW n \in (Len(leaves) + 1)..Len(leaves')
               PROVE  /\ n \in 1..Len(leaves')
                      /\ \A i \in DOMAIN RootAfter(leaves', n) :
                           \E j \in DOMAIN leaves' : RootAfter(leaves', n)[i] = leaves'[j]
                      /\ InTree(leaves'[n], RootAfter(leaves', n))
                      /\ RootAfter(leaves', n) \in knownRoots'
    OBVIOUS
  <2>1. n \in 1..Len(leaves')
    BY <1>1
  <2>2. RootAfter(leaves', n) \in knownRoots'
    BY DEF Insert
  <2> QED BY <1>1, <2>1, <2>2, RootAfterLeaves
<1>5. RootsSound'
  <2> SUFFICES ASSUME NEW root \in knownRoots', NEW i \in DOMAIN root
               PROVE  \E j \in DOMAIN leaves' : root[i] = leaves'[j]
    BY DEF RootsSound
  <2>1. CASE root \in knownRoots
    BY <2>1, <1>2 DEF Inv, RootsSound
  <2>2. CASE root \notin knownRoots
    <3>1. PICK n \in (Len(leaves) + 1)..Len(leaves') : root = RootAfter(leaves', n)
      BY <2>2 DEF Insert
    <3> QED BY <3>1, <1>4
  <2> QED BY <2>1, <2>2
<1>6. LeavesPriced'
  <2>1. Priced(leaves, announced, Len(leaves)) /\ Priced(new, amounts, Len(new))
    BY OfLeaves DEF Inv, Priced
  <2>2. Priced(leaves', announced', Len(leaves) + Len(new))
    BY <1>1, <2>1, PricedConcat DEF PricedTogether
  <2>3. \A i \in DOMAIN announced : announced[i] \in Denomination
    BY DEF Inv, LeavesPriced
  <2>4. announced \in Seq(Nat) /\ \A i \in DOMAIN announced' : announced'[i] \in Denomination
    <3>1. announced \in Seq(Nat)
      BY DEF Inv, TypeOK
    <3> QED BY <2>3, <3>1
  <2> QED BY <1>1, <2>2, <2>4 DEF LeavesPriced, Priced
<1>7. LeafStaysProvable'
  <2> SUFFICES ASSUME NEW i \in DOMAIN leaves'
               PROVE  \E root \in knownRoots' : InTree(leaves'[i], root)
    BY DEF LeafStaysProvable, InTree
  <2>1. CASE i \in DOMAIN leaves
    BY <2>1, <1>2 DEF Inv, LeafStaysProvable, Insert
  <2>2. CASE i \notin DOMAIN leaves
    BY <2>2, <1>3, <1>4
  <2> QED BY <2>1, <2>2
<1>8. Untouched' /\ PaidAsInitiated'
  BY DEF Inv, Untouched, PaidAsInitiated, Initiated
<1>9. InitiatedBacked' /\ PaidOnceWithinNote'
  BY <1>2 DEF Inv, InitiatedBacked, PaidOnceWithinNote, Initiated
<1>10. /\ balance'[Pool] = balance[Pool] + SeqSum(amounts)
       /\ balance[Pool] \in Nat /\ SeqSum(amounts) \in Nat
  <2>1. SeqSum(amounts) \in Nat
    BY SeqSumType
  <2>2. user \in Address /\ Pool \in Address /\ user # Pool /\ balance \in [Address -> Nat]
    BY AddressAssumption DEF Address, Inv, TypeOK
  <2> QED BY <2>1, <2>2 DEF Transfer
<1>11. PoolBounded'
  <2>1. announced \in Seq(Nat) /\ SeqSum(announced) \in Nat
    BY SeqSumType DEF Inv, TypeOK
  <2>2. SeqSum(announced \o amounts) = SeqSum(announced) + SeqSum(amounts)
    BY <2>1, SeqSumConcat
  <2>3. balance[Pool] <= SeqSum(announced)
    BY DEF Inv, PoolBounded
  <2> QED BY <1>10, <2>1, <2>2, <2>3 DEF PoolBounded
<1>12. Solvent'
  <2> DEFINE m == Len(leaves)
             n == Len(new)
  <2>1. m \in Nat /\ Priced(leaves, announced, m)
    BY OfLeaves DEF Inv
  <2>2. n \in Nat /\ Priced(new, amounts, n)
    BY DEF Priced
  <2> HIDE DEF m, n
  <2>3. /\ SeqSum(OutstandingOf(leaves \o new))
             = SeqSum(OutstandingOf(leaves)) + SeqSum(OutstandingOf(new))
        /\ SeqSum(OverstatedOf(leaves \o new, announced \o amounts))
             = SeqSum(OverstatedOf(leaves, announced)) + SeqSum(OverstatedOf(new, amounts))
        /\ SeqSum(OutstandingOf(new)) <= SeqSum(OverstatedOf(new, amounts)) + SeqSum(amounts)
    BY <2>1, <2>2, OfConcat, OfCovered
  <2>4. /\ SeqSum(OutstandingOf(leaves)) \in Nat /\ SeqSum(OutstandingOf(new)) \in Nat
        /\ SeqSum(OverstatedOf(leaves, announced)) \in Nat
        /\ SeqSum(OverstatedOf(new, amounts)) \in Nat
    BY <2>1, <2>2, OfType, SeqSumType
  <2>5. Outstanding = OutstandingOf(leaves) /\ Overstated = OverstatedOf(leaves, announced)
    BY OfLeaves DEF Inv
  <2>6. /\ Outstanding' = OutstandingOf(leaves \o new)
        /\ Overstated' = OverstatedOf(leaves \o new, announced \o amounts)
    <3>1. DOMAIN leaves' = 1..Len(leaves')
      BY <1>1
    <3>2. /\ Outstanding' = OutstandingOf(leaves')
          /\ Overstated' = OverstatedOf(leaves', announced')
      BY <3>1 DEF Outstanding, Overstated, OutstandingOf, OverstatedOf, Unpaid, Excess
    <3> QED BY <1>1, <3>2
  <2>7. balance[Pool] + SeqSum(Overstated) >= SeqSum(Outstanding)
    BY DEF Inv, Solvent
  <2>8. Solvent' <=> balance'[Pool] + SeqSum(Overstated') >= SeqSum(Outstanding')
    BY DEF Solvent
  <2> QED BY <1>10, <2>3, <2>4, <2>5, <2>6, <2>7, <2>8
<1> QED BY <1>5, <1>6, <1>7, <1>8, <1>9, <1>11, <1>12 DEF Inv

\* Steps that touch neither the money, nor the tree, nor the nullifiers.
LEMMA OtherStep ==
    ASSUME Inv, TypeOK',
           UNCHANGED <<balance, leaves, knownRoots, announced, nullifiers,
                       pendingWithdrawals, payouts>>
    PROVE  Inv'
<1>1. RootsSound' /\ LeavesPriced' /\ LeafStaysProvable'
  BY DEF Inv, RootsSound, LeavesPriced, LeafStaysProvable
<1>2. Untouched' /\ InitiatedBacked' /\ PaidOnceWithinNote' /\ PaidAsInitiated'
  BY DEF Inv, Untouched, InitiatedBacked, PaidOnceWithinNote, PaidAsInitiated, Initiated
<1>3. PoolBounded'
  BY DEF Inv, PoolBounded
<1>4. Solvent'
  BY DEF Inv, Solvent, Outstanding, Overstated
<1> QED BY <1>1, <1>2, <1>3, <1>4 DEF Inv

\* A note the circuit finds in a known root is a leaf.
LEMMA ProvedLeaf ==
    ASSUME RootsSound, NEW note, NEW root \in knownRoots, InTree(note, root)
    PROVE  \E i \in DOMAIN leaves : leaves[i] = note
BY DEF RootsSound, InTree

\* withdraw.
LEMMA WithdrawStep ==
    ASSUME Inv, TypeOK', NEW note \in Note, NEW root \in knownRoots,
           NEW amount \in TransferAmount, NEW recipient \in Recipient,
           Withdraw(note, root, amount, recipient)
    PROVE  Inv'
<1> DEFINE n == Nullifier(note)
           r == [recipient |-> recipient, amount |-> amount]
<1>1. /\ TypeOK /\ leaves' = leaves /\ announced' = announced /\ knownRoots' = knownRoots
      /\ pendingWithdrawals' = pendingWithdrawals
      /\ n \notin nullifiers /\ nullifiers' = nullifiers \cup {n}
      /\ AmountValid(amount, note) /\ InTree(note, root)
      /\ Transfer(Pool, recipient, amount)
      /\ payouts' = [payouts EXCEPT ![n] = Append(payouts[n], r)]
  BY DEF Withdraw, Inv, Fresh, ProvesWithdrawal, Paid, tree
<1>2. n \in Nullifiers /\ amount \in Nat /\ recipient \in Address
  BY ParameterAssumption DEF Nullifiers, Address
<1>3. payouts[n] = <<>> /\ ~Initiated(n)
  BY <1>1, <1>2 DEF Inv, Untouched
<1>4. PICK i \in DOMAIN leaves : leaves[i] = note
  BY <1>1, ProvedLeaf DEF Inv
<1>5. amount <= leaves[i].amount
  BY <1>1, <1>2, <1>4, WithinNote DEF Inv, Transfer
<1>6. /\ payouts'[n] = <<r>> /\ \A m \in Nullifiers : m # n => payouts'[m] = payouts[m]
  BY <1>1, <1>2, <1>3 DEF TypeOK
<1>7. RootsSound' /\ LeavesPriced' /\ LeafStaysProvable' /\ InitiatedBacked'
  BY <1>1 DEF Inv, RootsSound, LeavesPriced, LeafStaysProvable, InitiatedBacked, Initiated
<1>8. Untouched'
  BY <1>1, <1>6 DEF Inv, Untouched, Initiated
<1>9. PaidOnceWithinNote'
  <2> SUFFICES ASSUME NEW m \in Nullifiers
               PROVE  /\ Len(payouts'[m]) <= 1
                      /\ payouts'[m] # <<>> =>
                           \E j \in DOMAIN leaves' : /\ Nullifier(leaves'[j]) = m
                                                     /\ payouts'[m][1].amount <= leaves'[j].amount
    BY DEF PaidOnceWithinNote
  <2>1. CASE m = n
    <3>1. Len(payouts'[m]) = 1 /\ payouts'[m][1].amount = amount
      BY <2>1, <1>6
    <3> QED BY <3>1, <2>1, <1>1, <1>4, <1>5
  <2>2. CASE m # n
    BY <2>2, <1>1, <1>6 DEF Inv, PaidOnceWithinNote
  <2> QED BY <2>1, <2>2
<1>10. PaidAsInitiated'
  BY <1>1, <1>3, <1>6 DEF Inv, PaidAsInitiated, Initiated
<1>11. Solvent' /\ PoolBounded'
  <2>1. SeqSum(Without({} \cup {n})) + amount <= SeqSum(Without({}))
    BY <1>1, <1>2, <1>3, <1>4, <1>5, WithoutDrop
  <2>2. {} \cup {n} = {n}
    OBVIOUS
  <2>3. \A m \in Nullifiers : payouts'[m] = <<>> <=> payouts[m] = <<>> /\ m \notin {n}
    BY <1>6, <1>3
  <2> HIDE DEF n
  <2> QED BY <1>1, <1>2, <2>1, <2>2, <2>3, SolventAfterPayment DEF Inv
<1> QED BY <1>7, <1>8, <1>9, <1>10, <1>11 DEF Inv

\* initiateWithdrawal.
LEMMA InitiateStep ==
    ASSUME Inv, TypeOK', NEW note \in Note, NEW root \in knownRoots,
           NEW amount \in TransferAmount, NEW recipient \in Recipient,
           NEW registrationRoot \in knownRegistrationRoots,
           InitiateWithdrawal(note, root, amount, recipient, registrationRoot)
    PROVE  Inv'
<1> DEFINE n == Nullifier(note)
           pw == [recipient |-> recipient, amount |-> amount,
                  complianceHash |-> ComplianceHash(note, recipient, amount),
                  deadline |-> now + Window, completed |-> FALSE]
<1>1. /\ TypeOK /\ UNCHANGED <<balance, leaves, knownRoots, announced, payouts>>
      /\ n \notin nullifiers /\ nullifiers' = nullifiers \cup {n}
      /\ AmountValid(amount, note) /\ InTree(note, root)
      /\ pendingWithdrawals' = [pendingWithdrawals EXCEPT ![n] = pw]
  BY DEF InitiateWithdrawal, Inv, Fresh, ProvesWithdrawal, tree
<1>2. n \in Nullifiers
  BY DEF Nullifiers
<1>3. payouts[n] = <<>> /\ ~Initiated(n)
  BY <1>1, <1>2 DEF Inv, Untouched
<1>4. PICK i \in DOMAIN leaves : leaves[i] = note
  BY <1>1, ProvedLeaf DEF Inv
<1>5. /\ pendingWithdrawals'[n] = pw
      /\ \A m \in Nullifiers : m # n => pendingWithdrawals'[m] = pendingWithdrawals[m]
  BY <1>1, <1>2 DEF TypeOK
<1>6. pw.amount = amount /\ ~pw.completed
  OBVIOUS
<1> HIDE DEF pw
<1>7. RootsSound' /\ LeavesPriced' /\ LeafStaysProvable'
  BY <1>1 DEF Inv, RootsSound, LeavesPriced, LeafStaysProvable
<1>8. Untouched'
  BY <1>1, <1>5 DEF Inv, Untouched, Initiated
<1>9. InitiatedBacked'
  BY <1>1, <1>4, <1>5, <1>6 DEF Inv, InitiatedBacked, Initiated
<1>10. PaidOnceWithinNote'
  BY <1>1 DEF Inv, PaidOnceWithinNote
<1>11. PaidAsInitiated'
  BY <1>1, <1>3, <1>5, <1>6 DEF Inv, PaidAsInitiated, Initiated
<1>12. PoolBounded' /\ Solvent'
  BY <1>1 DEF Inv, PoolBounded, Solvent, Outstanding, Overstated
<1> QED BY <1>7, <1>8, <1>9, <1>10, <1>11, <1>12 DEF Inv

\* attestWithdrawal and claimWithdrawal.
LEMMA CompleteStep ==
    ASSUME Inv, TypeOK', NEW n \in Nullifiers, Complete(n)
    PROVE  Inv'
<1> DEFINE pw == pendingWithdrawals[n]
           r == [recipient |-> pw.recipient, amount |-> pw.amount]
<1>1. /\ TypeOK /\ leaves' = leaves /\ announced' = announced
      /\ knownRoots' = knownRoots /\ nullifiers' = nullifiers
      /\ pw.recipient # ZeroAddr /\ ~pw.completed
      /\ pendingWithdrawals' = [pendingWithdrawals EXCEPT ![n] = [pw EXCEPT !.completed = TRUE]]
      /\ Transfer(Pool, pw.recipient, pw.amount)
      /\ payouts' = [payouts EXCEPT ![n] = Append(payouts[n], r)]
  BY DEF Complete, Inv, Open, Paid, tree
<1>2. pw \in Withdrawal /\ pw.amount \in Nat /\ pw.recipient \in Recipient
  BY <1>1 DEF TypeOK, Withdrawal
<1>3. pw.recipient \in Address
  BY <1>2 DEF Address
<1>4. Initiated(n)
  BY <1>1 DEF Initiated, NoWithdrawal
<1>5. payouts[n] = <<>> /\ n \in nullifiers
  BY <1>1, <1>4 DEF Inv, PaidAsInitiated, Untouched
<1>6. PICK i \in DOMAIN leaves : Nullifier(leaves[i]) = n /\ AmountValid(pw.amount, leaves[i])
  BY <1>4 DEF Inv, InitiatedBacked
<1>7. pw.amount <= leaves[i].amount
  BY <1>1, <1>2, <1>6, WithinNote DEF Inv, Transfer
<1>8. payouts'[n] = <<r>> /\ \A m \in Nullifiers : m # n => payouts'[m] = payouts[m]
  BY <1>1, <1>5 DEF TypeOK
<1>9. /\ pendingWithdrawals'[n] = [pw EXCEPT !.completed = TRUE]
      /\ \A m \in Nullifiers : m # n => pendingWithdrawals'[m] = pendingWithdrawals[m]
  BY <1>1 DEF TypeOK
<1>10. /\ [pw EXCEPT !.completed = TRUE].completed
       /\ [pw EXCEPT !.completed = TRUE].amount = pw.amount
       /\ [pw EXCEPT !.completed = TRUE].recipient = pw.recipient
  BY <1>2 DEF Withdrawal
<1>11. RootsSound' /\ LeavesPriced' /\ LeafStaysProvable'
  BY <1>1 DEF Inv, RootsSound, LeavesPriced, LeafStaysProvable
<1>12. Untouched'
  BY <1>1, <1>5, <1>8, <1>9 DEF Inv, Untouched, Initiated
<1>13. InitiatedBacked'
  BY <1>1, <1>6, <1>9, <1>10 DEF Inv, InitiatedBacked, Initiated
<1>14. PaidOnceWithinNote'
  <2> SUFFICES ASSUME NEW m \in Nullifiers
               PROVE  /\ Len(payouts'[m]) <= 1
                      /\ payouts'[m] # <<>> =>
                           \E j \in DOMAIN leaves' : /\ Nullifier(leaves'[j]) = m
                                                     /\ payouts'[m][1].amount <= leaves'[j].amount
    BY DEF PaidOnceWithinNote
  <2>1. CASE m = n
    <3>1. Len(payouts'[m]) = 1 /\ payouts'[m][1].amount = pw.amount
      BY <2>1, <1>8
    <3> QED BY <3>1, <2>1, <1>1, <1>6, <1>7
  <2>2. CASE m # n
    BY <2>2, <1>1, <1>8 DEF Inv, PaidOnceWithinNote
  <2> QED BY <2>1, <2>2
<1>15. PaidAsInitiated'
  <2> SUFFICES ASSUME NEW m \in Nullifiers, Initiated(m)'
               PROVE  payouts'[m] = IF pendingWithdrawals'[m].completed
                                    THEN <<[recipient |-> pendingWithdrawals'[m].recipient,
                                            amount |-> pendingWithdrawals'[m].amount]>>
                                    ELSE <<>>
    BY DEF PaidAsInitiated
  <2>1. CASE m = n
    <3>1. /\ pendingWithdrawals'[m].completed
          /\ pendingWithdrawals'[m].amount = pw.amount
          /\ pendingWithdrawals'[m].recipient = pw.recipient
      BY <2>1, <1>9, <1>10
    <3> QED BY <3>1, <2>1, <1>8
  <2>2. CASE m # n
    BY <2>2, <1>8, <1>9 DEF Inv, PaidAsInitiated, Initiated
  <2> QED BY <2>1, <2>2
<1>16. Solvent' /\ PoolBounded'
  <2>1. SeqSum(Without({} \cup {n})) + pw.amount <= SeqSum(Without({}))
    BY <1>1, <1>2, <1>5, <1>6, <1>7, WithoutDrop
  <2>2. {} \cup {n} = {n}
    OBVIOUS
  <2>3. \A m \in Nullifiers : payouts'[m] = <<>> <=> payouts[m] = <<>> /\ m \notin {n}
    <3>1. payouts'[n] # <<>>
      <4> HIDE DEF r
      <4> QED BY <1>8
    <3> QED BY <3>1, <1>8, <1>5
  <2> QED BY <1>1, <1>2, <1>3, <2>1, <2>2, <2>3, SolventAfterPayment DEF Inv
<1> QED BY <1>11, <1>12, <1>13, <1>14, <1>15, <1>16 DEF Inv

\* T is S with the nullifier of slot i, if it names one, a fresh one.
Extends(spends, i, S, T) ==
    LET n == SlotNullifier(spends, i) IN
    /\ n # NoNullifier => n \notin S \cup nullifiers /\ T = S \cup {n}
    /\ n = NoNullifier => T = S

\* One slot of withdrawMulti, after the slots whose nullifiers are in S.
LEMMA SlotDrop ==
    ASSUME Inv, NEW spends \in [Slot -> Spend \cup {NoSpend}], NEW root \in knownRoots,
           MultiProof(spends, root), NEW i \in 1..4, NEW S, NEW T,
           Extends(spends, i, S, T)
    PROVE  SeqSum(Without(T)) + SlotAmount(spends, i) <= SeqSum(Without(S))
<1> DEFINE n == SlotNullifier(spends, i)
<1>1. TypeOK /\ SeqSum(Without(S)) \in Nat /\ Extends(spends, i, S, T)
  BY WithoutType, SeqSumType DEF Inv
<1>2. CASE i \notin Slot
  BY <1>1, <1>2 DEF SlotNullifier, SlotAmount, Extends
<1>3. CASE i \in Slot /\ spends[i] = NoSpend
  BY <1>1, <1>3 DEF SlotNullifier, SlotAmount, NoSpend, Extends
<1>4. CASE i \in Slot /\ spends[i] # NoSpend
  <2> DEFINE note == spends[i].note
             amount == spends[i].amount
  <2>1. spends[i] \in Spend
    BY <1>4
  <2>2. note \in Note
    BY <2>1 DEF Spend
  <2>3. n = Nullifier(note) /\ SlotAmount(spends, i) = amount
    BY <1>4 DEF SlotNullifier, SlotAmount
  <2>4. n \in Nullifiers /\ n # NoNullifier
    BY <2>2, <2>3, NoteAssumption DEF Nullifiers
  <2>5. InTree(note, root) /\ amount \in 1..note.amount
    BY <1>4 DEF MultiProof
  <2>6. PICK j \in DOMAIN leaves : leaves[j] = note
    BY <2>5, ProvedLeaf DEF Inv
  <2>7. payouts[n] = <<>>
    BY <1>1, <2>4 DEF Inv, Untouched, Extends
  <2>8. amount \in Nat /\ amount <= leaves[j].amount
    BY <2>2, <2>5, <2>6, NoteAmount
  <2> HIDE DEF n, amount, note
  <2>9. n \notin S /\ T = S \cup {n}
    BY <1>1, <2>4 DEF n, Extends
  <2>10. Nullifier(leaves[j]) = n
    BY <2>3, <2>6
  <2> QED BY <1>1, <2>3, <2>4, <2>7, <2>8, <2>9, <2>10, WithoutDrop
<1> QED BY <1>2, <1>3, <1>4

\* withdrawMulti.
LEMMA WithdrawMultiStep ==
    ASSUME Inv, TypeOK', NEW spends \in [Slot -> Spend \cup {NoSpend}], NEW root \in knownRoots,
           NEW recipient \in Recipient, WithdrawMulti(spends, root, recipient)
    PROVE  Inv'
<1> DEFINE N(i) == SlotNullifier(spends, i)
           used == {N(i) : i \in Slot} \ {NoNullifier}
           total == SlotAmount(spends, 1) + SlotAmount(spends, 2)
                    + SlotAmount(spends, 3) + SlotAmount(spends, 4)
           slot(n) == CHOOSE j \in Slot : N(j) = n
           r(n) == [recipient |-> recipient, amount |-> spends[slot(n)].amount]
<1>1. /\ TypeOK /\ leaves' = leaves /\ announced' = announced /\ knownRoots' = knownRoots
      /\ pendingWithdrawals' = pendingWithdrawals
      /\ \A n \in used : n \notin nullifiers
      /\ \A i, j \in Slot : N(i) = N(j) => i = j \/ N(i) = NoNullifier
      /\ MultiProof(spends, root)
      /\ nullifiers' = nullifiers \cup used
      /\ Transfer(Pool, recipient, total)
      /\ payouts' = [n \in Nullifiers |->
                       IF n \in used THEN Append(payouts[n], r(n)) ELSE payouts[n]]
  BY DEF WithdrawMulti, Inv, Fresh, tree
<1>2. total \in Nat /\ recipient \in Address
  BY SlotType DEF Address
<1>3. \A i \in 1..4 : N(i) # NoNullifier => i \in Slot /\ spends[i] # NoSpend
                                            /\ N(i) = Nullifier(spends[i].note)
                                            /\ N(i) \in used
  BY DEF SlotNullifier
<1>4. \A n \in used : slot(n) \in Slot /\ slot(n) \in 1..4 /\ N(slot(n)) = n
  <2> SUFFICES ASSUME NEW n \in used
               PROVE  slot(n) \in Slot /\ slot(n) \in 1..4 /\ N(slot(n)) = n
    OBVIOUS
  <2> HIDE DEF N
  <2>1. \E j \in Slot : N(j) = n
    OBVIOUS
  <2> QED BY <2>1, ParameterAssumption
<1>5. \A n \in Nullifiers : n \in used => payouts[n] = <<>> /\ ~Initiated(n)
  BY <1>1 DEF Inv, Untouched
<1>6. \A n \in Nullifiers : /\ n \in used => payouts'[n] = <<r(n)>>
                            /\ n \notin used => payouts'[n] = payouts[n]
  <2> HIDE DEF r, used
  <2>1. \A x : Append(<<>>, x) = <<x>>
    OBVIOUS
  <2> QED BY <2>1, <1>1, <1>5
<1>7. RootsSound' /\ LeavesPriced' /\ LeafStaysProvable' /\ InitiatedBacked'
  BY <1>1 DEF Inv, RootsSound, LeavesPriced, LeafStaysProvable, InitiatedBacked, Initiated
<1>8. Untouched'
  BY <1>1, <1>6 DEF Inv, Untouched, Initiated
<1>9. PaidOnceWithinNote'
  <2> SUFFICES ASSUME NEW m \in Nullifiers
               PROVE  /\ Len(payouts'[m]) <= 1
                      /\ payouts'[m] # <<>> =>
                           \E j \in DOMAIN leaves' : /\ Nullifier(leaves'[j]) = m
                                                     /\ payouts'[m][1].amount <= leaves'[j].amount
    BY DEF PaidOnceWithinNote
  <2>1. CASE m \in used
    <3> DEFINE s == slot(m)
    <3>1. s \in Slot /\ s \in 1..4 /\ N(s) = m /\ m # NoNullifier
      BY <2>1, <1>4
    <3>2. spends[s] # NoSpend /\ m = Nullifier(spends[s].note)
      BY <1>3, <3>1
    <3>3. InTree(spends[s].note, root) /\ spends[s].amount \in 1..spends[s].note.amount
      BY <1>1, <3>1, <3>2 DEF MultiProof
    <3>4. PICK j \in DOMAIN leaves : leaves[j] = spends[s].note
      BY <3>3, ProvedLeaf DEF Inv
    <3>5. leaves[j].amount \in Nat /\ spends[s].amount <= leaves[j].amount
      BY <3>3, <3>4, NoteAmount, <1>1 DEF TypeOK
    <3>6. payouts'[m] = <<r(m)>> /\ r(m).amount = spends[s].amount
      BY <2>1, <1>6
    <3> HIDE DEF s, r
    <3>7. Len(payouts'[m]) = 1 /\ payouts'[m][1].amount = spends[s].amount
      BY <3>6
    <3>8. Nullifier(leaves'[j]) = m /\ j \in DOMAIN leaves' /\ leaves'[j].amount = leaves[j].amount
      BY <1>1, <3>2, <3>4
    <3> QED BY <3>5, <3>7, <3>8
  <2>2. CASE m \notin used
    BY <2>2, <1>1, <1>6 DEF Inv, PaidOnceWithinNote
  <2> QED BY <2>1, <2>2
<1>10. PaidAsInitiated'
  BY <1>1, <1>5, <1>6 DEF Inv, PaidAsInitiated, Initiated
<1>11. Solvent' /\ PoolBounded'
  <2> DEFINE only(n) == {n} \ {NoNullifier}
             S1 == only(N(1))
             S2 == S1 \cup only(N(2))
             S3 == S2 \cup only(N(3))
             S4 == S3 \cup only(N(4))
  <2>1. \A i, j \in 1..4 : N(i) = N(j) => i = j \/ N(i) = NoNullifier
    BY <1>1, <1>3
  <2>2. \A i \in 1..4 : N(i) # NoNullifier => N(i) \notin nullifiers
    BY <1>1, <1>3
  <2>3. S4 = used
    <3>1. S4 \subseteq used
      BY <1>3
    <3>2. used \subseteq S4
      BY ParameterAssumption
    <3> QED BY <3>1, <3>2
  <2>4. Extends(spends, 1, {}, S1) /\ Extends(spends, 2, S1, S2)
    BY <2>1, <2>2 DEF Extends
  <2>5. Extends(spends, 3, S2, S3) /\ Extends(spends, 4, S3, S4)
    BY <2>1, <2>2 DEF Extends
  <2> HIDE DEF S1, S2, S3, S4
  <2>6. SeqSum(Without(S1)) + SlotAmount(spends, 1) <= SeqSum(Without({}))
    BY <1>1, <2>4, SlotDrop
  <2>7. SeqSum(Without(S2)) + SlotAmount(spends, 2) <= SeqSum(Without(S1))
    BY <1>1, <2>4, SlotDrop
  <2>8. SeqSum(Without(S3)) + SlotAmount(spends, 3) <= SeqSum(Without(S2))
    BY <1>1, <2>5, SlotDrop
  <2>9. SeqSum(Without(S4)) + SlotAmount(spends, 4) <= SeqSum(Without(S3))
    BY <1>1, <2>5, SlotDrop
  <2>10. /\ SeqSum(Without({})) \in Nat /\ SeqSum(Without(S1)) \in Nat
         /\ SeqSum(Without(S2)) \in Nat /\ SeqSum(Without(S3)) \in Nat
         /\ SeqSum(Without(S4)) \in Nat
    BY <1>1, WithoutType, SeqSumType
  <2>11. SeqSum(Without(S4)) + total <= SeqSum(Without({}))
    BY <2>6, <2>7, <2>8, <2>9, <2>10, SlotType
  <2>12. \A m \in Nullifiers : payouts'[m] = <<>> <=> payouts[m] = <<>> /\ m \notin used
    <3> HIDE DEF r, used
    <3>1. \A m \in Nullifiers : m \in used => payouts'[m] # <<>>
      BY <1>6
    <3> QED BY <3>1, <1>6, <1>5
  <2> HIDE DEF used, total
  <2> QED BY <1>1, <1>2, <2>3, <2>11, <2>12, SolventAfterPayment DEF Inv
<1> QED BY <1>7, <1>8, <1>9, <1>10, <1>11 DEF Inv

\* Every step keeps the invariant.
LEMMA InvStep == Inv /\ [Next]_vars => Inv'
<1> SUFFICES ASSUME Inv, [Next]_vars PROVE Inv'
  OBVIOUS
<1>0. TypeOK'
  BY TypeStep DEF Inv
<1>1. ASSUME NEW user \in User, NEW note \in Note, NEW amount \in Amount,
             Deposit(user, note, amount)
      PROVE  Inv'
  <2> DEFINE new == <<note>>
             amounts == <<amount>>
  <2>1. /\ new \in Seq(Note) /\ Len(new) = 1 /\ Len(leaves) \in Nat
        /\ amounts \in Seq(Nat) /\ Len(amounts) = 1 /\ MaxDeposits \in Nat
        /\ amount \in Nat
    BY AmountType, ParameterAssumption DEF Inv, TypeOK
  <2>2. SeqSum(amounts) = amount
    BY <2>1, SeqSumSingle
  <2>3. Len(leaves) + Len(new) <= MaxDeposits
    BY <1>1, <2>1 DEF Deposit
  <2>4. \A i \in DOMAIN amounts : amounts[i] \in Denomination
    BY <1>1 DEF Deposit
  <2>5. announced' = announced \o amounts
    BY <1>1 DEF Deposit, Inv, TypeOK
  <2>6. Transfer(user, Pool, amount) /\ Insert(new)
        /\ UNCHANGED <<nullifiers, pendingWithdrawals, payouts>>
    BY <1>1 DEF Deposit
  <2> HIDE DEF new, amounts
  <2> QED BY <1>0, <2>1, <2>2, <2>3, <2>4, <2>5, <2>6, DepositStep
<1>2. ASSUME NEW user \in User, NEW len \in 1..MaxBatch, NEW batch \in [1..len -> Note],
             NEW amounts \in [1..len -> Amount], BatchDeposit(user, batch, amounts)
      PROVE  Inv'
  <2>1. batch \in Seq(Note) /\ amounts \in Seq(Nat)
    BY ParameterAssumption, AmountsType
  <2> QED BY <1>0, <1>2, <2>1, DepositStep DEF BatchDeposit
<1>3. ASSUME NEW caller \in Address, NEW newRoot \in SUBSET Key,
             UpdateRegistrationRoot(caller, newRoot)
      PROVE  Inv'
  BY <1>0, <1>3, OtherStep DEF UpdateRegistrationRoot, tree
<1>4. ASSUME NEW note \in Note, NEW root \in knownRoots, NEW amount \in TransferAmount,
             NEW recipient \in Recipient, Withdraw(note, root, amount, recipient)
      PROVE  Inv'
  BY <1>0, <1>4, WithdrawStep
<1>5. ASSUME NEW note \in Note, NEW root \in knownRoots, NEW amount \in TransferAmount,
             NEW recipient \in Recipient, NEW registrationRoot \in knownRegistrationRoots,
             InitiateWithdrawal(note, root, amount, recipient, registrationRoot)
      PROVE  Inv'
  BY <1>0, <1>5, InitiateStep
<1>6. ASSUME NEW spends \in [Slot -> Spend \cup {NoSpend}], NEW root \in knownRoots,
             NEW recipient \in Recipient, WithdrawMulti(spends, root, recipient)
      PROVE  Inv'
  BY <1>0, <1>6, WithdrawMultiStep
<1>7. ASSUME NEW n \in Nullifiers, NEW caller \in Address, AttestWithdrawal(caller, n)
      PROVE  Inv'
  BY <1>0, <1>7, CompleteStep DEF AttestWithdrawal
<1>8. ASSUME NEW n \in Nullifiers, ClaimWithdrawal(n)
      PROVE  Inv'
  BY <1>0, <1>8, CompleteStep DEF ClaimWithdrawal
<1>9. ASSUME NEW caller \in Relayer \cup {ZeroAddr}, NEW newRelayer \in Relayer \cup {ZeroAddr},
             SetRelayer(caller, newRelayer)
      PROVE  Inv'
  BY <1>0, <1>9, OtherStep DEF SetRelayer, tree
<1>10. CASE Tick
  BY <1>0, <1>10, OtherStep DEF Tick, tree
<1>11. CASE UNCHANGED vars
  BY <1>0, <1>11, OtherStep DEF vars
<1> QED
  BY <1>1, <1>2, <1>3, <1>4, <1>5, <1>6, <1>7, <1>8, <1>9, <1>10, <1>11 DEF Next

\* The pool starts without leaves and without money.
LEMMA InvInit == Init => Inv
<1> SUFFICES ASSUME Init PROVE Inv
  OBVIOUS
<1>1. TypeOK
  BY ParameterAssumption DEF Init, InitTree, TypeOK, Withdrawal, NoWithdrawal, Address
<1>2. balance[Pool] = 0 /\ leaves = <<>> /\ announced = <<>>
  BY AddressAssumption DEF Init, InitTree, Address
<1>3. RootsSound /\ LeavesPriced /\ LeafStaysProvable /\ Untouched
  BY <1>2, ParameterAssumption
  DEF Init, InitTree, RootsSound, LeavesPriced, LeafStaysProvable, Untouched, Initiated
<1>4. InitiatedBacked /\ PaidOnceWithinNote /\ PaidAsInitiated
  BY DEF Init, InitTree, InitiatedBacked, PaidOnceWithinNote, PaidAsInitiated, Initiated
<1>5. Outstanding = Without({}) /\ Len(leaves) = 0
  BY <1>2 DEF Outstanding, Without
<1>6. SeqSum(Outstanding) = 0
  BY <1>1, <1>5, WithoutType, SeqSumEmpty
<1>7. PoolBounded /\ Solvent
  <2>1. SeqSum(announced) \in Nat /\ SeqSum(Overstated) \in Nat
    BY <1>1, <1>3, OverstatedType, SeqSumType DEF TypeOK
  <2> QED BY <1>2, <1>6, <2>1 DEF PoolBounded, Solvent
<1> QED BY <1>1, <1>3, <1>4, <1>7 DEF Inv

LEMMA InvCorrect == Spec => []Inv
BY InvInit, InvStep, PTL DEF Spec

-----------------------------------------------------------------------------
\* Theorems

\* The pool can pay every deposited note that was not paid yet, but for what
\* was committed to beyond the amounts paid in.
THEOREM SolventCorrect == Spec => []Solvent
<1>1. Inv => Solvent
  BY DEF Inv
<1> QED BY <1>1, InvCorrect, PTL

\* No nullifier is paid twice, or beyond the note it was proved for.
THEOREM PaidOnceWithinNoteCorrect == Spec => []PaidOnceWithinNote
<1>1. Inv => PaidOnceWithinNote
  BY DEF Inv
<1> QED BY <1>1, InvCorrect, PTL

\* An initiated withdrawal is paid as it was proved, when it is completed.
THEOREM PaidAsInitiatedCorrect == Spec => []PaidAsInitiated
<1>1. Inv => PaidAsInitiated
  BY DEF Inv
<1> QED BY <1>1, InvCorrect, PTL

\* Every deposited commitment can be proved against some known root.
THEOREM LeafStaysProvableCorrect == Spec => []LeafStaysProvable
<1>1. Inv => LeafStaysProvable
  BY DEF Inv
<1> QED BY <1>1, InvCorrect, PTL

\* The require statements of claimWithdrawal, the one in the token's transfer
\* included.
ClaimAccepted(n) ==
    LET pw == pendingWithdrawals[n] IN
    WindowOver(pw) /\ Open(pw) /\ balance[Pool] >= pw.amount

\* What ExpiredIsClaimable says, with those statements for ENABLED.
ExpiredIsAccepted ==
    \A n \in Nullifiers :
        LET pw == pendingWithdrawals[n] IN
        (Payable(pw) /\ Initiated(n) /\ ~pw.completed /\ now >= pw.deadline)
            => ClaimAccepted(n) \/ ShortByOverstatement(pw)

\* A claim after the window is refused only for money that was committed to
\* and never paid in: no other user's withdrawal of an honest note, paid or
\* waiting, takes the money it needs.
THEOREM ExpiredIsAcceptedCorrect == Spec => []ExpiredIsAccepted
<1>1. Inv => ExpiredIsAccepted
  <2> SUFFICES ASSUME Inv, NEW n \in Nullifiers, Payable(pendingWithdrawals[n]), Initiated(n),
                      ~ pendingWithdrawals[n].completed, now >= pendingWithdrawals[n].deadline
               PROVE  ClaimAccepted(n) \/ ShortByOverstatement(pendingWithdrawals[n])
    BY DEF ExpiredIsAccepted
  <2> DEFINE pw == pendingWithdrawals[n]
  <2>1. pw.recipient # ZeroAddr /\ pw.amount < U64 /\ pw.amount \in Nat
    BY DEF Inv, TypeOK, Withdrawal, Payable
  <2>2. PICK i \in DOMAIN leaves : Nullifier(leaves[i]) = n /\ AmountValid(pw.amount, leaves[i])
    BY DEF Inv, InitiatedBacked
  <2>3. payouts[n] = <<>>
    BY DEF Inv, PaidAsInitiated
  <2>4. WindowOver(pw) /\ Open(pw)
    BY <2>1 DEF WindowOver, Open
  <2> HIDE DEF pw
  <2>5. pw.amount <= leaves[i].amount
    <3>1. leaves[i].amount \in Nat
      BY NoteAmount DEF Inv, TypeOK
    <3>2. pw.amount % U64 <= leaves[i].amount % U64 /\ U64 \in Nat \ {0}
      BY <2>2, ParameterAssumption DEF AmountValid
    <3>3. \A x \in Nat, m \in Nat \ {0} : x < m => x % m = x
      OBVIOUS
    <3>4. leaves[i].amount % U64 \in Nat /\ leaves[i].amount % U64 <= leaves[i].amount
      BY <3>1, <3>2, RemainderBelow
    <3> QED BY <2>1, <3>1, <3>2, <3>3, <3>4
  <2>6. SeqSum(Without({} \cup {n})) + pw.amount <= SeqSum(Without({}))
    BY <2>1, <2>2, <2>3, <2>5, WithoutDrop DEF Inv
  <2>7. SeqSum(Without({} \cup {n})) \in Nat /\ SeqSum(Without({})) \in Nat
    BY WithoutType, SeqSumType DEF Inv
  <2>8. balance[Pool] + SeqSum(Overstated) >= SeqSum(Without({})) /\ balance[Pool] \in Nat
    BY DEF Inv, TypeOK, Address, Solvent, Outstanding, Without
  <2>9. SeqSum(Overstated) \in Nat
    BY OverstatedType, SeqSumType DEF Inv
  <2>10. pw.amount <= balance[Pool] + SeqSum(Overstated)
    BY <2>1, <2>6, <2>7, <2>8, <2>9
  <2>11. balance[Pool] >= pw.amount \/ ShortByOverstatement(pw)
    BY <2>1, <2>8, <2>10 DEF ShortByOverstatement
  <2> QED BY <2>4, <2>11 DEF ClaimAccepted, pw
<1> QED BY <1>1, InvCorrect, PTL

\* The terms of an initiated withdrawal are final.
THEOREM TermsFrozenCorrect == Spec => TermsFrozen
<1> DEFINE Frozen(n) ==
             \/ pendingWithdrawals'[n] = pendingWithdrawals[n]
             \/ /\ ~pendingWithdrawals[n].completed
                /\ pendingWithdrawals'[n] = [pendingWithdrawals[n] EXCEPT !.completed = TRUE]
           Step == \A n \in Nullifiers : Initiated(n) => Frozen(n)
<1>1. Inv /\ [Next]_vars => [Step]_vars
  <2> SUFFICES ASSUME Inv, [Next]_vars, NEW n \in Nullifiers, Initiated(n) PROVE Frozen(n)
    OBVIOUS
  <2>1. pendingWithdrawals \in [Nullifiers -> Withdrawal] /\ n \in nullifiers
    BY DEF Inv, TypeOK, Untouched
  <2>2. ASSUME NEW note \in Note, NEW root \in knownRoots, NEW amount \in TransferAmount,
               NEW recipient \in Recipient, NEW registrationRoot \in knownRegistrationRoots,
               InitiateWithdrawal(note, root, amount, recipient, registrationRoot)
        PROVE  Frozen(n)
    <3>1. Nullifier(note) # n
      BY <2>1, <2>2 DEF InitiateWithdrawal, Fresh
    <3> QED BY <2>1, <2>2, <3>1 DEF InitiateWithdrawal
  <2>3. ASSUME NEW m \in Nullifiers, Complete(m) PROVE Frozen(n)
    <3>1. /\ ~pendingWithdrawals[m].completed
          /\ pendingWithdrawals' =
               [pendingWithdrawals EXCEPT ![m] = [pendingWithdrawals[m] EXCEPT !.completed = TRUE]]
      BY <2>3 DEF Complete, Open
    <3>2. CASE m = n
      BY <2>1, <3>1, <3>2
    <3>3. CASE m # n
      BY <2>1, <3>1, <3>3
    <3> QED BY <3>2, <3>3
  <2>4. ASSUME pendingWithdrawals' = pendingWithdrawals PROVE Frozen(n)
    BY <2>4
  <2> HIDE DEF Frozen
  <2> QED BY <2>2, <2>3, <2>4
    DEF Next, Deposit, BatchDeposit, UpdateRegistrationRoot, Withdraw, WithdrawMulti,
        AttestWithdrawal, ClaimWithdrawal, SetRelayer, Tick, vars
<1> QED BY <1>1, InvCorrect, PTL DEF Spec, TermsFrozen
=============================================================================
