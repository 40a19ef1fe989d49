--------------------------- MODULE NotePathProofs ---------------------------
(***************************************************************************)
(* Registration and the way of a note, for all numbers of users, payments, *)
(* withdrawals and faults.  Four parts, each on the ones before it:        *)
(*   - the registrations: the maps and the index of the operator service   *)
(*     agree but for keys that were taken over;                            *)
(*   - the cryptography of notes: the copies of SDK, circuits and          *)
(*     sequencer compute the same, and what one encrypts the others open;  *)
(*   - the bytes of a deposit: what a key finds in them;                   *)
(*   - the withdrawals: PathInv, which every step of client, sequencer and *)
(*     contract preserves, and from it the properties of the path.         *)
(***************************************************************************)
EXTENDS NotePath, SequenceSumsProofs, SequenceTheorems

-----------------------------------------------------------------------------
\* The two maps agree but for the keys that were taken over, for any keys that
\* addresses present and any number of registrations.  That the tree has room
\* for them all, which registerUser does not check before it sets the maps, is
\* assumed where the index and the users on disk are concerned.  The properties
\* of the path do not need it.
Room == MaxRegistrations <= Capacity

User == [address : Address, npk : Npk]

-----------------------------------------------------------------------------
\* The inductive invariants

\* An address is listed once.
UsersOK(users) ==
  /\ users \in Seq(User)
  /\ \A i, j \in DOMAIN users : users[i].address = users[j].address => i = j

\* A map from keys to addresses has the entries of a list of users, for every
\* key but those in taken.
MapOf(map, users, taken) ==
  /\ \A i \in DOMAIN users :
       users[i].npk \in taken \/ (users[i].npk \in DOMAIN map /\ map[users[i].npk] = users[i].address)
  /\ \A npk \in DOMAIN map : npk \in taken \/
       \E i \in DOMAIN users : users[i].npk = npk /\ users[i].address = map[npk]

\* Every other key is listed once.
Distinct(users, taken) ==
  \A i, j \in DOMAIN users : users[i].npk = users[j].npk => i = j \/ users[i].npk \in taken

\* An index names a leaf that holds the key, for more keys than are in use.
IndexOf(index, lvs, map) ==
  /\ lvs \in Seq(Npk)
  /\ DOMAIN map \subseteq DOMAIN index
  /\ \A npk \in DOMAIN index : index[npk] \in 1..Len(lvs) /\ lvs[index[npk]] = npk

IInv ==
  /\ UsersOK(usersByAddress) /\ UsersOK(disk)
  /\ MapOf(usersByNpk, usersByAddress, takenOver)
  /\ Distinct(disk, takenOver)

\* What a tree with room adds.
RoomInv ==
  /\ UsersOK(usersByAddress)
  /\ disk = usersByAddress
  /\ IndexOf(npkToLeafIndex, tree, usersByNpk)

-----------------------------------------------------------------------------
\* Map.set keeps every entry of another address, in its place.
LEMMA PutUserEntries ==
  ASSUME NEW users, UsersOK(users), NEW user \in User, NEW new, new = PutUser(users, user)
  PROVE  /\ UsersOK(new)
         /\ DOMAIN users \subseteq DOMAIN new
         /\ \A i \in DOMAIN users : users[i].address # user.address => new[i] = users[i]
         /\ \A i \in DOMAIN new : new[i] # user =>
              i \in DOMAIN users /\ new[i] = users[i] /\ users[i].address # user.address
         /\ \E i \in DOMAIN new : new[i] = user
<1>0. users \in Seq(User) /\ DOMAIN users = 1..Len(users) /\ Len(users) \in Nat
  BY DEF UsersOK
<1>1. CASE \E i \in DOMAIN users : users[i].address = user.address
  <2>1. new = [i \in DOMAIN users |-> IF users[i].address = user.address THEN user ELSE users[i]]
    BY <1>1 DEF PutUser
  <2>2. /\ new \in Seq(User) /\ DOMAIN new = DOMAIN users
        /\ \A i \in DOMAIN users : new[i].address = users[i].address
    BY <1>0, <2>1
  <2> QED
    BY <1>0, <1>1, <2>1, <2>2 DEF UsersOK
<1>2. CASE ~\E i \in DOMAIN users : users[i].address = user.address
  <2>1. new = Append(users, user)
    BY <1>2 DEF PutUser
  <2>2. /\ new \in Seq(User) /\ DOMAIN new = 1..(Len(users) + 1)
        /\ \A i \in DOMAIN users : new[i] = users[i]
        /\ new[Len(users) + 1] = user
    BY <1>0, <2>1
  <2> QED
    BY <1>0, <1>2, <2>2 DEF UsersOK
<1> QED
  BY <1>1, <1>2

\* The old key is removed and the new one set without touching the entries of
\* others, unless the new key is an entry of another.
LEMMA PutMap ==
  ASSUME UsersOK(usersByAddress), NEW taken, MapOf(usersByNpk, usersByAddress, taken),
         NEW address \in Address, NEW npk \in Npk,
         NEW new, new = PutUser(usersByAddress, [address |-> address, npk |-> npk]),
         NEW map, map = Put(WithoutOldKey(address), npk, address),
         NEW more, more = taken \cup ({npk} \cap DOMAIN usersByNpk)
  PROVE  MapOf(map, new, more)
<1> DEFINE user == [address |-> address, npk |-> npk]
<1>1. user \in User /\ user.npk = npk /\ user.address = address
  BY DEF User
<1>2. /\ \A i \in DOMAIN new : new[i] # user =>
           i \in DOMAIN usersByAddress /\ new[i] = usersByAddress[i] /\ usersByAddress[i].address # address
      /\ DOMAIN usersByAddress \subseteq DOMAIN new
      /\ \A i \in DOMAIN usersByAddress : usersByAddress[i].address # address => new[i] = usersByAddress[i]
      /\ \E i \in DOMAIN new : new[i] = user
  BY <1>1, PutUserEntries
<1>3. \A k : k \in KeyOf(address) <=>
                \E i \in DOMAIN usersByAddress : usersByAddress[i].npk = k /\ usersByAddress[i].address = address
  BY DEF KeyOf, Range
<1>4. /\ DOMAIN map = (DOMAIN usersByNpk \ KeyOf(address)) \cup {npk}
      /\ map[npk] = address
      /\ \A k \in DOMAIN usersByNpk \ KeyOf(address) : k # npk => map[k] = usersByNpk[k]
  <2>1. /\ DOMAIN WithoutOldKey(address) = DOMAIN usersByNpk \ KeyOf(address)
        /\ \A k \in DOMAIN usersByNpk \ KeyOf(address) : WithoutOldKey(address)[k] = usersByNpk[k]
    BY DEF WithoutOldKey, Restrict
  <2> QED
    BY <2>1 DEF Put
<1>5. ASSUME NEW i \in DOMAIN new, new[i].npk \notin more
      PROVE  new[i].npk \in DOMAIN map /\ map[new[i].npk] = new[i].address
  <2>1. CASE new[i] = user
    BY <2>1, <1>1, <1>4
  <2>2. CASE new[i] # user
    <3>1. i \in DOMAIN usersByAddress /\ new[i] = usersByAddress[i] /\ usersByAddress[i].address # address
      BY <2>2, <1>2
    <3> DEFINE k == usersByAddress[i].npk
    <3>2. k \in DOMAIN usersByNpk /\ usersByNpk[k] = usersByAddress[i].address /\ k \notin taken
      BY <3>1, <1>5 DEF MapOf
    <3>3. k # npk
      BY <3>1, <3>2, <1>5
    <3>4. k \notin KeyOf(address)
      BY <3>1, <3>2, <1>3 DEF MapOf
    <3> QED
      BY <3>1, <3>2, <3>3, <3>4, <1>4
  <2> QED
    BY <2>1, <2>2
<1>6. ASSUME NEW k \in DOMAIN map, k \notin more
      PROVE  \E i \in DOMAIN new : new[i].npk = k /\ new[i].address = map[k]
  <2>1. CASE k = npk
    BY <2>1, <1>1, <1>2, <1>4
  <2>2. CASE k # npk
    <3>1. k \in DOMAIN usersByNpk /\ k \notin KeyOf(address) /\ map[k] = usersByNpk[k]
      BY <2>2, <1>4
    <3>2. PICK i \in DOMAIN usersByAddress :
            usersByAddress[i].npk = k /\ usersByAddress[i].address = usersByNpk[k]
      BY <3>1, <1>6 DEF MapOf
    <3>3. usersByAddress[i].address # address
      BY <3>1, <3>2, <1>3
    <3> QED
      BY <3>1, <3>2, <3>3, <1>2
  <2> QED
    BY <2>1, <2>2
<1> QED
  BY <1>5, <1>6 DEF MapOf

\* Two users with one key that is not among those taken: the map has but one
\* address for it.
LEMMA MapMakesDistinct ==
  ASSUME NEW users, UsersOK(users), NEW taken, NEW map, MapOf(map, users, taken)
  PROVE  Distinct(users, taken)
BY DEF UsersOK, MapOf, Distinct

\* The index after an insertion
LEMMA PutIndex ==
  ASSUME NEW index, NEW lvs, NEW map, IndexOf(index, lvs, map), NEW npk \in Npk,
         NEW new, DOMAIN new \subseteq DOMAIN map \cup {npk}
  PROVE  IndexOf(Put(index, npk, LeafIndex(lvs)), Append(lvs, npk), new)
<1> DEFINE put == Put(index, npk, LeafIndex(lvs))
<1>1. /\ DOMAIN put = DOMAIN index \cup {npk}
      /\ put[npk] = Len(lvs) + 1
      /\ \A k \in DOMAIN index : k # npk => put[k] = index[k]
  BY DEF Put, LeafIndex
<1>2. /\ Append(lvs, npk) \in Seq(Npk) /\ Len(lvs) \in Nat
      /\ Len(Append(lvs, npk)) = Len(lvs) + 1
      /\ Append(lvs, npk)[Len(lvs) + 1] = npk
      /\ \A i \in 1..Len(lvs) : Append(lvs, npk)[i] = lvs[i]
  BY DEF IndexOf
<1>3. ASSUME NEW k \in DOMAIN put
      PROVE  put[k] \in 1..(Len(lvs) + 1) /\ Append(lvs, npk)[put[k]] = k
  <2>1. CASE k = npk
    BY <2>1, <1>1, <1>2
  <2>2. CASE k # npk
    BY <2>2, <1>1, <1>2 DEF IndexOf
  <2> QED
    BY <2>1, <2>2
<1> QED
  BY <1>1, <1>2, <1>3 DEF IndexOf

\* init's rebuild from a list of users: of a key that was not taken over the
\* last entry is the only one.
LEMMA Rebuild ==
  ASSUME NEW users, UsersOK(users), NEW taken, Distinct(users, taken),
         NEW lvs, lvs = [i \in DOMAIN users |-> users[i].npk],
         NEW map, map = [npk \in Range(lvs) |-> users[SelectLastInSeq(users, LAMBDA u : u.npk = npk)].address]
  PROVE  MapOf(map, users, taken)
<1>1. /\ users \in Seq(User) /\ DOMAIN users = 1..Len(users) /\ Len(users) \in Nat
      /\ \A i \in DOMAIN users : users[i] \in User
  BY DEF UsersOK
<1>2. Range(lvs) = {users[i].npk : i \in DOMAIN users}
  BY DEF Range
<1>3. ASSUME NEW i \in DOMAIN users, users[i].npk \notin taken
      PROVE  SelectLastInSeq(users, LAMBDA u : u.npk = users[i].npk) = i
  <2>1. i \in Int
    BY <1>1
  <2>2. {j \in 1..Len(users) : users[j].npk = users[i].npk} = {i}
    BY <1>1, <1>3 DEF Distinct
  <2>3. {i} # {} /\ (CHOOSE x \in {i} : \A y \in {i} : x >= y) = i
    BY <2>1
  <2> QED
    BY <2>2, <2>3 DEF SelectLastInSeq, Max
<1>4. DOMAIN map = {users[i].npk : i \in DOMAIN users}
  BY <1>2
<1>5. \A i \in DOMAIN users : users[i].npk \notin taken => map[users[i].npk] = users[i].address
  BY <1>2, <1>3
<1>6. ASSUME NEW npk \in DOMAIN map, npk \notin taken
      PROVE  \E i \in DOMAIN users : users[i].npk = npk /\ users[i].address = map[npk]
  <2>1. PICK i \in DOMAIN users : users[i].npk = npk
    BY <1>4
  <2>2. map[npk] = users[i].address
    BY <2>1, <1>5, <1>6
  <2> QED
    BY <2>1, <2>2
<1> HIDE DEF SelectLastInSeq
<1> QED
  BY <1>4, <1>5, <1>6 DEF MapOf

\* The last leaf with a key has that key.
LEMMA LastIndexOf ==
  ASSUME NEW s \in Seq(Npk), NEW k \in Range(s)
  PROVE  /\ SelectLastInSeq(s, LAMBDA n : n = k) \in 1 .. Len(s)
         /\ s[SelectLastInSeq(s, LAMBDA n : n = k)] = k
<1> DEFINE I == {i \in 1 .. Len(s) : s[i] = k}
           B == {Len(s) - i : i \in I}
<1>1. Len(s) \in Nat /\ DOMAIN s = 1 .. Len(s)
  OBVIOUS
<1>2. I # {}
  BY <1>1 DEF Range
<1>3. B # {} /\ B \in SUBSET Nat
  BY <1>1, <1>2
<1> HIDE DEF B
<1>4. PICK b \in B : \A c \in B : b <= c
  BY <1>3, LeastElement
<1>5. PICK m \in I : b = Len(s) - m
  BY DEF B
<1>6. \A i \in I : m >= i
  <2>1. ASSUME NEW i \in I PROVE m >= i
    <3>1. Len(s) - i \in B
      BY DEF B
    <3>2. Len(s) - m <= Len(s) - i
      BY <1>4, <1>5, <3>1
    <3> QED BY <1>1, <1>5, <3>2
  <2> QED BY <2>1
<1>7. SelectLastInSeq(s, LAMBDA n : n = k) = CHOOSE x \in I : \A y \in I : x >= y
  BY <1>2 DEF SelectLastInSeq, Max
<1>8. SelectLastInSeq(s, LAMBDA n : n = k) \in I
  <2> HIDE DEF I
  <2> QED BY <1>5, <1>6, <1>7
<1> QED BY <1>8

\* The index rebuilt from the leaves.
LEMMA RebuildIndex ==
  ASSUME NEW lvs \in Seq(Npk), NEW index,
         index = [npk \in Range(lvs) |-> SelectLastInSeq(lvs, LAMBDA n : n = npk)],
         NEW map, DOMAIN map = Range(lvs)
  PROVE  IndexOf(index, lvs, map)
<1>1. DOMAIN index = Range(lvs)
  OBVIOUS
<1>2. ASSUME NEW npk \in Range(lvs)
      PROVE  index[npk] \in 1 .. Len(lvs) /\ lvs[index[npk]] = npk
  <2>1. index[npk] = SelectLastInSeq(lvs, LAMBDA n : n = npk)
    OBVIOUS
  <2> QED
    BY <2>1, LastIndexOf
<1> QED
  BY <1>1, <1>2 DEF IndexOf

\* The leaves of registered users are keys.
LEMMA LeavesOfUsers ==
  ASSUME NEW users \in Seq(User)
  PROVE  [i \in DOMAIN users |-> users[i].npk] \in Seq(Npk)
<1>1. DOMAIN users = 1 .. Len(users) /\ Len(users) \in Nat /\ \A i \in 1 .. Len(users) : users[i].npk \in Npk
  <2>1. \A u \in User : u.npk \in Npk
    BY DEF User
  <2> QED
    BY <2>1
<1> QED
  BY <1>1

-----------------------------------------------------------------------------
LEMMA InitIInv == Init => IInv /\ RoomInv
  BY DEF Init, IInv, RoomInv, UsersOK, MapOf, Distinct, IndexOf, NoEntries

\* What a registration does to the users, whether or not the tree has room.
LEMMA RegisterKeeps ==
  ASSUME IInv, NEW address \in Address, NEW npk \in KeysOf[address], Register(address, npk)
  PROVE  IInv'
<1>0. npk \in Npk /\ [address |-> address, npk |-> npk] \in User
  <2>1. npk \in Npk
    BY RegistrationAssumption
  <2> QED
    BY <2>1 DEF User
<1>1. /\ usersByAddress' = PutUser(usersByAddress, [address |-> address, npk |-> npk])
      /\ usersByNpk' = Put(WithoutOldKey(address), npk, address)
      /\ takenOver' = takenOver \cup ({npk} \cap DOMAIN usersByNpk)
      /\ disk' = usersByAddress' \/ disk' = disk
  BY DEF Register, Persisted
<1>2. UsersOK(usersByAddress')
  BY <1>0, <1>1, PutUserEntries DEF IInv
<1>3. MapOf(usersByNpk', usersByAddress', takenOver')
  BY <1>0, <1>1, PutMap DEF IInv
<1>4. Distinct(usersByAddress', takenOver')
  BY <1>2, <1>3, MapMakesDistinct
<1>5. Distinct(disk, takenOver')
  BY <1>1 DEF IInv, Distinct
<1> QED
  BY <1>1, <1>2, <1>3, <1>4, <1>5 DEF IInv

LEMMA RestartKeeps == ASSUME IInv, Restart PROVE IInv'
<1>1. /\ usersByAddress' = disk /\ disk' = disk /\ takenOver' = takenOver
      /\ tree' = [i \in DOMAIN disk |-> disk[i].npk]
      /\ usersByNpk' = [npk \in Range(tree') |-> disk[SelectLastInSeq(disk, LAMBDA u : u.npk = npk)].address]
  BY DEF Restart
<1>2. MapOf(usersByNpk', disk, takenOver)
  BY <1>1, Rebuild DEF IInv
<1> QED
  BY <1>1, <1>2 DEF IInv

LEMMA NextKeeps == ASSUME IInv, [Next]_vars PROVE IInv'
<1>1. ASSUME NEW address \in Address, NEW npk \in KeysOf[address], Register(address, npk)
      PROVE  IInv'
  BY <1>1, RegisterKeeps
<1>2. ASSUME NEW root, Submitted(root) \/ SubmissionFails(root)
      PROVE  IInv'
  BY <1>2 DEF Submitted, SubmissionFails, IInv
<1>3. CASE Restart
  BY <1>3, RestartKeeps
<1>4. CASE UNCHANGED vars
  BY <1>4 DEF vars, IInv
<1> QED
  BY <1>1, <1>2, <1>3, <1>4 DEF Next

LEMMA RoomKept == ASSUME Room, RoomInv, [Next]_vars PROVE RoomInv'
<1>1. ASSUME NEW address \in Address, NEW npk \in KeysOf[address], Register(address, npk)
      PROVE  RoomInv'
  <2>0. npk \in Npk /\ [address |-> address, npk |-> npk] \in User
    <3>1. npk \in Npk
      BY RegistrationAssumption
    <3> QED
      BY <3>1 DEF User
  <2>1. tree \in Seq(Npk) /\ Len(tree) < Capacity
    BY <1>1, RegistrationAssumption DEF RoomInv, IndexOf, Room, Register
  <2>2. /\ usersByAddress' = PutUser(usersByAddress, [address |-> address, npk |-> npk])
        /\ usersByNpk' = Put(WithoutOldKey(address), npk, address)
        /\ tree' = Append(tree, npk)
        /\ npkToLeafIndex' = Put(npkToLeafIndex, npk, LeafIndex(tree))
        /\ disk' = usersByAddress'
    BY <1>1, <2>1 DEF Register, Persisted
  <2>3. UsersOK(usersByAddress')
    BY <2>0, <2>2, PutUserEntries DEF RoomInv
  <2>4. DOMAIN usersByNpk' \subseteq DOMAIN usersByNpk \cup {npk}
    BY <2>2 DEF Put, WithoutOldKey, Restrict
  <2>5. IndexOf(npkToLeafIndex', tree', usersByNpk')
    BY <2>0, <2>2, <2>4, PutIndex DEF RoomInv
  <2> QED
    BY <2>2, <2>3, <2>5 DEF RoomInv
<1>2. ASSUME NEW root, Submitted(root) \/ SubmissionFails(root)
      PROVE  RoomInv'
  BY <1>2 DEF Submitted, SubmissionFails, RoomInv
<1>3. CASE Restart
  <2>1. /\ UsersOK(disk) /\ disk \in Seq(User)
        /\ usersByAddress' = disk /\ disk' = disk
        /\ tree' = [i \in DOMAIN disk |-> disk[i].npk]
        /\ DOMAIN usersByNpk' = Range(tree')
        /\ npkToLeafIndex' = [npk \in Range(tree') |-> SelectLastInSeq(tree', LAMBDA n : n = npk)]
    BY <1>3 DEF RoomInv, UsersOK, Restart
  <2>2. tree' \in Seq(Npk)
    BY <2>1, LeavesOfUsers
  <2>3. IndexOf(npkToLeafIndex', tree', usersByNpk')
    BY <2>1, <2>2, RebuildIndex
  <2> QED
    BY <2>1, <2>3 DEF RoomInv
<1>4. CASE UNCHANGED vars
  BY <1>4 DEF vars, RoomInv
<1> QED
  BY <1>1, <1>2, <1>3, <1>4 DEF Next

LEMMA IInvAlways == Spec => []IInv
<1>1. IInv /\ [Next]_vars => IInv'
  BY NextKeeps
<1> QED
  BY <1>1, InitIInv, PTL DEF Spec

LEMMA RoomAlways == ASSUME Room PROVE Spec => []RoomInv
<1>1. RoomInv /\ [Next]_vars => RoomInv'
  BY RoomKept
<1> QED
  BY <1>1, InitIInv, PTL DEF Spec

-----------------------------------------------------------------------------
\* The two maps of operator.ts name the same users, through every change of
\* keys and every restart, and whether or not the tree has room; but for the
\* keys that a known address took over from another.
THEOREM MapsAgreeAlways == Spec => []MapsAgree
<1>1. IInv => MapsAgree
  BY DEF IInv, MapOf, MapsAgree, KeyOf, Range
<1> QED
  BY <1>1, IInvAlways, PTL

\* Every registered user gets a proof for the leaf that holds its key, also
\* when two users have registered the same one.
THEOREM RegisteredProvableAlways == ASSUME Room PROVE Spec => []RegisteredProvable
<1>1. RoomInv => RegisteredProvable
  BY DEF RoomInv, IndexOf, RegisteredProvable, RegistrationProof, RegistrationRoot
<1> QED
  BY <1>1, RoomAlways, PTL

\* A restart restores exactly the registered users.
THEOREM UsersSurvive == ASSUME Room PROVE Spec => UsersSurviveRestart
<1>1. RoomInv /\ [Next]_vars => [Restart => usersByAddress' = usersByAddress]_vars
  BY DEF RoomInv, Restart
<1> QED
  BY <1>1, RoomAlways, PTL DEF Spec, UsersSurviveRestart

\* Unless a submission failed, the root that proofs lead to is on its way to
\* the contract or known there, for any number of restarts; this needs no
\* assumption on keys or room.
THEOREM ServedRootSubmittedAlways == Spec => []ServedRootSubmitted
<1> DEFINE Served == failures \in Nat /\ ServedRootSubmitted
<1>1. Init => Served
  BY DEF Init, ServedRootSubmitted
<1>2. ASSUME Served, [Next]_vars PROVE Served'
  <2>1. ASSUME NEW address \in Address, NEW npk \in KeysOf[address], Register(address, npk)
        PROVE  Served'
    BY <1>2, <2>1 DEF Register, ServedRootSubmitted
  <2>2. ASSUME NEW root \in submissions, Submitted(root)
        PROVE  Served'
    BY <1>2, <2>2 DEF Submitted, ServedRootSubmitted
  <2>3. ASSUME NEW root \in submissions, SubmissionFails(root)
        PROVE  Served'
    BY <1>2, <2>3 DEF SubmissionFails, ServedRootSubmitted
  <2>4. CASE Restart
    <3>1. Rebuilt(tree') \subseteq submissions'
      BY <2>4 DEF Restart
    <3> QED
      BY <1>2, <2>4, <3>1 DEF Restart, Rebuilt, ServedRootSubmitted
  <2>5. CASE UNCHANGED vars
    BY <1>2, <2>5 DEF vars, ServedRootSubmitted
  <2> QED
    BY <1>2, <2>1, <2>2, <2>3, <2>4, <2>5 DEF Next
<1> QED
  BY <1>1, <1>2, PTL DEF Spec

-----------------------------------------------------------------------------
(* The copies of the hashes of notes and of their encryption.              *)

Numbers == {Num(n) : n \in Nat}
NoteData == [secret : Numbers, amount : Numbers, blockNumber : Numbers, depositor : Numbers]

-----------------------------------------------------------------------------
(* The three modules mean the same by the operations of the libraries.     *)
LEMMA SamePrimitives ==
  /\ \A n : Lib!Num(n) = Num(n) /\ Operator!Num(n) = Num(n)
  /\ \A a, b : Lib!Plus(a, b) = Plus(a, b) /\ Operator!Plus(a, b) = Plus(a, b)
  /\ \A t : Lib!Permute(t) = Permute(t) /\ Operator!Permute(t) = Permute(t)
  /\ \A k, m : Operator!SharedSecret(k, m) = SharedSecret(k, m)
  /\ \A k, m : Operator!Keccak(k, m) = Keccak(k, m) /\ Operator!Hmac(k, m) = Hmac(k, m)
  /\ \A k, m : Operator!Xor(k, m) = Xor(k, m)
  /\ \A k : Operator!PubKey(k) = PubKey(k)
<1>1. \A n : Lib!Num(n) = Num(n) /\ Operator!Num(n) = Num(n)
  BY DEF Num, Lib!Num, Operator!Num
<1>2. \A a, b : Lib!Plus(a, b) = Plus(a, b) /\ Operator!Plus(a, b) = Plus(a, b)
  BY <1>1 DEF Plus, Lib!Plus, Operator!Plus
<1>3. \A t : Lib!Permute(t) = Permute(t) /\ Operator!Permute(t) = Permute(t)
  BY DEF Permute, Lib!Permute, Operator!Permute
<1>4. /\ \A k, m : Operator!SharedSecret(k, m) = SharedSecret(k, m)
      /\ \A k, m : Operator!Keccak(k, m) = Keccak(k, m) /\ Operator!Hmac(k, m) = Hmac(k, m)
      /\ \A k, m : Operator!Xor(k, m) = Xor(k, m)
      /\ \A k : Operator!PubKey(k) = PubKey(k)
  BY DEF SharedSecret, Keccak, Hmac, Xor, PubKey, Operator!SharedSecret, Operator!Keccak,
         Operator!Hmac, Operator!Xor, Operator!PubKey
<1> QED BY <1>1, <1>2, <1>3, <1>4

(* The hashes "must match circuit" (sequencer/src/crypto.ts): the key of a *)
(* user, the commitment of a note, its nullifier and its compliance hash   *)
(* are the same in the three copies, for all inputs.                       *)
THEOREM CopiesAgree ==
  ASSUME NEW secret, NEW nsk, NEW npk, NEW recipient, NEW amount, NEW note
  PROVE  /\ ComputeNpk(nsk) = Lib!compute_npk(nsk)
         /\ ComputeNpk(nsk) = Operator!ComputeNpk(nsk)
         /\ ComputeCommitment(note, npk)
              = Lib!compute_commitment(note.secret, npk, note.amount, note.blockNumber, note.depositor)
         /\ ComputeCommitment(note, npk)
              = Operator!ComputeCommitment(note.secret, npk, note.amount, note.blockNumber, note.depositor)
         /\ ComputeNullifier(secret, nsk) = Lib!compute_nullifier(secret, nsk)
         /\ ComputeNullifier(secret, nsk) = Operator!ComputeNullifier(secret, nsk)
         /\ ComputeComplianceHash(note.depositor, recipient, amount, secret)
              = Lib!compute_compliance_hash(note.depositor, recipient, amount, secret)
         /\ ComputeComplianceHash(note.depositor, recipient, amount, secret)
              = Operator!ComputeComplianceHash(note.depositor, recipient, amount, secret)
<1>2. \A a, b : /\ Lib!poseidon2_hash_2(a, b) = Poseidon2Hash2(a, b)
                /\ Operator!Poseidon2Hash2(a, b) = Poseidon2Hash2(a, b)
  BY SamePrimitives DEF Poseidon2Hash2, Lib!poseidon2_hash_2, Operator!Poseidon2Hash2
<1>3. \A a, b, c : /\ Lib!poseidon2_hash_3(a, b, c) = Poseidon2Hash3(a, b, c)
                   /\ Operator!Poseidon2Hash3(a, b, c) = Poseidon2Hash3(a, b, c)
  BY SamePrimitives DEF Poseidon2Hash3, Lib!poseidon2_hash_3, Operator!Poseidon2Hash3
<1>5. \A a, b, c, d, e : /\ Lib!poseidon2_hash_5(a, b, c, d, e) = Poseidon2Hash5(a, b, c, d, e)
                         /\ Operator!Poseidon2Hash5(a, b, c, d, e) = Poseidon2Hash5(a, b, c, d, e)
  BY SamePrimitives DEF Poseidon2Hash5, Lib!poseidon2_hash_5, Operator!Poseidon2Hash5
<1>6. \A a, b, c, d, e, f :
        /\ Lib!poseidon2_hash_6(a, b, c, d, e, f) = Poseidon2Hash6(a, b, c, d, e, f)
        /\ Operator!Poseidon2Hash6(a, b, c, d, e, f) = Poseidon2Hash6(a, b, c, d, e, f)
  BY SamePrimitives DEF Poseidon2Hash6, Lib!poseidon2_hash_6, Operator!Poseidon2Hash6
<1>7. /\ DOMAIN_NPK = Lib!DOMAIN_NPK /\ DOMAIN_NPK = Operator!DOMAIN_NPK
      /\ DOMAIN_COMMITMENT = Lib!DOMAIN_COMMITMENT /\ DOMAIN_COMMITMENT = Operator!DOMAIN_COMMITMENT
      /\ DOMAIN_NULLIFIER = Lib!DOMAIN_NULLIFIER /\ DOMAIN_NULLIFIER = Operator!DOMAIN_NULLIFIER
      /\ DOMAIN_COMPLIANCE = Lib!DOMAIN_COMPLIANCE /\ DOMAIN_COMPLIANCE = Operator!DOMAIN_COMPLIANCE
  BY SamePrimitives DEF DOMAIN_NPK, Lib!DOMAIN_NPK, Operator!DOMAIN_NPK,
     DOMAIN_COMMITMENT, Lib!DOMAIN_COMMITMENT, Operator!DOMAIN_COMMITMENT,
     DOMAIN_NULLIFIER, Lib!DOMAIN_NULLIFIER, Operator!DOMAIN_NULLIFIER,
     DOMAIN_COMPLIANCE, Lib!DOMAIN_COMPLIANCE, Operator!DOMAIN_COMPLIANCE
<1>8. ComputeNpk(nsk) = Lib!compute_npk(nsk) /\ ComputeNpk(nsk) = Operator!ComputeNpk(nsk)
  BY <1>2, <1>7 DEF ComputeNpk, Lib!compute_npk, Operator!ComputeNpk
<1>9. /\ ComputeCommitment(note, npk)
           = Lib!compute_commitment(note.secret, npk, note.amount, note.blockNumber, note.depositor)
      /\ ComputeCommitment(note, npk)
           = Operator!ComputeCommitment(note.secret, npk, note.amount, note.blockNumber, note.depositor)
  BY <1>6, <1>7 DEF ComputeCommitment, Lib!compute_commitment, Operator!ComputeCommitment
<1>10. /\ ComputeNullifier(secret, nsk) = Lib!compute_nullifier(secret, nsk)
       /\ ComputeNullifier(secret, nsk) = Operator!ComputeNullifier(secret, nsk)
  BY <1>3, <1>7 DEF ComputeNullifier, Lib!compute_nullifier, Operator!ComputeNullifier
<1>11. /\ ComputeComplianceHash(note.depositor, recipient, amount, secret)
            = Lib!compute_compliance_hash(note.depositor, recipient, amount, secret)
       /\ ComputeComplianceHash(note.depositor, recipient, amount, secret)
            = Operator!ComputeComplianceHash(note.depositor, recipient, amount, secret)
  BY <1>5, <1>7
     DEF ComputeComplianceHash, Lib!compute_compliance_hash, Operator!ComputeComplianceHash
<1> QED BY <1>8, <1>9, <1>10, <1>11

-----------------------------------------------------------------------------
(* XOR with the same key twice gives the block back.                       *)
LEMMA XorTwice ==
  ASSUME NEW key, NEW block \in Numbers
  PROVE  Xor(key, Xor(key, block)) = block
<1>1. Xor(key, block) = <<"xor", key, block>>
  BY DEF Xor, Numbers, Num
<1>2. Xor(key, <<"xor", key, block>>) = block
  BY DEF Xor
<1> QED BY <1>1, <1>2

(* Both sides of a key exchange have the same secret, a third key has      *)
(* another one.                                                            *)
LEMMA KeyExchange ==
  ASSUME NEW e, NEW k
  PROVE  /\ SharedSecret(k, PubKey(e)) = SharedSecret(e, PubKey(k))
         /\ \A other : other # k => SharedSecret(other, PubKey(e)) # SharedSecret(e, PubKey(k))
BY DEF SharedSecret, PubKey

(* A note the SDK encrypted for the operator is opened by the sequencer's  *)
(* copy, to the secret that was encrypted, and by no other key: the        *)
(* operator can verify every withdrawal of a deposit made with its key.    *)
THEOREM OperatorReadsSecrets ==
  ASSUME NEW e, NEW k, NEW secret \in Numbers
  PROVE  /\ Operator!DecryptOperatorNote(k, EncryptOperatorNote(e, PubKey(k), secret)) = {secret}
         /\ \A other : other # k =>
              Operator!DecryptOperatorNote(other, EncryptOperatorNote(e, PubKey(k), secret)) = {}
<1> DEFINE shared == SharedSecret(e, PubKey(k))
           cipher == <<Xor(Keccak(shared, 0), secret)>>
           enc == EncryptOperatorNote(e, PubKey(k), secret)
<1>1. /\ enc.ephemeralPubKey = PubKey(e)
      /\ enc.ciphertext = cipher
      /\ enc.mac = Hmac(Keccak(shared, 1), cipher)
  <2>1. [i \in DOMAIN <<secret>> |-> Xor(Keccak(shared, i - 1), <<secret>>[i])] = cipher
    OBVIOUS
  <2> QED BY <2>1 DEF EncryptOperatorNote, Encrypt
<1>2. ASSUME NEW other
      PROVE  Operator!DecryptOperatorNote(other, enc) =
               IF Hmac(Keccak(shared, 1), cipher) # Hmac(Keccak(SharedSecret(other, PubKey(e)), 1), cipher)
               THEN {} ELSE {Xor(Keccak(SharedSecret(other, PubKey(e)), 0), cipher[1])}
  <2> DEFINE material == [i \in 1 .. 2 |-> Keccak(SharedSecret(other, PubKey(e)), i - 1)]
  <2>1. Operator!DeriveKeyMaterial(Operator!SharedSecret(other, enc.ephemeralPubKey), 64) = material
    BY <1>1, SamePrimitives DEF Operator!DeriveKeyMaterial
  <2>2. /\ material[1] = Keccak(SharedSecret(other, PubKey(e)), 0)
        /\ material[2] = Keccak(SharedSecret(other, PubKey(e)), 1)
    OBVIOUS
  <2> HIDE DEF material, enc, cipher
  <2> QED BY <1>1, <2>1, <2>2, SamePrimitives DEF Operator!DecryptOperatorNote
<1>3. Operator!DecryptOperatorNote(k, enc) = {secret}
  BY <1>2, KeyExchange, XorTwice
<1>4. ASSUME NEW other, other # k
      PROVE  Operator!DecryptOperatorNote(other, enc) = {}
  <2>1. SharedSecret(other, PubKey(e)) # shared
    BY <1>4, KeyExchange
  <2>2. Hmac(Keccak(shared, 1), cipher) # Hmac(Keccak(SharedSecret(other, PubKey(e)), 1), cipher)
    BY <2>1 DEF Hmac, Keccak
  <2> QED BY <1>2, <2>2
<1> QED BY <1>3, <1>4

-----------------------------------------------------------------------------
(* Decoding what was encoded gives the note back.                          *)
LEMMA DecodeEncoded ==
  ASSUME NEW note \in NoteData
  PROVE  DecodeNoteData(EncodeNoteData(note)) = note
BY DEF DecodeNoteData, EncodeNoteData, NoteData

(* A note encrypted by the SDK or by the sequencer's copy is opened by the *)
(* key it is for, to what was encrypted, and by no other: the recipient,   *)
(* and nobody else, can prove a withdrawal of it.                          *)
THEOREM RecipientReadsNotes ==
  ASSUME NEW e, NEW k, NEW note \in NoteData,
         NEW enc \in {EncryptNote(e, PubKey(k), note), Operator!EncryptNote(e, PubKey(k), note)}
  PROVE  /\ \E blocks \in DecryptNote(k, enc) : DecodeNoteData(blocks) = note
         /\ \A other : other # k => DecryptNote(other, enc) = {}
<1> DEFINE shared == SharedSecret(e, PubKey(k))
           blocks == EncodeNoteData(note)
           cipher == [i \in 1 .. 4 |-> Xor(Keccak(shared, i - 1), blocks[i])]
<1>1. \A i \in 1 .. 4 : blocks[i] \in Numbers
  BY DEF EncodeNoteData, NoteData
<1>2. /\ enc.ephemeralPubKey = PubKey(e)
      /\ enc.ciphertext = cipher
      /\ enc.mac = Hmac(Keccak(shared, 4), cipher)
  <2>1. CASE enc = EncryptNote(e, PubKey(k), note)
    <3>1. DOMAIN blocks = 1 .. 4 /\ Len(blocks) = 4
      BY DEF EncodeNoteData
    <3>2. [i \in DOMAIN blocks |-> Xor(Keccak(shared, i - 1), blocks[i])] = cipher
      BY <3>1
    <3> QED BY <2>1, <3>1, <3>2 DEF EncryptNote, Encrypt
  <2>2. CASE enc = Operator!EncryptNote(e, PubKey(k), note)
    <3> DEFINE material == [i \in 1 .. 5 |-> Keccak(shared, i - 1)]
    <3>1. Operator!DeriveKeyMaterial(Operator!SharedSecret(e, PubKey(k)), 160) = material
      BY SamePrimitives DEF Operator!DeriveKeyMaterial
    <3>2. Operator!EncodeNoteData(note) = blocks
      BY DEF Operator!EncodeNoteData, EncodeNoteData
    <3>3. [i \in 1 .. 4 |-> Operator!Xor(material[i], blocks[i])] = cipher
      BY SamePrimitives
    <3>4. material[5] = Keccak(shared, 4)
      OBVIOUS
    <3> HIDE DEF material, cipher, blocks
    <3> QED BY <2>2, <3>1, <3>2, <3>3, <3>4, SamePrimitives DEF Operator!EncryptNote
  <2> QED BY <2>1, <2>2
<1>3. ASSUME NEW other
      PROVE  DecryptNote(other, enc) =
               IF Hmac(Keccak(shared, 4), cipher) = Hmac(Keccak(SharedSecret(other, PubKey(e)), 4), cipher)
               THEN {[i \in 1 .. 4 |-> Xor(Keccak(SharedSecret(other, PubKey(e)), i - 1), cipher[i])]}
               ELSE {}
  <2> HIDE DEF cipher
  <2> QED BY <1>2 DEF DecryptNote, MacValid
<1>4. DecryptNote(k, enc) = {blocks}
  <2>1. [i \in 1 .. 4 |-> Xor(Keccak(shared, i - 1), cipher[i])] = [i \in 1 .. 4 |-> blocks[i]]
    <3>1. \A i \in 1 .. 4 : Xor(Keccak(shared, i - 1), cipher[i]) = blocks[i]
      BY <1>1, XorTwice
    <3> HIDE DEF cipher, blocks
    <3> QED BY <3>1
  <2>2. [i \in 1 .. 4 |-> blocks[i]] = blocks
    BY DEF EncodeNoteData
  <2> HIDE DEF cipher, blocks
  <2> QED BY <1>3, <2>1, <2>2, KeyExchange
<1>5. ASSUME NEW other, other # k
      PROVE  DecryptNote(other, enc) = {}
  <2>1. SharedSecret(other, PubKey(e)) # shared
    BY <1>5, KeyExchange
  <2>2. Hmac(Keccak(shared, 4), cipher) # Hmac(Keccak(SharedSecret(other, PubKey(e)), 4), cipher)
    BY <2>1 DEF Hmac, Keccak
  <2> HIDE DEF cipher
  <2> QED BY <1>3, <2>2
<1> QED BY <1>4, <1>5, DecodeEncoded

-----------------------------------------------------------------------------
(* Nothing collides: what a permutation absorbed can be told from what it  *)
(* gave.                                                                   *)
LEMMA PermutedSame ==
  ASSUME NEW s, NEW t, Permute(s)[1] = Permute(t)[1]
  PROVE  s = t
<1>1. Permute(s)[1] = <<"permuted", 1, s>> /\ Permute(t)[1] = <<"permuted", 1, t>>
  BY DEF Permute
<1>2. <<"permuted", 1, s>>[3] = s /\ <<"permuted", 1, t>>[3] = t
  OBVIOUS
<1> QED BY <1>1, <1>2

LEMMA NullifiersDiffer ==
  ASSUME NEW a, NEW b, NEW k, NEW l, ComputeNullifier(a, k) = ComputeNullifier(b, l)
  PROVE  a = b
<1>1. <<a, k, DOMAIN_NULLIFIER, Num(0)>> = <<b, l, DOMAIN_NULLIFIER, Num(0)>>
  BY PermutedSame DEF ComputeNullifier, Poseidon2Hash3
<1> QED BY <1>1

(* A sum with an output of the permutation tells what was added.           *)
LEMMA PlusSame ==
  ASSUME NEW s, NEW t, NEW a \in Numbers, NEW b \in Numbers,
         Plus(Permute(s)[1], a) = Plus(Permute(t)[1], b)
  PROVE  a = b
<1>1. Permute(s)[1] = <<"permuted", 1, s>> /\ Permute(t)[1] = <<"permuted", 1, t>>
  BY DEF Permute
<1> DEFINE u == <<"permuted", 1, s>>
           v == <<"permuted", 1, t>>
<1>2. Plus(u, a) = Plus(v, b)
  BY <1>1
<1>3. CASE a = Num(0) /\ b = Num(0)
  BY <1>3
<1>4. CASE a # Num(0) /\ b # Num(0)
  <2>1. <<"plus", u, a>> = <<"plus", v, b>>
    BY <1>2, <1>4 DEF Plus
  <2> QED BY <2>1
<1>5. CASE a = Num(0) /\ b # Num(0)
  <2>1. u = <<"plus", v, b>>
    BY <1>2, <1>5 DEF Plus
  <2>2. u[1] = "permuted" /\ <<"plus", v, b>>[1] = "plus"
    OBVIOUS
  <2> HIDE DEF u
  <2> QED BY <2>1, <2>2
<1>6. CASE a # Num(0) /\ b = Num(0)
  <2>1. <<"plus", u, a>> = v
    BY <1>2, <1>6 DEF Plus
  <2>2. v[1] = "permuted" /\ <<"plus", u, a>>[1] = "plus"
    OBVIOUS
  <2> HIDE DEF v
  <2> QED BY <2>1, <2>2
<1> QED BY <1>3, <1>4, <1>5, <1>6

LEMMA ComplianceHashesDiffer ==
  ASSUME NEW d, NEW e, NEW r, NEW q, NEW m, NEW n, NEW a \in Numbers, NEW b \in Numbers,
         ComputeComplianceHash(d, r, m, a) = ComputeComplianceHash(e, q, n, b)
  PROVE  a = b
<1> DEFINE s == <<d, r, m, Num(0)>>
           t == <<e, q, n, Num(0)>>
           u == Permute(s)
           v == Permute(t)
<1>1. Permute(<<Plus(u[1], a), Plus(u[2], DOMAIN_COMPLIANCE), u[3], u[4]>>)[1]
        = Permute(<<Plus(v[1], b), Plus(v[2], DOMAIN_COMPLIANCE), v[3], v[4]>>)[1]
  BY DEF ComputeComplianceHash, Poseidon2Hash5
<1>2. <<Plus(u[1], a), Plus(u[2], DOMAIN_COMPLIANCE), u[3], u[4]>>
        = <<Plus(v[1], b), Plus(v[2], DOMAIN_COMPLIANCE), v[3], v[4]>>
  <2> HIDE DEF u, v
  <2> QED BY <1>1, PermutedSame
<1>3. Plus(u[1], a) = Plus(v[1], b)
  <2> HIDE DEF u, v
  <2> QED BY <1>2
<1> HIDE DEF s, t
<1> QED BY <1>3, PlusSame

-----------------------------------------------------------------------------
(* The bytes of a deposit: where a segment starts, given the lengths.      *)
LEMMA Offsets ==
  ASSUME NEW bytes, NEW i \in DOMAIN bytes, DOMAIN bytes = 1 .. Len(bytes), Len(bytes) \in Nat,
         \A j \in DOMAIN bytes : bytes[j].length \in Nat
  PROVE  /\ Offset(bytes, 1) = 0
         /\ Offset(bytes, i) \in Nat
         /\ Offset(bytes, i + 1) = Offset(bytes, i) + bytes[i].length
<1> DEFINE s == [j \in DOMAIN bytes |-> bytes[j].length]
<1>1. i \in 1 .. Len(bytes) /\ i \in Nat /\ i - 1 \in Nat /\ i - 1 <= i /\ i = (i + 1) - 1
  OBVIOUS
<1>2. \A j \in 1 .. i : s[j] = bytes[j].length /\ s[j] \in Nat
  BY <1>1
<1> HIDE DEF s
<1>3. Offset(bytes, 1) = PartialSums(s, 0)[0] /\ Offset(bytes, i) = PartialSums(s, i - 1)[i - 1]
      /\ Offset(bytes, i + 1) = PartialSums(s, i)[i]
  BY <1>1 DEF Offset, s
<1>4. PartialSums(s, 0)[0] = 0
  BY PartialSumsDef
<1>5. PartialSums(s, i)[i] = PartialSums(s, i)[i - 1] + s[i]
  BY <1>1, PartialSumsDef
<1>6. PartialSums(s, i - 1)[i - 1] = PartialSums(s, i)[i - 1]
  <2> DEFINE m == i - 1
  <2>1. m \in Nat /\ m <= i /\ m \in 0 .. m
    BY <1>1
  <2> HIDE DEF m
  <2>2. \A j \in 0 .. m : PartialSums(s, m)[j] = PartialSums(s, i)[j]
    BY <1>1, <2>1, PartialSumsAgree
  <2> QED BY <2>1, <2>2 DEF m
<1>7. PartialSums(s, i)[i - 1] \in Nat
  BY <1>1, <1>2, PartialSumsType
<1> QED BY <1>1, <1>2, <1>3, <1>4, <1>5, <1>6, <1>7

(* A slice along the bounds of a segment gives what was put there.         *)
LEMMA SliceOfSegment ==
  ASSUME NEW bytes, NEW i \in DOMAIN bytes, NEW from, NEW to,
         \A j \in DOMAIN bytes : Offset(bytes, j) = from /\ Offset(bytes, j + 1) = to <=> j = i
  PROVE  Slice(bytes, from, to) = bytes[i].value
<1>1. {j \in DOMAIN bytes : Offset(bytes, j) = from /\ Offset(bytes, j + 1) = to} = {i}
  OBVIOUS
<1>2. {i} # {} /\ (CHOOSE j \in {i} : TRUE) = i
  OBVIOUS
<1> QED BY <1>1, <1>2 DEF Slice

(* The lengths of the segments of a note and of the operator's note after  *)
(* it, and where they start.                                               *)
Lengths == <<33, 128, 32, 1, 33, 32, 32>>
Starts == <<0, 33, 161, 193, 194, 227, 259, 291>>

NoteBytes(bytes) ==
  /\ Len(bytes) \in {4, 7} /\ DOMAIN bytes = 1 .. Len(bytes)
  /\ \A j \in DOMAIN bytes : bytes[j].length = Lengths[j]

LEMMA OffsetsOfNote ==
  ASSUME NEW bytes, NoteBytes(bytes)
  PROVE  \A j \in 1 .. (Len(bytes) + 1) : Offset(bytes, j) = Starts[j]
<1> USE DEF NoteBytes
<1>1. Len(bytes) \in Nat /\ \A j \in DOMAIN bytes : bytes[j].length \in Nat
  BY DEF Lengths
<1>2. Offset(bytes, 1) = 0 /\ \A j \in DOMAIN bytes : Offset(bytes, j + 1) = Offset(bytes, j) + bytes[j].length
  <2>1. \A j \in DOMAIN bytes : Offset(bytes, 1) = 0 /\ Offset(bytes, j + 1) = Offset(bytes, j) + bytes[j].length
    BY <1>1, Offsets
  <2> QED BY <2>1
<1> DEFINE o == [j \in 1 .. 8 |-> Offset(bytes, j)]
<1>3. o[1] = 0 /\ \A j \in DOMAIN bytes : o[j + 1] = o[j] + bytes[j].length
  BY <1>2
<1> HIDE DEF o
<1>4. o[2] = 33 /\ o[3] = 161 /\ o[4] = 193 /\ o[5] = 194
  <2>1. bytes[1].length = 33 /\ bytes[2].length = 128 /\ bytes[3].length = 32 /\ bytes[4].length = 1
    BY DEF Lengths
  <2>2. o[1 + 1] = o[1] + bytes[1].length /\ o[2 + 1] = o[2] + bytes[2].length
        /\ o[3 + 1] = o[3] + bytes[3].length /\ o[4 + 1] = o[4] + bytes[4].length
    BY <1>3
  <2> QED BY <1>3, <2>1, <2>2
<1>5. CASE Len(bytes) = 4
  <2>1. \A j \in 1 .. 5 : o[j] = Starts[j]
    BY <1>3, <1>4 DEF Starts
  <2> QED BY <1>5, <2>1 DEF o
<1>6. CASE Len(bytes) = 7
  <2>1. bytes[5].length = 33 /\ bytes[6].length = 32 /\ bytes[7].length = 32
    BY <1>6 DEF Lengths
  <2>2. o[5 + 1] = o[5] + bytes[5].length /\ o[6 + 1] = o[6] + bytes[6].length
        /\ o[7 + 1] = o[7] + bytes[7].length
    BY <1>3, <1>6
  <2>3. o[6] = 227 /\ o[7] = 259 /\ o[8] = 291
    BY <1>4, <2>1, <2>2
  <2>4. \A j \in 1 .. 8 : o[j] = Starts[j]
    BY <1>3, <1>4, <2>3 DEF Starts
  <2> QED BY <1>6, <2>4 DEF o
<1> QED BY <1>5, <1>6

LEMMA SlicesOfNote ==
  ASSUME NEW bytes, NoteBytes(bytes), NEW i \in DOMAIN bytes
  PROVE  Slice(bytes, Starts[i], Starts[i + 1]) = bytes[i].value
<1>1. \A j \in DOMAIN bytes : Offset(bytes, j) = Starts[j] /\ Offset(bytes, j + 1) = Starts[j + 1]
  <2>1. \A j \in 1 .. (Len(bytes) + 1) : Offset(bytes, j) = Starts[j]
    BY OffsetsOfNote
  <2>2. Len(bytes) \in Nat /\ \A j \in DOMAIN bytes : j \in 1 .. (Len(bytes) + 1) /\ j + 1 \in 1 .. (Len(bytes) + 1)
    BY DEF NoteBytes
  <2> QED BY <2>1, <2>2
<1>2. \A j, k \in DOMAIN bytes : Starts[j] = Starts[k] => j = k
  <2>1. \A j \in DOMAIN bytes : j = 1 \/ j = 2 \/ j = 3 \/ j = 4 \/ j = 5 \/ j = 6 \/ j = 7
    BY DEF NoteBytes
  <2>2. /\ Starts[1] = 0 /\ Starts[2] = 33 /\ Starts[3] = 161 /\ Starts[4] = 193
        /\ Starts[5] = 194 /\ Starts[6] = 227 /\ Starts[7] = 259
    BY DEF Starts
  <2>3. ASSUME NEW j \in DOMAIN bytes
        PROVE  \/ (j = 1 /\ Starts[j] = 0) \/ (j = 2 /\ Starts[j] = 33)
               \/ (j = 3 /\ Starts[j] = 161) \/ (j = 4 /\ Starts[j] = 193)
               \/ (j = 5 /\ Starts[j] = 194) \/ (j = 6 /\ Starts[j] = 227)
               \/ (j = 7 /\ Starts[j] = 259)
    BY <2>1, <2>2
  <2> QED BY <2>3
<1>3. \A j \in DOMAIN bytes : Offset(bytes, j) = Starts[i] /\ Offset(bytes, j + 1) = Starts[i + 1] <=> j = i
  BY <1>1, <1>2
<1> QED BY <1>3, SliceOfSegment

(* The sequencer's copy cuts bytes like the SDK's.                         *)
LEMMA SameSlices ==
  /\ \A b, f, t : Operator!Slice(b, f, t) = Slice(b, f, t)
  /\ \A b : Operator!Length(b) = Length(b)
<1>1. \A s, n : Operator!PartialSums(s, n) = PartialSums(s, n)
  BY DEF Operator!PartialSums, PartialSums
<1>2. \A b, i : Operator!Offset(b, i) = Offset(b, i)
  BY <1>1 DEF Operator!Offset, Offset
<1>3. \A b : Operator!Length(b) = Length(b)
  BY <1>2 DEF Operator!Length, Length
<1>4. ASSUME NEW b, NEW f, NEW t PROVE Operator!Slice(b, f, t) = Slice(b, f, t)
  <2> DEFINE one == {i \in DOMAIN b : Operator!Offset(b, i) = f /\ Operator!Offset(b, i + 1) = t}
             other == {i \in DOMAIN b : Offset(b, i) = f /\ Offset(b, i + 1) = t}
  <2>1. one = other
    BY <1>2
  <2>2. Operator!Slice(b, f, t) = IF one = {} THEN <<"bytes", f, t>> ELSE b[CHOOSE i \in one : TRUE].value
    BY DEF Operator!Slice
  <2>3. Slice(b, f, t) = IF other = {} THEN <<"bytes", f, t>> ELSE b[CHOOSE i \in other : TRUE].value
    BY DEF Slice
  <2> HIDE DEF one, other
  <2> QED BY <2>1, <2>2, <2>3
<1> QED BY <1>3, <1>4

(* What is packed is parsed: the recipient's part whether or not there is  *)
(* one for the operator, which is there only if it was put there.          *)
ParsedAs(bytes, enc, tag, op, rest) ==
  /\ ParseEncryptedNote(bytes) =
       [ephemeralPubKey |-> enc.ephemeralPubKey, ciphertext |-> enc.ciphertext,
        mac |-> enc.mac, viewTag |-> tag]
  /\ rest = PackOperatorNote(op) =>
       /\ Length(bytes) = 291
       /\ Operator!ParseOperatorNote(bytes) =
            [ephemeralPubKey |-> op.ephemeralPubKey, ciphertext |-> op.ciphertext, mac |-> op.mac]
  /\ rest = <<>> => Length(bytes) = 194

LEMMA PackedIsParsed ==
  ASSUME NEW enc, NEW tag, NEW op, NEW rest \in {<<>>, PackOperatorNote(op)},
         NEW bytes, bytes = PackNote(enc, tag) \o rest
  PROVE  ParsedAs(bytes, enc, tag, op, rest)
<1> DEFINE four == <<Segment(enc.ephemeralPubKey, 33), Segment(enc.ciphertext, 128),
                     Segment(enc.mac, 32), Segment(tag, 1)>>
           three == <<Segment(op.ephemeralPubKey, 33), Segment(op.ciphertext, 32), Segment(op.mac, 32)>>
<1>1. bytes = four \o rest /\ (rest = <<>> \/ rest = three) /\ three = PackOperatorNote(op)
  BY DEF PackNote, PackOperatorNote
<1>2. /\ Len(bytes) = 4 + Len(rest) /\ DOMAIN bytes = 1 .. (4 + Len(rest))
      /\ Len(rest) = 0 \/ Len(rest) = 3
      /\ rest = <<>> => Len(rest) = 0
      /\ rest = three => Len(rest) = 3
      /\ \A j \in 1 .. 4 : bytes[j] = four[j]
      /\ \A j \in 1 .. Len(rest) : bytes[j + 4] = three[j]
  <2> DEFINE S == {four[1], four[2], four[3], four[4], three[1], three[2], three[3]}
  <2>1. four \in Seq(S) /\ Len(four) = 4
    OBVIOUS
  <2>2. three \in Seq(S) /\ Len(three) = 3
    OBVIOUS
  <2> HIDE DEF four, three, S
  <2>3. rest \in Seq(S) /\ ((rest = <<>> /\ Len(rest) = 0) \/ (rest = three /\ Len(rest) = 3))
    <3>1. CASE rest = <<>>
      BY <3>1
    <3>2. CASE rest = three
      BY <2>2, <3>2
    <3> QED BY <1>1, <3>1, <3>2
  <2>4. /\ four \o rest \in Seq(S) /\ Len(four \o rest) = Len(four) + Len(rest)
        /\ \A i \in 1 .. Len(four) + Len(rest) :
             (four \o rest)[i] = IF i <= Len(four) THEN four[i] ELSE rest[i - Len(four)]
    BY <2>1, <2>3, ConcatProperties
  <2> DEFINE q == four \o rest
  <2> HIDE DEF q
  <2>5. q \in Seq(S) /\ Len(q) = 4 + Len(rest) /\ bytes = q
        /\ \A i \in 1 .. (4 + Len(rest)) : q[i] = IF i <= 4 THEN four[i] ELSE rest[i - 4]
    BY <1>1, <2>1, <2>4 DEF q
  <2>6. \A i \in 1 .. 4 : q[i] = four[i]
    BY <2>3, <2>5
  <2>7. \A i \in 1 .. Len(rest) : q[i + 4] = three[i]
    <3>1. ASSUME NEW i \in 1 .. Len(rest)
          PROVE  i + 4 \in 1 .. (4 + Len(rest)) /\ ~ (i + 4 <= 4) /\ (i + 4) - 4 = i /\ rest = three
      BY <2>3
    <3> QED BY <2>5, <3>1
  <2>8. DOMAIN q = 1 .. Len(q)
    BY <2>5
  <2>9. rest = three => Len(rest) = 3
    BY <2>2
  <2> QED BY <2>3, <2>5, <2>6, <2>7, <2>8, <2>9
<1>3. /\ four[1].length = 33 /\ four[2].length = 128 /\ four[3].length = 32 /\ four[4].length = 1
      /\ four[1].value = enc.ephemeralPubKey /\ four[2].value = enc.ciphertext
      /\ four[3].value = enc.mac /\ four[4].value = tag
      /\ three[1].length = 33 /\ three[2].length = 32 /\ three[3].length = 32
      /\ three[1].value = op.ephemeralPubKey /\ three[2].value = op.ciphertext
      /\ three[3].value = op.mac
  BY DEF Segment
<1> HIDE DEF four, three
<1>a. /\ Len(rest) = 0 \/ Len(rest) = 3
      /\ rest = <<>> => Len(rest) = 0
      /\ rest = three => Len(rest) = 3
  BY <1>2
<1>4. NoteBytes(bytes)
  <2>1. /\ Lengths[1] = 33 /\ Lengths[2] = 128 /\ Lengths[3] = 32 /\ Lengths[4] = 1
        /\ Lengths[5] = 33 /\ Lengths[6] = 32 /\ Lengths[7] = 32
    BY DEF Lengths
  <2>2. \A j \in 1 .. 4 : j = 1 \/ j = 2 \/ j = 3 \/ j = 4
    OBVIOUS
  <2>3. \A j \in 1 .. 4 : four[j].length = Lengths[j]
    BY <1>3, <2>1, <2>2
  <2>4. \A j \in 1 .. Len(rest) : (j = 1 \/ j = 2 \/ j = 3) /\ j + 4 \in Int
    BY <1>a
  <2>5. 1 + 4 = 5 /\ 2 + 4 = 6 /\ 3 + 4 = 7
    OBVIOUS
  <2>6. \A j \in 1 .. Len(rest) : three[j].length = Lengths[j + 4]
    BY <1>3, <2>1, <2>4, <2>5
  <2>7. ASSUME NEW j \in DOMAIN bytes PROVE bytes[j].length = Lengths[j]
    <3>1. CASE j \in 1 .. 4
      BY <1>2, <2>3, <3>1
    <3>2. CASE j \notin 1 .. 4
      <4>1. j - 4 \in 1 .. Len(rest) /\ (j - 4) + 4 = j
        BY <1>2, <3>2
      <4> QED BY <1>2, <2>6, <4>1
    <3> QED BY <3>1, <3>2
  <2>8. Len(bytes) \in {4, 7} /\ DOMAIN bytes = 1 .. Len(bytes)
    BY <1>2
  <2> QED BY <2>7, <2>8 DEF NoteBytes
<1>5. \A i \in DOMAIN bytes : Slice(bytes, Starts[i], Starts[i + 1]) = bytes[i].value
  BY <1>4, SlicesOfNote
<1>6. /\ Starts[1] = 0 /\ Starts[2] = 33 /\ Starts[3] = 161 /\ Starts[4] = 193
      /\ Starts[5] = 194 /\ Starts[6] = 227 /\ Starts[7] = 259 /\ Starts[8] = 291
  BY DEF Starts
<1>7. ParseEncryptedNote(bytes) =
        [ephemeralPubKey |-> enc.ephemeralPubKey, ciphertext |-> enc.ciphertext,
         mac |-> enc.mac, viewTag |-> tag]
  <2>1. 1 \in 1 .. 4 /\ 2 \in 1 .. 4 /\ 3 \in 1 .. 4 /\ 4 \in 1 .. 4
        /\ 1 \in DOMAIN bytes /\ 2 \in DOMAIN bytes /\ 3 \in DOMAIN bytes /\ 4 \in DOMAIN bytes
    BY <1>2
  <2>2. 1 + 1 = 2 /\ 2 + 1 = 3 /\ 3 + 1 = 4 /\ 4 + 1 = 5
    OBVIOUS
  <2>3. /\ Slice(bytes, 0, 33) = four[1].value /\ Slice(bytes, 33, 161) = four[2].value
        /\ Slice(bytes, 161, 193) = four[3].value /\ Slice(bytes, 193, 194) = four[4].value
    <3>1. /\ Slice(bytes, Starts[1], Starts[1 + 1]) = bytes[1].value
          /\ Slice(bytes, Starts[2], Starts[2 + 1]) = bytes[2].value
          /\ Slice(bytes, Starts[3], Starts[3 + 1]) = bytes[3].value
          /\ Slice(bytes, Starts[4], Starts[4 + 1]) = bytes[4].value
      BY <1>5, <2>1, Zenon
    <3>2. bytes[1] = four[1] /\ bytes[2] = four[2] /\ bytes[3] = four[3] /\ bytes[4] = four[4]
      BY <1>2, <2>1, Zenon
    <3>3. /\ Slice(bytes, Starts[1], Starts[2]) = bytes[1].value
          /\ Slice(bytes, Starts[2], Starts[3]) = bytes[2].value
          /\ Slice(bytes, Starts[3], Starts[4]) = bytes[3].value
          /\ Slice(bytes, Starts[4], Starts[5]) = bytes[4].value
      BY <3>1, <2>2
    <3> QED BY <1>6, <3>2, <3>3, Zenon
  <2> QED BY <1>3, <2>3 DEF ParseEncryptedNote
<1>8. ASSUME rest = PackOperatorNote(op)
      PROVE  Operator!ParseOperatorNote(bytes) =
               [ephemeralPubKey |-> op.ephemeralPubKey, ciphertext |-> op.ciphertext, mac |-> op.mac]
  <2>1. /\ 1 \in 1 .. Len(rest) /\ 2 \in 1 .. Len(rest) /\ 3 \in 1 .. Len(rest)
        /\ 5 \in DOMAIN bytes /\ 6 \in DOMAIN bytes /\ 7 \in DOMAIN bytes
    <3>1. Len(rest) = 3
      BY <1>1, <1>a, <1>8
    <3>2. DOMAIN bytes = 1 .. 7
      BY <1>2, <3>1
    <3> QED BY <3>1, <3>2
  <2>2. 1 + 4 = 5 /\ 2 + 4 = 6 /\ 3 + 4 = 7 /\ 5 + 1 = 6 /\ 6 + 1 = 7 /\ 7 + 1 = 8
    OBVIOUS
  <2>3. bytes[5] = three[1] /\ bytes[6] = three[2] /\ bytes[7] = three[3]
    <3>1. bytes[1 + 4] = three[1] /\ bytes[2 + 4] = three[2] /\ bytes[3 + 4] = three[3]
      BY <1>2, <2>1, Zenon
    <3> QED BY <3>1, <2>2
  <2>4. /\ Slice(bytes, 194, 227) = three[1].value /\ Slice(bytes, 227, 259) = three[2].value
        /\ Slice(bytes, 259, 291) = three[3].value
    <3>1. /\ Slice(bytes, Starts[5], Starts[5 + 1]) = bytes[5].value
          /\ Slice(bytes, Starts[6], Starts[6 + 1]) = bytes[6].value
          /\ Slice(bytes, Starts[7], Starts[7 + 1]) = bytes[7].value
      BY <1>5, <2>1, Zenon
    <3>2. /\ Slice(bytes, Starts[5], Starts[6]) = bytes[5].value
          /\ Slice(bytes, Starts[6], Starts[7]) = bytes[6].value
          /\ Slice(bytes, Starts[7], Starts[8]) = bytes[7].value
      BY <3>1, <2>2
    <3> QED BY <1>6, <2>3, <3>2, Zenon
  <2> QED BY <1>3, <2>4, SameSlices DEF Operator!ParseOperatorNote
<1>9. /\ rest = PackOperatorNote(op) => Length(bytes) = 291
      /\ rest = <<>> => Length(bytes) = 194
  <2>1. \A j \in 1 .. (Len(bytes) + 1) : Offset(bytes, j) = Starts[j]
    BY <1>4, OffsetsOfNote
  <2>2. Length(bytes) = Starts[Len(bytes) + 1]
    BY <1>2, <2>1 DEF Length
  <2>3. Len(bytes) = 4 + Len(rest)
    BY <1>2
  <2>4. (rest = three => Len(bytes) + 1 = 8) /\ (rest = <<>> => Len(bytes) + 1 = 5)
    <3>1. ASSUME rest = three PROVE Len(bytes) + 1 = 8
      <4>1. Len(rest) = 3
        BY <1>a, <3>1
      <4> QED BY <2>3, <4>1
    <3>2. ASSUME rest = <<>> PROVE Len(bytes) + 1 = 5
      <4>1. Len(rest) = 0
        BY <1>a, <3>2
      <4> QED BY <2>3, <4>1
    <3> QED BY <3>1, <3>2
  <2> QED BY <1>1, <1>6, <2>2, <2>4
<1> QED BY <1>7, <1>8, <1>9 DEF ParsedAs

-----------------------------------------------------------------------------
(* The note of the deposit after n others, its leaf, and what a scan with  *)
(* the recipient's keys gives for it.                                      *)
NoteAt(n) ==
  [secret |-> Num(n), amount |-> Num(Payments[n + 1].amount), blockNumber |-> Num(n + 1),
   depositor |-> FieldOf[Payments[n + 1].from]]

LeafAt(n) ==
  LET p == Payments[n + 1]
      note == NoteAt(n)
      recipient == Keys(p.to)
      ephemeral == 100 + 2 * n
      tag == ViewTag(SharedSecret(ephemeral, recipient.encPubKey))
  IN
  [commitment |-> ComputeCommitment(note, recipient.npk),
   encryptedNote |-> PackNote(EncryptNote(ephemeral, recipient.encPubKey, note), tag)
     \o IF p.forOperator
        THEN PackOperatorNote(EncryptOperatorNote(ephemeral + 1, PubKey(OperatorKey), note.secret))
        ELSE <<>>,
   from |-> p.from, to |-> p.to, forOperator |-> p.forOperator]

Found(n) == [leafIndex |-> n, note |-> NoteAt(n), commitment |-> LeafAt(n).commitment]

LEMMA PaymentAt ==
  ASSUME NEW n \in 0 .. (Len(Payments) - 1)
  PROVE  /\ Payments[n + 1].from \in Address
         /\ Payments[n + 1].amount \in Nat \ {0}
         /\ Payments[n + 1].forOperator \in BOOLEAN
         /\ Num(n) \in Numbers
         /\ NoteAt(n) \in NoteData
<1> DEFINE Payment == [from : Address, to : Signatures, amount : Nat \ {0}, forOperator : BOOLEAN]
<1>1. Payments \in Seq(Payment) /\ \A a \in Address : FieldOf[a] = Num(FieldOf[a][1]) /\ FieldOf[a][1] \in Nat
  BY NotePathAssumption
<1>2. Payments[n + 1] \in Payment
  <2> HIDE DEF Payment
  <2> QED BY <1>1
<1>3. Payments[n + 1].from \in Address /\ Payments[n + 1].amount \in Nat /\ Payments[n + 1].amount # 0
      /\ Payments[n + 1].forOperator \in BOOLEAN
  BY <1>2
<1>4. /\ Num(n) \in Numbers /\ Num(n + 1) \in Numbers /\ Num(Payments[n + 1].amount) \in Numbers
      /\ FieldOf[Payments[n + 1].from] \in Numbers
  <2>1. \A m \in Nat : Num(m) \in Numbers
    BY DEF Numbers
  <2>2. \A a \in Address : FieldOf[a] \in Numbers
    BY <1>1, <2>1
  <2> QED BY <1>3, <2>1, <2>2
<1> QED BY <1>3, <1>4 DEF NoteAt, NoteData

(* What a deposit carries, opened and cut up.                              *)
LEMMA DepositParsed ==
  ASSUME NEW n \in 0 .. (Len(Payments) - 1)
  PROVE  LET p == Payments[n + 1]
             e == 100 + 2 * n
             enc == EncryptNote(e, PubKey(p.to), NoteAt(n))
             op == EncryptOperatorNote(e + 1, PubKey(OperatorKey), Num(n))
             bytes == LeafAt(n).encryptedNote
         IN  /\ ParseEncryptedNote(bytes) =
                  [ephemeralPubKey |-> enc.ephemeralPubKey, ciphertext |-> enc.ciphertext,
                   mac |-> enc.mac, viewTag |-> ViewTag(SharedSecret(e, PubKey(p.to)))]
             /\ p.forOperator =>
                  /\ Length(bytes) = 291
                  /\ Operator!ParseOperatorNote(bytes) =
                       [ephemeralPubKey |-> op.ephemeralPubKey, ciphertext |-> op.ciphertext, mac |-> op.mac]
             /\ ~ p.forOperator => Length(bytes) = 194
<1> DEFINE p == Payments[n + 1]
           e == 100 + 2 * n
           enc == EncryptNote(e, PubKey(p.to), NoteAt(n))
           op == EncryptOperatorNote(e + 1, PubKey(OperatorKey), Num(n))
           tag == ViewTag(SharedSecret(e, PubKey(p.to)))
           rest == IF p.forOperator THEN PackOperatorNote(op) ELSE <<>>
           bytes == LeafAt(n).encryptedNote
<1>1. bytes = PackNote(enc, tag) \o rest
  <2>1. Keys(p.to).encPubKey = PubKey(p.to) /\ NoteAt(n).secret = Num(n)
    BY DEF Keys, NoteAt
  <2> QED BY <2>1 DEF LeafAt
<1>2. p.forOperator \in BOOLEAN
  BY PaymentAt
<1> HIDE DEF enc, op, tag, bytes, e
<1>3. rest \in {<<>>, PackOperatorNote(op)}
  OBVIOUS
<1>4. (p.forOperator => rest = PackOperatorNote(op)) /\ (~ p.forOperator => rest = <<>>)
  OBVIOUS
<1> HIDE DEF rest
<1>5. ParsedAs(bytes, enc, tag, op, rest)
  BY <1>1, <1>3, PackedIsParsed
<1> QED BY <1>4, <1>5 DEF ParsedAs, enc, op, tag, bytes, e

LEMMA EncryptedBy ==
  ASSUME NEW e, NEW k, NEW note
  PROVE  EncryptNote(e, PubKey(k), note).ephemeralPubKey = PubKey(e)
BY DEF EncryptNote, Encrypt

(* The recipient's keys open the note of a deposit, and no others do,      *)
(* whatever the view tags.                                                 *)
LEMMA Opened ==
  ASSUME NEW n \in 0 .. (Len(Payments) - 1), NEW s
  PROVE  TryDecryptNote(n, LeafAt(n).encryptedNote, Keys(s)) =
           IF Payments[n + 1].to = s THEN {Found(n)} ELSE {}
<1> DEFINE to == Payments[n + 1].to
           e == 100 + 2 * n
           enc == EncryptNote(e, PubKey(to), NoteAt(n))
           parsed == ParseEncryptedNote(LeafAt(n).encryptedNote)
<1>1. /\ parsed.ephemeralPubKey = enc.ephemeralPubKey
      /\ parsed.ciphertext = enc.ciphertext
      /\ parsed.mac = enc.mac
      /\ parsed.viewTag = ViewTag(SharedSecret(e, PubKey(to)))
  <2>1. parsed = [ephemeralPubKey |-> enc.ephemeralPubKey, ciphertext |-> enc.ciphertext,
                  mac |-> enc.mac, viewTag |-> ViewTag(SharedSecret(e, PubKey(to)))]
    BY DepositParsed, Zenon
  <2> HIDE DEF parsed, enc, e
  <2> QED BY <2>1
<1>2. enc.ephemeralPubKey = PubKey(e)
  BY EncryptedBy
<1>3. NoteAt(n) \in NoteData
  BY PaymentAt
<1>4. /\ \E blocks \in DecryptNote(to, enc) : DecodeNoteData(blocks) = NoteAt(n)
      /\ s # to => DecryptNote(s, enc) = {}
  <2>1. enc \in {EncryptNote(e, PubKey(to), NoteAt(n)), Operator!EncryptNote(e, PubKey(to), NoteAt(n))}
    OBVIOUS
  <2> HIDE DEF enc, e, to
  <2> QED BY <1>3, <2>1, RecipientReadsNotes
<1>5. TryDecryptNote(n, LeafAt(n).encryptedNote, Keys(s)) =
        IF ViewTag(SharedSecret(s, parsed.ephemeralPubKey)) # parsed.viewTag
        THEN {}
        ELSE {[leafIndex |-> n, note |-> DecodeNoteData(blocks),
               commitment |-> ComputeCommitment(DecodeNoteData(blocks), Keys(s).npk)] :
                 blocks \in DecryptNote(s, parsed)}
  <2>1. Keys(s).encPrivKey = s
    BY DEF Keys
  <2> QED BY <2>1 DEF TryDecryptNote
<1>6. LeafAt(n).commitment = ComputeCommitment(NoteAt(n), Keys(to).npk)
  BY DEF LeafAt
<1> HIDE DEF parsed, enc, to, e
<1>7. DecryptNote(s, parsed) = DecryptNote(s, enc)
  BY <1>1 DEF DecryptNote, MacValid
<1>8. CASE s # to
  BY <1>4, <1>5, <1>7, <1>8 DEF to
<1>9. CASE s = to
  <2>1. ViewTag(SharedSecret(s, parsed.ephemeralPubKey)) = parsed.viewTag
    BY <1>1, <1>2, <1>9, KeyExchange
  <2>2. PICK b \in DecryptNote(s, enc) : DecodeNoteData(b) = NoteAt(n)
    BY <1>4, <1>9
  <2>3. \A c \in DecryptNote(s, enc) : c = b
    BY <2>2 DEF DecryptNote
  <2>4. DecryptNote(s, parsed) = {b}
    BY <1>7, <2>2, <2>3
  <2>5. TryDecryptNote(n, LeafAt(n).encryptedNote, Keys(s)) =
          {[leafIndex |-> n, note |-> DecodeNoteData(b),
            commitment |-> ComputeCommitment(DecodeNoteData(b), Keys(s).npk)]}
    BY <1>5, <2>1, <2>4
  <2> QED BY <1>6, <1>9, <2>2, <2>5 DEF Found, to
<1> QED BY <1>8, <1>9

(* The operator's key opens its own part of the deposits that have one,    *)
(* and the note of none but a payment to that key.                         *)
LEMMA OpenedByOperator ==
  ASSUME NEW n \in 0 .. (Len(Payments) - 1)
  PROVE  /\ Payments[n + 1].forOperator =>
              Operator!TryDecryptOperatorNote(LeafAt(n).encryptedNote, OperatorKey) = {Num(n)}
         /\ ~ Payments[n + 1].forOperator =>
              Operator!TryDecryptOperatorNote(LeafAt(n).encryptedNote, OperatorKey) = {}
         /\ Payments[n + 1].to # OperatorKey =>
              Operator!DecryptCompliance(OperatorKey, ParseEncryptedNote(LeafAt(n).encryptedNote)) = {}
<1> DEFINE p == Payments[n + 1]
           e == 100 + 2 * n
           enc == EncryptNote(e, PubKey(p.to), NoteAt(n))
           op == EncryptOperatorNote(e + 1, PubKey(OperatorKey), Num(n))
           bytes == LeafAt(n).encryptedNote
           parsed == Operator!ParseOperatorNote(bytes)
           note == ParseEncryptedNote(bytes)
<1>1. /\ note.ephemeralPubKey = enc.ephemeralPubKey /\ note.ciphertext = enc.ciphertext
      /\ note.mac = enc.mac
      /\ p.forOperator => /\ Length(bytes) = 291
                          /\ parsed.ephemeralPubKey = op.ephemeralPubKey
                          /\ parsed.ciphertext = op.ciphertext
                          /\ parsed.mac = op.mac
      /\ ~ p.forOperator => Length(bytes) = 194
  <2>1. /\ note = [ephemeralPubKey |-> enc.ephemeralPubKey, ciphertext |-> enc.ciphertext,
                   mac |-> enc.mac, viewTag |-> ViewTag(SharedSecret(e, PubKey(p.to)))]
        /\ p.forOperator => /\ Length(bytes) = 291
                            /\ parsed = [ephemeralPubKey |-> op.ephemeralPubKey,
                                          ciphertext |-> op.ciphertext, mac |-> op.mac]
        /\ ~ p.forOperator => Length(bytes) = 194
    BY DepositParsed
  <2> HIDE DEF note, parsed, enc, op, e, bytes
  <2> QED BY <2>1
<1>2. Num(n) \in Numbers
  BY PaymentAt
<1>3. Operator!DecryptOperatorNote(OperatorKey, op) = {Num(n)}
  BY <1>2, OperatorReadsSecrets
<1>4. enc.ephemeralPubKey = PubKey(e) /\ enc.mac = Hmac(Keccak(SharedSecret(e, PubKey(p.to)), 4), enc.ciphertext)
  <2> DEFINE data == EncodeNoteData(NoteAt(n))
  <2>1. Len(data) = 4
    BY DEF EncodeNoteData
  <2> HIDE DEF data
  <2>2. EncryptNote(e, PubKey(p.to), NoteAt(n)) = Encrypt(e, PubKey(p.to), data)
    BY DEF EncryptNote, data
  <2> HIDE DEF e, p
  <2> DEFINE shared == SharedSecret(e, PubKey(p.to))
             cipher == [i \in DOMAIN data |-> Xor(Keccak(shared, i - 1), data[i])]
  <2>3. enc = [ephemeralPubKey |-> PubKey(e), ciphertext |-> cipher,
               mac |-> Hmac(Keccak(shared, 4), cipher)]
    BY <2>1, <2>2 DEF Encrypt, e, p
  <2> HIDE DEF shared, cipher, enc
  <2> QED BY <2>3 DEF shared
<1> HIDE DEF enc, op, bytes, parsed, note, e
<1>5. ASSUME p.forOperator
      PROVE  Operator!TryDecryptOperatorNote(bytes, OperatorKey) = {Num(n)}
  <2>1. Operator!DecryptOperatorNote(OperatorKey, parsed) = Operator!DecryptOperatorNote(OperatorKey, op)
    <3>1. /\ parsed.ephemeralPubKey = op.ephemeralPubKey
          /\ parsed.ciphertext = op.ciphertext
          /\ parsed.mac = op.mac
      BY <1>1, <1>5
    <3> QED BY <3>1 DEF Operator!DecryptOperatorNote
  <2>2. ~ (Operator!Length(bytes) < 291)
    BY <1>1, <1>5, SameSlices
  <2> QED BY <1>3, <2>1, <2>2 DEF Operator!TryDecryptOperatorNote, parsed
<1>6. ASSUME ~ p.forOperator
      PROVE  Operator!TryDecryptOperatorNote(bytes, OperatorKey) = {}
  <2>1. Operator!Length(bytes) = 194
    BY <1>1, <1>6, SameSlices
  <2>2. Operator!Length(bytes) < 291
    BY <2>1
  <2> QED BY <2>2 DEF Operator!TryDecryptOperatorNote
<1>7. ASSUME p.to # OperatorKey
      PROVE  Operator!DecryptCompliance(OperatorKey, note) = {}
  <2> DEFINE shared == SharedSecret(OperatorKey, PubKey(e))
             material == [i \in 1 .. 5 |-> Keccak(shared, i - 1)]
  <2>1. Operator!DeriveKeyMaterial(Operator!SharedSecret(OperatorKey, note.ephemeralPubKey), 160) = material
    BY <1>1, <1>4, SamePrimitives DEF Operator!DeriveKeyMaterial
  <2>2. material[5] = Keccak(shared, 4)
    OBVIOUS
  <2>3. shared # SharedSecret(e, PubKey(p.to))
    BY <1>7, KeyExchange
  <2>4. note.mac # Hmac(Keccak(shared, 4), note.ciphertext)
    BY <1>1, <1>4, <2>3 DEF Hmac, Keccak
  <2> HIDE DEF shared, material
  <2> QED BY <2>1, <2>2, <2>4, SamePrimitives DEF Operator!DecryptCompliance, Operator!DecryptNote
<1> QED BY <1>5, <1>6, <1>7 DEF bytes, note

-----------------------------------------------------------------------------
(* What holds of the registrations however many keys they share and however *)
(* full the tree is.                                                       *)

(* The last entry that passes a test is one that does.                     *)
Indexed(index, lvs) ==
  /\ lvs \in Seq(Npk)
  /\ \A npk \in DOMAIN index : index[npk] \in 1 .. Len(lvs) /\ lvs[index[npk]] = npk

Registrations ==
  /\ usersByAddress \in Seq(User) /\ disk \in Seq(User)
  /\ Indexed(npkToLeafIndex, tree)
  /\ restarts \in Nat /\ failures \in Nat
  /\ ServedRootSubmitted

LEMMA InitRegistrations == Init => Registrations
BY DEF Init, Registrations, Indexed, NoEntries, ServedRootSubmitted

LEMMA RegisterKeepsThem ==
  ASSUME Registrations, NEW address \in Address, NEW npk \in KeysOf[address], Register(address, npk)
  PROVE  Registrations'
<1> DEFINE user == [address |-> address, npk |-> npk]
<1>1. npk \in Npk /\ user \in User
  <2>1. npk \in Npk
    BY RegistrationAssumption
  <2> QED BY <2>1 DEF User
<1>2. usersByAddress' \in Seq(User)
  <2>1. usersByAddress' = PutUser(usersByAddress, user)
    BY DEF Register
  <2> HIDE DEF user
  <2>2. CASE \E i \in DOMAIN usersByAddress : usersByAddress[i].address = user.address
    <3>1. usersByAddress' = [i \in DOMAIN usersByAddress |->
            IF usersByAddress[i].address = user.address THEN user ELSE usersByAddress[i]]
      BY <2>1, <2>2 DEF PutUser
    <3> QED BY <1>1, <3>1 DEF Registrations
  <2>3. CASE ~ \E i \in DOMAIN usersByAddress : usersByAddress[i].address = user.address
    <3>1. usersByAddress' = Append(usersByAddress, user)
      BY <2>1, <2>3 DEF PutUser
    <3> QED BY <1>1, <3>1 DEF Registrations
  <2> QED BY <2>2, <2>3
<1>3. restarts' = restarts /\ failures' = failures /\ knownRoots' = knownRoots
  BY DEF Register
<1>4. CASE Len(tree) < Capacity
  <2>1. /\ tree' = Append(tree, npk) /\ disk' = usersByAddress'
        /\ npkToLeafIndex' = Put(npkToLeafIndex, npk, LeafIndex(tree))
        /\ submissions' = submissions \cup {tree'}
    BY <1>4 DEF Register, Persisted
  <2>2. IndexOf(npkToLeafIndex, tree, NoEntries)
    BY DEF Registrations, Indexed, IndexOf, NoEntries
  <2>3. IndexOf(npkToLeafIndex', tree', NoEntries)
    <3>1. DOMAIN NoEntries \subseteq DOMAIN NoEntries \cup {npk}
      OBVIOUS
    <3> QED BY <1>1, <2>1, <2>2, <3>1, PutIndex
  <2>4. ServedRootSubmitted'
    BY <2>1 DEF ServedRootSubmitted
  <2> QED BY <1>2, <1>3, <2>1, <2>3, <2>4 DEF Registrations, Indexed, IndexOf
<1>5. CASE ~ (Len(tree) < Capacity)
  <2>1. UNCHANGED <<tree, npkToLeafIndex, disk, submissions>>
    BY <1>5 DEF Register
  <2> QED BY <1>2, <1>3, <2>1 DEF Registrations, Indexed, ServedRootSubmitted
<1> QED BY <1>4, <1>5

LEMMA RestartKeepsThem ==
  ASSUME Registrations, Restart
  PROVE  Registrations'
<1>1. /\ usersByAddress' = disk /\ disk' = disk /\ restarts' = restarts + 1
      /\ failures' = failures /\ knownRoots' = knownRoots
      /\ tree' = [i \in DOMAIN disk |-> disk[i].npk]
      /\ npkToLeafIndex' = [npk \in Range(tree') |-> SelectLastInSeq(tree', LAMBDA n : n = npk)]
      /\ Rebuilt(tree') \subseteq submissions'
  BY DEF Restart
<1>2. tree' \in Seq(Npk)
  <2>1. disk \in Seq(User)
    BY DEF Registrations
  <2>2. DOMAIN disk = 1 .. Len(disk) /\ Len(disk) \in Nat /\ \A i \in 1 .. Len(disk) : disk[i].npk \in Npk
    <3>1. \A u \in User : u.npk \in Npk
      BY DEF User
    <3> QED BY <2>1, <3>1
  <2>3. tree' = [i \in 1 .. Len(disk) |-> disk[i].npk]
    BY <1>1, <2>2
  <2> QED BY <2>2, <2>3
<1>3. ASSUME NEW npk \in DOMAIN npkToLeafIndex'
      PROVE  npkToLeafIndex'[npk] \in 1 .. Len(tree') /\ tree'[npkToLeafIndex'[npk]] = npk
  <2> DEFINE t == tree'
             x == SelectLastInSeq(t, LAMBDA n : n = npk)
  <2>1. npk \in Range(t) /\ npkToLeafIndex'[npk] = x
    BY <1>1, <1>3
  <2>2. t \in Seq(Npk)
    BY <1>2
  <2>3. x \in 1 .. Len(t) /\ t[x] = npk
    <3> HIDE DEF t
    <3> QED BY <2>1, <2>2, LastIndexOf
  <2>4. \E y : npkToLeafIndex'[npk] = y /\ y \in 1 .. Len(t) /\ t[y] = npk
    <3> HIDE DEF t, x
    <3> QED BY <2>1, <2>3
  <2> QED BY <2>4
<1>4. ServedRootSubmitted'
  BY <1>1 DEF Rebuilt, ServedRootSubmitted
<1>5. usersByAddress' = disk /\ disk' = disk /\ restarts' = restarts + 1 /\ failures' = failures
  BY DEF Restart
<1>6. Indexed(npkToLeafIndex', tree')
  BY <1>2, <1>3 DEF Indexed
<1>7. usersByAddress' \in Seq(User) /\ disk' \in Seq(User) /\ restarts' \in Nat /\ failures' \in Nat
  BY <1>5 DEF Registrations
<1> QED BY <1>4, <1>6, <1>7 DEF Registrations

LEMMA RegistrationsKept ==
  ASSUME Registrations, [Next]_vars
  PROVE  Registrations'
<1>1. ASSUME NEW address \in Address, NEW npk \in KeysOf[address], Register(address, npk)
      PROVE  Registrations'
  BY <1>1, RegisterKeepsThem
<1>2. ASSUME NEW root \in submissions, Submitted(root)
      PROVE  Registrations'
  BY <1>2 DEF Submitted, Registrations, Indexed, ServedRootSubmitted
<1>3. ASSUME NEW root \in submissions, SubmissionFails(root)
      PROVE  Registrations'
  BY <1>3 DEF SubmissionFails, Registrations, Indexed, ServedRootSubmitted
<1>4. CASE Restart
  BY <1>4, RestartKeepsThem
<1>5. CASE UNCHANGED vars
  BY <1>5 DEF vars, Registrations, Indexed, ServedRootSubmitted
<1> QED BY <1>1, <1>2, <1>3, <1>4, <1>5 DEF Next

(* What is known to the contract or on its way there stays so, unless a    *)
(* submission fails or the sequencer restarts.                             *)
LEMMA RootsStay ==
  ASSUME Registrations, [Next]_vars
  PROVE  /\ restarts <= restarts' /\ failures <= failures'
         /\ failures' = 0 /\ restarts' = restarts =>
              knownRoots \cup submissions \subseteq knownRoots' \cup submissions'
<1> USE DEF Registrations
<1>1. ASSUME NEW address \in Address, NEW npk \in KeysOf[address], Register(address, npk)
      PROVE  restarts' = restarts /\ failures' = failures /\ knownRoots' = knownRoots
             /\ submissions \subseteq submissions'
  BY <1>1 DEF Register
<1>2. ASSUME NEW root \in submissions, Submitted(root)
      PROVE  restarts' = restarts /\ failures' = failures
             /\ knownRoots \cup submissions \subseteq knownRoots' \cup submissions'
  BY <1>2 DEF Submitted
<1>3. ASSUME NEW root \in submissions, SubmissionFails(root)
      PROVE  restarts' = restarts /\ failures' = failures + 1
  BY <1>3 DEF SubmissionFails
<1>4. CASE Restart
  <2>1. restarts' = restarts + 1 /\ failures' = failures
    BY <1>4 DEF Restart
  <2> QED BY <2>1
<1>5. CASE UNCHANGED vars
  BY <1>5 DEF vars
<1> QED BY <1>1, <1>2, <1>3, <1>4, <1>5 DEF Next

-----------------------------------------------------------------------------
(* The inductive invariant of the way of a note.                           *)
Active == {"register", "registering", "proofs", "submit"}

Fields == {"address", "keys", "owned", "amount", "root", "path", "registrationPath", "epoch"}

(* A withdrawal under way is of a note that a scan has found with the keys *)
(* of the account: seen is the number of notes the scanner has.            *)
Prepared(r, seen) ==
  /\ "at" \in DOMAIN r
  /\ r.at \in Active =>
       /\ Fields \subseteq DOMAIN r
       /\ r.address \in Address
       /\ \E s \in SignaturesOf[r.address], n \in 0 .. (seen - 1) :
            /\ r.keys = Keys(s) /\ Payments[n + 1].to = s
            /\ r.owned = Found(n) /\ r.amount \in 1 .. Payments[n + 1].amount

(* A withdrawal with both proofs has them for its note and its key, and    *)
(* the registration root arrives unless something failed since.            *)
Proved(r, count, again, failed, arriving) ==
  r.at = "submit" =>
    /\ r.path.root \in Nat /\ r.path.root <= count
    /\ r.path.index = r.owned.leafIndex + 1 /\ r.path.index \in 1 .. r.path.root
    /\ r.registrationPath.root \in Seq(Npk)
    /\ r.registrationPath.index \in 1 .. Len(r.registrationPath.root)
    /\ r.registrationPath.root[r.registrationPath.index] = r.keys.npk
    /\ r.epoch \in Nat /\ r.epoch <= again
    /\ failed = 0 /\ r.epoch = again => r.registrationPath.root \in arriving

(* An initiated withdrawal spends the note of its leaf.                    *)
Spends(p, seen) ==
  /\ p.leafIndex \in 0 .. (seen - 1)
  /\ p.nullifier = ComputeNullifier(Num(p.leafIndex), Num(Payments[p.leafIndex + 1].to))
  /\ p.complianceHash = ComputeComplianceHash(FieldOf[Payments[p.leafIndex + 1].from],
                          p.recipient, p.amount, Num(p.leafIndex))

Leaves == {LeafAt(n) : n \in 0 .. (Len(Payments) - 1)}

LeavesMade ==
  /\ leaves \in Seq(Leaves) /\ Len(leaves) <= Len(Payments)
  /\ \A i \in 1 .. Len(leaves) : leaves[i] = LeafAt(i - 1)

Counted == mirrored \in 0 .. Len(leaves) /\ scanned \in 0 .. Len(leaves)

PendingMade == \A p \in pending : Spends(p, scanned)

FlowsMade ==
  /\ flow = [f \in Flows |-> flow[f]]
  /\ \A f \in Flows :
       /\ Prepared(flow[f], scanned)
       /\ Proved(flow[f], Len(leaves), restarts, failures, knownRoots \cup submissions)

PathInv == Registrations /\ LeavesMade /\ Counted /\ PendingMade /\ FlowsMade

LEMMA PaymentsCount == Len(Payments) \in Nat /\ DOMAIN Payments = 1 .. Len(Payments)
<1> DEFINE Payment == [from : Address, to : Signatures, amount : Nat \ {0}, forOperator : BOOLEAN]
<1>1. Payments \in Seq(Payment)
  BY NotePathAssumption
<1> HIDE DEF Payment
<1> QED BY <1>1

-----------------------------------------------------------------------------
(* How records of withdrawals change.                                      *)
LEMMA MoreLeaves ==
  ASSUME NEW seen \in Nat, NEW more \in Nat, seen <= more
  PROVE  0 .. (seen - 1) \subseteq 0 .. (more - 1)
OBVIOUS

LEMMA PreparedGrows ==
  ASSUME NEW r, NEW seen \in Nat, NEW more \in Nat, seen <= more, Prepared(r, seen)
  PROVE  Prepared(r, more)
<1>1. 0 .. (seen - 1) \subseteq 0 .. (more - 1)
  BY MoreLeaves
<1> QED BY <1>1 DEF Prepared

LEMMA PreparedKept ==
  ASSUME NEW r, NEW q, NEW seen, Prepared(r, seen), r.at \in Active, DOMAIN r \subseteq DOMAIN q,
         q.address = r.address, q.keys = r.keys, q.owned = r.owned, q.amount = r.amount
  PROVE  Prepared(q, seen)
BY DEF Prepared

LEMMA ProvedGrows ==
  ASSUME NEW r, NEW count \in Nat, NEW more \in Nat, count <= more,
         NEW again \in Nat, NEW later \in Nat, again <= later,
         NEW failed \in Nat, NEW now \in Nat, failed <= now,
         NEW arriving, NEW new, now = 0 /\ later = again => arriving \subseteq new,
         Proved(r, count, again, failed, arriving)
  PROVE  Proved(r, more, later, now, new)
<1> SUFFICES ASSUME r.at = "submit" PROVE Proved(r, more, later, now, new)
  BY DEF Proved
<1>1. /\ r.path.root \in Nat /\ r.path.root <= count
      /\ r.epoch \in Nat /\ r.epoch <= again
      /\ failed = 0 /\ r.epoch = again => r.registrationPath.root \in arriving
  BY DEF Proved
<1>2. r.path.root <= more /\ r.epoch <= later
  BY <1>1
<1>3. now = 0 /\ r.epoch = later => r.registrationPath.root \in new
  <2>1. SUFFICES ASSUME now = 0, r.epoch = later PROVE r.registrationPath.root \in new
    OBVIOUS
  <2>2. failed = 0 /\ again = later
    BY <1>1, <2>1
  <2> QED BY <1>1, <2>1, <2>2
<1> QED BY <1>1, <1>2, <1>3 DEF Proved

Moved(r, x, q) ==
  /\ DOMAIN q = DOMAIN r /\ q.at = x
  /\ "address" \in DOMAIN r => q.address = r.address
  /\ "keys" \in DOMAIN r => q.keys = r.keys
  /\ "owned" \in DOMAIN r => q.owned = r.owned
  /\ "amount" \in DOMAIN r => q.amount = r.amount

LEMMA NowAt ==
  ASSUME NEW r, NEW x, "at" \in DOMAIN r
  PROVE  Moved(r, x, [r EXCEPT !.at = x])
BY DEF Moved

LEMMA NowAtWithRoot ==
  ASSUME NEW r, NEW x, NEW y, NEW q, q = [r EXCEPT !.at = x, !.root = y], "at" \in DOMAIN r
  PROVE  Moved(r, x, q)
BY DEF Moved

(* A withdrawal goes on, or ends.                                          *)
LEMMA GoesOn ==
  ASSUME NEW r, NEW x, NEW q, NEW seen, Prepared(r, seen), x \in Active => r.at \in Active,
         Moved(r, x, q)
  PROVE  q.at = x /\ Prepared(q, seen)
<1>1. CASE x \in Active
  <2>1. /\ "address" \in DOMAIN r /\ "keys" \in DOMAIN r /\ "owned" \in DOMAIN r
        /\ "amount" \in DOMAIN r /\ r.at \in Active
    BY <1>1 DEF Prepared, Fields
  <2> QED BY <2>1, PreparedKept DEF Moved
<1>2. CASE x \notin Active
  BY <1>2 DEF Prepared, Moved
<1> QED BY <1>1, <1>2 DEF Moved

With(r, a, b, e) == [r EXCEPT !.at = "submit", !.path = a, !.registrationPath = b, !.epoch = e]

LEMMA WithProofs ==
  ASSUME NEW r, NEW a, NEW b, NEW e, "at" \in DOMAIN r, Fields \subseteq DOMAIN r
  PROVE  /\ Moved(r, "submit", With(r, a, b, e))
         /\ With(r, a, b, e).path = a /\ With(r, a, b, e).registrationPath = b
         /\ With(r, a, b, e).epoch = e
<1> DEFINE q == With(r, a, b, e)
<1>1. q = [r EXCEPT !.at = "submit", !.path = a, !.registrationPath = b, !.epoch = e]
  BY DEF With
<1> HIDE DEF q
<1>2. /\ Moved(r, "submit", q)
      /\ q.path = a /\ q.registrationPath = b /\ q.epoch = e
  BY <1>1 DEF Fields, Moved
<1> QED BY <1>2 DEF q

-----------------------------------------------------------------------------
(* What a scan finds.                                                      *)
LEMMA ScanFinds ==
  ASSUME LeavesMade, Counted, NEW s
  PROVE  /\ \A found \in ScanMyNotes(Keys(s)) : \E n \in 0 .. (scanned - 1) :
              Payments[n + 1].to = s /\ found = Found(n)
              /\ ComputeNullifier(Num(n), Num(s)) \notin Nullifiers
         /\ \A n \in 0 .. (scanned - 1) :
              /\ mirrored # 0 /\ ScanFrom <= n /\ n <= mirrored /\ Payments[n + 1].to = s
              /\ ComputeNullifier(Num(n), Num(s)) \notin Nullifiers
              => Found(n) \in ScanMyNotes(Keys(s))
<1>1. Len(leaves) \in Nat /\ scanned \in Nat /\ mirrored \in Nat /\ scanned <= Len(leaves)
      /\ Len(leaves) <= Len(Payments) /\ Len(Payments) \in Nat
  BY PaymentsCount DEF LeavesMade, Counted
<1>2. ASSUME NEW n \in 0 .. (scanned - 1)
      PROVE  TryDecryptNote(n, leaves[n + 1].encryptedNote, Keys(s)) =
               IF Payments[n + 1].to = s THEN {Found(n)} ELSE {}
  <2>1. n + 1 \in 1 .. Len(leaves) /\ (n + 1) - 1 = n /\ n \in 0 .. (Len(Payments) - 1)
    BY <1>1
  <2>2. leaves[n + 1] = LeafAt(n)
    BY <2>1 DEF LeavesMade
  <2> QED BY <2>1, <2>2, Opened
<1>3. \A n : Found(n).note.secret = Num(n)
  BY DEF Found, NoteAt
<1>4. Keys(s).nsk = Num(s)
  BY DEF Keys
<1> DEFINE range == GetNotes(ScanFrom, mirrored)
           owned == UNION {TryDecryptNote(i, leaves[i + 1].encryptedNote, Keys(s)) : i \in range}
<1>5. range = {i \in 0 .. (scanned - 1) : i >= ScanFrom /\ i <= mirrored}
  BY DEF GetNotes
<1>6. ScanMyNotes(Keys(s)) =
        IF mirrored = 0 THEN {}
        ELSE {n \in owned : ComputeNullifier(n.note.secret, Num(s)) \notin Nullifiers}
  BY <1>4 DEF ScanMyNotes
<1> HIDE DEF range
<1>7. \A found \in owned : \E n \in range : Payments[n + 1].to = s /\ found = Found(n)
  <2>1. ASSUME NEW found \in owned
        PROVE  \E n \in range : Payments[n + 1].to = s /\ found = Found(n)
    <3>1. PICK i \in range : found \in TryDecryptNote(i, leaves[i + 1].encryptedNote, Keys(s))
      OBVIOUS
    <3>2. found \in IF Payments[i + 1].to = s THEN {Found(i)} ELSE {}
      BY <1>2, <1>5, <3>1
    <3> QED BY <3>2
  <2> QED BY <2>1
<1>8. \A n \in range : Payments[n + 1].to = s => Found(n) \in owned
  <2>1. ASSUME NEW n \in range, Payments[n + 1].to = s PROVE Found(n) \in owned
    <3>1. TryDecryptNote(n, leaves[n + 1].encryptedNote, Keys(s)) = {Found(n)}
      BY <1>2, <1>5, <2>1
    <3> QED BY <3>1
  <2> QED BY <2>1
<1> HIDE DEF owned
<1>9. ASSUME NEW found \in ScanMyNotes(Keys(s))
      PROVE  \E n \in 0 .. (scanned - 1) :
               Payments[n + 1].to = s /\ found = Found(n)
               /\ ComputeNullifier(Num(n), Num(s)) \notin Nullifiers
  <2>1. found \in owned /\ ComputeNullifier(found.note.secret, Num(s)) \notin Nullifiers
    BY <1>6, <1>9
  <2>2. PICK n \in range : Payments[n + 1].to = s /\ found = Found(n)
    BY <1>7, <2>1
  <2>3. n \in 0 .. (scanned - 1)
    BY <1>5
  <2> QED BY <1>3, <2>1, <2>2, <2>3
<1>10. ASSUME NEW n \in 0 .. (scanned - 1), mirrored # 0, ScanFrom <= n, n <= mirrored,
              Payments[n + 1].to = s, ComputeNullifier(Num(n), Num(s)) \notin Nullifiers
       PROVE  Found(n) \in ScanMyNotes(Keys(s))
  <2>1. n \in range
    <3>1. ScanFrom \in Int
      BY <1>1, NotePathAssumption DEF ScanFrom
    <3> QED BY <1>5, <1>10, <3>1
  <2> QED BY <1>3, <1>6, <1>8, <1>10, <2>1
<1> QED BY <1>9, <1>10

-----------------------------------------------------------------------------
(* The steps of the path are steps of Registration or leave it alone.      *)
LEMMA RegistrationSteps ==
  ASSUME FlowsMade, [NextNotes]_<<vars, noteVars>>
  PROVE  [Next]_vars
<1>1. CASE RegistrationStep
  BY <1>1 DEF RegistrationStep, Next
<1>2. CASE RestartSequencer
  BY <1>2 DEF RestartSequencer, Next
<1>3. CASE Deposit \/ SyncTree \/ ScanNotes
  BY <1>3 DEF Deposit, SyncTree, ScanNotes
<1>4. ASSUME NEW f \in Flows, NEW a \in Address, NEW s \in SignaturesOf[a], StartWithdrawal(f, a, s)
      PROVE  UNCHANGED vars
  BY <1>4 DEF StartWithdrawal
<1>5. ASSUME NEW f \in Flows, RegisterFirst(f)
      PROVE  [Next]_vars
  <2>1. Prepared(flow[f], scanned) /\ flow[f].at = "register"
    BY <1>5 DEF FlowsMade, RegisterFirst, At
  <2>2. PICK s \in SignaturesOf[flow[f].address] : flow[f].keys = Keys(s)
    BY <2>1 DEF Prepared, Active
  <2>3. flow[f].address \in Address
    BY <2>1 DEF Prepared, Active
  <2>4. flow[f].keys.npk \in KeysOf[flow[f].address]
    BY <2>2, <2>3, NotePathAssumption
  <2>5. Register(flow[f].address, flow[f].keys.npk) \/ UNCHANGED vars
    BY <1>5 DEF RegisterFirst
  <2> QED BY <2>3, <2>4, <2>5 DEF Next
<1>6. ASSUME NEW f \in Flows, Registered(f) \/ FetchProofs(f) \/ Submit(f)
      PROVE  UNCHANGED vars
  BY <1>6 DEF Registered, FetchProofs, Submit
<1>7. CASE UNCHANGED <<vars, noteVars>>
  BY <1>7
<1> QED BY <1>1, <1>2, <1>3, <1>4, <1>5, <1>6, <1>7 DEF NextNotes

(* Leaves are only added; tree and scanner follow them.                    *)
LEMMA LeavesGrow ==
  ASSUME LeavesMade, Counted, FlowsMade, [NextNotes]_<<vars, noteVars>>
  PROVE  /\ LeavesMade' /\ Counted'
         /\ Len(leaves) <= Len(leaves)' /\ mirrored <= mirrored' /\ scanned <= scanned'
         /\ \A i \in 1 .. Len(leaves) : leaves'[i] = leaves[i]
<1> DEFINE Goal == /\ LeavesMade' /\ Counted'
                   /\ Len(leaves) <= Len(leaves)' /\ mirrored <= mirrored' /\ scanned <= scanned'
                   /\ \A i \in 1 .. Len(leaves) : leaves'[i] = leaves[i]
<1>0. Len(leaves) \in Nat /\ mirrored \in Nat /\ scanned \in Nat
      /\ mirrored <= Len(leaves) /\ scanned <= Len(leaves)
  BY DEF LeavesMade, Counted
<1>1. ASSUME leaves' = leaves,
             mirrored' = mirrored \/ mirrored' = Len(leaves),
             scanned' = scanned \/ scanned' = Len(leaves)
      PROVE  Goal
  BY <1>0, <1>1 DEF LeavesMade, Counted
<1>2. CASE Deposit
  <2> DEFINE n == Len(leaves)
  <2>1. leaves' = Append(leaves, LeafAt(n)) /\ n < Len(Payments) /\ mirrored' = mirrored /\ scanned' = scanned
    BY <1>2 DEF Deposit, LeafAt, NoteAt
  <2>2. n \in 0 .. (Len(Payments) - 1) /\ n + 1 <= Len(Payments)
    BY <1>0, <2>1, PaymentsCount
  <2>3. LeafAt(n) \in Leaves
    BY <2>2 DEF Leaves
  <2>4. /\ leaves' \in Seq(Leaves) /\ Len(leaves') = n + 1
        /\ leaves'[n + 1] = LeafAt(n)
        /\ \A i \in 1 .. n : leaves'[i] = leaves[i]
    <3> DEFINE leaf == LeafAt(n)
    <3> HIDE DEF leaf
    <3>1. leaves' = Append(leaves, leaf) /\ leaf \in Leaves /\ leaves \in Seq(Leaves)
      BY <2>1, <2>3 DEF leaf, LeavesMade
    <3>2. /\ leaves' \in Seq(Leaves) /\ Len(leaves') = n + 1
          /\ leaves'[n + 1] = leaf
          /\ \A i \in 1 .. n : leaves'[i] = leaves[i]
      BY <3>1
    <3> QED BY <3>2 DEF leaf
  <2>5. \A i \in 1 .. (n + 1) : leaves'[i] = LeafAt(i - 1)
    <3>1. ASSUME NEW i \in 1 .. (n + 1) PROVE leaves'[i] = LeafAt(i - 1)
      <4>1. CASE i = n + 1
        <5>1. i - 1 = n
          BY <1>0, <4>1
        <5> QED BY <2>4, <4>1, <5>1
      <4>2. CASE i # n + 1
        <5>1. i \in 1 .. n
          BY <1>0, <4>2
        <5> QED BY <2>4, <5>1 DEF LeavesMade
      <4> QED BY <4>1, <4>2
    <3> QED BY <3>1
  <2>6. Counted'
    BY <1>0, <2>1, <2>4 DEF Counted
  <2> QED BY <1>0, <2>1, <2>2, <2>4, <2>5, <2>6 DEF LeavesMade
<1>3. CASE SyncTree \/ ScanNotes \/ RegistrationStep \/ RestartSequencer \/ UNCHANGED <<vars, noteVars>>
  BY <1>1, <1>3 DEF SyncTree, ScanNotes, RegistrationStep, RestartSequencer, noteVars
<1>4. ASSUME NEW f \in Flows, NEW a, NEW s, StartWithdrawal(f, a, s)
      PROVE  Goal
  BY <1>1, <1>4 DEF StartWithdrawal
<1>5. ASSUME NEW f \in Flows, RegisterFirst(f) \/ Registered(f) \/ Submit(f)
      PROVE  Goal
  BY <1>1, <1>5 DEF RegisterFirst, Registered, Submit
<1>6. ASSUME NEW f \in Flows, FetchProofs(f)
      PROVE  Goal
  BY <1>1, <1>6 DEF FetchProofs, CaughtUp
<1> QED BY <1>2, <1>3, <1>4, <1>5, <1>6 DEF NextNotes

-----------------------------------------------------------------------------
(* The withdrawals of the client, step by step.                            *)

(* A flow that is not touched stays as it should be while the rest grows.  *)
LEMMA FlowStays ==
  ASSUME PathInv, Registrations', LeavesMade', Counted',
         Len(leaves) <= Len(leaves)', scanned <= scanned',
         restarts <= restarts', failures <= failures',
         failures' = 0 /\ restarts' = restarts =>
           knownRoots \cup submissions \subseteq knownRoots' \cup submissions',
         NEW g \in Flows
  PROVE  /\ Prepared(flow[g], scanned')
         /\ Proved(flow[g], Len(leaves'), restarts', failures', knownRoots' \cup submissions')
<1>1. /\ Prepared(flow[g], scanned)
      /\ Proved(flow[g], Len(leaves), restarts, failures, knownRoots \cup submissions)
  BY DEF PathInv, FlowsMade
<1>2. /\ scanned \in Nat /\ Len(leaves) \in Nat /\ scanned' \in Nat /\ Len(leaves') \in Nat
      /\ restarts \in Nat /\ failures \in Nat /\ restarts' \in Nat /\ failures' \in Nat
  BY DEF PathInv, Registrations, LeavesMade, Counted
<1>3. Prepared(flow[g], scanned')
  BY <1>1, <1>2, PreparedGrows
<1>4. Proved(flow[g], Len(leaves'), restarts', failures', knownRoots' \cup submissions')
  BY <1>1, <1>2, ProvedGrows
<1> QED BY <1>3, <1>4

(* What a step of one withdrawal has to establish.                         *)
Well(r) ==
  /\ Prepared(r, scanned')
  /\ Proved(r, Len(leaves'), restarts', failures', knownRoots' \cup submissions')

LEMMA OneFlowSteps ==
  ASSUME FlowsMade, \A g \in Flows : Well(flow[g]), NEW f \in Flows,
         NEW r, flow' = [flow EXCEPT ![f] = r], Well(r)
  PROVE  FlowsMade'
<1>1. flow' = [g \in Flows |-> IF g = f THEN r ELSE flow[g]]
  BY DEF FlowsMade
<1>2. flow' = [g \in Flows |-> flow'[g]]
  BY <1>1
<1>3. ASSUME NEW g \in Flows
      PROVE  /\ Prepared(flow'[g], scanned')
             /\ Proved(flow'[g], Len(leaves'), restarts', failures', knownRoots' \cup submissions')
  <2>1. CASE g = f
    <3>1. flow'[g] = r
      BY <1>1, <2>1
    <3> QED BY <3>1 DEF Well
  <2>2. CASE g # f
    <3>1. flow'[g] = flow[g]
      BY <1>1, <2>2
    <3> QED BY <3>1 DEF Well
  <2> QED BY <2>1, <2>2
<1> QED BY <1>2, <1>3 DEF FlowsMade

(* A withdrawal that goes on to another await, or fails, or is done.       *)
LEMMA FlowGoes ==
  ASSUME FlowsMade, \A g \in Flows : Well(flow[g]), NEW f \in Flows,
         NEW x, x # "submit", x \in Active => flow[f].at \in Active,
         NEW r, Moved(flow[f], x, r), flow' = [flow EXCEPT ![f] = r]
  PROVE  FlowsMade'
<1>1. Prepared(flow[f], scanned')
  BY DEF Well
<1>2. r.at = x /\ Prepared(r, scanned')
  BY <1>1, GoesOn
<1>3. Well(r)
  BY <1>2 DEF Well, Proved
<1> QED BY <1>3, OneFlowSteps

LEMMA FlowsKept ==
  ASSUME PathInv, [NextNotes]_<<vars, noteVars>>
  PROVE  FlowsMade'
<1>1. [Next]_vars
  BY RegistrationSteps DEF PathInv
<1>2. Registrations'
  BY <1>1, RegistrationsKept DEF PathInv
<1>3. /\ LeavesMade' /\ Counted'
      /\ Len(leaves) <= Len(leaves)' /\ scanned <= scanned'
  BY LeavesGrow DEF PathInv
<1>4. /\ restarts <= restarts' /\ failures <= failures'
      /\ failures' = 0 /\ restarts' = restarts =>
           knownRoots \cup submissions \subseteq knownRoots' \cup submissions'
  BY <1>1, RootsStay DEF PathInv
<1>4a. 0 .. (scanned - 1) \subseteq 0 .. (scanned' - 1)
  <2>1. scanned \in Nat /\ scanned' \in Nat /\ scanned <= scanned'
    BY <1>3 DEF PathInv, Counted, LeavesMade
  <2> QED BY <2>1, MoreLeaves
<1>5. \A g \in Flows : Well(flow[g])
  BY <1>2, <1>3, <1>4, FlowStays DEF Well
<1>6. FlowsMade /\ \A g \in Flows : "at" \in DOMAIN flow[g]
  BY DEF PathInv, FlowsMade, Prepared
<1>7. CASE flow' = flow
  BY <1>5, <1>6, <1>7 DEF FlowsMade, Well
<1>8. CASE RestartSequencer
  <2> DEFINE new(g) == IF At(g, "registering") THEN [flow[g] EXCEPT !.at = "failed"] ELSE flow[g]
  <2>1. flow' = [g \in Flows |-> new(g)]
    BY <1>8 DEF RestartSequencer
  <2>2. ASSUME NEW g \in Flows PROVE Well(new(g))
    <3>1. CASE At(g, "registering")
      <4> DEFINE r == [flow[g] EXCEPT !.at = "failed"]
      <4>1. Moved(flow[g], "failed", r)
        BY <1>6, NowAt
      <4>2. "failed" \notin Active
        BY DEF Active
      <4> HIDE DEF r
      <4>3. r.at = "failed" /\ Prepared(r, scanned')
        BY <1>5, <4>1, <4>2, GoesOn DEF Well
      <4>4. Well(r)
        BY <4>3 DEF Well, Proved
      <4> QED BY <3>1, <4>4 DEF r
    <3>2. CASE ~ At(g, "registering")
      BY <1>5, <3>2
    <3> QED BY <3>1, <3>2
  <2> HIDE DEF new
  <2>3. \A g \in Flows : flow'[g] = new(g)
    BY <2>1
  <2>4. flow' = [g \in Flows |-> flow'[g]]
    BY <2>1
  <2>5. \A g \in Flows :
          /\ Prepared(flow'[g], scanned')
          /\ Proved(flow'[g], Len(leaves'), restarts', failures', knownRoots' \cup submissions')
    BY <2>2, <2>3 DEF Well
  <2> QED BY <2>4, <2>5 DEF FlowsMade
<1>9. ASSUME NEW f \in Flows, NEW a \in Address, NEW s \in SignaturesOf[a], StartWithdrawal(f, a, s)
      PROVE  FlowsMade'
  <2>0. PICK found \in ScanMyNotes(Keys(s)) : \E amount \in 1 .. found.note.amount[1] :
          flow' = [flow EXCEPT ![f] =
            [at |-> "register", address |-> a, keys |-> Keys(s), owned |-> found, amount |-> amount,
             root |-> <<>>, path |-> <<>>, registrationPath |-> <<>>, epoch |-> 0]]
    BY <1>9 DEF StartWithdrawal
  <2>1. PICK amount \in 1 .. found.note.amount[1] :
          flow' = [flow EXCEPT ![f] =
            [at |-> "register", address |-> a, keys |-> Keys(s), owned |-> found, amount |-> amount,
             root |-> <<>>, path |-> <<>>, registrationPath |-> <<>>, epoch |-> 0]]
    BY <2>0
  <2> DEFINE r == [at |-> "register", address |-> a, keys |-> Keys(s), owned |-> found, amount |-> amount,
                   root |-> <<>>, path |-> <<>>, registrationPath |-> <<>>, epoch |-> 0]
  <2>2. PICK n : n \in 0 .. (scanned - 1) /\ Payments[n + 1].to = s /\ found = Found(n)
    BY ScanFinds DEF PathInv
  <2>3. amount \in 1 .. Payments[n + 1].amount
    BY <2>1, <2>2 DEF Found, NoteAt, Num
  <2>4. n \in 0 .. (scanned' - 1)
    <3>1. n \in 0 .. (scanned - 1)
      BY <2>2
    <3> QED BY <1>4a, <3>1
  <2>5. /\ r.at = "register" /\ r.address = a /\ r.keys = Keys(s) /\ r.owned = found /\ r.amount = amount
        /\ "at" \in DOMAIN r /\ Fields \subseteq DOMAIN r
    BY DEF Fields
  <2> HIDE DEF r
  <2>6. Prepared(r, scanned')
    BY <2>2, <2>3, <2>4, <2>5 DEF Prepared
  <2>7. Well(r)
    BY <2>5, <2>6 DEF Well, Proved
  <2>8. flow' = [flow EXCEPT ![f] = r]
    BY <2>1 DEF r
  <2> QED BY <1>5, <1>6, <2>7, <2>8, OneFlowSteps
<1>10. ASSUME NEW f \in Flows, RegisterFirst(f)
       PROVE  FlowsMade'
  <2>1. flow[f].at = "register"
    BY <1>10 DEF RegisterFirst, At
  <2>2. CASE flow' = [flow EXCEPT ![f].at = "proofs"]
    <3> DEFINE r == [flow[f] EXCEPT !.at = "proofs"]
    <3>1. Moved(flow[f], "proofs", r)
      BY <1>6, NowAt
    <3>2. flow' = [flow EXCEPT ![f] = r]
      BY <2>2
    <3> HIDE DEF r
    <3> QED BY <1>5, <1>6, <2>1, <3>1, <3>2, FlowGoes DEF Active
  <2>3. CASE flow' = [flow EXCEPT ![f] = [@ EXCEPT !.at = "registering", !.root = tree']]
    <3> DEFINE r == [flow[f] EXCEPT !.at = "registering", !.root = tree']
    <3>1. Moved(flow[f], "registering", r)
      BY <1>6, NowAtWithRoot
    <3>2. flow' = [flow EXCEPT ![f] = r]
      BY <2>3
    <3> HIDE DEF r
    <3> QED BY <1>5, <1>6, <2>1, <3>1, <3>2, FlowGoes DEF Active
  <2> QED BY <1>10, <2>2, <2>3 DEF RegisterFirst, Go
<1>11. ASSUME NEW f \in Flows, Registered(f)
       PROVE  FlowsMade'
  <2> DEFINE r == [flow[f] EXCEPT !.at = "proofs", !.root = <<>>]
  <2>1. flow[f].at = "registering" /\ flow' = [flow EXCEPT ![f] = [@ EXCEPT !.at = "proofs", !.root = <<>>]]
    BY <1>11 DEF Registered, At
  <2>2. Moved(flow[f], "proofs", r)
    BY <1>6, NowAtWithRoot
  <2>3. flow' = [flow EXCEPT ![f] = r]
    BY <2>1
  <2> HIDE DEF r
  <2> QED BY <1>5, <1>6, <2>1, <2>2, <2>3, FlowGoes DEF Active
<1>12. ASSUME NEW f \in Flows, Submit(f)
       PROVE  FlowsMade'
  <2>1. flow[f].at = "submit" /\ (flow' = [flow EXCEPT ![f].at = "done"] \/ flow' = [flow EXCEPT ![f].at = "failed"])
    BY <1>12 DEF Submit, At, Go
  <2>2. ASSUME NEW x \in {"done", "failed"}, flow' = [flow EXCEPT ![f].at = x]
        PROVE  FlowsMade'
    <3> DEFINE r == [flow[f] EXCEPT !.at = x]
    <3>1. Moved(flow[f], x, r)
      BY <1>6, NowAt
    <3>2. flow' = [flow EXCEPT ![f] = r]
      BY <2>2
    <3>3. x # "submit" /\ x \notin Active
      BY DEF Active
    <3> HIDE DEF r
    <3> QED BY <1>5, <1>6, <3>1, <3>2, <3>3, FlowGoes
  <2> QED BY <2>1, <2>2
<1>13. ASSUME NEW f \in Flows, FetchProofs(f)
       PROVE  FlowsMade'
  <2>1. flow[f].at = "proofs" /\ leaves' = leaves /\ UNCHANGED vars
    BY <1>13 DEF FetchProofs, At
  <2>2. CASE flow' = [flow EXCEPT ![f].at = "failed"]
    <3> DEFINE r == [flow[f] EXCEPT !.at = "failed"]
    <3>1. Moved(flow[f], "failed", r)
      BY <1>6, NowAt
    <3>2. flow' = [flow EXCEPT ![f] = r]
      BY <2>2
    <3>3. "failed" \notin Active
      BY DEF Active
    <3> HIDE DEF r
    <3> QED BY <1>5, <1>6, <3>1, <3>2, <3>3, FlowGoes
  <2>3. ASSUME NEW p \in GetProof(flow[f].owned.leafIndex), NEW q \in RegistrationProof(flow[f].keys.npk),
               flow' = [flow EXCEPT ![f] = [@ EXCEPT !.at = "submit", !.path = p, !.registrationPath = q,
                                                     !.epoch = restarts]]
        PROVE  FlowsMade'
    <3> DEFINE r == [flow[f] EXCEPT !.at = "submit", !.path = p, !.registrationPath = q, !.epoch = restarts]
    <3>1. flow' = [flow EXCEPT ![f] = r]
      BY <2>3
    <3>2. "at" \in DOMAIN flow[f] /\ Fields \subseteq DOMAIN flow[f]
      BY <2>1 DEF PathInv, FlowsMade, Prepared, Active
    <3>3. Moved(flow[f], "submit", r) /\ r.path = p /\ r.registrationPath = q /\ r.epoch = restarts
      <4>1. r = With(flow[f], p, q, restarts)
        BY DEF With
      <4> HIDE DEF r
      <4> QED BY <3>2, <4>1, WithProofs
    <3> HIDE DEF r
    <3>4. r.at = "submit" /\ Prepared(r, scanned')
      BY <1>5, <2>1, <3>3, GoesOn DEF Well, Active
    <3>5. r.owned = flow[f].owned /\ r.keys = flow[f].keys
      BY <3>2, <3>3 DEF Moved, Fields
    <3>6. PICK n \in 0 .. (scanned - 1) : flow[f].owned = Found(n)
      BY <2>1 DEF PathInv, FlowsMade, Prepared, Active
    <3>7. r.owned.leafIndex = n /\ n \in Nat
      BY <3>5, <3>6 DEF Found
    <3>8. /\ p.root \in Nat /\ p.root <= Len(leaves') /\ p.index = n + 1 /\ p.index \in 1 .. p.root
      <4>1. /\ CaughtUp(n) \in Nat /\ CaughtUp(n) <= Len(leaves)
        BY DEF PathInv, LeavesMade, Counted, CaughtUp
      <4>2. n < CaughtUp(n) /\ p = [root |-> CaughtUp(n), index |-> n + 1]
        BY <3>5, <3>7 DEF GetProof
      <4> QED BY <2>1, <3>7, <4>1, <4>2
    <3>9. /\ q.root = tree /\ q.index \in 1 .. Len(tree) /\ tree[q.index] = r.keys.npk
          /\ tree \in Seq(Npk) /\ tree # <<>>
      <4>1. /\ flow[f].keys.npk \in DOMAIN npkToLeafIndex
            /\ q = [root |-> tree, index |-> npkToLeafIndex[flow[f].keys.npk]]
        BY DEF RegistrationProof, RegistrationRoot
      <4>2. /\ q.index \in 1 .. Len(tree) /\ tree[q.index] = flow[f].keys.npk
            /\ tree \in Seq(Npk)
        BY <4>1 DEF PathInv, Registrations, Indexed
      <4> QED BY <3>5, <4>1, <4>2
    <3>10. /\ restarts' \in Nat /\ restarts' = restarts /\ failures' = failures
           /\ knownRoots' = knownRoots /\ submissions' = submissions
      BY <1>2, <2>1 DEF Registrations, vars
    <3>11. failures' = 0 => tree \in knownRoots' \cup submissions'
      BY <3>9, <3>10 DEF PathInv, Registrations, ServedRootSubmitted
    <3>12. Well(r)
      BY <3>3, <3>4, <3>7, <3>8, <3>9, <3>10, <3>11 DEF Well, Proved
    <3> QED BY <1>5, <1>6, <3>1, <3>12, OneFlowSteps
  <2>4. \/ flow' = [flow EXCEPT ![f].at = "failed"]
        \/ \E p \in GetProof(flow[f].owned.leafIndex), q \in RegistrationProof(flow[f].keys.npk) :
             flow' = [flow EXCEPT ![f] = [@ EXCEPT !.at = "submit", !.path = p, !.registrationPath = q,
                                                   !.epoch = restarts]]
    BY <1>13 DEF FetchProofs, Go
  <2> QED BY <2>2, <2>3, <2>4
<1>14. CASE Deposit \/ SyncTree \/ ScanNotes \/ RegistrationStep \/ UNCHANGED <<vars, noteVars>>
  BY <1>7, <1>14 DEF Deposit, SyncTree, ScanNotes, RegistrationStep, noteVars
<1> QED BY <1>8, <1>9, <1>10, <1>11, <1>12, <1>13, <1>14 DEF NextNotes

-----------------------------------------------------------------------------
(* What the client puts together.                                          *)
MadeFor(w, r, n, s) ==
  /\ w.secret = Num(n) /\ w.nullifier_secret_key = Num(s) /\ w.nullifier_pub_key = Keys(s).npk
  /\ w.note_amount = Num(Payments[n + 1].amount) /\ w.note_block_number = Num(n + 1)
  /\ w.note_depositor = FieldOf[Payments[n + 1].from]
  /\ w.transfer_amount = Num(r.amount) /\ w.amount = Num(r.amount)
  /\ w.recipient = FieldOf[r.address]
  /\ w.nullifier = ComputeNullifier(Num(n), Num(s))
  /\ w.compliance_hash = ComputeComplianceHash(FieldOf[Payments[n + 1].from], FieldOf[r.address],
                           Num(r.amount), Num(n))
  /\ w.merkle_path.tree = ServedRoot(r.path.root)
  /\ w.merkle_path.index = r.path.index /\ w.expected_root = w.merkle_path.tree
  /\ w.registration_path.tree = RegistrationTree(r.registrationPath.root)
  /\ w.registration_path.index = r.registrationPath.index
  /\ w.expected_registration_root = w.registration_path.tree

LEMMA WitnessMade ==
  ASSUME NEW f, NEW n, NEW s, flow[f].owned = Found(n), flow[f].keys = Keys(s)
  PROVE  MadeFor(Witness(WithdrawalInputs(f)), flow[f], n, s)
<1> DEFINE r == flow[f]
           note == r.owned.note
           keys == r.keys
           served == ServedRoot(r.path.root)
           registered == RegistrationTree(r.registrationPath.root)
           w == Witness(WithdrawalInputs(f))
<1>1. /\ note.secret = Num(n) /\ note.amount = Num(Payments[n + 1].amount)
      /\ note.blockNumber = Num(n + 1) /\ note.depositor = FieldOf[Payments[n + 1].from]
  <2>1. note = NoteAt(n)
    BY DEF Found
  <2> HIDE DEF note
  <2> QED BY <2>1 DEF NoteAt
<1>2. keys.nsk = Num(s) /\ keys.npk = Keys(s).npk
  BY DEF Keys
<1>3. w = [secret |-> note.secret, nullifier_secret_key |-> keys.nsk,
           nullifier_pub_key |-> keys.npk,
           merkle_path |-> [tree |-> served, index |-> r.path.index],
           note_amount |-> note.amount, note_block_number |-> note.blockNumber,
           note_depositor |-> note.depositor, transfer_amount |-> Num(r.amount),
           registration_path |-> [tree |-> registered, index |-> r.registrationPath.index],
           expected_root |-> served, nullifier |-> ComputeNullifier(note.secret, keys.nsk),
           amount |-> Num(r.amount), recipient |-> FieldOf[r.address],
           compliance_hash |-> ComputeComplianceHash(note.depositor, FieldOf[r.address], Num(r.amount), note.secret),
           expected_registration_root |-> registered]
  BY DEF Witness, WithdrawalInputs, InputsFor
<1> HIDE DEF w, note, keys, served, registered
<1>4. MadeFor(w, r, n, s)
  BY <1>1, <1>2, <1>3 DEF MadeFor, served, registered
<1> QED BY <1>4 DEF w

-----------------------------------------------------------------------------
(* Withdrawals that were initiated.                                        *)
LEMMA SpendsMore ==
  ASSUME NEW p, NEW seen \in Nat, NEW more \in Nat, seen <= more, Spends(p, seen)
  PROVE  Spends(p, more)
<1>1. 0 .. (seen - 1) \subseteq 0 .. (more - 1)
  BY MoreLeaves
<1> QED BY <1>1 DEF Spends

LEMMA PendingKept ==
  ASSUME PathInv, [NextNotes]_<<vars, noteVars>>
  PROVE  PendingMade'
<1>1. scanned \in Nat /\ scanned' \in Nat /\ scanned <= scanned'
  <2>1. Counted /\ Counted' /\ scanned <= scanned' /\ LeavesMade /\ LeavesMade'
    BY LeavesGrow DEF PathInv
  <2> QED BY <2>1 DEF Counted, LeavesMade
<1>2. \A p \in pending : Spends(p, scanned')
  BY <1>1, SpendsMore DEF PathInv, PendingMade
<1>3. CASE pending' = pending
  BY <1>2, <1>3 DEF PendingMade
<1>4. ASSUME NEW f \in Flows, Submit(f)
      PROVE  PendingMade'
  <2> DEFINE w == Witness(WithdrawalInputs(f))
             new == [leafIndex |-> flow[f].owned.leafIndex, nullifier |-> w.nullifier,
                     amount |-> w.amount, recipient |-> w.recipient, complianceHash |-> w.compliance_hash]
  <2>1. flow[f].at = "submit" /\ (pending' = pending \cup {new} \/ pending' = pending)
    BY <1>4 DEF Submit, At
  <2>2. Prepared(flow[f], scanned)
    BY DEF PathInv, FlowsMade
  <2>3. PICK s, n :
          /\ s \in SignaturesOf[flow[f].address]
          /\ n \in 0 .. (scanned - 1) /\ flow[f].keys = Keys(s) /\ Payments[n + 1].to = s
          /\ flow[f].owned = Found(n)
    BY <2>1, <2>2 DEF Prepared, Active
  <2>4. MadeFor(w, flow[f], n, s)
    BY <2>3, WitnessMade
  <2>5. flow[f].owned.leafIndex = n
    BY <2>3 DEF Found
  <2> HIDE DEF w
  <2>6. /\ new.leafIndex = n /\ new.nullifier = ComputeNullifier(Num(n), Num(s))
        /\ new.complianceHash = ComputeComplianceHash(FieldOf[Payments[n + 1].from],
                                  new.recipient, new.amount, Num(n))
    BY <2>4, <2>5 DEF MadeFor
  <2> HIDE DEF new
  <2>7. Spends(new, scanned)
    BY <2>3, <2>6 DEF Spends
  <2>8. Spends(new, scanned')
    BY <1>1, <2>7, SpendsMore
  <2>9. \A p \in pending' : Spends(p, scanned')
    BY <1>2, <2>1, <2>8
  <2> QED BY <2>9 DEF PendingMade
<1>5. CASE Deposit \/ SyncTree \/ ScanNotes \/ RegistrationStep \/ RestartSequencer
           \/ UNCHANGED <<vars, noteVars>>
  BY <1>3, <1>5 DEF Deposit, SyncTree, ScanNotes, RegistrationStep, RestartSequencer, noteVars
<1>6. ASSUME NEW f \in Flows, NEW a, NEW s, StartWithdrawal(f, a, s)
      PROVE  PendingMade'
  BY <1>3, <1>6 DEF StartWithdrawal
<1>7. ASSUME NEW f \in Flows, RegisterFirst(f) \/ Registered(f) \/ FetchProofs(f)
      PROVE  PendingMade'
  BY <1>3, <1>7 DEF RegisterFirst, Registered, FetchProofs
<1> QED BY <1>4, <1>5, <1>6, <1>7 DEF NextNotes

LEMMA PathInit == InitNotes => PathInv
<1> SUFFICES ASSUME InitNotes PROVE PathInv
  OBVIOUS
<1>1. Registrations
  BY InitRegistrations DEF InitNotes
<1>2. LeavesMade /\ Counted /\ PendingMade
  BY PaymentsCount DEF InitNotes, LeavesMade, Counted, PendingMade
<1>3. flow = [f \in Flows |-> NoFlow]
  BY DEF InitNotes
<1>4. \A f \in Flows : flow[f].at = "no" /\ "at" \in DOMAIN flow[f]
  BY <1>3 DEF NoFlow
<1>5. FlowsMade
  BY <1>3, <1>4 DEF FlowsMade, Prepared, Proved, Active
<1> QED BY <1>1, <1>2, <1>5 DEF PathInv

LEMMA PathKept ==
  ASSUME PathInv, [NextNotes]_<<vars, noteVars>>
  PROVE  PathInv'
<1>1. [Next]_vars
  BY RegistrationSteps DEF PathInv
<1>2. Registrations'
  BY <1>1, RegistrationsKept DEF PathInv
<1>3. LeavesMade' /\ Counted'
  BY LeavesGrow DEF PathInv
<1>4. PendingMade' /\ FlowsMade'
  BY PendingKept, FlowsKept
<1> QED BY <1>2, <1>3, <1>4 DEF PathInv

LEMMA PathAlways == SpecNotes => []PathInv
<1>1. PathInv /\ [NextNotes]_<<vars, noteVars>> => PathInv'
  BY PathKept
<1> QED BY <1>1, PathInit, PTL DEF SpecNotes

(* The registrations of the path are registrations: whatever client and    *)
(* contract do with notes, operator.ts sees users register, roots mined or *)
(* lost, and restarts, so all that is proved of Registration holds here.   *)
THEOREM PathRegisters == SpecNotes => Spec
<1>1. InitNotes => Init
  BY DEF InitNotes
<1>2. PathInv /\ [NextNotes]_<<vars, noteVars>> => [Next]_vars
  BY RegistrationSteps DEF PathInv
<1> QED BY <1>1, <1>2, PathAlways, PTL DEF SpecNotes, Spec

(* The root a withdrawal was given a proof for is known to the contract or *)
(* on its way there as long as nothing failed since, for any number of     *)
(* registrations, withdrawals and restarts (operator.ts, client.ts).       *)
THEOREM ProofRootArrivesAlways == SpecNotes => []ProofRootArrives
<1>1. PathInv => ProofRootArrives
  BY DEF PathInv, FlowsMade, Proved, ProofRootArrives, At
<1> QED BY <1>1, PathAlways, PTL

-----------------------------------------------------------------------------
(* The circuit.                                                            *)
LEMMA RootOfOwnLeaf ==
  ASSUME NEW t, NEW k \in DOMAIN t, t = [i \in DOMAIN t |-> t[i]], NEW d,
         NEW path, path.tree = [depth |-> d, leaves |-> t], path.index = k
  PROVE  Lib!compute_merkle_root_n(t[k], path, d) = path.tree
<1>1. [t EXCEPT ![k] = t[k]] = t
  OBVIOUS
<1>2. path.tree.leaves = t
  OBVIOUS
<1> QED BY <1>1, <1>2 DEF Lib!compute_merkle_root_n

LEMMA SatisfiedIff ==
  ASSUME NEW w,
         Lib!compute_npk(w.nullifier_secret_key) = w.nullifier_pub_key,
         w.merkle_path.tree.depth = TREE_DEPTH =>
           Lib!compute_merkle_root(Lib!compute_commitment(w.secret, w.nullifier_pub_key, w.note_amount,
             w.note_block_number, w.note_depositor), w.merkle_path) = w.expected_root,
         Lib!compute_nullifier(w.secret, w.nullifier_secret_key) = w.nullifier,
         w.amount = w.transfer_amount,
         w.recipient[1] < AddressBound,
         Lib!compute_compliance_hash(w.note_depositor, w.recipient, w.transfer_amount, w.secret)
           = w.compliance_hash,
         w.registration_path.tree.depth = REGISTRATION_DEPTH,
         Lib!compute_merkle_root_n(w.nullifier_pub_key, w.registration_path, REGISTRATION_DEPTH)
           = w.expected_registration_root
  PROVE  Lib!Satisfied(w) <=>
           /\ w.merkle_path.tree.depth = TREE_DEPTH
           /\ Lib!AsU64(w.transfer_amount) > 0
           /\ Lib!AsU64(w.transfer_amount) <= Lib!AsU64(w.note_amount)
<1> DEFINE C == Lib!Constraints(w)
           positive == Lib!AsU64(w.transfer_amount) > 0
           enough == Lib!AsU64(w.transfer_amount) <= Lib!AsU64(w.note_amount)
<1>1. DOMAIN C = 1 .. 9
  BY DEF Lib!Constraints
<1>2. CASE w.merkle_path.tree.depth = TREE_DEPTH
  <2>1. /\ C[1].holds /\ C[2].holds /\ C[3].holds /\ C[5].holds
        /\ C[7].holds /\ C[8].holds /\ C[9].holds
    BY <1>2 DEF Lib!Constraints, Lib!Constraint
  <2>2. C[4].holds <=> positive
    BY DEF Lib!Constraints, Lib!Constraint
  <2>3. C[6].holds <=> enough
    BY DEF Lib!Constraints, Lib!Constraint
  <2>4. \A i \in 1 .. 9 : i = 1 \/ i = 2 \/ i = 3 \/ i = 4 \/ i = 5 \/ i = 6 \/ i = 7 \/ i = 8 \/ i = 9
    OBVIOUS
  <2>5. 4 \in 1 .. 9 /\ 6 \in 1 .. 9
    OBVIOUS
  <2>6. Lib!Fits(w)
    BY <1>2 DEF Lib!Fits
  <2>7. Lib!Satisfied(w) <=> \A i \in 1 .. 9 : C[i].holds
    BY <1>1, <2>6, Zenon DEF Lib!Satisfied
  <2> HIDE DEF C, positive, enough
  <2>8. (\A i \in 1 .. 9 : C[i].holds) <=> (positive /\ enough)
    BY <2>1, <2>2, <2>3, <2>4, <2>5, Zenon
  <2>9. Lib!Satisfied(w) <=> (positive /\ enough)
    BY <2>7, <2>8, Zenon
  <2> QED BY <1>2, <2>9, Zenon DEF positive, enough
<1>3. CASE w.merkle_path.tree.depth # TREE_DEPTH
  <2>1. ~ Lib!Satisfied(w)
    BY <1>3 DEF Lib!Satisfied, Lib!Fits
  <2> QED BY <1>3, <2>1, Zenon
<1> QED BY <1>2, <1>3

LEMMA InputsHold ==
  ASSUME PathInv, NEW f \in Flows, flow[f].at = "submit"
  PROVE  Lib!Satisfied(Witness(WithdrawalInputs(f))) <=>
           /\ ServedDepth = TREE_DEPTH
           /\ flow[f].amount % U64 > 0
           /\ flow[f].amount % U64 <= flow[f].owned.note.amount[1] % U64
<1> DEFINE w == Witness(WithdrawalInputs(f))
           r == flow[f]
           lvs == r.registrationPath.root
           served == Commitments(r.path.root)
<1>1. PICK s, n :
        /\ s \in SignaturesOf[r.address]
        /\ n \in 0 .. (scanned - 1) /\ r.keys = Keys(s) /\ Payments[n + 1].to = s
        /\ r.owned = Found(n) /\ r.amount \in 1 .. Payments[n + 1].amount
  <2>1. Prepared(r, scanned)
    BY DEF PathInv, FlowsMade
  <2> QED BY <2>1 DEF Prepared, Active
<1>2. MadeFor(w, r, n, s)
  BY <1>1, WitnessMade
<1>3. /\ r.path.root \in Nat /\ r.path.root <= Len(leaves)
      /\ r.path.index = n + 1 /\ n + 1 \in 1 .. r.path.root
      /\ lvs \in Seq(Npk) /\ r.registrationPath.index \in 1 .. Len(lvs)
      /\ lvs[r.registrationPath.index] = Keys(s).npk
  <2>1. Proved(r, Len(leaves), restarts, failures, knownRoots \cup submissions)
    BY DEF PathInv, FlowsMade
  <2>2. r.owned.leafIndex = n /\ r.keys = Keys(s)
    BY <1>1 DEF Found
  <2> HIDE DEF r
  <2>3. r.at = "submit"
    BY DEF r
  <2> QED BY <2>1, <2>2, <2>3 DEF Proved
<1> HIDE DEF w, r
<1>4. n \in 0 .. (Len(Payments) - 1)
  <2>1. scanned <= Len(leaves) /\ Len(leaves) <= Len(Payments) /\ scanned \in Nat /\ Len(leaves) \in Nat
    BY DEF PathInv, LeavesMade, Counted
  <2>2. n \in 0 .. (scanned - 1) /\ Len(Payments) \in Nat
    BY <1>1, PaymentsCount
  <2> QED BY <2>1, <2>2, MoreLeaves
<1>5. Lib!compute_npk(w.nullifier_secret_key) = w.nullifier_pub_key
  BY <1>2, CopiesAgree DEF MadeFor, Keys
<1>6. ASSUME ServedDepth = TREE_DEPTH
      PROVE  Lib!compute_merkle_root(Lib!compute_commitment(w.secret, w.nullifier_pub_key, w.note_amount,
               w.note_block_number, w.note_depositor), w.merkle_path) = w.expected_root
  <2>1. Lib!compute_commitment(w.secret, w.nullifier_pub_key, w.note_amount, w.note_block_number, w.note_depositor)
          = ComputeCommitment(NoteAt(n), Keys(s).npk)
    <3> DEFINE note == NoteAt(n)
    <3>1. /\ w.secret = note.secret /\ w.note_amount = note.amount
          /\ w.note_block_number = note.blockNumber /\ w.note_depositor = note.depositor
          /\ w.nullifier_pub_key = Keys(s).npk
      BY <1>2 DEF MadeFor, NoteAt
    <3> HIDE DEF note
    <3>2. ComputeCommitment(note, Keys(s).npk)
            = Lib!compute_commitment(note.secret, Keys(s).npk, note.amount, note.blockNumber, note.depositor)
      BY CopiesAgree
    <3> QED BY <3>1, <3>2 DEF note
  <2>2. n + 1 \in 1 .. Len(leaves) /\ (n + 1) - 1 = n
    <3>1. Len(leaves) \in Nat
      BY DEF PathInv, LeavesMade
    <3> QED BY <1>3, <1>4, <3>1
  <2>3. leaves[n + 1] = LeafAt(n)
    BY <2>2 DEF PathInv, LeavesMade
  <2>4. LeafAt(n).commitment = ComputeCommitment(NoteAt(n), Keys(s).npk)
    BY <1>1 DEF LeafAt
  <2>5. /\ served[n + 1] = ComputeCommitment(NoteAt(n), Keys(s).npk)
        /\ n + 1 \in DOMAIN served /\ served = [i \in DOMAIN served |-> served[i]]
    BY <1>3, <2>3, <2>4 DEF Commitments
  <2>6. /\ w.merkle_path.tree = [depth |-> TREE_DEPTH, leaves |-> served]
        /\ w.merkle_path.index = n + 1 /\ w.expected_root = w.merkle_path.tree
    BY <1>2, <1>3, <1>6 DEF MadeFor, ServedRoot
  <2> HIDE DEF served
  <2>7. Lib!compute_merkle_root_n(served[n + 1], w.merkle_path, TREE_DEPTH) = w.merkle_path.tree
    BY <2>5, <2>6, RootOfOwnLeaf
  <2> QED BY <2>1, <2>5, <2>6, <2>7 DEF Lib!compute_merkle_root
<1>7. Lib!compute_nullifier(w.secret, w.nullifier_secret_key) = w.nullifier
  BY <1>2, CopiesAgree DEF MadeFor
<1>8. /\ w.amount = w.transfer_amount
      /\ Lib!AsU64(w.transfer_amount) = r.amount % U64
      /\ Lib!AsU64(w.note_amount) = r.owned.note.amount[1] % U64
  <2>1. r.owned.note.amount = Num(Payments[n + 1].amount)
    BY <1>1 DEF Found, NoteAt
  <2>2. r.owned.note.amount[1] = Payments[n + 1].amount
    BY <2>1 DEF Num
  <2>3. w.transfer_amount = Num(r.amount) /\ w.amount = Num(r.amount) /\ w.note_amount = Num(Payments[n + 1].amount)
    BY <1>2 DEF MadeFor
  <2>4. w.transfer_amount[1] = r.amount /\ w.note_amount[1] = Payments[n + 1].amount
    BY <2>3 DEF Num
  <2> QED BY <2>2, <2>3, <2>4 DEF Lib!AsU64
<1>9. Lib!compute_compliance_hash(w.note_depositor, w.recipient, w.transfer_amount, w.secret) = w.compliance_hash
  <2> DEFINE note == NoteAt(n)
  <2>1. w.note_depositor = note.depositor
    BY <1>2 DEF MadeFor, NoteAt
  <2> HIDE DEF note
  <2>2. ComputeComplianceHash(note.depositor, w.recipient, w.transfer_amount, w.secret)
          = Lib!compute_compliance_hash(note.depositor, w.recipient, w.transfer_amount, w.secret)
    BY CopiesAgree
  <2>3. w.compliance_hash = ComputeComplianceHash(w.note_depositor, w.recipient, w.transfer_amount, w.secret)
    BY <1>2 DEF MadeFor
  <2> QED BY <2>1, <2>2, <2>3
<1>10. /\ w.registration_path.tree.depth = REGISTRATION_DEPTH
       /\ Lib!compute_merkle_root_n(w.nullifier_pub_key, w.registration_path, REGISTRATION_DEPTH)
            = w.expected_registration_root
  <2>1. /\ w.registration_path.tree = [depth |-> REGISTRATION_DEPTH, leaves |-> lvs]
        /\ w.registration_path.index = r.registrationPath.index
        /\ w.expected_registration_root = w.registration_path.tree
        /\ w.nullifier_pub_key = lvs[r.registrationPath.index]
    BY <1>2, <1>3 DEF MadeFor, RegistrationTree
  <2> DEFINE k == r.registrationPath.index
  <2>2. k \in DOMAIN lvs /\ lvs = [i \in DOMAIN lvs |-> lvs[i]]
    BY <1>3
  <2> HIDE DEF lvs, k
  <2> QED BY <2>1, <2>2, RootOfOwnLeaf DEF k
<1>11. w.recipient[1] < AddressBound
  <2>1. r.address \in Address
    <3>1. Prepared(r, scanned) /\ r.at = "submit"
      BY DEF PathInv, FlowsMade, r
    <3> QED BY <3>1 DEF Prepared, Active
  <2> QED BY <1>2, <2>1, NotePathAssumption DEF MadeFor
<1>12. w.merkle_path.tree.depth = ServedDepth
  BY <1>2 DEF MadeFor, ServedRoot
<1>13. Lib!Satisfied(w) <=>
         /\ w.merkle_path.tree.depth = TREE_DEPTH
         /\ Lib!AsU64(w.transfer_amount) > 0
         /\ Lib!AsU64(w.transfer_amount) <= Lib!AsU64(w.note_amount)
  BY <1>5, <1>6, <1>7, <1>8, <1>9, <1>10, <1>11, <1>12, SatisfiedIff
<1> QED BY <1>8, <1>12, <1>13 DEF w, r

(* What client.withdraw prepares satisfies the compliance circuit, wherever *)
(* other registrations, changes of keys, restarts and deposits fell between *)
(* the answers it was made from, if and only if the sequencer's paths are  *)
(* as long as the circuit's and the amounts compare modulo 2^64 as they    *)
(* should; for all depths.                                                 *)
THEOREM InputsSatisfyCircuitAlways == SpecNotes => []InputsSatisfyCircuit
<1>1. PathInv => InputsSatisfyCircuit
  BY InputsHold, Zenon DEF InputsSatisfyCircuit, At
<1> QED BY <1>1, PathAlways, PTL

-----------------------------------------------------------------------------
(* What the operator verifies.                                             *)
LEMMA LeafScanned ==
  ASSUME PathInv, NEW i \in 0 .. (scanned - 1)
  PROVE  leaves[i + 1] = LeafAt(i) /\ i \in 0 .. (Len(Payments) - 1)
<1>1. /\ scanned \in Nat /\ Len(leaves) \in Nat /\ scanned <= Len(leaves) /\ Len(leaves) <= Len(Payments)
      /\ Len(Payments) \in Nat
  BY PaymentsCount DEF PathInv, LeavesMade, Counted
<1>2. i + 1 \in 1 .. Len(leaves) /\ (i + 1) - 1 = i /\ i \in 0 .. (Len(Payments) - 1)
  BY <1>1
<1>3. \A j \in 1 .. Len(leaves) : leaves[j] = LeafAt(j - 1)
  BY DEF PathInv, LeavesMade
<1>4. leaves[i + 1] = LeafAt((i + 1) - 1)
  BY <1>2, <1>3
<1> QED BY <1>2, <1>4

LEMMA Verified ==
  ASSUME PathInv, NEW p \in pending
  PROVE  VerifiedLeaves(p) = IF leaves[p.leafIndex + 1].forOperator THEN {p.leafIndex} ELSE {}
<1> DEFINE k == p.leafIndex
           explains(i, secret) ==
             Operator!ComputeComplianceHash(FieldOf[leaves[i + 1].from], p.recipient, p.amount, secret)
               = p.complianceHash
           opened(i) == Operator!TryDecryptOperatorNote(leaves[i + 1].encryptedNote, OperatorKey)
<1>1. /\ k \in 0 .. (scanned - 1)
      /\ p.complianceHash = ComputeComplianceHash(FieldOf[Payments[k + 1].from], p.recipient, p.amount, Num(k))
  BY DEF PathInv, PendingMade, Spends
<1>2. \A d, r, m, x : Operator!ComputeComplianceHash(d, r, m, x) = ComputeComplianceHash(d, r, m, x)
  <2>1. ASSUME NEW d, NEW r, NEW m, NEW x
        PROVE  Operator!ComputeComplianceHash(d, r, m, x) = ComputeComplianceHash(d, r, m, x)
    <3> DEFINE note == [depositor |-> d]
    <3>1. note.depositor = d
      OBVIOUS
    <3> HIDE DEF note
    <3>2. ComputeComplianceHash(note.depositor, r, m, x) = Operator!ComputeComplianceHash(note.depositor, r, m, x)
      BY CopiesAgree
    <3> QED BY <3>1, <3>2
  <2> QED BY <2>1
<1>3. ASSUME NEW i \in 0 .. (scanned - 1)
      PROVE  /\ Payments[i + 1].forOperator => opened(i) = {Num(i)}
             /\ ~ Payments[i + 1].forOperator => opened(i) = {}
             /\ leaves[i + 1].forOperator = Payments[i + 1].forOperator
             /\ leaves[i + 1].from = Payments[i + 1].from
             /\ Num(i) \in Numbers
  <2>1. leaves[i + 1] = LeafAt(i) /\ i \in 0 .. (Len(Payments) - 1)
    BY LeafScanned
  <2>2. LeafAt(i).forOperator = Payments[i + 1].forOperator /\ LeafAt(i).from = Payments[i + 1].from
    BY DEF LeafAt
  <2> QED BY <2>1, <2>2, OpenedByOperator, PaymentAt
<1>4. ASSUME NEW i \in 0 .. (scanned - 1), NEW secret \in opened(i), explains(i, secret)
      PROVE  i = k
  <2>1. secret = Num(i)
    BY <1>3, <1>4
  <2>2. ComputeComplianceHash(FieldOf[leaves[i + 1].from], p.recipient, p.amount, Num(i))
          = ComputeComplianceHash(FieldOf[Payments[k + 1].from], p.recipient, p.amount, Num(k))
    BY <1>1, <1>2, <1>4, <2>1
  <2>3. Num(i) \in Numbers /\ Num(k) \in Numbers
    BY <1>1, <1>3
  <2>4. Num(i) = Num(k)
    BY <2>2, <2>3, ComplianceHashesDiffer
  <2> QED BY <2>4 DEF Num
<1>5. explains(k, Num(k))
  BY <1>1, <1>2, <1>3
<1>6. VerifiedLeaves(p) = {i \in 0 .. (scanned - 1) : \E secret \in opened(i) : explains(i, secret)}
  BY DEF VerifiedLeaves
<1> HIDE DEF explains, opened, k
<1>7. CASE leaves[k + 1].forOperator
  <2>1. opened(k) = {Num(k)}
    BY <1>1, <1>3, <1>7
  <2>2. VerifiedLeaves(p) = {k}
    BY <1>1, <1>4, <1>5, <1>6, <2>1
  <2> QED BY <1>7, <2>2 DEF k
<1>8. CASE ~ leaves[k + 1].forOperator
  <2>1. opened(k) = {}
    BY <1>1, <1>3, <1>8
  <2>2. VerifiedLeaves(p) = {}
    BY <1>4, <1>6, <2>1
  <2> QED BY <1>8, <2>2 DEF k
<1> QED BY <1>7, <1>8

(* verifyCompliance attributes every withdrawal to the deposit it spends,  *)
(* and to no other, if and only if the deposit had a note for the          *)
(* operator: for any payments, withdrawn in any parts and order.           *)
THEOREM OperatorVerifiesAlways == SpecNotes => []OperatorVerifies
<1>1. PathInv => OperatorVerifies
  BY Verified DEF OperatorVerifies
<1> QED BY <1>1, PathAlways, PTL

-----------------------------------------------------------------------------
(* What the recipient finds.                                               *)
(* No payment is to the operator's own key.                                *)
OperatorKeyApart == \A i \in DOMAIN Payments : Payments[i].to # OperatorKey

LEMMA LeafOnChain ==
  ASSUME PathInv, NEW i \in 1 .. Len(leaves)
  PROVE  leaves[i] = LeafAt(i - 1) /\ i - 1 \in 0 .. (Len(Payments) - 1) /\ Payments[i] = Payments[(i - 1) + 1]
<1>1. Len(leaves) \in Nat /\ Len(leaves) <= Len(Payments) /\ Len(Payments) \in Nat
  BY PaymentsCount DEF PathInv, LeavesMade
<1>2. i - 1 \in 0 .. (Len(Payments) - 1) /\ (i - 1) + 1 = i
  BY <1>1
<1>3. leaves[i] = LeafAt(i - 1)
  BY DEF PathInv, LeavesMade
<1> QED BY <1>2, <1>3

LEMMA OperatorSeesNone ==
  ASSUME OperatorKeyApart, PathInv, NEW i \in DOMAIN leaves
  PROVE  Operator!DecryptCompliance(OperatorKey, ParseEncryptedNote(leaves[i].encryptedNote)) = {}
<1>1. i \in 1 .. Len(leaves)
  BY DEF PathInv, LeavesMade
<1>2. leaves[i] = LeafAt(i - 1) /\ i - 1 \in 0 .. (Len(Payments) - 1) /\ Payments[i] = Payments[(i - 1) + 1]
  BY <1>1, LeafOnChain
<1>3. Payments[i].to # OperatorKey
  <2>1. Len(leaves) <= Len(Payments) /\ Len(leaves) \in Nat /\ Len(Payments) \in Nat /\ DOMAIN Payments = 1 .. Len(Payments)
    BY PaymentsCount DEF PathInv, LeavesMade
  <2>2. i \in DOMAIN Payments
    BY <1>1, <2>1
  <2> QED BY <2>2 DEF OperatorKeyApart
<1> QED BY <1>2, <1>3, OpenedByOperator

LEMMA OnlyOwnFound ==
  ASSUME PathInv, NEW s, NEW found \in ScanMyNotes(Keys(s))
  PROVE  /\ leaves[found.leafIndex + 1].to = s
         /\ leaves[found.leafIndex + 1].commitment = found.commitment
         /\ \A p \in pending : p.leafIndex # found.leafIndex
<1>1. PICK n : n \in 0 .. (scanned - 1) /\ Payments[n + 1].to = s /\ found = Found(n)
               /\ ComputeNullifier(Num(n), Num(s)) \notin Nullifiers
  BY ScanFinds DEF PathInv
<1>2. leaves[n + 1] = LeafAt(n)
  BY <1>1, LeafScanned
<1>3. found.leafIndex = n /\ found.commitment = LeafAt(n).commitment
  BY <1>1 DEF Found
<1>4. LeafAt(n).to = s
  BY <1>1 DEF LeafAt
<1>5. ASSUME NEW p \in pending, p.leafIndex = n PROVE FALSE
  <2>1. p.nullifier = ComputeNullifier(Num(n), Num(s))
    BY <1>1, <1>5 DEF PathInv, PendingMade, Spends
  <2>2. p.nullifier \in Nullifiers
    BY DEF Nullifiers
  <2> QED BY <1>1, <2>1, <2>2
<1> QED BY <1>2, <1>3, <1>4, <1>5

LEMMA AllOwnFound ==
  ASSUME PathInv, NEW s, mirrored = Len(leaves), scanned = Len(leaves),
         NEW i \in DOMAIN leaves, leaves[i].to = s, i > Len(leaves) - ScanWindow
  PROVE  \/ \E found \in ScanMyNotes(Keys(s)) : found.leafIndex = i - 1
         \/ \E p \in pending : p.leafIndex = i - 1
<1> DEFINE n == i - 1
<1>1. i \in 1 .. Len(leaves) /\ Len(leaves) \in Nat /\ ScanWindow \in Nat
  BY NotePathAssumption DEF PathInv, LeavesMade
<1>2. n \in 0 .. (scanned - 1) /\ mirrored # 0 /\ ScanFrom <= n /\ n <= mirrored
  BY <1>1 DEF ScanFrom
<1>3. leaves[i] = LeafAt(n) /\ Payments[i] = Payments[n + 1]
  BY <1>1, LeafOnChain
<1>4. Payments[n + 1].to = s
  <2>1. LeafAt(n).to = Payments[n + 1].to
    BY DEF LeafAt
  <2> QED BY <1>3, <2>1
<1> HIDE DEF n
<1>5. CASE ComputeNullifier(Num(n), Num(s)) \notin Nullifiers
  <2>1. Found(n) \in ScanMyNotes(Keys(s))
    BY <1>2, <1>4, <1>5, ScanFinds DEF PathInv
  <2>2. Found(n).leafIndex = n
    BY DEF Found
  <2> QED BY <2>1, <2>2 DEF n
<1>6. CASE ComputeNullifier(Num(n), Num(s)) \in Nullifiers
  <2>1. PICK p \in pending : p.nullifier = ComputeNullifier(Num(n), Num(s))
    BY <1>6 DEF Nullifiers
  <2>2. p.nullifier = ComputeNullifier(Num(p.leafIndex), Num(Payments[p.leafIndex + 1].to))
    BY DEF PathInv, PendingMade, Spends
  <2>3. Num(p.leafIndex) = Num(n)
    <3> DEFINE a == Num(p.leafIndex)
               b == Num(n)
               k == Num(Payments[p.leafIndex + 1].to)
               l == Num(s)
    <3>1. ComputeNullifier(a, k) = ComputeNullifier(b, l)
      BY <2>1, <2>2
    <3> HIDE DEF a, b, k, l
    <3>2. a = b
      BY <3>1, NullifiersDiffer
    <3> QED BY <3>2 DEF a, b
  <2>4. p.leafIndex = n
    BY <2>3 DEF Num
  <2> QED BY <2>4 DEF n
<1> QED BY <1>5, <1>6

(* scanMyNotes finds the notes of its keys, none of another's and none that *)
(* is withdrawn, for any number of view tags; and all of the last leaves   *)
(* once the sequencer has caught up.  The operator reads no whole note,    *)
(* unless it was paid itself.                                              *)
THEOREM FoundByRecipientOnlyAlways ==
  ASSUME OperatorKeyApart
  PROVE  SpecNotes => []FoundByRecipientOnly
<1>1. ASSUME PathInv PROVE FoundByRecipientOnly
  <2>1. \A i \in DOMAIN leaves :
          Operator!DecryptCompliance(OperatorKey, ParseEncryptedNote(leaves[i].encryptedNote)) = {}
    BY <1>1, OperatorSeesNone
  <2>2. ASSUME NEW s \in Signatures, NEW found \in ScanMyNotes(Keys(s))
        PROVE  /\ leaves[found.leafIndex + 1].to = s
               /\ leaves[found.leafIndex + 1].commitment = found.commitment
               /\ \A p \in pending : p.leafIndex # found.leafIndex
    BY <1>1, OnlyOwnFound
  <2>3. ASSUME NEW s \in Signatures, mirrored = Len(leaves), scanned = Len(leaves),
               NEW i \in DOMAIN leaves, leaves[i].to = s, i > Len(leaves) - ScanWindow
        PROVE  \/ \E found \in ScanMyNotes(Keys(s)) : found.leafIndex = i - 1
               \/ \E p \in pending : p.leafIndex = i - 1
    BY <1>1, <2>3, AllOwnFound
  <2> QED BY <2>1, <2>2, <2>3 DEF FoundByRecipientOnly
<1> QED BY <1>1, PathAlways, PTL
=============================================================================
