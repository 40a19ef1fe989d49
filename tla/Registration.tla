---------------------------- MODULE Registration ----------------------------
(***************************************************************************)
(* Registration of users by the operator service                           *)
(* (packages/sequencer/src/operator.ts): the two maps of users, the        *)
(* registration tree and its index, the list of users on disk, and the     *)
(* submission of each new root to the pool contract.  registerUser runs    *)
(* without interruption up to that submission; several may be in flight.   *)
(* A root is the sequence of the leaves of its tree, leaves are numbered   *)
(* from 1.                                                                 *)
(***************************************************************************)
EXTENDS Integers, Sequences, SequencesExt, Functions

CONSTANTS
    Address, Npk,
    KeysOf,                \* the keys an address may present
    Capacity,              \* 2 ** REGISTRATION_DEPTH
    MaxRegistrations,      \* bounds: registrations that insert, faults
    MaxRestarts, MaxFailures

ASSUME RegistrationAssumption ==
    /\ KeysOf \in [Address -> SUBSET Npk]
    /\ {Capacity, MaxRegistrations, MaxRestarts, MaxFailures} \subseteq Nat

VARIABLES
    usersByAddress,    \* a Map: [address, npk] in the order of first insertion
    usersByNpk,        \* npk -> address
    tree,              \* the leaves of the registration tree
    npkToLeafIndex,
    disk,              \* registered-users.json
    submissions,       \* the roots on their way to the contract
    knownRoots,        \* knownRegistrationRoots
    restarts, failures,
    takenOver          \* history: keys a known address took that were registered already

vars == <<usersByAddress, usersByNpk, tree, npkToLeafIndex, disk, submissions,
          knownRoots, restarts, failures, takenOver>>

NoEntries == [n \in {} |-> 0]

Init ==
    /\ usersByAddress = <<>> /\ usersByNpk = NoEntries
    /\ tree = <<>> /\ npkToLeafIndex = NoEntries
    /\ disk = <<>>
    /\ submissions = {} /\ knownRoots = {}
    /\ restarts = 0 /\ failures = 0
    /\ takenOver = {}

Put(map, key, value) ==
    [k \in DOMAIN map \cup {key} |-> IF k = key THEN value ELSE map[k]]

\* Map.set: a key that is present keeps its place.
PutUser(users, user) ==
    IF \E i \in DOMAIN users : users[i].address = user.address
    THEN [i \in DOMAIN users |-> IF users[i].address = user.address THEN user ELSE users[i]]
    ELSE Append(users, user)

KeyOf(address) == {u.npk : u \in {v \in Range(usersByAddress) : v.address = address}}

\* (mutant: the index is read after the insertion)
LeafIndexAfter(leaves) == Len(leaves) + 2

LeafIndex(leaves) == Len(leaves) + 1

\* (mutant: the old key of the address stays in usersByNpk)
WithoutOldKeyKept(address) == usersByNpk

WithoutOldKey(address) == Restrict(usersByNpk, DOMAIN usersByNpk \ KeyOf(address))

\* (mutant: the users are written before the new one is among them)
PersistedBefore == usersByAddress

\* persistUsers
Persisted == usersByAddress'

\* The check of the second map is made for new addresses only.
Refused(address, npk) ==
    \/ npk \in KeyOf(address)
    \/ KeyOf(address) = {} /\ npk \in DOMAIN usersByNpk

\* registerUser;
\* the maps are set before insert throws at a full tree.
Register(address, npk) ==
    /\ Len(tree) < MaxRegistrations
    /\ ~Refused(address, npk)
    /\ usersByAddress' = PutUser(usersByAddress, [address |-> address, npk |-> npk])
    /\ usersByNpk' = Put(WithoutOldKey(address), npk, address)
    /\ IF Len(tree) < Capacity
       THEN /\ tree' = Append(tree, npk)
            /\ npkToLeafIndex' = Put(npkToLeafIndex, npk, LeafIndex(tree))
            /\ disk' = Persisted
            /\ submissions' = submissions \cup {tree'}
       ELSE UNCHANGED <<tree, npkToLeafIndex, disk, submissions>>
    /\ takenOver' = takenOver \cup ({npk} \cap DOMAIN usersByNpk)
    /\ UNCHANGED <<knownRoots, restarts, failures>>

\* submitRegistrationRoot: updateRegistrationRoot is mined, in any order, or
\* it fails, and the failure is only logged.
Submitted(root) ==
    /\ root \in submissions
    /\ knownRoots' = knownRoots \cup {root}
    /\ submissions' = submissions \ {root}
    /\ UNCHANGED <<usersByAddress, usersByNpk, tree, npkToLeafIndex, disk, restarts, failures,
                   takenOver>>

SubmissionFails(root) ==
    /\ failures < MaxFailures
    /\ root \in submissions
    /\ submissions' = submissions \ {root}
    /\ failures' = failures + 1
    /\ UNCHANGED <<usersByAddress, usersByNpk, tree, npkToLeafIndex, disk, knownRoots, restarts,
                   takenOver>>

\* (mutant: nothing is submitted at the start)
RebuiltNotSubmitted(root) == {}

\* The root of a tree rebuilt from any users is submitted.
Rebuilt(root) == IF root = <<>> THEN {} ELSE {root}

\* The process stops and init rebuilds everything from the users on disk; a
\* transaction that was already sent may still be mined.
Restart ==
    LET leaves == [i \in DOMAIN disk |-> disk[i].npk] IN
    /\ restarts < MaxRestarts
    /\ restarts' = restarts + 1
    /\ usersByAddress' = disk
    /\ tree' = leaves
    /\ usersByNpk' = [npk \in Range(leaves) |-> disk[SelectLastInSeq(disk, LAMBDA u : u.npk = npk)].address]
    /\ npkToLeafIndex' = [npk \in Range(leaves) |-> SelectLastInSeq(leaves, LAMBDA n : n = npk)]
    /\ \E sent \in SUBSET submissions : submissions' = sent \cup Rebuilt(leaves)
    /\ UNCHANGED <<disk, knownRoots, failures, takenOver>>

-----------------------------------------------------------------------------
\* GET /registration/root and GET /registration/proof/:npk, which answers 404
\* for a key without a leaf.  An answer has the root of the whole tree and the
\* path to the leaf.

RegistrationRoot == [root |-> tree, leafCount |-> Len(tree)]

RegistrationProof(npk) ==
    IF npk \in DOMAIN npkToLeafIndex
    THEN {[root |-> RegistrationRoot.root, index |-> npkToLeafIndex[npk]]}
    ELSE {}

-----------------------------------------------------------------------------
Next ==
    \/ \E address \in Address : \E npk \in KeysOf[address] : Register(address, npk)
    \/ \E root \in submissions : Submitted(root) \/ SubmissionFails(root)
    \/ Restart

Spec == Init /\ [][Next]_vars

-----------------------------------------------------------------------------
\* Properties

TypeOK ==
    /\ usersByAddress \in Seq([address : Address, npk : Npk])
    /\ Range(usersByNpk) \subseteq Address /\ DOMAIN usersByNpk \subseteq Npk
    /\ tree \in Seq(Npk)
    /\ npkToLeafIndex \in [DOMAIN npkToLeafIndex -> DOMAIN tree]
    /\ submissions \cup knownRoots \subseteq Seq(Npk)

\* The two maps name the same users: a key belongs to the one address it is
\* registered for, through changes of keys and restarts, and whatever becomes
\* of other keys; except for the keys a known address took over, which the
\* code lets it do (OneOwner).
MapsAgree ==
    /\ \A u \in Range(usersByAddress) :
         u.npk \in takenOver \/ (u.npk \in DOMAIN usersByNpk /\ usersByNpk[u.npk] = u.address)
    /\ \A npk \in DOMAIN usersByNpk :
         npk \in takenOver \/ npk \in KeyOf(usersByNpk[npk])

\* Every registered user gets a proof, for the leaf that holds its key, so
\* that it can withdraw (GET /registration/proof/:npk).
RegisteredProvable ==
    \A npk \in DOMAIN usersByNpk :
        \E proof \in RegistrationProof(npk) :
            proof.index \in 1..RegistrationRoot.leafCount /\ proof.root[proof.index] = npk

\* A key that is registered is not registered again for somebody else
\* (specs/registration-tree-mvp.md, S5).
OneOwner == \A u, v \in Range(usersByAddress) : u.npk = v.npk => u = v

\* A restart restores every registered user with the last key, and nobody
\* else, although keys were changed and submissions failed in between.
UsersSurviveRestart == [][Restart => usersByAddress' = usersByAddress]_vars

\* The root the served proofs lead to is known to the contract or on its way
\* to it, also after a restart, unless a submission failed: a failure is not
\* made good before the next registration.
ServedRootSubmitted ==
    failures = 0 => tree = <<>> \/ tree \in knownRoots \cup submissions
=============================================================================
