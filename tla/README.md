# Latent privacy pool: TLA+ specifications and proofs

This directory specifies the Latent privacy pool in TLA+, model-checks it with
TLC and proves its central safety properties with TLAPS. Paths are relative to
the repository. `PROJECT.json` maps every definition to the lines it models,
lists the runs, the hazards and the theorems.

## 1. Inventory

| Component | Source | State | Operations | Interacts with |
|---|---|---|---|---|
| Pool contract | `contracts/src/PrivacyPoolV2.sol` | token balance, nullifiers, two-stage records, registration roots, relayer | `deposit`, `batchDeposit`, `updateRegistrationRoot`, `withdraw`, `withdrawMulti`, `initiateWithdrawal`, `attestWithdrawal`, `claimWithdrawal`, `setRelayer` | token, verifiers, commitment tree |
| Commitment tree | `contracts/src/MerkleTree.sol` | left subtrees and leaf count of every tree, current tree, known roots | `_insert` (rotates when full) | base of the pool contract |
| Hash | `contracts/src/Poseidon2.sol`, `hash2` in `packages/sequencer/src/crypto.ts` | none | `hash1`, `hash2`, `hash4` and the permutation | commitment tree, sequencer tree |
| Circuits | `circuits/{lib,privacy,compliance}` | none | the statements proved | pool contract, through the verifiers |
| Token | `contracts/src/MockUSDT.sol` | ledger | `transfer`, `transferFrom` | pool contract |
| Chain synchronisation | `packages/sequencer/src/{chain,index}.ts` | tree, `lastProcessedIndex`, `pendingDeposits`, `lastBatchTime`; `state.json` | `initialize`, `syncCommitments`, `maybeSubmitRoot`, `submitRoot`, `resyncProcessedIndex`; poll loop, shutdown | a queue contract, the operator's `confirmRoot`, `GET /proof` |
| Sequencer tree | `packages/sequencer/src/tree.ts` | non-default nodes, leaf count, root | `insert`, `getProof`, `export`, `import` | chain synchronisation, HTTP API |
| Note scanner | `packages/sequencer/src/scanner.ts` | notes, last scanned block; `notes.json` | `init`, `scan` | poll loop, attestation, HTTP API |
| Attestation | `packages/sequencer/src/operator.ts` | withdrawals, decrypted secrets, last scanned block; `withdrawals.json` | `init`, `scanWithdrawals`, `verifyCompliance`, `attest` | poll loop, HTTP API, pool contract |
| Registration | `packages/sequencer/src/operator.ts` | two maps of users, registration tree, index; `registered-users.json` | `registerUser`, `submitRegistrationRoot`, rebuild in `init` | HTTP API, pool contract |
| Store | `packages/sequencer/src/store.ts` | four JSON files and their temporary names | `writeJson`, `readJson` | everything the sequencer keeps |
| HTTP API | `packages/sequencer/src/api.ts` | none of its own | handlers | all of the sequencer, the SDK |
| SDK client | `packages/sdk/src/client.ts`, `chain`, `api` | connected address, keys, prover flag | `connect`, `deriveKeys`, `register`, `deposit`, `withdraw`, `scanMyNotes`, prover | wallet extension, pool contract, HTTP API |
| Keys, notes, cryptography | `packages/sdk/src/core`, `packages/sequencer/src/crypto.ts` | key cache in `localStorage` | key derivation, commitments and nullifiers, ECIES of notes, `scanNotes`; the operator's own copy | circuits, operator |
| Prover | `packages/sdk/src/prover` | the loaded backend | `initProver`, `generateProof`, `disposeProver` | SDK client |
| Frontend | `packages/frontend/src` | what the page shows, refs of the effects | provider, app view, withdrawal hook and dialog | SDK client |
| Test vectors | `scripts/generate_test_vectors.ts` | none | thirteen labelled scenarios | compliance circuit |
| Scripts, generated verifiers, `forge-std`, other pages of the frontend | `scripts`, `contracts/{script,lib}`, `UltraVerifier.sol` | | | |

What is hard in it:

* **Pool.** Four ways out of the pool share one set of nullifiers and one
  balance; an attestation and a claim race for one record; amounts are field
  elements that the circuits compare as `u64` while the contract transfers the
  untruncated number; the tree rotates in the middle of a batch. Correct means:
  solvent but for what was committed to and not paid in, every note paid once and within its value, the terms of a two-stage
  withdrawal frozen, everything deposited provable for ever, and an initiated
  withdrawal paid even if the operator is silent.
* **Sequencer.** One thread with many tasks in flight that interleave at every
  `await`; a poll starts whether or not the last one is over; calls fail and
  receipts get lost after the transaction was mined; the process crashes and
  restarts from files that hold part of its state. Correct means: its tree is a
  prefix of the queue and no root is published for other commitments than those
  counted, up to the two crossings of tasks that break it (section 5), nothing is missed, everything is processed some time, only verified
  withdrawals are attested, and a save is never half done.
* **Client.** The wallet extension changes accounts while a connection, a
  signature, a registration, a scan, a transfer or a read of a balance is
  awaited, and the handler that resumes reads the client's fields as they are
  by then; deposits share one allowance, withdrawals one prover; the user leaves
  the page under a running flow. Correct means: keys go with their own
  account's address and the page shows nothing of another account, up to the
  crossings of section 5, a flow reports what happened, and the page never stays
  locked.
* **A note's way.** Three programs compute with a note (SDK, circuits, operator)
  from three copies of the same cryptography. Correct means: what is deposited
  is found by its recipient only, its witness satisfies the circuit exactly when
  paths have the length and amounts the width the circuit takes, and the operator
  can attribute the withdrawal to the deposit.

The repository is between two versions of the pool. `chain.ts` (its `POOL_ABI`)
and `docs/adr/001-merkle-root-integrity.md` talk to a contract that queues
commitments and takes proposed roots; `PrivacyPoolV2.sol` builds its tree itself
(`specs/on-chain-rotating-tree.md`). The queue contract is not in the
repository; `ChainSync` models it as external, from its use and the ADR.

## 2. Modules

| Module | Models |
|---|---|
| `CommitmentTree` | what the pool relies on its tree for: leaves appended, roots known for ever; a root is the sequence of the leaves of its tree |
| `PrivacyPool` | the pool contract, token and circuits, on top of `CommitmentTree` |
| `SequenceSums` | the sum over a sequence, as a recursive function |
| `MerkleHash` | the node hash, full trees, paths; the SDK's `buildMerkleTree` and `generateSparseProof` |
| `MerkleTree` | the contract's incremental algorithm; implements `CommitmentTree` |
| `TreeMirror` | the sequencer's tree next to the contract's, with export and import; extends `MerkleTree` |
| `Poseidon2` | the contract's hash and the operator's, as numbers |
| `ChainSync` | synchronisation and submission of roots; implements `MaterializedView` |
| `MaterializedView` | the promise of ADR-001: published roots are longer and longer prefixes of the queue, until two tasks cross |
| `Registration` | registration of users, `GET /registration/{root,proof}` |
| `Attestation` | note scanner, withdrawal scanner, attestation, `GET /history` |
| `Store` | the files of the sequencer, step by step; implements `Cells` |
| `Cells` | what the other modules take a file for: a cell that is set at once |
| `Primitives` | field elements, sponge, keys and ciphertexts as terms |
| `NoteCrypto`, `OperatorCrypto`, `CircuitLib` | the cryptography of notes as the SDK, the operator and the circuits have it, each from its own code; `CircuitLib` also the statement of the compliance circuit |
| `NotePath` | a note from the deposit to its attestation, on top of `Registration` and the three modules above |
| `TestVectors` | the scenarios of `generate_test_vectors.ts`, evaluated as an assumption |
| `WalletSession` | extension, client, provider and view of one browser tab: what each card shows and what the page offers |
| `ClientFlows` | deposits, withdrawals, scans and the prover of one connected account, with the view that starts them and its two dialogs |
| `SequenceSumsProofs`, `PrivacyPoolProofs`, `NotePathProofs` (with `Registration` and the cryptography of notes), `ChainSyncProofs` (with `Store`), `AttestationProofs`, `WalletSessionProofs`, `ClientFlowsProofs`, `TreeProofs` (the trees and their hash) | theorems and lemmas |
| `MCPrivacyPool`, `MCRegistration`, `MCAttestation`, `MCNotePath`, `MCWalletSession`, `MCClientFlows` | sets, symmetries and inputs for TLC |

**How code becomes actions.** A contract call is one action: a revert changes
nothing, so every `require` is a conjunct of the guard. In the sequencer and the
SDK an action is the code between two awaits; `local[t].pc` (or `flow[f].at`)
names the await a task is suspended at, the other fields are the local variables
that live across it. So a value that is read before an `await` and used after it
is read and used in two different actions (`local[t].seen` in `ChainSync`,
`found` and `upTo` in `Attestation`, `deriving.signer` in `WalletSession`).
React state is a variable, an effect an action that is enabled when its
dependencies changed. `Dispose` of `ClientFlows` takes the backend and the api
that the code destroys one after the other for one. In `Store` an action is one system call, since the process
can end between two. Variables have the names of the fields of the code.

**History variables.** Where the code breaks a promise in a known way, a variable
that no guard reads remembers that way, and the property says that there is no
other: `announced` (what was paid in for a leaf, `PrivacyPool`), `takenOver` (keys
taken from another user, `Registration`), `foundTwice` (notes two scans had found
at once, `Attestation`), `crossed` (the awaits into which an insertion fell,
`ChainSync`; the tasks whose wallet changed, `WalletSession`), `misfiled`,
`pageSpoiled` and `cardsSpoiled` (what a crossed task left behind, `WalletSession`).
The promises without the exception are kept as definitions (`OneOwner`,
`NotesUnique`, `TreeIsQueuePrefix`, `PublishedAsProcessed`, `KeysStayOwn`); section 5
says how each one fails.

**Data.** Hashes are injective. In `PrivacyPool` a commitment is its note, a root
the sequence of its leaves, a nullifier the pair of secret and key; in
`MerkleHash` the hash is the pair of its arguments. `Primitives` has terms: a
hash is the sequence it absorbed with its domain, a shared secret the pair of
the two private keys, a ciphertext its key and its text, which a wrong key does
not open. So `NotePath` compares the three copies by what they absorb, in which
order, under which domain, at which offset, and nothing about them is assumed
equal. A verifier accepts exactly the public inputs that the circuit has a
witness for; `PrivacyPool` has the statements of privacy and compliance
(`ProvesWithdrawal`, `AmountValid` with the reduction modulo `U64`), `CircuitLib`
the compliance circuit assertion by assertion, with the lengths of the paths its
inputs have (`Fits`), amounts compared modulo `U64` and the recipient's 160 bits. A
served path carries the depth of the sequencer's tree (`ServedDepth`), and the
circuit climbs the levels of its own (`TREE_DEPTH`). The circuit of `withdrawMulti` is
not in the repository, `MultiProof` is what its public inputs mean. `Poseidon2`
has no terms: hashes, rounds and layers are computed modulo the prime.

Some definitions stand beside a variant marked `(mutant: ...)`: the same
definition with a plausible bug. Each property is known to fail when the
corresponding variant takes the place of the definition.

## 3. Properties and runs

| Run | Instance | Checks | Result |
|---|---|---|---|
| `pool_safety` | 3 notes, two of them with one nullifier; any of them deposited for 1 or for 2; 3 deposits, batches of 2, trees of 2 leaves, a `u64` of 7, amounts 1, 2 and 8, 2 slots, recipient 0 allowed, time 0..2; fair time and claims | `Solvent`, `PaidOnceWithinNote`, `PaidAsInitiated`, `LeafStaysProvable`, `ExpiredIsClaimable`, `TermsFrozen`, `EventuallySettled` | hold |
| `commitment_trees` | trees of 4 leaves, 7 insertions, mirror of the same depth, a shift of 4 bits | `ProvableAreInserted`, `SdkTreeAgrees`, `ServedProofsVerify`, `RootKnownIfSameDepth`, `ImplementsCommitmentTree` | hold |
| `tree_mirror_depth` | mirror one level deeper | `MirrorRootKnown` | violated |
| `chain_sync` | a poll and a `GET /proof` that interleave at every await, 2 deposits, batches of 2, a crash, a shutdown, a failing call; fair | `OnlyLoopsSpoilTree`, `NeverAheadOfChain`, `OnlyCrossingsMisstateRoot`, `ImplementsMaterializedView`, `EveryDepositProcessed` | hold |
| `chain_sync_stale_count` | the same without faults | `PublishedAsProcessed` | violated |
| `registration` | 3 addresses of which two change keys, one of them to a key of another user's; 4 insertions, a restart | `MapsAgree`, `RegisteredProvable`, `UsersSurviveRestart` | hold |
| `registration_taken_key` | the same without the restart | `OneOwner` | violated |
| `attestation` | 2 notes, 2 blocks of one or two events, two polls in flight, automatic and manual attestation, claims, requests for the history, a crash, a failing call | `StoredTwiceOnlyIfFoundTwice`, `NothingMissed`, `AttestedOnChain`, `AttestedOnlyVerified`, `HistoryNeverTakesBack` | hold |
| `attestation_manual` | manual attestation only, one poll, 3 blocks | `ManualAttestAccepted` | violated |
| `wallet_session` | 2 accounts, 2 reads of the signer in flight, tasks of one kind at a time, 3 interruptions (switch of account or network, revocation, disconnect, reload) at any await | `MisfiledOnlyWhenCrossed`, `UiAgreesWithClient`, `FollowsWallet`, `StaysDisconnected`, `ShownIsOwn` | hold |
| `client_flows` | 3 flows in flight over 2 payments and a note, 2 mountings of the view, a balance of 3; fair | `CompletedNeverOffered`, `ReportsAreTrue`, `PaidOnceUnlessUnseen`, `NoApprovalLeft`, `ProverReadyMeansLoaded`, `PageUnlocks` | hold |
| `note_path` | 3 deposits to 2 users, one of whom has 2 pairs of keys, one of an amount beyond the circuit's integers; 2 view tags, a window of 1 leaf; 2 registrations, a restart, a failing submission; trees of one depth; the 13 test vectors | `FoundByRecipientOnly`, `InputsSatisfyCircuit`, `ProofRootArrives`, `OperatorVerifies` | hold |

What the properties of the client say, in short. `MisfiledOnlyWhenCrossed`: cache
and operator get one account's keys with another's address only if the client
took another wallet while those keys were being signed. `UiAgreesWithClient` and
`FollowsWallet`: a connected page shows the account the client acts for, and in
the end the one exposed, unless it was disconnected while a connect was on its
way. `ShownIsOwn`: link, notes, transactions and balance on the page are those of
the account connected, unless the task that brought them was crossed by a change
of wallet before its answer, or the account was revoked before; `StaysDisconnected`: nothing
of an account comes back onto a page that was disconnected, with the same
exceptions. `ReportsAreTrue`: a flow reports success of what was mined and failure
of what was not, unless the receipt was lost; `PaidOnceUnlessUnseen`: a payment
is made twice only if the user could not see the first one; `NoApprovalLeft`:
deposits that all succeed leave no allowance, in whatever order they took it;
`PageUnlocks`: the dialog of a withdrawal, which cannot be closed, ends.

**Bounds.** Three deposits into trees of two leaves rotate in the middle of a
batch; two notes with one nullifier and a third make every path compete with
every other; amounts and payments of 1 and 2 give deposits that overstate,
understate or say what they commit to. With a `u64` of 7 the amount 8 is the one that the circuit sees
as 1; in `note_path` the amount 5 is 1 modulo 4. Time 2 with a window of 1 lets a withdrawal be initiated before and after
another one expired. Seven insertions into trees of four leaves fill a tree,
rotate, and almost fill the next; a shift of 4 bits computes the sizes of trees
of depth 1 and 2 and fails at depths 3 and 4 as 32 bits do at 31 and 32. Batches
of two and two deposits give both triggers (full batch and timeout), a deposit
after a proposal and one during a submission; a poll and a request give both
crossings. Two blocks of two notes allow
deposit and withdrawal in one block and in two, and a block mined at each await of a
scan. Two accounts are the one left and the one switched to; two reads of the
signer are a change and the one after it, or a change and a connect. Three interruptions
are a switch, a revocation or a disconnect, one more that follows it, and a
reload that shows what was cached. Tasks of different kinds at a time
are left to the theorems, which bound nothing. Three flows are two deposits and a withdrawal, two withdrawals of one note and a
disposal, or a load under each. With two view tags every tag collides with
another user's, and a window of one leaf cuts notes off. The constants bounded
for TLC only are named `Max...`, or `Flows` and `Scans`. `attestation` uses the
symmetry of notes and of polls, and a view that leaves out local variables no
task reads again before it sets them; `wallet_session` uses the symmetry of accounts. Neither checks
liveness.

**Tasks** of the sequencer interleave at every await: nothing in the code keeps
polls and requests apart, and no run and no theorem assumes it.

**Failures** of the first scan at the start are left out of `attestation`
(`Exposed = {p1, p2}`), and it is given `--from-block` as `scripts/dev.sh` and
`docker-compose.yml` do; see section 5.

**Fairness.** `EventuallySettled` assumes that blocks are mined and that somebody
calls `claimWithdrawal`, which is open to everybody; nothing is assumed of the
operator. It excepts a withdrawal that the pool is short of because of an
overstated deposit. `EveryDepositProcessed` assumes weak fairness of every task (an await
returns), of the batch timeout (time passes) and of the start, and strong
fairness of starting a poll: `setInterval` fires for ever, and requests that
come in between cannot keep it out. It excepts a deposit that waits for the next
one after a restart or after an insertion during a submission, and commitments
that two loops have inserted twice, see section 5. `PageUnlocks` assumes that the user answers
the wallet, and that server and chain answer, with success or failure. No
fairness makes calls succeed; the failures of the sequencer's are bounded.

**Deadlock** is checked in all passing runs but `registration`, `note_path` and
`client_flows`, where everything the bounds allow may be done.

## 4. Theorems

Checked by `tlapm`, for all values of the constants that satisfy the named
assumptions, hence for any number of notes, deposits, users, accounts, tasks in
flight, interruptions, crashes and failures. Each one that has a run's property was checked by that run first.

| Module | Theorem | States |
|---|---|---|
| `PrivacyPoolProofs` | `TypeCorrect` | `Spec => []TypeOK` |
| | `SolventCorrect`, `PaidOnceWithinNoteCorrect`, `PaidAsInitiatedCorrect`, `LeafStaysProvableCorrect` | `Spec => []` of the property of that name |
| | `TermsFrozenCorrect` | `Spec => TermsFrozen` |
| | `ExpiredIsAcceptedCorrect` | `Spec => []ExpiredIsAccepted`: `ExpiredIsClaimable` with the guard of `ClaimWithdrawal` for `ENABLED` |
| `ChainSyncProofs` | `OnlyLoopsSpoilTreeAlways`, `NeverAheadOfChainAlways`, `OnlyCrossingsMisstateRootAlways` | `Spec => []` of the property, whatever interleaves |
| | `ImplementsView` | `Spec => ImplementsMaterializedView`, whatever interleaves |
| | `NeverTornAlways`, `SavesAreAtomic` | a path never holds a partial text; `Store` implements `Cells` |
| `AttestationProofs` | `TypeCorrect`, `AttestedOnChainAlways` | `Spec => []` of `TypeOK` and `AttestedOnChain` |
| | `AttestedOnlyVerifiedAlways` | `Spec => AttestedOnlyVerified` |
| | `NothingMissedAlways`, `HistoryKept` | `Spec => []NothingMissed`, `Spec => HistoryNeverTakesBack`, if `FromTheStart` |
| | `StoredTwiceOnlyIfFoundTwiceAlways` | `Spec => []StoredTwiceOnlyIfFoundTwice` |
| `NotePathProofs` | `MapsAgreeAlways` | `Spec => []MapsAgree` |
| | `RegisteredProvableAlways`, `UsersSurvive` | `Spec => []RegisteredProvable`, `Spec => UsersSurviveRestart`, if `Room` |
| | `ServedRootSubmittedAlways` | `Spec => []ServedRootSubmitted` |
| | `CopiesAgree`, `OperatorReadsSecrets`, `RecipientReadsNotes` | the hashes of SDK, operator and circuits agree; what is encrypted for the operator, and for the recipient, is read with their key and no other |
| | `PathRegisters` | `SpecNotes => Spec`: the path refines `Registration` |
| | `InputsSatisfyCircuitAlways`, `ProofRootArrivesAlways`, `OperatorVerifiesAlways` | `SpecNotes => []` of `InputsSatisfyCircuit`, `ProofRootArrives`, `OperatorVerifies` |
| | `FoundByRecipientOnlyAlways` | `SpecNotes => []FoundByRecipientOnly`, if `OperatorKeyApart` |
| `WalletSessionProofs` | `TypeCorrect` | `Spec => []TypeOK` |
| | `Misfiled`, `UiAgrees`, `Follows`, `Disconnected`, `OwnShown` | `Spec => []` of `MisfiledOnlyWhenCrossed`, `UiAgreesWithClient`, `FollowsWallet`, `StaysDisconnected`, `ShownIsOwn` |
| `ClientFlowsProofs` | `TypeCorrect` | `Spec => []TypeOK` |
| | `TrueReports`, `PaidOnce`, `ApprovalsUsedUp`, `NeverOfferedAgain`, `ReadyIsLoaded` | `Spec => []` of `ReportsAreTrue`, `PaidOnceUnlessUnseen`, `NoApprovalLeft`, `CompletedNeverOffered`, `ProverReadyMeansLoaded` |
| `TreeProofs` | `ContractInvariant`, `MirrorInvariant` | `Spec => []ContractInv`, `MirrorSpec => []MirrorInv`: the inductive invariants of the contract's tree and of the mirror |
| | `TreeImplementsCommitmentTree` | `Spec => ImplementsCommitmentTree` |
| | `ProvableLeavesInserted` | `Spec => []ProvableAreInserted` |
| | `ServedProofsLead` | `MirrorSpec => []ServedProofsVerify` |
| | `MirrorRootsKnown` | `MirrorSpec => []RootKnownIfSameDepth`, for every two depths, if no commitment is the hash of two nodes |
| | `SdkTreeMatches` | `Spec => []SdkTreeAgrees`, if `PerfectHash` and `Depth < ShiftWidth - 1` |
| | `PermutationsAgree`, `HashesAgree` | the contract's permutation and hashes are those of the sequencer |

### The pool

**Assumptions**, named in `PrivacyPool` and evaluated by TLC on each instance:
the pool's address is not a user's nor 0; amounts are naturals and denominations
positive and below 2^64; all deposits together stay below 2^64 token units
(`SupplyAssumption`: else a proved amount that wraps in the circuit could be
payable); the constructor's checks. Nothing is assumed of a depositor: any
commitment may be deposited for any allowed amount, since the contract sees a
hash. `announced` has the amount paid in for each leaf and `Overstated` by how much
a leaf commits to more; `Solvent` says that balance and overstatements together
cover what is outstanding, so with honest depositors it is solvency proper, and
no withdrawal of anybody makes it worse.

**Argument.** None of the properties is inductive by itself. The invariant is

    Inv == TypeOK /\ RootsSound /\ LeavesPriced /\ LeafStaysProvable
           /\ Untouched /\ InitiatedBacked
           /\ PaidOnceWithinNote /\ PaidAsInitiated /\ PoolBounded /\ Solvent

* `RootsSound`: the roots known have only inserted leaves, so a proof is about a
  deposited note; `LeavesPriced`: for every leaf a denomination was paid in,
  whatever it commits to.
* `Untouched`: an unused nullifier has neither a record nor a payout, so a fresh
  nullifier finds the whole note still outstanding; `InitiatedBacked`: a record
  names a used nullifier and an amount within a deposited note.
* `PoolBounded`: the pool never has more than was paid in, hence less than
  2^64; an amount that is cut off modulo 2^64 is then larger than the balance,
  and its transfer reverts. That is why the truncation in the circuit is harmless.

`InvStep` has one case per action; the step lemmas of deposit, withdrawal,
multi-note withdrawal, initiation and completion carry the arithmetic. `Solvent`
is a sum over the leaves: `SequenceSumsProofs` proves what is needed of it
(existence of the recursive function, concatenation, and that a payment which
clears an entry lowers the sum by it: `SeqSumDrop`). A withdrawal with several
notes drops its slots one after the other (`SlotDrop`).

`ExpiredIsAccepted` names the conditions a claim is subject to (`ClaimAccepted`:
the window, the open record, the balance), since the prover has no `ENABLED`. The
record is backed by a leaf nobody was paid for, whose amount is one of the terms
of the sum that `Solvent` bounds; so a claim finds the balance too small only if
the missing money was committed to and never paid in (`ShortByOverstatement`).

### Chain synchronisation

Tasks interleave in any way. `crossed` remembers into which awaits of a task
another one inserted a leaf. Two of them are gaps: the loop of insertions, whose
bounds were read before (`InsertedTwice`), and the one between the two reads of a
submission (`Miscounted`); `Unguarded` lists all awaits a leaf may fall into, and
the others do no harm. The invariant is

    IInv == ChainOK /\ SyncOK /\ local's types /\ Turn /\ Where /\ (Started => ...)

`ChainOK` and `SyncOK` say of chain, tree and disk that leaves are commitments of
the queue, and those of a prefix until a gap was hit; `lastProcessedIndex`, in memory
and on disk, never exceeds `Known`, the later of what the chain has processed and what it
has a proposal for, gap or no gap. `Where` says what a suspended task may rely on: what it
read of the chain was so and has only grown; the number of leaves a submission
counted is that of the tree when the root is read, unless `Miscounted`. Once the
start-up sequence has inserted what the chain knew of (`Started`) the tree has at
least `Known` leaves. That last part is what a restart from a tree that is behind
needs: nothing else says that the index restored from the chain is within the
tree. A confirmation is then a `Publish` of `MaterializedView`, a deposit an
`Enqueue`, a leaf that falls into a gap a `Cross`, a confirmation after that a
`PublishSpoiled`, all else a stutter.

### Attestation

For the types and the two theorems on attestations there is no assumption beyond
the types of the constants: polls and manual requests may overlap. The invariant
adds to the types that a task about to attest has passed the gate with the
secrets and notes as they are now (`Gated`), which holds on because both only
grow until a crash, and a crash ends the task; that one back from a mined
transaction has attested, whatever a claim did before; that nothing runs before
the state was read from disk (`BootsAlone`); and, for the types, that a scan went
no further than the chain (`Bounds`).

`StoredTwiceOnlyIfFoundTwiceAlways` has no assumption either. `UInv` adds to it
that a note is deposited once (`DepositedOnce`, from the contract's commitment
set), that what a suspended scan found is still unstored when it goes on (`Fresh`)
and not what another one found (`Shared`), but for the notes of `foundTwice`, and
that memory and disk have each note once but for those (`StoredOnce`). A query then
yields each deposit once (`EventsDistinct`), which rests on a lemma about joined
sequences (`FlattenDistinct`), proved over the prefixes the definition of
`FlattenSeq` builds.

`NothingMissedAlways` and `HistoryKept` assume `FromTheStart`: `--from-block` is
the first block of the contract, as the scripts give it, and the first scan after
a start gets its answers (section 5 says what happens else). Polls may overlap,
fail and be cut short by crashes. `CInv` adds, of what the scans went past:

* notes are stored, or found by the scan that is about to store them
  (`NotesCovered`). A scan starts behind `lastScannedBlock`, or at the first
  block; the last block it read may be behind one that an overlapping scan has
  reached, which is harmless since the field goes back with it;
* withdrawals are recorded, or in the part of a scan's list that its loop has not
  examined (`WithdrawalsCovered`), which an attestation in the middle of the loop
  only shortens by what was recorded.

For the history it adds that whatever is recorded or told is in the chain
(`OnlyInitiated`), so that the first scan after a crash finds it again before the
server listens (`MainAlone`, `ToldAgain`); that what is told as attested is
attested on disk (`SavedFirst`), since `attest` saves in the step in which it
sets the status; and that an answer being prepared contains the last one given.
`QueryCovers` is what the invariant needs of a query: its events, with what was
covered before its first block, cover the chain. It rests on `FlattenCovers`,
that the joined sequence has the members of each.

### Registration

Addresses may present any keys, also each other's. The maps are each other's
inverse on the current keys, but for the keys that a known address took although
they were registered (`takenOver`). With `Room`, no more registrations than the tree
holds, the index names for every registered key the leaf that holds it, through
changes of keys (which leave old leaves behind) and the rebuild from the list of users.

### Session

There is no hypothesis about the user or the extension: any number of accounts,
reads, scans, tasks and interruptions, at any await. What the code gets wrong is in the
properties, by the history variables of section 2.

    ClientInv == QueueOK /\ KeysOK /\ PageOK /\ FollowOK

is inductive for the client. The reads of the signer come back in the order they
were asked in, so what was read after the last change is the account exposed
(`Current`, in `QueueOK`): that is what makes the client right when the queue is empty
(`FollowsWallet`) although it adopts whatever comes. One connect at a time waits
for its read. A signature that is awaited is that of the client's wallet or was
crossed (`KeysOK`), and then its signer is recorded when it comes, although the
handler reads the address after the await; the keys held are the wallet's or
misfiled. The provider listens unless the page is spoiled, which takes a connect
that was crossed by a disconnect (`PageOK`).

    ViewInv == ActsOK /\ AloneOK /\ ReadsOK /\ BareOK /\ CardsOK

is what the view adds. A task that was not crossed acts for the wallet the client
has now (`ActsOK`); without an account to show there is none, or cards that were
never cleared (`AloneOK`, `BareOK`); a balance being read is that of the account
shown (`ReadsOK`, since leaving the tab and the account stop the read). So cards that are not
spoiled are the account's once the effect has run (`CardsOK`): the effect clears
the page on a change from one account to another only, and spoiled is what it
does not see.

### Flows of the page

`FlowsAssumption` gives the types of the constants: no bound on flows, payments,
notes, mountings or the balance. The invariant ties each place in the code to the
chain: a deposit is in the pool exactly when its flow waits for a receipt, is done
or has lost it (`LeavesOK`), likewise for nullifiers (`SpentOK`). `DialogsOK` then
says that the two dialogs tell of a flow of this view what became of it, and that
a running withdrawal has the dialog, which is why there is one at a time.
`ApprovalOK` is the strengthening of `NoApprovalLeft`: an approval left over is
covered by a deposit that is about to use it up, or some deposit has failed; two
deposits that overwrite each other's approval keep it because `approve` sets and
does not add. `PaymentsOK` says that a view runs one deposit and pays a payment
once as far as it can see, `WithdrawnOK` that it remembers what it saw complete,
whatever scan answers late.

### The way of a note

**Assumptions.** `NotePathAssumption` says where keys, fields and amounts come
from: an address presents the keys derived from its own signatures, addresses
and amounts are field elements, payments go to derived keys and are positive.
Nothing is assumed of the number of payments, withdrawals, view tags or leaves a
scan covers, nor that addresses have keys of their own or that the registration
tree has room. `OperatorKeyApart`: no payment is to the operator's own key, which
it could of course read; the operator opens notes with the private key of its
wallet (`sequencer/src/operator.ts:571`), users derive theirs from signatures. Cryptography is perfect, as in `Primitives`.

**Argument.** It has three layers.

* *Bytes.* A deposit is a sequence of segments, some of them absent. `SliceOfSegment`
  and `OffsetsOfNote` show that the offsets the SDK and the operator cut at
  (`ParseEncryptedNote`, `ParseOperatorNote`) are those where `PackNote` and
  `PackOperatorNote` put things, with and without the operator's part.
* *Keys.* `Opened`: a key finds in the deposit after n others exactly the note
  that was put there if it is the recipient's, else nothing, also when view tags
  collide. `OpenedByOperator` says the same of the operator's part. `CopiesAgree`
  makes the circuit's and the operator's hashes those of the SDK.
  `NullifiersDiffer` and `ComplianceHashesDiffer`: two deposits share neither,
  since their secrets differ, whatever else is equal.
* *Steps.* The invariant

      PathInv == Registrations /\ LeavesMade /\ Counted /\ PendingMade /\ FlowsMade

  says what the properties leave open and every step needs: `LeavesMade`, a leaf
  is what its depositor put together; `Counted`, tree and scanner are behind the
  chain, never ahead; `PendingMade`, an accepted withdrawal has the nullifier and
  the compliance hash of the note of its leaf; `FlowsMade`, a withdrawal under way
  holds a note its scan found with its own key (`Prepared`), and once it has both
  proofs they are of its leaf and of its key, with a root that has arrived or will
  unless something failed since (`Proved`). `Registrations` is what the registration
  proofs rest on without the hypothesis `Room`: each index names
  a leaf with its key, however often keys change, and the root served was
  submitted (`ServedRootSubmitted`). That roots on their way stay so (`RootsStay`)
  needs the count of restarts, which is why a withdrawal remembers the one at
  which it got its proofs.

`InputsSatisfyCircuit` then is the constraints, one by one: the Merkle root of a
leaf that is already in the tree is that of the tree, and the commitment in the
tree is the one the recipient computes. It is an equivalence: the inputs satisfy
the circuit if the sequencer's tree has the depth of the circuit's paths and the
amounts compare modulo 2^64 as they have to, and in no other case. With the
depths of the code, 32 and 20, it says that no input does (section 5).

### Trees

**Assumptions.** `TreeAssumption` and `MirrorAssumption`: the depths are positive,
the empty leaf is no commitment. `MirrorRootsKnown` says for every two depths that
the contract knows the mirror's roots if they are equal and never else; for the
second half it takes that no commitment is itself the hash of two nodes (they are
hashed in different domains). `SdkTreeMatches` needs that the empty leaf and
what JavaScript reads outside an array are no hashes (`PerfectHash`), and that the
contract's depth is one that the shift can compute the size for (20 in the code,
where the shift has 32 bits). Nothing bounds depth, insertions, rotations,
exports or restarts.

**Argument.** A recursive definition is a choice of a function that satisfies its
equation. That there is one is proved by induction over the levels for each of
them (full tree, empty subtrees, path, the loops of contract and mirror, the
SDK's levels); from then on only the equations of the levels are used
(`TreeRules`, `PathRules`, `ClimbRules`). The induction is over sets of naturals
(`SetInduction` of `SequenceSumsProofs`).

* *The full tree.* `AppendedLeaf`: a new leaf changes only the nodes above it;
  `EmptySubtrees`: right of the last leaf all nodes are hashes of empty subtrees.
  `PathLeadsToRoot` and `PathFromRoot`: the siblings of the tree lead from a leaf
  to the root, and nothing else leads there with the same bits, whatever the
  siblings. So a root determines its leaves (`TreeLeavesInjective`), which is why
  the pool may take the leaves for the root.
* *The contract.* None of the properties is inductive, since none says what
  `filledSubtrees` holds. The invariant

      ContractInv == TypeOK /\ CountsMatch /\ NodesMatch /\ RootsMatch

  says that at each level at which the next index is a right child, the stored
  node is its left sibling in the full tree (`Filled`). The other entries, left
  over from earlier insertions, may be anything, and so are never read. `Stored`
  is the invariant of the loop of `_insert`. `CountsMatch` ties the number
  of the current tree to the number of leaves, so that after a rotation the
  leaves of the tree are those after the last full one.
  The refinement then is that the roots known are those of the trees after every
  leaf, and no other sequence of leaves has such a root.
* *The mirror.* `MirrorInv` says that the nodes in memory, and those in the file,
  are the full tree over a prefix of the contract's leaves, defaults where
  nothing was set, and that the root is that of this tree. It holds on when the
  contract goes on (`MirroredStays`), and a restart takes the root from the top
  node. With equal depths that prefix was the content of the contract's first
  tree at some time. With others the leftmost nodes below the two roots (a leaf in
  the shallower tree, a node in the deeper one) would be equal if the roots were
  (`LeftmostIsHash`).
* *The SDK.* Where the size is a power of two its nodes are those of the full
  tree (`BuildAgrees`). At the shift's width the size is the number of leaves
  (`BuiltPlaces`), and a level above the contract's tree has no second node; the
  reference has one. A sparse proof pairs with the empty leaf at every level, the
  contract with the hash of an empty subtree.

### Store and hash

* `SavesAreAtomic` is the reason why a save is one assignment in all other
  modules: every step but the rename leaves the readable value of a path alone.
* `HashesAgree` is the reason why one hash serves for the contract and the
  sequencer in `MerkleHash`. The contract computes the external and internal
  layers with fewer additions than the matrices have, reduces after each, and
  unrolls the rounds; the sequencer leaves the permutation to bb.js, which is
  modelled by its matrices. The proof is a congruence modulo the prime of each
  layer, and an induction over the rounds.

### Model-checked only

`ExpiredIsClaimable` as it stands (it uses `ENABLED`, see the pool above) and the
liveness properties (`EventuallySettled`, `EveryDepositProcessed`, `PageUnlocks`)
are out of the prover's reach. All other safety properties that hold in a run are
theorems. The labels of the test vectors are evaluated.

## 5. Where the code and its documents disagree

Each of these is the counterexample of a run (`PROJECT.json`, findings, with the
quotes):

* The sequencer's tree has depth 32, the contract's and the circuits' 20
  (`tree_mirror_depth`). So no root it serves is known to the contract, and no
  inputs the client builds from its paths are inputs of the circuit: with
  `ServedDepth = 3` in `MCNotePath.cfg` `InputsSatisfyCircuit` says that none satisfies it,
  and no withdrawal is accepted.
* `submitRoot` reads `processedUpTo` before an await and the root after it; with
  a `GET /proof` in between, a root is proposed for one leaf fewer than it has,
  and the operator confirms what it reads back (`chain_sync_stale_count`).
* A known address may take over another user's registered key
  (`registration_taken_key`).
* Manual attestation is always refused with `no_depositor`
  (`attestation_manual`).

The others are not runs of their own. They are behaviours of the same modules
with other constants, or are written into a property as the case it excepts.

**Pool**

* `deposit` and `batchDeposit` (`PrivacyPoolV2.sol:99-135`) check the amounts announced, not
  those the commitments hold, and the circuits prove the latter: a depositor who
  commits to more than was paid in leaves the pool short for the others. `Solvent`,
  `ExpiredIsClaimable` and `EventuallySettled` hold up to that amount (`Overstated`).
* A withdrawal initiated for recipient 0 is accepted and can never be completed,
  although `docs/spec/withdrawal.feature:80-84` lets anyone claim after the
  timeout. `ExpiredIsClaimable` and `EventuallySettled` except it.
* A withdrawal of a part of a note uses up its nullifier: the rest stays in the
  pool for good. The properties bound what is paid from above only.

**Sequencer**

* Overlapping tasks insert commitments twice into the tree (`TreeIsQueuePrefix`
  in the place of `PublishedAsProcessed` in `MCChainSyncStaleCount.cfg`), and overlapping polls
  store a note twice (`NotesUnique` in `MCAttestation.cfg`).
* After a shutdown with unsubmitted leaves in the tree, or when a leaf is inserted
  during a submission, `pendingDeposits` is 0 and they wait for the next deposit:
  the case `AwaitsNextDeposit` that `EveryDepositProcessed` excepts.
* When the first scan fails and nothing is on disk, or no `--from-block` is
  given, earlier events are never seen (`Exposed = {main}`: `NothingMissed`).
* A registration at a full tree sets both maps and then throws (`Capacity`
  reached: `RegisteredProvable`, and the assumption `Room`).
* After a change of keys the registration tree rebuilt by a restart has another
  root than before; the new root is submitted.
* A failed submission of a registration root is only logged: withdrawals proved
  against that root fail until the next registration (`ProofRootArrives` excepts
  failures).
* `updateStatus` (`operator.ts:288`) is never called, so a withdrawal's status
  never becomes `claimed` or `expired` as `docs/design/sequencer.md:161` has it.
* `GET /history` answers 200 without the deposits when the node fails.
* `POST /operator/decrypt` tries the format of a recipient's note
  (`crypto.ts:337`) with the operator's key; the SDK encrypts that note for the
  recipient, so the handler opens none of them (`FoundByRecipientOnly`), and the
  operator's own note has a shorter format it does not read.
* `readJson` returns null for a file it cannot read at the moment, too; the next
  save replaces what was there. `NeverTorn` says that no torn file is the cause.

**SDK and test vectors**

* `deriveKeys` is called deterministic (`sdk/src/core/keys.ts:59-60`); a wallet
  that does not sign the same twice gets other keys, which is why one user has
  two pairs in `note_path`. The address they are cached and registered under is
  read after the signature (`sdk/src/client.ts:116`): with a switch of the account in
  between they go with another one's address (`KeysStayOwn` in `MCWalletSession.cfg`).
* `notes.ts` announces "3. Verify commitment", computes the commitment and
  compares it with nothing. `FoundByRecipientOnly` holds because decryption
  fails with another key.
* `scanNotes` looks at the newest 100 leaves unless told otherwise and the page
  does not tell: older notes are not listed (`ScanWindow`).
* `buildMerkleTree` with its default depth 32 shifts by 32 and builds a tree of
  one leaf, and `generateSparseProof`, "when only one deposit exists", leads to
  no root of the contract (`SdkTreeAgrees` states both exactly).
* `sequencer/src/crypto.ts:169` has a copy of `buildMerkleTree` that nothing
  calls, and draws an ephemeral key with `randomPrivateKey` at :309 and with
  `randomSecretKey` at :402.
* The test vectors have paths of the script's 32 levels, the circuit has 20: a
  circuit of 32 levels accepts or refuses each one as labelled, for one of 20 none
  is an input (`TestVectors` states both).

**Flows of the page**

* A transaction is mined, its receipt is lost, the page says it failed, and the
  user pays again. `ReportsAreTrue` and `PaidOnceUnlessUnseen` except exactly
  this, and a flow whose view was left.
* Two deposits in flight overwrite each other's approval; one of them then fails,
  and an allowance may be left. `NoApprovalLeft` is about those that all succeed.
* A prover loaded by a preload and one loaded by a withdrawal at the same time
  are both created, and one is never destroyed; a disposal under a withdrawal
  makes `generateProof` throw. `ProverReadyMeansLoaded` excepts disposal only.
* No part of the page calls `claimWithdrawal`: a user whose withdrawal the
  operator ignores needs another client.
* `loadHistory` may drop an item that was added while it was fetching, shows the
  answer that comes last rather than the one asked for last, and lists a
  withdrawal that was only initiated as completed.

**Interruptions of a session.** Handlers that resume use the client as it is by
then. All of these are in `wallet_session`; the properties say what can come of them,
and of nothing else:

| Interrupted task | by | what can come of it | in the properties |
|---|---|---|---|
| signature | switch | keys and link under another account, in the cache, at the operator and on the page | `misfiled`, `cardsSpoiled` |
| signature, registration | revoke or disconnect | the link appears on a page without an account | `cardsSpoiled` |
| connect | disconnect | the page shows the account that was picked and does not follow the extension | `pageSpoiled` |
| scan, history, transfer | switch | notes, transactions or balance of the account left on the page of the new one | `cardsSpoiled` |
| scan, history, transfer | disconnect or revoke | they appear on a page without an account | `cardsSpoiled` |
| anything shown | revoke | it stays, also under the account connected next: the effect that clears the page runs on a change from one account to another | `cardsSpoiled` |

The flags last no longer than what they excuse: until the page is disconnected
once more, or the cards are empty again. `misfiled` lasts, as the cache and the
operator's list do. The module takes for granted that the extension answers in
the order it was asked, and that effects run before the user's next event and
before the extension's next answer.

## 6. Not modelled

* The proof system, the generated `UltraVerifier.sol`, the elliptic curve and
  the ciphers: assumed perfect (`Primitives`). The constants of Poseidon2 are
  parameters, since no property depends on their values.
* The landing and documentation pages, translations and layout of the frontend:
  static content without state of the pool. The wiring of the deployment scripts
  sets constants.
* Authentication, CORS and parsing in the HTTP API; the text of log lines.
* Minting of the test token, gas, chain reorganisations.
* `cancelProposedRoot` of the queue contract: no code of the repository calls it.
* Two tabs or two devices of one user, but for the keys of a second device in
  `note_path`.
* A tree of the sequencer past the contract's first rotation (it throws, or goes
  on with the leaves of two trees), a registration tree at its capacity, and
  operator notes that do not decrypt are outside the bounds of the passing runs.

## 7. Plan

Done, in this order: pool contract with its proofs; trees; chain synchronisation;
registration; attestation; the SDK's and the page's sessions and flows; the way
of a note through the three copies of its cryptography; hash and store; proofs
for registration, attestation, chain synchronisation, the session and the flows
of the page, the way of a note, and the trees of any depth.

What would come next:

1. The mirror past the contract's first rotation, once the sequencer has one.
2. Two tabs that share one key cache.
