--------------------------- MODULE WalletSession ---------------------------
(***************************************************************************)
(* One browser tab: the wallet extension, the LatentClient of the SDK, the *)
(* LatentProvider that mirrors it in React state, and the view that shows  *)
(* the payment link, the received notes, the list of transactions and the  *)
(* token balance of the connected account.                                 *)
(*                                                                         *)
(* Every await is a point where another handler may run: the account       *)
(* picker, the reads of the signer, the signature, the registration, the   *)
(* scans, a transfer and the reads of history and balance are tasks, and a *)
(* handler that resumes reads the fields of the client as they are by      *)
(* then.  The keys of account a are written a: deriveKeys is a             *)
(* deterministic function of its signature.                                *)
(***************************************************************************)
EXTENDS Naturals, Sequences, SequencesExt, FiniteSets

CONSTANTS
  Accounts,        \* the accounts the user holds in the extension
  None,            \* no account, no keys, no link
  Unread,          \* a signer that has not been read yet
  MaxReplies,      \* bound: reads of the signer in flight
  Scans,           \* bound: the scans that may be in flight at once
  MaxTasks,        \* bound: the kinds of tasks in flight at once
  MaxInterrupts    \* bound: the interruptions in a run

ASSUME NoneAssumption ==
  None \notin Accounts /\ Unread \notin Accounts \cup {None} /\ Accounts \cap {"no", "fetch"} = {}

VARIABLES
  account,       \* the account the extension exposes to the site
  replies,       \* reads of the signer in flight, answered in order
  wallet, keys,  \* LatentClient.walletState.address and LatentClient.keys
  cache,         \* the keys in localStorage, by address
  sent,          \* the registrations <<address, keys>> sent to the operator
  disconnected,  \* disconnectedRef of the provider
  address, hasKeys,               \* React state of the provider
  tab,
  link, notes,                    \* whose link and whose notes are shown
  history, balance,               \* whose transactions, whose balance
  prevAddress, autoScanned, historyLoaded, isScanning,  \* refs and state of the view
  connecting,    \* "no", "picker" or "read"
  deriving,      \* handleGenerateKeys: "no", "sign" or "register", its signer
  scans,         \* each scan: "no", "fetch" or the keys it decrypted with
  loads,         \* the accounts whose history is being fetched
  reads,         \* those whose balance the open tab is reading
  sending,       \* the account of the transfer under way
  lastRead,      \* the account whose balance is read after a transfer
  interrupts,    \* how many interruptions there were
  \* History, read by the properties alone:
  crossed,       \* the tasks whose wallet changed while they were awaited
  misfiled,      \* the accounts whose signature came to a crossed derivation
  pageSpoiled,   \* a crossed connect put its account on a disconnected page
  cardsSpoiled   \* a crossed task or a revocation left the cards as they are

external == <<account, sent>>
client == <<wallet, keys, cache>>
provider == <<disconnected, address, hasKeys>>
received == <<link, notes, autoScanned, isScanning>>
activity == <<history, balance, historyLoaded>>
view == <<tab, received, activity, prevAddress>>
traffic == <<loads, reads, sending, lastRead>>
tasks == <<replies, connecting, deriving, scans, traffic>>
past == <<interrupts, crossed, misfiled, pageSpoiled, cardsSpoiled>>
vars == <<external, client, provider, view, tasks, past>>

Owners == Accounts \cup {None}
Tabs == {"receive", "send", "history"}
Idle == [at |-> "no", signer |-> None]
Read(by) == [by |-> by, account |-> Unread]

TypeOK ==
  /\ {account, wallet, keys, address, link, notes, prevAddress,
      balance, sending, lastRead} \subseteq Owners
  /\ history \cup loads \cup reads \subseteq Accounts /\ tab \in Tabs
  /\ cache \in [Accounts -> Owners]
  /\ sent \subseteq Accounts \X Accounts
  /\ {disconnected, hasKeys, autoScanned, historyLoaded, isScanning} \subseteq BOOLEAN
  /\ replies \in Seq([by : {"event", "connect", "reload"}, account : Owners \cup {Unread}])
  /\ connecting \in {"no", "picker", "read"}
  /\ deriving \in [at : {"no", "sign", "register"}, signer : Owners]
  /\ scans \in [Scans -> {"no", "fetch"} \cup Accounts]
  /\ interrupts \in Nat /\ crossed \subseteq {"connect", "derive", "scan", "history", "send"}
  /\ misfiled \subseteq Owners /\ {pageSpoiled, cardsSpoiled} \subseteq BOOLEAN

(* The tab of a fresh page depends on its URL.                             *)
FreshTab == {"receive", "send"}

(* A fresh page with an empty localStorage, before its silent reconnect.   *)
Init ==
  /\ account \in Owners /\ sent = {}
  /\ wallet = None /\ keys = None /\ cache = [a \in Accounts |-> None]
  /\ disconnected = FALSE /\ address = None /\ hasKeys = FALSE
  /\ link = None /\ notes = None /\ prevAddress = None
  /\ autoScanned = FALSE /\ isScanning = FALSE
  /\ tab \in FreshTab /\ history = {} /\ balance = None /\ historyLoaded = FALSE
  /\ loads = {} /\ reads = {} /\ sending = None /\ lastRead = None
  /\ replies = <<Read("reload")>> /\ connecting = "no" /\ deriving = Idle
  /\ scans = [s \in Scans |-> "no"]
  /\ interrupts = 0 /\ crossed = {} /\ misfiled = {} /\ pageSpoiled = FALSE /\ cardsSpoiled = FALSE

(***************************************************************************)
(* The user and the extension.                                             *)
(***************************************************************************)
(* The effects of the last change of state have run: they do within one    *)
(* frame, before the user's next event or the extension's next answer.     *)
Rendered == address = prevAddress /\ ~(hasKeys /\ link = None)

(* The site is told of a change: onWalletChange reads the signer anew.     *)
Expose(a, more) ==
  /\ account' = a
  /\ replies' = replies \o (IF a = account THEN <<>> ELSE <<Read("event")>>) \o more
  /\ Len(replies') <= MaxReplies

SwitchAccount(a) ==
  /\ account # None /\ a # account
  /\ Expose(a, <<>>)
  /\ UNCHANGED <<sent, client, provider, view, connecting, deriving, scans, traffic>>

(* Whose data the cards of the page show: the payment link, the received   *)
(* notes, the balance beside the amount and the list of transactions.      *)
Shown == ({link, notes, balance} \cup history) \ {None}

(* The wallet is locked or the site's permission withdrawn.                *)
Revoke ==
  /\ account # None
  /\ Expose(None, <<>>)
  /\ UNCHANGED <<sent, client, provider, view, connecting, deriving, scans, traffic>>

(* switchChain, or the user, changes the network: the site is told as it   *)
(* is of a change of account.                                              *)
SwitchChain ==
  /\ Rendered /\ address # None /\ account # None
  /\ replies' = Append(replies, Read("event"))
  /\ Len(replies') <= MaxReplies
  /\ UNCHANGED <<external, client, provider, view, connecting, deriving, scans, traffic>>

(* The first read that is still open takes the account exposed now.        *)
ReadSigner ==
  /\ \E i \in DOMAIN replies :
       /\ replies[i].account = Unread
       /\ \A j \in 1 .. (i - 1) : replies[j].account # Unread
       /\ replies' = [replies EXCEPT ![i].account = account]
  /\ UNCHANGED <<external, client, provider, view, connecting, deriving, scans, traffic>>

(***************************************************************************)
(* connect and reconnect.                                                  *)
(***************************************************************************)
(* (mutant: the provider goes on ignoring account changes)                 *)
StayDeaf == UNCHANGED disconnected

Listen == disconnected' = FALSE

ConnectOffered == address = None /\ connecting = "no"

Connect ==
  /\ Rendered /\ ConnectOffered
  /\ Listen
  /\ connecting' = "picker"
  /\ UNCHANGED <<external, client, address, hasKeys, view, replies, deriving, scans, traffic>>

Pick(a) ==
  /\ Rendered /\ connecting = "picker"
  /\ Expose(a, <<Read("connect")>>)
  /\ connecting' = "read"
  /\ UNCHANGED <<sent, client, provider, view, deriving, scans, traffic>>

(* The catch-all: a rejected picker falls back to eth_requestAccounts,     *)
(* which answers at once for a site that is authorised already.            *)
RejectPicker ==
  /\ Rendered /\ connecting = "picker"
  /\ IF account = None
     THEN connecting' = "no" /\ UNCHANGED replies
     ELSE /\ connecting' = "read"
          /\ replies' = Append(replies, Read("connect"))
          /\ Len(replies') <= MaxReplies
  /\ UNCHANGED <<external, client, provider, view, deriving, scans, traffic>>

LoadCachedKeys(a) == IF a = None THEN None ELSE cache[a]

(* The client takes the wallet it read and the keys cached for it.         *)
TakeWallet(a) ==
  /\ wallet' = a
  /\ keys' = LoadCachedKeys(a)
  /\ UNCHANGED cache

(* (mutant: the provider does not ask the client for keys)                 *)
ShowOnly(a) == address' = a /\ UNCHANGED hasKeys

ClearReceived == link' = None /\ notes' = None /\ autoScanned' = FALSE
ClearActivity == history' = {} /\ balance' = None /\ historyLoaded' = FALSE

ClearView == ClearReceived /\ ClearActivity

Show(a) ==
  /\ address' = a
  /\ hasKeys' = (LoadCachedKeys(a) # None)

Register(a, k) == sent' = IF k = None THEN sent ELSE sent \cup {<<a, k>>}

(* The cleanup of the balance effect: what is in flight will be ignored.   *)
StopReads == reads' = {}

Answered(by) == Rendered /\ replies # <<>> /\ Head(replies).by = by /\ Head(replies).account # Unread

(* (mutant: the provider listens to account changes all the time)          *)
HearAlways(a) == Show(a)

Hear(a) == IF disconnected THEN UNCHANGED <<address, hasKeys>> ELSE Show(a)

OnAccountChange ==
  /\ Answered("event")
  /\ replies' = Tail(replies)
  /\ TakeWallet(Head(replies).account)
  /\ Hear(Head(replies).account)
  /\ UNCHANGED <<external, disconnected, view, connecting, deriving, scans, traffic>>

FinishConnect ==
  /\ Answered("connect")
  /\ replies' = Tail(replies)
  /\ connecting' = "no"
  /\ LET a == Head(replies).account
     IN  IF a = None
         THEN UNCHANGED <<sent, client, address, hasKeys>>
         ELSE TakeWallet(a) /\ Show(a) /\ Register(a, LoadCachedKeys(a))
  /\ UNCHANGED <<account, disconnected, view, deriving, scans, traffic>>

FinishReconnect ==
  /\ Answered("reload")
  /\ replies' = Tail(replies)
  /\ LET a == Head(replies).account
     IN  IF a = None
         THEN UNCHANGED <<sent, client, provider>>
         ELSE /\ TakeWallet(a) /\ Show(a) /\ Register(a, LoadCachedKeys(a))
              /\ Listen
  /\ UNCHANGED <<account, view, connecting, deriving, scans, traffic>>

(* The menu under the address of the connected account.                    *)
DisconnectOffered == address # None

(* LatentClient.disconnect                                                 *)
ForgetWallet ==
  /\ cache' = IF wallet = None THEN cache ELSE [cache EXCEPT ![wallet] = None]
  /\ wallet' = None /\ keys' = None

Disconnect ==
  /\ Rendered /\ DisconnectOffered
  /\ disconnected' = TRUE
  /\ ForgetWallet
  /\ address' = None /\ hasKeys' = FALSE
  /\ ClearView /\ prevAddress' = None
  /\ StopReads
  /\ UNCHANGED <<external, tab, isScanning, replies, connecting, deriving, scans,
                 loads, sending, lastRead>>

(* Only localStorage, the extension and the operator outlive the page.     *)
Reload ==
  /\ wallet' = None /\ keys' = None
  /\ disconnected' = FALSE /\ address' = None /\ hasKeys' = FALSE
  /\ ClearView /\ prevAddress' = None /\ isScanning' = FALSE /\ tab' \in FreshTab
  /\ replies' = <<Read("reload")>> /\ connecting' = "no" /\ deriving' = Idle
  /\ scans' = [s \in Scans |-> "no"]
  /\ loads' = {} /\ reads' = {} /\ sending' = None /\ lastRead' = None
  /\ UNCHANGED <<external, cache>>

(***************************************************************************)
(* handleGenerateKeys: derive, cache, register, show the link.             *)
(***************************************************************************)
(* The cards of a tab are there while it is open.                          *)
OnTab(t) == address # None /\ tab = t

GenerateOffered == OnTab("receive") /\ link = None /\ deriving.at = "no"

Derived == hasKeys' = TRUE /\ deriving' = [deriving EXCEPT !.at = "register"]

StartDerive ==
  /\ Rendered /\ GenerateOffered /\ wallet # None
  /\ IF keys # None
     THEN Derived /\ Register(wallet, keys)
     ELSE /\ deriving' = [at |-> "sign", signer |-> wallet]
          /\ UNCHANGED <<hasKeys, sent>>
  /\ UNCHANGED <<account, client, disconnected, address, view, replies, connecting, scans, traffic>>

(* The address is read after the signature has come: with no wallet left   *)
(* cacheKeys throws, the keys already being set.                           *)
Signed ==
  /\ Rendered /\ deriving.at = "sign"
  /\ keys' = deriving.signer
  /\ IF wallet = None
     THEN deriving' = Idle /\ UNCHANGED <<cache, hasKeys, sent>>
     ELSE /\ cache' = [cache EXCEPT ![wallet] = deriving.signer]
          /\ Derived
          /\ Register(wallet, deriving.signer)
  /\ UNCHANGED <<account, wallet, disconnected, address, view, replies, connecting, scans, traffic>>

SignatureRejected ==
  /\ deriving.at = "sign"
  /\ deriving' = Idle
  /\ UNCHANGED <<external, client, provider, view, replies, connecting, scans, traffic>>

(* (mutant: the keys are cached once the operator has answered)            *)
CacheLate ==
  /\ link' \in {link} \cup (IF keys = None THEN {} ELSE {keys})
  /\ cache' = IF wallet = None THEN cache ELSE [cache EXCEPT ![wallet] = deriving.signer]

(* generatePaymentLink reads the keys of now and throws without any; a     *)
(* registration that fails leaves the link to the effect below.            *)
ShowLink == link' \in {link} \cup (IF keys = None THEN {} ELSE {keys}) /\ UNCHANGED cache

Registered ==
  /\ deriving.at = "register"
  /\ deriving' = Idle
  /\ ShowLink
  /\ UNCHANGED <<external, wallet, keys, provider, tab, notes, autoScanned, isScanning,
                 activity, prevAddress, replies, connecting, scans, traffic>>

(***************************************************************************)
(* The effects of the view, in the order React runs them.                  *)
(***************************************************************************)
(* (mutant: the page stays on the tab it is on)                            *)
StayOnTab == UNCHANGED <<tab, reads>>

GoToReceive == tab' = "receive" /\ StopReads

AddressEffect ==
  /\ address # prevAddress
  /\ prevAddress' = address
  /\ IF prevAddress # None /\ address # None
     THEN ClearView /\ GoToReceive
     ELSE StopReads /\ UNCHANGED <<tab, link, notes, autoScanned, activity>>
  /\ UNCHANGED <<external, client, provider, isScanning, replies, connecting, deriving, scans,
                 loads, sending, lastRead>>

LinkEffect ==
  /\ address = prevAddress
  /\ hasKeys /\ link = None /\ keys # None
  /\ link' = keys
  /\ UNCHANGED <<external, client, provider, tab, notes, autoScanned, isScanning,
                 activity, prevAddress, tasks>>

(* scanMyNotes checks the keys before its first await.                     *)
StartScan(s) ==
  /\ scans[s] = "no"
  /\ IF wallet = None \/ keys = None
     THEN isScanning' = FALSE /\ UNCHANGED scans
     ELSE isScanning' = TRUE /\ scans' = [scans EXCEPT ![s] = "fetch"]
  /\ UNCHANGED <<external, client, provider, tab, link, notes, activity, prevAddress,
                 replies, connecting, deriving, traffic>>

(* The automatic scan does not ask whether a scan is running.              *)
AutoScan(s) ==
  /\ address = prevAddress /\ tab = "receive" /\ link # None /\ ~autoScanned
  /\ autoScanned' = TRUE
  /\ StartScan(s)

ScanOffered == OnTab("receive") /\ link # None /\ ~isScanning

ManualScan(s) ==
  /\ Rendered /\ ScanOffered
  /\ StartScan(s) /\ UNCHANGED autoScanned

(* The notes have come: they are tried with the keys the client has by now *)
(* (none: the read throws).                                                *)
DecryptNotes(s) ==
  /\ scans[s] = "fetch"
  /\ scans' = [scans EXCEPT ![s] = IF keys = None THEN "no" ELSE keys]
  /\ isScanning' = (isScanning /\ keys # None)
  /\ UNCHANGED <<external, client, provider, tab, link, notes, autoScanned, activity, prevAddress,
                 replies, connecting, deriving, traffic>>

FinishScan(s) ==
  /\ scans[s] # "no"
  /\ scans' = [scans EXCEPT ![s] = "no"]
  /\ isScanning' = FALSE
  /\ notes' \in {notes} \cup ({scans[s]} \cap Accounts)
  /\ UNCHANGED <<external, client, provider, tab, link, autoScanned, activity, prevAddress,
                 replies, connecting, deriving, traffic>>

(***************************************************************************)
(* Tabs, transfers, the list of transactions and the token balance.        *)
(***************************************************************************)
others == <<external, client, provider, received, prevAddress, replies, connecting, deriving, scans>>

SelectTab(t) ==
  /\ Rendered /\ address # None /\ t # tab
  /\ tab' = t
  /\ StopReads
  /\ UNCHANGED <<others, activity, loads, sending, lastRead>>

(* getHistory asks for the address the client has now.                     *)
LoadHistory == loads' = loads \cup ({wallet} \cap Accounts)

HistoryEffect ==
  /\ address = prevAddress /\ address # None /\ tab = "history" /\ ~historyLoaded
  /\ historyLoaded' = TRUE
  /\ LoadHistory
  /\ UNCHANGED <<others, tab, history, balance, reads, sending, lastRead>>

(* The answer replaces the list; or the request has failed.                *)
FinishHistory(a) ==
  /\ a \in loads
  /\ loads' = loads \ {a}
  /\ history' \in {history, {}, {a}}
  /\ UNCHANGED <<others, tab, balance, historyLoaded, reads, sending, lastRead>>

(* At once when the tab is opened and every ten seconds from then on       *)
BalanceEffect ==
  /\ address = prevAddress /\ address # None /\ tab = "send"
  /\ reads' = reads \cup ({wallet} \cap Accounts)
  /\ UNCHANGED <<others, tab, activity, loads, sending, lastRead>>

FinishRead(a) ==
  /\ Rendered /\ a \in reads
  /\ balance' = a
  /\ reads' = reads \ {a}
  /\ UNCHANGED <<others, tab, history, historyLoaded, loads, sending, lastRead>>

(* deposit acts for the wallet it finds at its start.                      *)
SendOffered == OnTab("send") /\ sending = None

StartSend ==
  /\ Rendered /\ SendOffered /\ wallet # None
  /\ sending' = wallet
  /\ UNCHANGED <<others, tab, activity, loads, reads, lastRead>>

(* Done: the list gets the transfer at once and is then loaded again; the  *)
(* balance is read for whom the client acts for by now.  Or it has failed. *)
FinishSend ==
  /\ sending # None
  /\ sending' = None
  /\ \/ /\ history' = history \cup {sending}
        /\ LoadHistory
        /\ lastRead' = wallet
     \/ UNCHANGED <<history, loads, lastRead>>
  /\ UNCHANGED <<others, tab, balance, historyLoaded, reads>>

FinishLastRead ==
  /\ lastRead # None
  /\ balance' \in {balance, lastRead}
  /\ lastRead' = None
  /\ UNCHANGED <<others, tab, history, historyLoaded, loads, reads, sending>>

(* What may happen while anything is awaited.                              *)
Interrupt ==
  \/ \E a \in Accounts : SwitchAccount(a)
  \/ Revoke \/ SwitchChain \/ Disconnect \/ Reload

Proceed ==
  \/ \E a \in Accounts : Pick(a)
  \/ ReadSigner \/ Connect \/ RejectPicker
  \/ OnAccountChange \/ FinishConnect \/ FinishReconnect
  \/ StartDerive \/ Signed \/ SignatureRejected \/ Registered
  \/ AddressEffect \/ LinkEffect
  \/ HistoryEffect \/ BalanceEffect \/ StartSend \/ FinishSend \/ FinishLastRead
  \/ \E t \in Tabs : SelectTab(t)
  \/ \E a \in Accounts : FinishHistory(a) \/ FinishRead(a)
  \/ \E s \in Scans : AutoScan(s) \/ ManualScan(s) \/ DecryptNotes(s) \/ FinishScan(s)

(***************************************************************************)
(* What the properties remember.                                           *)
(***************************************************************************)
InFlight ==
  {t \in {"connect", "derive", "scan", "history", "send"} :
     \/ t = "connect" /\ connecting # "no"
     \/ t = "derive" /\ deriving.at # "no"
     \/ t = "scan" /\ \E s \in Scans : scans[s] # "no"
     \/ t = "history" /\ loads # {}
     \/ t = "send" /\ {sending, lastRead} # {None}}

(* The client acts for another account, or none, than when a task began.   *)
Cross == crossed' = (crossed \cup (IF wallet' = wallet THEN {} ELSE InFlight)) \cap InFlight'

CrossedSignature ==
  "derive" \in crossed /\ deriving.at = "sign" /\ deriving'.at # "sign" /\ keys' = deriving.signer

Misfile == misfiled' = misfiled \cup (IF CrossedSignature THEN {deriving.signer} ELSE {})

CrossedConnect == "connect" \in crossed /\ address' # address

(* The provider goes on ignoring account changes: until it is disconnected *)
(* once more the page may show an account the client does not act for.     *)
SpoilPage ==
  pageSpoiled' = (disconnected' /\ address' # None /\ (pageSpoiled \/ CrossedConnect))

(* What a task brings onto the cards that was crossed on its way.          *)
CrossedAnswer ==
  \/ "derive" \in crossed /\ <<link, hasKeys>>' # <<link, hasKeys>>
  \/ "scan" \in crossed /\ notes' # notes
  \/ {"history", "send"} \cap crossed # {} /\ history' # history
  \/ "send" \in crossed /\ balance' # balance

Revoked == address # None /\ address' = None

(* The cards stay spoiled until they are empty again.                      *)
SpoilCards ==
  cardsSpoiled' = /\ Shown' # {} \/ (hasKeys' /\ address' = None)
                  /\ cardsSpoiled \/ CrossedAnswer \/ Revoked

Remember == Cross /\ Misfile /\ SpoilPage /\ SpoilCards

Next ==
  /\ \/ Interrupt /\ interrupts < MaxInterrupts /\ interrupts' = interrupts + 1
     \/ Proceed /\ UNCHANGED interrupts
  /\ Cardinality(InFlight') <= MaxTasks
  /\ Remember

Spec == Init /\ [][Next]_vars

(***************************************************************************)
(* Properties.                                                             *)
(***************************************************************************)

(* Neither the cache nor the operator is given one account's address with  *)
(* another account's keys: the promise behind the cache of core/keys.ts    *)
(* ("Different wallet -> different Latent keys").  The client breaks it,   *)
(* for it reads the address only after the signature has come.             *)
KeysStayOwn ==
  /\ \A a \in Accounts : cache[a] \in {None, a}
  /\ \A r \in sent : r[1] = r[2]

(* That is the only way: keys under another account's address are those of *)
(* a signature during which the client took another wallet, whatever       *)
(* connects, reloads, switches and registrations they went through since.  *)
MisfiledOnlyWhenCrossed ==
  /\ \A a \in Accounts : cache[a] \in {None, a} \cup misfiled
  /\ \A r \in sent : r[2] \in {r[1]} \cup misfiled

(* A connected page shows the account the client acts for, and claims keys *)
(* only when the client holds them, those of the account unless misfiled;  *)
(* except a page disconnected while a connect was on its way.              *)
UiAgreesWithClient ==
  address # None /\ ~pageSpoiled =>
    /\ wallet = address
    /\ hasKeys => keys \in {address} \cup misfiled

(* With the same exception, once every read of the signer has been         *)
(* answered a connected page shows the account the extension exposes.      *)
FollowsWallet == replies = <<>> /\ address # None /\ ~pageSpoiled => address = account

(* A user who disconnected stays so: account changes of the extension,     *)
(* which the client still follows, and balances still being read bring     *)
(* nothing of an account back onto the page.  What can is the answer of a  *)
(* connect, derivation, scan, transfer or history read under way.          *)
StaysDisconnected ==
  disconnected => /\ address = None \/ pageSpoiled
                  /\ Shown = {} \/ pageSpoiled \/ cardsSpoiled

(* Once the effects have run, the payment link shown to be shared, the     *)
(* received notes offered for withdrawal, the transactions listed and the  *)
(* balance to send from are those of the connected account; except where   *)
(* a derivation, scan, transfer or history read was crossed by a change of *)
(* wallet and answered afterwards, or the account was revoked.             *)
ShownIsOwn ==
  address # None /\ address = prevAddress /\ ~pageSpoiled /\ ~cardsSpoiled =>
    Shown \subseteq {address} \cup misfiled
=============================================================================
