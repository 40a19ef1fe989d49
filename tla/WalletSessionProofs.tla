------------------------ MODULE WalletSessionProofs ------------------------
(***************************************************************************)
(* What the tab promises of the account it shows, for any number of        *)
(* accounts, scans, reads of the signer in flight and interruptions.       *)
(***************************************************************************)
EXTENDS WalletSession, SequenceTheorems, TLAPS

-----------------------------------------------------------------------------
\* The inductive invariant of the client and the provider.

\* What was read of the signer after the last change is the account exposed.
Current(q, a) ==
  \A i \in DOMAIN q :
    (\A j \in (i + 1) .. Len(q) : q[j].by # "event") => q[i].account \in {Unread, a}

\* One connect at a time waits for its read, and a silent reconnect is the
\* first to be answered, on a page that shows no account yet.
QueueOK ==
  /\ Current(replies, account)
  /\ \A i \in DOMAIN replies : replies[i].by = "connect" => connecting = "read"
  /\ \A i, j \in DOMAIN replies : replies[i].by = "connect" /\ replies[j].by = "connect" => i = j
  /\ \A i \in DOMAIN replies : replies[i].by = "reload" => i = 1 /\ address = None

\* While a signature is awaited the client acts for its signer, or did not
\* all the time; the keys it holds are of the wallet, or misfiled.
KeysOK ==
  /\ MisfiledOnlyWhenCrossed
  /\ keys \in {None, wallet} \cup misfiled
  /\ deriving.at = "sign" =>
       deriving.signer # None /\ (deriving.signer = wallet \/ "derive" \in crossed)

\* The provider mirrors the client, and listens, unless the page is spoiled;
\* and a connect under way listens, unless it was crossed.
PageOK ==
  /\ crossed \subseteq InFlight
  /\ address # None /\ ~pageSpoiled =>
       wallet = address /\ (hasKeys => keys # None) /\ ~disconnected
  /\ pageSpoiled => disconnected /\ address # None /\ connecting = "no"
  /\ connecting # "no" => ~disconnected \/ "connect" \in crossed

\* No change of account is under way.
Quiet == \A i \in DOMAIN replies : replies[i].by # "event"

FollowOK == Quiet /\ address # None /\ ~pageSpoiled => address = account

ClientInv == QueueOK /\ KeysOK /\ PageOK /\ FollowOK

-----------------------------------------------------------------------------
\* The queue of reads.

Reply == [by : {"event", "connect", "reload"}, account : Owners \cup {Unread}]

LEMMA TailOf ==
  ASSUME NEW q \in Seq(Reply), q # <<>>
  PROVE  /\ Tail(q) \in Seq(Reply) /\ Len(Tail(q)) = Len(q) - 1 /\ Len(q) \in Nat \ {0}
         /\ DOMAIN q = 1 .. Len(q) /\ DOMAIN Tail(q) = 1 .. (Len(q) - 1)
         /\ \A i \in DOMAIN Tail(q) : Tail(q)[i] = q[i + 1] /\ i + 1 \in DOMAIN q
         /\ Head(q) = q[1] /\ 1 \in DOMAIN q /\ Head(q) \in Reply
OBVIOUS

LEMMA AppendOf ==
  ASSUME NEW q \in Seq(Reply), NEW by \in {"event", "connect", "reload"}
  PROVE  /\ Append(q, Read(by)) \in Seq(Reply) /\ Len(q) \in Nat
         /\ DOMAIN q = 1 .. Len(q) /\ DOMAIN Append(q, Read(by)) = 1 .. (Len(q) + 1)
         /\ Len(Append(q, Read(by))) = Len(q) + 1
         /\ \A i \in DOMAIN q : Append(q, Read(by))[i] = q[i]
         /\ Append(q, Read(by))[Len(q) + 1] = Read(by)
<1>1. Read(by) \in Reply
  BY DEF Read, Reply
<1> QED
  BY <1>1

LEMMA CurrentTail ==
  ASSUME NEW q \in Seq(Reply), q # <<>>, NEW a, Current(q, a)
  PROVE  Current(Tail(q), a)
<1> SUFFICES ASSUME NEW i \in DOMAIN Tail(q),
                    \A j \in (i + 1) .. Len(Tail(q)) : Tail(q)[j].by # "event"
             PROVE  Tail(q)[i].account \in {Unread, a}
  BY DEF Current
<1>1. \A j \in ((i + 1) + 1) .. Len(q) : q[j].by # "event"
  <2> SUFFICES ASSUME NEW j \in ((i + 1) + 1) .. Len(q)
               PROVE  q[j].by # "event"
    OBVIOUS
  <2>1. j - 1 \in (i + 1) .. Len(Tail(q)) /\ j - 1 \in DOMAIN Tail(q) /\ (j - 1) + 1 = j
    BY TailOf
  <2> QED
    BY <2>1, TailOf
<1> QED
  BY <1>1, TailOf DEF Current

LEMMA CurrentAppend ==
  ASSUME NEW q \in Seq(Reply), NEW by \in {"event", "connect", "reload"}, NEW a, Current(q, a)
  PROVE  Current(Append(q, Read(by)), a)
<1> DEFINE r == Append(q, Read(by))
<1> SUFFICES ASSUME NEW i \in DOMAIN r, \A j \in (i + 1) .. Len(r) : r[j].by # "event"
             PROVE  r[i].account \in {Unread, a}
  BY DEF Current
<1>1. CASE i = Len(q) + 1
  BY <1>1, AppendOf DEF Read
<1>2. CASE i \in DOMAIN q
  <2>1. \A j \in (i + 1) .. Len(q) : j \in (i + 1) .. Len(r) /\ r[j] = q[j]
    BY <1>2, AppendOf
  <2> QED
    BY <1>2, <2>1, AppendOf DEF Current
<1> QED
  BY <1>1, <1>2, AppendOf

LEMMA CurrentChange ==
  ASSUME NEW q \in Seq(Reply), NEW a
  PROVE  Current(Append(q, Read("event")), a)
<1> DEFINE r == Append(q, Read("event"))
<1> SUFFICES ASSUME NEW i \in DOMAIN r, \A j \in (i + 1) .. Len(r) : r[j].by # "event"
             PROVE  r[i].account \in {Unread, a}
  BY DEF Current
<1>1. CASE i = Len(q) + 1
  BY <1>1, AppendOf DEF Read
<1>2. CASE i \in DOMAIN q
  <2>1. Len(q) + 1 \in (i + 1) .. Len(r) /\ r[Len(q) + 1].by = "event"
    BY <1>2, AppendOf DEF Read
  <2> QED
    BY <2>1
<1> QED
  BY <1>1, <1>2, AppendOf

LEMMA ReadOf ==
  ASSUME NEW q \in Seq(Reply), NEW i \in DOMAIN q, NEW a \in Owners,
         NEW r, r = [q EXCEPT ![i].account = a]
  PROVE  /\ r \in Seq(Reply) /\ Len(r) = Len(q) /\ DOMAIN r = DOMAIN q
         /\ r[i] = [by |-> q[i].by, account |-> a]
         /\ \A j \in DOMAIN q \ {i} : r[j] = q[j]
         /\ \A j \in DOMAIN q : r[j].by = q[j].by
<1>1. q[i] \in Reply
  OBVIOUS
<1>2. r = [q EXCEPT ![i] = [q[i] EXCEPT !.account = a]]
  OBVIOUS
<1>3. [q[i] EXCEPT !.account = a] = [by |-> q[i].by, account |-> a]
  BY <1>1 DEF Reply
<1>4. [by |-> q[i].by, account |-> a] \in Reply
  BY <1>1 DEF Reply
<1>5. r \in Seq(Reply) /\ Len(r) = Len(q) /\ DOMAIN r = DOMAIN q
  BY <1>2, <1>3, <1>4, ExceptSeq
<1>6. r[i] = [by |-> q[i].by, account |-> a] /\ \A j \in DOMAIN q \ {i} : r[j] = q[j]
  BY <1>2, <1>3
<1> QED
  BY <1>5, <1>6

LEMMA CurrentRead ==
  ASSUME NEW q \in Seq(Reply), NEW i \in DOMAIN q, NEW a \in Owners,
         NEW r, r = [q EXCEPT ![i].account = a], Current(q, a)
  PROVE  Current(r, a)
<1>1. \A j \in DOMAIN r : \A k \in (j + 1) .. Len(r) : k \in DOMAIN q /\ r[k].by = q[k].by
  BY ReadOf
<1> QED
  BY <1>1, ReadOf DEF Current

\* What a step does to the queue, and to the account.
Answer == replies # <<>> /\ replies' = Tail(replies) /\ account' = account
Ask(by) == replies' = Append(replies, Read(by)) /\ account' = account

LEMMA ExposeQueue ==
  ASSUME TypeOK, NEW a
  PROVE  /\ Expose(a, <<>>) /\ a # account =>
              account' = a /\ replies' = Append(replies, Read("event"))
         /\ Expose(a, <<Read("connect")>>) /\ a # account =>
              account' = a /\ replies' = Append(Append(replies, Read("event")), Read("connect"))
         /\ Expose(a, <<Read("connect")>>) /\ a = account => Ask("connect")
<1>1. replies \in Seq(Reply) /\ Read("event") \in Reply /\ Read("connect") \in Reply
  BY DEF TypeOK, Reply, Read
<1>2. \A q \in Seq(Reply) : \A x \in Reply :
        q \o <<x>> = Append(q, x) /\ Append(q, x) \in Seq(Reply) /\ q \o <<>> = q
  OBVIOUS
<1> QED
  BY <1>1, <1>2 DEF Expose, Ask

-----------------------------------------------------------------------------
\* Types.

Step == Interrupt \/ Proceed

LEMMA NextIs == Next => Step /\ Remember
BY DEF Next, Step

LEMMA QueueType ==
  ASSUME TypeOK, Step \/ UNCHANGED vars
  PROVE  replies' \in Seq(Reply)
<1>0. replies \in Seq(Reply)
  BY DEF TypeOK, Reply
<1>1. ASSUME NEW a \in Accounts, SwitchAccount(a)
      PROVE  replies' \in Seq(Reply)
  BY <1>0, <1>1, ExposeQueue, AppendOf DEF SwitchAccount
<1>2. ASSUME NEW a \in Accounts, Pick(a)
      PROVE  replies' \in Seq(Reply)
  BY <1>0, <1>2, ExposeQueue, AppendOf DEF Pick, Ask
<1>3. CASE Revoke
  BY <1>0, <1>3, ExposeQueue, AppendOf DEF Revoke
<1>4. CASE ReadSigner
  <2>1. PICK i \in DOMAIN replies : replies' = [replies EXCEPT ![i].account = account]
    BY <1>4 DEF ReadSigner
  <2>2. account \in Owners
    BY DEF TypeOK
  <2> QED
    BY <1>0, <2>1, <2>2, ReadOf
<1>5. CASE SwitchChain \/ RejectPicker
  BY <1>0, <1>5, AppendOf DEF SwitchChain, RejectPicker
<1>6. CASE OnAccountChange \/ FinishConnect \/ FinishReconnect
  BY <1>0, <1>6, TailOf DEF OnAccountChange, FinishConnect, FinishReconnect, Answered
<1>7. CASE Reload
  BY <1>7 DEF Reload, Read, Reply
<1>8. CASE \/ Connect \/ Disconnect \/ StartDerive \/ Signed \/ SignatureRejected \/ Registered
           \/ AddressEffect \/ LinkEffect
  BY <1>0, <1>8 DEF Connect, Disconnect, StartDerive, Signed, SignatureRejected, Registered,
       AddressEffect, LinkEffect, tasks
<1>9. CASE \/ HistoryEffect \/ BalanceEffect \/ StartSend \/ FinishSend \/ FinishLastRead
           \/ \E t \in Tabs : SelectTab(t)
           \/ \E a \in Accounts : FinishHistory(a) \/ FinishRead(a)
           \/ \E s \in Scans : AutoScan(s) \/ ManualScan(s) \/ DecryptNotes(s) \/ FinishScan(s)
  BY <1>0, <1>9 DEF HistoryEffect, BalanceEffect, StartSend, FinishSend, FinishLastRead, SelectTab,
       FinishHistory, FinishRead, AutoScan, ManualScan, StartScan, DecryptNotes, FinishScan, others
<1>10. CASE UNCHANGED vars
  BY <1>0, <1>10 DEF vars, tasks
<1> QED
  BY <1>1, <1>2, <1>3, <1>4, <1>5, <1>6, <1>7, <1>8, <1>9, <1>10 DEF Step, Interrupt, Proceed

\* The record of what the other variables range over, conjunct by conjunct.
StateType ==
  /\ account \in Owners /\ wallet \in Owners /\ keys \in Owners /\ address \in Owners
  /\ link \in Owners /\ notes \in Owners /\ prevAddress \in Owners /\ balance \in Owners
  /\ sending \in Owners /\ lastRead \in Owners
  /\ history \subseteq Accounts /\ loads \subseteq Accounts /\ reads \subseteq Accounts
  /\ tab \in Tabs /\ cache \in [Accounts -> Owners] /\ sent \subseteq Accounts \X Accounts
  /\ disconnected \in BOOLEAN /\ hasKeys \in BOOLEAN /\ autoScanned \in BOOLEAN
  /\ historyLoaded \in BOOLEAN /\ isScanning \in BOOLEAN
  /\ connecting \in {"no", "picker", "read"}
  /\ deriving \in [at : {"no", "sign", "register"}, signer : Owners]
  /\ scans \in [Scans -> {"no", "fetch"} \cup Accounts]

PastType ==
  /\ interrupts \in Nat /\ crossed \subseteq {"connect", "derive", "scan", "history", "send"}
  /\ misfiled \subseteq Owners /\ pageSpoiled \in BOOLEAN /\ cardsSpoiled \in BOOLEAN

LEMMA TypeSplits == TypeOK <=> StateType /\ PastType /\ replies \in Seq(Reply)
BY DEF TypeOK, StateType, PastType, Reply

LEMMA HeadType ==
  ASSUME TypeOK, NEW by, Answered(by)
  PROVE  Head(replies).account \in Owners
<1>1. replies \in Seq(Reply) /\ replies # <<>>
  BY DEF TypeOK, Reply, Answered
<1>2. Head(replies) \in Reply
  BY <1>1, TailOf
<1> QED
  BY <1>2 DEF Answered, Reply

LEMMA PastNext ==
  ASSUME TypeOK, [Next]_vars
  PROVE  PastType'
<1>0. PastType /\ deriving.signer \in Owners
  BY TypeSplits DEF StateType
<1>1. CASE UNCHANGED vars
  BY <1>0, <1>1 DEF vars, past, PastType
<1>2. CASE Next
  <2>1. interrupts' \in Nat
    BY <1>0, <1>2 DEF Next, PastType
  <2>2. crossed' \subseteq InFlight'
    BY <1>2 DEF Next, Remember, Cross
  <2>3. InFlight' \subseteq {"connect", "derive", "scan", "history", "send"}
    BY DEF InFlight
  <2>4. misfiled' \subseteq Owners
    BY <1>0, <1>2 DEF Next, Remember, Misfile, PastType
  <2>5. pageSpoiled' \in BOOLEAN /\ cardsSpoiled' \in BOOLEAN
    BY <1>2 DEF Next, Remember, SpoilPage, SpoilCards
  <2> QED
    BY <2>1, <2>2, <2>3, <2>4, <2>5 DEF PastType
<1> QED
  BY <1>1, <1>2

LEMMA TypeNext ==
  ASSUME TypeOK, [Next]_vars
  PROVE  TypeOK'
<1>0. StateType /\ None \in Owners /\ Accounts \subseteq Owners
  BY TypeSplits DEF Owners
<1> SUFFICES StateType'
  <2>1. replies' \in Seq(Reply) /\ PastType'
    BY QueueType, PastNext, NextIs
  <2> QED
    BY <2>1 DEF TypeOK, StateType, PastType, Reply, Owners
<1>1. ASSUME NEW a \in Accounts, SwitchAccount(a) \/ Pick(a)
      PROVE  StateType'
  BY <1>0, <1>1 DEF SwitchAccount, Pick, Expose, StateType, external, client, provider, view, received,
       activity, traffic
<1>2. CASE Revoke \/ SwitchChain \/ ReadSigner \/ Connect \/ RejectPicker
  BY <1>0, <1>2 DEF Revoke, SwitchChain, ReadSigner, Connect, Listen, RejectPicker, Expose, StateType,
       external, client, provider, view, received, activity, traffic
<1>3. CASE Disconnect
  BY <1>0, <1>3 DEF Disconnect, ForgetWallet, ClearView, ClearReceived, ClearActivity, StopReads,
       StateType, external
<1>4. CASE Reload
  BY <1>0, <1>4 DEF Reload, ClearView, ClearReceived, ClearActivity, FreshTab, Tabs, Idle,
       StateType, external
<1>5. CASE OnAccountChange
  <2>1. PICK a \in Owners : TakeWallet(a) /\ Hear(a)
    BY <1>5, HeadType DEF OnAccountChange
  <2>2. wallet' \in Owners /\ keys' \in Owners /\ cache' = cache
    BY <1>0, <2>1 DEF TakeWallet, LoadCachedKeys, StateType, Owners
  <2>3. address' \in Owners /\ hasKeys' \in BOOLEAN
    BY <1>0, <2>1 DEF Hear, Show, StateType
  <2> QED
    BY <1>0, <1>5, <2>2, <2>3
    DEF OnAccountChange, StateType, external, view, received, activity, traffic
<1>6. CASE FinishConnect \/ FinishReconnect
  <2>1. CASE Head(replies).account = None
    BY <1>0, <1>6, <2>1 DEF FinishConnect, FinishReconnect, StateType, client, provider, view, received,
         activity, traffic
  <2>2. CASE Head(replies).account # None
    <3>1. PICK a \in Accounts : TakeWallet(a) /\ Show(a) /\ Register(a, LoadCachedKeys(a))
      BY <1>6, <2>2, HeadType DEF FinishConnect, FinishReconnect, Owners
    <3>2. wallet' \in Owners /\ keys' \in Owners /\ cache' = cache /\ LoadCachedKeys(a) \in Owners
      BY <1>0, <3>1 DEF TakeWallet, LoadCachedKeys, StateType, Owners
    <3>3. address' \in Owners /\ hasKeys' \in BOOLEAN
      BY <1>0, <3>1 DEF Show
    <3>4. sent' \subseteq Accounts \X Accounts
      BY <1>0, <3>1, <3>2 DEF Register, StateType, Owners
    <3>5. disconnected' \in BOOLEAN /\ connecting' \in {"no", "picker", "read"}
      BY <1>0, <1>6 DEF FinishConnect, FinishReconnect, Listen, StateType, provider
    <3> QED
      BY <1>0, <1>6, <3>2, <3>3, <3>4, <3>5
      DEF FinishConnect, FinishReconnect, StateType, view, received, activity, traffic
  <2> QED
    BY <2>1, <2>2
<1>7. CASE StartDerive \/ Signed \/ SignatureRejected \/ Registered
  <2>1. CASE StartDerive
    <3>1. sent' \subseteq Accounts \X Accounts
      BY <1>0, <2>1 DEF StartDerive, Register, StateType, Owners
    <3>2. hasKeys' = TRUE \/ hasKeys' = hasKeys
      BY <2>1 DEF StartDerive, Derived
    <3>3. deriving' \in [at : {"no", "sign", "register"}, signer : Owners]
      BY <1>0, <2>1 DEF StartDerive, Derived, StateType
    <3>4. hasKeys' \in BOOLEAN
      BY <1>0, <3>2 DEF StateType
    <3> QED
      BY <1>0, <2>1, <3>1, <3>3, <3>4
      DEF StartDerive, StateType, client, view, received, activity, traffic
  <2>2. CASE Signed
    <3>0. deriving.signer \in Owners
      BY <1>0 DEF StateType
    <3>1. sent' \subseteq Accounts \X Accounts
      BY <1>0, <2>2, <3>0 DEF Signed, Register, StateType, Owners
    <3>2. hasKeys' = TRUE \/ hasKeys' = hasKeys
      BY <2>2 DEF Signed, Derived
    <3>4. deriving' \in [at : {"no", "sign", "register"}, signer : Owners]
      BY <1>0, <2>2 DEF Signed, Derived, Idle, StateType
    <3>5. hasKeys' \in BOOLEAN
      BY <1>0, <3>2 DEF StateType
    <3>3. keys' \in Owners /\ cache' \in [Accounts -> Owners]
      BY <1>0, <2>2, <3>0 DEF Signed, StateType
    <3> QED
      BY <1>0, <2>2, <3>1, <3>3, <3>4, <3>5 DEF Signed, StateType, view, received, activity, traffic
  <2>3. CASE SignatureRejected
    BY <1>0, <2>3 DEF SignatureRejected, Idle, StateType, external, client, provider, view, received,
         activity, traffic
  <2>4. CASE Registered
    BY <1>0, <2>4 DEF Registered, ShowLink, Idle, StateType, external, provider, activity, traffic
  <2> QED
    BY <1>7, <2>1, <2>2, <2>3, <2>4
<1>8. CASE AddressEffect \/ LinkEffect
  <2>1. CASE AddressEffect
    <3>1. tab' \in Tabs /\ reads' \subseteq Accounts
      BY <1>0, <2>1 DEF AddressEffect, GoToReceive, StopReads, Tabs, StateType
    <3> QED
      BY <1>0, <2>1, <3>1 DEF AddressEffect, ClearView, ClearReceived, ClearActivity, StateType,
           external, client, provider, activity
  <2>2. CASE LinkEffect
    BY <1>0, <2>2 DEF LinkEffect, StateType, external, client, provider, activity, tasks, traffic
  <2> QED
    BY <1>8, <2>1, <2>2
<1>9. CASE HistoryEffect \/ BalanceEffect \/ StartSend \/ FinishSend \/ FinishLastRead
  <2>1. CASE HistoryEffect \/ BalanceEffect
    BY <1>0, <2>1 DEF HistoryEffect, BalanceEffect, LoadHistory, others, StateType, external, client,
         provider, received, activity
  <2>2. CASE StartSend \/ FinishLastRead
    BY <1>0, <2>2 DEF StartSend, FinishLastRead, others, StateType, external, client, provider, received,
         activity
  <2>3. CASE FinishSend
    <3>1. history' \subseteq Accounts /\ loads' \subseteq Accounts /\ lastRead' \in Owners
      BY <1>0, <2>3 DEF FinishSend, LoadHistory, StateType, Owners
    <3> QED
      BY <1>0, <2>3, <3>1 DEF FinishSend, others, StateType, external, client, provider, received
  <2> QED
    BY <1>9, <2>1, <2>2, <2>3
<1>10. ASSUME NEW t \in Tabs, SelectTab(t)
       PROVE  StateType'
  BY <1>0, <1>10 DEF SelectTab, StopReads, others, StateType, external, client, provider, received, activity
<1>11. ASSUME NEW a \in Accounts, FinishHistory(a) \/ FinishRead(a)
       PROVE  StateType'
  BY <1>0, <1>11 DEF FinishHistory, FinishRead, others, StateType, external, client, provider, received
<1>12. ASSUME NEW s \in Scans, AutoScan(s) \/ ManualScan(s)
       PROVE  StateType'
  BY <1>0, <1>12 DEF AutoScan, ManualScan, StartScan, StateType, external, client, provider, activity,
       traffic
<1>13. ASSUME NEW s \in Scans, DecryptNotes(s) \/ FinishScan(s)
       PROVE  StateType'
  <2>1. CASE DecryptNotes(s)
    <3>1. scans' \in [Scans -> {"no", "fetch"} \cup Accounts]
      BY <1>0, <2>1 DEF DecryptNotes, StateType, Owners
    <3>2. isScanning' \in BOOLEAN
      BY <1>0, <2>1 DEF DecryptNotes, StateType
    <3> QED
      BY <1>0, <2>1, <3>1, <3>2 DEF DecryptNotes, StateType, external, client, provider, activity, traffic
  <2>2. CASE FinishScan(s)
    <3>1. scans' \in [Scans -> {"no", "fetch"} \cup Accounts] /\ notes' \in Owners
      BY <1>0, <2>2 DEF FinishScan, StateType
    <3> QED
      BY <1>0, <2>2, <3>1 DEF FinishScan, StateType, external, client, provider, activity, traffic
  <2> QED
    BY <1>13, <2>1, <2>2
<1>14. CASE UNCHANGED vars
  <2>1. UNCHANGED <<external, client, provider, view>> /\ UNCHANGED tasks
    BY <1>14 DEF vars
  <2> QED
    BY <1>0, <2>1 DEF external, client, provider, view, received, activity, tasks, traffic, StateType
<1> QED
  BY <1>1, <1>2, <1>3, <1>4, <1>5, <1>6, <1>7, <1>8, <1>9, <1>10, <1>11, <1>12, <1>13, <1>14, NextIs DEF Step, Interrupt, Proceed

-----------------------------------------------------------------------------
\* What is remembered of a step.

LEMMA InFlightIs ==
  /\ "connect" \in InFlight <=> connecting # "no"
  /\ "derive" \in InFlight <=> deriving.at # "no"
  /\ "scan" \in InFlight <=> \E s \in Scans : scans[s] # "no"
  /\ "history" \in InFlight <=> loads # {}
  /\ "send" \in InFlight <=> {sending, lastRead} # {None}
BY DEF InFlight

LEMMA InFlightNext ==
  /\ "connect" \in InFlight' <=> connecting' # "no"
  /\ "derive" \in InFlight' <=> deriving'.at # "no"
  /\ "scan" \in InFlight' <=> \E s \in Scans : scans'[s] # "no"
  /\ "history" \in InFlight' <=> loads' # {}
  /\ "send" \in InFlight' <=> {sending, lastRead}' # {None}
BY DEF InFlight

\* A task stays crossed to its end, and is crossed when the wallet changes.
LEMMA CrossedNext ==
  ASSUME Remember, crossed \subseteq InFlight
  PROVE  /\ crossed' \subseteq InFlight'
         /\ \A t \in InFlight' :
              t \in crossed \/ (t \in InFlight /\ wallet' # wallet) <=> t \in crossed'
BY DEF Remember, Cross

LEMMA Remembered ==
  ASSUME TypeOK, PageOK, Remember
  PROVE  /\ crossed' \subseteq InFlight'
         /\ connecting # "no" /\ connecting' # "no" /\ ("connect" \in crossed \/ wallet' # wallet) =>
              "connect" \in crossed'
         /\ deriving.at # "no" /\ deriving'.at # "no" /\ ("derive" \in crossed \/ wallet' # wallet) =>
              "derive" \in crossed'
         /\ misfiled \subseteq misfiled'
         /\ CrossedSignature => deriving.signer \in misfiled'
         /\ pageSpoiled' <=> disconnected' /\ address' # None /\ (pageSpoiled \/ CrossedConnect)
<1>1. crossed \subseteq InFlight
  BY DEF PageOK
<1>2. /\ crossed' \subseteq InFlight'
      /\ connecting # "no" /\ connecting' # "no" /\ ("connect" \in crossed \/ wallet' # wallet) =>
           "connect" \in crossed'
      /\ deriving.at # "no" /\ deriving'.at # "no" /\ ("derive" \in crossed \/ wallet' # wallet) =>
           "derive" \in crossed'
  BY <1>1, CrossedNext, InFlightIs, InFlightNext
<1>3. misfiled \subseteq misfiled' /\ (CrossedSignature => deriving.signer \in misfiled')
  BY DEF Remember, Misfile
<1>4. pageSpoiled' <=> disconnected' /\ address' # None /\ (pageSpoiled \/ CrossedConnect)
  BY DEF Remember, SpoilPage
<1> QED
  BY <1>2, <1>3, <1>4

-----------------------------------------------------------------------------
\* The client and the provider.

\* What the steps of the view alone do not touch.
Shared == <<account, sent, wallet, keys, cache, disconnected, address, hasKeys,
            replies, connecting, deriving>>

ViewSteps ==
  \/ AddressEffect \/ LinkEffect \/ HistoryEffect \/ BalanceEffect
  \/ StartSend \/ FinishSend \/ FinishLastRead
  \/ \E t \in Tabs : SelectTab(t)
  \/ \E a \in Accounts : FinishHistory(a) \/ FinishRead(a)
  \/ \E s \in Scans : AutoScan(s) \/ ManualScan(s) \/ DecryptNotes(s) \/ FinishScan(s)

LEMMA ViewStepsKeep ==
  ASSUME ViewSteps \/ UNCHANGED vars
  PROVE  UNCHANGED Shared
<1>1. CASE AddressEffect \/ LinkEffect \/ UNCHANGED vars
  BY <1>1 DEF AddressEffect, LinkEffect, vars, external, client, provider, tasks, Shared
<1>2. CASE \/ HistoryEffect \/ BalanceEffect \/ StartSend \/ FinishSend \/ FinishLastRead
           \/ \E t \in Tabs : SelectTab(t)
           \/ \E a \in Accounts : FinishHistory(a) \/ FinishRead(a)
  BY <1>2 DEF HistoryEffect, BalanceEffect, StartSend, FinishSend, FinishLastRead, SelectTab,
       FinishHistory, FinishRead, others, external, client, provider, Shared
<1>3. CASE \E s \in Scans : AutoScan(s) \/ ManualScan(s) \/ DecryptNotes(s) \/ FinishScan(s)
  BY <1>3 DEF AutoScan, ManualScan, StartScan, DecryptNotes, FinishScan, external, client, provider,
       Shared
<1> QED
  BY <1>1, <1>2, <1>3 DEF ViewSteps

\* Keys, and what is known of them, stay as they are.
LEMMA KeysKept ==
  ASSUME TypeOK, ClientInv, Remember, UNCHANGED <<sent, wallet, keys, cache>>,
         deriving'.at = "sign" => UNCHANGED deriving
  PROVE  KeysOK'
<1>1. misfiled \subseteq misfiled' /\ MisfiledOnlyWhenCrossed'
  BY Remembered DEF ClientInv, KeysOK, MisfiledOnlyWhenCrossed
<1>2. deriving'.at = "sign" =>
        deriving'.signer # None /\ (deriving'.signer = wallet' \/ "derive" \in crossed')
  BY Remembered DEF ClientInv, KeysOK
<1> QED
  BY <1>1, <1>2 DEF ClientInv, KeysOK

\* So does what the page shows, a connect being where it was or at its read.
LEMMA PageKept ==
  ASSUME TypeOK, ClientInv, Remember,
         UNCHANGED <<wallet, keys, disconnected, address>>,
         hasKeys' = hasKeys \/ keys # None,
         connecting = "no" => connecting' = "no"
  PROVE  PageOK' /\ (pageSpoiled' <=> pageSpoiled)
<1>1. ~CrossedConnect
  BY DEF CrossedConnect
<1>2. pageSpoiled' <=> pageSpoiled
  BY <1>1, Remembered DEF ClientInv, PageOK
<1>3. connecting' # "no" => ~disconnected' \/ "connect" \in crossed'
  BY Remembered DEF ClientInv, PageOK
<1>4. pageSpoiled' => disconnected' /\ address' # None /\ connecting' = "no"
  BY <1>2 DEF ClientInv, PageOK
<1>5. address' # None /\ ~pageSpoiled' =>
        wallet' = address' /\ (hasKeys' => keys' # None) /\ ~disconnected'
  BY <1>2 DEF ClientInv, PageOK
<1> QED
  BY <1>2, <1>3, <1>4, <1>5, Remembered DEF ClientInv, PageOK

LEMMA SharedKeep ==
  ASSUME TypeOK, ClientInv, Remember, UNCHANGED Shared
  PROVE  ClientInv'
<1>1. KeysOK' /\ PageOK' /\ (pageSpoiled' <=> pageSpoiled)
  BY KeysKept, PageKept DEF Shared
<1> QED
  BY <1>1 DEF ClientInv, Shared, QueueOK, Current, FollowOK, Quiet

\* A change of account or network: the site is told.
LEMMA ChangesKeep ==
  ASSUME TypeOK, ClientInv, Remember,
         (\E a \in Accounts : SwitchAccount(a)) \/ SwitchChain \/ Revoke
  PROVE  ClientInv'
<1>1. replies' = Append(replies, Read("event")) /\ replies \in Seq(Reply)
  BY ExposeQueue, TypeSplits DEF SwitchAccount, SwitchChain, Revoke
<1>2. UNCHANGED <<sent, wallet, keys, cache, disconnected, address, hasKeys, connecting, deriving>>
  BY DEF SwitchAccount, SwitchChain, Revoke, external, client, provider
<1>3. Current(replies, account)'
  BY <1>1, CurrentChange
<1>4. ~Quiet'
  BY <1>1, AppendOf DEF Quiet, Read
<1>5. QueueOK'
  BY <1>1, <1>2, <1>3, AppendOf DEF ClientInv, QueueOK, Read
<1>6. KeysOK' /\ PageOK'
  BY <1>2, KeysKept, PageKept
<1> QED
  BY <1>4, <1>5, <1>6 DEF ClientInv, FollowOK

\* The read that ends the connect of the picker is appended.
LEMMA AskKeeps ==
  ASSUME TypeOK, ClientInv, Remember, connecting = "picker", connecting' = "read", Ask("connect"),
         UNCHANGED <<sent, wallet, keys, cache, disconnected, address, hasKeys, deriving>>
  PROVE  ClientInv'
<1>1. replies \in Seq(Reply)
  BY TypeSplits
<1>2. Current(replies, account)'
  BY <1>1, CurrentAppend DEF ClientInv, QueueOK, Ask
<1>3. Quiet' => Quiet
  BY <1>1, AppendOf DEF Quiet, Ask
<1>4. QueueOK'
  <2>1. \A i \in DOMAIN replies : replies[i].by # "connect"
    BY DEF ClientInv, QueueOK
  <2>2. \A i \in DOMAIN replies' :
          \/ i \in DOMAIN replies /\ replies'[i] = replies[i]
          \/ i = Len(replies) + 1 /\ replies'[i].by = "connect"
    BY <1>1, AppendOf DEF Ask, Read
  <2> QED
    BY <1>2, <2>1, <2>2 DEF ClientInv, QueueOK
<1>5. KeysOK' /\ PageOK' /\ (pageSpoiled' <=> pageSpoiled)
  BY KeysKept, PageKept
<1> QED
  BY <1>3, <1>4, <1>5 DEF ClientInv, FollowOK, Ask

LEMMA PickKeeps ==
  ASSUME TypeOK, ClientInv, Remember, NEW a \in Accounts, Pick(a)
  PROVE  ClientInv'
<1>0. /\ connecting = "picker" /\ connecting' = "read"
      /\ UNCHANGED <<sent, wallet, keys, cache, disconnected, address, hasKeys, deriving>>
  BY DEF Pick, client, provider
<1>1. CASE a = account
  BY <1>0, <1>1, ExposeQueue, AskKeeps DEF Pick
<1>2. CASE a # account
  <2>3. /\ account' = a /\ replies \in Seq(Reply)
        /\ replies' = Append(Append(replies, Read("event")), Read("connect"))
    BY <1>2, ExposeQueue, TypeSplits DEF Pick
  <2> DEFINE q == Append(replies, Read("event"))
  <2>4. q \in Seq(Reply) /\ Current(q, a) /\ Len(q) = Len(replies) + 1
    BY <2>3, CurrentChange, AppendOf
  <2>5. Current(replies, account)'
    BY <2>3, <2>4, CurrentAppend
  <2>6. /\ \A i \in DOMAIN replies' :
             \/ i \in DOMAIN replies /\ replies'[i] = replies[i]
             \/ i = Len(replies) + 1 /\ replies'[i].by = "event"
             \/ i = Len(replies) + 2 /\ replies'[i].by = "connect"
        /\ Len(replies) + 1 \in DOMAIN replies' /\ replies'[Len(replies) + 1].by = "event"
    BY <2>3, <2>4, AppendOf DEF Read
  <2>7. ~Quiet'
    BY <2>6 DEF Quiet
  <2>8. QueueOK'
    <3>1. \A i \in DOMAIN replies : replies[i].by # "connect"
      BY <1>0 DEF ClientInv, QueueOK
    <3> QED
      BY <1>0, <2>5, <2>6, <3>1 DEF ClientInv, QueueOK
  <2>9. KeysOK' /\ PageOK'
    BY <1>0, KeysKept, PageKept
  <2> QED
    BY <2>7, <2>8, <2>9 DEF ClientInv, FollowOK
<1> QED
  BY <1>1, <1>2

LEMMA RejectKeeps ==
  ASSUME TypeOK, ClientInv, Remember, RejectPicker
  PROVE  ClientInv'
<1>0. /\ connecting = "picker"
      /\ UNCHANGED <<account, sent, wallet, keys, cache, disconnected, address, hasKeys, deriving>>
  BY DEF RejectPicker, external, client, provider
<1>1. CASE account # None
  BY <1>0, <1>1, AskKeeps DEF RejectPicker, Ask
<1>2. CASE account = None
  <2>1. connecting' = "no" /\ replies' = replies
    BY <1>2 DEF RejectPicker
  <2>2. QueueOK'
    BY <1>0, <2>1 DEF ClientInv, QueueOK, Current
  <2>3. KeysOK' /\ PageOK' /\ (pageSpoiled' <=> pageSpoiled)
    BY <1>0, <2>1, KeysKept, PageKept
  <2> QED
    BY <1>0, <2>1, <2>2, <2>3 DEF ClientInv, FollowOK, Quiet
<1> QED
  BY <1>1, <1>2

LEMMA ReadKeeps ==
  ASSUME TypeOK, ClientInv, Remember, ReadSigner
  PROVE  ClientInv'
<1>1. PICK i \in DOMAIN replies : replies' = [replies EXCEPT ![i].account = account]
  BY DEF ReadSigner
<1>2. replies \in Seq(Reply) /\ account \in Owners
  BY TypeSplits DEF StateType
<1>3. UNCHANGED <<account, sent, wallet, keys, cache, disconnected, address, hasKeys, connecting, deriving>>
  BY DEF ReadSigner, external, client, provider
<1>4. DOMAIN replies' = DOMAIN replies /\ \A j \in DOMAIN replies : replies'[j].by = replies[j].by
  BY <1>1, <1>2, ReadOf
<1>5. Current(replies, account)'
  <2>1. Current(replies, account)
    BY DEF ClientInv, QueueOK
  <2>2. Current(replies', account)
    BY ONLY <1>1, <1>2, <2>1, CurrentRead
  <2> QED
    BY <1>3, <2>2
<1>6. (Quiet' <=> Quiet) /\ QueueOK'
  BY <1>3, <1>4, <1>5 DEF ClientInv, Quiet, QueueOK
<1>7. KeysOK' /\ PageOK' /\ (pageSpoiled' <=> pageSpoiled)
  BY <1>3, KeysKept, PageKept
<1> QED
  BY <1>3, <1>6, <1>7 DEF ClientInv, FollowOK

LEMMA ConnectKeeps ==
  ASSUME TypeOK, ClientInv, Remember, Connect
  PROVE  ClientInv'
<1>1. /\ connecting = "no" /\ disconnected' = FALSE /\ connecting' = "picker" /\ address = None
      /\ UNCHANGED <<account, sent, wallet, keys, cache, address, hasKeys, replies, deriving>>
  BY DEF Connect, ConnectOffered, Listen, external, client
<1>2. KeysOK'
  BY <1>1, KeysKept
<1>3. PageOK' /\ QueueOK'
  BY <1>1, Remembered DEF ClientInv, PageOK, QueueOK, Current
<1> QED
  BY <1>1, <1>2, <1>3 DEF ClientInv, FollowOK

LEMMA DisconnectKeeps ==
  ASSUME TypeOK, ClientInv, Remember, Disconnect
  PROVE  ClientInv'
<1>1. /\ disconnected' = TRUE /\ address' = None /\ hasKeys' = FALSE /\ wallet' = None /\ keys' = None
      /\ cache' = IF wallet = None THEN cache ELSE [cache EXCEPT ![wallet] = None]
      /\ address # None
      /\ UNCHANGED <<account, sent, replies, connecting, deriving>>
  BY DEF Disconnect, DisconnectOffered, ForgetWallet, external
<1>2. connecting # "no" => "connect" \in crossed'
  BY <1>1, Remembered DEF ClientInv, PageOK
<1>3. PageOK'
  BY <1>1, <1>2, Remembered DEF ClientInv, PageOK
<1>4. MisfiledOnlyWhenCrossed'
  BY <1>1, Remembered, TypeSplits DEF ClientInv, KeysOK, MisfiledOnlyWhenCrossed, StateType
<1>5. deriving.at = "sign" => deriving.signer = None \/ "derive" \in crossed'
  BY <1>1, Remembered DEF ClientInv, KeysOK
<1>6. KeysOK'
  BY <1>1, <1>4, <1>5 DEF ClientInv, KeysOK
<1>7. QueueOK'
  BY <1>1 DEF ClientInv, QueueOK, Current
<1> QED
  BY <1>1, <1>3, <1>6, <1>7 DEF ClientInv, FollowOK

\* A fresh page: its only read is that of the silent reconnect.
LEMMA FreshQueue ==
  ASSUME NEW q, q = <<Read("reload")>>, NEW a
  PROVE  DOMAIN q = {1} /\ q[1].by = "reload" /\ q[1].account = Unread /\ Current(q, a)
<1>1. DOMAIN q = {1} /\ q[1] = Read("reload")
  OBVIOUS
<1> QED
  BY <1>1 DEF Read, Current

LEMMA ReloadKeeps ==
  ASSUME TypeOK, ClientInv, Remember, Reload
  PROVE  ClientInv'
<1>1. /\ wallet' = None /\ keys' = None /\ disconnected' = FALSE /\ address' = None /\ hasKeys' = FALSE
      /\ replies' = <<Read("reload")>> /\ connecting' = "no" /\ deriving' = Idle
      /\ UNCHANGED <<account, sent, cache>>
  BY DEF Reload, external
<1>2. QueueOK'
  BY <1>1, FreshQueue DEF QueueOK
<1>3. PageOK'
  BY <1>1, Remembered DEF ClientInv, PageOK
<1>4. KeysOK'
  BY <1>1, Remembered DEF ClientInv, KeysOK, MisfiledOnlyWhenCrossed, Idle
<1> QED
  BY <1>1, <1>2, <1>3, <1>4 DEF ClientInv, FollowOK

\* The answer at the head is of the account exposed, when no change follows it.
LEMMA HeadIsCurrent ==
  ASSUME TypeOK, ClientInv, NEW by, Answered(by), \A i \in DOMAIN Tail(replies) : Tail(replies)[i].by # "event"
  PROVE  Head(replies).account = account
<1>1. replies \in Seq(Reply) /\ replies # <<>> /\ Head(replies).account # Unread
  BY TypeSplits DEF Answered
<1>2. \A j \in (1 + 1) .. Len(replies) : replies[j].by # "event"
  <2> SUFFICES ASSUME NEW j \in (1 + 1) .. Len(replies)
               PROVE  replies[j].by # "event"
    OBVIOUS
  <2>1. j - 1 \in DOMAIN Tail(replies) /\ (j - 1) + 1 = j
    BY <1>1, TailOf
  <2> QED
    BY <1>1, <2>1, TailOf
<1>3. Head(replies).account \in {Unread, account}
  BY <1>1, <1>2, TailOf DEF ClientInv, QueueOK, Current
<1> QED
  BY <1>1, <1>3

\* What remains of the queue when its head is answered.
LEMMA AnswerLeaves ==
  ASSUME TypeOK, ClientInv, NEW by, Answered(by), replies' = Tail(replies), account' = account
  PROVE  /\ Current(replies, account)'
         /\ \A i \in DOMAIN replies' : i + 1 \in DOMAIN replies /\ replies'[i] = replies[i + 1]
         /\ 1 \in DOMAIN replies /\ replies[1] = Head(replies) /\ replies[1].by = by
         /\ Quiet' => Head(replies).account = account
         /\ Quiet' /\ by # "event" => Quiet
         /\ \A i \in DOMAIN replies' : replies'[i].by # "reload"
<1>1. replies \in Seq(Reply) /\ replies # <<>> /\ Head(replies).by = by
  BY TypeSplits DEF Answered
<1>2. Current(replies, account)'
  BY <1>1, CurrentTail DEF ClientInv, QueueOK
<1>3. /\ \A i \in DOMAIN replies' : i + 1 \in DOMAIN replies /\ replies'[i] = replies[i + 1] /\ i + 1 # 1
      /\ 1 \in DOMAIN replies /\ replies[1] = Head(replies)
  BY <1>1, TailOf
<1>4. \A i \in DOMAIN replies : i = 1 \/ (i - 1 \in DOMAIN replies' /\ replies[i] = replies'[i - 1])
  <2> SUFFICES ASSUME NEW i \in DOMAIN replies, i # 1
               PROVE  i - 1 \in DOMAIN replies' /\ replies[i] = replies'[i - 1]
    OBVIOUS
  <2>1. i - 1 \in DOMAIN replies' /\ (i - 1) + 1 = i
    BY <1>1, TailOf
  <2> QED
    BY <1>3, <2>1
<1>5. Quiet' => Head(replies).account = account
  BY HeadIsCurrent DEF Quiet
<1>6. Quiet' /\ by # "event" => Quiet
  BY <1>1, <1>3, <1>4 DEF Quiet
<1>7. \A i \in DOMAIN replies' : replies'[i].by # "reload"
  BY <1>3 DEF ClientInv, QueueOK
<1> QED
  BY <1>1, <1>2, <1>3, <1>5, <1>6, <1>7

\* The queue without its head, a connect being answered or not.
LEMMA AnswerKeeps ==
  ASSUME TypeOK, ClientInv, NEW by, Answered(by), replies' = Tail(replies), account' = account,
         IF by = "connect" THEN connecting' = "no" ELSE UNCHANGED connecting
  PROVE  QueueOK'
<1>1. \A i, j \in DOMAIN replies' : replies'[i].by = "connect" /\ replies'[j].by = "connect" => i = j
  <2> SUFFICES ASSUME NEW i \in DOMAIN replies', NEW j \in DOMAIN replies',
                      replies'[i].by = "connect", replies'[j].by = "connect"
               PROVE  i = j
    OBVIOUS
  <2>1. i + 1 = j + 1
    BY AnswerLeaves DEF ClientInv, QueueOK
  <2>2. i \in Nat /\ j \in Nat
    BY TypeSplits, TailOf DEF Answered
  <2> QED
    BY <2>1, <2>2
<1>2. \A i \in DOMAIN replies' : replies'[i].by = "connect" => connecting' = "read"
  <2> SUFFICES ASSUME NEW i \in DOMAIN replies', replies'[i].by = "connect"
               PROVE  connecting' = "read"
    OBVIOUS
  <2>1. i \in Nat /\ i + 1 \in DOMAIN replies /\ replies[i + 1].by = "connect"
    BY AnswerLeaves, TypeSplits, TailOf DEF Answered
  <2>2. connecting = "read" /\ (by = "connect" => i + 1 = 1)
    BY <2>1, AnswerLeaves DEF ClientInv, QueueOK
  <2> QED
    BY <2>1, <2>2
<1> QED
  BY <1>1, <1>2, AnswerLeaves DEF QueueOK

\* The client takes the wallet it read, with the keys cached for it.
LEMMA TakenOK ==
  ASSUME TypeOK, ClientInv, Remember, NEW a \in Owners, TakeWallet(a), UNCHANGED deriving,
         sent' = sent \/ (a # None /\ Register(a, LoadCachedKeys(a)))
  PROVE  /\ KeysOK' /\ wallet' = a /\ keys' = LoadCachedKeys(a)
<1>1. wallet' = a /\ keys' = LoadCachedKeys(a) /\ cache' = cache
  BY DEF TakeWallet
<1>2. LoadCachedKeys(a) \in {None, a} \cup misfiled
  BY DEF LoadCachedKeys, ClientInv, KeysOK, MisfiledOnlyWhenCrossed, Owners
<1>3. misfiled \subseteq misfiled'
  BY Remembered DEF ClientInv
<1>4. \A r \in sent' : r[2] \in {r[1]} \cup misfiled
  BY <1>2 DEF Register, ClientInv, KeysOK, MisfiledOnlyWhenCrossed
<1>5. MisfiledOnlyWhenCrossed'
  BY <1>1, <1>3, <1>4 DEF ClientInv, KeysOK, MisfiledOnlyWhenCrossed
<1>6. deriving.at = "sign" =>
        deriving.signer # None /\ (deriving.signer = wallet' \/ "derive" \in crossed')
  BY Remembered DEF ClientInv, KeysOK
<1>7. keys' \in {None, wallet'} \cup misfiled'
  BY <1>1, <1>2, <1>3
<1> QED
  BY <1>1, <1>5, <1>6, <1>7 DEF KeysOK

LEMMA ChangeHeard ==
  ASSUME TypeOK, ClientInv, Remember, OnAccountChange
  PROVE  ClientInv'
<1> DEFINE a == Head(replies).account
<1>0. /\ Answered("event") /\ replies' = Tail(replies) /\ TakeWallet(a) /\ Hear(a)
      /\ UNCHANGED <<account, sent, disconnected, connecting, deriving>>
  BY DEF OnAccountChange, external
<1>1. a \in Owners /\ (Quiet' => a = account)
  BY <1>0, HeadType, AnswerLeaves
<1>2. QueueOK'
  BY <1>0, AnswerKeeps
<1> HIDE DEF a
<1>3. KeysOK' /\ wallet' = a /\ keys' = LoadCachedKeys(a)
  BY <1>0, <1>1, TakenOK
<1>4. connecting' # "no" => ~disconnected' \/ "connect" \in crossed'
  BY <1>0, Remembered DEF ClientInv, PageOK
<1>5. CASE disconnected
  <2>1. UNCHANGED <<address, hasKeys, disconnected>> /\ ~CrossedConnect
    BY <1>0, <1>5 DEF Hear, CrossedConnect
  <2>2. address # None => pageSpoiled
    BY <1>5 DEF ClientInv, PageOK
  <2>3. (pageSpoiled' <=> pageSpoiled)
    BY <2>1, Remembered DEF ClientInv, PageOK
  <2>4. PageOK'
    BY <1>0, <1>4, <2>1, <2>2, <2>3, Remembered DEF ClientInv, PageOK
  <2> QED
    BY <1>2, <1>3, <2>1, <2>2, <2>3, <2>4 DEF ClientInv, FollowOK
<1>6. CASE ~disconnected
  <2>1. address' = a /\ hasKeys' = (keys' # None)
    BY <1>0, <1>3, <1>6 DEF Hear, Show
  <2>2. ~pageSpoiled' /\ ~disconnected'
    BY <1>0, <1>6, Remembered DEF ClientInv
  <2>3. PageOK'
    BY <1>3, <1>4, <2>1, <2>2, Remembered DEF ClientInv, PageOK
  <2> QED
    BY <1>0, <1>1, <1>2, <1>3, <2>1, <2>3 DEF ClientInv, FollowOK
<1> QED
  BY <1>5, <1>6

LEMMA ConnectEnds ==
  ASSUME TypeOK, ClientInv, Remember, FinishConnect
  PROVE  ClientInv'
<1> DEFINE a == Head(replies).account
<1>0. /\ Answered("connect") /\ replies' = Tail(replies) /\ connecting' = "no"
      /\ UNCHANGED <<account, disconnected, deriving>>
      /\ a = None => UNCHANGED <<sent, wallet, keys, cache, address, hasKeys>>
      /\ a # None => TakeWallet(a) /\ Show(a) /\ Register(a, LoadCachedKeys(a))
  BY DEF FinishConnect, client
<1>1. a \in Owners /\ (Quiet' => a = account) /\ (Quiet' => Quiet)
  BY <1>0, HeadType, AnswerLeaves
<1>2. QueueOK'
  BY <1>0, AnswerKeeps
<1>3. connecting = "read"
  BY <1>0, AnswerLeaves DEF ClientInv, QueueOK
<1> HIDE DEF a
<1>4. CASE a = None
  <2>1. KeysOK' /\ PageOK' /\ (pageSpoiled' <=> pageSpoiled)
    BY <1>0, <1>4, KeysKept, PageKept
  <2> QED
    BY <1>0, <1>1, <1>2, <1>4, <2>1 DEF ClientInv, FollowOK
<1>5. CASE a # None
  <2>1. KeysOK' /\ wallet' = a /\ keys' = LoadCachedKeys(a)
    BY <1>0, <1>1, <1>5, TakenOK
  <2>2. address' = a /\ hasKeys' = (keys' # None)
    BY <1>0, <1>5, <2>1 DEF Show
  <2>3. disconnected => address = None /\ "connect" \in crossed
    BY <1>3 DEF ClientInv, PageOK
  <2>4. pageSpoiled' <=> disconnected'
    BY <1>0, <1>5, <2>2, <2>3, Remembered DEF ClientInv, CrossedConnect
  <2>5. PageOK'
    BY <1>0, <1>5, <2>1, <2>2, <2>4, Remembered DEF ClientInv, PageOK
  <2> QED
    BY <1>0, <1>1, <1>2, <2>1, <2>2, <2>5 DEF ClientInv, FollowOK
<1> QED
  BY <1>4, <1>5

LEMMA ReconnectEnds ==
  ASSUME TypeOK, ClientInv, Remember, FinishReconnect
  PROVE  ClientInv'
<1> DEFINE a == Head(replies).account
<1>0. /\ Answered("reload") /\ replies' = Tail(replies)
      /\ UNCHANGED <<account, connecting, deriving>>
      /\ a = None => UNCHANGED <<sent, wallet, keys, cache, disconnected, address, hasKeys>>
      /\ a # None => /\ TakeWallet(a) /\ Show(a) /\ Register(a, LoadCachedKeys(a))
                     /\ disconnected' = FALSE
  BY DEF FinishReconnect, client, provider, Listen
<1>1. a \in Owners /\ (Quiet' => a = account) /\ (Quiet' => Quiet)
  BY <1>0, HeadType, AnswerLeaves
<1>2. QueueOK'
  BY <1>0, AnswerKeeps
<1> HIDE DEF a
<1>4. CASE a = None
  <2>1. KeysOK' /\ PageOK' /\ (pageSpoiled' <=> pageSpoiled)
    BY <1>0, <1>4, KeysKept, PageKept
  <2> QED
    BY <1>0, <1>1, <1>2, <1>4, <2>1 DEF ClientInv, FollowOK
<1>5. CASE a # None
  <2>1. KeysOK' /\ wallet' = a /\ keys' = LoadCachedKeys(a)
    BY <1>0, <1>1, <1>5, TakenOK
  <2>2. address' = a /\ hasKeys' = (keys' # None)
    BY <1>0, <1>5, <2>1 DEF Show
  <2>3. ~pageSpoiled' /\ ~disconnected'
    BY <1>0, <1>5, Remembered DEF ClientInv
  <2>4. PageOK'
    BY <2>1, <2>2, <2>3, Remembered DEF ClientInv, PageOK
  <2> QED
    BY <1>0, <1>1, <1>2, <2>1, <2>2, <2>4 DEF ClientInv, FollowOK
<1> QED
  BY <1>4, <1>5

-----------------------------------------------------------------------------
\* Deriving keys.

LEMMA DeriveStarts ==
  ASSUME TypeOK, ClientInv, Remember, StartDerive
  PROVE  ClientInv'
<1>0. /\ wallet # None /\ deriving.at = "no"
      /\ UNCHANGED <<account, wallet, keys, cache, disconnected, address, replies, connecting>>
  BY DEF StartDerive, GenerateOffered, client
<1>1. deriving \in [at : {"no", "sign", "register"}, signer : Owners]
  BY TypeSplits DEF StateType
<1>2. QueueOK' /\ (Quiet' <=> Quiet)
  BY <1>0 DEF ClientInv, QueueOK, Current, Quiet
<1>3. CASE keys # None
  <2>1. hasKeys' = TRUE /\ deriving'.at = "register" /\ sent' = sent \cup {<<wallet, keys>>}
    BY <1>0, <1>1, <1>3 DEF StartDerive, Derived, Register
  <2>2. PageOK' /\ (pageSpoiled' <=> pageSpoiled)
    BY <1>0, <1>3, PageKept
  <2>3. misfiled \subseteq misfiled'
    BY Remembered DEF ClientInv
  <2>4. keys \in {wallet} \cup misfiled
    BY <1>3 DEF ClientInv, KeysOK
  <2>5. MisfiledOnlyWhenCrossed'
    BY <1>0, <2>1, <2>3, <2>4 DEF ClientInv, KeysOK, MisfiledOnlyWhenCrossed
  <2>6. KeysOK'
    BY <1>0, <2>1, <2>3, <2>5 DEF ClientInv, KeysOK
  <2> QED
    BY <1>0, <1>2, <2>2, <2>6 DEF ClientInv, FollowOK
<1>4. CASE keys = None
  <2>1. deriving' = [at |-> "sign", signer |-> wallet] /\ UNCHANGED <<hasKeys, sent>>
    BY <1>4 DEF StartDerive
  <2>2. PageOK' /\ (pageSpoiled' <=> pageSpoiled)
    BY <1>0, <2>1, PageKept
  <2>3. misfiled \subseteq misfiled'
    BY Remembered DEF ClientInv
  <2>4. MisfiledOnlyWhenCrossed'
    BY <1>0, <2>1, <2>3 DEF ClientInv, KeysOK, MisfiledOnlyWhenCrossed
  <2>5. KeysOK'
    BY <1>0, <2>1, <2>3, <2>4 DEF ClientInv, KeysOK
  <2> QED
    BY <1>0, <1>2, <2>2, <2>5 DEF ClientInv, FollowOK
<1> QED
  BY <1>3, <1>4

\* The signature has come: its signer is the wallet, or is misfiled.
LEMMA SignEnds ==
  ASSUME TypeOK, ClientInv, Remember, Signed
  PROVE  ClientInv'
<1> DEFINE k == deriving.signer
<1>0. /\ keys' = k /\ k # None /\ deriving.at = "sign" /\ deriving'.at # "sign"
      /\ UNCHANGED <<account, wallet, disconnected, address, replies, connecting>>
      /\ wallet = None => UNCHANGED <<cache, hasKeys, sent>>
      /\ wallet # None =>
           /\ cache' = [cache EXCEPT ![wallet] = k]
           /\ sent' = sent \cup {<<wallet, k>>} /\ hasKeys' = TRUE
  BY TypeSplits DEF Signed, ClientInv, KeysOK, Derived, Register, Idle, StateType
<1>1. cache \in [Accounts -> Owners] /\ k \in Owners
  BY TypeSplits DEF StateType
<1>2. QueueOK' /\ (Quiet' <=> Quiet)
  BY <1>0 DEF ClientInv, QueueOK, Current, Quiet
<1>3. misfiled \subseteq misfiled' /\ k \in {wallet} \cup misfiled'
  BY <1>0, Remembered DEF ClientInv, KeysOK, CrossedSignature
<1> HIDE DEF k
<1>4. \A a \in Accounts : cache'[a] \in {None, a} \cup misfiled'
  <2>1. \A a \in Accounts : cache'[a] \in {cache[a]} \cup (IF a = wallet THEN {k} ELSE {})
    BY <1>0, <1>1
  <2> QED
    BY <1>3, <2>1 DEF ClientInv, KeysOK, MisfiledOnlyWhenCrossed
<1>5. \A r \in sent' : r[2] \in {r[1]} \cup misfiled'
  BY <1>0, <1>3 DEF ClientInv, KeysOK, MisfiledOnlyWhenCrossed
<1>6. KeysOK'
  BY <1>0, <1>3, <1>4, <1>5 DEF KeysOK, MisfiledOnlyWhenCrossed
<1>7. ~CrossedConnect
  BY <1>0 DEF CrossedConnect
<1>8. pageSpoiled' <=> pageSpoiled
  BY <1>0, <1>7, Remembered DEF ClientInv, PageOK
<1>9. PageOK'
  BY <1>0, <1>8, Remembered DEF ClientInv, PageOK
<1> QED
  BY <1>0, <1>2, <1>6, <1>8, <1>9 DEF ClientInv, FollowOK

LEMMA DerivationEnds ==
  ASSUME TypeOK, ClientInv, Remember, SignatureRejected \/ Registered
  PROVE  ClientInv'
<1>1. /\ deriving' = Idle /\ Idle.at = "no"
      /\ UNCHANGED <<account, sent, wallet, keys, cache, disconnected, address, hasKeys, replies, connecting>>
  BY DEF SignatureRejected, Registered, ShowLink, external, client, provider, Idle
<1>2. KeysOK' /\ PageOK' /\ (pageSpoiled' <=> pageSpoiled)
  BY <1>1, KeysKept, PageKept
<1> QED
  BY <1>1, <1>2 DEF ClientInv, QueueOK, Current, FollowOK, Quiet

LEMMA ClientStays ==
  ASSUME ClientInv, UNCHANGED vars
  PROVE  ClientInv'
<1>1. UNCHANGED <<Shared, loads, sending, lastRead, scans, past>>
  BY ViewStepsKeep DEF vars, tasks, traffic
<1>2. InFlight' = InFlight
  BY <1>1 DEF Shared, InFlight
<1> QED
  BY <1>1, <1>2 DEF ClientInv, Shared, past, QueueOK, Current, KeysOK, MisfiledOnlyWhenCrossed, PageOK,
     FollowOK, Quiet

LEMMA ClientNext ==
  ASSUME TypeOK, ClientInv, [Next]_vars
  PROVE  ClientInv'
<1>0. Next => Step /\ Remember
  BY NextIs
<1>1. CASE Next /\ ((\E a \in Accounts : SwitchAccount(a)) \/ SwitchChain \/ Revoke)
  BY <1>0, <1>1, ChangesKeep
<1>2. CASE Next /\ \E a \in Accounts : Pick(a)
  BY <1>0, <1>2, PickKeeps
<1>3. CASE Next /\ (ReadSigner \/ Connect \/ RejectPicker \/ Disconnect \/ Reload)
  BY <1>0, <1>3, ReadKeeps, ConnectKeeps, RejectKeeps, DisconnectKeeps, ReloadKeeps
<1>4. CASE Next /\ (OnAccountChange \/ FinishConnect \/ FinishReconnect)
  BY <1>0, <1>4, ChangeHeard, ConnectEnds, ReconnectEnds
<1>5. CASE Next /\ (StartDerive \/ Signed \/ SignatureRejected \/ Registered)
  BY <1>0, <1>5, DeriveStarts, SignEnds, DerivationEnds
<1>6. CASE Next /\ ViewSteps
  BY <1>0, <1>6, ViewStepsKeep, SharedKeep
<1>7. CASE UNCHANGED vars
  BY <1>7, ClientStays
<1> QED
  BY <1>0, <1>1, <1>2, <1>3, <1>4, <1>5, <1>6, <1>7 DEF Step, Interrupt, Proceed, ViewSteps

LEMMA InitOK ==
  ASSUME Init
  PROVE  TypeOK /\ ClientInv
<1>1. DOMAIN replies = {1} /\ replies[1].by = "reload" /\ Current(replies, account)
  BY FreshQueue DEF Init
<1>2. ClientInv
  BY <1>1 DEF Init, ClientInv, QueueOK, KeysOK, MisfiledOnlyWhenCrossed, PageOK, FollowOK, Idle
<1>3. replies \in Seq(Reply)
  BY DEF Init, Read, Reply
<1>4. StateType /\ PastType
  BY DEF Init, StateType, PastType, Owners, FreshTab, Tabs, Idle
<1> QED
  BY <1>2, <1>3, <1>4, TypeSplits

\* Every variable keeps to its type, whatever the user interrupts.
THEOREM TypeCorrect == Spec => []TypeOK
<1>1. Init => TypeOK
  BY InitOK
<1>2. TypeOK /\ [Next]_vars => TypeOK'
  BY TypeNext
<1> QED
  BY <1>1, <1>2, PTL DEF Spec

LEMMA ClientSafe == Spec => []ClientInv
<1>1. Init => TypeOK /\ ClientInv
  BY InitOK
<1>2. TypeOK /\ ClientInv /\ [Next]_vars => (TypeOK /\ ClientInv)'
  BY TypeNext, ClientNext
<1> QED
  BY <1>1, <1>2, PTL DEF Spec

\* The cache of core/keys.ts and the operator pair an account's address with
\* other keys than its own only when the wallet of the client changed during
\* the signature that the keys were derived from.
THEOREM Misfiled == Spec => []MisfiledOnlyWhenCrossed
<1>1. ClientInv => MisfiledOnlyWhenCrossed
  BY DEF ClientInv, KeysOK
<1> QED
  BY <1>1, ClientSafe, PTL

\* LatentProvider shows the account the LatentClient acts for, and keys only
\* when the client holds them, unless it was disconnected during a connect.
THEOREM UiAgrees == Spec => []UiAgreesWithClient
<1>1. ClientInv => UiAgreesWithClient
  BY DEF ClientInv, PageOK, KeysOK, UiAgreesWithClient
<1> QED
  BY <1>1, ClientSafe, PTL

\* A page with no read of the signer left to answer shows the account exposed,
\* with the same exception.
THEOREM Follows == Spec => []FollowsWallet
<1>1. ClientInv => FollowsWallet
  <2>1. replies = <<>> => Quiet
    BY DEF Quiet
  <2> QED
    BY <2>1 DEF ClientInv, FollowOK, FollowsWallet
<1> QED
  BY <1>1, ClientSafe, PTL

-----------------------------------------------------------------------------
\* The inductive invariant of the view.

\* A task that was not crossed acts for the wallet the client has now.
ActsOK ==
  /\ deriving.at # "no" /\ "derive" \notin crossed => wallet # None
  /\ "scan" \notin crossed =>
       \A s \in Scans : scans[s] = "no" \/ (wallet # None /\ scans[s] \in {"fetch", wallet} \cup misfiled)
  /\ "history" \notin crossed => loads \subseteq {wallet}
  /\ "send" \notin crossed => {sending, lastRead} \subseteq {None, wallet}

\* Without an account to show, tasks were crossed or the cards have something.
AloneOK ==
  address = None =>
    /\ deriving.at # "no" => "derive" \in crossed
    /\ (\E s \in Scans : scans[s] # "no") => "scan" \in crossed \/ link # None
    /\ loads # {} => "history" \in crossed \/ link # None \/ history # {}
    /\ {sending, lastRead} # {None} => "send" \in crossed

\* Balances being read are those of the account shown, once the effects ran.
ReadsOK == address = prevAddress /\ ~pageSpoiled => reads \subseteq {address}

\* Cards that are not spoiled are empty without an account, and are the
\* account's, except until the effect of a change of account has cleared them.
BareOK == address = None /\ ~cardsSpoiled => Shown = {} /\ ~hasKeys

CardsOK ==
  ~pageSpoiled /\ ~cardsSpoiled /\ address # None /\ prevAddress \in {None, address} =>
    Shown \subseteq {address} \cup misfiled

ViewInv == ActsOK /\ AloneOK /\ ReadsOK /\ BareOK /\ CardsOK

-----------------------------------------------------------------------------
\* Tasks in flight.

\* The steps by which a task starts, goes on or ends.
TaskSteps ==
  \/ StartDerive \/ HistoryEffect \/ StartSend \/ FinishSend \/ FinishLastRead
  \/ \E a \in Accounts : FinishHistory(a)
  \/ \E s \in Scans : AutoScan(s) \/ ManualScan(s) \/ DecryptNotes(s) \/ FinishScan(s)

Working == <<scans, loads, sending, lastRead>>

LEMMA OthersKeepTasks ==
  ASSUME Step, ~TaskSteps
  PROVE  Reload \/ (UNCHANGED Working /\ (deriving'.at # "no" => deriving.at # "no"))
<1>1. CASE \/ \E a \in Accounts : SwitchAccount(a) \/ Pick(a)
           \/ Revoke \/ SwitchChain \/ ReadSigner \/ Connect \/ RejectPicker \/ Disconnect
           \/ OnAccountChange \/ FinishConnect \/ FinishReconnect
  BY <1>1 DEF SwitchAccount, Pick, Revoke, SwitchChain, ReadSigner, Connect, RejectPicker, Disconnect,
       OnAccountChange, FinishConnect, FinishReconnect, traffic, Working
<1>2. CASE Signed \/ SignatureRejected \/ Registered
  BY <1>2 DEF Signed, SignatureRejected, Registered, traffic, Working
<1>3. CASE AddressEffect \/ LinkEffect
  BY <1>3 DEF AddressEffect, LinkEffect, tasks, traffic, Working
<1>4. CASE BalanceEffect \/ (\E t \in Tabs : SelectTab(t)) \/ \E a \in Accounts : FinishRead(a)
  BY <1>4 DEF BalanceEffect, SelectTab, FinishRead, others, Working
<1> QED
  BY <1>1, <1>2, <1>3, <1>4 DEF Step, Interrupt, Proceed, TaskSteps

LEMMA TasksKeepWallet ==
  ASSUME TaskSteps
  PROVE  UNCHANGED <<wallet, keys, address, prevAddress, link>>
<1>1. CASE StartDerive
  BY <1>1 DEF StartDerive, client, view, received
<1>2. CASE HistoryEffect \/ StartSend \/ FinishSend \/ FinishLastRead \/ \E a \in Accounts : FinishHistory(a)
  BY <1>2 DEF HistoryEffect, StartSend, FinishSend, FinishLastRead, FinishHistory, others, client, provider,
       received
<1>3. CASE \E s \in Scans : AutoScan(s) \/ ManualScan(s) \/ DecryptNotes(s) \/ FinishScan(s)
  BY <1>3 DEF AutoScan, ManualScan, StartScan, DecryptNotes, FinishScan, client, provider
<1> QED
  BY <1>1, <1>2, <1>3 DEF TaskSteps

\* What is crossed, task by task.
LEMMA CrossedTasks ==
  ASSUME PageOK, Remember
  PROVE  /\ deriving'.at # "no" =>
              ("derive" \in crossed \/ (deriving.at # "no" /\ wallet' # wallet) <=> "derive" \in crossed')
         /\ (\E s \in Scans : scans'[s] # "no") =>
              ("scan" \in crossed \/ ((\E s \in Scans : scans[s] # "no") /\ wallet' # wallet)
                 <=> "scan" \in crossed')
         /\ loads' # {} =>
              ("history" \in crossed \/ (loads # {} /\ wallet' # wallet) <=> "history" \in crossed')
         /\ {sending, lastRead}' # {None} =>
              ("send" \in crossed \/ ({sending, lastRead} # {None} /\ wallet' # wallet) <=> "send" \in crossed')
<1>1. crossed \subseteq InFlight
  BY DEF PageOK
<1> QED
  BY <1>1, CrossedNext, InFlightIs, InFlightNext

LEMMA ReloadIdle ==
  ASSUME Reload
  PROVE  /\ deriving'.at = "no" /\ loads' = {} /\ {sending, lastRead}' = {None}
         /\ \A s \in Scans : scans'[s] = "no"
         /\ sending' = None /\ lastRead' = None
BY DEF Reload, Idle

LEMMA ActsKept ==
  ASSUME TypeOK, PageOK, ActsOK, Remember, UNCHANGED Working, deriving'.at # "no" => deriving.at # "no"
  PROVE  ActsOK'
<1>1. misfiled \subseteq misfiled'
  BY Remembered
<1>2. UNCHANGED <<scans, loads, sending, lastRead>>
  BY DEF Working
<1>3. deriving'.at # "no" /\ "derive" \notin crossed' => wallet' # None
  BY CrossedTasks DEF ActsOK
<1>4. "scan" \notin crossed' =>
        \A s \in Scans : scans'[s] = "no" \/ (wallet' # None /\ scans'[s] \in {"fetch", wallet'} \cup misfiled')
  BY <1>1, <1>2, CrossedTasks DEF ActsOK
<1>5. "history" \notin crossed' => loads' \subseteq {wallet'}
  BY <1>2, CrossedTasks DEF ActsOK
<1>6. "send" \notin crossed' => {sending, lastRead}' \subseteq {None, wallet'}
  BY <1>2, CrossedTasks DEF ActsOK
<1> QED
  BY <1>3, <1>4, <1>5, <1>6 DEF ActsOK

\* A scan ends, or goes on with the keys of the wallet, or starts for it.
LEMMA ScanGoesOn ==
  ASSUME TypeOK, ClientInv, ActsOK, NEW s \in Scans,
         AutoScan(s) \/ ManualScan(s) \/ DecryptNotes(s) \/ FinishScan(s)
  PROVE  /\ UNCHANGED <<loads, sending, lastRead, deriving>>
         /\ \A r \in Scans : \/ scans'[r] = scans[r] \/ scans'[r] = "no"
                             \/ wallet # None /\ scans'[r] = "fetch" /\ (AutoScan(s) \/ ManualScan(s))
                             \/ scans[r] = "fetch" /\ scans'[r] \in {wallet} \cup misfiled
<1>0. scans \in [Scans -> {"no", "fetch"} \cup Accounts]
  BY TypeSplits DEF StateType
<1>1. CASE AutoScan(s) \/ ManualScan(s)
  BY <1>0, <1>1 DEF AutoScan, ManualScan, StartScan, traffic
<1>2. CASE DecryptNotes(s)
  <2>1. keys \in {None, wallet} \cup misfiled
    BY DEF ClientInv, KeysOK
  <2> QED
    BY <1>0, <1>2, <2>1 DEF DecryptNotes, traffic
<1>3. CASE FinishScan(s)
  BY <1>0, <1>3 DEF FinishScan, traffic
<1> QED
  BY <1>1, <1>2, <1>3

LEMMA ActsByTasks ==
  ASSUME TypeOK, ClientInv, ActsOK, Remember, TaskSteps
  PROVE  ActsOK'
<1>0. /\ StateType /\ PageOK /\ misfiled \subseteq misfiled' /\ None \notin Accounts
      /\ wallet' = wallet
  BY TypeSplits, Remembered, TasksKeepWallet, NoneAssumption DEF ClientInv
<1>1. CASE StartDerive
  <2>1. wallet # None /\ UNCHANGED Working
    BY <1>1 DEF StartDerive, traffic, Working
  <2>2. UNCHANGED <<scans, loads, sending, lastRead>>
    BY <2>1 DEF Working
  <2>3. "scan" \notin crossed' =>
        \A s \in Scans : scans'[s] = "no" \/ (wallet' # None /\ scans'[s] \in {"fetch", wallet'} \cup misfiled')
    BY <1>0, <2>2, CrossedTasks DEF ActsOK
  <2>4. ("history" \notin crossed' => loads' \subseteq {wallet'})
        /\ ("send" \notin crossed' => {sending, lastRead}' \subseteq {None, wallet'})
    BY <1>0, <2>2, CrossedTasks DEF ActsOK
  <2> QED
    BY <1>0, <2>1, <2>3, <2>4 DEF ActsOK
<1>2. CASE HistoryEffect \/ StartSend \/ FinishSend \/ FinishLastRead \/ \E a \in Accounts : FinishHistory(a)
  <2>1. UNCHANGED <<scans, deriving>> /\ loads' \subseteq loads \cup {wallet}
    BY <1>2 DEF HistoryEffect, StartSend, FinishSend, FinishLastRead, FinishHistory, LoadHistory, others
  <2>2. sending' \in {sending, None, wallet} /\ lastRead' \in {lastRead, None, wallet}
    BY <1>2 DEF HistoryEffect, StartSend, FinishSend, FinishLastRead, FinishHistory
  <2>3. "scan" \notin crossed' =>
        \A s \in Scans : scans'[s] = "no" \/ (wallet' # None /\ scans'[s] \in {"fetch", wallet'} \cup misfiled')
    BY <1>0, <2>1, CrossedTasks DEF ActsOK
  <2>4. "history" \notin crossed' => loads' \subseteq {wallet'}
    BY <1>0, <2>1, CrossedTasks DEF ActsOK
  <2>5. "send" \notin crossed' => {sending, lastRead}' \subseteq {None, wallet'}
    BY <1>0, <2>2, CrossedTasks DEF ActsOK
  <2>6. deriving'.at # "no" /\ "derive" \notin crossed' => wallet' # None
    BY <1>0, <2>1, CrossedTasks DEF ActsOK
  <2> QED
    BY <2>3, <2>4, <2>5, <2>6 DEF ActsOK
<1>3. ASSUME NEW s \in Scans, AutoScan(s) \/ ManualScan(s) \/ DecryptNotes(s) \/ FinishScan(s)
      PROVE  ActsOK'
  <2>1. /\ UNCHANGED <<loads, sending, lastRead, deriving>>
        /\ \A r \in Scans : \/ scans'[r] = scans[r] \/ scans'[r] = "no"
                            \/ wallet # None /\ scans'[r] = "fetch"
                            \/ scans[r] = "fetch" /\ scans'[r] \in {wallet} \cup misfiled
    BY <1>3, ScanGoesOn
  <2>2. "scan" \notin crossed' =>
        \A r \in Scans : scans'[r] = "no" \/ (wallet' # None /\ scans'[r] \in {"fetch", wallet'} \cup misfiled')
    <3> SUFFICES ASSUME "scan" \notin crossed', NEW r \in Scans, scans'[r] # "no"
                 PROVE  wallet' # None /\ scans'[r] \in {"fetch", wallet'} \cup misfiled'
      OBVIOUS
    <3>1. "scan" \notin crossed
      BY <1>0, CrossedTasks
    <3> QED
      BY <1>0, <2>1, <3>1 DEF ActsOK
  <2>3. ("history" \notin crossed' => loads' \subseteq {wallet'})
        /\ ("send" \notin crossed' => {sending, lastRead}' \subseteq {None, wallet'})
    BY <1>0, <2>1, CrossedTasks DEF ActsOK
  <2>4. deriving'.at # "no" /\ "derive" \notin crossed' => wallet' # None
    BY <1>0, <2>1, CrossedTasks DEF ActsOK
  <2> QED
    BY <2>2, <2>3, <2>4 DEF ActsOK
<1> QED
  BY <1>1, <1>2, <1>3 DEF TaskSteps

LEMMA ActsNext ==
  ASSUME TypeOK, ClientInv, ActsOK, Step, Remember
  PROVE  ActsOK'
<1>1. CASE Reload
  BY <1>1, ReloadIdle DEF ActsOK
<1> QED
  BY <1>1, ActsByTasks, ActsKept, OthersKeepTasks DEF ClientInv

-----------------------------------------------------------------------------
\* A page without an account.

\* With the wallet gone every task still in flight has been crossed.
LEMMA WalletGone ==
  ASSUME TypeOK, ClientInv, ActsOK, Remember, wallet' = None, UNCHANGED Working, UNCHANGED deriving
  PROVE  AloneOK'
<1>1. PageOK /\ StateType /\ None \notin Accounts
  BY TypeSplits, NoneAssumption DEF ClientInv
<1>2. UNCHANGED <<scans, loads, sending, lastRead>>
  BY DEF Working
<1>3. deriving'.at # "no" => "derive" \in crossed'
  BY <1>1, CrossedTasks DEF ActsOK
<1>4. (\E s \in Scans : scans'[s] # "no") => "scan" \in crossed'
  BY <1>1, <1>2, CrossedTasks DEF ActsOK
<1>5. loads' # {} => "history" \in crossed'
  BY <1>1, <1>2, CrossedTasks DEF ActsOK, StateType
<1>6. {sending, lastRead}' # {None} => "send" \in crossed'
  BY <1>1, <1>2, CrossedTasks DEF ActsOK
<1> QED
  BY <1>3, <1>4, <1>5, <1>6 DEF AloneOK

LEMMA AloneKept ==
  ASSUME TypeOK, ClientInv, AloneOK, Remember, UNCHANGED <<address, Working>>,
         deriving'.at # "no" => deriving.at # "no",
         address = None => UNCHANGED history /\ (link # None => link' # None)
  PROVE  AloneOK'
<1>1. PageOK
  BY DEF ClientInv
<1>2. UNCHANGED <<scans, loads, sending, lastRead>>
  BY DEF Working
<1> SUFFICES ASSUME address' = None PROVE AloneOK'
  BY DEF AloneOK
<1>3. deriving'.at # "no" => "derive" \in crossed'
  BY <1>1, CrossedTasks DEF AloneOK
<1>4. (\E s \in Scans : scans'[s] # "no") => "scan" \in crossed' \/ link' # None
  BY <1>1, <1>2, CrossedTasks DEF AloneOK
<1>5. loads' # {} => "history" \in crossed' \/ link' # None \/ history' # {}
  BY <1>1, <1>2, CrossedTasks DEF AloneOK
<1>6. {sending, lastRead}' # {None} => "send" \in crossed'
  BY <1>1, <1>2, CrossedTasks DEF AloneOK
<1> QED
  BY <1>3, <1>4, <1>5, <1>6 DEF AloneOK

LEMMA AloneByTasks ==
  ASSUME TypeOK, ClientInv, ActsOK, AloneOK, Remember, TaskSteps
  PROVE  AloneOK'
<1>0. /\ PageOK /\ StateType /\ None \notin Accounts
      /\ UNCHANGED <<wallet, address, link>>
  BY TypeSplits, NoneAssumption, TasksKeepWallet DEF ClientInv
<1> SUFFICES ASSUME address' = None PROVE AloneOK'
  BY DEF AloneOK
<1>1. ASSUME NEW s \in Scans, AutoScan(s) \/ ManualScan(s) \/ DecryptNotes(s) \/ FinishScan(s)
      PROVE  AloneOK'
  <2>1. UNCHANGED <<loads, sending, lastRead, deriving, history>>
    BY <1>1, ScanGoesOn DEF AutoScan, ManualScan, StartScan, DecryptNotes, FinishScan, activity
  <2>2. (\E r \in Scans : scans'[r] # "no") => (\E r \in Scans : scans[r] # "no") \/ link # None
    <3>1. CASE AutoScan(s) \/ ManualScan(s)
      BY <3>1 DEF AutoScan, ManualScan, ScanOffered
    <3>2. CASE DecryptNotes(s) \/ FinishScan(s)
      BY <3>2 DEF DecryptNotes, FinishScan
    <3> QED
      BY <1>1, <3>1, <3>2
  <2>3. deriving'.at # "no" => "derive" \in crossed'
    BY <1>0, <2>1, CrossedTasks DEF AloneOK
  <2>4. (\E r \in Scans : scans'[r] # "no") => "scan" \in crossed' \/ link' # None
    BY <1>0, <2>2, CrossedTasks DEF AloneOK
  <2>5. loads' # {} => "history" \in crossed' \/ link' # None \/ history' # {}
    BY <1>0, <2>1, CrossedTasks DEF AloneOK
  <2>6. {sending, lastRead}' # {None} => "send" \in crossed'
    BY <1>0, <2>1, CrossedTasks DEF AloneOK
  <2> QED
    BY <2>3, <2>4, <2>5, <2>6 DEF AloneOK
<1>2. ~(StartDerive \/ HistoryEffect \/ StartSend)
  BY <1>0 DEF StartDerive, GenerateOffered, OnTab, HistoryEffect, StartSend, SendOffered
<1>3. CASE FinishSend \/ FinishLastRead \/ \E a \in Accounts : FinishHistory(a)
  <2>1. UNCHANGED <<scans, deriving>>
    BY <1>3 DEF FinishSend, FinishLastRead, FinishHistory, others
  <2>2. {sending, lastRead}' # {None} => {sending, lastRead} # {None}
    BY <1>3 DEF FinishSend, FinishLastRead, FinishHistory
  <2>3. deriving'.at # "no" => "derive" \in crossed'
    BY <1>0, <2>1, CrossedTasks DEF AloneOK
  <2>4. (\E r \in Scans : scans'[r] # "no") => "scan" \in crossed' \/ link' # None
    BY <1>0, <2>1, CrossedTasks DEF AloneOK
  <2>5. {sending, lastRead}' # {None} => "send" \in crossed'
    BY <1>0, <2>2, CrossedTasks DEF AloneOK
  <2>6. loads' # {} => "history" \in crossed' \/ link' # None \/ history' # {}
    <3> SUFFICES ASSUME loads' # {}, "history" \notin crossed', link' = None
                 PROVE  history' # {}
      OBVIOUS
    <3>1. "history" \notin crossed
      BY <1>0, CrossedTasks
    <3>2. CASE FinishSend
      <4>1. loads' # loads => history' = history \cup {sending}
        BY <3>2 DEF FinishSend
      <4>2. history' = history \/ history' = history \cup {sending}
        BY <3>2 DEF FinishSend
      <4> QED
        BY <1>0, <3>1, <4>1, <4>2 DEF AloneOK
    <3>3. CASE FinishLastRead
      BY <1>0, <3>1, <3>3 DEF FinishLastRead, AloneOK
    <3>4. ASSUME NEW a \in Accounts, FinishHistory(a)
          PROVE  FALSE
      BY <3>1, <3>4 DEF FinishHistory, ActsOK
    <3> QED
      BY <1>3, <3>2, <3>3, <3>4
  <2> QED
    BY <2>3, <2>4, <2>5, <2>6 DEF AloneOK
<1> QED
  BY <1>1, <1>2, <1>3 DEF TaskSteps

LEMMA AloneNext ==
  ASSUME TypeOK, ClientInv, ActsOK, AloneOK, Step, Remember
  PROVE  AloneOK'
<1>1. CASE Reload
  <2>1. /\ deriving'.at = "no" /\ loads' = {} /\ {sending, lastRead}' = {None}
        /\ \A s \in Scans : scans'[s] = "no"
    BY <1>1, ReloadIdle
  <2> QED
    BY <2>1 DEF AloneOK
<1>2. CASE Disconnect
  <2>1. wallet' = None /\ UNCHANGED deriving
    BY <1>2 DEF Disconnect, ForgetWallet
  <2> QED
    BY <1>2, <2>1, WalletGone DEF Disconnect, Working
<1>3. CASE OnAccountChange \/ FinishConnect \/ FinishReconnect
  <2>1. UNCHANGED <<Working, deriving, history, link>>
    BY <1>3 DEF OnAccountChange, FinishConnect, FinishReconnect, traffic, view, received, activity, Working
  <2>2. CASE address' = address
    BY <2>1, <2>2, AloneKept
  <2>3. CASE address' # None
    BY <2>3 DEF AloneOK
  <2>4. CASE address' = None /\ address' # address
    <3>1. wallet' = None
      BY <1>3, <2>4 DEF OnAccountChange, FinishConnect, FinishReconnect, TakeWallet, Hear, Show, provider
    <3> QED
      BY <2>1, <3>1, WalletGone
  <2> QED
    BY <2>2, <2>3, <2>4
<1>4. CASE TaskSteps
  BY <1>4, AloneByTasks
<1>5. CASE \/ \E a \in Accounts : SwitchAccount(a) \/ Pick(a)
           \/ Revoke \/ SwitchChain \/ ReadSigner \/ Connect \/ RejectPicker
           \/ Signed \/ SignatureRejected
  <2>1. UNCHANGED <<address, history, link>>
    BY <1>5 DEF SwitchAccount, Pick, Revoke, SwitchChain, ReadSigner, Connect, RejectPicker,
         Signed, SignatureRejected, provider, view, received, activity
  <2>2. ~TaskSteps => (UNCHANGED Working /\ (deriving'.at # "no" => deriving.at # "no")) \/ Reload
    BY OthersKeepTasks
  <2> QED
    BY <1>1, <1>4, <2>1, <2>2, AloneKept
<1>6. CASE \/ Registered \/ LinkEffect \/ BalanceEffect
           \/ (\E t \in Tabs : SelectTab(t)) \/ \E a \in Accounts : FinishRead(a)
  <2>1. UNCHANGED <<address, history>> /\ (link' = link \/ link' = keys)
    BY <1>6 DEF Registered, ShowLink, LinkEffect, BalanceEffect, SelectTab, FinishRead, others, provider,
         received, activity
  <2>2. link # None => link' # None
    BY <1>6 DEF Registered, ShowLink, LinkEffect, BalanceEffect, SelectTab, FinishRead, others, received
  <2>3. ~TaskSteps => (UNCHANGED Working /\ (deriving'.at # "no" => deriving.at # "no")) \/ Reload
    BY OthersKeepTasks
  <2> QED
    BY <1>1, <1>4, <2>1, <2>2, <2>3, AloneKept
<1>7. CASE AddressEffect
  <2>1. address' = address /\ (address = None => UNCHANGED <<history, link>>)
    BY <1>7 DEF AddressEffect, provider, activity
  <2>2. ~TaskSteps => (UNCHANGED Working /\ (deriving'.at # "no" => deriving.at # "no")) \/ Reload
    BY OthersKeepTasks
  <2> QED
    BY <1>1, <1>4, <2>1, <2>2, AloneKept
<1> QED
  BY <1>1, <1>2, <1>3, <1>4, <1>5, <1>6, <1>7 DEF Step, Interrupt, Proceed, TaskSteps

-----------------------------------------------------------------------------
\* What the cards show.

LEMMA Cleared ==
  ASSUME Disconnect \/ Reload
  PROVE  Shown' = {} /\ reads' = {} /\ hasKeys' = FALSE /\ address' = None
BY DEF Disconnect, Reload, ClearView, ClearReceived, ClearActivity, StopReads, Shown

\* A spoiled page stays so until it is left.
LEMMA SpoiledStays ==
  ASSUME TypeOK, ClientInv, Step, Remember, pageSpoiled
  PROVE  pageSpoiled' \/ Disconnect \/ Reload
<1>1. disconnected /\ address # None /\ connecting = "no"
  BY DEF ClientInv, PageOK
<1>2. UNCHANGED <<disconnected, address>> => pageSpoiled'
  BY <1>1, Remembered DEF ClientInv
<1>3. CASE ViewSteps
  BY <1>2, <1>3, ViewStepsKeep DEF Shared
<1>4. CASE \/ \E a \in Accounts : SwitchAccount(a) \/ Pick(a)
           \/ Revoke \/ SwitchChain \/ ReadSigner \/ RejectPicker
           \/ StartDerive \/ Signed \/ SignatureRejected \/ Registered
  BY <1>2, <1>4 DEF SwitchAccount, Pick, Revoke, SwitchChain, ReadSigner, RejectPicker, StartDerive, Signed,
       SignatureRejected, Registered, provider
<1>5. ~Connect
  BY <1>1 DEF Connect, ConnectOffered
<1>6. CASE OnAccountChange
  BY <1>1, <1>2, <1>6 DEF OnAccountChange, Hear
<1>7. ~FinishConnect /\ ~FinishReconnect
  BY <1>1, AnswerLeaves DEF FinishConnect, FinishReconnect, ClientInv, QueueOK
<1> QED
  BY <1>3, <1>4, <1>5, <1>6, <1>7 DEF Step, Interrupt, Proceed, ViewSteps

LEMMA ReadsNext ==
  ASSUME TypeOK, ClientInv, ReadsOK, Step, Remember
  PROVE  ReadsOK'
<1>0. pageSpoiled => pageSpoiled' \/ reads' = {}
  BY SpoiledStays, Cleared
<1> SUFFICES ASSUME ~pageSpoiled', reads' # {} PROVE ReadsOK'
  BY DEF ReadsOK
<1>00. ~pageSpoiled
  BY <1>0
<1>1. CASE Disconnect \/ Reload \/ AddressEffect \/ \E t \in Tabs : SelectTab(t)
  BY <1>1 DEF Disconnect, Reload, AddressEffect, SelectTab, GoToReceive, StopReads
<1>2. CASE OnAccountChange \/ FinishConnect \/ FinishReconnect
  <2>1. address = prevAddress /\ UNCHANGED <<prevAddress, reads>>
    BY <1>2 DEF OnAccountChange, FinishConnect, FinishReconnect, Answered, Rendered, view, traffic
  <2> QED
    BY <1>00, <2>1 DEF ReadsOK
<1>3. CASE BalanceEffect
  <2>1. /\ UNCHANGED <<address, prevAddress>> /\ address # None
        /\ reads' = reads \cup ({wallet} \cap Accounts)
    BY <1>3 DEF BalanceEffect, others, provider
  <2>2. wallet = address
    BY <1>00, <2>1 DEF ClientInv, PageOK
  <2> QED
    BY <1>00, <2>1, <2>2 DEF ReadsOK
<1>4. CASE \E a \in Accounts : FinishRead(a)
  BY <1>00, <1>4 DEF FinishRead, others, provider, ReadsOK
<1>5. CASE \/ \E a \in Accounts : SwitchAccount(a) \/ Pick(a)
           \/ Revoke \/ SwitchChain \/ ReadSigner \/ Connect \/ RejectPicker
           \/ StartDerive \/ Signed \/ SignatureRejected \/ Registered
  <2>1. UNCHANGED <<address, prevAddress, reads>>
    BY <1>5 DEF SwitchAccount, Pick, Revoke, SwitchChain, ReadSigner, Connect, RejectPicker,
         StartDerive, Signed, SignatureRejected, Registered, provider, view, traffic
  <2> QED
    BY <1>00, <2>1 DEF ReadsOK
<1>6. CASE \/ LinkEffect \/ HistoryEffect \/ StartSend \/ FinishSend \/ FinishLastRead
           \/ \E a \in Accounts : FinishHistory(a)
           \/ \E s \in Scans : AutoScan(s) \/ ManualScan(s) \/ DecryptNotes(s) \/ FinishScan(s)
  <2>1. UNCHANGED <<address, prevAddress, reads>>
    BY <1>6 DEF LinkEffect, HistoryEffect, StartSend, FinishSend, FinishLastRead, FinishHistory,
         AutoScan, ManualScan, StartScan, DecryptNotes, FinishScan, others, provider, view, traffic,
         tasks
  <2> QED
    BY <1>00, <2>1 DEF ReadsOK
<1> QED
  BY <1>1, <1>2, <1>3, <1>4, <1>5, <1>6 DEF Step, Interrupt, Proceed

\* Cards get spoiled, or stay so, only while they have something.
LEMMA SpoiltCards ==
  ASSUME Remember, ~cardsSpoiled', cardsSpoiled \/ CrossedAnswer \/ Revoked
  PROVE  Shown' = {} /\ (address' = None => ~hasKeys')
BY DEF Remember, SpoilCards

\* The steps that leave the cards and the account they are of as they are.
CardFrame == <<address, prevAddress, link, notes, balance, history>>

LEMMA CardFrameKept ==
  ASSUME \/ \E a \in Accounts : SwitchAccount(a) \/ Pick(a)
         \/ Revoke \/ SwitchChain \/ ReadSigner \/ Connect \/ RejectPicker
         \/ StartDerive \/ Signed \/ SignatureRejected
         \/ HistoryEffect \/ BalanceEffect \/ StartSend
         \/ \E t \in Tabs : SelectTab(t)
         \/ \E s \in Scans : AutoScan(s) \/ ManualScan(s) \/ DecryptNotes(s)
  PROVE  UNCHANGED CardFrame
<1>1. CASE \/ \E a \in Accounts : SwitchAccount(a) \/ Pick(a)
           \/ Revoke \/ SwitchChain \/ ReadSigner \/ Connect \/ RejectPicker
  BY <1>1 DEF SwitchAccount, Pick, Revoke, SwitchChain, ReadSigner, Connect, RejectPicker,
       provider, view, received, activity, CardFrame
<1>2. CASE StartDerive \/ Signed \/ SignatureRejected
  BY <1>2 DEF StartDerive, Signed, SignatureRejected, provider, view, received, activity, CardFrame
<1>3. CASE \/ HistoryEffect \/ BalanceEffect \/ StartSend
           \/ \E t \in Tabs : SelectTab(t)
  BY <1>3 DEF HistoryEffect, BalanceEffect, StartSend, SelectTab, others, provider, received, activity,
       CardFrame
<1>4. CASE \E s \in Scans : AutoScan(s) \/ ManualScan(s) \/ DecryptNotes(s)
  BY <1>4 DEF AutoScan, ManualScan, StartScan, DecryptNotes, provider, activity, CardFrame
<1> QED
  BY <1>1, <1>2, <1>3, <1>4

\* The answers that bring something onto the cards: each is crossed, or brings
\* what the wallet has.
LEMMA Brought ==
  ASSUME TypeOK, ClientInv, ActsOK, ~CrossedAnswer,
         \/ FinishSend \/ FinishLastRead
         \/ \E a \in Accounts : FinishHistory(a)
         \/ \E s \in Scans : FinishScan(s)
  PROVE  /\ UNCHANGED <<address, prevAddress, wallet, hasKeys, link>>
         /\ Shown' \subseteq Shown \cup {wallet} \cup misfiled
<1>0. StateType /\ None \notin Accounts /\ Accounts \cap {"no", "fetch"} = {}
  BY TypeSplits, NoneAssumption
<1>1. UNCHANGED <<address, prevAddress, wallet, hasKeys, link>>
  BY DEF FinishSend, FinishLastRead, FinishHistory, FinishScan, others, client, provider, received
<1>2. CASE FinishSend
  <2>1. UNCHANGED <<notes, balance>> /\ sending # None /\ history' \in {history, history \cup {sending}}
    BY <1>2 DEF FinishSend, others, received
  <2>2. history' # history => sending = wallet
    BY <2>1 DEF CrossedAnswer, ActsOK
  <2>3. history' \subseteq history \cup {wallet}
    BY <2>1, <2>2
  <2> QED
    BY <1>1, <2>1, <2>3 DEF Shown
<1>3. CASE FinishLastRead
  <2>1. UNCHANGED <<notes, history>> /\ lastRead # None /\ balance' \in {balance, lastRead}
    BY <1>3 DEF FinishLastRead, others, received
  <2>2. balance' # balance => balance' = wallet
    BY <2>1 DEF CrossedAnswer, ActsOK
  <2> QED
    BY <1>1, <2>1, <2>2 DEF Shown
<1>4. ASSUME NEW a \in Accounts, FinishHistory(a)
      PROVE  Shown' \subseteq Shown \cup {wallet} \cup misfiled
  <2>1. UNCHANGED <<notes, balance>> /\ a \in loads /\ history' \in {history, {}, {a}}
    BY <1>4 DEF FinishHistory, others, received
  <2>2. history' # history => a = wallet
    BY <2>1 DEF CrossedAnswer, ActsOK
  <2>3. history' \subseteq history \cup {wallet}
    BY <2>1, <2>2
  <2> QED
    BY <1>1, <2>1, <2>3 DEF Shown
<1>5. ASSUME NEW s \in Scans, FinishScan(s)
      PROVE  Shown' \subseteq Shown \cup {wallet} \cup misfiled
  <2>1. UNCHANGED <<balance, history>> /\ (notes' = notes \/ (notes' = scans[s] /\ notes' \in Accounts))
    BY <1>5 DEF FinishScan, activity
  <2>2. notes' # notes => notes' \in {wallet} \cup misfiled
    BY <1>0, <2>1 DEF CrossedAnswer, ActsOK
  <2> QED
    BY <1>1, <2>1, <2>2 DEF Shown
<1> QED
  BY <1>1, <1>2, <1>3, <1>4, <1>5

\* Without an account they bring nothing onto empty cards.
LEMMA BroughtAlone ==
  ASSUME TypeOK, ClientInv, AloneOK, ~CrossedAnswer, address = None, Shown = {},
         \/ FinishSend \/ FinishLastRead
         \/ \E a \in Accounts : FinishHistory(a)
         \/ \E s \in Scans : FinishScan(s)
  PROVE  Shown' = {}
<1>0. link = None /\ history = {} /\ notes = None /\ balance = None
  BY TypeSplits, NoneAssumption DEF Shown, StateType
<1>1. CASE FinishSend
  <2>1. UNCHANGED <<link, notes, balance>> /\ "send" \in crossed
    BY <1>1 DEF FinishSend, others, received, AloneOK
  <2> QED
    BY <2>1 DEF CrossedAnswer, Shown
<1>2. CASE FinishLastRead
  <2>1. UNCHANGED <<link, notes, history>> /\ "send" \in crossed
    BY <1>2 DEF FinishLastRead, others, received, AloneOK
  <2> QED
    BY <2>1 DEF CrossedAnswer, Shown
<1>3. ASSUME NEW a \in Accounts, FinishHistory(a)
      PROVE  Shown' = {}
  <2>1. UNCHANGED <<link, notes, balance>> /\ "history" \in crossed
    BY <1>0, <1>3 DEF FinishHistory, others, received, AloneOK
  <2> QED
    BY <2>1 DEF CrossedAnswer, Shown
<1>4. ASSUME NEW s \in Scans, FinishScan(s)
      PROVE  Shown' = {}
  <2>1. UNCHANGED <<link, balance, history>> /\ "scan" \in crossed
    BY <1>0, <1>4 DEF FinishScan, activity, AloneOK
  <2> QED
    BY <2>1 DEF CrossedAnswer, Shown
<1> QED
  BY <1>1, <1>2, <1>3, <1>4

LEMMA BareNext ==
  ASSUME TypeOK, ClientInv, AloneOK, ReadsOK, BareOK, Step, Remember
  PROVE  BareOK'
<1> SUFFICES ASSUME address' = None, ~cardsSpoiled', ~(Disconnect \/ Reload),
                    ~cardsSpoiled, ~CrossedAnswer, ~Revoked
             PROVE  Shown' = {} /\ ~hasKeys'
  BY SpoiltCards, Cleared DEF BareOK
<1>0. address = None /\ Shown = {} /\ ~hasKeys /\ ~pageSpoiled /\ link = None /\ (deriving.at # "no" => "derive" \in crossed)
  <2>1. address = None /\ ~pageSpoiled
    BY DEF Revoked, ClientInv, PageOK
  <2>2. Shown = {} /\ ~hasKeys
    BY <2>1 DEF BareOK
  <2> QED
    BY <2>1, <2>2, TypeSplits DEF Shown, StateType, AloneOK
<1>1. ASSUME UNCHANGED CardFrame
      PROVE  Shown' = {}
  BY <1>0, <1>1 DEF CardFrame, Shown
<1>2. CASE OnAccountChange
  <2>1. UNCHANGED <<link, notes, balance, history>> /\ Hear(Head(replies).account)
    BY <1>2 DEF OnAccountChange, view, received, activity
  <2>2. Shown' = {}
    BY <1>0, <2>1 DEF Shown
  <2>3. ~hasKeys'
    BY <1>0, <2>1 DEF Hear, Show, LoadCachedKeys
  <2> QED
    BY <2>2, <2>3
<1>3. CASE FinishConnect \/ FinishReconnect
  <2>1. UNCHANGED <<link, notes, balance, history, hasKeys>>
    BY <1>3 DEF FinishConnect, FinishReconnect, view, received, activity, Show, provider
  <2> QED
    BY <1>0, <2>1 DEF Shown
<1>4. CASE Registered \/ LinkEffect
  <2>1. UNCHANGED <<notes, balance, history, hasKeys>>
    BY <1>4 DEF Registered, LinkEffect, provider, activity
  <2>2. link' = link
    BY <1>0, <1>4 DEF Registered, LinkEffect, CrossedAnswer
  <2> QED
    BY <1>0, <2>1, <2>2 DEF Shown
<1>5. CASE AddressEffect
  <2>1. UNCHANGED <<link, notes, balance, history, hasKeys>>
    BY <1>0, <1>5 DEF AddressEffect, provider, activity
  <2> QED
    BY <1>0, <2>1 DEF Shown
<1>6. CASE FinishSend \/ FinishLastRead \/ (\E a \in Accounts : FinishHistory(a)) \/ \E s \in Scans : FinishScan(s)
  <2>1. Shown' = {}
    BY <1>0, <1>6, BroughtAlone
  <2>2. hasKeys' = hasKeys
    BY <1>6 DEF FinishSend, FinishLastRead, FinishHistory, FinishScan, others, provider
  <2> QED
    BY <1>0, <2>1, <2>2
<1>7. ~\E a \in Accounts : FinishRead(a)
  BY <1>0, NoneAssumption DEF FinishRead, Rendered, ReadsOK
<1>8. CASE StartDerive \/ Signed \/ SignatureRejected
  <2>1. ~StartDerive
    BY <1>0 DEF StartDerive, GenerateOffered, OnTab
  <2>2. hasKeys' = hasKeys
    BY <1>0, <1>8, <2>1 DEF Signed, SignatureRejected, provider, CrossedAnswer
  <2> QED
    BY <1>0, <1>1, <1>8, <2>2, CardFrameKept
<1>9. CASE \/ \E a \in Accounts : SwitchAccount(a) \/ Pick(a)
           \/ Revoke \/ SwitchChain \/ ReadSigner \/ Connect \/ RejectPicker
           \/ HistoryEffect \/ BalanceEffect \/ StartSend
           \/ \E t \in Tabs : SelectTab(t)
           \/ \E s \in Scans : AutoScan(s) \/ ManualScan(s) \/ DecryptNotes(s)
  <2>1. hasKeys' = hasKeys
    BY <1>9 DEF SwitchAccount, Pick, Revoke, SwitchChain, ReadSigner, Connect, RejectPicker, HistoryEffect,
         BalanceEffect, StartSend, SelectTab, AutoScan, ManualScan, StartScan, DecryptNotes, others, provider
  <2> QED
    BY <1>0, <1>1, <1>9, <2>1, CardFrameKept
<1> QED
  BY <1>2, <1>3, <1>4, <1>5, <1>6, <1>7, <1>8, <1>9 DEF Step, Interrupt, Proceed

LEMMA CardsNext ==
  ASSUME TypeOK, ClientInv, ActsOK, ReadsOK, BareOK, CardsOK, Step, Remember
  PROVE  CardsOK'
<1> SUFFICES ASSUME ~pageSpoiled', ~cardsSpoiled', address' # None, prevAddress' \in {None, address'},
                    ~cardsSpoiled, ~CrossedAnswer, ~Revoked
             PROVE  Shown' \subseteq {address'} \cup misfiled'
  BY SpoiltCards DEF CardsOK
<1>0. ~(Disconnect \/ Reload) /\ ~pageSpoiled /\ misfiled \subseteq misfiled'
  BY Cleared, SpoiledStays, Remembered DEF ClientInv
<1>1. ASSUME UNCHANGED <<address, prevAddress>>
      PROVE  /\ address # None /\ wallet = address /\ Shown \subseteq {address} \cup misfiled
             /\ keys \in {None, address} \cup misfiled
  BY <1>0, <1>1 DEF ClientInv, PageOK, KeysOK, CardsOK
<1>2. ASSUME UNCHANGED CardFrame
      PROVE  Shown' \subseteq {address'} \cup misfiled'
  <2>1. Shown' = Shown /\ UNCHANGED <<address, prevAddress>>
    BY <1>2 DEF CardFrame, Shown
  <2> QED
    BY <1>0, <1>1, <2>1
<1>3. CASE OnAccountChange \/ FinishConnect \/ FinishReconnect
  <2>1. /\ address = prevAddress /\ prevAddress' = prevAddress
        /\ UNCHANGED <<link, notes, balance, history>>
    BY <1>3 DEF OnAccountChange, FinishConnect, FinishReconnect, Answered, Rendered, view, received, activity
  <2>2. Shown' = Shown
    BY <2>1 DEF Shown
  <2>3. CASE address = None
    BY <2>2, <2>3 DEF BareOK
  <2>4. CASE address # None
    BY <1>0, <1>1, <2>1, <2>2, <2>4
  <2> QED
    BY <2>3, <2>4
<1>4. CASE Registered \/ LinkEffect
  <2>1. /\ UNCHANGED <<address, prevAddress, notes, balance, history>>
        /\ link' \in {link, None, keys}
    BY <1>4 DEF Registered, ShowLink, LinkEffect, provider, activity
  <2>2. Shown' \subseteq Shown \cup ({keys} \ {None})
    BY <2>1 DEF Shown
  <2> QED
    BY <1>0, <1>1, <2>1, <2>2
<1>5. CASE AddressEffect
  <2>1. address # prevAddress /\ prevAddress' = address /\ address' = address
    BY <1>5 DEF AddressEffect, provider
  <2>2. CASE prevAddress # None
    BY <1>5, <2>1, <2>2 DEF AddressEffect, ClearView, ClearReceived, ClearActivity, Shown
  <2>3. CASE prevAddress = None
    <3>1. Shown' = Shown
      BY <1>5, <2>3 DEF AddressEffect, activity, Shown
    <3> QED
      BY <1>0, <2>1, <2>3, <3>1 DEF CardsOK
  <2> QED
    BY <2>2, <2>3
<1>6. CASE FinishSend \/ FinishLastRead \/ (\E a \in Accounts : FinishHistory(a)) \/ \E s \in Scans : FinishScan(s)
  <2>1. UNCHANGED <<address, prevAddress>> /\ Shown' \subseteq Shown \cup {wallet} \cup misfiled
    BY <1>6, Brought
  <2> QED
    BY <1>0, <1>1, <2>1
<1>7. ASSUME NEW a \in Accounts, FinishRead(a)
      PROVE  Shown' \subseteq {address'} \cup misfiled'
  <2>1. UNCHANGED <<address, prevAddress, link, notes, history>> /\ balance' = a /\ a = address
    BY <1>0, <1>7 DEF FinishRead, Rendered, others, provider, received, ReadsOK
  <2>2. Shown' \subseteq Shown \cup {address}
    BY <2>1 DEF Shown
  <2> QED
    BY <1>0, <1>1, <2>1, <2>2
<1> QED
  BY <1>0, <1>2, <1>3, <1>4, <1>5, <1>6, <1>7, CardFrameKept DEF Step, Interrupt, Proceed

-----------------------------------------------------------------------------

LEMMA ViewInit ==
  ASSUME Init
  PROVE  ViewInv
<1>1. Shown = {}
  BY DEF Init, Shown
<1>2. ActsOK /\ AloneOK
  BY DEF Init, ActsOK, AloneOK, Idle
<1>3. ReadsOK /\ BareOK /\ CardsOK
  BY <1>1 DEF Init, ReadsOK, BareOK, CardsOK
<1> QED
  BY <1>2, <1>3 DEF ViewInv

LEMMA ViewNext ==
  ASSUME TypeOK, ClientInv, ViewInv, [Next]_vars
  PROVE  ViewInv'
<1>1. ActsOK /\ AloneOK /\ ReadsOK /\ BareOK /\ CardsOK
  BY DEF ViewInv
<1>2. CASE Next
  <2>1. Step /\ Remember
    BY <1>2, NextIs
  <2>2. ActsOK' /\ AloneOK' /\ ReadsOK'
    BY <1>1, <2>1, ActsNext, AloneNext, ReadsNext
  <2>3. BareOK' /\ CardsOK'
    BY <1>1, <2>1, BareNext, CardsNext
  <2> QED
    BY <2>2, <2>3 DEF ViewInv
<1>3. CASE UNCHANGED vars
  BY <1>1, <1>3 DEF vars, external, client, provider, view, received, activity, tasks, traffic, past,
     ViewInv, ActsOK, AloneOK, ReadsOK, BareOK, CardsOK, Shown
<1> QED
  BY <1>2, <1>3

LEMMA ViewSafe == Spec => [](ClientInv /\ ViewInv)
<1>1. Init => TypeOK /\ ClientInv /\ ViewInv
  BY InitOK, ViewInit
<1>2. TypeOK /\ ClientInv /\ ViewInv /\ [Next]_vars => (TypeOK /\ ClientInv /\ ViewInv)'
  BY TypeNext, ClientNext, ViewNext
<1> QED
  BY <1>1, <1>2, PTL DEF Spec

\* After handleDisconnect the page shows no account and nothing of one until
\* the user connects again, except by the answer of a task that was under way.
THEOREM Disconnected == Spec => []StaysDisconnected
<1>1. ClientInv /\ ViewInv => StaysDisconnected
  BY DEF ClientInv, PageOK, ViewInv, BareOK, StaysDisconnected
<1> QED
  BY <1>1, ViewSafe, PTL

\* The cards of AppView show the data of the connected account once the
\* effects have run, unless a revocation left others, or a task brought them
\* that was crossed by a change of wallet.
THEOREM OwnShown == Spec => []ShownIsOwn
<1>1. ViewInv => ShownIsOwn
  BY DEF ViewInv, CardsOK, ShownIsOwn
<1> QED
  BY <1>1, ViewSafe, PTL
=============================================================================
