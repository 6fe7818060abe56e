-------------------------- MODULE AttestationProofs --------------------------
(***************************************************************************)
(* Theorems about the attestation pipeline, for every set of wallets and   *)
(* readings, every interval, and faults in any number.  The invariant has  *)
(* layers.  ChainInv ties the publisher's transactions to the contract     *)
(* through reorganisations, RecordInv ties jobs and rows to transactions,  *)
(* EventInv ties Chainhook's reports to both: these hold for every         *)
(* concurrency and under all faults.  OrderInv puts rows, jobs and         *)
(* transactions in one order, ThrottleInv ties the throttle's decision to  *)
(* the last transaction, NoneAborts says that none fails: these hold in    *)
(* the deployments named where they are defined, and what rests on them    *)
(* fails in others.                                                        *)
(***************************************************************************)
EXTENDS AttestationPipeline, RiskRegistryProofs, FiniteSetTheorems, WellFoundedInduction

\* A job that has not ended has an attempt left.
LeftIn(jobs) ==
    \A i \in DOMAIN jobs : jobs[i].state \notin {"done", "failed"} => jobs[i].attempts < MaxAttempts

AttemptsLeft == LeftIn(riskJobs) /\ LeftIn(attestJobs)

\* Transactions leave the pending ones in the order of their nonces.
NonceOrder ==
    \A t, u \in DOMAIN txs : t < u /\ txs[t].state = "pending" => txs[u].state = "pending"

Executed(t) == t \in DOMAIN txs /\ txs[t].state = "executed"

WalletOf(t) == TxRow(t).wallet

\* Each executed transaction has an id of its wallet, under which the contract holds
\* the figures and the block of the transaction's row.
IdsOnChain ==
    \A t \in DOMAIN txs : Executed(t) =>
        /\ txs[t].id \in 1..latestSnapshotId[WalletOf(t)]
        /\ riskSnapshots[<< WalletOf(t), txs[t].id >>].reading = TxRow(t).reading
        /\ riskSnapshots[<< WalletOf(t), txs[t].id >>].sourceBlock = TxRow(t).sourceBlock

\* A wallet's ids are in the order of the nonces, and no id is without a transaction:
\* so the last executed transaction of a wallet has the wallet's latest id.
IdsIncrease ==
    \A t, u \in DOMAIN txs :
        t < u /\ Executed(t) /\ Executed(u) /\ WalletOf(t) = WalletOf(u) => txs[t].id < txs[u].id

IdsHaveTx ==
    \A w \in Wallets : \A i \in 1..latestSnapshotId[w] :
        \E t \in DOMAIN txs : Executed(t) /\ WalletOf(t) = w /\ txs[t].id = i

IdsOfTxs == NonceOrder /\ IdsOnChain /\ IdsIncrease /\ IdsHaveTx

ChainInv == RegistryInv /\ PipelineTypeOK /\ AttemptsLeft /\ IdsOfTxs

-----------------------------------------------------------------------------
(* Jobs, rows and transactions.                                            *)

OneAttestation ==
    \A j, k \in DOMAIN attestJobs :
        attestJobs[j].state = "active" /\ attestJobs[k].state = "active" => j = k

\* A job in hand that has broadcast nothing works on a row without a transaction; one
\* that has broadcast is about to record, or has recorded, that transaction.
JobHoldsRow(job) ==
    job.state = "active" =>
        IF job.tx = 0
        THEN snapshots[job.snapshot].onchainTxId = 0
        ELSE /\ txs[job.tx].snapshot = job.snapshot
             /\ snapshots[job.snapshot].onchainTxId \in {0, job.tx}

\* Only a job in hand remembers a transaction.
JobForgetsTx(job) == job.state \in {"waiting", "delayed"} => job.tx = 0

JobsOK == \A j \in DOMAIN attestJobs : JobHoldsRow(attestJobs[j]) /\ JobForgetsTx(attestJobs[j])

\* A row's transaction is one of that row, and only a row with one has an id.
RowsOK ==
    \A s \in DOMAIN snapshots :
        IF snapshots[s].onchainTxId = 0
        THEN snapshots[s].onchainSnapshotId = 0
        ELSE txs[snapshots[s].onchainTxId].snapshot = s

RecordInv == OneAttestation /\ JobsOK /\ RowsOK

-----------------------------------------------------------------------------
(* Chainhook's reports.                                                    *)

LastMention(k) == \A l \in DOMAIN hook : hook[l].tx = hook[k].tx => l <= k

\* The last report about a transaction, when it is not of a rollback, is true.
EventsOK ==
    \A k \in DOMAIN hook :
        LastMention(k) /\ hook[k].kind = "apply" =>
            Executed(hook[k].tx) /\ txs[hook[k].tx].id = hook[k].id

\* A row's id is that of its transaction, unless a report about it is under way.
RowsConfirmed ==
    \A s \in DOMAIN snapshots :
        /\ snapshots[s].onchainSnapshotId # 0
        /\ \A k \in DOMAIN hook : hook[k].tx # snapshots[s].onchainTxId
        => /\ Executed(snapshots[s].onchainTxId)
           /\ txs[snapshots[s].onchainTxId].id = snapshots[s].onchainSnapshotId

EventInv == EventsOK /\ RowsConfirmed

-----------------------------------------------------------------------------
(* Sequences and types.                                                    *)

\* Replacing one element of a sequence.
LEMMA Replaced ==
    ASSUME NEW S, NEW q \in Seq(S), NEW i \in DOMAIN q, NEW x \in S
    PROVE  /\ [q EXCEPT ![i] = x] \in Seq(S)
           /\ Len([q EXCEPT ![i] = x]) = Len(q)
           /\ DOMAIN [q EXCEPT ![i] = x] = DOMAIN q
           /\ [q EXCEPT ![i] = x][i] = x
           /\ \A k \in DOMAIN q : k # i => [q EXCEPT ![i] = x][k] = q[k]
  OBVIOUS

\* Adding an element at the end of a sequence.
LEMMA Appended ==
    ASSUME NEW S, NEW q \in Seq(S), NEW x \in S
    PROVE  /\ Append(q, x) \in Seq(S)
           /\ Len(Append(q, x)) = Len(q) + 1
           /\ DOMAIN Append(q, x) = DOMAIN q \cup {Len(q) + 1}
           /\ Append(q, x)[Len(q) + 1] = x
           /\ \A k \in DOMAIN q : Append(q, x)[k] = q[k]
           /\ Len(q) + 1 \notin DOMAIN q
  OBVIOUS

\* A sequence over a set is one over every larger set.
LEMMA SeqGrows ==
    ASSUME NEW S, NEW T, S \subseteq T, NEW q \in Seq(S)
    PROVE  q \in Seq(T)
  OBVIOUS

\* The part of the type invariant that is not about the contract.
WorkTypeOK ==
    /\ snapshots \in Seq(SnapshotRow)
    /\ riskJobs \in Seq(RiskJobRecord)
    /\ attestJobs \in Seq(AttestJobRecord)
    /\ txs \in Seq(TxRecord)
    /\ hook \in Seq(HookEvent)
    /\ faults \in 0..MaxFaults

\* What the type invariant says of one row.
LEMMA RowsTyped ==
    ASSUME WorkTypeOK, NEW s \in DOMAIN snapshots
    PROVE  /\ snapshots[s] \in SnapshotRow
           /\ snapshots[s].wallet \in Wallets /\ snapshots[s].reading \in Readings
           /\ snapshots[s].sourceBlock \in 0..MaxHeight
           /\ snapshots[s].onchainTxId \in 0..Len(txs)
           /\ (snapshots[s].onchainTxId # 0 => snapshots[s].onchainTxId \in DOMAIN txs)
           /\ snapshots[s].onchainSnapshotId \in 0..MaxSnapshots
<1>1. snapshots[s] \in SnapshotRow
  <2>1. snapshots \in Seq(SnapshotRow)
    BY DEF WorkTypeOK
  <2> QED
    BY <2>1
<1>2. DOMAIN txs = 1..Len(txs) /\ Len(txs) \in Nat
  BY DEF WorkTypeOK
<1> QED
  BY <1>1, <1>2 DEF SnapshotRow

\* The same of one transaction, and of the row it is for.
LEMMA TxsTyped ==
    ASSUME WorkTypeOK, NEW t \in DOMAIN txs
    PROVE  /\ txs[t] \in TxRecord /\ t \in Nat /\ t \in 1..Len(txs)
           /\ txs[t].snapshot \in DOMAIN snapshots
           /\ txs[t].state \in {"pending", "executed", "aborted"}
           /\ txs[t].id \in 0..MaxSnapshots
           /\ TxRow(t) \in SnapshotRow
           /\ WalletOf(t) \in Wallets /\ TxRow(t).reading \in Readings
           /\ TxRow(t).sourceBlock \in 0..MaxHeight
<1>1. txs[t] \in TxRecord /\ t \in Nat /\ t \in 1..Len(txs)
  <2>1. txs \in Seq(TxRecord)
    BY DEF WorkTypeOK
  <2> QED
    BY <2>1
<1>2. DOMAIN snapshots = 1..Len(snapshots)
  BY DEF WorkTypeOK
<1>3. txs[t].snapshot \in DOMAIN snapshots
  BY <1>1, <1>2 DEF TxRecord
<1> QED
  BY <1>1, <1>3, RowsTyped DEF TxRecord, TxRow, WalletOf

\* The same of one job of the risk queue,
LEMMA RiskJobsTyped ==
    ASSUME WorkTypeOK, NEW i \in DOMAIN riskJobs
    PROVE  /\ riskJobs[i] \in RiskJobRecord
           /\ riskJobs[i].attempts \in Nat
           /\ (riskJobs[i].snapshot # 0 => riskJobs[i].snapshot \in DOMAIN snapshots)
<1>1. riskJobs[i] \in RiskJobRecord
  <2>1. riskJobs \in Seq(RiskJobRecord)
    BY DEF WorkTypeOK
  <2> QED
    BY <2>1
<1>2. DOMAIN snapshots = 1..Len(snapshots) /\ Len(snapshots) \in Nat /\ MaxAttempts \in Nat
  BY JobQueueAssumption DEF WorkTypeOK
<1> QED
  BY <1>1, <1>2 DEF RiskJobRecord

\* of the attestation queue,
LEMMA JobsTyped ==
    ASSUME WorkTypeOK, NEW j \in DOMAIN attestJobs
    PROVE  /\ attestJobs[j] \in AttestJobRecord
           /\ attestJobs[j].snapshot \in DOMAIN snapshots
           /\ attestJobs[j].attempts \in Nat
           /\ attestJobs[j].tx \in 0..Len(txs)
           /\ (attestJobs[j].tx # 0 => attestJobs[j].tx \in DOMAIN txs)
<1>1. attestJobs[j] \in AttestJobRecord
  <2>1. attestJobs \in Seq(AttestJobRecord)
    BY DEF WorkTypeOK
  <2> QED
    BY <2>1
<1>2. /\ DOMAIN snapshots = 1..Len(snapshots) /\ MaxAttempts \in Nat
      /\ DOMAIN txs = 1..Len(txs) /\ Len(txs) \in Nat
  BY JobQueueAssumption DEF WorkTypeOK
<1> QED
  BY <1>1, <1>2 DEF AttestJobRecord

\* and of one report.
LEMMA HookTyped ==
    ASSUME WorkTypeOK, NEW k \in DOMAIN hook
    PROVE  /\ hook[k] \in HookEvent /\ k \in Nat /\ k \in 1..Len(hook)
           /\ hook[k].tx \in DOMAIN txs
           /\ hook[k].kind \in {"apply", "rollback"}
           /\ hook[k].id \in 0..MaxSnapshots
<1>1. hook[k] \in HookEvent /\ k \in Nat /\ k \in 1..Len(hook)
  <2>1. hook \in Seq(HookEvent)
    BY DEF WorkTypeOK
  <2> QED
    BY <2>1
<1>2. DOMAIN txs = 1..Len(txs)
  BY DEF WorkTypeOK
<1> QED
  BY <1>1, <1>2 DEF HookEvent

\* Rows and transactions are only added, so what a job or report refers to stays there.
LEMMA TypesGrow ==
    ASSUME WorkTypeOK, Len(snapshots') \in Nat, Len(snapshots) <= Len(snapshots'),
           Len(txs') \in Nat, Len(txs) <= Len(txs')
    PROVE  /\ snapshots \in Seq(SnapshotRow')
           /\ riskJobs \in Seq(RiskJobRecord')
           /\ attestJobs \in Seq(AttestJobRecord')
           /\ txs \in Seq(TxRecord')
           /\ hook \in Seq(HookEvent')
<1>1. Len(snapshots) \in Nat /\ Len(txs) \in Nat
  BY DEF WorkTypeOK
<1>2. 0..Len(txs) \subseteq 0..Len(txs') /\ 1..Len(txs) \subseteq 1..Len(txs')
  BY <1>1
<1>3. 0..Len(snapshots) \subseteq 0..Len(snapshots') /\ 1..Len(snapshots) \subseteq 1..Len(snapshots')
  BY <1>1
<1>4. /\ SnapshotRow \subseteq SnapshotRow'
      /\ RiskJobRecord \subseteq RiskJobRecord'
      /\ AttestJobRecord \subseteq AttestJobRecord'
      /\ TxRecord \subseteq TxRecord'
      /\ HookEvent \subseteq HookEvent'
  BY <1>2, <1>3 DEF SnapshotRow, RiskJobRecord, AttestJobRecord, TxRecord, HookEvent
<1> QED
  BY <1>4, SeqGrows DEF WorkTypeOK

\* A non-empty set of numbers up to n has a greatest element.
LEMMA GreatestExists ==
    ASSUME NEW n \in Nat, NEW S \in SUBSET (1..n), S # {}
    PROVE  \E x \in S : \A y \in S : y <= x
<1> DEFINE T == {c \in Nat : \E x \in S : c = n - x}
<1>1. \A x \in S : n - x \in T
  OBVIOUS
<1>2. T \in SUBSET Nat /\ T # {}
  BY <1>1
<1>3. PICK c \in T : \A d \in T : << d, c >> \notin OpToRel(<, Nat)
  <2> HIDE DEF T
  <2> QED
    BY <1>2, NatLessThanWellFounded, WFMin
<1>4. \A d \in T : ~(d < c)
  BY <1>3 DEF OpToRel
<1>5. PICK x \in S : c = n - x
  OBVIOUS
<1>6. ASSUME NEW y \in S PROVE y <= x
  <2>1. ~(n - y < c)
    BY <1>1, <1>4
  <2> QED
    BY <1>5, <2>1
<1> QED
  BY <1>6

\* What a payload of n reports makes of the id of a row with transaction t: nothing if
\* none is about t, null if all of those are rollbacks, else the last one's id.
NewId(n, t, old, new) ==
    \/ (\A i \in 1..n : hook[i].tx # t) /\ new = old
    \/ (\E i \in 1..n : hook[i].tx = t) /\ new = 0
    \/ \E i \in 1..n :
          /\ hook[i].tx = t /\ hook[i].kind = "apply" /\ new = hook[i].id
          /\ \A k \in 1..n : hook[k].tx = t /\ hook[k].kind = "apply" => k <= i

\* What the API's update makes of a row: a change of its id, as NewId says.
LEMMA RowsShape ==
    ASSUME WorkTypeOK, NEW n \in DOMAIN hook, NEW s \in DOMAIN snapshots
    PROVE  \E new \in 0..MaxSnapshots :
              /\ Rows(n)[s] = [snapshots[s] EXCEPT !.onchainSnapshotId = new]
              /\ NewId(n, snapshots[s].onchainTxId, snapshots[s].onchainSnapshotId, new)
<1> DEFINE row == snapshots[s]
           t == row.onchainTxId
           mentions == {i \in 1..n : hook[i].tx = t}
           applied == {i \in mentions : hook[i].kind = "apply"}
           last == CHOOSE i \in applied : \A k \in applied : k <= i
<1>1. row \in SnapshotRow /\ row.onchainSnapshotId \in 0..MaxSnapshots
  BY RowsTyped
<1>2. n \in Nat /\ 1..n \subseteq DOMAIN hook /\ MaxSnapshots \in Nat
  BY RegistryAssumption DEF WorkTypeOK
<1>3. Rows(n)[s] = IF mentions = {} THEN row
                   ELSE [row EXCEPT !.onchainSnapshotId = IF applied = {} THEN 0 ELSE hook[last].id]
  BY DEF Rows
<1>4. CASE mentions = {}
  <2>1. row = [row EXCEPT !.onchainSnapshotId = row.onchainSnapshotId]
    BY <1>1 DEF SnapshotRow
  <2> QED
    BY <1>1, <1>3, <1>4, <2>1 DEF NewId
<1>5. CASE mentions # {} /\ applied = {}
  BY <1>2, <1>3, <1>5 DEF NewId
<1>6. CASE applied # {}
  <2>1. last \in applied /\ \A k \in applied : k <= last
    <3>1. \E i \in applied : \A k \in applied : k <= i
      <4>1. applied \in SUBSET (1..n)
        OBVIOUS
      <4> HIDE DEF applied
      <4> QED
        BY <1>2, <1>6, <4>1, GreatestExists
    <3> HIDE DEF applied
    <3> QED
      BY <3>1
  <2> HIDE DEF last
  <2>2. hook[last].id \in 0..MaxSnapshots
    BY <1>2, <2>1, HookTyped
  <2>3. Rows(n)[s] = [row EXCEPT !.onchainSnapshotId = hook[last].id]
    BY <1>3, <1>6
  <2> QED
    BY <2>1, <2>2, <2>3 DEF NewId
<1> QED
  BY <1>4, <1>5, <1>6

-----------------------------------------------------------------------------
(* Every step keeps the contract's invariant; only a reorganisation is not *)
(* one of the contract's own.                                              *)

\* The last executed transaction of a wallet has the wallet's latest id.
LEMMA LastHasLatestId ==
    ASSUME ChainInv, NEW t \in DOMAIN txs, Executed(t),
           \A u \in (t + 1)..Len(txs) : ~Executed(u)
    PROVE  txs[t].id = latestSnapshotId[WalletOf(t)] /\ txs[t].id \in Nat \ {0}
<1>1. /\ WorkTypeOK /\ latestSnapshotId \in [Wallets -> 0..MaxSnapshots]
      /\ IdsOnChain /\ IdsIncrease /\ IdsHaveTx
  BY DEF ChainInv, IdsOfTxs, PipelineTypeOK, WorkTypeOK, TypeOK
<1> DEFINE w == WalletOf(t)  latest == latestSnapshotId[w]
<1>2. /\ w \in Wallets /\ latest \in Nat /\ txs[t].id \in 1..latest
      /\ t \in 1..Len(txs) /\ DOMAIN txs = 1..Len(txs) /\ Len(txs) \in Nat
  <2>1. w \in Wallets /\ t \in 1..Len(txs)
    BY <1>1, TxsTyped
  <2>2. latest \in Nat
    BY <1>1, <2>1, RegistryAssumption
  <2>3. txs[t].id \in 1..latest
    BY <1>1 DEF IdsOnChain
  <2>4. DOMAIN txs = 1..Len(txs) /\ Len(txs) \in Nat
    BY <1>1 DEF WorkTypeOK
  <2> QED
    BY <2>1, <2>2, <2>3, <2>4
<1> HIDE DEF w, latest
<1>3. PICK u \in DOMAIN txs : Executed(u) /\ WalletOf(u) = w /\ txs[u].id = latest
  <2>1. latest \in 1..latest
    BY <1>2
  <2> QED
    BY <1>1, <1>2, <2>1 DEF IdsHaveTx, latest
<1>4. ~(u > t)
  BY <1>2, <1>3
<1>5. ~(u < t)
  <2>1. u < t => txs[u].id < txs[t].id
    BY <1>1, <1>3 DEF IdsIncrease, w
  <2> QED
    BY <1>2, <1>3, <2>1
<1>6. u = t
  BY <1>2, <1>4, <1>5
<1> QED
  BY <1>2, <1>3, <1>6 DEF w, latest

\* What a reorganisation takes away is the latest attestation of one wallet.
LEMMA ReorganisedContract ==
    ASSUME ChainInv, NEW t \in DOMAIN txs, Reorganise(t)
    PROVE  /\ Executed(t) /\ \A u \in (t + 1)..Len(txs) : txs[u].state = "pending"
           /\ latestSnapshotId[WalletOf(t)] \in 1..MaxSnapshots
           /\ txs[t].id = latestSnapshotId[WalletOf(t)]
           /\ latestSnapshotId' = [latestSnapshotId EXCEPT ![WalletOf(t)] = latestSnapshotId[WalletOf(t)] - 1]
           /\ DOMAIN riskSnapshots' = DOMAIN riskSnapshots \ {<< WalletOf(t), txs[t].id >>}
           /\ \A k \in DOMAIN riskSnapshots' : riskSnapshots'[k] = riskSnapshots[k]
           /\ UNCHANGED << adminVars, stacksBlockHeight >>
<1>1. /\ Executed(t) /\ \A u \in (t + 1)..Len(txs) : txs[u].state = "pending"
      /\ latestSnapshotId' = [latestSnapshotId EXCEPT ![WalletOf(t)] = txs[t].id - 1]
      /\ riskSnapshots' = [k \in DOMAIN riskSnapshots \ {<< WalletOf(t), txs[t].id >>} |-> riskSnapshots[k]]
      /\ UNCHANGED << adminVars, stacksBlockHeight >>
  BY DEF Reorganise, Executed, WalletOf, TxRow
<1>2. \A u \in (t + 1)..Len(txs) : ~Executed(u)
  BY <1>1 DEF Executed
<1>3. txs[t].id = latestSnapshotId[WalletOf(t)] /\ txs[t].id \in Nat \ {0}
  BY <1>1, <1>2, LastHasLatestId
<1>4. /\ latestSnapshotId \in [Wallets -> 0..MaxSnapshots] /\ WalletOf(t) \in Wallets
      /\ MaxSnapshots \in Nat
  BY TxsTyped, RegistryAssumption DEF ChainInv, PipelineTypeOK, WorkTypeOK, TypeOK
<1>5. latestSnapshotId[WalletOf(t)] \in 1..MaxSnapshots
  BY <1>3, <1>4
<1> QED
  BY <1>1, <1>3, <1>5

\* Taking the latest attestation of a wallet back leaves the contract's invariant intact:
\* no hole in the ids, and what remains is in order.
LEMMA ReorganiseKeepsRegistry ==
    ASSUME ChainInv, NEW t \in DOMAIN txs, Reorganise(t)
    PROVE  RegistryInv'
<1> DEFINE w == WalletOf(t)  latest == latestSnapshotId[w]  key == << w, latest >>
<1>1. /\ latest \in 1..MaxSnapshots
      /\ latestSnapshotId' = [latestSnapshotId EXCEPT ![w] = latest - 1]
      /\ DOMAIN riskSnapshots' = DOMAIN riskSnapshots \ {key}
      /\ \A k \in DOMAIN riskSnapshots' : riskSnapshots'[k] = riskSnapshots[k]
      /\ UNCHANGED << contractOwner, pendingOwner, authorizedPublishers, nominatedBy, stacksBlockHeight >>
  BY ReorganisedContract DEF adminVars
<1>2. w \in Wallets /\ MaxSnapshots \in Nat /\ latestSnapshotId \in [Wallets -> 0..MaxSnapshots]
  BY TxsTyped, RegistryAssumption DEF ChainInv, PipelineTypeOK, WorkTypeOK, TypeOK
<1> RegistryInv
  BY DEF ChainInv
<1> HIDE DEF w, latest
<1>3. TypeOK'
  <2>1. latestSnapshotId' \in [Wallets -> 0..MaxSnapshots]
    BY <1>1, <1>2
  <2> QED
    BY <1>1, <2>1 DEF RegistryInv, TypeOK
<1>4. IdsContiguous'
  <2>1. \A k \in SnapshotKeys : k \in Wallets \X (1..MaxSnapshots) /\ k = << k[1], k[2] >>
    BY DEF SnapshotKeys
  <2>2. ASSUME NEW k \in SnapshotKeys
        PROVE  k \in DOMAIN riskSnapshots' <=> k[2] <= latestSnapshotId'[k[1]]
    <3>1. k \in DOMAIN riskSnapshots <=> k[2] <= latestSnapshotId[k[1]]
      BY DEF RegistryInv, IdsContiguous
    <3>2. k[1] \in Wallets /\ k[2] \in 1..MaxSnapshots /\ k[2] \in Int /\ latest \in Int
      BY <1>1, <2>1
    <3>3. k = key <=> k[1] = w /\ k[2] = latest
      BY <2>1
    <3>4. CASE k[1] = w
      <4>1. latestSnapshotId'[k[1]] = latest - 1 /\ latestSnapshotId[k[1]] = latest
        BY <1>1, <1>2, <3>4 DEF latest
      <4> QED
        BY <1>1, <3>1, <3>2, <3>3, <3>4, <4>1
    <3>5. CASE k[1] # w
      <4>1. latestSnapshotId'[k[1]] = latestSnapshotId[k[1]]
        BY <1>1, <1>2, <3>2, <3>5
      <4> QED
        BY <1>1, <3>1, <3>3, <3>5, <4>1
    <3> QED
      BY <3>4, <3>5
  <2>3. DOMAIN riskSnapshots' \subseteq SnapshotKeys
    BY <1>3 DEF TypeOK
  <2> QED
    BY <2>2, <2>3 DEF IdsContiguous
<1>5. HeightsOrdered' /\ PublicationOrdered' /\ StoredReadingsInRange'
  BY <1>1 DEF RegistryInv, HeightsOrdered, PublicationOrdered, StoredReadingsInRange
<1>6. NominationIsCurrent'
  BY <1>1 DEF RegistryInv, NominationIsCurrent
<1> QED
  BY <1>3, <1>4, <1>5, <1>6 DEF RegistryInv

\* Executing a transaction is a call of the publisher's.
LEMMA ExecuteIsRegistryStep ==
    ASSUME ChainInv, NEW t \in DOMAIN txs, ExecuteTx(t)
    PROVE  /\ Publisher \in Principals /\ WalletOf(t) \in Wallets
           /\ TxRow(t).reading \in Readings /\ TxRow(t).sourceBlock \in 0..MaxHeight
           /\ PublishRiskSnapshot(Publisher, WalletOf(t), TxRow(t).reading, TxRow(t).sourceBlock)
           /\ RegistryNext
<1>1. WorkTypeOK
  BY DEF ChainInv, PipelineTypeOK, WorkTypeOK
<1>2. PublishRiskSnapshot(Publisher, WalletOf(t), TxRow(t).reading, TxRow(t).sourceBlock)
  BY DEF ExecuteTx, WalletOf, TxRow
<1>3. /\ Publisher \in Principals /\ WalletOf(t) \in Wallets
      /\ TxRow(t).reading \in Readings /\ TxRow(t).sourceBlock \in 0..MaxHeight
  BY <1>1, TxsTyped, PipelineAssumption
<1> QED
  BY <1>2, <1>3 DEF RegistryNext

\* So every step of the pipeline keeps the contract's invariant.
LEMMA StepKeepsRegistry ==
    ASSUME ChainInv, [Next]_vars
    PROVE  RegistryInv'
<1> RegistryInv
  BY DEF ChainInv
<1>1. CASE UNCHANGED registryVars
  BY <1>1, StepKeepsInv
<1>2. CASE Revoke \/ Authorise \/ NewBlock
  <2>1. contractOwner \in Principals /\ Publisher \in Principals
    BY PipelineAssumption DEF RegistryInv, TypeOK
  <2>2. RegistryNext
    BY <1>2, <2>1 DEF Revoke, Authorise, NewBlock, RegistryNext
  <2> QED
    BY <2>2, StepKeepsInv
<1>3. ASSUME NEW t \in DOMAIN txs, ExecuteTx(t) PROVE RegistryInv'
  BY <1>3, ExecuteIsRegistryStep, StepKeepsInv
<1>4. ASSUME NEW t \in DOMAIN txs, Reorganise(t) PROVE RegistryInv'
  BY <1>4, ReorganiseKeepsRegistry
<1>5. CASE UNCHANGED vars
  BY <1>1, <1>5 DEF vars
<1>6. CASE \E w \in Wallets : RequestRisk(w)
  BY <1>1, <1>6 DEF RequestRisk
<1>7. CASE \E i \in DOMAIN riskJobs : RiskStep(i) \/ RiskThrows(i)
  BY <1>1, <1>7 DEF RiskStep, StartRisk, PersistSnapshot, EnqueueAttestation, RiskThrows
<1>8. CASE \E j \in DOMAIN attestJobs : AttestStep(j) \/ PublishThrows(j) \/ CrashAttestation(j)
  BY <1>1, <1>8 DEF AttestStep, FinishWithoutPublishing, DecideToPublish, Broadcast, RefuseReading,
     MarkPublished, CompleteAttestation, PublishThrows, CrashAttestation
<1>9. CASE \E t \in DOMAIN txs : AbortTx(t)
  BY <1>1, <1>9 DEF AbortTx
<1>10. CASE \E n \in DOMAIN hook : ConfirmAttestations(n) \/ RepeatPayload(n)
  BY <1>1, <1>10 DEF ConfirmAttestations, RepeatPayload
<1> QED
  BY <1>2, <1>3, <1>4, <1>5, <1>6, <1>7, <1>8, <1>9, <1>10 DEF Next

-----------------------------------------------------------------------------
(* What the steps of the two workers do to their jobs.                     *)

TablesGrow ==
    /\ Len(snapshots') \in Nat /\ Len(snapshots) <= Len(snapshots')
    /\ Len(txs') \in Nat /\ Len(txs) <= Len(txs')

RiskJobBecomes(i, job) ==
    /\ riskJobs' = [riskJobs EXCEPT ![i] = job]
    /\ job \in RiskJobRecord'
    /\ (job.state \notin {"done", "failed"} => job.attempts < MaxAttempts)

\* An update of one job of the risk queue, typed and with an attempt left.
LEMMA RiskJobBecomesTyped ==
    ASSUME WorkTypeOK, AttemptsLeft, TablesGrow, NEW i \in DOMAIN riskJobs, NEW job, RiskJobBecomes(i, job)
    PROVE  riskJobs' \in Seq(RiskJobRecord') /\ LeftIn(riskJobs')
<1>1. riskJobs \in Seq(RiskJobRecord')
  BY TypesGrow DEF TablesGrow
<1>2. /\ riskJobs' \in Seq(RiskJobRecord') /\ DOMAIN riskJobs' = DOMAIN riskJobs
      /\ riskJobs'[i] = job /\ \A k \in DOMAIN riskJobs : k # i => riskJobs'[k] = riskJobs[k]
  BY <1>1, Replaced DEF RiskJobBecomes
<1> QED
  BY <1>2 DEF RiskJobBecomes, AttemptsLeft, LeftIn

\* Job j of the attestation queue goes on with this state, transaction and number of
\* attempts; no other job changes.
JobGoes(j, state, tx, attempts) ==
    /\ DOMAIN attestJobs' = DOMAIN attestJobs
    /\ attestJobs'[j].snapshot = attestJobs[j].snapshot
    /\ attestJobs'[j].state = state
    /\ attestJobs'[j].tx = tx
    /\ attestJobs'[j].attempts = attempts
    /\ \A k \in DOMAIN attestJobs : k # j => attestJobs'[k] = attestJobs[k]

\* The same for one job of the attestation queue.
LEMMA UpdatedJobGoes ==
    ASSUME WorkTypeOK, AttemptsLeft, TablesGrow, NEW j \in DOMAIN attestJobs,
           NEW state \in JobStates, NEW tx \in 0..Len(txs'), NEW attempts \in 0..MaxAttempts,
           (state \notin {"done", "failed"} => attempts < MaxAttempts),
           attestJobs' = [attestJobs EXCEPT ![j] = [attestJobs[j] EXCEPT !.state = state, !.tx = tx,
                                                                          !.attempts = attempts]]
    PROVE  /\ JobGoes(j, state, tx, attempts)
           /\ attestJobs' \in Seq(AttestJobRecord') /\ LeftIn(attestJobs')
<1> DEFINE old == attestJobs[j]
           job == [old EXCEPT !.state = state, !.tx = tx, !.attempts = attempts]
<1>1. attestJobs \in Seq(AttestJobRecord')
  BY TypesGrow DEF TablesGrow
<1>2. old \in AttestJobRecord'
  BY <1>1
<1>3. job \in AttestJobRecord'
  BY <1>2 DEF AttestJobRecord
<1>4. /\ job.snapshot = old.snapshot /\ job.state = state /\ job.tx = tx /\ job.attempts = attempts
  BY <1>2 DEF AttestJobRecord
<1> HIDE DEF job
<1>5. attestJobs' = [attestJobs EXCEPT ![j] = job]
  BY DEF job
<1>6. /\ attestJobs' \in Seq(AttestJobRecord') /\ DOMAIN attestJobs' = DOMAIN attestJobs
      /\ attestJobs'[j] = job /\ \A k \in DOMAIN attestJobs : k # j => attestJobs'[k] = attestJobs[k]
  BY <1>1, <1>3, <1>5, Replaced
<1> QED
  BY <1>4, <1>6 DEF JobGoes, AttemptsLeft, LeftIn, old

\* The worker of concurrency 1 takes a job only when it has none in hand.
LEMMA StartsAlone ==
    ASSUME WorkTypeOK, NEW j \in DOMAIN attestJobs, Startable(attestJobs, j, 1)
    PROVE  /\ \A k \in DOMAIN attestJobs : attestJobs[k].state # "active"
           /\ attestJobs[j].state \in {"waiting", "delayed"}
<1> DEFINE active == {k \in DOMAIN attestJobs : attestJobs[k].state = "active"}
<1>1. IsFiniteSet(DOMAIN attestJobs)
  <2>1. DOMAIN attestJobs = 1..Len(attestJobs) /\ Len(attestJobs) \in Int
    BY DEF WorkTypeOK
  <2> QED
    BY <2>1, FS_Interval
<1>2. active \in SUBSET DOMAIN attestJobs
  OBVIOUS
<1>3. Cardinality(active) < 1 /\ attestJobs[j].state \in {"waiting", "delayed"}
  BY DEF Startable
<1> HIDE DEF active
<1>4. IsFiniteSet(active)
  BY <1>1, <1>2, FS_Subset
<1>5. Cardinality(active) \in Nat
  BY <1>4, FS_CardinalityType
<1>6. Cardinality(active) = 0
  BY <1>3, <1>5
<1>7. active = {}
  BY <1>4, <1>6, FS_EmptySet
<1> QED
  BY <1>3, <1>7 DEF active

\* The steps of the attestation worker that touch no row, as changes of its job.
LEMMA AttestActions ==
    ASSUME ChainInv, NEW j \in DOMAIN attestJobs
    PROVE  /\ FinishWithoutPublishing(j) =>
                 JobGoes(j, "done", attestJobs[j].tx, attestJobs[j].attempts)
           /\ DecideToPublish(j) =>
                 /\ JobGoes(j, "active", attestJobs[j].tx, attestJobs[j].attempts)
                 /\ \A k \in DOMAIN attestJobs : attestJobs[k].state # "active"
                 /\ attestJobs[j].state \in {"waiting", "delayed"}
                 /\ snapshots[attestJobs[j].snapshot].onchainTxId = 0
           /\ Broadcast(j) =>
                 JobGoes(j, "active", Len(txs) + 1, attestJobs[j].attempts)
           /\ RefuseReading(j) \/ PublishThrows(j) =>
                 \E state \in {"delayed", "failed"} : JobGoes(j, state, 0, attestJobs[j].attempts + 1)
           /\ CompleteAttestation(j) =>
                 JobGoes(j, "done", attestJobs[j].tx, attestJobs[j].attempts)
           /\ CrashAttestation(j) =>
                 JobGoes(j, "waiting", 0, attestJobs[j].attempts)
           /\ (\/ FinishWithoutPublishing(j) \/ DecideToPublish(j) \/ Broadcast(j) \/ RefuseReading(j)
               \/ CompleteAttestation(j) \/ PublishThrows(j) \/ CrashAttestation(j)) =>
                 attestJobs' \in Seq(AttestJobRecord') /\ LeftIn(attestJobs')
<1> DEFINE old == attestJobs[j]
           Updated(state, tx, attempts) ==
               attestJobs' = [attestJobs EXCEPT ![j] = [old EXCEPT !.state = state, !.tx = tx,
                                                                   !.attempts = attempts]]
           Typed == attestJobs' \in Seq(AttestJobRecord') /\ LeftIn(attestJobs')
<1>1. WorkTypeOK /\ AttemptsLeft
  BY DEF ChainInv, PipelineTypeOK, WorkTypeOK
<1>2. /\ old \in AttestJobRecord /\ old.tx \in 0..Len(txs) /\ old.state \in JobStates
      /\ old.attempts \in 0..MaxAttempts /\ old.attempts \in Nat /\ MaxAttempts \in Nat
      /\ Len(txs) \in Nat /\ Len(snapshots) \in Nat
  <2>1. old \in AttestJobRecord
    BY <1>1, JobsTyped
  <2>2. Len(txs) \in Nat /\ Len(snapshots) \in Nat /\ MaxAttempts \in Nat
    BY <1>1, JobQueueAssumption DEF WorkTypeOK
  <2> QED
    BY <2>1, <2>2 DEF AttestJobRecord
<1>3. old.state \notin {"done", "failed"} => old.attempts < MaxAttempts
  BY <1>1 DEF AttemptsLeft, LeftIn
<1>4. ASSUME NEW state \in JobStates, NEW tx \in 0..Len(txs'), NEW attempts \in 0..MaxAttempts,
             (state \notin {"done", "failed"} => attempts < MaxAttempts),
             TablesGrow, Updated(state, tx, attempts)
      PROVE  JobGoes(j, state, tx, attempts) /\ Typed
  BY <1>1, <1>4, UpdatedJobGoes
<1>5. UNCHANGED << snapshots, txs >> => TablesGrow /\ Len(txs') = Len(txs)
  BY <1>2 DEF TablesGrow
<1>6. {"waiting", "active", "delayed", "done", "failed"} \subseteq JobStates
  BY DEF JobStates
<1>7. ASSUME FinishWithoutPublishing(j) \/ CompleteAttestation(j)
      PROVE  JobGoes(j, "done", old.tx, old.attempts) /\ Typed
  <2>1. Updated("done", old.tx, old.attempts) /\ UNCHANGED << snapshots, txs >>
    BY <1>2, <1>7 DEF FinishWithoutPublishing, CompleteAttestation, AttestJobRecord
  <2> HIDE DEF Updated, Typed, old
  <2> QED
    BY <1>2, <1>4, <1>5, <1>6, <2>1
<1>8. ASSUME DecideToPublish(j)
      PROVE  /\ JobGoes(j, "active", old.tx, old.attempts) /\ Typed
             /\ \A k \in DOMAIN attestJobs : attestJobs[k].state # "active"
             /\ old.state \in {"waiting", "delayed"}
             /\ snapshots[old.snapshot].onchainTxId = 0
  <2>1. /\ Updated("active", old.tx, old.attempts) /\ UNCHANGED << snapshots, txs >>
        /\ Startable(attestJobs, j, 1) /\ snapshots[old.snapshot].onchainTxId = 0
    BY <1>2, <1>8 DEF DecideToPublish, AttestJobRecord
  <2>2. /\ \A k \in DOMAIN attestJobs : attestJobs[k].state # "active"
        /\ old.state \in {"waiting", "delayed"}
    BY <1>1, <2>1, StartsAlone
  <2> HIDE DEF Updated, Typed, old
  <2> QED
    BY <1>2, <1>3, <1>4, <1>5, <1>6, <2>1, <2>2
<1>9. ASSUME Broadcast(j)
      PROVE  JobGoes(j, "active", Len(txs) + 1, old.attempts) /\ Typed
  <2>1. /\ Updated("active", Len(txs) + 1, old.attempts) /\ old.state = "active"
        /\ UNCHANGED snapshots
    BY <1>2, <1>9 DEF Broadcast, AttestJobRecord
  <2>2. Len(txs') = Len(txs) + 1
    BY <1>9 DEF Broadcast, ChainInv, PipelineTypeOK
  <2>3. TablesGrow /\ Len(txs) + 1 \in 0..Len(txs')
    BY <1>2, <2>1, <2>2 DEF TablesGrow
  <2> HIDE DEF Updated, Typed, old
  <2> QED
    BY <1>2, <1>3, <1>4, <1>6, <2>1, <2>3
<1>10. ASSUME RefuseReading(j) \/ PublishThrows(j)
       PROVE  (\E state \in {"delayed", "failed"} : JobGoes(j, state, 0, old.attempts + 1)) /\ Typed
  <2> DEFINE state == IF old.attempts + 1 < MaxAttempts THEN "delayed" ELSE "failed"
  <2>1. Updated(state, 0, old.attempts + 1) /\ UNCHANGED << snapshots, txs >> /\ old.state = "active"
    <3> DEFINE thrown == [old EXCEPT !.state = state, !.tx = 0, !.attempts = old.attempts + 1]
    <3>1. CASE RefuseReading(j)
      <4>1. /\ attestJobs' = [attestJobs EXCEPT ![j] = Thrown(old)] /\ old.tx = 0
            /\ UNCHANGED << snapshots, txs >> /\ old.state = "active"
        BY <3>1 DEF RefuseReading
      <4>2. Thrown(old) = thrown
        BY <1>2, <4>1 DEF Thrown, AttestJobRecord
      <4> QED
        BY <4>1, <4>2
    <3>2. CASE PublishThrows(j)
      <4>1. /\ attestJobs' = [attestJobs EXCEPT ![j] = [Thrown(old) EXCEPT !.tx = 0]]
            /\ UNCHANGED << snapshots, txs >> /\ old.state = "active"
        BY <3>2 DEF PublishThrows
      <4>2. [Thrown(old) EXCEPT !.tx = 0] = thrown
        BY <1>2 DEF Thrown, AttestJobRecord
      <4> QED
        BY <4>1, <4>2
    <3> QED
      BY <1>10, <3>1, <3>2
  <2>2. /\ old.attempts + 1 \in 0..MaxAttempts /\ 0 \in 0..Len(txs)
        /\ state \in {"delayed", "failed"}
        /\ (state \notin {"done", "failed"} => old.attempts + 1 < MaxAttempts)
    BY <1>2, <1>3, <2>1
  <2> HIDE DEF Updated, Typed, old, state
  <2> QED
    BY <1>4, <1>5, <1>6, <2>1, <2>2
<1>11. ASSUME CrashAttestation(j)
       PROVE  JobGoes(j, "waiting", 0, old.attempts) /\ Typed
  <2>1. /\ Updated("waiting", 0, old.attempts) /\ UNCHANGED << snapshots, txs >>
        /\ old.state = "active"
    BY <1>2, <1>11 DEF CrashAttestation, AttestJobRecord
  <2>2. 0 \in 0..Len(txs)
    BY <1>2
  <2> HIDE DEF Updated, Typed, old
  <2> QED
    BY <1>2, <1>3, <1>4, <1>5, <1>6, <2>1, <2>2
<1> HIDE DEF Typed
<1> QED
  BY <1>7, <1>8, <1>9, <1>10, <1>11 DEF Typed

-----------------------------------------------------------------------------
(* Every step keeps the types.                                             *)

WorkOK == WorkTypeOK /\ AttemptsLeft

\* The types of the variables a step leaves alone, when rows and transactions only grow.
LEMMA OthersTyped ==
    ASSUME WorkOK, TablesGrow
    PROVE  /\ (UNCHANGED snapshots => snapshots' \in Seq(SnapshotRow'))
           /\ (UNCHANGED riskJobs => riskJobs' \in Seq(RiskJobRecord') /\ LeftIn(riskJobs'))
           /\ (UNCHANGED attestJobs => attestJobs' \in Seq(AttestJobRecord') /\ LeftIn(attestJobs'))
           /\ (UNCHANGED txs => txs' \in Seq(TxRecord'))
           /\ (UNCHANGED hook => hook' \in Seq(HookEvent'))
           /\ (UNCHANGED faults => faults' \in 0..MaxFaults)
<1>1. /\ snapshots \in Seq(SnapshotRow')
      /\ riskJobs \in Seq(RiskJobRecord')
      /\ attestJobs \in Seq(AttestJobRecord')
      /\ txs \in Seq(TxRecord')
      /\ hook \in Seq(HookEvent')
  BY TypesGrow DEF WorkOK, TablesGrow
<1>2. LeftIn(riskJobs) /\ LeftIn(attestJobs) /\ faults \in 0..MaxFaults
  BY DEF WorkOK, AttemptsLeft, WorkTypeOK
<1> QED
  BY <1>1, <1>2

\* A step that leaves rows and transactions alone does not shorten them.
LEMMA TablesStay ==
    ASSUME WorkTypeOK, UNCHANGED << snapshots, txs >>
    PROVE  TablesGrow
<1>1. Len(snapshots) \in Nat /\ Len(txs) \in Nat
  BY DEF WorkTypeOK
<1> QED
  BY <1>1 DEF TablesGrow

\* Faults are counted up to the bound.
LEMMA FaultTyped ==
    ASSUME WorkTypeOK, NEW kind, Fault(kind)
    PROVE  faults' \in 0..MaxFaults
  BY PipelineAssumption DEF WorkTypeOK, Fault

\* The types and the attempts left, for the steps of the risk worker,
LEMMA RiskStepsKeepWork ==
    ASSUME ChainInv, NEW i \in DOMAIN riskJobs, RiskStep(i) \/ RiskThrows(i)
    PROVE  WorkOK'
<1> DEFINE old == riskJobs[i]
<1>1. WorkOK /\ WorkTypeOK /\ AttemptsLeft
  BY DEF ChainInv, PipelineTypeOK, WorkTypeOK, WorkOK
<1>2. /\ old \in RiskJobRecord /\ old.attempts \in Nat
      /\ (old.snapshot # 0 => old.snapshot \in DOMAIN snapshots)
      /\ MaxAttempts \in Nat /\ Len(snapshots) \in Nat /\ Len(txs) \in Nat
      /\ DOMAIN snapshots = 1..Len(snapshots)
      /\ (old.state \notin {"done", "failed"} => old.attempts < MaxAttempts)
  BY <1>1, RiskJobsTyped, JobQueueAssumption DEF WorkTypeOK, AttemptsLeft, LeftIn
<1>3. {"waiting", "active", "delayed", "done", "failed"} \subseteq JobStates
  BY DEF JobStates
<1>4. UNCHANGED snapshots => RiskJobRecord' = RiskJobRecord
  BY DEF RiskJobRecord
<1>5. CASE StartRisk(i)
  <2> DEFINE job == [old EXCEPT !.state = "active"]
  <2>1. /\ riskJobs' = [riskJobs EXCEPT ![i] = job] /\ old.state \in {"waiting", "delayed"}
        /\ UNCHANGED << snapshots, attestJobs, txs, hook, faults >>
    BY <1>2, <1>5 DEF StartRisk, Startable
  <2>2. job \in RiskJobRecord /\ job.attempts = old.attempts
    BY <1>2, <1>3 DEF RiskJobRecord
  <2>3. RiskJobBecomes(i, job) /\ TablesGrow
    BY <1>1, <1>2, <1>4, <2>1, <2>2, TablesStay DEF RiskJobBecomes
  <2> QED
    BY <1>1, <2>1, <2>3, RiskJobBecomesTyped, OthersTyped DEF WorkOK, WorkTypeOK, AttemptsLeft
<1>6. ASSUME NEW r \in Readings, PersistSnapshot(i, r) PROVE WorkOK'
  <2> DEFINE job == [old EXCEPT !.snapshot = Len(snapshots) + 1]
             row == Row(old.wallet, r, old.sourceBlock)
  <2>1. /\ riskJobs' = [riskJobs EXCEPT ![i] = job] /\ old.state = "active"
        /\ snapshots' = Append(snapshots, row)
        /\ UNCHANGED << attestJobs, txs, hook, faults >>
    BY <1>6 DEF PersistSnapshot
  <2>2. row \in SnapshotRow
    BY <1>2, RegistryAssumption DEF Row, RiskJobRecord, SnapshotRow
  <2>3. snapshots' \in Seq(SnapshotRow) /\ Len(snapshots') = Len(snapshots) + 1
    BY <1>1, <2>1, <2>2, Appended DEF WorkTypeOK
  <2>4. SnapshotRow' = SnapshotRow /\ TablesGrow
    BY <1>2, <2>1, <2>3 DEF SnapshotRow, TablesGrow
  <2>5. job \in RiskJobRecord' /\ job.attempts = old.attempts /\ job.state = old.state
    <3>1. riskJobs \in Seq(RiskJobRecord')
      BY <1>1, <2>4, TypesGrow DEF TablesGrow
    <3>2. old \in RiskJobRecord' /\ Len(snapshots) + 1 \in 0..Len(snapshots')
      BY <1>2, <2>3, <3>1
    <3> HIDE DEF old
    <3> QED
      BY <3>2 DEF RiskJobRecord
  <2>6. RiskJobBecomes(i, job)
    BY <1>2, <2>1, <2>5 DEF RiskJobBecomes
  <2> HIDE DEF job, row
  <2> QED
    BY <1>1, <2>1, <2>3, <2>4, <2>6, RiskJobBecomesTyped, OthersTyped DEF WorkOK, WorkTypeOK, AttemptsLeft
<1>7. CASE EnqueueAttestation(i)
  <2> DEFINE job == [old EXCEPT !.state = "done"]
             new == AttestJob(old.snapshot)
  <2>1. /\ riskJobs' = [riskJobs EXCEPT ![i] = job] /\ old.snapshot # 0
        /\ attestJobs' = Append(attestJobs, new)
        /\ UNCHANGED << snapshots, txs, hook, faults >>
    BY <1>2, <1>7 DEF EnqueueAttestation
  <2>2. job \in RiskJobRecord /\ job.state = "done"
    BY <1>2, <1>3 DEF RiskJobRecord
  <2>3. RiskJobBecomes(i, job) /\ TablesGrow
    BY <1>1, <1>2, <1>4, <2>1, <2>2, TablesStay DEF RiskJobBecomes
  <2>4. new \in AttestJobRecord /\ new.attempts = 0
    BY <1>2, <1>3, <2>1 DEF AttestJob, AttestJobRecord
  <2>5. /\ attestJobs' \in Seq(AttestJobRecord) /\ DOMAIN attestJobs' = DOMAIN attestJobs \cup {Len(attestJobs) + 1}
        /\ attestJobs'[Len(attestJobs) + 1] = new
        /\ \A k \in DOMAIN attestJobs : attestJobs'[k] = attestJobs[k]
    BY <1>1, <2>1, <2>4, Appended DEF WorkTypeOK
  <2>6. AttestJobRecord' = AttestJobRecord
    BY <2>1 DEF AttestJobRecord
  <2>7. LeftIn(attestJobs')
    BY <1>1, <2>4, <2>5, JobQueueAssumption DEF AttemptsLeft, LeftIn
  <2> HIDE DEF job, new
  <2> QED
    BY <1>1, <2>1, <2>3, <2>5, <2>6, <2>7, RiskJobBecomesTyped, OthersTyped DEF WorkOK, WorkTypeOK, AttemptsLeft
<1>8. CASE RiskThrows(i)
  <2> DEFINE thrown == Thrown(old)
             job == [thrown EXCEPT !.snapshot = 0]
             state == IF old.attempts + 1 < MaxAttempts THEN "delayed" ELSE "failed"
             attempts == old.attempts + 1
  <2>1. /\ riskJobs' = [riskJobs EXCEPT ![i] = job] /\ old.state = "active"
        /\ Fault("riskError")
        /\ UNCHANGED << snapshots, attestJobs, txs, hook >>
    BY <1>8 DEF RiskThrows
  <2>2. /\ job \in RiskJobRecord
        /\ (job.state \notin {"done", "failed"} => job.attempts < MaxAttempts)
    <3>1. /\ attempts \in 0..MaxAttempts /\ state \in JobStates /\ 0 \in 0..Len(snapshots)
          /\ (state \notin {"done", "failed"} => attempts < MaxAttempts)
      BY <1>2, <1>3, <2>1
    <3>2. thrown = [old EXCEPT !.attempts = attempts, !.state = state] /\ old \in RiskJobRecord
      BY <1>2 DEF Thrown
    <3> HIDE DEF thrown, old, attempts, state
    <3>3. thrown \in RiskJobRecord /\ thrown.attempts = attempts /\ thrown.state = state
      BY <3>1, <3>2 DEF RiskJobRecord
    <3> QED
      BY <3>1, <3>3 DEF RiskJobRecord
  <2>3. RiskJobBecomes(i, job) /\ TablesGrow /\ faults' \in 0..MaxFaults
    BY <1>1, <1>4, <2>1, <2>2, TablesStay, FaultTyped DEF RiskJobBecomes
  <2> HIDE DEF job, thrown
  <2> QED
    BY <1>1, <2>1, <2>3, RiskJobBecomesTyped, OthersTyped DEF WorkOK, WorkTypeOK, AttemptsLeft
<1> QED
  BY <1>5, <1>6, <1>7, <1>8 DEF RiskStep

\* and for those of the attestation worker.
LEMMA AttestStepsKeepWork ==
    ASSUME ChainInv, NEW j \in DOMAIN attestJobs,
           AttestStep(j) \/ PublishThrows(j) \/ CrashAttestation(j)
    PROVE  WorkOK'
<1>1. WorkOK /\ WorkTypeOK
  BY DEF ChainInv, PipelineTypeOK, WorkTypeOK, WorkOK
<1>2. CASE \/ FinishWithoutPublishing(j) \/ DecideToPublish(j) \/ RefuseReading(j)
           \/ CompleteAttestation(j) \/ PublishThrows(j) \/ CrashAttestation(j)
  <2>1. attestJobs' \in Seq(AttestJobRecord') /\ LeftIn(attestJobs')
    BY <1>2, AttestActions
  <2>2. UNCHANGED << riskJobs, snapshots, txs, hook >>
    BY <1>2 DEF FinishWithoutPublishing, DecideToPublish, RefuseReading, CompleteAttestation, PublishThrows,
           CrashAttestation
  <2>3. faults' \in 0..MaxFaults
    <3>1. UNCHANGED faults \/ Fault("publishError") \/ Fault("crash")
      BY <1>2 DEF FinishWithoutPublishing, DecideToPublish, RefuseReading, CompleteAttestation, PublishThrows,
             CrashAttestation
    <3> QED
      BY <1>1, <3>1, FaultTyped DEF WorkTypeOK
  <2>4. TablesGrow
    BY <1>1, <2>2, TablesStay
  <2> QED
    BY <1>1, <2>1, <2>2, <2>3, <2>4, OthersTyped DEF WorkOK, WorkTypeOK, AttemptsLeft
<1>3. CASE Broadcast(j)
  <2> DEFINE tx == [snapshot |-> attestJobs[j].snapshot, state |-> "pending", id |-> 0]
  <2>1. txs' = Append(txs, tx) /\ UNCHANGED << riskJobs, snapshots, hook, faults >>
    BY <1>3 DEF Broadcast
  <2>2. tx \in TxRecord
    <3>1. attestJobs[j].snapshot \in DOMAIN snapshots
      BY <1>1, JobsTyped
    <3>2. DOMAIN snapshots = 1..Len(snapshots) /\ 0 \in 0..MaxSnapshots
      BY <1>1, RegistryAssumption DEF WorkTypeOK
    <3> QED
      BY <3>1, <3>2 DEF TxRecord
  <2>3. txs' \in Seq(TxRecord) /\ Len(txs') = Len(txs) + 1
    BY <1>1, <2>1, <2>2, Appended DEF WorkTypeOK
  <2>4. TxRecord' = TxRecord /\ TablesGrow
    <3>1. Len(txs) \in Nat /\ Len(snapshots) \in Nat
      BY <1>1 DEF WorkTypeOK
    <3> QED
      BY <2>1, <2>3, <3>1 DEF TxRecord, TablesGrow
  <2>5. attestJobs' \in Seq(AttestJobRecord') /\ LeftIn(attestJobs')
    BY <1>3, AttestActions
  <2> HIDE DEF tx
  <2> QED
    BY <1>1, <2>1, <2>3, <2>4, <2>5, OthersTyped DEF WorkOK, WorkTypeOK, AttemptsLeft
<1>4. CASE MarkPublished(j)
  <2> DEFINE s == attestJobs[j].snapshot  t == attestJobs[j].tx
             row == [snapshots[s] EXCEPT !.onchainTxId = t]
  <2>1. snapshots' = [snapshots EXCEPT ![s] = row] /\ UNCHANGED << riskJobs, attestJobs, txs, hook, faults >>
    BY <1>4 DEF MarkPublished
  <2>2. s \in DOMAIN snapshots /\ t \in 0..Len(txs) /\ snapshots[s] \in SnapshotRow
    BY <1>1, JobsTyped, RowsTyped
  <2>3. row \in SnapshotRow
    BY <2>2 DEF SnapshotRow
  <2> HIDE DEF row, s, t
  <2>4. snapshots' \in Seq(SnapshotRow) /\ Len(snapshots') = Len(snapshots)
    BY <1>1, <2>1, <2>2, <2>3, Replaced DEF WorkTypeOK
  <2>5. SnapshotRow' = SnapshotRow /\ TablesGrow
    <3>1. Len(txs) \in Nat /\ Len(snapshots) \in Nat
      BY <1>1 DEF WorkTypeOK
    <3> QED
      BY <2>1, <2>4, <3>1 DEF SnapshotRow, TablesGrow
  <2> QED
    BY <1>1, <2>1, <2>4, <2>5, OthersTyped DEF WorkOK, WorkTypeOK, AttemptsLeft
<1> QED
  BY <1>2, <1>3, <1>4 DEF AttestStep

\* Transaction t goes on with this state and id; no other transaction changes.
TxGoes(t, state, id) ==
    /\ DOMAIN txs' = DOMAIN txs /\ Len(txs') = Len(txs)
    /\ txs'[t].snapshot = txs[t].snapshot
    /\ txs'[t].state = state
    /\ txs'[t].id = id
    /\ \A u \in DOMAIN txs : u # t => txs'[u] = txs[u]

\* The same event is reported, after all that are under way.
Reported(kind, t, id) ==
    /\ Len(hook') = Len(hook) + 1
    /\ DOMAIN hook' = DOMAIN hook \cup {Len(hook) + 1}
    /\ hook'[Len(hook) + 1] = [kind |-> kind, tx |-> t, id |-> id]
    /\ \A k \in DOMAIN hook : hook'[k] = hook[k]

\* What executing, failing and orphaning do to the transaction, to the reports and to the
\* types.
LEMMA TxSteps ==
    ASSUME ChainInv, RegistryInv', NEW t \in DOMAIN txs
    PROVE  /\ ExecuteTx(t) =>
                 /\ TxGoes(t, "executed", latestSnapshotId'[WalletOf(t)])
                 /\ Reported("apply", t, latestSnapshotId'[WalletOf(t)])
                 /\ NextPending(t) /\ UNCHANGED << riskJobs, snapshots, attestJobs >>
           /\ AbortTx(t) =>
                 /\ TxGoes(t, "aborted", txs[t].id) /\ UNCHANGED hook
                 /\ NextPending(t) /\ UNCHANGED << riskJobs, snapshots, attestJobs, snapshotVars >>
           /\ Reorganise(t) =>
                 /\ TxGoes(t, "pending", 0)
                 /\ Reported("rollback", t, 0)
                 /\ UNCHANGED << riskJobs, snapshots, attestJobs >>
           /\ ExecuteTx(t) \/ AbortTx(t) \/ Reorganise(t) => WorkOK'
<1>1. WorkOK /\ WorkTypeOK
  BY DEF ChainInv, PipelineTypeOK, WorkTypeOK, WorkOK
<1>2. txs[t] \in TxRecord /\ t \in 1..Len(txs) /\ WalletOf(t) \in Wallets
  BY <1>1, TxsTyped
<1>3. latestSnapshotId'[WalletOf(t)] \in 0..MaxSnapshots
  BY <1>2 DEF RegistryInv, TypeOK
<1>4. ASSUME NEW state \in {"pending", "executed", "aborted"}, NEW id \in 0..MaxSnapshots,
             UNCHANGED snapshots,
             txs' = [txs EXCEPT ![t] = [txs[t] EXCEPT !.state = state, !.id = id]]
      PROVE  /\ TxGoes(t, state, id) /\ txs' \in Seq(TxRecord') /\ TablesGrow
  <2> DEFINE old == txs[t]  tx == [old EXCEPT !.state = state, !.id = id]
  <2>1. tx \in TxRecord /\ tx.snapshot = old.snapshot /\ tx.state = state /\ tx.id = id
    BY <1>2 DEF TxRecord
  <2>2. txs' = [txs EXCEPT ![t] = tx]
    BY <1>4
  <2> HIDE DEF tx
  <2>3. /\ txs' \in Seq(TxRecord) /\ Len(txs') = Len(txs) /\ DOMAIN txs' = DOMAIN txs
        /\ txs'[t] = tx /\ \A u \in DOMAIN txs : u # t => txs'[u] = txs[u]
    BY <1>1, <2>1, <2>2, Replaced DEF WorkTypeOK
  <2>4. TxRecord' = TxRecord
    BY <1>4 DEF TxRecord
  <2>5. Len(txs) \in Nat /\ Len(snapshots) \in Nat
    BY <1>1 DEF WorkTypeOK
  <2> QED
    BY <1>4, <2>1, <2>3, <2>4, <2>5 DEF TxGoes, TablesGrow
<1>5. ASSUME NEW kind \in {"apply", "rollback"}, NEW id \in 0..MaxSnapshots, Len(txs') = Len(txs),
             hook' = Append(hook, [kind |-> kind, tx |-> t, id |-> id])
      PROVE  Reported(kind, t, id) /\ hook' \in Seq(HookEvent')
  <2> DEFINE event == [kind |-> kind, tx |-> t, id |-> id]
  <2>1. event \in HookEvent /\ HookEvent' = HookEvent
    BY <1>2, <1>5 DEF HookEvent
  <2>2. hook' = Append(hook, event) /\ hook \in Seq(HookEvent)
    BY <1>1, <1>5 DEF WorkTypeOK
  <2> HIDE DEF event
  <2>3. /\ hook' \in Seq(HookEvent) /\ Len(hook') = Len(hook) + 1
        /\ DOMAIN hook' = DOMAIN hook \cup {Len(hook) + 1}
        /\ hook'[Len(hook) + 1] = event /\ \A k \in DOMAIN hook : hook'[k] = hook[k]
    BY <2>1, <2>2, Appended
  <2> QED
    BY <2>1, <2>3 DEF Reported, event
<1>6. ASSUME ExecuteTx(t)
      PROVE  /\ TxGoes(t, "executed", latestSnapshotId'[WalletOf(t)])
             /\ Reported("apply", t, latestSnapshotId'[WalletOf(t)])
             /\ NextPending(t) /\ UNCHANGED << riskJobs, snapshots, attestJobs >>
             /\ WorkOK'
  <2> DEFINE id == latestSnapshotId'[WalletOf(t)]
  <2>1. /\ txs' = [txs EXCEPT ![t] = [txs[t] EXCEPT !.state = "executed", !.id = id]]
        /\ hook' = Append(hook, [kind |-> "apply", tx |-> t, id |-> id])
        /\ NextPending(t) /\ UNCHANGED << riskJobs, snapshots, attestJobs, faults >>
    BY <1>2, <1>6 DEF ExecuteTx, WalletOf, TxRow, TxRecord
  <2>2. id \in 0..MaxSnapshots
    BY <1>3
  <2> HIDE DEF id
  <2>3. TxGoes(t, "executed", id) /\ txs' \in Seq(TxRecord') /\ TablesGrow
    BY <1>4, <2>1, <2>2
  <2>4. Reported("apply", t, id) /\ hook' \in Seq(HookEvent')
    BY <1>5, <2>1, <2>2, <2>3 DEF TxGoes
  <2>5. WorkOK'
    BY <1>1, <2>1, <2>3, <2>4, OthersTyped DEF WorkOK, WorkTypeOK, AttemptsLeft
  <2> QED
    BY <2>1, <2>3, <2>4, <2>5 DEF id
<1>7. ASSUME AbortTx(t)
      PROVE  /\ TxGoes(t, "aborted", txs[t].id) /\ UNCHANGED hook
             /\ NextPending(t) /\ UNCHANGED << riskJobs, snapshots, attestJobs, snapshotVars >>
             /\ WorkOK'
  <2> DEFINE id == txs[t].id
  <2>1. /\ txs' = [txs EXCEPT ![t] = [txs[t] EXCEPT !.state = "aborted", !.id = id]]
        /\ NextPending(t) /\ UNCHANGED << riskJobs, snapshots, attestJobs, hook, faults, snapshotVars >>
    BY <1>2, <1>7 DEF AbortTx, TxRecord, registryVars, snapshotVars
  <2>2. id \in 0..MaxSnapshots
    BY <1>2 DEF TxRecord
  <2> HIDE DEF id
  <2>3. TxGoes(t, "aborted", id) /\ txs' \in Seq(TxRecord') /\ TablesGrow
    BY <1>4, <2>1, <2>2
  <2>4. WorkOK'
    BY <1>1, <2>1, <2>3, OthersTyped DEF WorkOK, WorkTypeOK, AttemptsLeft
  <2> QED
    BY <2>1, <2>3, <2>4 DEF id
<1>8. ASSUME Reorganise(t)
      PROVE  /\ TxGoes(t, "pending", 0)
             /\ Reported("rollback", t, 0)
             /\ UNCHANGED << riskJobs, snapshots, attestJobs >>
             /\ WorkOK'
  <2>1. /\ txs' = [txs EXCEPT ![t] = [txs[t] EXCEPT !.state = "pending", !.id = 0]]
        /\ hook' = Append(hook, [kind |-> "rollback", tx |-> t, id |-> 0])
        /\ Fault("reorg") /\ UNCHANGED << riskJobs, snapshots, attestJobs >>
    BY <1>2, <1>8 DEF Reorganise, TxRecord
  <2>2. 0 \in 0..MaxSnapshots
    BY RegistryAssumption
  <2>3. TxGoes(t, "pending", 0) /\ txs' \in Seq(TxRecord') /\ TablesGrow
    BY <1>4, <2>1, <2>2
  <2>4. Reported("rollback", t, 0) /\ hook' \in Seq(HookEvent')
    BY <1>5, <2>1, <2>2, <2>3 DEF TxGoes
  <2>5. faults' \in 0..MaxFaults
    BY <1>1, <2>1, FaultTyped
  <2>6. WorkOK'
    BY <1>1, <2>1, <2>3, <2>4, <2>5, OthersTyped DEF WorkOK, WorkTypeOK, AttemptsLeft
  <2> QED
    BY <2>1, <2>3, <2>4, <2>6
<1> QED
  BY <1>6, <1>7, <1>8

\* Only the id of a row changes by a payload.
LEMMA PayloadSteps ==
    ASSUME ChainInv, NEW n \in DOMAIN hook, ConfirmAttestations(n) \/ RepeatPayload(n)
    PROVE  /\ DOMAIN snapshots' = DOMAIN snapshots
           /\ \A s \in DOMAIN snapshots : \E new \in 0..MaxSnapshots :
                 /\ snapshots'[s] = [snapshots[s] EXCEPT !.onchainSnapshotId = new]
                 /\ NewId(n, snapshots[s].onchainTxId, snapshots[s].onchainSnapshotId, new)
           /\ UNCHANGED << registryVars, riskJobs, attestJobs, txs >>
           /\ WorkOK'
<1>1. WorkOK /\ WorkTypeOK
  BY DEF ChainInv, PipelineTypeOK, WorkTypeOK, WorkOK
<1>2. /\ snapshots' = Rows(n) /\ UNCHANGED << registryVars, riskJobs, attestJobs, txs >>
      /\ (UNCHANGED hook \/ hook' = SubSeq(hook, n + 1, Len(hook)))
      /\ (UNCHANGED faults \/ Fault("repeat"))
  BY DEF ConfirmAttestations, RepeatPayload
<1>3. DOMAIN snapshots' = DOMAIN snapshots
  BY <1>2 DEF Rows
<1>4. ASSUME NEW s \in DOMAIN snapshots
      PROVE  \E new \in 0..MaxSnapshots :
                 /\ snapshots'[s] = [snapshots[s] EXCEPT !.onchainSnapshotId = new]
                 /\ NewId(n, snapshots[s].onchainTxId, snapshots[s].onchainSnapshotId, new)
  BY <1>1, <1>2, RowsShape
<1>5. snapshots' \in Seq(SnapshotRow) /\ Len(snapshots') = Len(snapshots) /\ Len(snapshots) \in Nat
  <2>1. \A s \in DOMAIN snapshots : snapshots'[s] \in SnapshotRow
    <3> SUFFICES ASSUME NEW s \in DOMAIN snapshots PROVE snapshots'[s] \in SnapshotRow
      OBVIOUS
    <3>1. PICK new \in 0..MaxSnapshots : snapshots'[s] = [snapshots[s] EXCEPT !.onchainSnapshotId = new]
      BY <1>4
    <3>2. snapshots[s] \in SnapshotRow
      BY <1>1, RowsTyped
    <3> QED
      BY <3>1, <3>2 DEF SnapshotRow
  <2>2. DOMAIN snapshots = 1..Len(snapshots) /\ Len(snapshots) \in Nat
    BY <1>1 DEF WorkTypeOK
  <2>3. snapshots' = [s \in 1..Len(snapshots) |-> snapshots'[s]]
    BY <1>2, <1>3, <2>2 DEF Rows
  <2>4. snapshots' \in [1..Len(snapshots) -> SnapshotRow]
    BY <2>1, <2>2, <2>3
  <2>5. snapshots' \in Seq(SnapshotRow)
    BY <2>2, <2>4, SeqDef
  <2>6. Len(snapshots') = Len(snapshots)
    BY <2>2, <2>4, <2>5, LenProperties
  <2> QED
    BY <2>2, <2>5, <2>6
<1>6. SnapshotRow' = SnapshotRow /\ HookEvent' = HookEvent
  BY <1>2 DEF SnapshotRow, HookEvent
<1>7. TablesGrow
  <2>1. Len(txs) \in Nat
    BY <1>1 DEF WorkTypeOK
  <2> QED
    BY <1>2, <1>5, <2>1 DEF TablesGrow
<1>8. hook' \in Seq(HookEvent)
  <2>1. hook \in Seq(HookEvent) /\ n \in 1..Len(hook) /\ Len(hook) \in Nat
    BY <1>1 DEF WorkTypeOK
  <2> HIDE DEF HookEvent
  <2>2. SubSeq(hook, n + 1, Len(hook)) \in Seq(HookEvent)
    BY <2>1, SubSeqProperties
  <2> QED
    BY <1>2, <2>1, <2>2
<1>9. faults' \in 0..MaxFaults
  BY <1>1, <1>2, FaultTyped DEF WorkTypeOK
<1>10. WorkOK'
  BY <1>1, <1>2, <1>5, <1>6, <1>7, <1>8, <1>9, OthersTyped DEF WorkOK, WorkTypeOK, AttemptsLeft
<1> QED
  BY <1>2, <1>3, <1>4, <1>10

\* A request adds a job that has all its attempts.
LEMMA RequestKeepsWork ==
    ASSUME ChainInv, NEW w \in Wallets, RequestRisk(w)
    PROVE  WorkOK'
<1> DEFINE job == RiskJob(w, stacksBlockHeight)
<1>1. WorkOK /\ WorkTypeOK /\ stacksBlockHeight \in 0..MaxHeight
  BY DEF ChainInv, PipelineTypeOK, WorkTypeOK, WorkOK, TypeOK
<1>2. riskJobs' = Append(riskJobs, job) /\ UNCHANGED << snapshots, attestJobs, txs, hook, faults >>
  BY DEF RequestRisk
<1>3. job \in RiskJobRecord /\ job.attempts = 0
  <2>1. Len(snapshots) \in Nat
    BY <1>1 DEF WorkTypeOK
  <2> QED
    BY <1>1, <2>1, JobQueueAssumption DEF RiskJob, RiskJobRecord, JobStates
<1> HIDE DEF job
<1>4. /\ riskJobs' \in Seq(RiskJobRecord) /\ DOMAIN riskJobs' = DOMAIN riskJobs \cup {Len(riskJobs) + 1}
      /\ riskJobs'[Len(riskJobs) + 1] = job
      /\ \A k \in DOMAIN riskJobs : riskJobs'[k] = riskJobs[k]
  BY <1>1, <1>2, <1>3, Appended DEF WorkTypeOK
<1>5. RiskJobRecord' = RiskJobRecord /\ TablesGrow
  BY <1>1, <1>2, TablesStay DEF RiskJobRecord
<1>6. LeftIn(riskJobs')
  BY <1>1, <1>3, <1>4, JobQueueAssumption DEF WorkOK, AttemptsLeft, LeftIn
<1> QED
  BY <1>1, <1>2, <1>4, <1>5, <1>6, OthersTyped DEF WorkOK, WorkTypeOK, AttemptsLeft

\* The types and the attempts left, for every step.
LEMMA StepKeepsWork ==
    ASSUME ChainInv, [Next]_vars
    PROVE  WorkOK'
<1>1. WorkOK /\ WorkTypeOK
  BY DEF ChainInv, PipelineTypeOK, WorkTypeOK, WorkOK
<1>2. CASE UNCHANGED workVars \/ Revoke
  <2>1. UNCHANGED << riskJobs, snapshots, attestJobs, txs, hook >> /\ (UNCHANGED faults \/ Fault("revoke"))
    BY <1>2 DEF workVars, Revoke
  <2>2. TablesGrow /\ faults' \in 0..MaxFaults
    BY <1>1, <2>1, TablesStay, FaultTyped DEF WorkTypeOK
  <2> QED
    BY <1>1, <2>1, <2>2, OthersTyped DEF WorkOK, WorkTypeOK, AttemptsLeft
<1>3. CASE UNCHANGED vars \/ Revoke \/ Authorise \/ NewBlock
  BY <1>2, <1>3 DEF vars, Authorise, NewBlock
<1>4. CASE \E w \in Wallets : RequestRisk(w)
  BY <1>4, RequestKeepsWork
<1>5. CASE \E i \in DOMAIN riskJobs : RiskStep(i) \/ RiskThrows(i)
  BY <1>5, RiskStepsKeepWork
<1>6. CASE \E j \in DOMAIN attestJobs : AttestStep(j) \/ PublishThrows(j) \/ CrashAttestation(j)
  BY <1>6, AttestStepsKeepWork
<1>7. CASE \E t \in DOMAIN txs : ExecuteTx(t) \/ AbortTx(t) \/ Reorganise(t)
  BY <1>7, StepKeepsRegistry, TxSteps
<1>8. CASE \E n \in DOMAIN hook : ConfirmAttestations(n) \/ RepeatPayload(n)
  BY <1>8, PayloadSteps
<1> QED
  BY <1>3, <1>4, <1>5, <1>6, <1>7, <1>8 DEF Next

-----------------------------------------------------------------------------
(* Ids and transactions.                                                   *)

\* What a row says of the world never changes.
RowsKept ==
    /\ DOMAIN snapshots \subseteq DOMAIN snapshots'
    /\ \A s \in DOMAIN snapshots : /\ snapshots'[s].wallet = snapshots[s].wallet
                                  /\ snapshots'[s].reading = snapshots[s].reading
                                  /\ snapshots'[s].sourceBlock = snapshots[s].sourceBlock

\* Transactions are only added, and added pending.
TxsKept ==
    /\ DOMAIN txs \subseteq DOMAIN txs'
    /\ \A t \in DOMAIN txs : txs'[t] = txs[t]
    /\ \A t \in DOMAIN txs' \ DOMAIN txs :
          txs'[t].state = "pending" /\ \A u \in DOMAIN txs : u < t

\* A stored snapshot is a new row without a transaction and without an id.
LEMMA PersistAddsRow ==
    ASSUME ChainInv, NEW i \in DOMAIN riskJobs, NEW r \in Readings, PersistSnapshot(i, r)
    PROVE  /\ DOMAIN snapshots' = DOMAIN snapshots \cup {Len(snapshots) + 1}
           /\ Len(snapshots) + 1 \notin DOMAIN snapshots
           /\ snapshots'[Len(snapshots) + 1].onchainTxId = 0
           /\ snapshots'[Len(snapshots) + 1].onchainSnapshotId = 0
           /\ \A s \in DOMAIN snapshots : snapshots'[s] = snapshots[s]
           /\ UNCHANGED << registryVars, attestJobs, txs, hook >>
<1> DEFINE row == Row(riskJobs[i].wallet, r, riskJobs[i].sourceBlock)
<1>1. snapshots' = Append(snapshots, row) /\ UNCHANGED << registryVars, attestJobs, txs, hook >>
  BY DEF PersistSnapshot
<1>2. row.onchainTxId = 0 /\ row.onchainSnapshotId = 0
  BY DEF Row
<1>3. snapshots \in Seq(SnapshotRow)
  BY DEF ChainInv, PipelineTypeOK
<1>4. snapshots \in Seq(SnapshotRow \cup {row})
  BY <1>3, SeqGrows
<1> HIDE DEF row
<1> QED
  BY <1>1, <1>2, <1>4, Appended

\* Recording a transaction changes that of one row, and nothing else of it.
LEMMA MarkSetsTx ==
    ASSUME ChainInv, NEW j \in DOMAIN attestJobs, MarkPublished(j),
           NEW s, s = attestJobs[j].snapshot
    PROVE  /\ s \in DOMAIN snapshots /\ DOMAIN snapshots' = DOMAIN snapshots
           /\ attestJobs[j].state = "active" /\ attestJobs[j].tx \in DOMAIN txs
           /\ snapshots[s].onchainTxId # attestJobs[j].tx
           /\ snapshots'[s].wallet = snapshots[s].wallet
           /\ snapshots'[s].reading = snapshots[s].reading
           /\ snapshots'[s].sourceBlock = snapshots[s].sourceBlock
           /\ snapshots'[s].onchainTxId = attestJobs[j].tx
           /\ snapshots'[s].onchainSnapshotId = snapshots[s].onchainSnapshotId
           /\ \A q \in DOMAIN snapshots : q # s => snapshots'[q] = snapshots[q]
           /\ UNCHANGED << registryVars, attestJobs, txs, hook >>
<1>1. WorkTypeOK
  BY DEF ChainInv, PipelineTypeOK, WorkTypeOK
<1> DEFINE row == [snapshots[s] EXCEPT !.onchainTxId = attestJobs[j].tx]
<1>2. /\ snapshots' = [snapshots EXCEPT ![s] = row]
      /\ attestJobs[j].state = "active" /\ attestJobs[j].tx # 0
      /\ snapshots[s].onchainTxId # attestJobs[j].tx
      /\ UNCHANGED << registryVars, attestJobs, txs, hook >>
  BY DEF MarkPublished
<1>3. /\ s \in DOMAIN snapshots /\ attestJobs[j].tx \in 0..Len(txs) /\ snapshots[s] \in SnapshotRow
      /\ attestJobs[j].tx \in DOMAIN txs
  BY <1>1, <1>2, JobsTyped, RowsTyped
<1>4. /\ row \in SnapshotRow
      /\ row.wallet = snapshots[s].wallet /\ row.reading = snapshots[s].reading
      /\ row.sourceBlock = snapshots[s].sourceBlock /\ row.onchainTxId = attestJobs[j].tx
      /\ row.onchainSnapshotId = snapshots[s].onchainSnapshotId
  BY <1>3 DEF SnapshotRow
<1> HIDE DEF row
<1>5. /\ DOMAIN snapshots' = DOMAIN snapshots /\ snapshots'[s] = row
      /\ \A q \in DOMAIN snapshots : q # s => snapshots'[q] = snapshots[q]
  BY <1>1, <1>2, <1>3, <1>4, Replaced DEF WorkTypeOK
<1> QED
  BY <1>2, <1>3, <1>4, <1>5

\* A broadcast adds one pending transaction, for the row of the job in hand.
LEMMA BroadcastAddsTx ==
    ASSUME ChainInv, NEW j \in DOMAIN attestJobs, Broadcast(j), NEW t, t = Len(txs) + 1
    PROVE  /\ DOMAIN txs' = DOMAIN txs \cup {t} /\ t \notin DOMAIN txs /\ t \in Nat \ {0}
           /\ \A u \in DOMAIN txs : u < t
           /\ txs'[t].snapshot = attestJobs[j].snapshot /\ txs'[t].state = "pending"
           /\ \A u \in DOMAIN txs : txs'[u] = txs[u]
           /\ attestJobs[j].state = "active" /\ attestJobs[j].tx = 0
           /\ UNCHANGED << registryVars, snapshots, hook >>
<1> DEFINE tx == [snapshot |-> attestJobs[j].snapshot, state |-> "pending", id |-> 0]
<1>1. /\ txs' = Append(txs, tx) /\ UNCHANGED << registryVars, snapshots, hook >>
      /\ attestJobs[j].state = "active" /\ attestJobs[j].tx = 0
  BY DEF Broadcast
<1>2. txs \in Seq(TxRecord)
  BY DEF ChainInv, PipelineTypeOK
<1>3. txs \in Seq(TxRecord \cup {tx})
  BY <1>2, SeqGrows
<1>4. DOMAIN txs = 1..Len(txs) /\ Len(txs) \in Nat
  BY <1>2
<1>5. tx.snapshot = attestJobs[j].snapshot /\ tx.state = "pending"
  OBVIOUS
<1> HIDE DEF tx
<1>6. /\ DOMAIN txs' = DOMAIN txs \cup {t} /\ t \notin DOMAIN txs /\ txs'[t] = tx
      /\ \A u \in DOMAIN txs : txs'[u] = txs[u]
  BY <1>1, <1>3, Appended
<1>7. t \in Nat \ {0} /\ \A u \in DOMAIN txs : u < t
  BY <1>4
<1> QED
  BY <1>1, <1>5, <1>6, <1>7

\* The steps off the chain, as far as ids and transactions are concerned.
LEMMA OffChainSteps ==
    ASSUME ChainInv, [Next]_vars, ~(\E t \in DOMAIN txs : ExecuteTx(t) \/ AbortTx(t) \/ Reorganise(t))
    PROVE  RowsKept /\ TxsKept /\ UNCHANGED snapshotVars
<1>1. UNCHANGED << snapshots, txs, snapshotVars >> => RowsKept /\ TxsKept /\ UNCHANGED snapshotVars
  BY DEF RowsKept, TxsKept
<1>2. UNCHANGED registryVars => UNCHANGED snapshotVars
  BY DEF registryVars, snapshotVars
<1>3. CASE UNCHANGED vars \/ Revoke \/ Authorise \/ NewBlock \/ \E w \in Wallets : RequestRisk(w)
  <2>1. UNCHANGED << snapshots, txs, snapshotVars >>
    BY <1>2, <1>3 DEF vars, workVars, Revoke, Authorise, NewBlock, RequestRisk, SetPublisher, MineBlock
  <2> QED
    BY <1>1, <2>1
<1>4. ASSUME NEW i \in DOMAIN riskJobs, RiskStep(i) \/ RiskThrows(i)
      PROVE  RowsKept /\ TxsKept /\ UNCHANGED snapshotVars
  <2>1. CASE \E r \in Readings : PersistSnapshot(i, r)
    BY <1>2, <2>1, PersistAddsRow DEF RowsKept, TxsKept
  <2>2. CASE StartRisk(i) \/ EnqueueAttestation(i) \/ RiskThrows(i)
    BY <1>1, <1>2, <2>2 DEF StartRisk, EnqueueAttestation, RiskThrows
  <2> QED
    BY <1>4, <2>1, <2>2 DEF RiskStep
<1>5. ASSUME NEW j \in DOMAIN attestJobs, AttestStep(j) \/ PublishThrows(j) \/ CrashAttestation(j)
      PROVE  RowsKept /\ TxsKept /\ UNCHANGED snapshotVars
  <2>1. CASE MarkPublished(j)
    BY <1>2, <2>1, MarkSetsTx DEF RowsKept, TxsKept
  <2>2. CASE Broadcast(j)
    <3>1. PICK last : last = Len(txs) + 1
      OBVIOUS
    <3>2. /\ DOMAIN txs' = DOMAIN txs \cup {last} /\ \A u \in DOMAIN txs : u < last
          /\ txs'[last].state = "pending" /\ \A t \in DOMAIN txs : txs'[t] = txs[t]
          /\ UNCHANGED << registryVars, snapshots >>
      BY <2>2, <3>1, BroadcastAddsTx
    <3> QED
      BY <1>2, <3>2 DEF RowsKept, TxsKept
  <2>3. CASE \/ FinishWithoutPublishing(j) \/ DecideToPublish(j) \/ RefuseReading(j)
             \/ CompleteAttestation(j) \/ PublishThrows(j) \/ CrashAttestation(j)
    BY <1>1, <1>2, <2>3 DEF FinishWithoutPublishing, DecideToPublish, RefuseReading, CompleteAttestation,
       PublishThrows, CrashAttestation
  <2> QED
    BY <1>5, <2>1, <2>2, <2>3 DEF AttestStep
<1>6. ASSUME NEW n \in DOMAIN hook, ConfirmAttestations(n) \/ RepeatPayload(n)
      PROVE  RowsKept /\ TxsKept /\ UNCHANGED snapshotVars
  <2>1. UNCHANGED txs /\ UNCHANGED snapshotVars /\ DOMAIN snapshots' = DOMAIN snapshots
    BY <1>2, <1>6, PayloadSteps
  <2>2. ASSUME NEW s \in DOMAIN snapshots
        PROVE  /\ snapshots'[s].wallet = snapshots[s].wallet
               /\ snapshots'[s].reading = snapshots[s].reading
               /\ snapshots'[s].sourceBlock = snapshots[s].sourceBlock
    <3>1. snapshots[s] \in SnapshotRow
      BY RowsTyped DEF ChainInv, PipelineTypeOK, WorkTypeOK
    <3>2. \E new : snapshots'[s] = [snapshots[s] EXCEPT !.onchainSnapshotId = new]
      BY <1>6, PayloadSteps
    <3> QED
      BY <3>1, <3>2 DEF SnapshotRow
  <2> QED
    BY <2>1, <2>2 DEF RowsKept, TxsKept
<1> QED
  BY <1>3, <1>4, <1>5, <1>6 DEF Next

\* Ids and transactions stay tied in the steps off the chain.
LEMMA OffChainKeepsIds ==
    ASSUME ChainInv, RowsKept, TxsKept, UNCHANGED snapshotVars, DOMAIN txs' \subseteq Nat
    PROVE  IdsOfTxs'
<1>1. /\ WorkTypeOK /\ NonceOrder /\ IdsOnChain /\ IdsIncrease /\ IdsHaveTx
      /\ UNCHANGED << latestSnapshotId, riskSnapshots >>
  BY DEF ChainInv, PipelineTypeOK, WorkTypeOK, IdsOfTxs, snapshotVars
<1>2. ASSUME NEW t \in DOMAIN txs
      PROVE  /\ t \in DOMAIN txs' /\ txs'[t] = txs[t] /\ t \in Nat
             /\ (Executed(t)' <=> Executed(t)) /\ WalletOf(t)' = WalletOf(t)
             /\ TxRow(t)'.reading = TxRow(t).reading /\ TxRow(t)'.sourceBlock = TxRow(t).sourceBlock
  <2>1. t \in DOMAIN txs' /\ txs'[t] = txs[t] /\ t \in Nat /\ txs[t].snapshot \in DOMAIN snapshots
    BY <1>1, TxsTyped DEF TxsKept
  <2> QED
    BY <2>1 DEF RowsKept, Executed, WalletOf, TxRow
<1>3. \A t \in DOMAIN txs' \ DOMAIN txs :
         txs'[t].state = "pending" /\ ~(Executed(t)') /\ \A u \in DOMAIN txs : u < t
  BY DEF TxsKept, Executed
<1>4. NonceOrder'
  <2> SUFFICES ASSUME NEW t \in DOMAIN txs', NEW u \in DOMAIN txs', t < u, txs'[t].state = "pending"
               PROVE  txs'[u].state = "pending"
    BY DEF NonceOrder
  <2>1. CASE u \notin DOMAIN txs
    BY <1>3, <2>1
  <2>2. CASE t \in DOMAIN txs /\ u \in DOMAIN txs
    BY <1>1, <1>2, <2>2 DEF NonceOrder
  <2>3. CASE t \notin DOMAIN txs /\ u \in DOMAIN txs
    <3>1. u < t /\ u \in Nat
      BY <1>2, <1>3, <2>3
    <3>2. t \in Nat
      OBVIOUS
    <3> QED
      BY <3>1, <3>2
  <2> QED
    BY <2>1, <2>2, <2>3
<1>5. IdsOnChain'
  BY <1>1, <1>2, <1>3 DEF IdsOnChain
<1>6. IdsIncrease'
  BY <1>1, <1>2, <1>3 DEF IdsIncrease
<1>7. IdsHaveTx'
  BY <1>1, <1>2 DEF IdsHaveTx
<1> QED
  BY <1>4, <1>5, <1>6, <1>7 DEF IdsOfTxs

\* The contract holds an attestation under the id of every executed transaction.
LEMMA ExecutedIsStored ==
    ASSUME ChainInv, NEW t \in DOMAIN txs, Executed(t)
    PROVE  /\ << WalletOf(t), txs[t].id >> \in DOMAIN riskSnapshots
           /\ txs[t].id \in Nat \ {0} /\ txs[t].id <= latestSnapshotId[WalletOf(t)]
           /\ latestSnapshotId[WalletOf(t)] \in Nat
<1>1. /\ WalletOf(t) \in Wallets /\ txs[t].id \in 0..MaxSnapshots
      /\ latestSnapshotId \in [Wallets -> 0..MaxSnapshots] /\ MaxSnapshots \in Nat
  BY TxsTyped, RegistryAssumption DEF ChainInv, PipelineTypeOK, WorkTypeOK, TypeOK
<1>2. txs[t].id \in 1..latestSnapshotId[WalletOf(t)]
  BY DEF ChainInv, IdsOfTxs, IdsOnChain
<1>3. latestSnapshotId[WalletOf(t)] \in 0..MaxSnapshots
  BY <1>1
<1>4. txs[t].id \in 1..MaxSnapshots
  BY <1>1, <1>2, <1>3
<1>5. << WalletOf(t), txs[t].id >> \in SnapshotKeys
  BY <1>1, <1>4 DEF SnapshotKeys
<1> QED
  BY <1>1, <1>2, <1>3, <1>4, <1>5 DEF ChainInv, RegistryInv, IdsContiguous

\* A step that changes the state and id of one transaction leaves the others' as they
\* are, and every transaction for the row it was for.
LEMMA TxGoesKeepsOthers ==
    ASSUME ChainInv, NEW t \in DOMAIN txs, NEW state, NEW id, TxGoes(t, state, id),
           UNCHANGED snapshots, NEW u \in DOMAIN txs
    PROVE  /\ DOMAIN txs' = DOMAIN txs /\ Len(txs') = Len(txs)
           /\ u \in 1..Len(txs) /\ u \in Nat /\ DOMAIN txs = 1..Len(txs) /\ Len(txs) \in Nat
           /\ WalletOf(u)' = WalletOf(u) /\ TxRow(u)' = TxRow(u) /\ WalletOf(u) \in Wallets
           /\ txs'[u].snapshot = txs[u].snapshot
           /\ txs'[u].state = (IF u = t THEN state ELSE txs[u].state)
           /\ txs'[u].id = (IF u = t THEN id ELSE txs[u].id)
           /\ (u # t => (Executed(u)' <=> Executed(u)))
<1>1. DOMAIN txs = 1..Len(txs) /\ Len(txs) \in Nat /\ u \in Nat
  BY DEF ChainInv, PipelineTypeOK
<1>2. WalletOf(u) \in Wallets
  BY TxsTyped DEF ChainInv, PipelineTypeOK, WorkTypeOK
<1>3. txs'[u].snapshot = txs[u].snapshot
  BY DEF TxGoes
<1> QED
  BY <1>1, <1>2, <1>3 DEF TxGoes, WalletOf, TxRow, Executed

\* Executing gives the first pending transaction its wallet's next id.
LEMMA ExecuteKeepsIds ==
    ASSUME ChainInv, RegistryInv', NEW t \in DOMAIN txs, ExecuteTx(t)
    PROVE  IdsOfTxs' /\ txs[t].state = "pending"
<1>1. PICK w \in Wallets, latest \in Nat, new \in Nat :
         w = WalletOf(t) /\ latest = latestSnapshotId[w] /\ new = latest + 1
  <2>1. WalletOf(t) \in Wallets /\ latestSnapshotId \in [Wallets -> 0..MaxSnapshots]
    BY ExecuteIsRegistryStep DEF ChainInv, RegistryInv, TypeOK
  <2>2. latestSnapshotId[WalletOf(t)] \in Nat
    BY <2>1, RegistryAssumption
  <2> QED
    BY <2>1, <2>2
<1>2. /\ latestSnapshotId' = [latestSnapshotId EXCEPT ![w] = new]
      /\ latestSnapshotId \in [Wallets -> 0..MaxSnapshots]
      /\ << w, new >> \notin DOMAIN riskSnapshots
      /\ riskSnapshots'[<< w, new >>].reading = TxRow(t).reading
      /\ riskSnapshots'[<< w, new >>].sourceBlock = TxRow(t).sourceBlock
      /\ \A k \in DOMAIN riskSnapshots : riskSnapshots'[k] = riskSnapshots[k]
  <2>1. PICK r \in Readings, b \in 0..MaxHeight : r = TxRow(t).reading /\ b = TxRow(t).sourceBlock
    BY ExecuteIsRegistryStep
  <2>2. PublishRiskSnapshot(Publisher, w, r, b) /\ Publisher \in Principals /\ RegistryInv
    BY <1>1, <2>1, ExecuteIsRegistryStep DEF ChainInv
  <2>3. /\ << w, new >> \notin DOMAIN riskSnapshots
        /\ riskSnapshots'[<< w, new >>] =
              [reading |-> r, sourceBlock |-> b, publishedAt |-> stacksBlockHeight]
        /\ \A k \in DOMAIN riskSnapshots : riskSnapshots'[k] = riskSnapshots[k]
    BY <1>1, <2>2, PublishUsesNewId
  <2>4. latestSnapshotId' = [latestSnapshotId EXCEPT ![w] = new]
    BY <1>1, <2>2 DEF PublishRiskSnapshot, NextId
  <2>5. latestSnapshotId \in [Wallets -> 0..MaxSnapshots]
    BY <2>2 DEF RegistryInv, TypeOK
  <2> QED
    BY <2>1, <2>3, <2>4, <2>5
<1>3. latestSnapshotId'[w] = new /\ \A v \in Wallets : v # w => latestSnapshotId'[v] = latestSnapshotId[v]
  BY <1>2
<1>4. /\ TxGoes(t, "executed", new) /\ UNCHANGED snapshots
      /\ txs[t].state = "pending" /\ \A u \in 1..(t - 1) : txs[u].state # "pending"
  BY <1>1, <1>3, TxSteps DEF NextPending
<1>5. /\ DOMAIN txs' = DOMAIN txs /\ DOMAIN txs = 1..Len(txs) /\ t \in Nat /\ Len(txs) \in Nat
      /\ WalletOf(t)' = w /\ TxRow(t)' = TxRow(t)
      /\ Executed(t)' /\ txs'[t].id = new /\ txs'[t].state = "executed"
  BY <1>1, <1>4, TxGoesKeepsOthers DEF Executed
<1>6. \A u \in DOMAIN txs : u \in Nat /\ WalletOf(u)' = WalletOf(u) /\ TxRow(u)' = TxRow(u)
                                     /\ WalletOf(u) \in Wallets
  BY <1>4, TxGoesKeepsOthers
<1>7. \A u \in DOMAIN txs : u # t => txs'[u].state = txs[u].state /\ txs'[u].id = txs[u].id
                                       /\ (Executed(u)' <=> Executed(u))
  BY <1>4, TxGoesKeepsOthers
<1>8. \A u \in DOMAIN txs : Executed(u) =>
         /\ u < t /\ txs[u].id \in 1..latestSnapshotId[WalletOf(u)]
         /\ << WalletOf(u), txs[u].id >> \in DOMAIN riskSnapshots
         /\ txs[u].id \in Nat \ {0} /\ txs[u].id <= latestSnapshotId[WalletOf(u)]
  <2> SUFFICES ASSUME NEW u \in DOMAIN txs, Executed(u)
               PROVE  /\ u < t /\ txs[u].id \in 1..latestSnapshotId[WalletOf(u)]
                      /\ << WalletOf(u), txs[u].id >> \in DOMAIN riskSnapshots
                      /\ txs[u].id \in Nat \ {0} /\ txs[u].id <= latestSnapshotId[WalletOf(u)]
    OBVIOUS
  <2>1. u # t
    BY <1>4 DEF Executed
  <2>2. ~(t < u)
    BY <1>4 DEF ChainInv, IdsOfTxs, NonceOrder, Executed
  <2>3. u < t
    BY <1>5, <1>6, <2>1, <2>2
  <2> QED
    BY <2>3, ExecutedIsStored
<1>9. NonceOrder'
  <2> SUFFICES ASSUME NEW a \in DOMAIN txs', NEW b \in DOMAIN txs', a < b, txs'[a].state = "pending"
               PROVE  txs'[b].state = "pending"
    BY DEF NonceOrder
  <2>1. a # t /\ txs[a].state = "pending" /\ a \in Nat /\ b \in Nat
    BY <1>5, <1>6, <1>7
  <2>2. txs[b].state = "pending"
    BY <1>5, <2>1 DEF ChainInv, IdsOfTxs, NonceOrder
  <2>3. b # t
    BY <1>4, <1>5, <2>1
  <2> QED
    BY <1>5, <1>7, <2>2, <2>3
<1>10. IdsOnChain'
  <2> SUFFICES ASSUME NEW u \in DOMAIN txs', Executed(u)'
               PROVE  /\ txs'[u].id \in 1..latestSnapshotId'[WalletOf(u)']
                      /\ riskSnapshots'[<< WalletOf(u)', txs'[u].id >>].reading = TxRow(u)'.reading
                      /\ riskSnapshots'[<< WalletOf(u)', txs'[u].id >>].sourceBlock = TxRow(u)'.sourceBlock
    BY DEF IdsOnChain
  <2>1. CASE u = t
    <3>1. new \in 1..new
      BY <1>1
    <3> QED
      BY <1>2, <1>3, <1>5, <2>1, <3>1
  <2>2. CASE u # t
    <3>1. /\ Executed(u) /\ txs'[u].id = txs[u].id
          /\ WalletOf(u)' = WalletOf(u) /\ TxRow(u)' = TxRow(u) /\ WalletOf(u) \in Wallets
      BY <1>5, <1>6, <1>7, <2>2
    <3>2. /\ riskSnapshots'[<< WalletOf(u), txs[u].id >>].reading = TxRow(u).reading
          /\ riskSnapshots'[<< WalletOf(u), txs[u].id >>].sourceBlock = TxRow(u).sourceBlock
      BY <1>2, <1>5, <1>8, <3>1 DEF ChainInv, IdsOfTxs, IdsOnChain
    <3>3. txs[u].id \in 1..latestSnapshotId'[WalletOf(u)]
      <4>1. latestSnapshotId'[WalletOf(u)] \in Nat
                /\ latestSnapshotId[WalletOf(u)] <= latestSnapshotId'[WalletOf(u)]
                /\ latestSnapshotId[WalletOf(u)] \in Nat
        <5>1. latestSnapshotId[WalletOf(u)] \in Nat
          BY <1>2, <3>1, RegistryAssumption
        <5>2. CASE WalletOf(u) = w
          BY <1>1, <1>3, <5>2
        <5>3. CASE WalletOf(u) # w
          BY <1>3, <3>1, <5>1, <5>3
        <5> QED
          BY <5>2, <5>3
      <4>2. txs[u].id \in Nat \ {0} /\ txs[u].id <= latestSnapshotId[WalletOf(u)]
        BY <1>5, <1>8, <3>1
      <4> QED
        BY <4>1, <4>2
    <3> QED
      BY <3>1, <3>2, <3>3
  <2> QED
    BY <2>1, <2>2
<1>11. IdsIncrease'
  <2> SUFFICES ASSUME NEW a \in DOMAIN txs', NEW b \in DOMAIN txs',
                      a < b, Executed(a)', Executed(b)', WalletOf(a)' = WalletOf(b)'
               PROVE  txs'[a].id < txs'[b].id
    BY DEF IdsIncrease
  <2>1. a \in DOMAIN txs /\ b \in DOMAIN txs /\ a \in Nat /\ b \in Nat /\ WalletOf(a) = WalletOf(b)
    BY <1>5, <1>6
  <2>2. a # t
    <3> SUFFICES ASSUME a = t PROVE FALSE
      OBVIOUS
    <3>1. b # t
      BY <2>1
    <3>2. Executed(b)
      BY <1>7, <2>1, <3>1
    <3>3. b < t
      BY <1>8, <2>1, <3>2
    <3> QED
      BY <1>5, <2>1, <3>3
  <2>3. Executed(a) /\ txs'[a].id = txs[a].id
    BY <1>7, <2>1, <2>2
  <2>4. CASE b = t
    <3>1. WalletOf(a) = w /\ txs'[b].id = latest + 1
      BY <1>1, <1>5, <2>1, <2>4
    <3>2. txs[a].id \in Nat /\ txs[a].id <= latest
      BY <1>1, <1>8, <2>1, <2>3, <3>1
    <3> QED
      BY <2>3, <3>1, <3>2
  <2>5. CASE b # t
    BY <1>7, <2>1, <2>3, <2>5 DEF ChainInv, IdsOfTxs, IdsIncrease
  <2> QED
    BY <2>4, <2>5
<1>12. IdsHaveTx'
  <2> SUFFICES ASSUME NEW v \in Wallets, NEW i \in 1..latestSnapshotId'[v]
               PROVE  \E u \in DOMAIN txs' : Executed(u)' /\ WalletOf(u)' = v /\ txs'[u].id = i
    BY DEF IdsHaveTx
  <2>1. CASE v = w /\ i = new
    BY <1>5, <2>1
  <2>2. CASE ~(v = w /\ i = new)
    <3>1. i \in 1..latestSnapshotId[v]
      BY <1>1, <1>3, <2>2
    <3>2. PICK u \in DOMAIN txs : Executed(u) /\ WalletOf(u) = v /\ txs[u].id = i
      BY <3>1 DEF ChainInv, IdsOfTxs, IdsHaveTx
    <3>3. u # t
      BY <1>4, <3>2 DEF Executed
    <3> QED
      BY <1>5, <1>6, <1>7, <3>2, <3>3
  <2> QED
    BY <2>1, <2>2
<1> QED
  BY <1>4, <1>9, <1>10, <1>11, <1>12 DEF IdsOfTxs

\* A transaction that fails had no id, and gets none.
LEMMA AbortKeepsIds ==
    ASSUME ChainInv, RegistryInv', NEW t \in DOMAIN txs, AbortTx(t)
    PROVE  IdsOfTxs' /\ txs[t].state = "pending"
<1>1. /\ TxGoes(t, "aborted", txs[t].id) /\ UNCHANGED snapshots
      /\ UNCHANGED << latestSnapshotId, riskSnapshots >>
      /\ txs[t].state = "pending" /\ \A u \in 1..(t - 1) : txs[u].state # "pending"
  BY TxSteps DEF NextPending, snapshotVars
<1>2. DOMAIN txs' = DOMAIN txs /\ DOMAIN txs = 1..Len(txs) /\ t \in Nat
  BY <1>1, TxGoesKeepsOthers
<1>3. \A u \in DOMAIN txs : /\ u \in Nat /\ WalletOf(u)' = WalletOf(u) /\ TxRow(u)' = TxRow(u)
                            /\ txs'[u].id = txs[u].id
                            /\ (u # t => txs'[u].state = txs[u].state)
  BY <1>1, TxGoesKeepsOthers
<1>4. txs'[t].state = "aborted"
  BY <1>1 DEF TxGoes
<1>5. \A u \in DOMAIN txs : Executed(u)' <=> Executed(u)
  BY <1>1, <1>2, <1>3, <1>4 DEF Executed
<1>6. NonceOrder'
  <2> SUFFICES ASSUME NEW a \in DOMAIN txs', NEW b \in DOMAIN txs', a < b, txs'[a].state = "pending"
               PROVE  txs'[b].state = "pending"
    BY DEF NonceOrder
  <2>1. a # t /\ txs[a].state = "pending" /\ a \in 1..Len(txs) /\ a \in Nat /\ b \in Nat
    BY <1>2, <1>3, <1>4
  <2>2. txs[b].state = "pending"
    BY <1>2, <2>1 DEF ChainInv, IdsOfTxs, NonceOrder
  <2>3. b # t
    BY <1>1, <1>2, <2>1
  <2> QED
    BY <1>2, <1>3, <2>2, <2>3
<1>7. IdsOnChain'
  BY <1>1, <1>2, <1>3, <1>5 DEF ChainInv, IdsOfTxs, IdsOnChain
<1>8. IdsIncrease'
  BY <1>2, <1>3, <1>5 DEF ChainInv, IdsOfTxs, IdsIncrease
<1>9. IdsHaveTx'
  BY <1>1, <1>2, <1>3, <1>5 DEF ChainInv, IdsOfTxs, IdsHaveTx
<1> QED
  BY <1>1, <1>6, <1>7, <1>8, <1>9 DEF IdsOfTxs

\* A reorganisation takes the latest id of one wallet back, and its transaction is the
\* first of those pending again.
LEMMA ReorganiseKeepsIds ==
    ASSUME ChainInv, RegistryInv', NEW t \in DOMAIN txs, Reorganise(t)
    PROVE  IdsOfTxs'
<1>1. PICK w \in Wallets, latest \in Nat : w = WalletOf(t) /\ latest = latestSnapshotId[w]
  <2>1. WalletOf(t) \in Wallets
    BY TxsTyped DEF ChainInv, PipelineTypeOK, WorkTypeOK
  <2>2. latestSnapshotId \in [Wallets -> 0..MaxSnapshots]
    BY DEF ChainInv, PipelineTypeOK, TypeOK
  <2>3. latestSnapshotId[WalletOf(t)] \in Nat
    BY <2>1, <2>2, RegistryAssumption
  <2> QED
    BY <2>1, <2>3
<1>2. /\ Executed(t) /\ \A u \in (t + 1)..Len(txs) : txs[u].state = "pending"
      /\ txs[t].id = latest /\ latest # 0
      /\ latestSnapshotId' = [latestSnapshotId EXCEPT ![w] = latest - 1]
      /\ DOMAIN riskSnapshots' = DOMAIN riskSnapshots \ {<< w, latest >>}
      /\ \A k \in DOMAIN riskSnapshots' : riskSnapshots'[k] = riskSnapshots[k]
  <2>1. latestSnapshotId[WalletOf(t)] \in 1..MaxSnapshots
    BY ReorganisedContract
  <2>2. latest # 0
    BY <1>1, <2>1
  <2> QED
    BY <1>1, <2>2, ReorganisedContract
<1>3. latestSnapshotId \in [Wallets -> 0..MaxSnapshots]
  BY DEF ChainInv, PipelineTypeOK, TypeOK
<1>4. latestSnapshotId'[w] = latest - 1 /\ \A v \in Wallets : v # w => latestSnapshotId'[v] = latestSnapshotId[v]
  BY <1>2, <1>3
<1>5. TxGoes(t, "pending", 0) /\ UNCHANGED snapshots
  BY TxSteps
<1>6. DOMAIN txs' = DOMAIN txs /\ DOMAIN txs = 1..Len(txs) /\ t \in Nat /\ Len(txs) \in Nat
  BY <1>5, TxGoesKeepsOthers
<1>7. \A u \in DOMAIN txs : u \in Nat /\ WalletOf(u)' = WalletOf(u) /\ TxRow(u)' = TxRow(u)
                                     /\ WalletOf(u) \in Wallets
  BY <1>5, TxGoesKeepsOthers
<1>8. \A u \in DOMAIN txs : u # t => txs'[u].state = txs[u].state /\ txs'[u].id = txs[u].id
                                       /\ (Executed(u)' <=> Executed(u))
  BY <1>5, TxGoesKeepsOthers
<1>9. ~(Executed(t)') /\ txs'[t].state = "pending"
  BY <1>5 DEF Executed, TxGoes
<1>10. ASSUME NEW u \in DOMAIN txs, Executed(u)'
       PROVE  /\ u # t /\ Executed(u) /\ u < t /\ txs'[u].id = txs[u].id
              /\ txs[u].id \in Nat \ {0} /\ txs[u].id <= latestSnapshotId[WalletOf(u)]
              /\ << WalletOf(u), txs[u].id >> \in DOMAIN riskSnapshots
              /\ (WalletOf(u) = w => txs[u].id < latest)
  <2>1. u # t /\ Executed(u) /\ txs'[u].id = txs[u].id
    BY <1>8, <1>9, <1>10
  <2>2. ~(t < u)
    BY <1>2, <1>6, <2>1 DEF Executed
  <2>3. u < t
    BY <1>6, <1>7, <2>1, <2>2
  <2>4. WalletOf(u) = w => txs[u].id < latest
    BY <1>1, <1>2, <2>1, <2>3 DEF ChainInv, IdsOfTxs, IdsIncrease
  <2> QED
    BY <2>1, <2>3, <2>4, ExecutedIsStored
<1>11. NonceOrder'
  <2> SUFFICES ASSUME NEW a \in DOMAIN txs', NEW b \in DOMAIN txs', a < b, txs'[a].state = "pending"
               PROVE  txs'[b].state = "pending"
    BY DEF NonceOrder
  <2>1. a \in DOMAIN txs /\ b \in DOMAIN txs /\ b \in 1..Len(txs) /\ a \in Nat /\ b \in Nat
    BY <1>6, <1>7
  <2>2. CASE a = t
    <3>1. txs[b].state = "pending" /\ b # t
      BY <1>2, <1>6, <2>1, <2>2
    <3> QED
      BY <1>8, <2>1, <3>1
  <2>3. CASE a # t
    <3>1. txs[b].state = "pending"
      BY <1>8, <2>1, <2>3 DEF ChainInv, IdsOfTxs, NonceOrder
    <3>2. b # t
      BY <1>2, <3>1 DEF Executed
    <3> QED
      BY <1>8, <2>1, <3>1, <3>2
  <2> QED
    BY <2>2, <2>3
<1>12. IdsOnChain'
  <2> SUFFICES ASSUME NEW u \in DOMAIN txs, Executed(u)'
               PROVE  /\ txs'[u].id \in 1..latestSnapshotId'[WalletOf(u)']
                      /\ riskSnapshots'[<< WalletOf(u)', txs'[u].id >>].reading = TxRow(u)'.reading
                      /\ riskSnapshots'[<< WalletOf(u)', txs'[u].id >>].sourceBlock = TxRow(u)'.sourceBlock
    BY <1>6 DEF IdsOnChain
  <2>1. /\ Executed(u) /\ txs'[u].id = txs[u].id /\ WalletOf(u)' = WalletOf(u) /\ TxRow(u)' = TxRow(u)
        /\ WalletOf(u) \in Wallets
    BY <1>7, <1>10
  <2>2. << WalletOf(u), txs[u].id >> \in DOMAIN riskSnapshots'
    <3>1. << WalletOf(u), txs[u].id >> \in DOMAIN riskSnapshots
      BY <1>10
    <3>2. WalletOf(u) = w => txs[u].id # latest
      <4>1. WalletOf(u) = w => txs[u].id \in Nat /\ txs[u].id < latest
        BY <1>10
      <4> QED
        BY <1>1, <4>1
    <3> QED
      BY <1>2, <3>1, <3>2
  <2>3. txs[u].id \in 1..latestSnapshotId'[WalletOf(u)]
    <3>1. txs[u].id \in Nat \ {0} /\ txs[u].id <= latestSnapshotId[WalletOf(u)]
      BY <1>10
    <3>2. CASE WalletOf(u) = w
      <4>1. txs[u].id < latest
        BY <1>10, <3>2
      <4> QED
        BY <1>1, <1>4, <3>1, <3>2, <4>1
    <3>3. CASE WalletOf(u) # w
      <4>1. latestSnapshotId[WalletOf(u)] \in Nat
        BY <1>3, <2>1, RegistryAssumption
      <4> QED
        BY <1>4, <2>1, <3>1, <3>3, <4>1
    <3> QED
      BY <3>2, <3>3
  <2> QED
    BY <1>2, <2>1, <2>2, <2>3 DEF ChainInv, IdsOfTxs, IdsOnChain
<1>13. IdsIncrease'
  <2> SUFFICES ASSUME NEW a \in DOMAIN txs, NEW b \in DOMAIN txs,
                      a < b, Executed(a)', Executed(b)', WalletOf(a)' = WalletOf(b)'
               PROVE  txs'[a].id < txs'[b].id
    BY <1>6 DEF IdsIncrease
  <2>1. /\ Executed(a) /\ Executed(b) /\ WalletOf(a) = WalletOf(b)
        /\ txs'[a].id = txs[a].id /\ txs'[b].id = txs[b].id
    BY <1>7, <1>10
  <2> QED
    BY <2>1 DEF ChainInv, IdsOfTxs, IdsIncrease
<1>14. IdsHaveTx'
  <2> SUFFICES ASSUME NEW v \in Wallets, NEW i \in 1..latestSnapshotId'[v]
               PROVE  \E u \in DOMAIN txs : Executed(u)' /\ WalletOf(u)' = v /\ txs'[u].id = i
    BY <1>6 DEF IdsHaveTx
  <2>1. i \in 1..latestSnapshotId[v] /\ ~(v = w /\ i = latest)
    <3>1. CASE v = w
      BY <1>1, <1>4, <3>1
    <3>2. CASE v # w
      BY <1>4, <3>2
    <3> QED
      BY <3>1, <3>2
  <2>2. PICK u \in DOMAIN txs : Executed(u) /\ WalletOf(u) = v /\ txs[u].id = i
    BY <2>1 DEF ChainInv, IdsOfTxs, IdsHaveTx
  <2>3. u # t
    BY <1>1, <1>2, <2>1, <2>2
  <2> QED
    BY <1>7, <1>8, <2>2, <2>3
<1> QED
  BY <1>11, <1>12, <1>13, <1>14 DEF IdsOfTxs

\* The first layer of the invariant holds to begin with,
LEMMA InitChainInv ==
    ASSUME Init
    PROVE  ChainInv
<1>1. PipelineTypeOK
  BY RegistryAssumption, PipelineAssumption DEF Init, DeployedWith, PipelineTypeOK, TypeOK
<1>2. RegistryInv
  BY RegistryAssumption, PipelineAssumption DEF Init, DeployedWith, RegistryInv, PipelineTypeOK, TypeOK,
     IdsContiguous, HeightsOrdered, PublicationOrdered, StoredReadingsInRange, NominationIsCurrent, SnapshotKeys
<1>3. AttemptsLeft /\ NonceOrder /\ IdsOnChain /\ IdsIncrease
  BY DEF Init, AttemptsLeft, LeftIn, NonceOrder, IdsOnChain, IdsIncrease
<1>4. IdsHaveTx
  BY DEF Init, DeployedWith, IdsHaveTx
<1> QED
  BY <1>1, <1>2, <1>3, <1>4 DEF ChainInv, IdsOfTxs

\* and every step keeps it.
LEMMA StepKeepsChainInv ==
    ASSUME ChainInv, [Next]_vars
    PROVE  ChainInv'
<1>1. RegistryInv' /\ WorkOK'
  BY StepKeepsRegistry, StepKeepsWork
<1>2. PipelineTypeOK' /\ AttemptsLeft'
  BY <1>1 DEF WorkOK, WorkTypeOK, PipelineTypeOK, RegistryInv
<1>3. IdsOfTxs'
  <2>1. CASE \E t \in DOMAIN txs : ExecuteTx(t) \/ AbortTx(t) \/ Reorganise(t)
    BY <1>1, <2>1, ExecuteKeepsIds, AbortKeepsIds, ReorganiseKeepsIds
  <2>2. CASE ~(\E t \in DOMAIN txs : ExecuteTx(t) \/ AbortTx(t) \/ Reorganise(t))
    <3>1. DOMAIN txs' \subseteq Nat
      BY <1>2 DEF PipelineTypeOK
    <3> QED
      BY <2>2, <3>1, OffChainSteps, OffChainKeepsIds
  <2> QED
    BY <2>1, <2>2
<1> QED
  BY <1>1, <1>2, <1>3 DEF ChainInv

-----------------------------------------------------------------------------
(* Jobs, rows and transactions, step by step.                              *)

\* A transaction stays one for the row it was broadcast for.
TxRowsKept ==
    /\ DOMAIN txs \subseteq DOMAIN txs'
    /\ \A t \in DOMAIN txs : txs'[t].snapshot = txs[t].snapshot

\* A row's transaction does not change.
RowTxsKept ==
    /\ DOMAIN snapshots \subseteq DOMAIN snapshots'
    /\ \A s \in DOMAIN snapshots : snapshots'[s].onchainTxId = snapshots[s].onchainTxId

\* New rows are blank, and a row without a transaction gets no id.
BlankRowsKept ==
    \A s \in DOMAIN snapshots' :
        IF s \in DOMAIN snapshots
        THEN snapshots[s].onchainTxId = 0 /\ snapshots[s].onchainSnapshotId = 0
                => snapshots'[s].onchainSnapshotId = 0
        ELSE snapshots'[s].onchainTxId = 0 /\ snapshots'[s].onchainSnapshotId = 0

\* No step takes a transaction away or gives it another row.
LEMMA StepKeepsTxRows ==
    ASSUME ChainInv, [Next]_vars
    PROVE  TxRowsKept
<1>1. CASE ~(\E t \in DOMAIN txs : ExecuteTx(t) \/ AbortTx(t) \/ Reorganise(t))
  BY <1>1, OffChainSteps DEF TxsKept, TxRowsKept
<1>2. ASSUME NEW t \in DOMAIN txs, ExecuteTx(t) \/ AbortTx(t) \/ Reorganise(t)
      PROVE  TxRowsKept
  <2>1. \E state, id : TxGoes(t, state, id)
    BY <1>2, StepKeepsRegistry, TxSteps
  <2> QED
    BY <2>1 DEF TxGoes, TxRowsKept
<1> QED
  BY <1>1, <1>2

\* A job that does not change stays right while rows and transactions stay tied.
LEMMA JobStaysOK ==
    ASSUME ChainInv, JobsOK, TxRowsKept, RowTxsKept,
           NEW k \in DOMAIN attestJobs, attestJobs'[k] = attestJobs[k]
    PROVE  JobHoldsRow(attestJobs[k])' /\ JobForgetsTx(attestJobs[k])'
<1>1. /\ attestJobs[k].snapshot \in DOMAIN snapshots
      /\ (attestJobs[k].tx # 0 => attestJobs[k].tx \in DOMAIN txs)
  BY JobsTyped DEF ChainInv, PipelineTypeOK, WorkTypeOK
<1>2. JobHoldsRow(attestJobs[k]) /\ JobForgetsTx(attestJobs[k])
  BY DEF JobsOK
<1> QED
  BY <1>1, <1>2 DEF JobHoldsRow, JobForgetsTx, TxRowsKept, RowTxsKept

\* Rows stay right while no row gets a transaction.
LEMMA RowsStayOK ==
    ASSUME ChainInv, RowsOK, TxRowsKept, RowTxsKept, BlankRowsKept
    PROVE  RowsOK'
<1> SUFFICES ASSUME NEW s \in DOMAIN snapshots'
             PROVE  IF snapshots'[s].onchainTxId = 0
                    THEN snapshots'[s].onchainSnapshotId = 0
                    ELSE txs'[snapshots'[s].onchainTxId].snapshot = s
  BY DEF RowsOK
<1>1. CASE s \notin DOMAIN snapshots
  BY <1>1 DEF BlankRowsKept
<1>2. CASE s \in DOMAIN snapshots
  <2>1. snapshots[s].onchainTxId # 0 => snapshots[s].onchainTxId \in DOMAIN txs
    BY <1>2, RowsTyped DEF ChainInv, PipelineTypeOK, WorkTypeOK
  <2> QED
    BY <1>2, <2>1 DEF RowsOK, TxRowsKept, RowTxsKept, BlankRowsKept
<1> QED
  BY <1>1, <1>2

\* When no job changes, or only jobs that have not begun are added.
LEMMA JobsStayOK ==
    ASSUME ChainInv, RecordInv, TxRowsKept, RowTxsKept, BlankRowsKept,
           DOMAIN attestJobs \subseteq DOMAIN attestJobs',
           \A k \in DOMAIN attestJobs : attestJobs'[k] = attestJobs[k],
           \A k \in DOMAIN attestJobs' \ DOMAIN attestJobs :
              attestJobs'[k].state = "waiting" /\ attestJobs'[k].tx = 0
    PROVE  RecordInv'
<1>1. RowsOK'
  BY RowsStayOK DEF RecordInv
<1>2. OneAttestation'
  BY DEF RecordInv, OneAttestation
<1>3. ASSUME NEW k \in DOMAIN attestJobs' PROVE JobHoldsRow(attestJobs[k])' /\ JobForgetsTx(attestJobs[k])'
  <2>1. CASE k \in DOMAIN attestJobs
    BY <2>1, JobStaysOK DEF RecordInv
  <2>2. CASE k \notin DOMAIN attestJobs
    BY <2>2 DEF JobHoldsRow, JobForgetsTx
  <2> QED
    BY <2>1, <2>2
<1>4. JobsOK'
  BY <1>3 DEF JobsOK
<1> QED
  BY <1>1, <1>2, <1>4 DEF RecordInv

\* When one job goes on, which is right afterwards and, if it is in hand then, is the
\* only one.
LEMMA JobGoesOK ==
    ASSUME ChainInv, RecordInv, TxRowsKept, UNCHANGED snapshots,
           NEW j \in DOMAIN attestJobs, NEW state, NEW tx, NEW attempts,
           JobGoes(j, state, tx, attempts),
           (state = "active" => \A k \in DOMAIN attestJobs : k # j => attestJobs[k].state # "active"),
           (state \in {"waiting", "delayed"} => tx = 0),
           (state = "active" => /\ snapshots[attestJobs[j].snapshot].onchainTxId = 0
                                /\ (tx # 0 => txs'[tx].snapshot = attestJobs[j].snapshot))
    PROVE  RecordInv'
<1>1. RowTxsKept /\ BlankRowsKept
  BY DEF RowTxsKept, BlankRowsKept
<1>2. RowsOK'
  BY <1>1, RowsStayOK DEF RecordInv
<1>3. OneAttestation'
  BY DEF RecordInv, OneAttestation, JobGoes
<1>4. ASSUME NEW k \in DOMAIN attestJobs' PROVE JobHoldsRow(attestJobs[k])' /\ JobForgetsTx(attestJobs[k])'
  <2>1. k \in DOMAIN attestJobs
    BY DEF JobGoes
  <2>2. CASE k = j
    BY <2>2 DEF JobHoldsRow, JobForgetsTx, JobGoes
  <2>3. CASE k # j
    BY <1>1, <2>1, <2>3, JobStaysOK DEF RecordInv, JobGoes
  <2> QED
    BY <2>2, <2>3
<1>5. JobsOK'
  BY <1>4 DEF JobsOK
<1> QED
  BY <1>2, <1>3, <1>5 DEF RecordInv

\* A row that a job marks had neither a transaction nor an id.
LEMMA MarkedRowIsBlank ==
    ASSUME ChainInv, RecordInv, NEW j \in DOMAIN attestJobs, MarkPublished(j)
    PROVE  /\ snapshots[attestJobs[j].snapshot].onchainTxId = 0
           /\ snapshots[attestJobs[j].snapshot].onchainSnapshotId = 0
           /\ txs[attestJobs[j].tx].snapshot = attestJobs[j].snapshot
<1>1. PICK s : s = attestJobs[j].snapshot
  OBVIOUS
<1>2. /\ s \in DOMAIN snapshots /\ attestJobs[j].state = "active" /\ attestJobs[j].tx # 0
      /\ snapshots[s].onchainTxId # attestJobs[j].tx
  BY <1>1, MarkSetsTx DEF MarkPublished
<1>3. snapshots[s].onchainTxId = 0 /\ txs[attestJobs[j].tx].snapshot = s
  BY <1>1, <1>2 DEF RecordInv, JobsOK, JobHoldsRow
<1> QED
  BY <1>1, <1>2, <1>3 DEF RecordInv, RowsOK

\* Recording a transaction completes the tie between row and transaction.
LEMMA MarkKeepsRecord ==
    ASSUME ChainInv, RecordInv, NEW j \in DOMAIN attestJobs, MarkPublished(j)
    PROVE  RecordInv'
<1>1. PICK s : s = attestJobs[j].snapshot
  OBVIOUS
<1>2. PICK t : t = attestJobs[j].tx
  OBVIOUS
<1>3. /\ s \in DOMAIN snapshots /\ DOMAIN snapshots' = DOMAIN snapshots
      /\ attestJobs[j].state = "active" /\ t \in DOMAIN txs
      /\ snapshots'[s].onchainTxId = t
      /\ \A q \in DOMAIN snapshots : q # s => snapshots'[q] = snapshots[q]
      /\ UNCHANGED << attestJobs, txs >>
  BY <1>1, <1>2, MarkSetsTx
<1>4. txs[t].snapshot = s /\ t # 0
  BY <1>1, <1>2, MarkedRowIsBlank DEF MarkPublished
<1>5. OneAttestation'
  BY <1>3 DEF RecordInv, OneAttestation
<1>6. RowsOK'
  BY <1>3, <1>4 DEF RecordInv, RowsOK
<1>7. ASSUME NEW k \in DOMAIN attestJobs PROVE JobHoldsRow(attestJobs[k])' /\ JobForgetsTx(attestJobs[k])'
  <2>1. JobForgetsTx(attestJobs[k])'
    BY <1>3 DEF RecordInv, JobsOK, JobForgetsTx
  <2>2. CASE k = j
    BY <1>1, <1>2, <1>3, <1>4, <2>1, <2>2 DEF JobHoldsRow
  <2>3. CASE k # j
    <3>1. attestJobs[k].state # "active"
      BY <1>3, <2>3 DEF RecordInv, OneAttestation
    <3> QED
      BY <1>3, <2>1, <3>1 DEF JobHoldsRow
  <2> QED
    BY <2>2, <2>3
<1>8. JobsOK'
  BY <1>3, <1>7 DEF JobsOK
<1> QED
  BY <1>5, <1>6, <1>8 DEF RecordInv

\* The steps of the attestation worker.
LEMMA AttestStepsKeepRecord ==
    ASSUME ChainInv, RecordInv, TxRowsKept, NEW j \in DOMAIN attestJobs,
           AttestStep(j) \/ PublishThrows(j) \/ CrashAttestation(j)
    PROVE  RecordInv'
<1>1. JobHoldsRow(attestJobs[j]) /\ JobForgetsTx(attestJobs[j]) /\ OneAttestation
  BY DEF RecordInv, JobsOK
<1>2. CASE FinishWithoutPublishing(j) \/ CompleteAttestation(j)
  <2>1. JobGoes(j, "done", attestJobs[j].tx, attestJobs[j].attempts) /\ UNCHANGED snapshots
    BY <1>2, AttestActions DEF FinishWithoutPublishing, CompleteAttestation
  <2> QED
    BY <2>1, JobGoesOK
<1>3. CASE DecideToPublish(j)
  <2>1. /\ JobGoes(j, "active", attestJobs[j].tx, attestJobs[j].attempts) /\ UNCHANGED snapshots
        /\ \A k \in DOMAIN attestJobs : attestJobs[k].state # "active"
        /\ attestJobs[j].state \in {"waiting", "delayed"}
        /\ snapshots[attestJobs[j].snapshot].onchainTxId = 0
    BY <1>3, AttestActions DEF DecideToPublish
  <2>2. attestJobs[j].tx = 0
    BY <1>1, <2>1 DEF JobForgetsTx
  <2> QED
    BY <2>1, <2>2, JobGoesOK
<1>4. CASE Broadcast(j)
  <2>1. PICK t : t = Len(txs) + 1
    OBVIOUS
  <2>2. /\ txs'[t].snapshot = attestJobs[j].snapshot /\ UNCHANGED snapshots
        /\ attestJobs[j].state = "active" /\ attestJobs[j].tx = 0
    BY <1>4, <2>1, BroadcastAddsTx
  <2>3. JobGoes(j, "active", t, attestJobs[j].attempts)
    BY <1>4, <2>1, AttestActions
  <2>4. snapshots[attestJobs[j].snapshot].onchainTxId = 0
    BY <1>1, <2>2 DEF JobHoldsRow
  <2>5. \A k \in DOMAIN attestJobs : k # j => attestJobs[k].state # "active"
    BY <1>1, <2>2 DEF OneAttestation
  <2> QED
    BY <2>2, <2>3, <2>4, <2>5, JobGoesOK
<1>5. CASE RefuseReading(j) \/ PublishThrows(j)
  <2>1. PICK state \in {"delayed", "failed"} : JobGoes(j, state, 0, attestJobs[j].attempts + 1)
    BY <1>5, AttestActions
  <2>2. UNCHANGED snapshots
    BY <1>5 DEF RefuseReading, PublishThrows
  <2> QED
    BY <2>1, <2>2, JobGoesOK
<1>6. CASE CrashAttestation(j)
  <2>1. JobGoes(j, "waiting", 0, attestJobs[j].attempts) /\ UNCHANGED snapshots
    BY <1>6, AttestActions DEF CrashAttestation
  <2> QED
    BY <2>1, JobGoesOK
<1>7. CASE MarkPublished(j)
  BY <1>7, MarkKeepsRecord
<1> QED
  BY <1>2, <1>3, <1>4, <1>5, <1>6, <1>7 DEF AttestStep

\* The steps of the risk worker.
LEMMA RiskStepsKeepRecord ==
    ASSUME ChainInv, RecordInv, TxRowsKept, NEW i \in DOMAIN riskJobs, RiskStep(i) \/ RiskThrows(i)
    PROVE  RecordInv'
<1>1. ASSUME NEW r \in Readings, PersistSnapshot(i, r) PROVE RecordInv'
  <2>1. RowTxsKept /\ BlankRowsKept /\ UNCHANGED attestJobs
    BY <1>1, PersistAddsRow DEF RowTxsKept, BlankRowsKept
  <2> QED
    BY <2>1, JobsStayOK
<1>2. CASE StartRisk(i) \/ RiskThrows(i)
  <2>1. UNCHANGED << snapshots, attestJobs >>
    BY <1>2 DEF StartRisk, RiskThrows
  <2> QED
    BY <2>1, JobsStayOK DEF RowTxsKept, BlankRowsKept
<1>3. CASE EnqueueAttestation(i)
  <2> DEFINE new == AttestJob(riskJobs[i].snapshot)
  <2>1. attestJobs' = Append(attestJobs, new) /\ UNCHANGED snapshots
    BY <1>3 DEF EnqueueAttestation
  <2>2. new.state = "waiting" /\ new.tx = 0
    BY DEF AttestJob
  <2>3. attestJobs \in Seq(AttestJobRecord)
    BY DEF ChainInv, PipelineTypeOK
  <2>4. attestJobs \in Seq(AttestJobRecord \cup {new})
    BY <2>3, SeqGrows
  <2> HIDE DEF new
  <2>5. /\ DOMAIN attestJobs' = DOMAIN attestJobs \cup {Len(attestJobs) + 1}
        /\ attestJobs'[Len(attestJobs) + 1] = new
        /\ \A k \in DOMAIN attestJobs : attestJobs'[k] = attestJobs[k]
    BY <2>1, <2>4, Appended
  <2>6. RowTxsKept /\ BlankRowsKept
    BY <2>1 DEF RowTxsKept, BlankRowsKept
  <2> QED
    BY <2>2, <2>5, <2>6, JobsStayOK
<1> QED
  BY <1>1, <1>2, <1>3 DEF RiskStep

\* A payload gives no id to a row without a transaction: no event is about transaction 0.
LEMMA PayloadKeepsBlank ==
    ASSUME ChainInv, NEW n \in DOMAIN hook, ConfirmAttestations(n) \/ RepeatPayload(n)
    PROVE  RowTxsKept /\ BlankRowsKept
<1>1. WorkTypeOK
  BY DEF ChainInv, PipelineTypeOK, WorkTypeOK
<1>2. DOMAIN snapshots' = DOMAIN snapshots
  BY PayloadSteps
<1>3. ASSUME NEW s \in DOMAIN snapshots
      PROVE  /\ snapshots'[s].onchainTxId = snapshots[s].onchainTxId
             /\ (snapshots[s].onchainTxId = 0 /\ snapshots[s].onchainSnapshotId = 0
                    => snapshots'[s].onchainSnapshotId = 0)
  <2>1. PICK new \in 0..MaxSnapshots :
           /\ snapshots'[s] = [snapshots[s] EXCEPT !.onchainSnapshotId = new]
           /\ NewId(n, snapshots[s].onchainTxId, snapshots[s].onchainSnapshotId, new)
    BY PayloadSteps
  <2>2. snapshots[s] \in SnapshotRow
    BY <1>1, RowsTyped
  <2>3. snapshots'[s].onchainTxId = snapshots[s].onchainTxId /\ snapshots'[s].onchainSnapshotId = new
    BY <2>1, <2>2 DEF SnapshotRow
  <2>4. \A k \in 1..n : hook[k].tx # 0
    <3>1. 1..n \subseteq DOMAIN hook
      BY <1>1 DEF WorkTypeOK
    <3>2. 0 \notin DOMAIN txs
      BY <1>1 DEF WorkTypeOK
    <3> QED
      BY <1>1, <3>1, <3>2, HookTyped
  <2> QED
    BY <2>1, <2>3, <2>4 DEF NewId
<1> QED
  BY <1>2, <1>3 DEF RowTxsKept, BlankRowsKept

\* The second layer holds to begin with, and every step keeps it.
LEMMA InitRecordInv ==
    ASSUME Init
    PROVE  RecordInv
  BY DEF Init, RecordInv, OneAttestation, JobsOK, RowsOK

\* Every step keeps the tie of jobs, rows and transactions.
LEMMA StepKeepsRecordInv ==
    ASSUME ChainInv, RecordInv, [Next]_vars
    PROVE  RecordInv'
<1>1. TxRowsKept
  BY StepKeepsTxRows
<1>2. CASE UNCHANGED << snapshots, attestJobs >>
  BY <1>1, <1>2, JobsStayOK DEF RowTxsKept, BlankRowsKept
<1>3. CASE UNCHANGED vars \/ Revoke \/ Authorise \/ NewBlock \/ \E w \in Wallets : RequestRisk(w)
  BY <1>2, <1>3 DEF vars, workVars, Revoke, Authorise, NewBlock, RequestRisk
<1>4. CASE \E i \in DOMAIN riskJobs : RiskStep(i) \/ RiskThrows(i)
  BY <1>1, <1>4, RiskStepsKeepRecord
<1>5. CASE \E j \in DOMAIN attestJobs : AttestStep(j) \/ PublishThrows(j) \/ CrashAttestation(j)
  BY <1>1, <1>5, AttestStepsKeepRecord
<1>6. CASE \E t \in DOMAIN txs : ExecuteTx(t) \/ AbortTx(t) \/ Reorganise(t)
  <2>1. UNCHANGED << snapshots, attestJobs >>
    BY <1>6 DEF ExecuteTx, AbortTx, Reorganise
  <2> QED
    BY <1>2, <2>1
<1>7. CASE \E n \in DOMAIN hook : ConfirmAttestations(n) \/ RepeatPayload(n)
  <2>1. RowTxsKept /\ BlankRowsKept /\ UNCHANGED attestJobs
    BY <1>7, PayloadKeepsBlank, PayloadSteps
  <2> QED
    BY <1>1, <2>1, JobsStayOK
<1> QED
  BY <1>3, <1>4, <1>5, <1>6, <1>7 DEF Next

-----------------------------------------------------------------------------
(* Chainhook's reports, step by step.                                      *)

\* A row with an id had that id of that transaction before the step.
IdsStay ==
    \A s \in DOMAIN snapshots' :
        \/ snapshots'[s].onchainSnapshotId = 0
        \/ /\ s \in DOMAIN snapshots
           /\ snapshots'[s].onchainTxId = snapshots[s].onchainTxId
           /\ snapshots'[s].onchainSnapshotId = snapshots[s].onchainSnapshotId

\* Reports are about transactions, and numbered from 1.
LEMMA HookDomain ==
    ASSUME ChainInv
    PROVE  DOMAIN hook = 1..Len(hook) /\ Len(hook) \in Nat /\ hook \in Seq(HookEvent)
  BY DEF ChainInv, PipelineTypeOK

\* Steps that report nothing and execute nothing.
LEMMA QuietStepKeepsEvents ==
    ASSUME ChainInv, EventInv, TxsKept, UNCHANGED hook, IdsStay
    PROVE  EventInv'
<1>1. \A t \in DOMAIN txs : txs'[t] = txs[t] /\ t \in DOMAIN txs' /\ (Executed(t) => Executed(t)')
  BY DEF TxsKept, Executed
<1>2. \A k \in DOMAIN hook : hook[k].tx \in DOMAIN txs
  BY HookTyped DEF ChainInv, PipelineTypeOK, WorkTypeOK
<1>3. EventsOK'
  BY <1>1, <1>2 DEF EventInv, EventsOK, LastMention
<1>4. RowsConfirmed'
  <2> SUFFICES ASSUME NEW s \in DOMAIN snapshots', snapshots'[s].onchainSnapshotId # 0,
                      \A k \in DOMAIN hook' : hook'[k].tx # snapshots'[s].onchainTxId
               PROVE  /\ Executed(snapshots[s].onchainTxId)'
                      /\ txs'[snapshots'[s].onchainTxId].id = snapshots'[s].onchainSnapshotId
    BY DEF RowsConfirmed
  <2>1. /\ s \in DOMAIN snapshots
        /\ snapshots'[s].onchainTxId = snapshots[s].onchainTxId
        /\ snapshots'[s].onchainSnapshotId = snapshots[s].onchainSnapshotId
    BY DEF IdsStay
  <2>2. /\ Executed(snapshots[s].onchainTxId)
        /\ txs[snapshots[s].onchainTxId].id = snapshots[s].onchainSnapshotId
    BY <2>1 DEF EventInv, RowsConfirmed
  <2> QED
    BY <2>1, <2>2 DEF TxsKept, Executed
<1> QED
  BY <1>3, <1>4 DEF EventInv

\* A transaction that is executed or orphaned is reported last.
LEMMA ReportKeepsEvents ==
    ASSUME ChainInv, EventInv, NEW t \in DOMAIN txs, NEW state, NEW id, TxGoes(t, state, id),
           NEW kind, Reported(kind, t, id), UNCHANGED snapshots,
           (kind = "apply" => state = "executed")
    PROVE  EventInv'
<1>1. PICK n : n = Len(hook) + 1
  OBVIOUS
<1>2. /\ DOMAIN hook' = DOMAIN hook \cup {n} /\ \A k \in DOMAIN hook : hook'[k] = hook[k] /\ k < n
      /\ hook'[n].kind = kind /\ hook'[n].tx = t /\ hook'[n].id = id /\ n \in Nat
  <2>1. \A k \in DOMAIN hook : k < Len(hook) + 1
    BY HookDomain
  <2>2. Len(hook) + 1 \in Nat
    BY HookDomain
  <2> QED
    BY <1>1, <2>1, <2>2 DEF Reported
<1>3. \A u \in DOMAIN txs : /\ u \in DOMAIN txs'
                            /\ (u # t => txs'[u].id = txs[u].id /\ (Executed(u)' <=> Executed(u)))
  BY TxGoesKeepsOthers
<1>4. t \in DOMAIN txs' /\ txs'[t].state = state /\ txs'[t].id = id
  BY DEF TxGoes
<1>5. EventsOK'
  <2> SUFFICES ASSUME NEW k \in DOMAIN hook', LastMention(k)', hook'[k].kind = "apply"
               PROVE  Executed(hook[k].tx)' /\ txs'[hook'[k].tx].id = hook'[k].id
    BY DEF EventsOK
  <2>1. CASE k = n
    BY <1>2, <1>4, <2>1 DEF Executed
  <2>2. CASE k # n
    <3>1. k \in DOMAIN hook /\ hook'[k] = hook[k] /\ k < n /\ k \in Nat
      BY <1>2, <2>2, HookDomain
    <3>2. hook[k].tx # t
      <4>1. ~(n <= k)
        BY <1>2, <3>1
      <4> QED
        BY <1>2, <3>1, <4>1 DEF LastMention
    <3>3. LastMention(k)
      BY <1>2, <3>1 DEF LastMention
    <3>4. Executed(hook[k].tx) /\ txs[hook[k].tx].id = hook[k].id
      BY <3>1, <3>3 DEF EventInv, EventsOK
    <3>5. hook[k].tx \in DOMAIN txs
      BY <3>4 DEF Executed
    <3>6. Executed(hook[k].tx)'
      BY <1>3, <3>1, <3>2, <3>4, <3>5 DEF Executed
    <3> QED
      BY <1>3, <3>1, <3>2, <3>4, <3>5, <3>6
  <2> QED
    BY <2>1, <2>2
<1>6. RowsConfirmed'
  <2> SUFFICES ASSUME NEW s \in DOMAIN snapshots, snapshots[s].onchainSnapshotId # 0,
                      \A k \in DOMAIN hook' : hook'[k].tx # snapshots[s].onchainTxId
               PROVE  /\ Executed(snapshots[s].onchainTxId)'
                      /\ txs'[snapshots[s].onchainTxId].id = snapshots[s].onchainSnapshotId
    BY DEF RowsConfirmed
  <2>1. snapshots[s].onchainTxId # t /\ \A k \in DOMAIN hook : hook[k].tx # snapshots[s].onchainTxId
    BY <1>2
  <2>2. /\ Executed(snapshots[s].onchainTxId)
        /\ txs[snapshots[s].onchainTxId].id = snapshots[s].onchainSnapshotId
    BY <2>1 DEF EventInv, RowsConfirmed
  <2>3. snapshots[s].onchainTxId \in DOMAIN txs
    BY <2>2 DEF Executed
  <2>4. txs'[snapshots[s].onchainTxId].state = "executed" /\ snapshots[s].onchainTxId \in DOMAIN txs'
    BY <2>1, <2>2, <2>3 DEF TxGoes, Executed
  <2> QED
    BY <1>3, <2>1, <2>2, <2>3, <2>4 DEF Executed
<1> QED
  BY <1>5, <1>6 DEF EventInv

\* A transaction that fails has not been reported as applied: it was pending.
LEMMA AbortKeepsEvents ==
    ASSUME ChainInv, EventInv, NEW t \in DOMAIN txs, TxGoes(t, "aborted", txs[t].id),
           txs[t].state = "pending", UNCHANGED << snapshots, hook >>
    PROVE  EventInv'
<1>1. \A u \in DOMAIN txs : Executed(u) => Executed(u)' /\ txs'[u].id = txs[u].id
  BY DEF TxGoes, Executed
<1>2. EventsOK'
  <2> SUFFICES ASSUME NEW k \in DOMAIN hook, LastMention(k), hook[k].kind = "apply"
               PROVE  Executed(hook[k].tx)' /\ txs'[hook[k].tx].id = hook[k].id
    BY DEF EventsOK, LastMention
  <2>1. Executed(hook[k].tx) /\ txs[hook[k].tx].id = hook[k].id
    BY DEF EventInv, EventsOK
  <2> QED
    BY <2>1 DEF TxGoes, Executed
<1>3. RowsConfirmed'
  <2> SUFFICES ASSUME NEW s \in DOMAIN snapshots, snapshots[s].onchainSnapshotId # 0,
                      \A k \in DOMAIN hook : hook[k].tx # snapshots[s].onchainTxId
               PROVE  /\ Executed(snapshots[s].onchainTxId)'
                      /\ txs'[snapshots[s].onchainTxId].id = snapshots[s].onchainSnapshotId
    BY DEF RowsConfirmed
  <2>1. /\ Executed(snapshots[s].onchainTxId)
        /\ txs[snapshots[s].onchainTxId].id = snapshots[s].onchainSnapshotId
    BY DEF EventInv, RowsConfirmed
  <2> QED
    BY <2>1 DEF TxGoes, Executed
<1> QED
  BY <1>2, <1>3 DEF EventInv

\* The last application of a transaction in a payload with no rollback after it is the
\* last report about it, when nothing about it is left to deliver.
LEMMA PayloadEndsMentions ==
    ASSUME ChainInv, NEW n \in DOMAIN hook, Payload(n), NEW i \in 1..n,
           hook[i].kind = "apply",
           \A k \in 1..n : hook[k].tx = hook[i].tx /\ hook[k].kind = "apply" => k <= i,
           \A l \in DOMAIN hook : l > n => hook[l].tx # hook[i].tx
    PROVE  i \in DOMAIN hook /\ LastMention(i)
<1>1. DOMAIN hook = 1..Len(hook) /\ Len(hook) \in Nat /\ n \in Nat
  BY HookDomain
<1>2. ASSUME NEW l \in DOMAIN hook, hook[l].tx = hook[i].tx PROVE l <= i
  <2>1. l \in 1..n /\ l \in Nat /\ i \in Nat
    BY <1>1, <1>2
  <2>2. i < l => hook[l].kind = "apply"
    BY <2>1 DEF Payload
  <2> QED
    BY <1>2, <2>1, <2>2
<1> QED
  BY <1>1, <1>2 DEF LastMention

\* What a delivered payload leaves to deliver.
LEMMA DeliveredHook ==
    ASSUME ChainInv, NEW n \in DOMAIN hook, hook' = SubSeq(hook, n + 1, Len(hook))
    PROVE  /\ \A k \in DOMAIN hook' : n + k \in DOMAIN hook /\ hook'[k] = hook[n + k] /\ k \in Nat
           /\ \A l \in DOMAIN hook : l > n => l - n \in DOMAIN hook' /\ hook'[l - n] = hook[l]
           /\ n \in Nat
<1>1. DOMAIN hook = 1..Len(hook) /\ Len(hook) \in Nat /\ n \in 1..Len(hook) /\ hook \in Seq(HookEvent)
  BY HookDomain
<1> HIDE DEF HookEvent
<1>2. n + 1 \in 1..(Len(hook) + 1) /\ Len(hook) \in n..Len(hook)
  BY <1>1
<1>3. /\ Len(hook') = Len(hook) - n /\ hook' \in Seq(HookEvent)
      /\ \A k \in 1..(Len(hook) - n) : hook'[k] = hook[n + k]
  <2>1. \A k \in 1..(Len(hook) - n) : (n + 1) + k - 1 = n + k
    BY <1>1
  <2> QED
    BY <1>1, <1>2, <2>1, SubSeqProperties
<1>4. DOMAIN hook' = 1..(Len(hook) - n)
  BY <1>3
<1>5. ASSUME NEW k \in DOMAIN hook' PROVE n + k \in DOMAIN hook /\ hook'[k] = hook[n + k] /\ k \in Nat
  BY <1>1, <1>3, <1>4
<1>6. ASSUME NEW l \in DOMAIN hook, l > n PROVE l - n \in DOMAIN hook' /\ hook'[l - n] = hook[l]
  <2>1. l - n \in 1..(Len(hook) - n) /\ n + (l - n) = l
    BY <1>1, <1>6
  <2> QED
    BY <1>3, <1>4, <2>1
<1> QED
  BY <1>1, <1>5, <1>6

\* A delivered payload leaves the last reports last, and a repeated one leaves all.
LEMMA PayloadKeepsEvents ==
    ASSUME ChainInv, EventInv, NEW n \in DOMAIN hook, ConfirmAttestations(n) \/ RepeatPayload(n)
    PROVE  EventsOK'
<1>1. UNCHANGED txs /\ \A t : Executed(t)' <=> Executed(t)
  BY PayloadSteps DEF Executed
<1>2. CASE UNCHANGED hook
  BY <1>1, <1>2 DEF EventInv, EventsOK, LastMention, Executed
<1>3. CASE hook' = SubSeq(hook, n + 1, Len(hook))
  <2> SUFFICES ASSUME NEW k \in DOMAIN hook', LastMention(k)', hook'[k].kind = "apply"
               PROVE  Executed(hook[k].tx)' /\ txs'[hook'[k].tx].id = hook'[k].id
    BY DEF EventsOK
  <2>1. n + k \in DOMAIN hook /\ hook'[k] = hook[n + k] /\ k \in Nat /\ n \in Nat
    BY <1>3, DeliveredHook
  <2>2. ASSUME NEW l \in DOMAIN hook, hook[l].tx = hook[n + k].tx PROVE l <= n + k
    <3>1. CASE l > n
      <4>1. l - n \in DOMAIN hook' /\ hook'[l - n] = hook[l]
        BY <1>3, <3>1, DeliveredHook
      <4>2. l - n <= k
        BY <2>1, <2>2, <4>1 DEF LastMention
      <4> QED
        BY <2>1, <4>2, HookDomain
    <3>2. CASE ~(l > n)
      BY <2>1, <3>2, HookDomain
    <3> QED
      BY <3>1, <3>2
  <2>3. LastMention(n + k)
    BY <2>2 DEF LastMention
  <2>4. Executed(hook[n + k].tx) /\ txs[hook[n + k].tx].id = hook[n + k].id
    BY <2>1, <2>3 DEF EventInv, EventsOK
  <2> QED
    BY <1>1, <2>1, <2>4 DEF Executed
<1> QED
  BY <1>2, <1>3 DEF ConfirmAttestations, RepeatPayload

\* A row is confirmed with the last report about its transaction.
LEMMA PayloadKeepsRows ==
    ASSUME ChainInv, EventInv, NEW n \in DOMAIN hook, ConfirmAttestations(n) \/ RepeatPayload(n)
    PROVE  RowsConfirmed'
<1> SUFFICES ASSUME NEW s \in DOMAIN snapshots, snapshots'[s].onchainSnapshotId # 0,
                    \A k \in DOMAIN hook' : hook'[k].tx # snapshots'[s].onchainTxId
             PROVE  /\ Executed(snapshots[s].onchainTxId)'
                    /\ txs'[snapshots'[s].onchainTxId].id = snapshots'[s].onchainSnapshotId
  BY PayloadSteps DEF RowsConfirmed
<1>1. UNCHANGED txs /\ Payload(n)
  BY PayloadSteps DEF ConfirmAttestations, RepeatPayload
<1>2. PICK u : u = snapshots[s].onchainTxId
  OBVIOUS
<1>3. PICK new \in 0..MaxSnapshots :
         /\ snapshots'[s].onchainTxId = u /\ snapshots'[s].onchainSnapshotId = new
         /\ NewId(n, u, snapshots[s].onchainSnapshotId, new)
  <2>1. PICK new \in 0..MaxSnapshots :
           /\ snapshots'[s] = [snapshots[s] EXCEPT !.onchainSnapshotId = new]
           /\ NewId(n, snapshots[s].onchainTxId, snapshots[s].onchainSnapshotId, new)
    BY PayloadSteps
  <2>2. snapshots[s] \in SnapshotRow
    BY RowsTyped DEF ChainInv, PipelineTypeOK, WorkTypeOK
  <2>3. snapshots'[s].onchainTxId = u /\ snapshots'[s].onchainSnapshotId = new
    BY <1>2, <2>1, <2>2 DEF SnapshotRow
  <2> QED
    BY <1>2, <2>1, <2>3
<1>4. \A l \in DOMAIN hook : hook[l].tx = u => hook' # hook /\ l \in 1..n
  <2> SUFFICES ASSUME NEW l \in DOMAIN hook, hook[l].tx = u PROVE hook' # hook /\ l \in 1..n
    OBVIOUS
  <2>1. hook' # hook
    BY <1>3
  <2>2. hook' = SubSeq(hook, n + 1, Len(hook))
    BY <2>1 DEF ConfirmAttestations, RepeatPayload
  <2>3. ~(l > n)
    <3> SUFFICES ASSUME l > n PROVE FALSE
      OBVIOUS
    <3>1. PICK m : m = l - n
      OBVIOUS
    <3>2. m \in DOMAIN hook' /\ hook'[m] = hook[l]
      BY <2>2, <3>1, DeliveredHook
    <3> QED
      BY <1>3, <3>2
  <2>4. l \in Nat \ {0} /\ n \in Nat
    BY HookDomain
  <2> QED
    BY <2>1, <2>3, <2>4
<1>5. Executed(u) /\ txs[u].id = new
  <2>1. CASE (\A i \in 1..n : hook[i].tx # u) /\ new = snapshots[s].onchainSnapshotId
    <3>1. \A k \in DOMAIN hook : hook[k].tx # u
      BY <1>4, <2>1
    <3> QED
      BY <1>2, <1>3, <2>1, <3>1 DEF EventInv, RowsConfirmed
  <2>2. CASE \E i \in 1..n :
                /\ hook[i].tx = u /\ hook[i].kind = "apply" /\ new = hook[i].id
                /\ \A k \in 1..n : hook[k].tx = u /\ hook[k].kind = "apply" => k <= i
    <3>1. PICK i \in 1..n :
             /\ hook[i].tx = u /\ hook[i].kind = "apply" /\ new = hook[i].id
             /\ \A k \in 1..n : hook[k].tx = u /\ hook[k].kind = "apply" => k <= i
      BY <2>2
    <3>2. \A l \in DOMAIN hook : l > n => hook[l].tx # u
      <4>1. \A l \in 1..n : ~(l > n)
        BY HookDomain
      <4> QED
        BY <1>4, <4>1
    <3>3. i \in DOMAIN hook /\ LastMention(i)
      BY <1>1, <3>1, <3>2, PayloadEndsMentions
    <3> QED
      BY <3>1, <3>3 DEF EventInv, EventsOK
  <2>3. new # 0
    BY <1>3
  <2> QED
    BY <1>3, <2>1, <2>2, <2>3 DEF NewId
<1> QED
  BY <1>1, <1>3, <1>5 DEF Executed

\* The steps off the chain other than payloads give no row an id and report nothing.
LEMMA OffChainKeepsEvents ==
    ASSUME ChainInv, RecordInv, EventInv, [Next]_vars,
           ~(\E t \in DOMAIN txs : ExecuteTx(t) \/ AbortTx(t) \/ Reorganise(t)),
           ~(\E n \in DOMAIN hook : ConfirmAttestations(n) \/ RepeatPayload(n))
    PROVE  EventInv'
<1>1. TxsKept
  BY OffChainSteps
<1>2. UNCHANGED << snapshots, hook >> => EventInv'
  BY <1>1, QuietStepKeepsEvents DEF IdsStay
<1>3. CASE UNCHANGED vars \/ Revoke \/ Authorise \/ NewBlock \/ \E w \in Wallets : RequestRisk(w)
  BY <1>2, <1>3 DEF vars, workVars, Revoke, Authorise, NewBlock, RequestRisk
<1>4. ASSUME NEW i \in DOMAIN riskJobs, RiskStep(i) \/ RiskThrows(i) PROVE EventInv'
  <2>1. ASSUME NEW r \in Readings, PersistSnapshot(i, r) PROVE EventInv'
    <3>1. IdsStay /\ UNCHANGED hook
      BY <2>1, PersistAddsRow DEF IdsStay
    <3> QED
      BY <1>1, <3>1, QuietStepKeepsEvents
  <2>2. CASE StartRisk(i) \/ EnqueueAttestation(i) \/ RiskThrows(i)
    BY <1>2, <2>2 DEF StartRisk, EnqueueAttestation, RiskThrows
  <2> QED
    BY <1>4, <2>1, <2>2 DEF RiskStep
<1>5. ASSUME NEW j \in DOMAIN attestJobs, AttestStep(j) \/ PublishThrows(j) \/ CrashAttestation(j)
      PROVE  EventInv'
  <2>1. CASE MarkPublished(j)
    <3>1. PICK s : s = attestJobs[j].snapshot
      OBVIOUS
    <3>2. /\ snapshots[s].onchainSnapshotId = 0 /\ DOMAIN snapshots' = DOMAIN snapshots
          /\ snapshots'[s].onchainSnapshotId = snapshots[s].onchainSnapshotId
          /\ \A q \in DOMAIN snapshots : q # s => snapshots'[q] = snapshots[q]
          /\ UNCHANGED hook
      BY <2>1, <3>1, MarkSetsTx, MarkedRowIsBlank
    <3>3. IdsStay
      BY <3>2 DEF IdsStay
    <3> QED
      BY <1>1, <3>2, <3>3, QuietStepKeepsEvents
  <2>2. CASE \/ FinishWithoutPublishing(j) \/ DecideToPublish(j) \/ Broadcast(j) \/ RefuseReading(j)
             \/ CompleteAttestation(j) \/ PublishThrows(j) \/ CrashAttestation(j)
    BY <1>2, <2>2 DEF FinishWithoutPublishing, DecideToPublish, Broadcast, RefuseReading,
       CompleteAttestation, PublishThrows, CrashAttestation
  <2> QED
    BY <1>5, <2>1, <2>2 DEF AttestStep
<1> QED
  BY <1>3, <1>4, <1>5 DEF Next

\* The third layer holds to begin with,
LEMMA InitEventInv ==
    ASSUME Init
    PROVE  EventInv
  BY DEF Init, EventInv, EventsOK, RowsConfirmed

\* and every step keeps it.
LEMMA StepKeepsEventInv ==
    ASSUME ChainInv, RecordInv, EventInv, [Next]_vars
    PROVE  EventInv'
<1>1. ASSUME NEW t \in DOMAIN txs, ExecuteTx(t) PROVE EventInv'
  <2>1. /\ TxGoes(t, "executed", latestSnapshotId'[WalletOf(t)])
        /\ Reported("apply", t, latestSnapshotId'[WalletOf(t)])
        /\ UNCHANGED snapshots
    BY <1>1, StepKeepsRegistry, TxSteps
  <2> QED
    BY <2>1, ReportKeepsEvents
<1>2. ASSUME NEW t \in DOMAIN txs, Reorganise(t) PROVE EventInv'
  <2>1. TxGoes(t, "pending", 0) /\ Reported("rollback", t, 0) /\ UNCHANGED snapshots
    BY <1>2, StepKeepsRegistry, TxSteps
  <2> QED
    BY <2>1, ReportKeepsEvents
<1>3. ASSUME NEW t \in DOMAIN txs, AbortTx(t) PROVE EventInv'
  <2>1. TxGoes(t, "aborted", txs[t].id) /\ NextPending(t) /\ UNCHANGED << snapshots, hook >>
    BY <1>3, StepKeepsRegistry, TxSteps
  <2> QED
    BY <2>1, AbortKeepsEvents DEF NextPending
<1>4. ASSUME NEW n \in DOMAIN hook, ConfirmAttestations(n) \/ RepeatPayload(n) PROVE EventInv'
  BY <1>4, PayloadKeepsEvents, PayloadKeepsRows DEF EventInv
<1> QED
  BY <1>1, <1>2, <1>3, <1>4, OffChainKeepsEvents

-----------------------------------------------------------------------------
(* The order in which the chain learns of rows.  One risk calculation at a *)
(* time and no error before an attestation is recorded keep it; crashes of *)
(* the attestation worker, aborted transactions, reorganisations and       *)
(* repeated payloads do not disturb it.                                    *)

\* Calculations are made in the order of their requests, and so of their blocks.
RisksInOrder ==
    \A i \in DOMAIN riskJobs :
        /\ riskJobs[i].state \in {"waiting", "active", "done"}
        /\ (riskJobs[i].state = "waiting" => riskJobs[i].snapshot = 0)
        /\ riskJobs[i].sourceBlock <= stacksBlockHeight
        /\ \A k \in DOMAIN riskJobs : i < k =>
              /\ riskJobs[i].sourceBlock <= riskJobs[k].sourceBlock
              /\ (riskJobs[k].state # "waiting" => riskJobs[i].state = "done")

\* Rows are in the order of their blocks, and those still to come are not older.
RowsInOrder ==
    \A s \in DOMAIN snapshots :
        /\ snapshots[s].sourceBlock <= stacksBlockHeight
        /\ \A q \in DOMAIN snapshots : s < q => snapshots[s].sourceBlock <= snapshots[q].sourceBlock
        /\ \A i \in DOMAIN riskJobs :
              riskJobs[i].state # "done" /\ riskJobs[i].snapshot = 0
                 => snapshots[s].sourceBlock <= riskJobs[i].sourceBlock

\* Attestation jobs are in the order of their rows.
JobsInOrder ==
    /\ \A j, k \in DOMAIN attestJobs : j < k => attestJobs[j].snapshot < attestJobs[k].snapshot
    /\ \A i \in DOMAIN riskJobs :
          riskJobs[i].state = "active" /\ riskJobs[i].snapshot # 0 =>
              /\ riskJobs[i].snapshot = Len(snapshots)
              /\ \A j \in DOMAIN attestJobs : attestJobs[j].snapshot < Len(snapshots)

\* A row the publisher accepts.  Jobs for the others are refused on every attempt.
Fit(j) == InRange(snapshots[attestJobs[j].snapshot].reading)

\* Jobs for rows the publisher accepts are never delayed, so taken in order.
TakenInOrder ==
    \A j \in DOMAIN attestJobs : Fit(j) =>
        /\ attestJobs[j].state \in {"waiting", "active", "done"}
        /\ \A k \in DOMAIN attestJobs :
              j < k /\ attestJobs[k].state # "waiting" => attestJobs[j].state = "done"

\* Transactions are in the order of their rows, and those still to come are not older.
SentInOrder ==
    \A t \in DOMAIN txs :
        /\ \A u \in DOMAIN txs : t < u => txs[t].snapshot <= txs[u].snapshot
        /\ \A j \in DOMAIN attestJobs :
              Fit(j) /\ attestJobs[j].state # "done" => txs[t].snapshot <= attestJobs[j].snapshot

OrderInv == RisksInOrder /\ RowsInOrder /\ JobsInOrder /\ TakenInOrder /\ SentInOrder

\* What the layer is proved under: what ChainNeverRegresses needs of the deployment.
OrderedDeployment == RiskConcurrency = 1 /\ FaultKinds \cap {"riskError", "publishError"} = {}

\* A worker of concurrency 1 with nothing in hand takes the first waiting job, or a
\* delayed one.
LEMMA TakesFirst ==
    ASSUME NEW jobs, NEW n \in Nat, DOMAIN jobs = 1..n, NEW i \in DOMAIN jobs, Startable(jobs, i, 1)
    PROVE  /\ \A k \in DOMAIN jobs : jobs[k].state # "active"
           /\ jobs[i].state \in {"waiting", "delayed"}
           /\ (jobs[i].state = "waiting" => \A k \in DOMAIN jobs : k < i => jobs[k].state # "waiting")
<1> DEFINE active == {k \in DOMAIN jobs : jobs[k].state = "active"}
<1>1. IsFiniteSet(DOMAIN jobs)
  <2>1. 1 \in Int /\ n \in Int
    OBVIOUS
  <2> QED
    BY <2>1, FS_Interval
<1>2. active \in SUBSET DOMAIN jobs
  OBVIOUS
<1>3. Cardinality(active) < 1 /\ jobs[i].state \in {"waiting", "delayed"}
  BY DEF Startable
<1>4. jobs[i].state = "waiting" => \A k \in DOMAIN jobs : k < i => jobs[k].state # "waiting"
  BY DEF Startable
<1> HIDE DEF active
<1>5. IsFiniteSet(active)
  BY <1>1, <1>2, FS_Subset
<1>6. Cardinality(active) \in Nat
  BY <1>5, FS_CardinalityType
<1>7. Cardinality(active) = 0
  BY <1>3, <1>6
<1>8. active = {}
  BY <1>5, <1>7, FS_EmptySet
<1> QED
  BY <1>3, <1>4, <1>8 DEF active

\* Blocks and row numbers are numbers.
LEMMA OrderTyped ==
    ASSUME ChainInv
    PROVE  /\ \A i \in DOMAIN riskJobs : riskJobs[i].sourceBlock \in Nat /\ i \in Nat
           /\ \A s \in DOMAIN snapshots : snapshots[s].sourceBlock \in Nat /\ s \in Nat /\ s <= Len(snapshots)
           /\ \A j \in DOMAIN attestJobs : /\ attestJobs[j].snapshot \in DOMAIN snapshots
                                           /\ attestJobs[j].snapshot \in Nat
                                           /\ attestJobs[j].snapshot <= Len(snapshots) /\ j \in Nat
           /\ \A t \in DOMAIN txs : /\ txs[t].snapshot \in DOMAIN snapshots
                                    /\ txs[t].snapshot \in Nat /\ txs[t].snapshot <= Len(snapshots) /\ t \in Nat
           /\ stacksBlockHeight \in Nat /\ Len(snapshots) \in Nat
<1>1. WorkTypeOK /\ stacksBlockHeight \in 0..MaxHeight /\ MaxHeight \in Nat
  BY RegistryAssumption DEF ChainInv, PipelineTypeOK, WorkTypeOK, TypeOK
<1>2. /\ DOMAIN snapshots = 1..Len(snapshots) /\ Len(snapshots) \in Nat
      /\ DOMAIN riskJobs \subseteq Nat /\ DOMAIN attestJobs \subseteq Nat /\ DOMAIN txs \subseteq Nat
  BY <1>1 DEF WorkTypeOK
<1>3. \A i \in DOMAIN riskJobs : riskJobs[i].sourceBlock \in Nat
  BY <1>1, RiskJobsTyped DEF RiskJobRecord
<1>4. \A s \in DOMAIN snapshots : snapshots[s].sourceBlock \in Nat
  BY <1>1, RowsTyped
<1>5. \A j \in DOMAIN attestJobs : attestJobs[j].snapshot \in DOMAIN snapshots
  BY <1>1, JobsTyped
<1>6. \A t \in DOMAIN txs : txs[t].snapshot \in DOMAIN snapshots
  BY <1>1, TxsTyped
<1>7. \A s \in DOMAIN snapshots : s \in Nat /\ s <= Len(snapshots)
  BY <1>2
<1> QED
  BY <1>1, <1>2, <1>3, <1>4, <1>5, <1>6, <1>7

\* No step takes the chain's height back.
LEMMA HeightGrows ==
    ASSUME ChainInv, [Next]_vars
    PROVE  stacksBlockHeight' \in Nat /\ stacksBlockHeight <= stacksBlockHeight'
<1>1. stacksBlockHeight \in Nat
  BY OrderTyped
<1>2. stacksBlockHeight' = stacksBlockHeight \/ stacksBlockHeight' = stacksBlockHeight + 1
  <2>1. CASE UNCHANGED vars \/ Revoke \/ Authorise \/ NewBlock \/ \E w \in Wallets : RequestRisk(w)
    BY <2>1 DEF vars, registryVars, Revoke, Authorise, NewBlock, RequestRisk, SetPublisher, MineBlock
  <2>2. CASE \E i \in DOMAIN riskJobs : RiskStep(i) \/ RiskThrows(i)
    BY <2>2 DEF RiskStep, StartRisk, PersistSnapshot, EnqueueAttestation, RiskThrows, registryVars
  <2>3. CASE \E j \in DOMAIN attestJobs : AttestStep(j) \/ PublishThrows(j) \/ CrashAttestation(j)
    BY <2>3 DEF AttestStep, FinishWithoutPublishing, DecideToPublish, Broadcast, RefuseReading,
       MarkPublished, CompleteAttestation, PublishThrows, CrashAttestation, registryVars
  <2>4. CASE \E t \in DOMAIN txs : ExecuteTx(t) \/ AbortTx(t) \/ Reorganise(t)
    BY <2>4 DEF ExecuteTx, AbortTx, Reorganise, PublishRiskSnapshot, registryVars
  <2>5. CASE \E n \in DOMAIN hook : ConfirmAttestations(n) \/ RepeatPayload(n)
    BY <2>5 DEF ConfirmAttestations, RepeatPayload, registryVars
  <2> QED
    BY <2>1, <2>2, <2>3, <2>4, <2>5 DEF Next
<1> QED
  BY <1>1, <1>2

\* The table of rows stays, but for transactions and ids.
SameRows == RowsKept /\ DOMAIN snapshots' = DOMAIN snapshots /\ Len(snapshots') = Len(snapshots)

\* Steps that touch no risk job and no block.
LEMMA RisksFrame ==
    ASSUME ChainInv, RisksInOrder, RowsInOrder, SameRows, UNCHANGED riskJobs,
           stacksBlockHeight' \in Nat, stacksBlockHeight <= stacksBlockHeight'
    PROVE  RisksInOrder' /\ RowsInOrder'
<1>1. \A i \in DOMAIN riskJobs : riskJobs[i].sourceBlock <= stacksBlockHeight'
  BY OrderTyped DEF RisksInOrder
<1>2. \A s \in DOMAIN snapshots : snapshots[s].sourceBlock <= stacksBlockHeight'
  BY OrderTyped DEF RowsInOrder
<1>3. RisksInOrder'
  BY <1>1 DEF RisksInOrder
<1>4. RowsInOrder'
  BY <1>2 DEF RowsInOrder, SameRows, RowsKept
<1> QED
  BY <1>3, <1>4

\* The queue of attestations stays, but for states, attempts and transactions.
SameJobs ==
    /\ DOMAIN attestJobs' = DOMAIN attestJobs
    /\ \A j \in DOMAIN attestJobs : attestJobs'[j].snapshot = attestJobs[j].snapshot

\* Steps that add no attestation job and no row.
LEMMA JobsFrame ==
    ASSUME ChainInv, JobsInOrder, SameRows, SameJobs, UNCHANGED riskJobs
    PROVE  JobsInOrder' /\ \A j \in DOMAIN attestJobs : Fit(j)' <=> Fit(j)
<1>1. JobsInOrder'
  BY DEF JobsInOrder, SameRows, SameJobs
<1>2. ASSUME NEW j \in DOMAIN attestJobs PROVE Fit(j)' <=> Fit(j)
  <2>1. attestJobs[j].snapshot \in DOMAIN snapshots
    BY OrderTyped
  <2> QED
    BY <2>1 DEF Fit, InRange, SameRows, SameJobs, RowsKept
<1> QED
  BY <1>1, <1>2

\* Steps that change no job at all and broadcast nothing.
LEMMA OrderFrame ==
    ASSUME ChainInv, OrderInv, SameRows, UNCHANGED << riskJobs, attestJobs >>,
           TxRowsKept, DOMAIN txs' = DOMAIN txs,
           stacksBlockHeight' \in Nat, stacksBlockHeight <= stacksBlockHeight'
    PROVE  OrderInv'
<1>1. RisksInOrder' /\ RowsInOrder'
  BY RisksFrame DEF OrderInv
<1>2. JobsInOrder' /\ \A j \in DOMAIN attestJobs : Fit(j)' <=> Fit(j)
  BY JobsFrame DEF OrderInv, SameJobs
<1>3. TakenInOrder'
  BY <1>2 DEF OrderInv, TakenInOrder
<1>4. SentInOrder'
  BY <1>2 DEF OrderInv, SentInOrder, TxRowsKept
<1> QED
  BY <1>1, <1>2, <1>3, <1>4 DEF OrderInv

\* Job i of the risk queue goes on with this state and row; no other job changes.
RiskGoes(i, state, snapshot) ==
    /\ DOMAIN riskJobs' = DOMAIN riskJobs
    /\ riskJobs'[i].sourceBlock = riskJobs[i].sourceBlock
    /\ riskJobs'[i].state = state
    /\ riskJobs'[i].snapshot = snapshot
    /\ \A k \in DOMAIN riskJobs : k # i => riskJobs'[k] = riskJobs[k]

\* An update of the two fields of a job that change.
LEMMA UpdatedRiskGoes ==
    ASSUME ChainInv, NEW i \in DOMAIN riskJobs, NEW state, NEW snapshot,
           riskJobs' = [riskJobs EXCEPT ![i] = [riskJobs[i] EXCEPT !.state = state, !.snapshot = snapshot]]
    PROVE  RiskGoes(i, state, snapshot)
<1> DEFINE old == riskJobs[i]  job == [old EXCEPT !.state = state, !.snapshot = snapshot]
<1>1. riskJobs \in Seq(RiskJobRecord) /\ old \in RiskJobRecord
  <2>1. riskJobs \in Seq(RiskJobRecord)
    BY DEF ChainInv, PipelineTypeOK
  <2> QED
    BY <2>1
<1>2. job.sourceBlock = old.sourceBlock /\ job.state = state /\ job.snapshot = snapshot
  BY <1>1 DEF RiskJobRecord
<1>3. riskJobs' = [riskJobs EXCEPT ![i] = job] /\ riskJobs \in Seq(RiskJobRecord \cup {job})
  BY <1>1, SeqGrows
<1> HIDE DEF job
<1>4. /\ DOMAIN riskJobs' = DOMAIN riskJobs /\ riskJobs'[i] = job
      /\ \A k \in DOMAIN riskJobs : k # i => riskJobs'[k] = riskJobs[k]
  BY <1>3, Replaced
<1> QED
  BY <1>2, <1>4 DEF RiskGoes

\* The steps of the risk worker, as changes of its job.
LEMMA RiskActions ==
    ASSUME ChainInv, NEW i \in DOMAIN riskJobs
    PROVE  /\ StartRisk(i) => /\ RiskGoes(i, "active", riskJobs[i].snapshot)
                              /\ UNCHANGED << snapshots, attestJobs, txs, stacksBlockHeight >>
           /\ \A r \in Readings : PersistSnapshot(i, r) =>
                 /\ RiskGoes(i, "active", Len(snapshots) + 1)
                 /\ riskJobs[i].state = "active" /\ riskJobs[i].snapshot = 0
                 /\ UNCHANGED stacksBlockHeight
           /\ EnqueueAttestation(i) =>
                 /\ RiskGoes(i, "done", riskJobs[i].snapshot)
                 /\ riskJobs[i].state = "active" /\ riskJobs[i].snapshot # 0
                 /\ UNCHANGED << snapshots, txs, stacksBlockHeight >>
<1> DEFINE old == riskJobs[i]
<1>1. old \in RiskJobRecord
  BY RiskJobsTyped DEF ChainInv, PipelineTypeOK, WorkTypeOK
<1>2. ASSUME StartRisk(i)
      PROVE  /\ RiskGoes(i, "active", old.snapshot)
             /\ UNCHANGED << snapshots, attestJobs, txs, stacksBlockHeight >>
  <2>1. riskJobs' = [riskJobs EXCEPT ![i] = [old EXCEPT !.state = "active", !.snapshot = old.snapshot]]
    BY <1>1, <1>2 DEF StartRisk, RiskJobRecord
  <2> QED
    BY <1>2, <2>1, UpdatedRiskGoes DEF StartRisk, registryVars
<1>3. ASSUME NEW r \in Readings, PersistSnapshot(i, r)
      PROVE  /\ RiskGoes(i, "active", Len(snapshots) + 1)
             /\ old.state = "active" /\ old.snapshot = 0 /\ UNCHANGED stacksBlockHeight
  <2>1. riskJobs' = [riskJobs EXCEPT ![i] = [old EXCEPT !.state = "active", !.snapshot = Len(snapshots) + 1]]
    BY <1>1, <1>3 DEF PersistSnapshot, RiskJobRecord
  <2> QED
    BY <1>3, <2>1, UpdatedRiskGoes DEF PersistSnapshot, registryVars
<1>4. ASSUME EnqueueAttestation(i)
      PROVE  /\ RiskGoes(i, "done", old.snapshot) /\ old.state = "active" /\ old.snapshot # 0
             /\ UNCHANGED << snapshots, txs, stacksBlockHeight >>
  <2>1. riskJobs' = [riskJobs EXCEPT ![i] = [old EXCEPT !.state = "done", !.snapshot = old.snapshot]]
    BY <1>1, <1>4 DEF EnqueueAttestation, RiskJobRecord
  <2> QED
    BY <1>4, <2>1, UpdatedRiskGoes DEF EnqueueAttestation, registryVars
<1> QED
  BY <1>2, <1>3, <1>4

\* A request is for the chain's block of the moment, which is no older than any before.
LEMMA RequestKeepsOrder ==
    ASSUME ChainInv, OrderInv, NEW w \in Wallets, RequestRisk(w)
    PROVE  OrderInv'
<1> DEFINE job == RiskJob(w, stacksBlockHeight)
<1>1. /\ riskJobs' = Append(riskJobs, job)
      /\ UNCHANGED << snapshots, attestJobs, txs, stacksBlockHeight >>
  BY DEF RequestRisk, registryVars
<1>2. job.state = "waiting" /\ job.snapshot = 0 /\ job.sourceBlock = stacksBlockHeight
  BY DEF RiskJob
<1>3. riskJobs \in Seq(RiskJobRecord)
  BY DEF ChainInv, PipelineTypeOK
<1>4. riskJobs \in Seq(RiskJobRecord \cup {job})
  BY <1>3, SeqGrows
<1> HIDE DEF job
<1>5. PICK n : n = Len(riskJobs) + 1
  OBVIOUS
<1>6. /\ DOMAIN riskJobs' = DOMAIN riskJobs \cup {n} /\ riskJobs'[n] = job
      /\ \A k \in DOMAIN riskJobs : riskJobs'[k] = riskJobs[k]
  BY <1>1, <1>4, <1>5, Appended
<1>7. \A k \in DOMAIN riskJobs : ~(n < k)
  BY <1>3, <1>5
<1>8. stacksBlockHeight \in Nat /\ n \in Nat
  BY <1>3, <1>5, OrderTyped
<1>9. RisksInOrder'
  <2> SUFFICES ASSUME NEW i \in DOMAIN riskJobs'
               PROVE  /\ riskJobs'[i].state \in {"waiting", "active", "done"}
                      /\ (riskJobs'[i].state = "waiting" => riskJobs'[i].snapshot = 0)
                      /\ riskJobs'[i].sourceBlock <= stacksBlockHeight'
                      /\ \A k \in DOMAIN riskJobs' : i < k =>
                            /\ riskJobs'[i].sourceBlock <= riskJobs'[k].sourceBlock
                            /\ (riskJobs'[k].state # "waiting" => riskJobs'[i].state = "done")
    BY DEF RisksInOrder
  <2>1. CASE i = n
    <3>1. \A k \in DOMAIN riskJobs' : ~(n < k)
      BY <1>6, <1>7, <1>8
    <3> QED
      BY <1>1, <1>2, <1>6, <1>8, <2>1, <3>1
  <2>2. CASE i # n
    BY <1>1, <1>2, <1>6, <2>2 DEF OrderInv, RisksInOrder
  <2> QED
    BY <2>1, <2>2
<1>10. RowsInOrder'
  BY <1>1, <1>2, <1>6 DEF OrderInv, RowsInOrder
<1>11. JobsInOrder'
  BY <1>1, <1>2, <1>6 DEF OrderInv, JobsInOrder
<1>12. TakenInOrder' /\ SentInOrder'
  BY <1>1 DEF OrderInv, TakenInOrder, SentInOrder, Fit
<1> QED
  BY <1>9, <1>10, <1>11, <1>12 DEF OrderInv

\* The calculation taken is the first one waiting, and the one before it is done.
LEMMA StartRiskKeepsOrder ==
    ASSUME ChainInv, OrderInv, RiskConcurrency = 1, NEW i \in DOMAIN riskJobs, StartRisk(i)
    PROVE  OrderInv'
<1>1. /\ RiskGoes(i, "active", riskJobs[i].snapshot)
      /\ UNCHANGED << snapshots, attestJobs, txs, stacksBlockHeight >>
  BY RiskActions
<1>2. /\ \A k \in DOMAIN riskJobs : riskJobs[k].state # "active"
      /\ riskJobs[i].state \in {"waiting", "delayed"}
      /\ (riskJobs[i].state = "waiting" => \A k \in DOMAIN riskJobs : k < i => riskJobs[k].state # "waiting")
  <2>1. DOMAIN riskJobs = 1..Len(riskJobs) /\ Len(riskJobs) \in Nat
    BY DEF ChainInv, PipelineTypeOK
  <2>2. Startable(riskJobs, i, 1)
    BY DEF StartRisk
  <2> QED
    BY <2>1, <2>2, TakesFirst
<1>3. riskJobs[i].state = "waiting" /\ riskJobs[i].snapshot = 0
  BY <1>2 DEF OrderInv, RisksInOrder
<1>4. \A k \in DOMAIN riskJobs : k < i => riskJobs[k].state = "done"
  BY <1>2, <1>3 DEF OrderInv, RisksInOrder
<1>5. \A k \in DOMAIN riskJobs : i < k => riskJobs[k].state = "waiting"
  BY <1>3 DEF OrderInv, RisksInOrder
<1>6. RisksInOrder'
  BY <1>1, <1>3, <1>4, <1>5, OrderTyped DEF OrderInv, RisksInOrder, RiskGoes
<1>7. RowsInOrder'
  BY <1>1, <1>3 DEF OrderInv, RowsInOrder, RiskGoes
<1>8. JobsInOrder'
  BY <1>1, <1>3 DEF OrderInv, JobsInOrder, RiskGoes
<1>9. TakenInOrder' /\ SentInOrder'
  BY <1>1 DEF OrderInv, TakenInOrder, SentInOrder, Fit
<1> QED
  BY <1>6, <1>7, <1>8, <1>9 DEF OrderInv

\* A stored row is the newest, by its block too.
LEMMA PersistKeepsOrder ==
    ASSUME ChainInv, OrderInv, NEW i \in DOMAIN riskJobs, NEW r \in Readings, PersistSnapshot(i, r)
    PROVE  OrderInv'
<1>1. PICK n : n = Len(snapshots) + 1
  OBVIOUS
<1>2. /\ RiskGoes(i, "active", n) /\ riskJobs[i].state = "active" /\ riskJobs[i].snapshot = 0
      /\ UNCHANGED stacksBlockHeight
  BY <1>1, RiskActions
<1>3. /\ DOMAIN snapshots' = DOMAIN snapshots \cup {n} /\ n \notin DOMAIN snapshots
      /\ \A s \in DOMAIN snapshots : snapshots'[s] = snapshots[s]
      /\ UNCHANGED << attestJobs, txs >>
  BY <1>1, PersistAddsRow
<1>4. snapshots'[n].sourceBlock = riskJobs[i].sourceBlock /\ Len(snapshots') = n
  <2> DEFINE row == Row(riskJobs[i].wallet, r, riskJobs[i].sourceBlock)
  <2>1. snapshots' = Append(snapshots, row)
    BY DEF PersistSnapshot
  <2>2. row.sourceBlock = riskJobs[i].sourceBlock
    BY DEF Row
  <2>3. snapshots \in Seq(SnapshotRow)
    BY DEF ChainInv, PipelineTypeOK
  <2>4. snapshots \in Seq(SnapshotRow \cup {row})
    BY <2>3, SeqGrows
  <2> HIDE DEF row
  <2> QED
    BY <1>1, <2>1, <2>2, <2>4, Appended
<1>5. n \in Nat \ {0} /\ \A s \in DOMAIN snapshots : ~(n < s)
  BY <1>1, OrderTyped
<1>6. \A k \in DOMAIN riskJobs : k < i => riskJobs[k].state = "done"
  BY <1>2 DEF OrderInv, RisksInOrder
<1>7. RisksInOrder'
  BY <1>2 DEF OrderInv, RisksInOrder, RiskGoes
<1>8. RowsInOrder'
  <2> SUFFICES ASSUME NEW s \in DOMAIN snapshots'
               PROVE  /\ snapshots'[s].sourceBlock <= stacksBlockHeight'
                      /\ \A q \in DOMAIN snapshots' : s < q =>
                            snapshots'[s].sourceBlock <= snapshots'[q].sourceBlock
                      /\ \A k \in DOMAIN riskJobs' :
                            riskJobs'[k].state # "done" /\ riskJobs'[k].snapshot = 0
                               => snapshots'[s].sourceBlock <= riskJobs'[k].sourceBlock
    BY DEF RowsInOrder
  <2>1. CASE s \in DOMAIN snapshots
    <3>1. snapshots'[s].sourceBlock <= riskJobs[i].sourceBlock
      BY <1>2, <1>3, <2>1 DEF OrderInv, RowsInOrder
    <3>2. \A k \in DOMAIN riskJobs' :
             riskJobs'[k].state # "done" /\ riskJobs'[k].snapshot = 0
                => k # i /\ riskJobs'[k] = riskJobs[k] /\ k \in DOMAIN riskJobs
      BY <1>2, <1>5 DEF RiskGoes
    <3> QED
      BY <1>2, <1>3, <1>4, <2>1, <3>1, <3>2 DEF OrderInv, RowsInOrder
  <2>2. CASE s = n
    <3>1. riskJobs[i].sourceBlock <= stacksBlockHeight
      BY DEF OrderInv, RisksInOrder
    <3>2. \A q \in DOMAIN snapshots' : ~(n < q)
      BY <1>3, <1>5
    <3>3. ASSUME NEW k \in DOMAIN riskJobs', riskJobs'[k].state # "done", riskJobs'[k].snapshot = 0
          PROVE  riskJobs[i].sourceBlock <= riskJobs'[k].sourceBlock
      <4>1. k # i /\ riskJobs'[k] = riskJobs[k] /\ k \in DOMAIN riskJobs
        BY <1>2, <1>5, <3>3 DEF RiskGoes
      <4>2. i < k
        <5>1. ~(k < i)
          BY <1>6, <3>3, <4>1
        <5> QED
          BY <4>1, <5>1, OrderTyped
      <4> QED
        BY <4>1, <4>2 DEF OrderInv, RisksInOrder
    <3> QED
      BY <1>2, <1>4, <2>2, <3>1, <3>2, <3>3
  <2> QED
    BY <1>3, <2>1, <2>2
<1>9. JobsInOrder'
  <2>1. \A j \in DOMAIN attestJobs : attestJobs[j].snapshot < n
    BY <1>1, OrderTyped
  <2>2. \A k \in DOMAIN riskJobs : k # i => riskJobs[k].state # "active"
    <3> SUFFICES ASSUME NEW k \in DOMAIN riskJobs, k # i, riskJobs[k].state = "active" PROVE FALSE
      OBVIOUS
    <3>1. k < i \/ i < k
      BY OrderTyped
    <3> QED
      BY <1>2, <3>1 DEF OrderInv, RisksInOrder
  <2> QED
    BY <1>2, <1>3, <1>4, <2>1, <2>2 DEF OrderInv, JobsInOrder, RiskGoes
<1>10. \A j \in DOMAIN attestJobs : Fit(j)' <=> Fit(j)
  BY <1>3, OrderTyped DEF Fit, InRange
<1>11. TakenInOrder' /\ SentInOrder'
  BY <1>3, <1>10 DEF OrderInv, TakenInOrder, SentInOrder
<1> QED
  BY <1>7, <1>8, <1>9, <1>11 DEF OrderInv

\* The attestation of the newest row is asked for last.
LEMMA EnqueueKeepsOrder ==
    ASSUME ChainInv, OrderInv, NEW i \in DOMAIN riskJobs, EnqueueAttestation(i)
    PROVE  OrderInv'
<1>1. /\ RiskGoes(i, "done", riskJobs[i].snapshot)
      /\ riskJobs[i].state = "active" /\ riskJobs[i].snapshot # 0
      /\ UNCHANGED << snapshots, txs, stacksBlockHeight >>
  BY RiskActions
<1>2. PICK n, job : n = Len(attestJobs) + 1 /\ job = AttestJob(riskJobs[i].snapshot)
  OBVIOUS
<1>3. job.state = "waiting" /\ job.snapshot = riskJobs[i].snapshot
  BY <1>2 DEF AttestJob
<1>4. attestJobs \in Seq(AttestJobRecord)
  BY DEF ChainInv, PipelineTypeOK
<1>5. /\ DOMAIN attestJobs' = DOMAIN attestJobs \cup {n} /\ attestJobs'[n] = job
      /\ \A k \in DOMAIN attestJobs : attestJobs'[k] = attestJobs[k]
  <2>1. attestJobs' = Append(attestJobs, job) /\ attestJobs \in Seq(AttestJobRecord \cup {job})
    BY <1>2, <1>4, SeqGrows DEF EnqueueAttestation
  <2> QED
    BY <1>2, <2>1, Appended
<1>6. n \in Nat /\ \A k \in DOMAIN attestJobs : ~(n < k)
  BY <1>2, <1>4
<1>7. job.snapshot = Len(snapshots) /\ \A j \in DOMAIN attestJobs : attestJobs[j].snapshot < Len(snapshots)
  BY <1>1, <1>3 DEF OrderInv, JobsInOrder
<1>8. \A k \in DOMAIN riskJobs : k # i => riskJobs[k].state # "active"
  <2> SUFFICES ASSUME NEW k \in DOMAIN riskJobs, k # i, riskJobs[k].state = "active" PROVE FALSE
    OBVIOUS
  <2>1. k < i \/ i < k
    BY OrderTyped
  <2> QED
    BY <1>1, <2>1 DEF OrderInv, RisksInOrder
<1>9. RisksInOrder'
  BY <1>1 DEF OrderInv, RisksInOrder, RiskGoes
<1>10. RowsInOrder'
  BY <1>1 DEF OrderInv, RowsInOrder, RiskGoes
<1>11. JobsInOrder'
  <2>1. \A j, k \in DOMAIN attestJobs' : j < k => attestJobs'[j].snapshot < attestJobs'[k].snapshot
    <3> SUFFICES ASSUME NEW j \in DOMAIN attestJobs', NEW k \in DOMAIN attestJobs', j < k
                 PROVE  attestJobs'[j].snapshot < attestJobs'[k].snapshot
      OBVIOUS
    <3>1. j # n
      BY <1>5, <1>6
    <3>2. CASE k = n
      BY <1>5, <1>7, <3>1, <3>2
    <3>3. CASE k # n
      BY <1>5, <3>1, <3>3 DEF OrderInv, JobsInOrder
    <3> QED
      BY <3>2, <3>3
  <2>2. \A k \in DOMAIN riskJobs' : riskJobs'[k].state # "active"
    BY <1>1, <1>8 DEF RiskGoes
  <2> QED
    BY <2>1, <2>2 DEF JobsInOrder
<1>12. \A j \in DOMAIN attestJobs : Fit(j)' <=> Fit(j)
  BY <1>1, <1>5 DEF Fit
<1>13. TakenInOrder'
  <2> SUFFICES ASSUME NEW j \in DOMAIN attestJobs', Fit(j)'
               PROVE  /\ attestJobs'[j].state \in {"waiting", "active", "done"}
                      /\ \A k \in DOMAIN attestJobs' :
                            j < k /\ attestJobs'[k].state # "waiting" => attestJobs'[j].state = "done"
    BY DEF TakenInOrder
  <2>1. CASE j = n
    <3>1. \A k \in DOMAIN attestJobs' : ~(n < k)
      BY <1>5, <1>6
    <3> QED
      BY <1>3, <1>5, <2>1, <3>1
  <2>2. CASE j # n
    BY <1>3, <1>5, <1>12, <2>2 DEF OrderInv, TakenInOrder
  <2> QED
    BY <2>1, <2>2
<1>14. SentInOrder'
  <2>1. \A t \in DOMAIN txs : txs[t].snapshot <= job.snapshot
    BY <1>7, OrderTyped
  <2> QED
    BY <1>1, <1>5, <1>12, <2>1 DEF OrderInv, SentInOrder
<1> QED
  BY <1>9, <1>10, <1>11, <1>13, <1>14 DEF OrderInv

\* A job of the attestation queue goes on: one for a row the publisher accepts is not
\* delayed and does not come back, and one taken from those waiting is the first.
LEMMA JobGoesKeepsOrder ==
    ASSUME ChainInv, OrderInv, SameRows, UNCHANGED << riskJobs, stacksBlockHeight >>,
           NEW j \in DOMAIN attestJobs, NEW state, NEW tx, NEW attempts, JobGoes(j, state, tx, attempts),
           (Fit(j) => /\ state \in {"waiting", "active", "done"}
                      /\ (state # "done" => attestJobs[j].state # "done")),
           (attestJobs[j].state = "waiting" =>
               \A k \in DOMAIN attestJobs : k < j /\ Fit(k) => attestJobs[k].state = "done")
    PROVE  /\ RisksInOrder' /\ RowsInOrder' /\ JobsInOrder' /\ TakenInOrder'
           /\ \A k \in DOMAIN attestJobs : Fit(k)' <=> Fit(k)
           /\ \A k \in DOMAIN attestJobs : Fit(k) /\ attestJobs'[k].state # "done" => attestJobs[k].state # "done"
<1>1. RisksInOrder' /\ RowsInOrder'
  BY RisksFrame, OrderTyped DEF OrderInv
<1>2. SameJobs
  BY DEF SameJobs, JobGoes
<1>3. JobsInOrder' /\ \A k \in DOMAIN attestJobs : Fit(k)' <=> Fit(k)
  BY <1>2, JobsFrame DEF OrderInv
<1>4. \A k \in DOMAIN attestJobs : Fit(k) /\ attestJobs'[k].state # "done" => attestJobs[k].state # "done"
  BY DEF JobGoes
<1>5. TakenInOrder
  BY DEF OrderInv
<1>6. ASSUME NEW i \in DOMAIN attestJobs, Fit(i)
      PROVE  attestJobs'[i].state \in {"waiting", "active", "done"}
  BY <1>5, <1>6 DEF TakenInOrder, JobGoes
<1>7. ASSUME NEW i \in DOMAIN attestJobs, Fit(i), NEW k \in DOMAIN attestJobs, i < k,
             attestJobs'[k].state # "waiting"
      PROVE  attestJobs'[i].state = "done"
  <2>1. CASE i = j
    <3>1. k # j
      BY <1>7, <2>1, OrderTyped
    <3>2. attestJobs[k].state # "waiting"
      BY <1>7, <3>1 DEF JobGoes
    <3>3. attestJobs[j].state = "done"
      BY <1>5, <1>7, <2>1, <3>2 DEF TakenInOrder
    <3> QED
      BY <1>4, <1>7, <2>1, <3>3
  <2>2. CASE i # j
    <3>1. attestJobs'[i] = attestJobs[i]
      BY <2>2 DEF JobGoes
    <3>2. CASE k = j /\ attestJobs[j].state = "waiting"
      BY <1>7, <3>1, <3>2
    <3>3. CASE k # j \/ attestJobs[j].state # "waiting"
      <4>1. attestJobs[k].state # "waiting"
        BY <1>7, <3>3 DEF JobGoes
      <4> QED
        BY <1>5, <1>7, <3>1, <4>1 DEF TakenInOrder
    <3> QED
      BY <3>2, <3>3
  <2> QED
    BY <2>1, <2>2
<1>8. TakenInOrder'
  BY <1>2, <1>3, <1>6, <1>7 DEF TakenInOrder, SameJobs
<1> QED
  BY <1>1, <1>3, <1>4, <1>8

\* The same where nothing is broadcast.
LEMMA QuietJobKeepsOrder ==
    ASSUME ChainInv, OrderInv, UNCHANGED << riskJobs, snapshots, txs, stacksBlockHeight >>,
           NEW j \in DOMAIN attestJobs, NEW state, NEW tx, NEW attempts, JobGoes(j, state, tx, attempts),
           (Fit(j) => /\ state \in {"waiting", "active", "done"}
                      /\ (state # "done" => attestJobs[j].state # "done")),
           (attestJobs[j].state = "waiting" =>
               \A k \in DOMAIN attestJobs : k < j /\ Fit(k) => attestJobs[k].state = "done")
    PROVE  OrderInv'
<1>1. SameRows
  BY DEF SameRows, RowsKept
<1>2. /\ RisksInOrder' /\ RowsInOrder' /\ JobsInOrder' /\ TakenInOrder'
      /\ \A k \in DOMAIN attestJobs : Fit(k)' <=> Fit(k)
      /\ \A k \in DOMAIN attestJobs : Fit(k) /\ attestJobs'[k].state # "done" => attestJobs[k].state # "done"
  BY <1>1, JobGoesKeepsOrder
<1>3. SentInOrder'
  BY <1>2 DEF OrderInv, SentInOrder, JobGoes
<1> QED
  BY <1>2, <1>3 DEF OrderInv

\* A broadcast is for the first row, of those the publisher accepts, whose job is not done.
LEMMA BroadcastKeepsOrder ==
    ASSUME ChainInv, OrderInv, NEW j \in DOMAIN attestJobs, Broadcast(j)
    PROVE  OrderInv'
<1>1. PICK n : n = Len(txs) + 1
  OBVIOUS
<1>2. /\ DOMAIN txs' = DOMAIN txs \cup {n} /\ \A u \in DOMAIN txs : u < n
      /\ txs'[n].snapshot = attestJobs[j].snapshot
      /\ \A u \in DOMAIN txs : txs'[u] = txs[u]
      /\ attestJobs[j].state = "active" /\ UNCHANGED << registryVars, snapshots >>
      /\ n \in Nat
  BY <1>1, BroadcastAddsTx
<1>3. JobGoes(j, "active", n, attestJobs[j].attempts)
  BY <1>1, AttestActions
<1>4. Fit(j) /\ UNCHANGED << riskJobs, stacksBlockHeight >> /\ SameRows
  BY <1>2 DEF Broadcast, Fit, registryVars, SameRows, RowsKept
<1>5. /\ RisksInOrder' /\ RowsInOrder' /\ JobsInOrder' /\ TakenInOrder'
      /\ \A k \in DOMAIN attestJobs : Fit(k)' <=> Fit(k)
      /\ \A k \in DOMAIN attestJobs : Fit(k) /\ attestJobs'[k].state # "done" => attestJobs[k].state # "done"
  BY <1>2, <1>3, <1>4, JobGoesKeepsOrder
<1>6. \A t \in DOMAIN txs : txs[t].snapshot <= attestJobs[j].snapshot
  BY <1>2, <1>4 DEF OrderInv, SentInOrder
<1>7. ASSUME NEW k \in DOMAIN attestJobs, Fit(k), attestJobs[k].state # "done"
      PROVE  attestJobs[j].snapshot <= attestJobs[k].snapshot
  <2>1. ~(k < j)
    BY <1>2, <1>7 DEF OrderInv, TakenInOrder
  <2>2. CASE k = j
    BY <2>2, OrderTyped
  <2>3. CASE j < k
    <3>1. attestJobs[j].snapshot < attestJobs[k].snapshot
      BY <2>3 DEF OrderInv, JobsInOrder
    <3> QED
      BY <3>1, OrderTyped
  <2>4. k \in Nat /\ j \in Nat
    BY OrderTyped
  <2> QED
    BY <2>1, <2>2, <2>3, <2>4
<1>8. \A k \in DOMAIN attestJobs : attestJobs'[k].snapshot = attestJobs[k].snapshot
  BY <1>3 DEF JobGoes
<1>9. SentInOrder'
  <2>1. ASSUME NEW t \in DOMAIN txs', NEW u \in DOMAIN txs', t < u
        PROVE  txs'[t].snapshot <= txs'[u].snapshot
    <3>1. t # n
      BY <1>2, <2>1, OrderTyped
    <3>2. CASE u = n
      BY <1>2, <1>6, <3>1, <3>2
    <3>3. CASE u # n
      BY <1>2, <2>1, <3>1, <3>3 DEF OrderInv, SentInOrder
    <3> QED
      BY <3>2, <3>3
  <2>2. ASSUME NEW t \in DOMAIN txs', NEW k \in DOMAIN attestJobs, Fit(k), attestJobs[k].state # "done"
        PROVE  txs'[t].snapshot <= attestJobs[k].snapshot
    <3>1. CASE t = n
      BY <1>2, <1>7, <2>2, <3>1
    <3>2. CASE t # n
      BY <1>2, <2>2, <3>2 DEF OrderInv, SentInOrder
    <3> QED
      BY <3>1, <3>2
  <2>3. DOMAIN attestJobs' = DOMAIN attestJobs
    BY <1>3 DEF JobGoes
  <2> QED
    BY <1>5, <1>8, <2>1, <2>2, <2>3 DEF SentInOrder
<1> QED
  BY <1>5, <1>9 DEF OrderInv

\* The steps of the attestation worker.
LEMMA AttestStepsKeepOrder ==
    ASSUME ChainInv, OrderInv, "publishError" \notin FaultKinds, NEW j \in DOMAIN attestJobs,
           AttestStep(j) \/ PublishThrows(j) \/ CrashAttestation(j)
    PROVE  OrderInv'
<1>1. DOMAIN attestJobs = 1..Len(attestJobs) /\ Len(attestJobs) \in Nat
  BY DEF ChainInv, PipelineTypeOK
<1>2. ASSUME Startable(attestJobs, j, 1)
      PROVE  /\ attestJobs[j].state \in {"waiting", "delayed"}
             /\ (attestJobs[j].state = "waiting" =>
                    \A k \in DOMAIN attestJobs : k < j /\ Fit(k) => attestJobs[k].state = "done")
  <2>1. /\ \A k \in DOMAIN attestJobs : attestJobs[k].state # "active"
        /\ attestJobs[j].state \in {"waiting", "delayed"}
        /\ (attestJobs[j].state = "waiting" =>
               \A k \in DOMAIN attestJobs : k < j => attestJobs[k].state # "waiting")
    BY <1>1, <1>2, TakesFirst
  <2> QED
    BY <2>1 DEF OrderInv, TakenInOrder
<1>3. CASE FinishWithoutPublishing(j)
  <2>1. /\ JobGoes(j, "done", attestJobs[j].tx, attestJobs[j].attempts)
        /\ UNCHANGED << riskJobs, snapshots, txs, stacksBlockHeight >> /\ Startable(attestJobs, j, 1)
    BY <1>3, AttestActions DEF FinishWithoutPublishing, registryVars
  <2> QED
    BY <1>2, <2>1, QuietJobKeepsOrder
<1>4. CASE DecideToPublish(j)
  <2>1. /\ JobGoes(j, "active", attestJobs[j].tx, attestJobs[j].attempts)
        /\ UNCHANGED << riskJobs, snapshots, txs, stacksBlockHeight >> /\ Startable(attestJobs, j, 1)
    BY <1>4, AttestActions DEF DecideToPublish, registryVars
  <2> QED
    BY <1>2, <2>1, QuietJobKeepsOrder
<1>5. CASE RefuseReading(j)
  <2>1. /\ \E state \in {"delayed", "failed"} : JobGoes(j, state, 0, attestJobs[j].attempts + 1)
        /\ UNCHANGED << riskJobs, snapshots, txs, stacksBlockHeight >>
        /\ attestJobs[j].state = "active" /\ ~Fit(j)
    BY <1>5, AttestActions DEF RefuseReading, registryVars, Fit
  <2> QED
    BY <2>1, QuietJobKeepsOrder
<1>6. CASE CompleteAttestation(j)
  <2>1. /\ JobGoes(j, "done", attestJobs[j].tx, attestJobs[j].attempts)
        /\ UNCHANGED << riskJobs, snapshots, txs, stacksBlockHeight >>
        /\ attestJobs[j].state = "active"
    BY <1>6, AttestActions DEF CompleteAttestation, registryVars
  <2> QED
    BY <2>1, QuietJobKeepsOrder
<1>7. CASE CrashAttestation(j)
  <2>1. /\ JobGoes(j, "waiting", 0, attestJobs[j].attempts)
        /\ UNCHANGED << riskJobs, snapshots, txs, stacksBlockHeight >>
        /\ attestJobs[j].state = "active"
    BY <1>7, AttestActions DEF CrashAttestation, registryVars
  <2> QED
    BY <2>1, QuietJobKeepsOrder
<1>8. CASE MarkPublished(j)
  <2>1. PICK s : s = attestJobs[j].snapshot
    OBVIOUS
  <2>2. /\ s \in DOMAIN snapshots /\ DOMAIN snapshots' = DOMAIN snapshots
        /\ snapshots'[s].wallet = snapshots[s].wallet
        /\ snapshots'[s].reading = snapshots[s].reading
        /\ snapshots'[s].sourceBlock = snapshots[s].sourceBlock
        /\ \A q \in DOMAIN snapshots : q # s => snapshots'[q] = snapshots[q]
        /\ UNCHANGED << attestJobs, txs, registryVars >>
    BY <1>8, <2>1, MarkSetsTx
  <2>3. UNCHANGED << riskJobs, stacksBlockHeight >> /\ Len(snapshots') = Len(snapshots)
    BY <1>8, <2>2 DEF MarkPublished, registryVars, ChainInv, PipelineTypeOK
  <2>4. SameRows
    BY <2>2, <2>3 DEF SameRows, RowsKept
  <2> QED
    BY <2>2, <2>3, <2>4, OrderFrame, OrderTyped DEF TxRowsKept
<1>9. ~PublishThrows(j)
  BY DEF PublishThrows, Fault
<1> QED
  BY <1>3, <1>4, <1>5, <1>6, <1>7, <1>8, <1>9, BroadcastKeepsOrder DEF AttestStep

\* A payload changes the ids of rows and nothing else of them.
LEMMA PayloadKeepsTable ==
    ASSUME ChainInv, NEW n \in DOMAIN hook, ConfirmAttestations(n) \/ RepeatPayload(n)
    PROVE  SameRows
<1>1. DOMAIN snapshots' = DOMAIN snapshots /\ WorkOK'
  BY PayloadSteps
<1>2. Len(snapshots') = Len(snapshots)
  BY <1>1 DEF ChainInv, PipelineTypeOK, WorkOK, WorkTypeOK
<1>3. ASSUME NEW s \in DOMAIN snapshots
      PROVE  /\ snapshots'[s].wallet = snapshots[s].wallet
             /\ snapshots'[s].reading = snapshots[s].reading
             /\ snapshots'[s].sourceBlock = snapshots[s].sourceBlock
  <2>1. snapshots[s] \in SnapshotRow
    BY RowsTyped DEF ChainInv, PipelineTypeOK, WorkTypeOK
  <2>2. \E new : snapshots'[s] = [snapshots[s] EXCEPT !.onchainSnapshotId = new]
    BY PayloadSteps
  <2> QED
    BY <2>1, <2>2 DEF SnapshotRow
<1> QED
  BY <1>1, <1>2, <1>3 DEF SameRows, RowsKept

\* The fourth layer holds to begin with,
LEMMA InitOrderInv ==
    ASSUME Init
    PROVE  OrderInv
  BY DEF Init, OrderInv, RisksInOrder, RowsInOrder, JobsInOrder, TakenInOrder, SentInOrder

\* and every step keeps it.
LEMMA StepKeepsOrderInv ==
    ASSUME OrderedDeployment, ChainInv, OrderInv, [Next]_vars
    PROVE  OrderInv'
<1>1. /\ stacksBlockHeight' \in Nat /\ stacksBlockHeight <= stacksBlockHeight' /\ TxRowsKept
  BY HeightGrows, StepKeepsTxRows
<1>2. CASE UNCHANGED << riskJobs, snapshots, attestJobs, txs >>
  BY <1>1, <1>2, OrderFrame DEF SameRows, RowsKept
<1>3. CASE UNCHANGED vars \/ Revoke \/ Authorise \/ NewBlock
  BY <1>2, <1>3 DEF vars, workVars, Revoke, Authorise, NewBlock
<1>4. ASSUME NEW i \in DOMAIN riskJobs, RiskStep(i) \/ RiskThrows(i) PROVE OrderInv'
  <2>1. ~RiskThrows(i)
    BY DEF RiskThrows, Fault, OrderedDeployment
  <2> QED
    BY <1>4, <2>1, StartRiskKeepsOrder, PersistKeepsOrder, EnqueueKeepsOrder DEF RiskStep, OrderedDeployment
<1>5. ASSUME NEW j \in DOMAIN attestJobs, AttestStep(j) \/ PublishThrows(j) \/ CrashAttestation(j)
      PROVE  OrderInv'
  BY <1>5, AttestStepsKeepOrder DEF OrderedDeployment
<1>6. ASSUME NEW t \in DOMAIN txs, ExecuteTx(t) \/ AbortTx(t) \/ Reorganise(t) PROVE OrderInv'
  <2>1. (\E state, id : TxGoes(t, state, id)) /\ UNCHANGED << riskJobs, snapshots, attestJobs >>
    BY <1>6, StepKeepsRegistry, TxSteps
  <2>2. DOMAIN txs' = DOMAIN txs
    BY <2>1 DEF TxGoes
  <2> QED
    BY <1>1, <2>1, <2>2, OrderFrame DEF SameRows, RowsKept
<1>7. ASSUME NEW n \in DOMAIN hook, ConfirmAttestations(n) \/ RepeatPayload(n) PROVE OrderInv'
  <2>1. UNCHANGED << riskJobs, attestJobs, txs >>
    BY <1>7, PayloadSteps
  <2> QED
    BY <1>1, <1>7, <2>1, OrderFrame, PayloadKeepsTable
<1> QED
  BY <1>3, <1>4, <1>5, <1>6, <1>7, RequestKeepsOrder DEF Next

\* Ids of a wallet are in the order of its transactions, these of their rows, these of
\* their blocks.
LEMMA OrderedChain ==
    ASSUME ChainInv, OrderInv
    PROVE  ChainNeverRegresses
<1> SUFFICES ASSUME NEW k \in DOMAIN riskSnapshots, NEW l \in DOMAIN riskSnapshots,
                    k[1] = l[1], k[2] <= l[2]
             PROVE  riskSnapshots[k].sourceBlock <= riskSnapshots[l].sourceBlock
  BY DEF ChainNeverRegresses
<1>1. /\ WorkTypeOK /\ RegistryInv /\ IdsOnChain /\ IdsIncrease /\ IdsHaveTx
      /\ RowsInOrder /\ SentInOrder
  BY DEF ChainInv, IdsOfTxs, PipelineTypeOK, WorkTypeOK, OrderInv
<1>2. ASSUME NEW key \in DOMAIN riskSnapshots
      PROVE  \E t \in DOMAIN txs : /\ Executed(t) /\ key = << WalletOf(t), txs[t].id >>
                                   /\ txs[t].id \in Nat
                                   /\ riskSnapshots[key].sourceBlock = TxRow(t).sourceBlock
  <2>1. /\ key[1] \in Wallets /\ key[2] \in 1..latestSnapshotId[key[1]] /\ key = << key[1], key[2] >>
        /\ key[2] \in Nat
    BY <1>1, RegistryAssumption DEF RegistryInv, TypeOK, IdsContiguous, SnapshotKeys
  <2>2. PICK t \in DOMAIN txs : Executed(t) /\ WalletOf(t) = key[1] /\ txs[t].id = key[2]
    BY <1>1, <2>1 DEF IdsHaveTx
  <2>3. riskSnapshots[<< WalletOf(t), txs[t].id >>].sourceBlock = TxRow(t).sourceBlock
    BY <1>1, <2>2 DEF IdsOnChain
  <2> QED
    BY <2>1, <2>2, <2>3
<1>3. PICK t \in DOMAIN txs : /\ Executed(t) /\ k = << WalletOf(t), txs[t].id >> /\ txs[t].id \in Nat
                              /\ riskSnapshots[k].sourceBlock = TxRow(t).sourceBlock
  BY <1>2
<1>4. PICK u \in DOMAIN txs : /\ Executed(u) /\ l = << WalletOf(u), txs[u].id >> /\ txs[u].id \in Nat
                              /\ riskSnapshots[l].sourceBlock = TxRow(u).sourceBlock
  BY <1>2
<1>5. ~(u < t)
  <2>1. WalletOf(u) = WalletOf(t) /\ txs[t].id <= txs[u].id
    BY <1>3, <1>4
  <2>2. u < t => txs[u].id < txs[t].id
    BY <1>1, <1>3, <1>4, <2>1 DEF IdsIncrease
  <2> QED
    BY <1>3, <1>4, <2>1, <2>2
<1>6. /\ txs[t].snapshot \in DOMAIN snapshots /\ txs[u].snapshot \in DOMAIN snapshots
      /\ txs[t].snapshot \in Nat /\ txs[u].snapshot \in Nat /\ t \in Nat /\ u \in Nat
      /\ TxRow(t).sourceBlock \in Nat
  BY OrderTyped DEF TxRow
<1>7. txs[t].snapshot <= txs[u].snapshot
  <2>1. t < u => txs[t].snapshot <= txs[u].snapshot
    BY <1>1 DEF SentInOrder
  <2> QED
    BY <1>5, <1>6, <2>1
<1>8. TxRow(t).sourceBlock <= TxRow(u).sourceBlock
  <2>1. txs[t].snapshot < txs[u].snapshot => TxRow(t).sourceBlock <= TxRow(u).sourceBlock
    BY <1>1, <1>6 DEF RowsInOrder, TxRow
  <2>2. txs[t].snapshot = txs[u].snapshot => TxRow(t).sourceBlock <= TxRow(u).sourceBlock
    BY <1>6 DEF TxRow
  <2> QED
    BY <1>6, <1>7, <2>1, <2>2
<1> QED
  BY <1>3, <1>4, <1>8

-----------------------------------------------------------------------------
(* What the throttle compares with.  Where the worker does not die between *)
(* broadcasting a transaction and recording it, the row it takes for the   *)
(* last published is that of the wallet's last transaction, on record or   *)
(* not: so no transaction repeats the one before it.                       *)

\* Each transaction is on record, or the job that broadcast it is still in hand.
TxsRecorded ==
    \A t \in DOMAIN txs :
        \/ snapshots[txs[t].snapshot].onchainTxId = t
        \/ \E j \in DOMAIN attestJobs : attestJobs[j].state = "active" /\ attestJobs[j].tx = t

\* Row s tells a wallet's readers nothing that its last transaction t has not told them
\* less than the minimum interval ago.
Stale(t, s) ==
    /\ TxRow(t).wallet = snapshots[s].wallet
    /\ \A v \in DOMAIN txs : t < v => TxRow(v).wallet # snapshots[s].wallet
    /\ TxRow(t).reading = snapshots[s].reading
    /\ snapshots[s].sourceBlock - TxRow(t).sourceBlock < MinIntervalBlocks

\* The decision a job acts on is still right when it broadcasts.
DecisionStands ==
    \A j \in DOMAIN attestJobs :
        attestJobs[j].state = "active" /\ attestJobs[j].tx = 0
            => \A t \in DOMAIN txs : ~Stale(t, attestJobs[j].snapshot)

ThrottleInv == TxsRecorded /\ DecisionStands /\ NoRedundantAttestation

\* What the layer is proved under.
SteadyDeployment == OrderedDeployment /\ "crash" \notin FaultKinds

\* With nothing in hand, the last published row is that of the wallet's last transaction.
LEMMA LastPublishedIsLastSent ==
    ASSUME ChainInv, RecordInv, OrderInv, TxsRecorded, NEW s \in DOMAIN snapshots,
           snapshots[s].onchainTxId = 0,
           \A k \in DOMAIN attestJobs : attestJobs[k].state # "active",
           NEW t \in DOMAIN txs, TxRow(t).wallet = snapshots[s].wallet,
           \A v \in DOMAIN txs : t < v => TxRow(v).wallet # snapshots[s].wallet
    PROVE  Published(s) # {} /\ LastPublished(s) = txs[t].snapshot
<1>1. PICK p : p = txs[t].snapshot
  OBVIOUS
<1>2. /\ \A u \in DOMAIN txs : snapshots[txs[u].snapshot].onchainTxId = u
      /\ \A u \in DOMAIN txs : u \in Nat
      /\ p \in DOMAIN snapshots /\ t # 0
  <2>1. 0 \notin DOMAIN txs
    BY DEF ChainInv, PipelineTypeOK
  <2> QED
    BY <1>1, <2>1, OrderTyped DEF TxsRecorded
<1>3. p \in Published(s)
  <2>1. p # s /\ snapshots[p].onchainTxId # 0 /\ snapshots[p].wallet = snapshots[s].wallet
    BY <1>1, <1>2 DEF TxRow
  <2> QED
    BY <1>2, <2>1 DEF Published
<1>4. ASSUME NEW q \in Published(s)
      PROVE  /\ q \in DOMAIN snapshots /\ q <= p
             /\ snapshots[q].sourceBlock <= snapshots[p].sourceBlock
  <2>1. q \in DOMAIN snapshots /\ snapshots[q].wallet = snapshots[s].wallet /\ snapshots[q].onchainTxId # 0
    BY <1>4 DEF Published
  <2>2. PICK u : u = snapshots[q].onchainTxId
    OBVIOUS
  <2>3. u \in DOMAIN txs /\ txs[u].snapshot = q
    <3>1. u \in DOMAIN txs
      BY <2>1, <2>2, RowsTyped DEF ChainInv, PipelineTypeOK, WorkTypeOK
    <3>2. txs[u].snapshot = q
      BY <2>1, <2>2 DEF RecordInv, RowsOK
    <3> QED
      BY <3>1, <3>2
  <2>4. ~(t < u)
    BY <2>1, <2>3 DEF TxRow
  <2>5. u < t => q <= p
    BY <1>1, <2>3 DEF OrderInv, SentInOrder
  <2>6. u = t => q = p
    BY <1>1, <2>3
  <2>7. q \in Nat /\ p \in Nat /\ u \in Nat /\ t \in Nat
    BY <1>2, <2>1, <2>3, OrderTyped
  <2>8. q <= p
    BY <2>4, <2>5, <2>6, <2>7
  <2>9. q < p => snapshots[q].sourceBlock <= snapshots[p].sourceBlock
    BY <1>2, <2>1 DEF OrderInv, RowsInOrder
  <2>10. snapshots[p].sourceBlock <= snapshots[p].sourceBlock
    BY <1>2, OrderTyped
  <2> QED
    BY <2>1, <2>7, <2>8, <2>9, <2>10
<1>5. \A q \in Published(s) : Later(p, q)
  <2> SUFFICES ASSUME NEW q \in Published(s) PROVE Later(p, q)
    OBVIOUS
  <2>1. q \in DOMAIN snapshots /\ q <= p /\ snapshots[q].sourceBlock <= snapshots[p].sourceBlock
    BY <1>4
  <2>2. snapshots[q].sourceBlock \in Nat /\ snapshots[p].sourceBlock \in Nat /\ q \in Nat /\ p \in Nat
    BY <1>2, <2>1, OrderTyped
  <2> QED
    BY <2>1, <2>2 DEF Later
<1>6. PICK last : last = LastPublished(s)
  OBVIOUS
<1>7. last \in Published(s) /\ \A q \in Published(s) : Later(last, q)
  BY <1>3, <1>5, <1>6 DEF LastPublished
<1>8. /\ last \in DOMAIN snapshots /\ last <= p
      /\ snapshots[last].sourceBlock <= snapshots[p].sourceBlock
  BY <1>4, <1>7
<1>9. /\ snapshots[last].sourceBlock \in Nat /\ snapshots[p].sourceBlock \in Nat
      /\ last \in Nat /\ p \in Nat
  BY <1>2, <1>8, OrderTyped
<1>10. Later(last, p)
  BY <1>3, <1>7
<1>11. last >= p
  BY <1>8, <1>9, <1>10 DEF Later
<1>12. last = p
  BY <1>8, <1>9, <1>11
<1> QED
  BY <1>1, <1>3, <1>6, <1>12

\* A job decides to publish only what the wallet's last transaction does not tell.
LEMMA DecisionIsRight ==
    ASSUME ChainInv, RecordInv, OrderInv, TxsRecorded, NEW s \in DOMAIN snapshots,
           snapshots[s].onchainTxId = 0, DecideAttestation(s),
           \A k \in DOMAIN attestJobs : attestJobs[k].state # "active",
           NEW t \in DOMAIN txs
    PROVE  ~Stale(t, s)
<1> SUFFICES ASSUME Stale(t, s) PROVE FALSE
  OBVIOUS
<1>1. Published(s) # {} /\ LastPublished(s) = txs[t].snapshot
  BY LastPublishedIsLastSent DEF Stale
<1>2. /\ TxRow(t).reading = snapshots[s].reading
      /\ snapshots[s].sourceBlock - TxRow(t).sourceBlock < MinIntervalBlocks
  BY DEF Stale
<1>3. ~(snapshots[s].sourceBlock - TxRow(t).sourceBlock >= MinIntervalBlocks)
  <2>1. snapshots[s].sourceBlock \in Nat /\ TxRow(t).sourceBlock \in Nat /\ MinIntervalBlocks \in Nat
    BY OrderTyped, PipelineAssumption DEF TxRow
  <2> QED
    BY <1>2, <2>1
<1> QED
  BY <1>1, <1>2, <1>3 DEF DecideAttestation, TxRow

\* What two transactions tell does not change.
LEMMA SameRepeats ==
    ASSUME ChainInv, RowsKept, TxRowsKept, NEW t \in DOMAIN txs
    PROVE  /\ TxRow(t)'.wallet = TxRow(t).wallet
           /\ TxRow(t)'.reading = TxRow(t).reading
           /\ TxRow(t)'.sourceBlock = TxRow(t).sourceBlock
           /\ \A u \in DOMAIN txs : Repeats(t, u)' <=> Repeats(t, u)
<1>1. ASSUME NEW v \in DOMAIN txs
      PROVE  /\ TxRow(v)'.wallet = TxRow(v).wallet
             /\ TxRow(v)'.reading = TxRow(v).reading
             /\ TxRow(v)'.sourceBlock = TxRow(v).sourceBlock
  <2>1. txs[v].snapshot \in DOMAIN snapshots
    BY OrderTyped
  <2> QED
    BY <2>1 DEF TxRow, RowsKept, TxRowsKept
<1>2. ASSUME NEW u \in DOMAIN txs
      PROVE  Repeats(t, u)' <=> Repeats(t, u)
  <2>1. (t + 1)..(u - 1) \subseteq DOMAIN txs
    <3>1. DOMAIN txs = 1..Len(txs) /\ Len(txs) \in Nat
      BY DEF ChainInv, PipelineTypeOK
    <3> QED
      BY <3>1
  <2> QED
    BY <1>1, <2>1 DEF Repeats
<1> QED
  BY <1>1, <1>2

\* No transaction added: what they tell, and whether one repeats another, stays.
LEMMA SameTold ==
    ASSUME ChainInv, RowsKept, TxRowsKept, DOMAIN txs' = DOMAIN txs
    PROVE  /\ \A t \in DOMAIN txs : \A s \in DOMAIN snapshots : Stale(t, s)' <=> Stale(t, s)
           /\ NoRedundantAttestation => NoRedundantAttestation'
  BY SameRepeats DEF Stale, RowsKept, NoRedundantAttestation

\* A step that broadcasts nothing keeps the layer when it takes no transaction off the
\* record or out of hand, and no job acts on a decision it did not act on before.
LEMMA ThrottleFrame ==
    ASSUME ChainInv, ThrottleInv, RowsKept, TxRowsKept, DOMAIN txs' = DOMAIN txs,
           \A t \in DOMAIN txs :
              \/ snapshots[txs[t].snapshot].onchainTxId = t
              \/ \E j \in DOMAIN attestJobs : attestJobs[j].state = "active" /\ attestJobs[j].tx = t
              => \/ snapshots'[txs[t].snapshot].onchainTxId = t
                 \/ \E j \in DOMAIN attestJobs' : attestJobs'[j].state = "active" /\ attestJobs'[j].tx = t,
           \A j \in DOMAIN attestJobs' :
              attestJobs'[j].state = "active" /\ attestJobs'[j].tx = 0 =>
                 /\ attestJobs'[j].snapshot \in DOMAIN snapshots
                 /\ \A t \in DOMAIN txs : ~Stale(t, attestJobs'[j].snapshot)
    PROVE  ThrottleInv'
<1>1. \A t \in DOMAIN txs : txs'[t].snapshot = txs[t].snapshot
  BY DEF TxRowsKept
<1>2. TxsRecorded'
  BY <1>1 DEF ThrottleInv, TxsRecorded
<1>3. /\ \A t \in DOMAIN txs : \A s \in DOMAIN snapshots : Stale(t, s)' <=> Stale(t, s)
      /\ NoRedundantAttestation'
  BY SameTold DEF ThrottleInv
<1>4. DecisionStands'
  BY <1>3 DEF DecisionStands
<1> QED
  BY <1>2, <1>3, <1>4 DEF ThrottleInv

\* Steps that change no job of the attestation queue and no row's transaction.
LEMMA ThrottleStays ==
    ASSUME ChainInv, ThrottleInv, RowsKept, TxRowsKept, DOMAIN txs' = DOMAIN txs,
           RowTxsKept, UNCHANGED attestJobs
    PROVE  ThrottleInv'
<1>1. \A t \in DOMAIN txs : snapshots'[txs[t].snapshot].onchainTxId = snapshots[txs[t].snapshot].onchainTxId
  BY OrderTyped DEF RowTxsKept
<1>2. \A j \in DOMAIN attestJobs :
         attestJobs[j].state = "active" /\ attestJobs[j].tx = 0 =>
            /\ attestJobs[j].snapshot \in DOMAIN snapshots
            /\ \A t \in DOMAIN txs : ~Stale(t, attestJobs[j].snapshot)
  BY OrderTyped DEF ThrottleInv, DecisionStands
<1> QED
  BY <1>1, <1>2, ThrottleFrame

\* A job goes on: it lets go of its transaction only once that is on record, and acts only
\* on a decision that is right.
LEMMA JobGoesKeepsThrottle ==
    ASSUME ChainInv, ThrottleInv, UNCHANGED << snapshots, txs >>,
           NEW j \in DOMAIN attestJobs, NEW state, NEW tx, NEW attempts, JobGoes(j, state, tx, attempts),
           attestJobs[j].state = "active" /\ attestJobs[j].tx # 0 =>
              \/ state = "active" /\ tx = attestJobs[j].tx
              \/ snapshots[txs[attestJobs[j].tx].snapshot].onchainTxId = attestJobs[j].tx,
           state = "active" /\ tx = 0 => \A t \in DOMAIN txs : ~Stale(t, attestJobs[j].snapshot)
    PROVE  ThrottleInv'
<1>1. RowsKept /\ TxRowsKept /\ DOMAIN txs' = DOMAIN txs /\ DOMAIN attestJobs' = DOMAIN attestJobs
  BY DEF RowsKept, TxRowsKept, JobGoes
<1>2. ASSUME NEW t \in DOMAIN txs, NEW k \in DOMAIN attestJobs,
             attestJobs[k].state = "active", attestJobs[k].tx = t
      PROVE  \/ snapshots'[txs[t].snapshot].onchainTxId = t
             \/ \E i \in DOMAIN attestJobs' : attestJobs'[i].state = "active" /\ attestJobs'[i].tx = t
  <2>1. t # 0
    BY DEF ChainInv, PipelineTypeOK
  <2> QED
    BY <1>1, <1>2, <2>1 DEF JobGoes
<1>3. ASSUME NEW k \in DOMAIN attestJobs', attestJobs'[k].state = "active", attestJobs'[k].tx = 0
      PROVE  /\ attestJobs'[k].snapshot \in DOMAIN snapshots
             /\ \A t \in DOMAIN txs : ~Stale(t, attestJobs'[k].snapshot)
  <2>1. attestJobs'[k].snapshot = attestJobs[k].snapshot /\ attestJobs[k].snapshot \in DOMAIN snapshots
    BY <1>1, OrderTyped DEF JobGoes
  <2> QED
    BY <1>1, <1>3, <2>1 DEF JobGoes, ThrottleInv, DecisionStands
<1> QED
  BY <1>1, <1>2, <1>3, ThrottleFrame

\* A broadcast is of what the decision found worth a transaction.
LEMMA BroadcastKeepsThrottle ==
    ASSUME ChainInv, RecordInv, ThrottleInv, NEW j \in DOMAIN attestJobs, Broadcast(j)
    PROVE  ThrottleInv'
<1>1. PICK n, s : n = Len(txs) + 1 /\ s = attestJobs[j].snapshot
  OBVIOUS
<1>2. /\ DOMAIN txs' = DOMAIN txs \cup {n} /\ n \notin DOMAIN txs /\ n \in Nat \ {0}
      /\ \A u \in DOMAIN txs : u < n
      /\ txs'[n].snapshot = s
      /\ \A u \in DOMAIN txs : txs'[u] = txs[u]
      /\ attestJobs[j].state = "active" /\ attestJobs[j].tx = 0
      /\ UNCHANGED << registryVars, snapshots >>
  BY <1>1, BroadcastAddsTx
<1>3. JobGoes(j, "active", n, attestJobs[j].attempts)
  BY <1>1, AttestActions
<1>4. \A k \in DOMAIN attestJobs : k # j => attestJobs[k].state # "active"
  BY <1>2 DEF RecordInv, OneAttestation
<1>5. \A t \in DOMAIN txs : ~Stale(t, s) /\ snapshots[txs[t].snapshot].onchainTxId = t
  <2>1. 0 \notin DOMAIN txs
    BY DEF ChainInv, PipelineTypeOK
  <2> QED
    BY <1>1, <1>2, <1>4, <2>1 DEF ThrottleInv, TxsRecorded, DecisionStands
<1>6. RowsKept /\ TxRowsKept
  BY <1>2 DEF RowsKept, TxRowsKept
<1>7. TxsRecorded'
  BY <1>2, <1>3, <1>5 DEF TxsRecorded, JobGoes
<1>8. DecisionStands'
  BY <1>2, <1>3, <1>4 DEF DecisionStands, JobGoes
<1>9. ASSUME NEW t \in DOMAIN txs, Repeats(t, n)'
      PROVE  FALSE
  <2>1. /\ TxRow(n)' = snapshots[s]
        /\ \A v \in DOMAIN txs : TxRow(v)' = TxRow(v)
    BY <1>2 DEF TxRow
  <2>2. \A v \in DOMAIN txs : t < v => v \in (t + 1)..(n - 1)
    <3>1. DOMAIN txs \subseteq Nat
      BY OrderTyped
    <3> QED
      BY <1>2, <3>1
  <2>3. Stale(t, s)
    BY <1>9, <2>1, <2>2 DEF Repeats, Stale
  <2> QED
    BY <1>5, <2>3
<1>10. NoRedundantAttestation'
  <2> SUFFICES ASSUME NEW t \in DOMAIN txs', NEW u \in DOMAIN txs', t < u PROVE ~Repeats(t, u)'
    BY DEF NoRedundantAttestation
  <2>1. t \in DOMAIN txs
    <3>1. DOMAIN txs \subseteq Nat
      BY OrderTyped
    <3> QED
      BY <1>2, <3>1
  <2>2. CASE u = n
    BY <1>9, <2>1, <2>2
  <2>3. CASE u # n
    <3>1. u \in DOMAIN txs
      BY <1>2, <2>3
    <3> QED
      BY <1>6, <2>1, <3>1, SameRepeats DEF ThrottleInv, NoRedundantAttestation
  <2> QED
    BY <2>2, <2>3
<1> QED
  BY <1>7, <1>8, <1>10 DEF ThrottleInv

\* The steps of the attestation worker.
LEMMA AttestStepsKeepThrottle ==
    ASSUME ChainInv, RecordInv, OrderInv, ThrottleInv,
           "publishError" \notin FaultKinds, "crash" \notin FaultKinds,
           NEW j \in DOMAIN attestJobs, AttestStep(j) \/ PublishThrows(j) \/ CrashAttestation(j)
    PROVE  ThrottleInv'
<1>1. JobHoldsRow(attestJobs[j]) /\ JobForgetsTx(attestJobs[j]) /\ attestJobs[j].snapshot \in DOMAIN snapshots
  BY OrderTyped DEF RecordInv, JobsOK
<1>2. CASE FinishWithoutPublishing(j)
  <2>1. /\ JobGoes(j, "done", attestJobs[j].tx, attestJobs[j].attempts)
        /\ UNCHANGED << snapshots, txs >> /\ Startable(attestJobs, j, 1)
    BY <1>2, AttestActions DEF FinishWithoutPublishing
  <2>2. attestJobs[j].state # "active"
    BY <2>1, StartsAlone DEF ChainInv, PipelineTypeOK, WorkTypeOK
  <2> QED
    BY <2>1, <2>2, JobGoesKeepsThrottle
<1>3. CASE DecideToPublish(j)
  <2>1. /\ JobGoes(j, "active", attestJobs[j].tx, attestJobs[j].attempts)
        /\ \A k \in DOMAIN attestJobs : attestJobs[k].state # "active"
        /\ snapshots[attestJobs[j].snapshot].onchainTxId = 0
    BY <1>3, AttestActions
  <2>2. UNCHANGED << snapshots, txs >> /\ DecideAttestation(attestJobs[j].snapshot)
    BY <1>3 DEF DecideToPublish
  <2>3. \A t \in DOMAIN txs : ~Stale(t, attestJobs[j].snapshot)
    BY <1>1, <2>1, <2>2, DecisionIsRight DEF ThrottleInv
  <2> QED
    BY <2>1, <2>2, <2>3, JobGoesKeepsThrottle
<1>4. CASE RefuseReading(j)
  <2>1. /\ \E state \in {"delayed", "failed"} : JobGoes(j, state, 0, attestJobs[j].attempts + 1)
        /\ UNCHANGED << snapshots, txs >> /\ attestJobs[j].tx = 0
    BY <1>4, AttestActions DEF RefuseReading
  <2> QED
    BY <2>1, JobGoesKeepsThrottle
<1>5. CASE CompleteAttestation(j)
  <2>1. /\ JobGoes(j, "done", attestJobs[j].tx, attestJobs[j].attempts)
        /\ UNCHANGED << snapshots, txs >> /\ attestJobs[j].state = "active" /\ attestJobs[j].tx # 0
        /\ snapshots[attestJobs[j].snapshot].onchainTxId = attestJobs[j].tx
    BY <1>5, AttestActions DEF CompleteAttestation
  <2>2. txs[attestJobs[j].tx].snapshot = attestJobs[j].snapshot
    BY <1>1, <2>1 DEF JobHoldsRow
  <2> QED
    BY <2>1, <2>2, JobGoesKeepsThrottle
<1>6. CASE MarkPublished(j)
  <2>1. PICK s : s = attestJobs[j].snapshot
    OBVIOUS
  <2>2. /\ s \in DOMAIN snapshots /\ DOMAIN snapshots' = DOMAIN snapshots
        /\ attestJobs[j].state = "active" /\ attestJobs[j].tx \in DOMAIN txs
        /\ snapshots[s].onchainTxId # attestJobs[j].tx
        /\ snapshots'[s].wallet = snapshots[s].wallet
        /\ snapshots'[s].reading = snapshots[s].reading
        /\ snapshots'[s].sourceBlock = snapshots[s].sourceBlock
        /\ \A q \in DOMAIN snapshots : q # s => snapshots'[q] = snapshots[q]
        /\ UNCHANGED << attestJobs, txs >>
    BY <1>6, <2>1, MarkSetsTx
  <2>3. 0 \notin DOMAIN txs
    BY DEF ChainInv, PipelineTypeOK
  <2>4. snapshots[s].onchainTxId = 0
    BY <1>1, <2>1, <2>2, <2>3 DEF JobHoldsRow
  <2>5. RowsKept /\ TxRowsKept /\ DOMAIN txs' = DOMAIN txs
    BY <2>2 DEF RowsKept, TxRowsKept
  <2>6. ASSUME NEW t \in DOMAIN txs, snapshots[txs[t].snapshot].onchainTxId = t
        PROVE  snapshots'[txs[t].snapshot].onchainTxId = t
    <3>1. txs[t].snapshot # s /\ txs[t].snapshot \in DOMAIN snapshots
      BY <2>3, <2>4, <2>6, OrderTyped
    <3> QED
      BY <2>2, <2>6, <3>1
  <2>7. \A k \in DOMAIN attestJobs :
           attestJobs[k].state = "active" /\ attestJobs[k].tx = 0 =>
              /\ attestJobs[k].snapshot \in DOMAIN snapshots
              /\ \A t \in DOMAIN txs : ~Stale(t, attestJobs[k].snapshot)
    BY OrderTyped DEF ThrottleInv, DecisionStands
  <2> QED
    BY <2>2, <2>5, <2>6, <2>7, ThrottleFrame
<1>7. ~PublishThrows(j) /\ ~CrashAttestation(j)
  BY DEF PublishThrows, CrashAttestation, Fault
<1> QED
  BY <1>2, <1>3, <1>4, <1>5, <1>6, <1>7, BroadcastKeepsThrottle DEF AttestStep

\* The steps of the risk worker.
LEMMA RiskStepsKeepThrottle ==
    ASSUME ChainInv, ThrottleInv, NEW i \in DOMAIN riskJobs, RiskStep(i) \/ RiskThrows(i)
    PROVE  ThrottleInv'
<1>1. ASSUME NEW r \in Readings, PersistSnapshot(i, r) PROVE ThrottleInv'
  <2>1. RowsKept /\ RowTxsKept /\ UNCHANGED << attestJobs, txs >>
    BY <1>1, PersistAddsRow DEF RowsKept, RowTxsKept
  <2> QED
    BY <2>1, ThrottleStays DEF TxRowsKept
<1>2. CASE StartRisk(i) \/ RiskThrows(i)
  <2>1. UNCHANGED << snapshots, attestJobs, txs >>
    BY <1>2 DEF StartRisk, RiskThrows
  <2> QED
    BY <2>1, ThrottleStays DEF RowsKept, RowTxsKept, TxRowsKept
<1>3. CASE EnqueueAttestation(i)
  <2>1. PICK n, job : n = Len(attestJobs) + 1 /\ job = AttestJob(riskJobs[i].snapshot)
    OBVIOUS
  <2>2. attestJobs' = Append(attestJobs, job) /\ UNCHANGED << snapshots, txs >>
    BY <1>3, <2>1 DEF EnqueueAttestation
  <2>3. job.state = "waiting"
    BY <2>1 DEF AttestJob
  <2>4. attestJobs \in Seq(AttestJobRecord)
    BY DEF ChainInv, PipelineTypeOK
  <2>5. attestJobs \in Seq(AttestJobRecord \cup {job})
    BY <2>4, SeqGrows
  <2>6. /\ DOMAIN attestJobs' = DOMAIN attestJobs \cup {n} /\ attestJobs'[n] = job
        /\ \A k \in DOMAIN attestJobs : attestJobs'[k] = attestJobs[k]
    BY <2>1, <2>2, <2>5, Appended
  <2>7. \A k \in DOMAIN attestJobs' :
           attestJobs'[k].state = "active" /\ attestJobs'[k].tx = 0 =>
              /\ attestJobs'[k].snapshot \in DOMAIN snapshots
              /\ \A t \in DOMAIN txs : ~Stale(t, attestJobs'[k].snapshot)
    BY <2>3, <2>6, OrderTyped DEF ThrottleInv, DecisionStands
  <2>8. RowsKept /\ TxRowsKept /\ DOMAIN txs' = DOMAIN txs
    BY <2>2 DEF RowsKept, TxRowsKept
  <2> QED
    BY <2>2, <2>6, <2>7, <2>8, ThrottleFrame
<1> QED
  BY <1>1, <1>2, <1>3 DEF RiskStep

\* The fifth layer holds to begin with,
LEMMA InitThrottleInv ==
    ASSUME Init
    PROVE  ThrottleInv
  BY DEF Init, ThrottleInv, TxsRecorded, DecisionStands, NoRedundantAttestation

\* and every step keeps it.
LEMMA StepKeepsThrottleInv ==
    ASSUME SteadyDeployment, ChainInv, RecordInv, OrderInv, ThrottleInv, [Next]_vars
    PROVE  ThrottleInv'
<1>1. TxRowsKept
  BY StepKeepsTxRows
<1>2. CASE UNCHANGED << snapshots, attestJobs >> /\ DOMAIN txs' = DOMAIN txs
  BY <1>1, <1>2, ThrottleStays DEF RowsKept, RowTxsKept
<1>3. CASE UNCHANGED vars \/ Revoke \/ Authorise \/ NewBlock \/ \E w \in Wallets : RequestRisk(w)
  <2>1. UNCHANGED << snapshots, attestJobs, txs >>
    BY <1>3 DEF vars, workVars, Revoke, Authorise, NewBlock, RequestRisk
  <2> QED
    BY <1>2, <2>1
<1>4. ASSUME NEW i \in DOMAIN riskJobs, RiskStep(i) \/ RiskThrows(i) PROVE ThrottleInv'
  BY <1>4, RiskStepsKeepThrottle
<1>5. ASSUME NEW j \in DOMAIN attestJobs, AttestStep(j) \/ PublishThrows(j) \/ CrashAttestation(j)
      PROVE  ThrottleInv'
  BY <1>5, AttestStepsKeepThrottle DEF SteadyDeployment, OrderedDeployment
<1>6. ASSUME NEW t \in DOMAIN txs, ExecuteTx(t) \/ AbortTx(t) \/ Reorganise(t) PROVE ThrottleInv'
  <2>1. (\E state, id : TxGoes(t, state, id)) /\ UNCHANGED << snapshots, attestJobs >>
    BY <1>6, StepKeepsRegistry, TxSteps
  <2>2. DOMAIN txs' = DOMAIN txs
    BY <2>1 DEF TxGoes
  <2> QED
    BY <1>2, <2>1, <2>2
<1>7. ASSUME NEW n \in DOMAIN hook, ConfirmAttestations(n) \/ RepeatPayload(n) PROVE ThrottleInv'
  <2>1. UNCHANGED << attestJobs, txs >>
    BY <1>7, PayloadSteps
  <2>2. RowsKept /\ RowTxsKept
    BY <1>7, PayloadKeepsTable, PayloadKeepsBlank DEF SameRows
  <2> QED
    BY <1>1, <2>1, <2>2, ThrottleStays
<1> QED
  BY <1>3, <1>4, <1>5, <1>6, <1>7 DEF Next

-----------------------------------------------------------------------------
(* What readers see.  Where the publisher keeps its authority, no          *)
(* transaction fails: it is in range and its block is behind the chain's.  *)

NoneAborts ==
    /\ Publisher \in authorizedPublishers
    /\ \A t \in DOMAIN txs : txs[t].state # "aborted" /\ InRange(TxRow(t).reading)

TrustedDeployment == SteadyDeployment /\ "revoke" \notin FaultKinds

\* No step takes the publisher's authority.
LEMMA AuthorityStays ==
    ASSUME TrustedDeployment, Publisher \in authorizedPublishers, [Next]_vars
    PROVE  Publisher \in authorizedPublishers'
<1>1. CASE UNCHANGED vars \/ NewBlock \/ \E w \in Wallets : RequestRisk(w)
  BY <1>1 DEF vars, registryVars, NewBlock, RequestRisk, MineBlock, adminVars
<1>2. ~Revoke /\ ~Authorise
  BY DEF Revoke, Authorise, Fault, TrustedDeployment
<1>3. CASE \E i \in DOMAIN riskJobs : RiskStep(i) \/ RiskThrows(i)
  BY <1>3 DEF RiskStep, StartRisk, PersistSnapshot, EnqueueAttestation, RiskThrows, registryVars
<1>4. CASE \E j \in DOMAIN attestJobs : AttestStep(j) \/ PublishThrows(j) \/ CrashAttestation(j)
  BY <1>4 DEF AttestStep, FinishWithoutPublishing, DecideToPublish, Broadcast, RefuseReading,
     MarkPublished, CompleteAttestation, PublishThrows, CrashAttestation, registryVars
<1>5. CASE \E t \in DOMAIN txs : ExecuteTx(t) \/ AbortTx(t) \/ Reorganise(t)
  BY <1>5 DEF ExecuteTx, AbortTx, Reorganise, PublishRiskSnapshot, registryVars, adminVars
<1>6. CASE \E n \in DOMAIN hook : ConfirmAttestations(n) \/ RepeatPayload(n)
  BY <1>6 DEF ConfirmAttestations, RepeatPayload, registryVars
<1> QED
  BY <1>1, <1>2, <1>3, <1>4, <1>5, <1>6 DEF Next

\* The steps of transactions: none of them is that of failing.
LEMMA TxStepsKeepNone ==
    ASSUME ChainInv, OrderInv, NoneAborts, NEW t \in DOMAIN txs,
           ExecuteTx(t) \/ AbortTx(t) \/ Reorganise(t)
    PROVE  /\ DOMAIN txs' = DOMAIN txs /\ UNCHANGED snapshots
           /\ \A u \in DOMAIN txs : txs'[u].state # "aborted" /\ TxRow(u)' = TxRow(u)
<1>1. ~AbortTx(t)
  <2>1. txs[t].snapshot \in DOMAIN snapshots
    BY OrderTyped
  <2>2. TxRow(t).sourceBlock <= stacksBlockHeight
    BY <2>1 DEF OrderInv, RowsInOrder, TxRow
  <2>3. PublishAllowed(Publisher, TxRow(t).reading, TxRow(t).sourceBlock)
    BY <2>2 DEF PublishAllowed, IsPublisher, NoneAborts
  <2> QED
    BY <2>3 DEF AbortTx, TxRow
<1>2. /\ (\E state \in {"executed", "pending"} : \E id : TxGoes(t, state, id)) /\ UNCHANGED snapshots
  BY <1>1, StepKeepsRegistry, TxSteps DEF Next
<1> QED
  BY <1>2 DEF TxGoes, TxRow, NoneAborts

\* No transaction fails.
LEMMA StepKeepsNoneAborts ==
    ASSUME TrustedDeployment, ChainInv, OrderInv, NoneAborts, [Next]_vars
    PROVE  NoneAborts'
<1>1. Publisher \in authorizedPublishers'
  BY AuthorityStays DEF NoneAborts
<1>2. ASSUME NEW t \in DOMAIN txs, ExecuteTx(t) \/ AbortTx(t) \/ Reorganise(t) PROVE NoneAborts'
  <2>1. /\ DOMAIN txs' = DOMAIN txs
        /\ \A u \in DOMAIN txs : txs'[u].state # "aborted" /\ TxRow(u)' = TxRow(u)
    BY <1>2, TxStepsKeepNone
  <2> QED
    BY <1>1, <2>1 DEF NoneAborts, InRange
<1>3. ASSUME NEW j \in DOMAIN attestJobs, Broadcast(j) PROVE NoneAborts'
  <2>1. PICK n : n = Len(txs) + 1
    OBVIOUS
  <2>2. /\ DOMAIN txs' = DOMAIN txs \cup {n}
        /\ txs'[n].snapshot = attestJobs[j].snapshot /\ txs'[n].state = "pending"
        /\ \A u \in DOMAIN txs : txs'[u] = txs[u]
        /\ UNCHANGED snapshots
    BY <1>3, <2>1, BroadcastAddsTx
  <2>3. InRange(snapshots[attestJobs[j].snapshot].reading)
    BY <1>3 DEF Broadcast
  <2> QED
    BY <1>1, <2>2, <2>3 DEF NoneAborts, TxRow, InRange
<1>4. CASE ~(\E t \in DOMAIN txs : ExecuteTx(t) \/ AbortTx(t) \/ Reorganise(t)) /\ DOMAIN txs' = DOMAIN txs
  <2>1. RowsKept /\ TxsKept
    BY <1>4, OffChainSteps
  <2>2. \A t \in DOMAIN txs : txs'[t] = txs[t] /\ TxRow(t)'.reading = TxRow(t).reading
    <3>1. \A t \in DOMAIN txs : txs[t].snapshot \in DOMAIN snapshots
      BY OrderTyped
    <3> QED
      BY <2>1, <3>1 DEF RowsKept, TxsKept, TxRow
  <2> QED
    BY <1>1, <1>4, <2>2 DEF NoneAborts, InRange
<1>5. CASE UNCHANGED txs
  BY <1>2, <1>4, <1>5
<1>6. ~(\E j \in DOMAIN attestJobs : Broadcast(j))
      /\ ~(\E t \in DOMAIN txs : ExecuteTx(t) \/ AbortTx(t) \/ Reorganise(t)) => UNCHANGED txs
  BY DEF Next, vars, workVars, RequestRisk, RiskStep, StartRisk, PersistSnapshot,
     EnqueueAttestation, RiskThrows, AttestStep, FinishWithoutPublishing, DecideToPublish, RefuseReading,
     MarkPublished, CompleteAttestation, PublishThrows, CrashAttestation, Revoke, Authorise, NewBlock,
     ConfirmAttestations, RepeatPayload
<1> QED
  BY <1>2, <1>3, <1>5, <1>6

\* A job leaves a waiting queue for the finished ones only through the throttle, or
\* because its row has its transaction.
LEMMA OnlyThrottleSkips ==
    ASSUME ChainInv, RecordInv, [Next]_vars, NEW j \in DOMAIN attestJobs,
           attestJobs[j].state \in {"waiting", "delayed"}, attestJobs'[j].state = "done"
    PROVE  FinishWithoutPublishing(j)
<1>1. attestJobs'[j] # attestJobs[j]
  OBVIOUS
<1>2. PICK k \in DOMAIN attestJobs : AttestStep(k) \/ PublishThrows(k) \/ CrashAttestation(k)
  <2>1. ASSUME NEW i \in DOMAIN riskJobs, EnqueueAttestation(i) PROVE attestJobs'[j] = attestJobs[j]
    <3> DEFINE job == AttestJob(riskJobs[i].snapshot)
    <3>1. attestJobs' = Append(attestJobs, job)
      BY <2>1 DEF EnqueueAttestation
    <3>2. attestJobs \in Seq(AttestJobRecord)
      BY DEF ChainInv, PipelineTypeOK
    <3>3. attestJobs \in Seq(AttestJobRecord \cup {job})
      BY <3>2, SeqGrows
    <3> HIDE DEF job
    <3> QED
      BY <3>1, <3>3, Appended
  <2>2. ~(\E i \in DOMAIN riskJobs : EnqueueAttestation(i))
    BY <1>1, <2>1
  <2>3. ~UNCHANGED attestJobs
    BY <1>1
  <2> QED
    BY <2>2, <2>3 DEF Next, vars, workVars, RequestRisk, RiskStep, StartRisk, PersistSnapshot, RiskThrows,
       ExecuteTx, AbortTx, Reorganise, Revoke, Authorise, NewBlock, ConfirmAttestations, RepeatPayload
<1>3. ~MarkPublished(k)
  BY <1>1 DEF MarkPublished
<1>4. \E state, tx, attempts : JobGoes(k, state, tx, attempts)
  BY <1>2, <1>3, AttestActions DEF AttestStep
<1>5. k = j
  BY <1>1, <1>4 DEF JobGoes
<1>6. CASE DecideToPublish(j) \/ RefuseReading(j) \/ PublishThrows(j) \/ CrashAttestation(j) \/ Broadcast(j)
  <2>1. \E state \in {"waiting", "active", "delayed", "failed"} : \E tx, attempts : JobGoes(j, state, tx, attempts)
    BY <1>6, AttestActions
  <2> QED
    BY <2>1 DEF JobGoes
<1>7. ~CompleteAttestation(j)
  BY DEF CompleteAttestation
<1> QED
  BY <1>2, <1>3, <1>5, <1>6, <1>7 DEF AttestStep

\* The wallet's last transaction, when it has been executed, is what its readers see.
LEMMA LastSentIsShown ==
    ASSUME ChainInv, NEW t \in DOMAIN txs, Executed(t),
           \A u \in DOMAIN txs : t < u => WalletOf(u) # WalletOf(t)
    PROVE  ChainShows(WalletOf(t), TxRow(t).reading)
<1>1. PICK w, latest : w = WalletOf(t) /\ latest = latestSnapshotId[w]
  OBVIOUS
<1>2. /\ << w, txs[t].id >> \in DOMAIN riskSnapshots
      /\ txs[t].id \in Nat \ {0} /\ txs[t].id <= latest /\ latest \in Nat /\ w \in Wallets
  BY <1>1, ExecutedIsStored, TxsTyped DEF ChainInv, PipelineTypeOK, WorkTypeOK
<1>3. latest \in 1..latest
  BY <1>2
<1>4. PICK u \in DOMAIN txs : Executed(u) /\ WalletOf(u) = w /\ txs[u].id = latest
  BY <1>1, <1>2, <1>3 DEF ChainInv, IdsOfTxs, IdsHaveTx
<1>5. ~(t < u) /\ (u < t => txs[u].id < txs[t].id)
  BY <1>1, <1>4 DEF ChainInv, IdsOfTxs, IdsIncrease
<1>6. t \in Nat /\ u \in Nat
  BY OrderTyped
<1>7. txs[t].id = latest
  BY <1>2, <1>4, <1>5, <1>6
<1>8. riskSnapshots[<< w, txs[t].id >>].reading = TxRow(t).reading
  BY <1>1 DEF ChainInv, IdsOfTxs, IdsOnChain
<1> QED
  BY <1>1, <1>2, <1>7, <1>8 DEF ChainShows, HasSnapshot, LatestSnapshot

\* A published row is that of the last transaction its wallet has.
LEMMA PublishedHasLast ==
    ASSUME ChainInv, RecordInv, NEW s \in DOMAIN snapshots, Published(s) # {}
    PROVE  \E t \in DOMAIN txs : /\ WalletOf(t) = snapshots[s].wallet
                                 /\ \A u \in DOMAIN txs : t < u => WalletOf(u) # snapshots[s].wallet
<1> DEFINE sent == {t \in DOMAIN txs : WalletOf(t) = snapshots[s].wallet}
<1>1. DOMAIN txs = 1..Len(txs) /\ Len(txs) \in Nat
  BY DEF ChainInv, PipelineTypeOK
<1>2. sent # {}
  <2>1. PICK p \in DOMAIN snapshots : snapshots[p].wallet = snapshots[s].wallet /\ snapshots[p].onchainTxId # 0
    BY DEF Published
  <2>2. snapshots[p].onchainTxId \in DOMAIN txs
    BY <2>1, RowsTyped DEF ChainInv, PipelineTypeOK, WorkTypeOK
  <2>3. txs[snapshots[p].onchainTxId].snapshot = p
    BY <2>1 DEF RecordInv, RowsOK
  <2> QED
    BY <2>1, <2>2, <2>3 DEF WalletOf, TxRow
<1>3. sent \in SUBSET (1..Len(txs))
  BY <1>1
<1>4. PICK t \in sent : \A u \in sent : u <= t
  <2> HIDE DEF sent
  <2> QED
    BY <1>1, <1>2, <1>3, GreatestExists
<1>5. \A u \in DOMAIN txs : t < u => u \notin sent
  BY <1>1, <1>3, <1>4
<1> QED
  BY <1>4, <1>5

-----------------------------------------------------------------------------
(* Theorems.                                                               *)

AttestationInv == ChainInv /\ RecordInv /\ EventInv

\* The three layers together are an invariant.
LEMMA AttestationInvHolds == Spec => []AttestationInv
<1>1. Init => AttestationInv
  BY InitChainInv, InitRecordInv, InitEventInv DEF AttestationInv
<1>2. AttestationInv /\ [Next]_vars => AttestationInv'
  BY StepKeepsChainInv, StepKeepsRecordInv, StepKeepsEventInv DEF AttestationInv
<1> QED
  BY <1>1, <1>2, PTL DEF Spec

\* Every row, job, transaction and event refers to something that exists, whatever
\* fails and however often.
THEOREM AttestTypeCorrect == Spec => []PipelineTypeOK
<1>1. AttestationInv => PipelineTypeOK
  BY DEF AttestationInv, ChainInv
<1> QED
  BY <1>1, AttestationInvHolds, PTL

\* The contract's own invariants survive the reorganisations of the chain: orphaning the
\* block of the publisher's last transaction leaves no hole in a wallet's ids, and a reader
\* who asks only for the newest attestation still misses no fresh one.
THEOREM AttestContractSurvivesReorgs ==
    Spec => [](IdsContiguous /\ HeightsOrdered /\ PublicationOrdered /\ FreshReadIsComplete)
<1>1. AttestationInv => IdsContiguous /\ HeightsOrdered /\ PublicationOrdered /\ FreshReadIsComplete
  BY FreshReadFollows DEF AttestationInv, ChainInv, RegistryInv
<1> QED
  BY <1>1, AttestationInvHolds, PTL

\* main.ts:241, alreadyPublished: no interleaving of crashes, throws, retries and
\* payloads makes the worker broadcast a second transaction for a row that has one on
\* record.
THEOREM AttestNoResendOnceRecorded == Spec => NoResendOnceRecorded
<1> DEFINE NoResend == Len(txs') > Len(txs) => snapshots[txs'[Len(txs')].snapshot].onchainTxId = 0
<1>1. ASSUME AttestationInv, [Next]_vars PROVE NoResend
  <2> SUFFICES ASSUME Len(txs') > Len(txs)
               PROVE  snapshots[txs'[Len(txs')].snapshot].onchainTxId = 0
    OBVIOUS
  <2>1. ChainInv /\ RecordInv /\ Len(txs) \in Nat
    BY <1>1 DEF AttestationInv, ChainInv, PipelineTypeOK
  <2>2. ~UNCHANGED txs
    BY <2>1
  <2>3. ~(\E t \in DOMAIN txs : ExecuteTx(t) \/ AbortTx(t) \/ Reorganise(t))
    <3> SUFFICES ASSUME NEW t \in DOMAIN txs, ExecuteTx(t) \/ AbortTx(t) \/ Reorganise(t) PROVE FALSE
      OBVIOUS
    <3>1. \E state, id : TxGoes(t, state, id)
      BY <1>1, <2>1, StepKeepsRegistry, TxSteps
    <3>2. Len(txs') = Len(txs)
      BY <3>1 DEF TxGoes
    <3> QED
      BY <2>1, <3>2
  <2>4. PICK j \in DOMAIN attestJobs : Broadcast(j)
    BY <1>1, <2>2, <2>3 DEF Next, vars, workVars, RequestRisk, RiskStep, StartRisk, PersistSnapshot,
       EnqueueAttestation, RiskThrows, AttestStep, FinishWithoutPublishing, DecideToPublish, RefuseReading,
       MarkPublished, CompleteAttestation, PublishThrows, CrashAttestation, Revoke, Authorise, NewBlock,
       ConfirmAttestations, RepeatPayload
  <2>5. PICK t : t = Len(txs) + 1
    OBVIOUS
  <2>6. /\ txs'[t].snapshot = attestJobs[j].snapshot
        /\ attestJobs[j].state = "active" /\ attestJobs[j].tx = 0
    BY <2>1, <2>4, <2>5, BroadcastAddsTx
  <2>7. Len(txs') = t
    BY <2>1, <2>4, <2>5 DEF Broadcast, ChainInv, PipelineTypeOK
  <2>8. snapshots[attestJobs[j].snapshot].onchainTxId = 0
    BY <2>1, <2>6 DEF RecordInv, JobsOK, JobHoldsRow
  <2> QED
    BY <2>6, <2>7, <2>8
<1>2. AttestationInv /\ [Next]_vars => [NoResend]_vars
  BY <1>1
<1> QED
  BY <1>2, AttestationInvHolds, PTL DEF Spec, NoResendOnceRecorded

\* An id the API reports is on chain with the figures and the block of its own row, in
\* spite of reorganisations and repeated payloads, once nothing about its transaction is
\* under way.
THEOREM AttestConfirmedIdIsOnChain == Spec => []ConfirmedIdIsOnChain
<1>1. ASSUME AttestationInv PROVE ConfirmedIdIsOnChain
  <2> SUFFICES ASSUME NEW s \in DOMAIN snapshots, snapshots[s].onchainSnapshotId # 0,
                      \A i \in DOMAIN hook : hook[i].tx # snapshots[s].onchainTxId
               PROVE  /\ << snapshots[s].wallet, snapshots[s].onchainSnapshotId >> \in DOMAIN riskSnapshots
                      /\ riskSnapshots[<< snapshots[s].wallet, snapshots[s].onchainSnapshotId >>].reading
                            = snapshots[s].reading
                      /\ riskSnapshots[<< snapshots[s].wallet, snapshots[s].onchainSnapshotId >>].sourceBlock
                            = snapshots[s].sourceBlock
    BY DEF ConfirmedIdIsOnChain
  <2>1. ChainInv /\ RecordInv /\ EventInv
    BY <1>1 DEF AttestationInv
  <2>2. PICK t : t = snapshots[s].onchainTxId
    OBVIOUS
  <2>3. Executed(t) /\ t \in DOMAIN txs /\ txs[t].id = snapshots[s].onchainSnapshotId
    BY <2>1, <2>2 DEF EventInv, RowsConfirmed, Executed
  <2>4. TxRow(t) = snapshots[s] /\ WalletOf(t) = snapshots[s].wallet
    BY <2>1, <2>2 DEF RecordInv, RowsOK, TxRow, WalletOf
  <2>5. /\ riskSnapshots[<< WalletOf(t), txs[t].id >>].reading = TxRow(t).reading
        /\ riskSnapshots[<< WalletOf(t), txs[t].id >>].sourceBlock = TxRow(t).sourceBlock
    BY <2>1, <2>3 DEF ChainInv, IdsOfTxs, IdsOnChain
  <2>6. << WalletOf(t), txs[t].id >> \in DOMAIN riskSnapshots
    BY <2>1, <2>3, ExecutedIsStored
  <2> QED
    BY <2>3, <2>4, <2>5, <2>6
<1> QED
  BY <1>1, AttestationInvHolds, PTL

\* One risk calculation at a time and no error before an attestation is recorded: then a
\* later attestation of a wallet never describes an earlier block, whatever crashes, aborts,
\* is revoked, reorganised or repeated, and however jobs, rows and blocks interleave.
THEOREM AttestChainNeverRegresses ==
    ASSUME OrderedDeployment
    PROVE  Spec => []ChainNeverRegresses
<1>1. Init => AttestationInv /\ OrderInv
  BY InitChainInv, InitRecordInv, InitEventInv, InitOrderInv DEF AttestationInv
<1>2. AttestationInv /\ OrderInv /\ [Next]_vars => (AttestationInv /\ OrderInv)'
  BY StepKeepsChainInv, StepKeepsRecordInv, StepKeepsEventInv, StepKeepsOrderInv DEF AttestationInv
<1>3. AttestationInv /\ OrderInv => ChainNeverRegresses
  BY OrderedChain DEF AttestationInv
<1> QED
  BY <1>1, <1>2, <1>3, PTL DEF Spec

\* README.md:522, main.ts:243: where the worker, besides, does not die between broadcasting
\* a transaction and recording it, no transaction tells a wallet's readers again what the
\* wallet's transaction before it told them within the interval.
THEOREM AttestNoRedundantAttestation ==
    ASSUME SteadyDeployment
    PROVE  Spec => []NoRedundantAttestation
<1> DEFINE Inv == AttestationInv /\ OrderInv /\ ThrottleInv
<1>1. Init => Inv
  BY InitChainInv, InitRecordInv, InitEventInv, InitOrderInv, InitThrottleInv DEF AttestationInv
<1>2. Inv /\ [Next]_vars => Inv'
  BY StepKeepsChainInv, StepKeepsRecordInv, StepKeepsEventInv, StepKeepsOrderInv, StepKeepsThrottleInv
     DEF AttestationInv, SteadyDeployment
<1>3. Inv => NoRedundantAttestation
  BY DEF ThrottleInv
<1> QED
  BY <1>1, <1>2, <1>3, PTL DEF Spec

\* attestation-throttle.ts:7: where, moreover, the publisher keeps its authority, the
\* worker leaves a row out only when the chain already shows the wallet's readers its
\* figures, in spite of reorganisations and repeated payloads.
THEOREM AttestSkipsOnlyWhatReadersSee ==
    ASSUME TrustedDeployment
    PROVE  Spec => SkipsOnlyWhatReadersSee
<1> DEFINE Inv == AttestationInv /\ OrderInv /\ ThrottleInv /\ NoneAborts
           Shown == \A j \in DOMAIN attestJobs :
                       LET row == snapshots[attestJobs[j].snapshot]
                       IN  /\ attestJobs[j].state \in {"waiting", "delayed"} /\ attestJobs'[j].state = "done"
                           /\ row.onchainTxId = 0
                           /\ \A t \in DOMAIN txs : txs[t].state # "pending"
                           => ChainShows(row.wallet, row.reading)
<1>1. Init => Inv
  <2>1. Init => NoneAborts
    BY DEF Init, NoneAborts, DeployedWith
  <2> QED
    BY <2>1, InitChainInv, InitRecordInv, InitEventInv, InitOrderInv, InitThrottleInv DEF AttestationInv
<1>2. Inv /\ [Next]_vars => Inv'
  BY StepKeepsChainInv, StepKeepsRecordInv, StepKeepsEventInv, StepKeepsOrderInv, StepKeepsThrottleInv,
     StepKeepsNoneAborts
     DEF AttestationInv, SteadyDeployment, TrustedDeployment
<1>3. ASSUME Inv, [Next]_vars PROVE Shown
  <2> SUFFICES ASSUME NEW j \in DOMAIN attestJobs, NEW s, s = attestJobs[j].snapshot,
                      attestJobs[j].state \in {"waiting", "delayed"}, attestJobs'[j].state = "done",
                      snapshots[s].onchainTxId = 0,
                      \A t \in DOMAIN txs : txs[t].state # "pending"
               PROVE  ChainShows(snapshots[s].wallet, snapshots[s].reading)
    OBVIOUS
  <2>1. ChainInv /\ RecordInv /\ OrderInv /\ TxsRecorded /\ NoneAborts
    BY <1>3 DEF AttestationInv, ThrottleInv
  <2>2. FinishWithoutPublishing(j)
    BY <1>3, <2>1, OnlyThrottleSkips
  <2>3. Startable(attestJobs, j, 1) /\ ~DecideAttestation(s)
    BY <2>2 DEF FinishWithoutPublishing
  <2>4. Published(s) # {} /\ snapshots[s].reading = snapshots[LastPublished(s)].reading
    BY <2>3 DEF DecideAttestation
  <2>5. s \in DOMAIN snapshots /\ \A k \in DOMAIN attestJobs : attestJobs[k].state # "active"
    BY <2>1, <2>3, StartsAlone, OrderTyped DEF ChainInv, PipelineTypeOK, WorkTypeOK
  <2>6. PICK t \in DOMAIN txs : /\ WalletOf(t) = snapshots[s].wallet
                                /\ \A u \in DOMAIN txs : t < u => WalletOf(u) # snapshots[s].wallet
    BY <2>1, <2>4, <2>5, PublishedHasLast
  <2>7. LastPublished(s) = txs[t].snapshot
    BY <2>1, <2>5, <2>6, LastPublishedIsLastSent DEF WalletOf
  <2>8. Executed(t)
    BY <2>1, <2>6, TxsTyped DEF NoneAborts, Executed, ChainInv, PipelineTypeOK, WorkTypeOK
  <2>9. ChainShows(WalletOf(t), TxRow(t).reading)
    BY <2>1, <2>6, <2>8, LastSentIsShown
  <2> QED
    BY <2>4, <2>6, <2>7, <2>9 DEF TxRow
<1>4. Inv /\ [Next]_vars => [Shown]_vars
  BY <1>3
<1> QED
  BY <1>1, <1>2, <1>4, PTL DEF Spec, SkipsOnlyWhatReadersSee
=============================================================================
