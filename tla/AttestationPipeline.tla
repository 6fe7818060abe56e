------------------------ MODULE AttestationPipeline -------------------------
(***************************************************************************)
(* From a finished risk calculation to the id of its attestation.          *)
(*                                                                         *)
(*   risk worker -> riskSnapshots of the database -> attestation queue ->  *)
(*   attestation worker -> publisher's transactions -> registry contract   *)
(*   (RiskRegistry) -> Chainhook events -> API, which writes the id back.  *)
(*                                                                         *)
(* Each worker handler is cut at its awaits: what it read before one may   *)
(* be old after it.  Transactions of the one publisher key execute in the  *)
(* order of their nonces.  Chainhook (external) reports the transactions   *)
(* of the contract in order and may repeat a report.                       *)
(***************************************************************************)
EXTENDS RiskRegistry, JobQueue, Sequences

CONSTANTS
    Publisher,              \* principal of RISK_PUBLISHER_SECRET_KEY
    MinIntervalBlocks,      \* ATTESTATION_MIN_INTERVAL_BLOCKS
    RiskConcurrency,        \* RISK_WORKER_CONCURRENCY
    FaultKinds,             \* which faults may happen in this instance
    MaxFaults,              \* bound: faults of a behaviour
    MaxRiskJobs,            \* bound: risk calculations requested
    MaxAttestations         \* bound: transactions broadcast

AllFaults == {"riskError", "publishError", "crash", "revoke", "reorg", "repeat"}

ASSUME PipelineAssumption ==
    /\ Publisher \in Principals
    /\ MinIntervalBlocks \in Nat
    /\ RiskConcurrency \in Nat \ {0}
    /\ FaultKinds \subseteq AllFaults
    /\ MaxFaults \in Nat
    /\ MaxRiskJobs \in Nat
    /\ MaxAttestations \in Nat

VARIABLES
    riskJobs,       \* jobs of the risk queue, in the order they were added
    snapshots,      \* table RiskSnapshot, in observedAt order
    attestJobs,     \* jobs of the attestation queue, in the order they were added
    txs,            \* transactions broadcast by the publisher, in nonce order
    hook,           \* Chainhook events not yet delivered to the API, oldest first
    faults          \* faults so far

workVars == << riskJobs, snapshots, attestJobs, txs, hook, faults >>
vars == << registryVars, workVars >>

-----------------------------------------------------------------------------
RiskJob(w, b)  == [wallet |-> w, sourceBlock |-> b, snapshot |-> 0, state |-> "waiting", attempts |-> 0]
AttestJob(s)   == [snapshot |-> s, tx |-> 0, state |-> "waiting", attempts |-> 0]

Fault(kind) ==
    /\ kind \in FaultKinds
    /\ faults < MaxFaults
    /\ faults' = faults + 1

\* Transaction 0, snapshot row 0 and on-chain id 0 stand for null.
Row(w, r, b) == [wallet |-> w, reading |-> r, sourceBlock |-> b,
                 onchainTxId |-> 0, onchainSnapshotId |-> 0]

Init ==
    /\ DeployedWith({Publisher})
    /\ riskJobs = << >> /\ snapshots = << >> /\ attestJobs = << >>
    /\ txs = << >> /\ hook = << >>
    /\ faults = 0

-----------------------------------------------------------------------------
(* The risk worker.  The indexer asks for a calculation at the block it    *)
(* has just read; what the figures come out as is the world's choice.      *)

RequestRisk(w) ==
    /\ Len(riskJobs) < MaxRiskJobs
    /\ riskJobs' = Append(riskJobs, RiskJob(w, stacksBlockHeight))
    /\ UNCHANGED << registryVars, snapshots, attestJobs, txs, hook, faults >>

StartRisk(i) ==
    /\ Startable(riskJobs, i, RiskConcurrency)
    /\ riskJobs' = [riskJobs EXCEPT ![i].state = "active"]
    /\ UNCHANGED << registryVars, snapshots, attestJobs, txs, hook, faults >>

PersistSnapshot(i, r) ==
    /\ riskJobs[i].state = "active" /\ riskJobs[i].snapshot = 0
    /\ snapshots' = Append(snapshots, Row(riskJobs[i].wallet, r, riskJobs[i].sourceBlock))
    /\ riskJobs' = [riskJobs EXCEPT ![i].snapshot = Len(snapshots) + 1]
    /\ UNCHANGED << registryVars, attestJobs, txs, hook, faults >>

EnqueueAttestation(i) ==
    /\ riskJobs[i].state = "active" /\ riskJobs[i].snapshot # 0
    /\ attestJobs' = Append(attestJobs, AttestJob(riskJobs[i].snapshot))
    /\ riskJobs' = [riskJobs EXCEPT ![i].state = "done"]
    /\ UNCHANGED << registryVars, snapshots, txs, hook, faults >>

\* An await after the snapshot was stored throws: the retry stores another one.
RiskThrows(i) ==
    /\ riskJobs[i].state = "active"
    /\ Fault("riskError")
    /\ riskJobs' = [riskJobs EXCEPT ![i] = [Thrown(@) EXCEPT !.snapshot = 0]]
    /\ UNCHANGED << registryVars, snapshots, attestJobs, txs, hook >>

-----------------------------------------------------------------------------
(* The attestation worker, of concurrency 1.                               *)

\* Mutant: the last attestation of any wallet is compared with.
Published_AnyWallet(s) == {p \in DOMAIN snapshots : p # s /\ snapshots[p].onchainTxId # 0}

Published(s) ==
    {p \in DOMAIN snapshots : /\ p # s
                              /\ snapshots[p].wallet = snapshots[s].wallet
                              /\ snapshots[p].onchainTxId # 0}

\* Mutant: the oldest published snapshot is taken for the last.
Later_Ascending(p, q) == snapshots[p].sourceBlock <= snapshots[q].sourceBlock /\ p <= q

\* orderBy: [{ sourceBlock: 'desc' }, { observedAt: 'desc' }]
Later(p, q) ==
    \/ snapshots[p].sourceBlock > snapshots[q].sourceBlock
    \/ snapshots[p].sourceBlock = snapshots[q].sourceBlock /\ p >= q

LastPublished(s) == CHOOSE p \in Published(s) : \A q \in Published(s) : Later(p, q)

\* first, changed, or interval
DecideAttestation(s) ==
    Published(s) # {} =>
        LET last == snapshots[LastPublished(s)]
        IN  \/ snapshots[s].reading # last.reading
            \/ snapshots[s].sourceBlock - last.sourceBlock >= MinIntervalBlocks

\* The job finds the work done, or not worth a transaction.
FinishWithoutPublishing(j) ==
    LET s == attestJobs[j].snapshot
    IN  /\ Startable(attestJobs, j, 1)
        /\ snapshots[s].onchainTxId # 0 \/ ~DecideAttestation(s)
        /\ attestJobs' = [attestJobs EXCEPT ![j].state = "done"]
        /\ UNCHANGED << registryVars, riskJobs, snapshots, txs, hook, faults >>

\* Mutant: a snapshot that has its transaction already is published again.
DecideToPublish_Again(j) ==
    /\ Startable(attestJobs, j, 1)
    /\ DecideAttestation(attestJobs[j].snapshot)
    /\ attestJobs' = [attestJobs EXCEPT ![j].state = "active"]
    /\ UNCHANGED << registryVars, riskJobs, snapshots, txs, hook, faults >>

DecideToPublish(j) ==
    LET s == attestJobs[j].snapshot
    IN  /\ Startable(attestJobs, j, 1)
        /\ snapshots[s].onchainTxId = 0 /\ DecideAttestation(s)
        /\ attestJobs' = [attestJobs EXCEPT ![j].state = "active"]
        /\ UNCHANGED << registryVars, riskJobs, snapshots, txs, hook, faults >>

Broadcast(j) ==
    LET row == snapshots[attestJobs[j].snapshot]
    IN  /\ attestJobs[j].state = "active" /\ attestJobs[j].tx = 0
        /\ InRange(row.reading)
        /\ Len(txs) < MaxAttestations
        /\ txs' = Append(txs, [snapshot |-> attestJobs[j].snapshot, state |-> "pending", id |-> 0])
        /\ attestJobs' = [attestJobs EXCEPT ![j].tx = Len(txs) + 1]
        /\ UNCHANGED << registryVars, riskJobs, snapshots, hook, faults >>

\* assertBps throws before anything is signed, on every attempt.
RefuseReading(j) ==
    /\ attestJobs[j].state = "active" /\ attestJobs[j].tx = 0
    /\ ~InRange(snapshots[attestJobs[j].snapshot].reading)
    /\ attestJobs' = [attestJobs EXCEPT ![j] = Thrown(@)]
    /\ UNCHANGED << registryVars, riskJobs, snapshots, txs, hook, faults >>

MarkPublished(j) ==
    /\ attestJobs[j].state = "active" /\ attestJobs[j].tx # 0
    /\ snapshots[attestJobs[j].snapshot].onchainTxId # attestJobs[j].tx
    /\ snapshots' = [snapshots EXCEPT ![attestJobs[j].snapshot].onchainTxId = attestJobs[j].tx]
    /\ UNCHANGED << registryVars, riskJobs, attestJobs, txs, hook, faults >>

CompleteAttestation(j) ==
    /\ attestJobs[j].state = "active" /\ attestJobs[j].tx # 0
    /\ snapshots[attestJobs[j].snapshot].onchainTxId = attestJobs[j].tx
    /\ attestJobs' = [attestJobs EXCEPT ![j].state = "done"]
    /\ UNCHANGED << registryVars, riskJobs, snapshots, txs, hook, faults >>

\* The broadcast or the update of the row throws.
PublishThrows(j) ==
    /\ attestJobs[j].state = "active"
    /\ snapshots[attestJobs[j].snapshot].onchainTxId = 0
    /\ Fault("publishError")
    /\ attestJobs' = [attestJobs EXCEPT ![j] = [Thrown(@) EXCEPT !.tx = 0]]
    /\ UNCHANGED << registryVars, riskJobs, snapshots, txs, hook >>

\* The process dies at an await, the one before completion included.
CrashAttestation(j) ==
    /\ attestJobs[j].state = "active"
    /\ Fault("crash")
    /\ attestJobs' = [attestJobs EXCEPT ![j].state = "waiting", ![j].tx = 0]
    /\ UNCHANGED << registryVars, riskJobs, snapshots, txs, hook >>

-----------------------------------------------------------------------------
(* The chain and Chainhook.                                                *)

NextPending(t) == txs[t].state = "pending" /\ \A u \in 1..(t - 1) : txs[u].state # "pending"

ExecuteTx(t) ==
    LET row == snapshots[txs[t].snapshot]
    IN  /\ NextPending(t)
        /\ PublishRiskSnapshot(Publisher, row.wallet, row.reading, row.sourceBlock)
        /\ txs' = [txs EXCEPT ![t].state = "executed", ![t].id = latestSnapshotId'[row.wallet]]
        /\ hook' = Append(hook, [kind |-> "apply", tx |-> t, id |-> latestSnapshotId'[row.wallet]])
        /\ UNCHANGED << riskJobs, snapshots, attestJobs, faults >>

\* A failed transaction is mined too, and reported, but confirms no id.
AbortTx(t) ==
    LET row == snapshots[txs[t].snapshot]
    IN  /\ NextPending(t)
        /\ ~PublishAllowed(Publisher, row.reading, row.sourceBlock)
        /\ txs' = [txs EXCEPT ![t].state = "aborted"]
        /\ UNCHANGED << registryVars, riskJobs, snapshots, attestJobs, hook, faults >>

\* The block of the last executed transaction is orphaned; the transaction waits
\* to be mined again.
Reorganise(t) ==
    LET w == snapshots[txs[t].snapshot].wallet
    IN  /\ txs[t].state = "executed" /\ \A u \in (t + 1)..Len(txs) : txs[u].state = "pending"
        /\ Fault("reorg")
        /\ latestSnapshotId' = [latestSnapshotId EXCEPT ![w] = txs[t].id - 1]
        /\ riskSnapshots' = [k \in DOMAIN riskSnapshots \ {<< w, txs[t].id >>} |-> riskSnapshots[k]]
        /\ txs' = [txs EXCEPT ![t].state = "pending", ![t].id = 0]
        /\ hook' = Append(hook, [kind |-> "rollback", tx |-> t, id |-> 0])
        /\ UNCHANGED << adminVars, stacksBlockHeight, riskJobs, snapshots, attestJobs >>

\* The owner withdraws the publisher's authority, and may give it back.
Revoke ==
    /\ Publisher \in authorizedPublishers
    /\ Fault("revoke")
    /\ SetPublisher(contractOwner, Publisher, FALSE)
    /\ UNCHANGED << riskJobs, snapshots, attestJobs, txs, hook >>

Authorise ==
    /\ Publisher \notin authorizedPublishers
    /\ SetPublisher(contractOwner, Publisher, TRUE)
    /\ UNCHANGED workVars

NewBlock == MineBlock /\ UNCHANGED workVars

\* One payload holds the blocks rolled back and then the blocks applied since.
Payload(n) == \A i, k \in 1..n : i < k /\ hook[i].kind = "apply" => hook[k].kind = "apply"

\* Mutant: rollbacks are ignored.
Rows_KeepRolledBack(n) ==
    [s \in DOMAIN snapshots |->
        LET applied == {i \in 1..n : hook[i].tx = snapshots[s].onchainTxId /\ hook[i].kind = "apply"}
        IN  IF applied = {} THEN snapshots[s]
            ELSE [snapshots[s] EXCEPT !.onchainSnapshotId =
                    hook[CHOOSE i \in applied : \A k \in applied : k <= i].id]]

Rows(n) ==
    [s \in DOMAIN snapshots |->
        LET mentions == {i \in 1..n : hook[i].tx = snapshots[s].onchainTxId}
            applied  == {i \in mentions : hook[i].kind = "apply"}
        IN  IF mentions = {} THEN snapshots[s]
            ELSE [snapshots[s] EXCEPT !.onchainSnapshotId =
                    IF applied = {} THEN 0
                    ELSE hook[CHOOSE i \in applied : \A k \in applied : k <= i].id]]

ConfirmAttestations(n) ==
    /\ Payload(n)
    /\ snapshots' = Rows(n)
    /\ hook' = SubSeq(hook, n + 1, Len(hook))
    /\ UNCHANGED << registryVars, riskJobs, attestJobs, txs, faults >>

\* The answer to a payload was lost: it stays first in line and is sent again.
RepeatPayload(n) ==
    /\ Payload(n)
    /\ Fault("repeat")
    /\ snapshots' = Rows(n)
    /\ UNCHANGED << registryVars, riskJobs, attestJobs, txs, hook >>

-----------------------------------------------------------------------------
RiskStep(i) ==
    \/ StartRisk(i)
    \/ \E r \in Readings : PersistSnapshot(i, r)
    \/ EnqueueAttestation(i)

AttestStep(j) ==
    \/ FinishWithoutPublishing(j)
    \/ DecideToPublish(j)
    \/ Broadcast(j)
    \/ RefuseReading(j)
    \/ MarkPublished(j)
    \/ CompleteAttestation(j)

Next ==
    \/ \E w \in Wallets : RequestRisk(w)
    \/ \E i \in DOMAIN riskJobs : RiskStep(i) \/ RiskThrows(i)
    \/ \E j \in DOMAIN attestJobs : AttestStep(j) \/ PublishThrows(j) \/ CrashAttestation(j)
    \/ \E t \in DOMAIN txs : ExecuteTx(t) \/ AbortTx(t) \/ Reorganise(t)
    \/ Revoke \/ Authorise \/ NewBlock
    \/ \E n \in DOMAIN hook : ConfirmAttestations(n) \/ RepeatPayload(n)

Spec == Init /\ [][Next]_vars

\* The workers keep taking jobs, the chain keeps executing what is pending and
\* Chainhook keeps delivering; nobody has to ask for another calculation.
Fairness ==
    /\ \A i \in 1..MaxRiskJobs : WF_vars(i \in DOMAIN riskJobs /\ RiskStep(i))
    /\ \A j \in 1..(MaxRiskJobs + MaxFaults) : WF_vars(j \in DOMAIN attestJobs /\ AttestStep(j))
    /\ WF_vars(\E t \in DOMAIN txs : ExecuteTx(t) \/ AbortTx(t))
    /\ WF_vars(\E n \in DOMAIN hook : ConfirmAttestations(n))

FairSpec == Spec /\ Fairness

-----------------------------------------------------------------------------
(* Properties.                                                             *)

SnapshotRow == [wallet : Wallets, reading : Readings, sourceBlock : 0..MaxHeight,
                onchainTxId : 0..Len(txs), onchainSnapshotId : 0..MaxSnapshots]

RiskJobRecord == [wallet : Wallets, sourceBlock : 0..MaxHeight, snapshot : 0..Len(snapshots),
                  state : JobStates, attempts : 0..MaxAttempts]

AttestJobRecord == [snapshot : 1..Len(snapshots), tx : 0..Len(txs),
                    state : JobStates, attempts : 0..MaxAttempts]

TxRecord == [snapshot : 1..Len(snapshots), state : {"pending", "executed", "aborted"},
             id : 0..MaxSnapshots]

HookEvent == [kind : {"apply", "rollback"}, tx : 1..Len(txs), id : 0..MaxSnapshots]

\* Every row, job, transaction and event refers to something that exists.
PipelineTypeOK ==
    /\ TypeOK
    /\ snapshots \in Seq(SnapshotRow)
    /\ riskJobs \in Seq(RiskJobRecord)
    /\ attestJobs \in Seq(AttestJobRecord)
    /\ txs \in Seq(TxRecord)
    /\ hook \in Seq(HookEvent)
    /\ faults \in 0..MaxFaults

RowsOf(w) == {s \in DOMAIN snapshots : snapshots[s].wallet = w}

Newest(w) == CHOOSE s \in RowsOf(w) : \A q \in RowsOf(w) : q <= s

Quiet ==
    /\ Settled(riskJobs) /\ Settled(attestJobs)
    /\ \A t \in DOMAIN txs : txs[t].state # "pending"

ChainShows(w, r) == HasSnapshot(w) /\ LatestSnapshot(w).reading = r

\* A later attestation of a wallet never describes an earlier block than the one
\* it replaces: the latest id is also the latest knowledge.
ChainNeverRegresses ==
    \A k, l \in DOMAIN riskSnapshots :
        k[1] = l[1] /\ k[2] <= l[2]
            => riskSnapshots[k].sourceBlock <= riskSnapshots[l].sourceBlock

TxRow(t) == snapshots[txs[t].snapshot]

\* Transaction u tells the wallet's readers nothing that the wallet's transaction
\* before it has not told them less than the minimum interval ago.
Repeats(t, u) ==
    /\ TxRow(t).wallet = TxRow(u).wallet
    /\ \A v \in (t + 1)..(u - 1) : TxRow(v).wallet # TxRow(t).wallet
    /\ TxRow(t).reading = TxRow(u).reading
    /\ TxRow(u).sourceBlock - TxRow(t).sourceBlock < MinIntervalBlocks

\* README.md:522: attestations are throttled to real changes or one per interval, so
\* no transaction repeats the one before it.
NoRedundantAttestation == \A t, u \in DOMAIN txs : t < u => ~Repeats(t, u)

\* main.ts:243: "the previous job has already stored its txId: two quick refreshes
\* cannot both slip through".
TwoQuickRefreshesNotBothSent ==
    \A t, u \in DOMAIN txs : t < u /\ txs[t].snapshot # txs[u].snapshot => ~Repeats(t, u)

\* A retry never pays again for a snapshot whose transaction is on record, wherever
\* the worker died or threw before.
NoResendOnceRecorded ==
    [][Len(txs') > Len(txs) => snapshots[txs'[Len(txs')].snapshot].onchainTxId = 0]_vars

\* An on-chain id the API reports names the attestation of that very snapshot, in
\* spite of reorganisations and repeated payloads, once no event about its
\* transaction is under way.
ConfirmedIdIsOnChain ==
    \A s \in DOMAIN snapshots :
        /\ snapshots[s].onchainSnapshotId # 0
        /\ \A i \in DOMAIN hook : hook[i].tx # snapshots[s].onchainTxId
        => LET key == << snapshots[s].wallet, snapshots[s].onchainSnapshotId >>
           IN  /\ key \in DOMAIN riskSnapshots
               /\ riskSnapshots[key].reading = snapshots[s].reading
               /\ riskSnapshots[key].sourceBlock = snapshots[s].sourceBlock

\* attestation-throttle.ts:7: a snapshot is left out only when it would tell an
\* on-chain reader nothing new, that is, when the chain already shows its figures.
SkipsOnlyWhatReadersSee ==
    [][\A j \in DOMAIN attestJobs :
          LET row == snapshots[attestJobs[j].snapshot]
          IN  /\ attestJobs[j].state \in {"waiting", "delayed"} /\ attestJobs'[j].state = "done"
              /\ row.onchainTxId = 0
              /\ \A t \in DOMAIN txs : txs[t].state # "pending"
              => ChainShows(row.wallet, row.reading)]_vars

\* chainhook.service.ts:75: the API "records which on-chain snapshot id each
\* attestation became", once its events are delivered.
AttestationsAreConfirmed ==
    Quiet /\ hook = << >> =>
        \A s \in DOMAIN snapshots : \A t \in DOMAIN txs :
            snapshots[s].onchainTxId = t /\ txs[t].state = "executed"
                => snapshots[s].onchainSnapshotId = txs[t].id

\* No job is tried for ever: in spite of faults, and of a reading the publisher
\* refuses on every attempt, both queues come to rest.
EveryJobSettles == <>[](Settled(riskJobs) /\ Settled(attestJobs))

\* However the workers interleave, the figures a wallet's readers see on chain are
\* in the end those of its newest snapshot.
ReadersCatchUp ==
    \A w \in Wallets : <>[](RowsOf(w) # {} => ChainShows(w, snapshots[Newest(w)].reading))
=============================================================================
