--------------------------- MODULE RefreshPipeline ---------------------------
(***************************************************************************)
(* From a change on chain, or a refresh request, to a stored risk snapshot. *)
(*                                                                         *)
(*   Chainhook -> API ingest ---\                                          *)
(*                               > portfolio queue -> indexer -> database  *)
(*   API requestRefresh --------/        -> risk queue -> risk worker      *)
(*                                                                         *)
(* The indexer asks the node for the block height first and for the        *)
(* positions afterwards, and the risk worker reads the positions that are  *)
(* current when it runs.  Handlers are cut at those awaits.  What a        *)
(* wallet's positions are is one value here; valuation and the risk        *)
(* figures are functions of it.                                            *)
(*                                                                         *)
(* The chain is the sequence of the wallets' positions after each block.   *)
(***************************************************************************)
EXTENDS JobQueue, Sequences

CONSTANTS
    Wallets,
    Positions,          \* what a wallet's positions may be
    TrackedAtStart,     \* wallets that have a row before the first step
    IndexConcurrency,   \* INDEXER_CONCURRENCY
    RiskConcurrency,    \* RISK_WORKER_CONCURRENCY
    FaultKinds,         \* which faults may happen in this instance
    MaxFaults,          \* bound: faults of a behaviour
    MaxHeight,          \* bound: blocks
    MaxRefreshes        \* bound: refreshes asked for

AllFaults == {"indexError", "riskError", "crash", "reorg", "repeat"}

ASSUME RefreshAssumption ==
    /\ IsFiniteSet(Wallets) /\ TrackedAtStart \subseteq Wallets
    /\ IndexConcurrency \in Nat \ {0}
    /\ RiskConcurrency \in Nat \ {0}
    /\ FaultKinds \subseteq AllFaults
    /\ MaxFaults \in Nat
    /\ MaxHeight \in Nat \ {0}
    /\ MaxRefreshes \in Nat

VARIABLES
    chain,          \* chain[h][w]: positions of w after block h
    hook,           \* payloads not yet delivered to the API, oldest first
    tracked,        \* table Wallet
    portfolios,     \* active positions of each tracked wallet
    indexJobs,      \* jobs of the portfolio queue, with their indexing run
    riskJobs,       \* jobs of the risk queue
    riskRows,       \* table RiskSnapshot, in observedAt order
    faults          \* faults so far, and their kinds

world == << chain, hook >>
database == << tracked, portfolios, riskRows >>
vars == << world, database, indexJobs, riskJobs, faults >>

Tip == Len(chain)

Fault(kind) ==
    /\ kind \in FaultKinds
    /\ faults.count < MaxFaults
    /\ faults' = [count |-> faults.count + 1, kinds |-> faults.kinds \cup {kind}]

Init ==
    /\ \E p \in [Wallets -> Positions] : chain = << p >>
    /\ hook = << >>
    /\ tracked = TrackedAtStart
    /\ portfolios = [w \in {} |-> 0]
    /\ indexJobs = << >> /\ riskJobs = << >> /\ riskRows = << >>
    /\ faults = [count |-> 0, kinds |-> {}]

-----------------------------------------------------------------------------
(* The chain (external).  A payload names the wallets of the blocks it     *)
(* applies and rolls back, and the height of the block it applies.         *)

PayloadOf(wallets, h) == [wallets |-> wallets, height |-> h]

MineBlock(w, p) ==
    /\ Tip < MaxHeight
    /\ p # chain[Tip][w]
    /\ chain' = Append(chain, [chain[Tip] EXCEPT ![w] = p])
    /\ hook' = Append(hook, PayloadOf({w}, Tip + 1))
    /\ UNCHANGED << database, indexJobs, riskJobs, faults >>

\* The last block is orphaned and another one, in which w may have transacted,
\* takes its place.
Reorganise(w, p) ==
    /\ Tip > 1
    /\ Fault("reorg")
    /\ LET before == chain[Tip - 1]
           after  == [before EXCEPT ![w] = p]
       IN  /\ after # chain[Tip]
           /\ chain' = [chain EXCEPT ![Tip] = after]
           /\ hook' = Append(hook, PayloadOf(
                {v \in Wallets : chain[Tip][v] # before[v] \/ after[v] # before[v]}, Tip))
    /\ UNCHANGED << database, indexJobs, riskJobs >>

-----------------------------------------------------------------------------
(* The API.                                                                *)

\* eventHeight 0: the job id is a fresh uuid.  requestedAt is the tip at that time.
IndexJob(w, h, state) ==
    [wallet |-> w, eventHeight |-> h, requestedAt |-> Tip, state |-> state, attempts |-> 0,
     step |-> "queued", height |-> 0, positions |-> chain[1][w], readAt |-> 0, run |-> "none"]

RequestRefresh(w) ==
    /\ Cardinality({j \in DOMAIN indexJobs : indexJobs[j].eventHeight = 0}) < MaxRefreshes
    /\ indexJobs' = Append(indexJobs, IndexJob(w, 0, "waiting"))
    /\ UNCHANGED << world, database, riskJobs, faults >>

\* Mutant: one job id per wallet, which requests and events share.
HasIndexJob_AnyHeight(w, h) == \E j \in DOMAIN indexJobs : indexJobs[j].wallet = w

\* BullMQ drops a job whose id it knows, and it knows the ids of finished jobs for
\* as long as it keeps them (an hour, removeOnComplete).
HasIndexJob(w, h) ==
    \E j \in DOMAIN indexJobs : indexJobs[j].wallet = w /\ indexJobs[j].eventHeight = h

NewIndexJobs(payload) ==
    LET named == {w \in payload.wallets \cap tracked : ~HasIndexJob(w, payload.height)}
        order == CHOOSE s \in [1..Cardinality(named) -> named] : {s[i] : i \in DOMAIN s} = named
    IN  [i \in DOMAIN order |-> IndexJob(order[i], payload.height, "delayed")]

Ingest ==
    /\ hook # << >>
    /\ indexJobs' = indexJobs \o NewIndexJobs(Head(hook))
    /\ hook' = Tail(hook)
    /\ UNCHANGED << chain, database, riskJobs, faults >>

\* The answer was lost: Chainhook delivers the payload again.
IngestAndRepeat ==
    /\ hook # << >>
    /\ Fault("repeat")
    /\ indexJobs' = indexJobs \o NewIndexJobs(Head(hook))
    /\ UNCHANGED << world, database, riskJobs >>

-----------------------------------------------------------------------------
(* The indexer.                                                            *)

IndexAt(j, step) == indexJobs[j].state = "active" /\ indexJobs[j].step = step

\* getCurrentBlockHeight is the first await.
StartIndex(j) ==
    /\ Startable(indexJobs, j, IndexConcurrency)
    /\ indexJobs' = [indexJobs EXCEPT ![j].state = "active", ![j].step = "height", ![j].height = Tip]
    /\ UNCHANGED << world, database, riskJobs, faults >>

ReadPositions(j) ==
    /\ IndexAt(j, "height")
    /\ indexJobs' = [indexJobs EXCEPT ![j].step = "read", ![j].readAt = Tip,
                                      ![j].positions = chain[Tip][indexJobs[j].wallet]]
    /\ UNCHANGED << world, database, riskJobs, faults >>

Portfolio(j) == [positions |-> indexJobs[j].positions, height |-> indexJobs[j].height,
                 readAt |-> indexJobs[j].readAt]

\* persistPortfolio: one transaction, serialised by the wallet's row.
Persist(j) ==
    /\ IndexAt(j, "read")
    /\ LET w == indexJobs[j].wallet
       IN  /\ tracked' = tracked \cup {w}
           /\ portfolios' = [v \in DOMAIN portfolios \cup {w} |->
                               IF v = w THEN Portfolio(j) ELSE portfolios[v]]
    /\ indexJobs' = [indexJobs EXCEPT ![j].step = "persisted", ![j].run = "completed"]
    /\ UNCHANGED << world, riskRows, riskJobs, faults >>

RiskJob(j) == [wallet |-> indexJobs[j].wallet, run |-> j, sourceBlock |-> indexJobs[j].height,
               state |-> "waiting", attempts |-> 0, step |-> "queued",
               positions |-> indexJobs[j].positions, readAt |-> 0]

\* Mutant: every attempt of an index job adds a risk job.
RiskRequested_Again(j) == FALSE

\* The correlation id of the run is the risk job's id.
RiskRequested(j) == \E i \in DOMAIN riskJobs : riskJobs[i].run = j

RequestRisk(j) ==
    /\ IndexAt(j, "persisted")
    /\ riskJobs' = IF RiskRequested(j) THEN riskJobs ELSE Append(riskJobs, RiskJob(j))
    /\ indexJobs' = [indexJobs EXCEPT ![j].step = "requested"]
    /\ UNCHANGED << world, database, faults >>

CompleteIndex(j) ==
    /\ IndexAt(j, "requested")
    /\ indexJobs' = [indexJobs EXCEPT ![j].state = "done"]
    /\ UNCHANGED << world, database, riskJobs, faults >>

\* Mutant: the run that an attempt failed stays completed.
Failed_KeepsRun(job) == Thrown(job)

Failed(job) == [Thrown(job) EXCEPT !.run = "failed"]

\* Any await before the risk job is added: failIndexingRun, which makes sure the
\* wallet has a row, and then the queue's own handling.
IndexThrows(j) ==
    /\ indexJobs[j].state = "active" /\ indexJobs[j].step # "requested"
    /\ Fault("indexError")
    /\ tracked' = tracked \cup {indexJobs[j].wallet}
    /\ indexJobs' = [indexJobs EXCEPT ![j] = Failed(@)]
    /\ UNCHANGED << world, portfolios, riskRows, riskJobs >>

CrashIndex(j) ==
    /\ indexJobs[j].state = "active"
    /\ Fault("crash")
    /\ indexJobs' = [indexJobs EXCEPT ![j].state = "waiting"]
    /\ UNCHANGED << world, database, riskJobs >>

-----------------------------------------------------------------------------
(* The risk worker.                                                        *)

RiskAt(i, step) == riskJobs[i].state = "active" /\ riskJobs[i].step = step

StartRisk(i) ==
    /\ Startable(riskJobs, i, RiskConcurrency)
    /\ LET current == portfolios[riskJobs[i].wallet]
       IN  riskJobs' = [riskJobs EXCEPT ![i].state = "active", ![i].step = "read",
                                        ![i].positions = current.positions,
                                        ![i].readAt = current.readAt]
    /\ UNCHANGED << world, database, indexJobs, faults >>

\* Mutant: the snapshot is labelled with the height at which it is stored.
RiskRow_LabelledNow(i) ==
    [wallet |-> riskJobs[i].wallet, positions |-> riskJobs[i].positions,
     readAt |-> riskJobs[i].readAt, sourceBlock |-> Tip]

RiskRow(i) ==
    [wallet |-> riskJobs[i].wallet, positions |-> riskJobs[i].positions,
     readAt |-> riskJobs[i].readAt, sourceBlock |-> riskJobs[i].sourceBlock]

PersistRisk(i) ==
    /\ RiskAt(i, "read")
    /\ riskRows' = Append(riskRows, RiskRow(i))
    /\ riskJobs' = [riskJobs EXCEPT ![i].step = "stored"]
    /\ UNCHANGED << world, tracked, portfolios, indexJobs, faults >>

\* The alert and attestation jobs are queued: AttestationPipeline goes on from here.
CompleteRisk(i) ==
    /\ RiskAt(i, "stored")
    /\ riskJobs' = [riskJobs EXCEPT ![i].state = "done"]
    /\ UNCHANGED << world, database, indexJobs, faults >>

RiskThrows(i) ==
    /\ riskJobs[i].state = "active"
    /\ Fault("riskError")
    /\ riskJobs' = [riskJobs EXCEPT ![i] = Thrown(@)]
    /\ UNCHANGED << world, database, indexJobs >>

CrashRisk(i) ==
    /\ riskJobs[i].state = "active"
    /\ Fault("crash")
    /\ riskJobs' = [riskJobs EXCEPT ![i].state = "waiting"]
    /\ UNCHANGED << world, database, indexJobs >>

-----------------------------------------------------------------------------
IndexStep(j) ==
    StartIndex(j) \/ ReadPositions(j) \/ Persist(j) \/ RequestRisk(j) \/ CompleteIndex(j)

RiskStep(i) == StartRisk(i) \/ PersistRisk(i) \/ CompleteRisk(i)

Next ==
    \/ \E w \in Wallets, p \in Positions : MineBlock(w, p) \/ Reorganise(w, p)
    \/ \E w \in Wallets : RequestRefresh(w)
    \/ Ingest \/ IngestAndRepeat
    \/ \E j \in DOMAIN indexJobs : IndexStep(j) \/ IndexThrows(j) \/ CrashIndex(j)
    \/ \E i \in DOMAIN riskJobs : RiskStep(i) \/ RiskThrows(i) \/ CrashRisk(i)

Spec == Init /\ [][Next]_vars

MaxJobs == MaxRefreshes + MaxHeight * Cardinality(Wallets)

\* Payloads are delivered and the workers keep going; nobody has to ask for a refresh.
Fairness ==
    /\ WF_vars(Ingest)
    /\ \A j \in 1..MaxJobs : WF_vars(j \in DOMAIN indexJobs /\ IndexStep(j))
    /\ \A i \in 1..MaxJobs : WF_vars(i \in DOMAIN riskJobs /\ RiskStep(i))

FairSpec == Spec /\ Fairness

-----------------------------------------------------------------------------
(* Properties.                                                             *)

PayloadRecord == [wallets : SUBSET Wallets, height : 1..Tip]

PortfolioRecord == [positions : Positions, height : 1..Tip, readAt : 1..Tip]

IndexJobRecord ==
    [wallet : Wallets, eventHeight : 0..Tip, requestedAt : 1..Tip, state : JobStates,
     attempts : 0..MaxAttempts, step : {"queued", "height", "read", "persisted", "requested"},
     height : 0..Tip, positions : Positions, readAt : 0..Tip, run : {"none", "completed", "failed"}]

RiskJobRecord ==
    [wallet : DOMAIN portfolios, run : 1..Len(indexJobs), sourceBlock : 1..Tip, state : JobStates,
     attempts : 0..MaxAttempts, step : {"queued", "read", "stored"}, positions : Positions,
     readAt : 0..Tip]

RiskRowRecord == [wallet : Wallets, positions : Positions, readAt : 1..Tip, sourceBlock : 1..Tip]

\* Rows, jobs and payloads refer to wallets, heights and runs that exist.
RefreshTypeOK ==
    /\ chain \in Seq([Wallets -> Positions]) /\ Tip \in 1..MaxHeight
    /\ hook \in Seq(PayloadRecord)
    /\ DOMAIN portfolios \subseteq tracked /\ tracked \subseteq Wallets
    /\ \A w \in DOMAIN portfolios : portfolios[w] \in PortfolioRecord
    /\ indexJobs \in Seq(IndexJobRecord)
    /\ riskJobs \in Seq(RiskJobRecord)
    /\ riskRows \in Seq(RiskRowRecord)

\* documentation/35:98: the data of a snapshot "describes source-block": nothing in it
\* was read from the chain before that block, so a reader may take the label for a
\* lower bound on what the figures know.
LabelIsLowerBound == \A s \in DOMAIN riskRows : riskRows[s].readAt >= riskRows[s].sourceBlock

\* A run is scored by one risk job, however often its index job is retried or
\* resumed: retries do not multiply snapshots, alerts and attestations.
RunScoredOnce == \A i, k \in DOMAIN riskJobs : riskJobs[i].run = riskJobs[k].run => i = k

\* The status the API shows for a run tells how its job ended, whatever its earlier
\* attempts had written before they threw or died.
RunStatusIsFinal ==
    \A j \in DOMAIN indexJobs :
        /\ indexJobs[j].state = "done" => indexJobs[j].run = "completed"
        /\ indexJobs[j].state \in {"delayed", "failed"} /\ indexJobs[j].attempts > 0
              => indexJobs[j].run = "failed"

RiskOf(w) == {s \in DOMAIN riskRows : riskRows[s].wallet = w}

NewestRisk(w) == riskRows[CHOOSE s \in RiskOf(w) : \A q \in RiskOf(w) : q <= s]

Answered(j) ==
    /\ j \in DOMAIN indexJobs
    /\ \E s \in RiskOf(indexJobs[j].wallet) : riskRows[s].readAt >= indexJobs[j].requestedAt

\* Whoever asks for a refresh gets, in the end, a snapshot that knows at least what
\* the chain held when they asked.
RefreshIsAnswered == \A j \in 1..MaxJobs : j \in DOMAIN indexJobs ~> Answered(j)

\* In the end the newest snapshot of a wallet has the figures of the wallet's
\* positions on the chain, although events may come twice, jobs are dropped by their
\* ids and runs throw or die; a reorganisation may break this, see below.
Settles(w) == RiskOf(w) # {} => NewestRisk(w).positions = chain[Tip][w]

NewestRiskMatchesBlocks == \A w \in Wallets : <>[]("reorg" \in faults.kinds \/ Settles(w))

\* documentation/37:379: "when a tracked wallet transacts, Hiro calls the API and only
\* that wallet is re-read", chainhook.parser.ts:59: after a rollback "those wallets
\* need re-reading too": the same without the exception.
NewestRiskMatchesChain == \A w \in Wallets : <>[]Settles(w)
=============================================================================
