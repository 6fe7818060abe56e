---------------------------- MODULE RefreshProofs ----------------------------
(***************************************************************************)
(* Theorems about the refresh pipeline, for every set of wallets and       *)
(* positions, every concurrency and every number of blocks, refreshes,     *)
(* faults and attempts; the last one is for one indexer at a time.         *)
(***************************************************************************)
EXTENDS RefreshPipeline, FiniteSetTheorems, TLAPS

Live == {"waiting", "active", "delayed"}

\* What is true of every index job, whatever its attempts went through: the heights it
\* wrote down are in the order of its awaits, what it persisted is known, and its run
\* has the status of its last attempt.
IndexJobOK(job, known) ==
    /\ job.state \in Live => job.attempts < MaxAttempts
    /\ job.step # "queued" => job.height >= 1
    /\ job.step \in {"read", "persisted", "requested"} => job.readAt >= job.height
    /\ job.step \in {"persisted", "requested"} => job.wallet \in known
    /\ job.state = "active" /\ job.step \in {"persisted", "requested"} => job.run = "completed"
    /\ job.state = "done" => job.run = "completed"
    /\ job.state \in {"delayed", "failed"} /\ job.attempts > 0 => job.run = "failed"

RiskJobOK(job) ==
    /\ job.state \in Live => job.attempts < MaxAttempts
    /\ job.step # "queued" => job.readAt >= 1

RefreshInv ==
    /\ RefreshTypeOK
    /\ \A j \in DOMAIN indexJobs : IndexJobOK(indexJobs[j], DOMAIN portfolios)
    /\ \A i \in DOMAIN riskJobs : RiskJobOK(riskJobs[i])
    /\ RunScoredOnce

-----------------------------------------------------------------------------
(* One indexer at a time: what the label of a snapshot rests on.           *)

OneIndexer ==
    \A j, k \in DOMAIN indexJobs :
        indexJobs[j].state = "active" /\ indexJobs[k].state = "active" => j = k

\* Nobody else writes the portfolio between a job's read and its write, or between
\* its write and the risk job it asks for.
PortfolioHeld ==
    \A j \in DOMAIN indexJobs :
        indexJobs[j].state = "active" /\ indexJobs[j].wallet \in DOMAIN portfolios =>
            /\ indexJobs[j].step = "read"
                  => portfolios[indexJobs[j].wallet].readAt <= indexJobs[j].readAt
            /\ indexJobs[j].step \in {"persisted", "requested"}
                  => indexJobs[j].height <= portfolios[indexJobs[j].wallet].readAt

\* What a risk job will read, or has read, is no older than its label.
RiskJobsLabelled ==
    \A i \in DOMAIN riskJobs :
        /\ riskJobs[i].sourceBlock <= portfolios[riskJobs[i].wallet].readAt
        /\ riskJobs[i].step # "queued" => riskJobs[i].sourceBlock <= riskJobs[i].readAt

LabelInv ==
    /\ OneIndexer
    /\ PortfolioHeld
    /\ RiskJobsLabelled
    /\ LabelIsLowerBound
-----------------------------------------------------------------------------
\* A payload becomes finitely many jobs, one per wallet it names that has none yet;
\* each is a fresh job for the block of the payload.
LEMMA NewJobsAreFresh ==
    ASSUME RefreshTypeOK, NEW payload \in PayloadRecord
    PROVE  /\ NewIndexJobs(payload) \in Seq(IndexJobRecord)
           /\ \A i \in DOMAIN NewIndexJobs(payload) :
                 /\ NewIndexJobs(payload)[i].state = "delayed"
                 /\ NewIndexJobs(payload)[i].attempts = 0
                 /\ NewIndexJobs(payload)[i].step = "queued"
<1> DEFINE named == {w \in payload.wallets \cap tracked : ~HasIndexJob(w, payload.height)}
           IsOrder(s) == {s[i] : i \in DOMAIN s} = named
           order == CHOOSE s \in [1..Cardinality(named) -> named] : IsOrder(s)
<1>1. IsFiniteSet(named)
  BY RefreshAssumption, FS_Subset DEF RefreshTypeOK, PayloadRecord
<1>2. Cardinality(named) \in Nat /\ ExistsBijection(1..Cardinality(named), named)
  BY <1>1, FS_CardinalityType
<1>3. \E s \in [1..Cardinality(named) -> named] : IsOrder(s)
  <2>1. PICK s \in Bijection(1..Cardinality(named), named) : TRUE
    BY <1>2 DEF ExistsBijection
  <2>2. s \in [1..Cardinality(named) -> named] /\ \A w \in named : \E i \in 1..Cardinality(named) : s[i] = w
    BY <2>1 DEF Bijection, Surjection, Injection
  <2> HIDE DEF named
  <2> QED
    BY <2>2
<1>4. order \in [1..Cardinality(named) -> named]
  <2> HIDE DEF IsOrder, named
  <2> QED
    BY <1>3
<1>5. NewIndexJobs(payload) = [i \in DOMAIN order |-> IndexJob(order[i], payload.height, "delayed")]
  BY DEF NewIndexJobs
<1>6. \A w \in named : IndexJob(w, payload.height, "delayed") \in IndexJobRecord
  BY JobQueueAssumption DEF IndexJob, IndexJobRecord, JobStates, RefreshTypeOK, PayloadRecord, Tip
<1> QED
  <2> HIDE DEF named, order
  <2> QED
    BY <1>2, <1>4, <1>5, <1>6 DEF IndexJob

\* The first state of the pipeline satisfies the invariant.
LEMMA InitEstablishesRefreshInv == Init => RefreshInv
  BY RefreshAssumption DEF Init, RefreshInv, RefreshTypeOK, RunScoredOnce, PayloadRecord, PortfolioRecord,
     IndexJobRecord, RiskJobRecord, RiskRowRecord, Tip

\* What most steps of the indexer have in common: job j becomes `job`, portfolios are
\* only added or replaced, and the queues of the others are left alone.
IndexJobBecomes(j, job) ==
    /\ indexJobs' = [indexJobs EXCEPT ![j] = job]
    /\ job \in IndexJobRecord
    /\ IndexJobOK(job, DOMAIN portfolios')
    /\ DOMAIN portfolios \subseteq DOMAIN portfolios'
    /\ DOMAIN portfolios' \subseteq tracked' /\ tracked' \subseteq Wallets
    /\ \A w \in DOMAIN portfolios' : portfolios'[w] \in PortfolioRecord
    /\ UNCHANGED << chain, hook, riskJobs, riskRows >>

\* Such a step keeps the invariant.
LEMMA IndexJobStepKeepsInv ==
    ASSUME RefreshInv, NEW j \in DOMAIN indexJobs, NEW job, IndexJobBecomes(j, job)
    PROVE  RefreshInv'
<1> USE DEF RefreshInv
<1>1. /\ UNCHANGED << chain, hook, riskJobs, riskRows >> /\ Tip' = Tip
      /\ indexJobs' = [indexJobs EXCEPT ![j] = job]
      /\ PayloadRecord' = PayloadRecord /\ IndexJobRecord' = IndexJobRecord
      /\ RiskRowRecord' = RiskRowRecord /\ PortfolioRecord' = PortfolioRecord
  BY DEF IndexJobBecomes, Tip, PayloadRecord, IndexJobRecord, RiskRowRecord, PortfolioRecord
<1>2. /\ Len(indexJobs') = Len(indexJobs) /\ indexJobs' \in Seq(IndexJobRecord)
      /\ DOMAIN indexJobs' = DOMAIN indexJobs /\ indexJobs'[j] = job
      /\ \A k \in DOMAIN indexJobs : k # j => indexJobs'[k] = indexJobs[k]
  BY <1>1 DEF IndexJobBecomes, RefreshTypeOK
<1>3. riskJobs' \in Seq(RiskJobRecord')
  <2>1. RiskJobRecord \subseteq RiskJobRecord'
    BY <1>1, <1>2 DEF RiskJobRecord, IndexJobBecomes
  <2> HIDE DEF RefreshInv
  <2>2. \A i \in DOMAIN riskJobs : riskJobs[i] \in RiskJobRecord
    BY DEF RefreshTypeOK, RefreshInv
  <2>3. riskJobs \in Seq(RiskJobRecord)
    BY DEF RefreshTypeOK, RefreshInv
  <2> QED
    BY <1>1, <2>1, <2>2, <2>3
<1>4. RefreshTypeOK'
  BY <1>1, <1>2, <1>3 DEF RefreshTypeOK, IndexJobBecomes
<1>5. \A k \in DOMAIN indexJobs' : IndexJobOK(indexJobs'[k], DOMAIN portfolios')
  BY <1>1, <1>2 DEF IndexJobBecomes, IndexJobOK
<1>6. (\A i \in DOMAIN riskJobs : RiskJobOK(riskJobs[i]))' /\ RunScoredOnce'
  BY <1>1 DEF RiskJobOK, RunScoredOnce
<1> QED
  BY <1>4, <1>5, <1>6
\* A block that is mined or replaced only adds to the heights there are.
ChainGrows ==
    /\ chain' \in Seq([Wallets -> Positions]) /\ Tip <= Tip' /\ Tip' <= MaxHeight
    /\ hook' \in Seq(PayloadRecord')
    /\ UNCHANGED << database, indexJobs, riskJobs >>

\* A block that is added or replaced keeps the invariant.
LEMMA ChainGrowthKeepsInv ==
    ASSUME RefreshInv, ChainGrows
    PROVE  RefreshInv'
<1> USE RefreshAssumption DEF RefreshInv
<1>1. /\ UNCHANGED << tracked, portfolios, riskRows, indexJobs, riskJobs >>
      /\ Tip \in 1..MaxHeight /\ Tip' \in 1..MaxHeight /\ Tip <= Tip'
  BY DEF ChainGrows, database, RefreshTypeOK, Tip
<1>2. /\ IndexJobRecord \subseteq IndexJobRecord' /\ RiskJobRecord \subseteq RiskJobRecord'
      /\ RiskRowRecord \subseteq RiskRowRecord' /\ PortfolioRecord \subseteq PortfolioRecord'
  <2>1. IndexJobRecord \subseteq IndexJobRecord'
    BY <1>1 DEF IndexJobRecord
  <2>2. RiskJobRecord \subseteq RiskJobRecord'
    BY <1>1 DEF RiskJobRecord
  <2>3. RiskRowRecord \subseteq RiskRowRecord' /\ PortfolioRecord \subseteq PortfolioRecord'
    BY <1>1 DEF RiskRowRecord, PortfolioRecord
  <2> QED
    BY <2>1, <2>2, <2>3
<1>3. RefreshTypeOK'
  BY <1>1, <1>2 DEF RefreshTypeOK, ChainGrows
<1>4. (\A j \in DOMAIN indexJobs : IndexJobOK(indexJobs[j], DOMAIN portfolios))'
  BY <1>1 DEF IndexJobOK
<1>5. (\A i \in DOMAIN riskJobs : RiskJobOK(riskJobs[i]))' /\ RunScoredOnce'
  BY <1>1 DEF RiskJobOK, RunScoredOnce
<1> QED
  BY <1>3, <1>4, <1>5

\* The portfolio queue gets jobs of which none has been started.
JobsQueued(new) ==
    /\ indexJobs' = indexJobs \o new
    /\ new \in Seq(IndexJobRecord)
    /\ \A i \in DOMAIN new : new[i].attempts = 0 /\ new[i].step = "queued" /\ new[i].state \in Live
    /\ hook' \in Seq(PayloadRecord)
    /\ UNCHANGED << chain, database, riskJobs >>

\* Adding fresh index jobs to the queue keeps the invariant.
LEMMA QueueingKeepsInv ==
    ASSUME RefreshInv, NEW new, JobsQueued(new)
    PROVE  RefreshInv'
<1> USE DEF RefreshInv
<1>1. /\ UNCHANGED << chain, tracked, portfolios, riskRows, riskJobs >> /\ Tip' = Tip
      /\ PayloadRecord' = PayloadRecord /\ IndexJobRecord' = IndexJobRecord
      /\ RiskRowRecord' = RiskRowRecord /\ PortfolioRecord' = PortfolioRecord
  BY DEF JobsQueued, database, Tip, PayloadRecord, IndexJobRecord, RiskRowRecord, PortfolioRecord
<1>2. /\ indexJobs' \in Seq(IndexJobRecord) /\ Len(indexJobs) <= Len(indexJobs')
      /\ \A k \in DOMAIN indexJobs' :
            \/ k \in DOMAIN indexJobs /\ indexJobs'[k] = indexJobs[k]
            \/ indexJobs'[k].attempts = 0 /\ indexJobs'[k].step = "queued"
               /\ indexJobs'[k].state \in Live
  BY <1>1 DEF JobsQueued, RefreshTypeOK
<1>3. riskJobs' \in Seq(RiskJobRecord')
  <2>1. RiskJobRecord \subseteq RiskJobRecord'
    BY <1>1, <1>2 DEF RiskJobRecord, RefreshTypeOK
  <2> QED
    BY <1>1, <2>1 DEF RefreshTypeOK
<1>4. RefreshTypeOK'
  BY <1>1, <1>2, <1>3 DEF RefreshTypeOK, JobsQueued
<1>5. \A k \in DOMAIN indexJobs' : IndexJobOK(indexJobs'[k], DOMAIN portfolios')
  BY <1>1, <1>2, JobQueueAssumption DEF IndexJobOK, Live
<1>6. (\A i \in DOMAIN riskJobs : RiskJobOK(riskJobs[i]))' /\ RunScoredOnce'
  BY <1>1 DEF RiskJobOK, RunScoredOnce
<1> QED
  BY <1>4, <1>5, <1>6

\* What the steps of the risk worker have in common: job i becomes `job`, still for the
\* same run, and rows are only appended.
RiskJobBecomes(i, job) ==
    /\ riskJobs' = [riskJobs EXCEPT ![i] = job]
    /\ job \in RiskJobRecord /\ RiskJobOK(job) /\ job.run = riskJobs[i].run
    /\ riskRows' \in Seq(RiskRowRecord)
    /\ UNCHANGED << world, tracked, portfolios, indexJobs >>

\* Such a step keeps the invariant.
LEMMA RiskJobStepKeepsInv ==
    ASSUME RefreshInv, NEW i \in DOMAIN riskJobs, NEW job, RiskJobBecomes(i, job)
    PROVE  RefreshInv'
<1> USE DEF RefreshInv
<1>1. /\ UNCHANGED << chain, hook, tracked, portfolios, indexJobs >> /\ Tip' = Tip
      /\ PayloadRecord' = PayloadRecord /\ IndexJobRecord' = IndexJobRecord
      /\ RiskJobRecord' = RiskJobRecord
      /\ RiskRowRecord' = RiskRowRecord /\ PortfolioRecord' = PortfolioRecord
  BY DEF RiskJobBecomes, world, Tip, PayloadRecord, IndexJobRecord, RiskJobRecord, RiskRowRecord, PortfolioRecord
<1>2. /\ riskJobs' \in Seq(RiskJobRecord)
      /\ DOMAIN riskJobs' = DOMAIN riskJobs /\ riskJobs'[i] = job
      /\ \A k \in DOMAIN riskJobs : k # i => riskJobs'[k] = riskJobs[k]
  BY DEF RiskJobBecomes, RefreshTypeOK
<1>3. RefreshTypeOK'
  BY <1>1, <1>2 DEF RefreshTypeOK, RiskJobBecomes
<1>4. (\A j \in DOMAIN indexJobs : IndexJobOK(indexJobs[j], DOMAIN portfolios))'
  BY <1>1 DEF IndexJobOK
<1>5. \A k \in DOMAIN riskJobs' : RiskJobOK(riskJobs'[k])
  BY <1>2 DEF RiskJobBecomes
<1>6. RunScoredOnce'
  BY <1>2 DEF RunScoredOnce, RiskJobBecomes
<1> QED
  BY <1>3, <1>4, <1>5, <1>6

-----------------------------------------------------------------------------
(* One lemma per group of actions.                                         *)

\* Blocks, payloads and refresh requests.
LEMMA WorldStepsKeepInv ==
    ASSUME RefreshInv,
           \/ \E w \in Wallets, p \in Positions : MineBlock(w, p) \/ Reorganise(w, p)
           \/ \E w \in Wallets : RequestRefresh(w)
           \/ Ingest \/ IngestAndRepeat
    PROVE  RefreshInv'
<1> USE DEF RefreshInv
<1>0. /\ chain \in Seq([Wallets -> Positions]) /\ Len(chain) \in 1..MaxHeight
      /\ \A h \in 1..Len(chain) : chain[h] \in [Wallets -> Positions]
      /\ hook \in Seq(PayloadRecord)
  BY DEF RefreshTypeOK, Tip
<1>1. ASSUME NEW w \in Wallets, NEW p \in Positions, MineBlock(w, p)
      PROVE  ChainGrows
  <2> DEFINE block == [chain[Tip] EXCEPT ![w] = p]
  <2>1. chain' = Append(chain, block) /\ block \in [Wallets -> Positions] /\ Len(chain) < MaxHeight
    BY <1>0, <1>1 DEF MineBlock, Tip
  <2> HIDE DEF block
  <2>2. chain' \in Seq([Wallets -> Positions]) /\ Len(chain') = Len(chain) + 1
    BY <1>0, <2>1
  <2>3. PayloadRecord \subseteq PayloadRecord' /\ PayloadOf({w}, Tip + 1) \in PayloadRecord'
    BY <1>0, <2>2 DEF PayloadRecord, PayloadOf, Tip
  <2>4. hook' \in Seq(PayloadRecord')
    BY <1>0, <1>1, <2>3 DEF MineBlock
  <2> QED
    BY <1>0, <1>1, <2>1, <2>2, <2>4, RefreshAssumption DEF ChainGrows, MineBlock, Tip
<1>2. ASSUME NEW w \in Wallets, NEW p \in Positions, Reorganise(w, p)
      PROVE  ChainGrows
  <2> DEFINE after == [chain[Tip - 1] EXCEPT ![w] = p]
             touched == {v \in Wallets : chain[Tip][v] # chain[Tip - 1][v] \/ after[v] # chain[Tip - 1][v]}
  <2>1. /\ Len(chain) > 1 /\ after \in [Wallets -> Positions]
        /\ chain' = [chain EXCEPT ![Tip] = after]
        /\ hook' = Append(hook, PayloadOf(touched, Tip))
    BY <1>0, <1>2 DEF Reorganise, Tip
  <2>2. touched \subseteq Wallets
    OBVIOUS
  <2> HIDE DEF after, touched
  <2>3. chain' \in Seq([Wallets -> Positions]) /\ Len(chain') = Len(chain)
    BY <1>0, <2>1 DEF Tip
  <2>4. PayloadRecord' = PayloadRecord /\ PayloadOf(touched, Tip) \in PayloadRecord
    BY <1>0, <2>2, <2>3 DEF PayloadRecord, PayloadOf, Tip
  <2>5. hook' \in Seq(PayloadRecord')
    BY <1>0, <2>1, <2>4
  <2> QED
    BY <1>0, <1>2, <2>3, <2>5, RefreshAssumption DEF ChainGrows, Reorganise, Tip
<1>3. ASSUME NEW w \in Wallets, RequestRefresh(w)
      PROVE  JobsQueued(<< IndexJob(w, 0, "waiting") >>)
  <2> DEFINE new == IndexJob(w, 0, "waiting")
  <2>1. new \in IndexJobRecord /\ new.attempts = 0 /\ new.step = "queued" /\ new.state \in Live
    BY <1>0, JobQueueAssumption DEF IndexJob, IndexJobRecord, JobStates, Tip, Live
  <2>2. indexJobs' = Append(indexJobs, new) /\ UNCHANGED << chain, hook, database, riskJobs >>
    BY <1>3 DEF RequestRefresh, world
  <2>3. indexJobs \in Seq(IndexJobRecord)
    BY DEF RefreshTypeOK
  <2> HIDE DEF new
  <2>4. indexJobs' = indexJobs \o << new >>
    BY <2>1, <2>2, <2>3
  <2> QED
    BY <1>0, <2>1, <2>2, <2>4 DEF JobsQueued, new
<1>4. ASSUME Ingest \/ IngestAndRepeat
      PROVE  JobsQueued(NewIndexJobs(Head(hook)))
  <2>1. Head(hook) \in PayloadRecord /\ Tail(hook) \in Seq(PayloadRecord)
    BY <1>0, <1>4 DEF Ingest, IngestAndRepeat
  <2>2. /\ NewIndexJobs(Head(hook)) \in Seq(IndexJobRecord)
        /\ \A i \in DOMAIN NewIndexJobs(Head(hook)) :
              /\ NewIndexJobs(Head(hook))[i].state = "delayed"
              /\ NewIndexJobs(Head(hook))[i].attempts = 0
              /\ NewIndexJobs(Head(hook))[i].step = "queued"
    BY <2>1, NewJobsAreFresh
  <2>3. /\ indexJobs' = indexJobs \o NewIndexJobs(Head(hook))
        /\ hook' \in {hook, Tail(hook)}
        /\ UNCHANGED << chain, database, riskJobs >>
    BY <1>4 DEF Ingest, IngestAndRepeat, world
  <2> QED
    BY <1>0, <2>1, <2>2, <2>3 DEF JobsQueued, Live
<1> QED
  <2> HIDE DEF RefreshInv
  <2> QED
    BY <1>1, <1>2, <1>3, <1>4, ChainGrowthKeepsInv, QueueingKeepsInv
\* The indexer's steps on one job, but the one that adds the risk job.
LEMMA IndexStepsKeepInv ==
    ASSUME RefreshInv, NEW j \in DOMAIN indexJobs,
           \/ StartIndex(j) \/ ReadPositions(j) \/ Persist(j) \/ CompleteIndex(j)
           \/ IndexThrows(j) \/ CrashIndex(j)
    PROVE  RefreshInv'
<1> DEFINE old == indexJobs[j]
<1>0. /\ old \in IndexJobRecord /\ IndexJobOK(old, DOMAIN portfolios)
      /\ chain \in Seq([Wallets -> Positions]) /\ Tip \in 1..MaxHeight /\ Tip = Len(chain)
      /\ DOMAIN portfolios \subseteq tracked /\ tracked \subseteq Wallets
      /\ \A w \in DOMAIN portfolios : portfolios[w] \in PortfolioRecord
  BY DEF RefreshInv, RefreshTypeOK, Tip
<1>1. SUFFICES \E job : IndexJobBecomes(j, job)
  BY IndexJobStepKeepsInv
<1> HIDE DEF old
<1>2. CASE StartIndex(j)
  <2> DEFINE job == [old EXCEPT !.state = "active", !.step = "height", !.height = Tip]
  <2>1. /\ indexJobs' = [indexJobs EXCEPT ![j] = job]
        /\ old.state \in Live
        /\ UNCHANGED << chain, hook, tracked, portfolios, riskRows, riskJobs >>
    BY <1>0, <1>2 DEF StartIndex, Startable, world, database, old, Live
  <2>2. job \in IndexJobRecord
    <3>1. old \in IndexJobRecord /\ Tip \in 0..Tip /\ "active" \in JobStates
      BY <1>0 DEF JobStates
    <3> QED
      BY <3>1 DEF IndexJobRecord
  <2>3. IndexJobOK(job, DOMAIN portfolios')
    BY <1>0, <2>1 DEF IndexJobRecord, IndexJobOK, JobStates, Live
  <2> HIDE DEF job
  <2>4. IndexJobBecomes(j, job)
    BY <1>0, <2>1, <2>2, <2>3 DEF IndexJobBecomes
  <2> QED
    BY <2>4
<1>3. CASE ReadPositions(j)
  <2> DEFINE job == [old EXCEPT !.step = "read", !.readAt = Tip, !.positions = chain[Tip][old.wallet]]
  <2>1. /\ indexJobs' = [indexJobs EXCEPT ![j] = job]
        /\ old.state = "active" /\ old.step = "height"
        /\ UNCHANGED << chain, hook, tracked, portfolios, riskRows, riskJobs >>
    BY <1>0, <1>3 DEF ReadPositions, IndexAt, world, database, old
  <2>2. job \in IndexJobRecord
    <3>1. chain[Tip][old.wallet] \in Positions
      BY <1>0 DEF IndexJobRecord
    <3>2. old \in IndexJobRecord /\ Tip \in 0..Tip
      BY <1>0
    <3> QED
      BY <3>1, <3>2 DEF IndexJobRecord
  <2>3. IndexJobOK(job, DOMAIN portfolios')
    BY <1>0, <2>1 DEF IndexJobRecord, IndexJobOK, Live
  <2> HIDE DEF job
  <2>4. IndexJobBecomes(j, job)
    BY <1>0, <2>1, <2>2, <2>3 DEF IndexJobBecomes
  <2> QED
    BY <2>4
<1>4. CASE Persist(j)
  <2> DEFINE job == [old EXCEPT !.step = "persisted", !.run = "completed"]
             w == old.wallet
  <2>1. /\ indexJobs' = [indexJobs EXCEPT ![j] = job]
        /\ old.state = "active" /\ old.step = "read"
        /\ tracked' = tracked \cup {w}
        /\ portfolios' = [v \in DOMAIN portfolios \cup {w} |->
                             IF v = w THEN Portfolio(j) ELSE portfolios[v]]
        /\ UNCHANGED << chain, hook, riskRows, riskJobs >>
    BY <1>0, <1>4 DEF Persist, IndexAt, world, old
  <2>2. job \in IndexJobRecord /\ IndexJobOK(job, DOMAIN portfolios')
    BY <1>0, <2>1 DEF IndexJobRecord, IndexJobOK, Live
  <2>3. Portfolio(j) \in PortfolioRecord
    BY <1>0, <2>1 DEF Portfolio, PortfolioRecord, IndexJobRecord, IndexJobOK, old
  <2>4. w \in Wallets
    BY <1>0 DEF IndexJobRecord
  <2> HIDE DEF job, w
  <2>5. IndexJobBecomes(j, job)
    BY <1>0, <2>1, <2>2, <2>3, <2>4 DEF IndexJobBecomes
  <2> QED
    BY <2>5
<1>5. CASE CompleteIndex(j)
  <2> DEFINE job == [old EXCEPT !.state = "done"]
  <2>1. /\ indexJobs' = [indexJobs EXCEPT ![j] = job]
        /\ old.state = "active" /\ old.step = "requested"
        /\ UNCHANGED << chain, hook, tracked, portfolios, riskRows, riskJobs >>
    BY <1>0, <1>5 DEF CompleteIndex, IndexAt, world, database, old
  <2>2. job \in IndexJobRecord /\ IndexJobOK(job, DOMAIN portfolios')
    BY <1>0, <2>1 DEF IndexJobRecord, IndexJobOK, JobStates, Live
  <2> HIDE DEF job
  <2>3. IndexJobBecomes(j, job)
    BY <1>0, <2>1, <2>2 DEF IndexJobBecomes
  <2> QED
    BY <2>3
<1>6. CASE IndexThrows(j)
  <2> DEFINE job == Failed(old)
  <2>1. /\ indexJobs' = [indexJobs EXCEPT ![j] = job]
        /\ old.state = "active"
        /\ tracked' = tracked \cup {old.wallet}
        /\ UNCHANGED << chain, hook, portfolios, riskRows, riskJobs >>
    BY <1>0, <1>6 DEF IndexThrows, world, old
  <2>2. job \in IndexJobRecord /\ IndexJobOK(job, DOMAIN portfolios')
    <3>1. job = [old EXCEPT !.attempts = old.attempts + 1,
                            !.state = IF old.attempts + 1 < MaxAttempts THEN "delayed" ELSE "failed",
                            !.run = "failed"]
      BY <1>0 DEF Failed, Thrown, IndexJobRecord
    <3> HIDE DEF job
    <3>2. old.attempts \in Nat /\ old.attempts < MaxAttempts /\ MaxAttempts \in Nat
      BY <1>0, <2>1, JobQueueAssumption DEF IndexJobRecord, IndexJobOK, Live
    <3>3. job \in IndexJobRecord
      <4> DEFINE state == IF old.attempts + 1 < MaxAttempts THEN "delayed" ELSE "failed"
      <4>1. old \in IndexJobRecord /\ old.attempts + 1 \in 0..MaxAttempts /\ state \in JobStates
        BY <1>0, <3>2 DEF JobStates
      <4> HIDE DEF state
      <4> QED
        BY <3>1, <4>1 DEF IndexJobRecord, state
    <3>4. IndexJobOK(job, DOMAIN portfolios')
      BY <1>0, <2>1, <3>1, <3>2 DEF IndexJobRecord, IndexJobOK, Live
    <3> QED
      BY <3>3, <3>4
  <2>3. old.wallet \in Wallets
    BY <1>0 DEF IndexJobRecord
  <2> HIDE DEF job
  <2>4. IndexJobBecomes(j, job)
    BY <1>0, <2>1, <2>2, <2>3 DEF IndexJobBecomes
  <2> QED
    BY <2>4
<1>7. CASE CrashIndex(j)
  <2> DEFINE job == [old EXCEPT !.state = "waiting"]
  <2>1. /\ indexJobs' = [indexJobs EXCEPT ![j] = job]
        /\ old.state = "active"
        /\ UNCHANGED << chain, hook, tracked, portfolios, riskRows, riskJobs >>
    BY <1>0, <1>7 DEF CrashIndex, world, database, old
  <2>2. job \in IndexJobRecord /\ IndexJobOK(job, DOMAIN portfolios')
    BY <1>0, <2>1 DEF IndexJobRecord, IndexJobOK, JobStates, Live
  <2> HIDE DEF job
  <2>3. IndexJobBecomes(j, job)
    BY <1>0, <2>1, <2>2 DEF IndexJobBecomes
  <2> QED
    BY <2>3
<1> QED
  BY <1>2, <1>3, <1>4, <1>5, <1>6, <1>7

\* The risk worker's steps on one job.
LEMMA RiskStepsKeepInv ==
    ASSUME RefreshInv, NEW i \in DOMAIN riskJobs,
           RiskStep(i) \/ RiskThrows(i) \/ CrashRisk(i)
    PROVE  RefreshInv'
<1> DEFINE old == riskJobs[i]
<1>0. /\ old \in RiskJobRecord /\ RiskJobOK(old)
      /\ riskRows \in Seq(RiskRowRecord)
      /\ DOMAIN portfolios \subseteq Wallets
      /\ \A w \in DOMAIN portfolios : portfolios[w] \in PortfolioRecord
  BY DEF RefreshInv, RefreshTypeOK
<1>1. SUFFICES \E job : RiskJobBecomes(i, job)
  BY RiskJobStepKeepsInv
<1> HIDE DEF old
<1>2. CASE StartRisk(i)
  <2> DEFINE current == portfolios[old.wallet]
             job == [old EXCEPT !.state = "active", !.step = "read",
                                !.positions = current.positions, !.readAt = current.readAt]
  <2>1. /\ riskJobs' = [riskJobs EXCEPT ![i] = job]
        /\ old.state \in Live
        /\ UNCHANGED << world, tracked, portfolios, riskRows, indexJobs >>
    BY <1>0, <1>2 DEF StartRisk, Startable, database, old, Live
  <2>2. current \in PortfolioRecord
    BY <1>0 DEF RiskJobRecord
  <2> HIDE DEF current
  <2>3. job \in RiskJobRecord /\ RiskJobOK(job) /\ job.run = old.run
    <3>1. job \in RiskJobRecord /\ job.run = old.run
      <4>1. old \in RiskJobRecord /\ current.readAt \in 0..Tip /\ current.positions \in Positions
            /\ "active" \in JobStates
        BY <1>0, <2>2 DEF PortfolioRecord, JobStates
      <4> QED
        BY <4>1 DEF RiskJobRecord
    <3>2. RiskJobOK(job)
      BY <1>0, <2>1, <2>2 DEF RiskJobRecord, PortfolioRecord, RiskJobOK, Live
    <3> QED
      BY <3>1, <3>2
  <2> HIDE DEF job
  <2>4. RiskJobBecomes(i, job)
    BY <1>0, <2>1, <2>3 DEF RiskJobBecomes, old
  <2> QED
    BY <2>4
<1>3. CASE PersistRisk(i)
  <2> DEFINE job == [old EXCEPT !.step = "stored"]
  <2>1. /\ riskJobs' = [riskJobs EXCEPT ![i] = job]
        /\ old.state = "active" /\ old.step = "read"
        /\ riskRows' = Append(riskRows, RiskRow(i))
        /\ UNCHANGED << world, tracked, portfolios, indexJobs >>
    BY <1>0, <1>3 DEF PersistRisk, RiskAt, old
  <2>2. job \in RiskJobRecord /\ RiskJobOK(job) /\ job.run = old.run
    BY <1>0, <2>1 DEF RiskJobRecord, RiskJobOK, Live
  <2>3. RiskRow(i) \in RiskRowRecord
    BY <1>0, <2>1 DEF RiskRow, RiskRowRecord, RiskJobRecord, RiskJobOK, old
  <2> HIDE DEF job
  <2>4. RiskJobBecomes(i, job)
    BY <1>0, <2>1, <2>2, <2>3 DEF RiskJobBecomes, old
  <2> QED
    BY <2>4
<1>4. CASE CompleteRisk(i)
  <2> DEFINE job == [old EXCEPT !.state = "done"]
  <2>1. /\ riskJobs' = [riskJobs EXCEPT ![i] = job]
        /\ UNCHANGED << world, tracked, portfolios, riskRows, indexJobs >>
    BY <1>0, <1>4 DEF CompleteRisk, database, old
  <2>2. job \in RiskJobRecord /\ RiskJobOK(job) /\ job.run = old.run
    BY <1>0 DEF RiskJobRecord, RiskJobOK, JobStates, Live
  <2> HIDE DEF job
  <2>3. RiskJobBecomes(i, job)
    BY <1>0, <2>1, <2>2 DEF RiskJobBecomes, old
  <2> QED
    BY <2>3
<1>5. CASE RiskThrows(i)
  <2> DEFINE job == Thrown(old)
  <2>1. /\ riskJobs' = [riskJobs EXCEPT ![i] = job]
        /\ old.state = "active"
        /\ UNCHANGED << world, tracked, portfolios, riskRows, indexJobs >>
    BY <1>0, <1>5 DEF RiskThrows, database, old
  <2>2. job \in RiskJobRecord /\ RiskJobOK(job) /\ job.run = old.run
    <3>1. old.attempts \in Nat /\ old.attempts < MaxAttempts /\ MaxAttempts \in Nat
      BY <1>0, <2>1, JobQueueAssumption DEF RiskJobRecord, RiskJobOK, Live
    <3>2. job = [old EXCEPT !.attempts = old.attempts + 1,
                            !.state = IF old.attempts + 1 < MaxAttempts THEN "delayed" ELSE "failed"]
      BY <1>0 DEF Thrown, RiskJobRecord
    <3> HIDE DEF job
    <3>3. job \in RiskJobRecord /\ job.run = old.run
      <4> DEFINE state == IF old.attempts + 1 < MaxAttempts THEN "delayed" ELSE "failed"
      <4>1. old \in RiskJobRecord /\ old.attempts + 1 \in 0..MaxAttempts /\ state \in JobStates
        BY <1>0, <3>1 DEF JobStates
      <4> HIDE DEF state
      <4> QED
        BY <3>2, <4>1 DEF RiskJobRecord, state
    <3>4. RiskJobOK(job)
      BY <1>0, <3>1, <3>2 DEF RiskJobRecord, RiskJobOK, Live
    <3> QED
      BY <3>3, <3>4
  <2> HIDE DEF job
  <2>3. RiskJobBecomes(i, job)
    BY <1>0, <2>1, <2>2 DEF RiskJobBecomes, old
  <2> QED
    BY <2>3
<1>6. CASE CrashRisk(i)
  <2> DEFINE job == [old EXCEPT !.state = "waiting"]
  <2>1. /\ riskJobs' = [riskJobs EXCEPT ![i] = job]
        /\ old.state = "active"
        /\ UNCHANGED << world, tracked, portfolios, riskRows, indexJobs >>
    BY <1>0, <1>6 DEF CrashRisk, database, old
  <2>2. job \in RiskJobRecord /\ RiskJobOK(job) /\ job.run = old.run
    BY <1>0, <2>1 DEF RiskJobRecord, RiskJobOK, JobStates, Live
  <2> HIDE DEF job
  <2>3. RiskJobBecomes(i, job)
    BY <1>0, <2>1, <2>2 DEF RiskJobBecomes, old
  <2> QED
    BY <2>3
<1> QED
  BY <1>2, <1>3, <1>4, <1>5, <1>6 DEF RiskStep

\* Asking for the risk job: the queue takes it only when it has none of this run.
LEMMA RequestRiskKeepsInv ==
    ASSUME RefreshInv, NEW j \in DOMAIN indexJobs, RequestRisk(j)
    PROVE  RefreshInv'
<1> DEFINE old == indexJobs[j]
           job == [old EXCEPT !.step = "requested"]
<1>1. /\ old \in IndexJobRecord /\ IndexJobOK(old, DOMAIN portfolios)
      /\ indexJobs' = [indexJobs EXCEPT ![j] = job]
      /\ old.state = "active" /\ old.step = "persisted"
      /\ UNCHANGED << chain, hook, tracked, portfolios, riskRows >> /\ Tip' = Tip
  BY DEF RequestRisk, IndexAt, RefreshInv, RefreshTypeOK, world, database, Tip
<1>2. /\ PayloadRecord' = PayloadRecord /\ IndexJobRecord' = IndexJobRecord
      /\ RiskRowRecord' = RiskRowRecord /\ PortfolioRecord' = PortfolioRecord
  BY <1>1 DEF PayloadRecord, IndexJobRecord, RiskRowRecord, PortfolioRecord
<1>3. job \in IndexJobRecord /\ IndexJobOK(job, DOMAIN portfolios)
  BY <1>1 DEF IndexJobRecord, IndexJobOK, Live
<1> HIDE DEF job
<1>4. /\ indexJobs' \in Seq(IndexJobRecord) /\ Len(indexJobs') = Len(indexJobs)
      /\ \A k \in DOMAIN indexJobs' : IndexJobOK(indexJobs'[k], DOMAIN portfolios)
  BY <1>1, <1>3 DEF RefreshInv, RefreshTypeOK
<1>5. RiskJobRecord' = RiskJobRecord
  BY <1>1, <1>4 DEF RiskJobRecord
<1>6. RiskJob(j) \in RiskJobRecord /\ RiskJobOK(RiskJob(j)) /\ RiskJob(j).run = j
  <2>1. j \in 1..Len(indexJobs) /\ Tip \in Nat
    BY DEF RefreshInv, RefreshTypeOK
  <2>2. old.wallet \in DOMAIN portfolios /\ old.height \in 1..Tip /\ old.positions \in Positions
    BY <1>1, <2>1 DEF IndexJobRecord, IndexJobOK
  <2> QED
    BY <2>1, <2>2, JobQueueAssumption DEF RiskJob, RiskJobRecord, RiskJobOK, JobStates, Live
<1>7. riskJobs \in Seq(RiskJobRecord) /\ (\A i \in DOMAIN riskJobs : RiskJobOK(riskJobs[i]))
  BY DEF RefreshInv, RefreshTypeOK
<1>8. riskJobs' = IF RiskRequested(j) THEN riskJobs ELSE Append(riskJobs, RiskJob(j))
  BY DEF RequestRisk
<1>9. riskJobs' \in Seq(RiskJobRecord) /\ \A i \in DOMAIN riskJobs' : RiskJobOK(riskJobs'[i])
  BY <1>6, <1>7, <1>8
<1>10. RunScoredOnce'
  BY <1>6, <1>7, <1>8 DEF RefreshInv, RunScoredOnce, RiskRequested
<1>11. RefreshTypeOK'
  BY <1>1, <1>2, <1>4, <1>5, <1>9 DEF RefreshInv, RefreshTypeOK
<1> QED
  BY <1>1, <1>4, <1>9, <1>10, <1>11 DEF RefreshInv

\* Every step of the pipeline keeps the invariant.
LEMMA StepKeepsRefreshInv == RefreshInv /\ [Next]_vars => RefreshInv'
<1> SUFFICES ASSUME RefreshInv, [Next]_vars PROVE RefreshInv'
  OBVIOUS
<1>1. CASE UNCHANGED vars
  BY <1>1 DEF vars, world, database, RefreshInv, RefreshTypeOK, RunScoredOnce, IndexJobOK, RiskJobOK,
     PayloadRecord, IndexJobRecord, RiskJobRecord, RiskRowRecord, PortfolioRecord, Tip
<1>2. CASE \/ \E w \in Wallets, p \in Positions : MineBlock(w, p) \/ Reorganise(w, p)
           \/ \E w \in Wallets : RequestRefresh(w)
           \/ Ingest \/ IngestAndRepeat
  BY <1>2, WorldStepsKeepInv
<1>3. CASE \E j \in DOMAIN indexJobs : IndexStep(j) \/ IndexThrows(j) \/ CrashIndex(j)
  BY <1>3, IndexStepsKeepInv, RequestRiskKeepsInv DEF IndexStep
<1>4. CASE \E i \in DOMAIN riskJobs : RiskStep(i) \/ RiskThrows(i) \/ CrashRisk(i)
  BY <1>4, RiskStepsKeepInv
<1> QED
  BY <1>1, <1>2, <1>3, <1>4 DEF Next

\* Rows, jobs and payloads always refer to wallets, heights and runs that exist.
THEOREM RefreshTypeCorrect == Spec => []RefreshTypeOK
<1>1. Spec => []RefreshInv
  BY InitEstablishesRefreshInv, StepKeepsRefreshInv, PTL DEF Spec
<1>2. RefreshInv => RefreshTypeOK
  BY DEF RefreshInv
<1> QED
  BY <1>1, <1>2, PTL

\* However often payloads are repeated, index jobs retried or resumed, and workers
\* killed, a run is scored by one risk job at most.
THEOREM RefreshScoresRunsOnce == Spec => []RunScoredOnce
<1>1. Spec => []RefreshInv
  BY InitEstablishesRefreshInv, StepKeepsRefreshInv, PTL DEF Spec
<1>2. RefreshInv => RunScoredOnce
  BY DEF RefreshInv
<1> QED
  BY <1>1, <1>2, PTL

\* The status the API shows for a run is that of the job's last attempt.
THEOREM RefreshStatusFinal == Spec => []RunStatusIsFinal
<1>1. Spec => []RefreshInv
  BY InitEstablishesRefreshInv, StepKeepsRefreshInv, PTL DEF Spec
<1>2. RefreshInv => RunStatusIsFinal
  BY DEF RefreshInv, IndexJobOK, RunStatusIsFinal
<1> QED
  BY <1>1, <1>2, PTL
-----------------------------------------------------------------------------
(* The label of a snapshot, with one indexer.                              *)

\* What queues and rows are to the invariant: sequences of records.
LEMMA RecordsOfInv ==
    ASSUME RefreshInv
    PROVE  /\ \A j \in DOMAIN indexJobs : indexJobs[j] \in IndexJobRecord
           /\ \A i \in DOMAIN riskJobs : riskJobs[i] \in RiskJobRecord
           /\ \A w \in DOMAIN portfolios : portfolios[w] \in PortfolioRecord
           /\ DOMAIN indexJobs = 1..Len(indexJobs) /\ Len(indexJobs) \in Nat
           /\ DOMAIN riskJobs = 1..Len(riskJobs) /\ Len(riskJobs) \in Nat
           /\ riskRows \in Seq(RiskRowRecord)
           /\ Tip \in Nat \ {0}
  BY RefreshAssumption DEF RefreshInv, RefreshTypeOK

\* With one indexer a job starts only while no other is active.
LEMMA StartsAlone ==
    ASSUME IndexConcurrency = 1, RefreshInv, NEW j \in DOMAIN indexJobs, StartIndex(j)
    PROVE  \A k \in DOMAIN indexJobs : indexJobs[k].state # "active"
<1> DEFINE active == {k \in DOMAIN indexJobs : indexJobs[k].state = "active"}
<1>1. IsFiniteSet(DOMAIN indexJobs)
  BY RecordsOfInv, FS_Interval
<1>2. IsFiniteSet(active)
  BY <1>1, FS_Subset
<1>3. Cardinality(active) < 1
  BY DEF StartIndex, Startable
<1>4. Cardinality(active) \in Nat
  BY <1>2, FS_CardinalityType
<1>5. active = {}
  <2> HIDE DEF active
  <2> QED
    BY <1>2, <1>3, <1>4, FS_EmptySet
<1> QED
  BY <1>5

\* Blocks, payloads and refresh requests write no portfolio and start no job.
LEMMA WorldStepsKeepLabels ==
    ASSUME RefreshInv, LabelInv,
           \/ \E w \in Wallets, p \in Positions : MineBlock(w, p) \/ Reorganise(w, p)
           \/ \E w \in Wallets : RequestRefresh(w)
           \/ Ingest \/ IngestAndRepeat
    PROVE  LabelInv'
<1>1. /\ UNCHANGED << portfolios, riskJobs, riskRows >>
      /\ \A k \in DOMAIN indexJobs' :
            \/ k \in DOMAIN indexJobs /\ indexJobs'[k] = indexJobs[k]
            \/ indexJobs'[k].state # "active"
  <2>1. CASE \E w \in Wallets, p \in Positions : MineBlock(w, p) \/ Reorganise(w, p)
    BY <2>1 DEF MineBlock, Reorganise, database
  <2>2. CASE \E w \in Wallets : RequestRefresh(w)
    <3>1. PICK w \in Wallets : RequestRefresh(w)
      BY <2>2
    <3>2. indexJobs \in Seq(IndexJobRecord) /\ IndexJob(w, 0, "waiting").state = "waiting"
      BY DEF RefreshInv, RefreshTypeOK, IndexJob
    <3> QED
      BY <3>1, <3>2 DEF RequestRefresh, database
  <2>3. CASE Ingest \/ IngestAndRepeat
    <3>1. Head(hook) \in PayloadRecord
      BY <2>3 DEF RefreshInv, RefreshTypeOK, Ingest, IngestAndRepeat
    <3>2. /\ NewIndexJobs(Head(hook)) \in Seq(IndexJobRecord)
          /\ \A i \in DOMAIN NewIndexJobs(Head(hook)) : NewIndexJobs(Head(hook))[i].state = "delayed"
      BY <3>1, NewJobsAreFresh DEF RefreshInv
    <3>3. /\ indexJobs \in Seq(IndexJobRecord)
          /\ indexJobs' = indexJobs \o NewIndexJobs(Head(hook))
          /\ UNCHANGED << portfolios, riskJobs, riskRows >>
      BY <2>3 DEF RefreshInv, RefreshTypeOK, Ingest, IngestAndRepeat, database
    <3> QED
      BY <3>2, <3>3
  <2> QED
    BY <2>1, <2>2, <2>3
<1> QED
  BY <1>1 DEF LabelInv, OneIndexer, PortfolioHeld, RiskJobsLabelled, LabelIsLowerBound

\* The indexer's steps.
LEMMA IndexStepsKeepLabels ==
    ASSUME IndexConcurrency = 1, RefreshInv, LabelInv, NEW j \in DOMAIN indexJobs,
           IndexStep(j) \/ IndexThrows(j) \/ CrashIndex(j)
    PROVE  LabelInv'
<1> USE DEF LabelInv
<1> DEFINE old == indexJobs[j]
           w == old.wallet
<1>0. /\ old \in IndexJobRecord /\ IndexJobOK(old, DOMAIN portfolios)
      /\ \A i \in DOMAIN riskJobs : riskJobs[i] \in RiskJobRecord
      /\ \A v \in DOMAIN portfolios : portfolios[v] \in PortfolioRecord
      /\ indexJobs \in Seq(IndexJobRecord)
      /\ riskJobs \in Seq(RiskJobRecord)
      /\ Tip \in Nat
  BY RecordsOfInv DEF RefreshInv, RefreshTypeOK
<1>1. CASE StartIndex(j)
  <2>1. /\ DOMAIN indexJobs' = DOMAIN indexJobs
        /\ indexJobs'[j].step = "height"
        /\ \A k \in DOMAIN indexJobs : k # j => indexJobs'[k] = indexJobs[k]
        /\ UNCHANGED << portfolios, riskJobs, riskRows >>
    BY <1>0, <1>1 DEF StartIndex, database, IndexJobRecord
  <2>2. \A k \in DOMAIN indexJobs : indexJobs[k].state # "active"
    BY <1>1, StartsAlone
  <2> QED
    BY <2>1, <2>2 DEF OneIndexer, PortfolioHeld, RiskJobsLabelled, LabelIsLowerBound
<1>2. CASE ReadPositions(j)
  \* what is persisted was read at the tip of today or before
  <2>1. /\ DOMAIN indexJobs' = DOMAIN indexJobs
        /\ old.state = "active"
        /\ indexJobs'[j] = [old EXCEPT !.step = "read", !.readAt = Tip, !.positions = chain[Tip][w]]
        /\ \A k \in DOMAIN indexJobs : k # j => indexJobs'[k] = indexJobs[k]
        /\ UNCHANGED << portfolios, riskJobs, riskRows >>
    BY <1>0, <1>2 DEF ReadPositions, IndexAt, database
  <2>2. /\ indexJobs'[j].step = "read" /\ indexJobs'[j].readAt = Tip
        /\ indexJobs'[j].state = "active" /\ indexJobs'[j].wallet = w
    BY <1>0, <2>1 DEF IndexJobRecord
  <2>3. \A v \in DOMAIN portfolios : portfolios[v].readAt <= Tip
    BY <1>0 DEF PortfolioRecord
  <2>4. OneIndexer'
    BY <2>1, <2>2 DEF OneIndexer
  <2>5. PortfolioHeld'
    BY <2>1, <2>2, <2>3 DEF PortfolioHeld
  <2> QED
    BY <2>1, <2>4, <2>5 DEF RiskJobsLabelled, LabelIsLowerBound
<1>3. CASE Persist(j)
  \* j is alone, and what it read is no older than what it replaces
  <2>1. /\ DOMAIN indexJobs' = DOMAIN indexJobs
        /\ old.state = "active" /\ old.step = "read"
        /\ indexJobs'[j] = [old EXCEPT !.step = "persisted", !.run = "completed"]
        /\ \A k \in DOMAIN indexJobs : k # j => indexJobs'[k] = indexJobs[k]
        /\ DOMAIN portfolios' = DOMAIN portfolios \cup {w}
        /\ portfolios'[w].readAt = old.readAt
        /\ \A v \in DOMAIN portfolios : v # w => portfolios'[v] = portfolios[v]
        /\ UNCHANGED << riskJobs, riskRows >>
    BY <1>0, <1>3 DEF Persist, Portfolio, IndexAt
  <2>2. /\ indexJobs'[j].step = "persisted" /\ indexJobs'[j].height = old.height
        /\ indexJobs'[j].state = "active" /\ indexJobs'[j].wallet = w
        /\ old.height <= old.readAt
    BY <1>0, <2>1 DEF IndexJobRecord, IndexJobOK
  <2>3. \A k \in DOMAIN indexJobs : k # j => indexJobs[k].state # "active"
    BY <2>1 DEF OneIndexer
  <2>4. OneIndexer' /\ PortfolioHeld'
    <3>1. \A k \in DOMAIN indexJobs' : indexJobs'[k].state = "active" => k = j
      BY <2>1, <2>3
    <3>2. portfolios'[w].readAt = old.readAt /\ old.height <= old.readAt
      BY <2>1, <2>2
    <3> QED
      BY <2>2, <3>1, <3>2 DEF OneIndexer, PortfolioHeld
  <2>5. w \in DOMAIN portfolios => portfolios[w].readAt <= portfolios'[w].readAt
    BY <2>1 DEF PortfolioHeld
  <2>6. RiskJobsLabelled'
    <3> SUFFICES ASSUME NEW i \in DOMAIN riskJobs
                 PROVE  riskJobs[i].sourceBlock <= portfolios'[riskJobs[i].wallet].readAt
      BY <2>1 DEF RiskJobsLabelled
    <3>1. riskJobs[i].wallet \in DOMAIN portfolios /\ riskJobs[i].sourceBlock \in Nat
      BY <1>0 DEF RiskJobRecord
    <3>2. riskJobs[i].sourceBlock <= portfolios[riskJobs[i].wallet].readAt
      BY DEF RiskJobsLabelled
    <3>3. old.readAt \in Nat /\ \A v \in DOMAIN portfolios : portfolios[v].readAt \in Nat
      BY <1>0 DEF IndexJobRecord, PortfolioRecord
    <3> QED
      BY <2>1, <2>5, <3>1, <3>2, <3>3
  <2> QED
    BY <2>1, <2>4, <2>6 DEF LabelIsLowerBound
<1>4. CASE RequestRisk(j)
  \* the label of the new risk job is the height of the run that wrote the portfolio
  <2>1. /\ DOMAIN indexJobs' = DOMAIN indexJobs
        /\ old.state = "active" /\ old.step = "persisted"
        /\ indexJobs'[j] = [old EXCEPT !.step = "requested"]
        /\ \A k \in DOMAIN indexJobs : k # j => indexJobs'[k] = indexJobs[k]
        /\ riskJobs' = riskJobs \/ riskJobs' = Append(riskJobs, RiskJob(j))
        /\ UNCHANGED << portfolios, riskRows >>
    BY <1>0, <1>4 DEF RequestRisk, IndexAt, database
  <2>2. /\ indexJobs'[j].step = "requested" /\ indexJobs'[j].height = old.height
        /\ indexJobs'[j].state = "active" /\ indexJobs'[j].wallet = w
        /\ w \in DOMAIN portfolios
    BY <1>0, <2>1 DEF IndexJobRecord, IndexJobOK
  <2>3. old.height <= portfolios[w].readAt
    BY <2>1, <2>2 DEF PortfolioHeld
  <2>4. OneIndexer' /\ PortfolioHeld'
    <3>1. \A k \in DOMAIN indexJobs' : indexJobs'[k].state = "active" => k = j
      BY <2>1 DEF OneIndexer
    <3> QED
      BY <2>1, <2>2, <2>3, <3>1 DEF OneIndexer, PortfolioHeld
  <2>5. RiskJobsLabelled'
    <3>1. RiskJob(j).step = "queued" /\ RiskJob(j).wallet = w /\ RiskJob(j).sourceBlock = old.height
      BY DEF RiskJob
    <3>2. CASE riskJobs' = riskJobs
      BY <2>1, <3>2 DEF RiskJobsLabelled
    <3>3. CASE riskJobs' = Append(riskJobs, RiskJob(j))
      <4>1. \A i \in DOMAIN riskJobs' : \/ i \in DOMAIN riskJobs /\ riskJobs'[i] = riskJobs[i]
                                      \/ riskJobs'[i] = RiskJob(j)
        BY <1>0, <3>3
      <4> QED
        BY <2>1, <2>3, <3>1, <4>1 DEF RiskJobsLabelled
    <3> QED
      BY <2>1, <3>2, <3>3
  <2> QED
    BY <2>1, <2>4, <2>5 DEF LabelIsLowerBound
<1>5. CASE CompleteIndex(j) \/ IndexThrows(j) \/ CrashIndex(j)
  <2>1. /\ DOMAIN indexJobs' = DOMAIN indexJobs
        /\ indexJobs'[j].state # "active"
        /\ \A k \in DOMAIN indexJobs : k # j => indexJobs'[k] = indexJobs[k]
        /\ UNCHANGED << portfolios, riskJobs, riskRows >>
    <3>1. CASE CompleteIndex(j) \/ CrashIndex(j)
      BY <1>0, <3>1 DEF CompleteIndex, CrashIndex, database, IndexJobRecord
    <3>2. CASE IndexThrows(j)
      <4>1. /\ indexJobs' = [indexJobs EXCEPT ![j] = Failed(old)]
            /\ UNCHANGED << portfolios, riskJobs, riskRows >>
        BY <1>0, <3>2 DEF IndexThrows
      <4>2. Failed(old).state # "active"
        BY <1>0 DEF Failed, Thrown, IndexJobRecord
      <4> QED
        BY <1>0, <4>1, <4>2
    <3> QED
      BY <1>5, <3>1, <3>2
  <2> QED
    BY <2>1 DEF OneIndexer, PortfolioHeld, RiskJobsLabelled, LabelIsLowerBound
<1> QED
  BY <1>1, <1>2, <1>3, <1>4, <1>5 DEF IndexStep

\* The risk worker's steps.
LEMMA RiskStepsKeepLabels ==
    ASSUME RefreshInv, LabelInv, NEW i \in DOMAIN riskJobs,
           RiskStep(i) \/ RiskThrows(i) \/ CrashRisk(i)
    PROVE  LabelInv'
<1> USE DEF LabelInv
<1> DEFINE old == riskJobs[i]
<1>0. old \in RiskJobRecord /\ riskJobs \in Seq(RiskJobRecord) /\ riskRows \in Seq(RiskRowRecord)
  BY RecordsOfInv DEF RefreshInv, RefreshTypeOK
<1>1. CASE StartRisk(i)
  <2>1. /\ DOMAIN riskJobs' = DOMAIN riskJobs
        /\ riskJobs'[i].readAt = portfolios[old.wallet].readAt
        /\ riskJobs'[i].wallet = old.wallet /\ riskJobs'[i].sourceBlock = old.sourceBlock
        /\ \A k \in DOMAIN riskJobs : k # i => riskJobs'[k] = riskJobs[k]
        /\ UNCHANGED << portfolios, indexJobs, riskRows >>
    BY <1>0, <1>1 DEF StartRisk, database, RiskJobRecord
  <2> QED
    BY <2>1 DEF OneIndexer, PortfolioHeld, RiskJobsLabelled, LabelIsLowerBound
<1>2. CASE PersistRisk(i)
  <2>1. /\ DOMAIN riskJobs' = DOMAIN riskJobs
        /\ old.step = "read"
        /\ riskJobs'[i].readAt = old.readAt
        /\ riskJobs'[i].wallet = old.wallet /\ riskJobs'[i].sourceBlock = old.sourceBlock
        /\ \A k \in DOMAIN riskJobs : k # i => riskJobs'[k] = riskJobs[k]
        /\ riskRows' = Append(riskRows, RiskRow(i))
        /\ UNCHANGED << portfolios, indexJobs >>
    <3> DEFINE job == [old EXCEPT !.step = "stored"]
    <3>1. /\ riskJobs' = [riskJobs EXCEPT ![i] = job]
          /\ old.step = "read" /\ riskRows' = Append(riskRows, RiskRow(i))
          /\ UNCHANGED << portfolios, indexJobs >>
      BY <1>2 DEF PersistRisk, RiskAt
    <3>2. job.readAt = old.readAt /\ job.wallet = old.wallet /\ job.sourceBlock = old.sourceBlock
      BY <1>0 DEF RiskJobRecord
    <3> HIDE DEF job
    <3> QED
      BY <1>0, <3>1, <3>2
  <2>2. old.sourceBlock <= old.readAt
    BY <2>1 DEF RiskJobsLabelled
  <2>3. RiskRow(i).readAt = old.readAt /\ RiskRow(i).sourceBlock = old.sourceBlock
    BY DEF RiskRow
  <2>4. LabelIsLowerBound'
    <3>1. old.readAt \in Nat /\ old.sourceBlock \in Nat
      BY <1>0 DEF RiskJobRecord
    <3> QED
      BY <1>0, <2>1, <2>2, <2>3, <3>1 DEF LabelIsLowerBound
  <2> QED
    BY <2>1, <2>2, <2>4 DEF OneIndexer, PortfolioHeld, RiskJobsLabelled
<1>3. CASE CompleteRisk(i) \/ RiskThrows(i) \/ CrashRisk(i)
  <2>1. /\ DOMAIN riskJobs' = DOMAIN riskJobs
        /\ riskJobs'[i].readAt = old.readAt /\ riskJobs'[i].step = old.step
        /\ riskJobs'[i].wallet = old.wallet /\ riskJobs'[i].sourceBlock = old.sourceBlock
        /\ \A k \in DOMAIN riskJobs : k # i => riskJobs'[k] = riskJobs[k]
        /\ UNCHANGED << portfolios, indexJobs, riskRows >>
    <3> DEFINE job(state, attempts) == [old EXCEPT !.state = state, !.attempts = attempts]
    <3>1. \E state, attempts : riskJobs' = [riskJobs EXCEPT ![i] = job(state, attempts)]
      <4>1. \A state : [old EXCEPT !.state = state] = job(state, old.attempts)
        BY <1>0 DEF RiskJobRecord
      <4> HIDE DEF job
      <4>2. CASE CompleteRisk(i)
        BY <4>1, <4>2 DEF CompleteRisk
      <4>3. CASE CrashRisk(i)
        BY <4>1, <4>3 DEF CrashRisk
      <4>4. CASE RiskThrows(i)
        <5> DEFINE state == IF old.attempts + 1 < MaxAttempts THEN "delayed" ELSE "failed"
        <5>1. riskJobs' = [riskJobs EXCEPT ![i] = Thrown(old)]
          BY <4>4 DEF RiskThrows
        <5>2. Thrown(old) = job(state, old.attempts + 1)
          BY <1>0 DEF Thrown, RiskJobRecord, job
        <5> HIDE DEF state
        <5> QED
          BY <5>1, <5>2
      <4> QED
        BY <1>3, <4>2, <4>3, <4>4
    <3>2. \A state, attempts :
             /\ job(state, attempts).readAt = old.readAt /\ job(state, attempts).step = old.step
             /\ job(state, attempts).wallet = old.wallet
             /\ job(state, attempts).sourceBlock = old.sourceBlock
      BY <1>0 DEF RiskJobRecord
    <3>3. UNCHANGED << portfolios, indexJobs, riskRows >>
      BY <1>3 DEF CompleteRisk, CrashRisk, RiskThrows, database
    <3> HIDE DEF job
    <3> QED
      BY <1>0, <3>1, <3>2, <3>3
  <2> QED
    BY <2>1 DEF OneIndexer, PortfolioHeld, RiskJobsLabelled, LabelIsLowerBound
<1> QED
  BY <1>1, <1>2, <1>3 DEF RiskStep

\* documentation/35:98, with INDEXER_CONCURRENCY 1 and any number of risk workers: no
\* figure of a stored snapshot was read from the chain before the block that labels it,
\* whatever is retried, killed, repeated or reorganised.
THEOREM RefreshLabelIsLowerBound ==
    ASSUME IndexConcurrency = 1
    PROVE  Spec => []LabelIsLowerBound
<1>1. Spec => []RefreshInv
  BY InitEstablishesRefreshInv, StepKeepsRefreshInv, PTL DEF Spec
<1>2. Init => LabelInv
  BY DEF Init, LabelInv, OneIndexer, PortfolioHeld, RiskJobsLabelled, LabelIsLowerBound
<1>3. RefreshInv /\ LabelInv /\ [Next]_vars => LabelInv'
  <2> SUFFICES ASSUME RefreshInv, LabelInv, [Next]_vars PROVE LabelInv'
    OBVIOUS
  <2>1. CASE UNCHANGED vars
    BY <2>1 DEF vars, database, LabelInv, OneIndexer, PortfolioHeld, RiskJobsLabelled, LabelIsLowerBound
  <2>2. CASE \/ \E w \in Wallets, p \in Positions : MineBlock(w, p) \/ Reorganise(w, p)
             \/ \E w \in Wallets : RequestRefresh(w)
             \/ Ingest \/ IngestAndRepeat
    BY <2>2, WorldStepsKeepLabels
  <2>3. CASE \E j \in DOMAIN indexJobs : IndexStep(j) \/ IndexThrows(j) \/ CrashIndex(j)
    BY <2>3, IndexStepsKeepLabels
  <2>4. CASE \E i \in DOMAIN riskJobs : RiskStep(i) \/ RiskThrows(i) \/ CrashRisk(i)
    BY <2>4, RiskStepsKeepLabels
  <2> QED
    BY <2>1, <2>2, <2>3, <2>4 DEF Next
<1>4. LabelInv => LabelIsLowerBound
  BY DEF LabelInv
<1> QED
  BY <1>1, <1>2, <1>3, <1>4, PTL DEF Spec
=============================================================================
