---------------------------- MODULE WebhookProofs ----------------------------
(***************************************************************************)
(* Theorems about webhook delivery, for every set of endpoints, every      *)
(* backoff schedule and every number of events, attempts and faults.       *)
(* WebhookInv is the invariant under all of them; FinalInv,                *)
(* RequestsCounted and ScheduleInv add what one property each needs of the *)
(* history of a delivery: who may still ask, who paid for a request, who   *)
(* carries on.                                                             *)
(***************************************************************************)
EXTENDS WebhookDelivery, FiniteSetTheorems, TLAPS

Delivers(j, n, e) == jobs[j].event = n /\ jobs[j].endpoint = e

NoJob(n, e) == \A j \in DOMAIN jobs : ~Delivers(j, n, e)

\* The worker has one job in hand at a time, and no two jobs have the same id.
OneActive ==
    \A j, k \in DOMAIN jobs : jobs[j].state = "active" /\ jobs[k].state = "active" => j = k

IdsUnique ==
    \A j, k \in DOMAIN jobs :
        /\ jobs[j].event = jobs[k].event /\ jobs[j].endpoint = jobs[k].endpoint
        /\ jobs[j].attempt = jobs[k].attempt
        => j = k

\* Nothing is known of a delivery before it is queued.
NotYetQueued ==
    /\ \A n \in DOMAIN fanOuts : \A e \in fanOuts[n].todo : NoJob(n, e) /\ posts[n][e] = << >>
    /\ \A n \in 1..MaxEvents : n > Len(fanOuts) => \A e \in Endpoints : posts[n][e] = << >>

AttemptsLeft ==
    \A j \in DOMAIN jobs : jobs[j].state \notin {"done", "failed"} => jobs[j].attempts < MaxAttempts

WebhookInv ==
    /\ WebhookTypeOK
    /\ OneActive /\ IdsUnique /\ NotYetQueued /\ AttemptsLeft

-----------------------------------------------------------------------------
(* What the actions do to the jobs.                                        *)

Steps == {"read", "recorded", "answered", "updated", "rescheduled"}

\* Job j goes on with this state, step, answer and number of attempts; no other job
\* changes.
JobGoes(j, state, step, answer, attempts) ==
    /\ jobs' \in Seq(JobRecord) /\ DOMAIN jobs \subseteq DOMAIN jobs'
    /\ jobs'[j].event = jobs[j].event /\ jobs'[j].endpoint = jobs[j].endpoint
    /\ jobs'[j].attempt = jobs[j].attempt
    /\ jobs'[j].state = state /\ jobs'[j].step = step
    /\ jobs'[j].answer = answer /\ jobs'[j].attempts = attempts
    /\ \A k \in DOMAIN jobs : k # j => jobs'[k] = jobs[k]

SameJobs == DOMAIN jobs' = DOMAIN jobs

\* What the type invariant says of one job.
LEMMA JobsTyped ==
    ASSUME WebhookTypeOK, NEW j \in DOMAIN jobs
    PROVE  /\ jobs[j] \in JobRecord
           /\ jobs[j].event \in 1..Len(fanOuts) /\ jobs[j].event \in 1..MaxEvents
           /\ jobs[j].event \in DOMAIN fanOuts
           /\ jobs[j].endpoint \in Endpoints
           /\ jobs[j].attempt \in 1..(RetrySteps + 1) /\ jobs[j].attempt \in Nat
           /\ jobs[j].state \in JobStates /\ jobs[j].step \in Steps /\ jobs[j].answer \in Answers
           /\ jobs[j].attempts \in 0..MaxAttempts /\ jobs[j].attempts \in Nat
<1>1. /\ jobs[j] \in JobRecord /\ fanOuts \in Seq([planned : SUBSET Endpoints, todo : SUBSET Endpoints])
      /\ Len(fanOuts) <= MaxEvents /\ MaxEvents \in Nat /\ RetrySteps \in Nat /\ MaxAttempts \in Nat
  BY WebhookAssumption, JobQueueAssumption DEF WebhookTypeOK
<1>2. /\ jobs[j].event \in 1..Len(fanOuts) /\ jobs[j].endpoint \in Endpoints
      /\ jobs[j].attempt \in 1..(RetrySteps + 1) /\ jobs[j].attempts \in 0..MaxAttempts
      /\ jobs[j].state \in JobStates /\ jobs[j].step \in Steps /\ jobs[j].answer \in Answers
  BY <1>1 DEF JobRecord, Steps
<1> QED
  BY <1>1, <1>2

\* What the type invariant says of the planning of one event.
LEMMA FanOutsTyped ==
    ASSUME WebhookTypeOK, NEW n \in DOMAIN fanOuts
    PROVE  /\ n \in 1..MaxEvents /\ n \in 1..Len(fanOuts)
           /\ fanOuts[n] \in [planned : SUBSET Endpoints, todo : SUBSET Endpoints]
           /\ fanOuts[n].todo \subseteq Endpoints /\ fanOuts[n].planned \subseteq Endpoints
<1>1. /\ fanOuts \in Seq([planned : SUBSET Endpoints, todo : SUBSET Endpoints])
      /\ Len(fanOuts) <= MaxEvents /\ MaxEvents \in Nat
  BY WebhookAssumption DEF WebhookTypeOK
<1>2. n \in 1..Len(fanOuts) /\ Len(fanOuts) \in Nat
  BY <1>1
<1>3. fanOuts[n] \in [planned : SUBSET Endpoints, todo : SUBSET Endpoints]
  <2> DEFINE FanOut == [planned : SUBSET Endpoints, todo : SUBSET Endpoints]
  <2>1. fanOuts \in Seq(FanOut) /\ n \in DOMAIN fanOuts
    BY <1>1
  <2> HIDE DEF FanOut
  <2>2. fanOuts[n] \in FanOut
    BY <2>1
  <2> QED
    BY <2>2 DEF FanOut
<1>4. fanOuts[n].todo \subseteq Endpoints /\ fanOuts[n].planned \subseteq Endpoints
  BY <1>3
<1>5. n \in 1..MaxEvents
  BY <1>1, <1>2
<1> QED
  BY <1>2, <1>3, <1>4, <1>5

\* Replacing one job of the queue.
LEMMA ReplacedJob ==
    ASSUME WebhookTypeOK, NEW j \in DOMAIN jobs, NEW job \in JobRecord,
           jobs' = [jobs EXCEPT ![j] = job]
    PROVE  /\ jobs' \in Seq(JobRecord) /\ DOMAIN jobs' = DOMAIN jobs
           /\ jobs'[j] = job
           /\ \A k \in DOMAIN jobs : k # j => jobs'[k] = jobs[k]
<1>1. jobs \in Seq(JobRecord)
  BY DEF WebhookTypeOK
<1> QED
  BY <1>1

\* Replacing four fields of a job.
LEMMA UpdatedJobGoes ==
    ASSUME WebhookTypeOK, NEW j \in DOMAIN jobs,
           NEW state \in JobStates, NEW step \in Steps, NEW answer \in Answers,
           NEW attempts \in 0..MaxAttempts,
           jobs' = [jobs EXCEPT ![j] = [jobs[j] EXCEPT !.state = state, !.step = step,
                                                       !.answer = answer, !.attempts = attempts]]
    PROVE  JobGoes(j, state, step, answer, attempts) /\ SameJobs
<1> DEFINE job == [jobs[j] EXCEPT !.state = state, !.step = step,
                                  !.answer = answer, !.attempts = attempts]
<1>1. jobs[j] \in JobRecord
  BY JobsTyped
<1>2. /\ job \in JobRecord
      /\ job.event = jobs[j].event /\ job.endpoint = jobs[j].endpoint
      /\ job.attempt = jobs[j].attempt
      /\ job.state = state /\ job.step = step /\ job.answer = answer /\ job.attempts = attempts
  BY <1>1 DEF JobRecord, Steps
<1>3. /\ jobs' \in Seq(JobRecord) /\ DOMAIN jobs' = DOMAIN jobs
      /\ jobs'[j] = job
      /\ \A k \in DOMAIN jobs : k # j => jobs'[k] = jobs[k]
  BY <1>2, ReplacedJob
<1> QED
  BY <1>2, <1>3 DEF JobGoes, SameJobs

\* A handler's step that throws nothing counts no attempt.
LEMMA StepGoes ==
    ASSUME WebhookTypeOK, NEW j \in DOMAIN jobs,
           NEW state \in JobStates, NEW step \in Steps, NEW answer \in Answers,
           \/ jobs' = [jobs EXCEPT ![j].state = state] /\ step = jobs[j].step /\ answer = jobs[j].answer
           \/ jobs' = [jobs EXCEPT ![j].step = step] /\ state = jobs[j].state /\ answer = jobs[j].answer
           \/ jobs' = [jobs EXCEPT ![j].answer = answer] /\ state = jobs[j].state /\ step = jobs[j].step
           \/ jobs' = [jobs EXCEPT ![j].step = step, ![j].answer = answer] /\ state = jobs[j].state
           \/ jobs' = [jobs EXCEPT ![j].state = state, ![j].step = step, ![j].answer = answer]
    PROVE  JobGoes(j, state, step, answer, jobs[j].attempts) /\ SameJobs
<1> DEFINE job == [jobs[j] EXCEPT !.state = state, !.step = step,
                                  !.answer = answer, !.attempts = jobs[j].attempts]
<1>1. jobs[j] \in JobRecord /\ jobs[j].attempts \in 0..MaxAttempts
  BY JobsTyped
<1>2. jobs' = [jobs EXCEPT ![j] = job]
  BY <1>1 DEF JobRecord
<1> QED
  BY <1>1, <1>2, UpdatedJobGoes

\* An attempt that throws is counted, and is the last when none is left.
LEMMA ThrownGoes ==
    ASSUME WebhookTypeOK, NEW j \in DOMAIN jobs, jobs[j].attempts < MaxAttempts,
           jobs' = [jobs EXCEPT ![j] = Thrown(@)]
    PROVE  \E state \in {"delayed", "failed"} :
              /\ JobGoes(j, state, jobs[j].step, jobs[j].answer, jobs[j].attempts + 1) /\ SameJobs
              /\ (state = "delayed" <=> jobs[j].attempts + 1 < MaxAttempts)
<1> DEFINE state == IF jobs[j].attempts + 1 < MaxAttempts THEN "delayed" ELSE "failed"
           job == Thrown(jobs[j])
<1>1. /\ jobs[j] \in JobRecord /\ jobs[j].attempts + 1 \in 0..MaxAttempts /\ state \in JobStates
  BY JobsTyped, JobQueueAssumption DEF JobStates
<1>2. job = [jobs[j] EXCEPT !.attempts = jobs[j].attempts + 1, !.state = state]
  BY <1>1 DEF JobRecord, Thrown
<1> HIDE DEF state
<1>3. /\ job \in JobRecord
      /\ job.event = jobs[j].event /\ job.endpoint = jobs[j].endpoint
      /\ job.attempt = jobs[j].attempt /\ job.state = state /\ job.step = jobs[j].step
      /\ job.answer = jobs[j].answer /\ job.attempts = jobs[j].attempts + 1
  BY <1>1, <1>2 DEF JobRecord
<1>4. /\ jobs' \in Seq(JobRecord) /\ DOMAIN jobs' = DOMAIN jobs
      /\ jobs'[j] = job
      /\ \A k \in DOMAIN jobs : k # j => jobs'[k] = jobs[k]
  BY <1>3, ReplacedJob
<1>5. JobGoes(j, state, jobs[j].step, jobs[j].answer, jobs[j].attempts + 1) /\ SameJobs
  BY <1>3, <1>4 DEF JobGoes, SameJobs
<1> QED
  BY <1>5 DEF state
\* The worker of concurrency 1 takes a job only when it has none in hand.
LEMMA StartsAlone ==
    ASSUME WebhookTypeOK, NEW j \in DOMAIN jobs, Startable(jobs, j, 1)
    PROVE  /\ \A k \in DOMAIN jobs : jobs[k].state # "active"
           /\ jobs[j].state \in {"waiting", "delayed"}
<1> DEFINE active == {k \in DOMAIN jobs : jobs[k].state = "active"}
<1>1. jobs \in Seq(JobRecord)
  BY DEF WebhookTypeOK
<1>2. IsFiniteSet(DOMAIN jobs)
  BY <1>1, FS_Interval
<1>3. IsFiniteSet(active)
  BY <1>2, FS_Subset
<1>4. Cardinality(active) < 1 /\ jobs[j].state \in {"waiting", "delayed"}
  BY DEF Startable
<1>5. Cardinality(active) \in Nat
  BY <1>3, FS_CardinalityType
<1>6. active = {}
  <2> HIDE DEF active
  <2> QED
    BY <1>3, <1>4, <1>5, FS_EmptySet
<1> QED
  BY <1>4, <1>6

FaultsOnlyGrow ==
    /\ faults.count \in Nat /\ faults'.count \in Nat /\ faults.count <= faults'.count
    /\ faults'.kinds \in SUBSET FaultKinds /\ faults.kinds \subseteq faults'.kinds
    /\ faults' \in [count : 0..MaxFaults, kinds : SUBSET FaultKinds]

\* A step without a fault, and every fault, only lets the faults grow.
LEMMA FaultGrows ==
    ASSUME WebhookTypeOK, UNCHANGED faults \/ \E kind \in AllFaults : Fault(kind)
    PROVE  FaultsOnlyGrow
<1>1. faults \in [count : 0..MaxFaults, kinds : SUBSET FaultKinds] /\ MaxFaults \in Nat
  BY WebhookAssumption DEF WebhookTypeOK
<1>2. CASE UNCHANGED faults
  BY <1>1, <1>2 DEF FaultsOnlyGrow
<1>3. ASSUME NEW kind \in AllFaults, Fault(kind) PROVE FaultsOnlyGrow
  BY <1>1, <1>3 DEF FaultsOnlyGrow, Fault
<1> QED
  BY <1>2, <1>3

\* A step of the handler on job j that queues nothing.
HandlerStep(j, state, step, answer, attempts) ==
    /\ JobGoes(j, state, step, answer, attempts) /\ SameJobs
    /\ (state = "active" =>
            jobs[j].state = "active" \/ \A k \in DOMAIN jobs : jobs[k].state # "active")
    /\ (state \notin {"done", "failed"} => attempts < MaxAttempts)
    /\ FaultsOnlyGrow
    /\ UNCHANGED << endpoints, fanOuts >>

\* The handler's actions as such steps.
LEMMA HandlerActions ==
    ASSUME WebhookInv, NEW j \in DOMAIN jobs
    PROVE  /\ StartDelivery(j) =>
                 /\ HandlerStep(j, "active", "read", "none", jobs[j].attempts)
                 /\ jobs[j].state \in {"waiting", "delayed"} /\ Status(j) = "enabled"
                 /\ UNCHANGED << posts, faults >>
           /\ SkipDelivery(j) =>
                 /\ HandlerStep(j, "done", jobs[j].step, jobs[j].answer, jobs[j].attempts)
                 /\ jobs[j].state \in {"waiting", "delayed"} /\ Status(j) # "enabled"
                 /\ UNCHANGED << posts, faults >>
           /\ RecordAttempt(j) =>
                 /\ HandlerStep(j, "active", "recorded", jobs[j].answer, jobs[j].attempts)
                 /\ At(j, "read") /\ Status(j) # "deleted"
                 /\ UNCHANGED << posts, faults >>
           /\ \A answer \in Answers : Post(j, answer) =>
                 /\ HandlerStep(j, "active", "answered", answer, jobs[j].attempts)
                 /\ At(j, "recorded") /\ UNCHANGED faults
           /\ RecordAnswer(j) =>
                 /\ HandlerStep(j, "active", "updated", jobs[j].answer, jobs[j].attempts)
                 /\ At(j, "answered")
                 /\ UNCHANGED << posts, faults >>
           /\ CompleteDelivery(j) =>
                 /\ HandlerStep(j, "done", jobs[j].step, jobs[j].answer, jobs[j].attempts)
                 /\ jobs[j].state = "active"
                 /\ UNCHANGED << posts, faults >>
           /\ AnswerTakenForFailure(j) =>
                 /\ HandlerStep(j, "active", "answered", "none", jobs[j].attempts)
                 /\ At(j, "answered") /\ RowFails(j)
                 /\ UNCHANGED posts
           /\ DeliveryThrows(j) => \E state \in {"delayed", "failed"} :
                 /\ HandlerStep(j, state, jobs[j].step, jobs[j].answer, jobs[j].attempts + 1)
                 /\ jobs[j].state = "active"
                 /\ (state = "delayed" <=> jobs[j].attempts + 1 < MaxAttempts)
                 /\ UNCHANGED posts
           /\ CrashDelivery(j) =>
                 /\ HandlerStep(j, "waiting", jobs[j].step, jobs[j].answer, jobs[j].attempts)
                 /\ jobs[j].state = "active"
                 /\ UNCHANGED posts
<1> DEFINE old == jobs[j]
<1>0. /\ WebhookTypeOK /\ MaxAttempts \in Nat
      /\ old.step \in Steps /\ old.answer \in Answers /\ old.state \in JobStates /\ old.attempts \in Nat
      /\ old.state \notin {"done", "failed"} => old.attempts < MaxAttempts
      /\ {"active", "done", "waiting"} \subseteq JobStates
      /\ {"read", "recorded", "answered", "updated"} \subseteq Steps /\ "none" \in Answers
  BY JobsTyped, JobQueueAssumption DEF WebhookInv, AttemptsLeft, JobStates, Steps, Answers
<1> HIDE DEF old
<1>1. UNCHANGED faults => FaultsOnlyGrow
  BY <1>0, FaultGrows
<1>2. ASSUME StartDelivery(j)
      PROVE  HandlerStep(j, "active", "read", "none", old.attempts) /\ old.state \in {"waiting", "delayed"}
  <2>1. jobs' = [jobs EXCEPT ![j].state = "active", ![j].step = "read", ![j].answer = "none"]
        /\ UNCHANGED << endpoints, fanOuts, faults >> /\ Startable(jobs, j, 1)
    BY <1>2 DEF StartDelivery
  <2>2. JobGoes(j, "active", "read", "none", old.attempts) /\ SameJobs
    BY <1>0, <2>1, StepGoes DEF old
  <2>3. (\A k \in DOMAIN jobs : jobs[k].state # "active") /\ old.state \in {"waiting", "delayed"}
    BY <1>0, <2>1, StartsAlone DEF old
  <2> QED
    BY <1>0, <1>1, <2>1, <2>2, <2>3 DEF HandlerStep
<1>3. ASSUME SkipDelivery(j)
      PROVE  HandlerStep(j, "done", old.step, old.answer, old.attempts) /\ old.state \in {"waiting", "delayed"}
  <2>1. jobs' = [jobs EXCEPT ![j].state = "done"]
        /\ UNCHANGED << endpoints, fanOuts, faults >> /\ Startable(jobs, j, 1)
    BY <1>3 DEF SkipDelivery
  <2>2. JobGoes(j, "done", old.step, old.answer, old.attempts) /\ SameJobs
    BY <1>0, <2>1, StepGoes DEF old
  <2>3. old.state \in {"waiting", "delayed"}
    BY <1>0, <2>1, StartsAlone DEF old
  <2> QED
    BY <1>0, <1>1, <2>1, <2>2, <2>3 DEF HandlerStep
<1>4. ASSUME RecordAttempt(j)
      PROVE  HandlerStep(j, "active", "recorded", old.answer, old.attempts)
  <2>1. jobs' = [jobs EXCEPT ![j].step = "recorded"] /\ old.state = "active"
        /\ UNCHANGED << endpoints, fanOuts, faults >>
    BY <1>4 DEF RecordAttempt, At, old
  <2>2. JobGoes(j, "active", "recorded", old.answer, old.attempts) /\ SameJobs
    BY <1>0, <2>1, StepGoes DEF old
  <2> QED
    BY <1>0, <1>1, <2>1, <2>2 DEF HandlerStep, old
<1>5. ASSUME NEW answer \in Answers, Post(j, answer)
      PROVE  HandlerStep(j, "active", "answered", answer, old.attempts)
  <2>1. jobs' = [jobs EXCEPT ![j].step = "answered", ![j].answer = answer] /\ old.state = "active"
        /\ UNCHANGED << endpoints, fanOuts, faults >>
    BY <1>5 DEF Post, At, old
  <2>2. JobGoes(j, "active", "answered", answer, old.attempts) /\ SameJobs
    BY <1>0, <2>1, StepGoes DEF old
  <2> QED
    BY <1>0, <1>1, <2>1, <2>2 DEF HandlerStep, old
<1>6. ASSUME RecordAnswer(j)
      PROVE  HandlerStep(j, "active", "updated", old.answer, old.attempts)
  <2>1. jobs' = [jobs EXCEPT ![j].step = "updated"] /\ old.state = "active"
        /\ UNCHANGED << endpoints, fanOuts, faults >>
    BY <1>6 DEF RecordAnswer, At, old
  <2>2. JobGoes(j, "active", "updated", old.answer, old.attempts) /\ SameJobs
    BY <1>0, <2>1, StepGoes DEF old
  <2> QED
    BY <1>0, <1>1, <2>1, <2>2 DEF HandlerStep, old
<1>7. ASSUME CompleteDelivery(j)
      PROVE  HandlerStep(j, "done", old.step, old.answer, old.attempts) /\ old.state = "active"
  <2>1. jobs' = [jobs EXCEPT ![j].state = "done"] /\ old.state = "active"
        /\ UNCHANGED << endpoints, fanOuts, faults >>
    BY <1>7 DEF CompleteDelivery, At, old
  <2>2. JobGoes(j, "done", old.step, old.answer, old.attempts) /\ SameJobs
    BY <1>0, <2>1, StepGoes DEF old
  <2> QED
    BY <1>0, <1>1, <2>1, <2>2 DEF HandlerStep, old
<1>8. ASSUME AnswerTakenForFailure(j)
      PROVE  HandlerStep(j, "active", "answered", "none", old.attempts)
  <2>1. /\ jobs' = [jobs EXCEPT ![j].answer = "none"] /\ old.state = "active" /\ old.step = "answered"
        /\ UNCHANGED << endpoints, fanOuts >>
        /\ (UNCHANGED faults \/ Fault("dbError"))
    BY <1>8 DEF AnswerTakenForFailure, At, RowFails, old
  <2>2. JobGoes(j, "active", "answered", "none", old.attempts) /\ SameJobs
    BY <1>0, <2>1, StepGoes DEF old
  <2>3. FaultsOnlyGrow
    BY <1>0, <2>1, FaultGrows DEF AllFaults
  <2> QED
    BY <1>0, <2>1, <2>2, <2>3 DEF HandlerStep, old
<1>9. ASSUME DeliveryThrows(j)
      PROVE  \E state \in {"delayed", "failed"} :
                 /\ HandlerStep(j, state, old.step, old.answer, old.attempts + 1)
                 /\ old.state = "active"
                 /\ (state = "delayed" <=> old.attempts + 1 < MaxAttempts)
  <2>1. /\ jobs' = [jobs EXCEPT ![j] = Thrown(@)] /\ old.state = "active"
        /\ UNCHANGED << endpoints, fanOuts >>
        /\ (UNCHANGED faults \/ Fault("dbError") \/ Fault("queueError"))
    BY <1>9 DEF DeliveryThrows, At, RowFails, old
  <2>2. PICK state \in {"delayed", "failed"} :
              /\ JobGoes(j, state, old.step, old.answer, old.attempts + 1) /\ SameJobs
              /\ (state = "delayed" <=> old.attempts + 1 < MaxAttempts)
    BY <1>0, <2>1, ThrownGoes DEF old
  <2>3. FaultsOnlyGrow
    BY <1>0, <2>1, FaultGrows DEF AllFaults
  <2>4. HandlerStep(j, state, old.step, old.answer, old.attempts + 1)
    BY <1>0, <2>1, <2>2, <2>3 DEF HandlerStep
  <2> QED
    BY <2>1, <2>2, <2>4
<1>10. ASSUME CrashDelivery(j)
       PROVE  HandlerStep(j, "waiting", old.step, old.answer, old.attempts) /\ old.state = "active"
  <2>1. jobs' = [jobs EXCEPT ![j].state = "waiting"] /\ old.state = "active"
        /\ UNCHANGED << endpoints, fanOuts >> /\ Fault("crash")
    BY <1>10 DEF CrashDelivery, old
  <2>2. JobGoes(j, "waiting", old.step, old.answer, old.attempts) /\ SameJobs
    BY <1>0, <2>1, StepGoes DEF old
  <2>3. FaultsOnlyGrow
    BY <1>0, <2>1, FaultGrows DEF AllFaults
  <2> QED
    BY <1>0, <2>1, <2>2, <2>3 DEF HandlerStep
<1> QED
  <2>1. /\ StartDelivery(j) => Status(j) = "enabled" /\ UNCHANGED << posts, faults >>
        /\ SkipDelivery(j) => Status(j) # "enabled" /\ UNCHANGED << posts, faults >>
        /\ RecordAttempt(j) => At(j, "read") /\ Status(j) # "deleted" /\ UNCHANGED << posts, faults >>
        /\ \A answer \in Answers : Post(j, answer) => At(j, "recorded") /\ UNCHANGED faults
        /\ RecordAnswer(j) => At(j, "answered") /\ UNCHANGED << posts, faults >>
        /\ CompleteDelivery(j) => UNCHANGED << posts, faults >>
        /\ AnswerTakenForFailure(j) => At(j, "answered") /\ RowFails(j) /\ UNCHANGED posts
        /\ DeliveryThrows(j) => UNCHANGED posts
        /\ CrashDelivery(j) => UNCHANGED posts
    BY DEF StartDelivery, SkipDelivery, RecordAttempt, Post, RecordAnswer, CompleteDelivery,
           AnswerTakenForFailure, DeliveryThrows, CrashDelivery
  <2> QED
    BY <1>2, <1>3, <1>4, <1>5, <1>6, <1>7, <1>8, <1>9, <1>10, <2>1 DEF old

\* Queueing the next attempt: the job of that id is there already, or is added.
NewJob(n, e, a, state) ==
    DOMAIN jobs' = DOMAIN jobs \cup {Len(jobs) + 1} /\ jobs'[Len(jobs) + 1] = Job(n, e, a, state)

\* Queueing the next attempt adds one delayed job, unless that job is there already.
LEMMA RetryQueued ==
    ASSUME WebhookInv, NEW j \in DOMAIN jobs, QueueRetry(j)
    PROVE  /\ JobGoes(j, "active", "rescheduled", jobs[j].answer, jobs[j].attempts)
           /\ At(j, "updated") /\ jobs[j].answer \in {"retry", "none"} /\ jobs[j].attempt <= RetrySteps
           /\ \/ /\ HasJob(jobs[j].event, jobs[j].endpoint, jobs[j].attempt + 1)
                 /\ SameJobs
              \/ /\ ~HasJob(jobs[j].event, jobs[j].endpoint, jobs[j].attempt + 1)
                 /\ NewJob(jobs[j].event, jobs[j].endpoint, jobs[j].attempt + 1, "delayed")
           /\ UNCHANGED << endpoints, fanOuts, posts, faults >>
<1> DEFINE n == jobs[j].event  e == jobs[j].endpoint  a == jobs[j].attempt + 1
<1> WebhookTypeOK
  BY DEF WebhookInv
<1>0. /\ jobs \in Seq(JobRecord) /\ RetrySteps \in Nat
      /\ n \in 1..Len(fanOuts) /\ e \in Endpoints /\ jobs[j].attempt \in 1..(RetrySteps + 1)
      /\ MaxAttempts \in Nat /\ 0 <= MaxAttempts
      /\ jobs[j] \in JobRecord /\ jobs[j].attempts \in 0..MaxAttempts
      /\ jobs[j].state \in JobStates /\ jobs[j].answer \in Answers
  <2>1. jobs \in Seq(JobRecord) /\ RetrySteps \in Nat /\ MaxAttempts \in Nat /\ 0 <= MaxAttempts
    BY WebhookAssumption, JobQueueAssumption DEF WebhookTypeOK
  <2> QED
    BY <2>1, JobsTyped
<1>1. /\ At(j, "updated") /\ jobs[j].answer \in {"retry", "none"} /\ jobs[j].attempt <= RetrySteps
      /\ UNCHANGED << endpoints, fanOuts, posts, faults >>
      /\ jobs' = [Queued(n, e, a) EXCEPT ![j].step = "rescheduled"]
  BY DEF QueueRetry, WantsRetry, RetryInSeconds, NextAttempt
<1>2. CASE HasJob(n, e, a)
  <2>1. jobs' = [jobs EXCEPT ![j].step = "rescheduled"]
    BY <1>1, <1>2 DEF Queued
  <2>2. JobGoes(j, "active", "rescheduled", jobs[j].answer, jobs[j].attempts) /\ SameJobs
    <3>1. "rescheduled" \in Steps /\ jobs[j].state = "active"
      BY <1>1 DEF Steps, At
    <3> QED
      BY <1>0, <2>1, <3>1, StepGoes
  <2> QED
    BY <1>1, <1>2, <2>2
<1>3. CASE ~HasJob(n, e, a)
  <2> DEFINE new == Job(n, e, a, "delayed")
             job == [jobs[j] EXCEPT !.step = "rescheduled"]
             added == Append(jobs, new)
  <2>1. a \in 1..(RetrySteps + 1)
    BY <1>0, <1>1
  <2>2. new \in JobRecord
    BY <1>0, <2>1 DEF JobRecord, Job, JobStates, Answers
  <2>3. /\ job \in JobRecord /\ job.event = n /\ job.endpoint = e /\ job.attempt = jobs[j].attempt
        /\ job.state = "active" /\ job.step = "rescheduled"
        /\ job.answer = jobs[j].answer /\ job.attempts = jobs[j].attempts
    BY <1>0, <1>1 DEF JobRecord, At
  <2>4. jobs' = [added EXCEPT ![j].step = "rescheduled"]
    BY <1>1, <1>3 DEF Queued
  <2> HIDE DEF new
  <2>5. /\ added \in Seq(JobRecord) /\ Len(added) = Len(jobs) + 1
        /\ \A k \in DOMAIN jobs : added[k] = jobs[k]
        /\ added[Len(jobs) + 1] = new
        /\ DOMAIN jobs = 1..Len(jobs) /\ Len(jobs) \in Nat
    BY <1>0, <2>2
  <2>6. jobs' = [added EXCEPT ![j] = job]
    BY <2>4, <2>5
  <2> HIDE DEF job, added
  <2>7. added \in Seq(JobRecord) /\ DOMAIN added = 1..(Len(jobs) + 1)
    BY <2>5
  <2>8. /\ jobs' \in Seq(JobRecord) /\ DOMAIN jobs' = 1..(Len(jobs) + 1)
        /\ jobs'[j] = job /\ jobs'[Len(jobs) + 1] = new
        /\ \A k \in DOMAIN jobs : k # j => jobs'[k] = jobs[k]
    BY <2>3, <2>5, <2>6, <2>7
  <2>9. JobGoes(j, "active", "rescheduled", jobs[j].answer, jobs[j].attempts)
    BY <2>3, <2>5, <2>8 DEF JobGoes
  <2>10. DOMAIN jobs' = DOMAIN jobs \cup {Len(jobs) + 1}
    BY <2>5, <2>8
  <2>11. NewJob(n, e, a, "delayed")
    BY <2>8, <2>10 DEF NewJob, new
  <2> QED
    BY <1>1, <1>3, <2>9, <2>11
<1> QED
  BY <1>2, <1>3

-----------------------------------------------------------------------------
(* The actions keep the invariant.                                         *)

\* Requests are made to the endpoint of job j only, for its event.
PostsAt(j) ==
    /\ posts' \in [1..MaxEvents ->
                    [Endpoints -> Seq([attempt : 1..(RetrySteps + 1), answer : Answers])]]
    /\ \A n \in 1..MaxEvents, e \in Endpoints : ~Delivers(j, n, e) => posts'[n][e] = posts[n][e]

\* A step of the handler on one job keeps the invariant.
LEMMA HandlerKeepsInv ==
    ASSUME WebhookInv, NEW j \in DOMAIN jobs, NEW state, NEW step, NEW answer, NEW attempts,
           HandlerStep(j, state, step, answer, attempts), PostsAt(j)
    PROVE  WebhookInv'
<1>1. /\ jobs' \in Seq(JobRecord) /\ DOMAIN jobs' = DOMAIN jobs
      /\ jobs'[j].event = jobs[j].event /\ jobs'[j].endpoint = jobs[j].endpoint
      /\ jobs'[j].attempt = jobs[j].attempt
      /\ jobs'[j].state = state /\ jobs'[j].attempts = attempts
      /\ \A k \in DOMAIN jobs : k # j => jobs'[k] = jobs[k]
      /\ UNCHANGED << endpoints, fanOuts >>
  BY DEF HandlerStep, JobGoes, SameJobs
<1>2. WebhookTypeOK'
  <2>1. JobRecord' = JobRecord
    BY <1>1 DEF JobRecord
  <2>2. /\ endpoints' \in [Endpoints -> {"enabled", "disabled", "deleted"}]
        /\ fanOuts' \in Seq([planned : SUBSET Endpoints, todo : SUBSET Endpoints])
        /\ Len(fanOuts') <= MaxEvents
    <3>1. /\ endpoints \in [Endpoints -> {"enabled", "disabled", "deleted"}]
          /\ fanOuts \in Seq([planned : SUBSET Endpoints, todo : SUBSET Endpoints])
          /\ Len(fanOuts) <= MaxEvents
      BY DEF WebhookInv, WebhookTypeOK
    <3>2. endpoints' = endpoints /\ fanOuts' = fanOuts
      BY <1>1
    <3> QED
      BY <3>1, <3>2
  <2>3. faults' \in [count : 0..MaxFaults, kinds : SUBSET FaultKinds]
    BY DEF HandlerStep, FaultsOnlyGrow
  <2> QED
    BY <1>1, <2>1, <2>2, <2>3 DEF WebhookTypeOK, PostsAt
<1>3. OneActive'
  BY <1>1 DEF WebhookInv, OneActive, HandlerStep
<1>4. IdsUnique'
  BY <1>1 DEF WebhookInv, IdsUnique
<1>5. NotYetQueued'
  <2>1. \A n, e : NoJob(n, e) => NoJob(n, e)' /\ ~Delivers(j, n, e)
    BY <1>1 DEF NoJob, Delivers
  <2>2. ASSUME NEW n \in DOMAIN fanOuts, NEW e \in fanOuts[n].todo
        PROVE  NoJob(n, e)' /\ posts'[n][e] = << >>
    <3>1. NoJob(n, e) /\ posts[n][e] = << >>
      BY <2>2 DEF WebhookInv, NotYetQueued
    <3>2. n \in 1..MaxEvents /\ e \in Endpoints
      BY FanOutsTyped DEF WebhookInv
    <3> QED
      BY <2>1, <3>1, <3>2 DEF PostsAt
  <2>3. ASSUME NEW n \in 1..MaxEvents, n > Len(fanOuts), NEW e \in Endpoints
        PROVE  posts'[n][e] = << >>
    <3>1. jobs[j].event \in 1..Len(fanOuts)
      BY JobsTyped DEF WebhookInv
    <3>2. Len(fanOuts) \in Nat /\ MaxEvents \in Nat
      BY WebhookAssumption DEF WebhookInv, WebhookTypeOK
    <3>3. ~Delivers(j, n, e)
      BY <2>3, <3>1, <3>2 DEF Delivers
    <3> QED
      BY <2>3, <3>3 DEF WebhookInv, NotYetQueued, PostsAt
  <2> QED
    BY <1>1, <2>2, <2>3 DEF NotYetQueued
<1>6. AttemptsLeft'
  BY <1>1 DEF WebhookInv, AttemptsLeft, HandlerStep
<1> QED
  BY <1>2, <1>3, <1>4, <1>5, <1>6 DEF WebhookInv

\* Queueing the next attempt keeps it.
LEMMA RetryKeepsInv ==
    ASSUME WebhookInv, NEW j \in DOMAIN jobs, QueueRetry(j)
    PROVE  WebhookInv'
<1> DEFINE n == jobs[j].event  e == jobs[j].endpoint  a == jobs[j].attempt + 1
<1>1. /\ JobGoes(j, "active", "rescheduled", jobs[j].answer, jobs[j].attempts)
      /\ At(j, "updated")
      /\ \/ HasJob(n, e, a) /\ SameJobs
         \/ ~HasJob(n, e, a) /\ NewJob(n, e, a, "delayed")
      /\ UNCHANGED << endpoints, fanOuts, posts, faults >>
  BY RetryQueued
<1>2. jobs[j].state = "active" /\ jobs[j].attempts < MaxAttempts
  BY <1>1 DEF At, WebhookInv, AttemptsLeft
<1>3. CASE SameJobs
  <2>1. UNCHANGED faults => FaultsOnlyGrow
    BY FaultGrows DEF WebhookInv
  <2>2. HandlerStep(j, "active", "rescheduled", jobs[j].answer, jobs[j].attempts)
    BY <1>1, <1>2, <1>3, <2>1 DEF HandlerStep
  <2>3. PostsAt(j)
    BY <1>1 DEF PostsAt, WebhookInv, WebhookTypeOK
  <2> QED
    BY <2>2, <2>3, HandlerKeepsInv
<1>4. CASE ~HasJob(n, e, a) /\ NewJob(n, e, a, "delayed")
  <2> DEFINE k == Len(jobs) + 1
  <2>1. /\ jobs' \in Seq(JobRecord) /\ DOMAIN jobs' = DOMAIN jobs \cup {k} /\ k \notin DOMAIN jobs
        /\ \A i \in DOMAIN jobs :
              /\ jobs'[i].event = jobs[i].event /\ jobs'[i].endpoint = jobs[i].endpoint
              /\ jobs'[i].attempt = jobs[i].attempt
              /\ jobs'[i].state = jobs[i].state /\ jobs'[i].attempts = jobs[i].attempts
        /\ jobs'[k].event = n /\ jobs'[k].endpoint = e /\ jobs'[k].attempt = a
        /\ jobs'[k].state = "delayed" /\ jobs'[k].attempts = 0
    <3>1. Len(jobs) \in Nat /\ DOMAIN jobs = 1..Len(jobs)
      BY DEF WebhookInv, WebhookTypeOK
    <3>2. k \notin DOMAIN jobs
      BY <3>1
    <3>3. jobs'[k] = Job(n, e, a, "delayed") /\ DOMAIN jobs' = DOMAIN jobs \cup {k}
      BY <1>4 DEF NewJob
    <3> QED
      BY <1>1, <1>2, <3>2, <3>3 DEF JobGoes, Job
  <2>2. WebhookTypeOK'
    <3>1. /\ endpoints \in [Endpoints -> {"enabled", "disabled", "deleted"}]
          /\ fanOuts \in Seq([planned : SUBSET Endpoints, todo : SUBSET Endpoints])
          /\ Len(fanOuts) <= MaxEvents
          /\ posts \in [1..MaxEvents ->
                           [Endpoints -> Seq([attempt : 1..(RetrySteps + 1), answer : Answers])]]
          /\ faults \in [count : 0..MaxFaults, kinds : SUBSET FaultKinds]
      BY DEF WebhookInv, WebhookTypeOK
    <3>2. JobRecord' = JobRecord
      BY <1>1 DEF JobRecord
    <3> QED
      BY <1>1, <2>1, <3>1, <3>2 DEF WebhookTypeOK
  <2>3. OneActive'
    BY <2>1 DEF WebhookInv, OneActive
  <2>4. IdsUnique'
    BY <1>4, <2>1 DEF WebhookInv, IdsUnique, HasJob
  <2>5. NotYetQueued'
    <3>1. \A m, f : NoJob(m, f) => NoJob(m, f)'
      BY <2>1 DEF NoJob, Delivers
    <3> QED
      BY <1>1, <3>1 DEF WebhookInv, NotYetQueued
  <2>6. AttemptsLeft'
    BY <2>1, JobQueueAssumption DEF WebhookInv, AttemptsLeft
  <2> QED
    BY <2>2, <2>3, <2>4, <2>5, <2>6 DEF WebhookInv
<1> QED
  BY <1>1, <1>3, <1>4

\* The endpoints change, nothing else does: the API's actions.
LEMMA EditKeepsInv ==
    ASSUME WebhookInv, NEW e \in Endpoints, SetEnabled(e) \/ Remove(e)
    PROVE  WebhookInv' /\ UNCHANGED << fanOuts, jobs, posts >> /\ "edit" \in faults'.kinds
                       /\ FaultsOnlyGrow
                       /\ \A f \in Endpoints : endpoints[f] = "deleted" => endpoints'[f] = "deleted"
<1>1. /\ endpoints \in [Endpoints -> {"enabled", "disabled", "deleted"}]
      /\ faults \in [count : 0..MaxFaults, kinds : SUBSET FaultKinds]
      /\ WebhookTypeOK
  BY DEF WebhookInv, WebhookTypeOK
<1>2. UNCHANGED << fanOuts, jobs, posts >> /\ Fault("edit")
  BY DEF SetEnabled, Remove
<1>3. /\ endpoints' \in [Endpoints -> {"enabled", "disabled", "deleted"}]
      /\ \A f \in Endpoints : endpoints[f] = "deleted" => endpoints'[f] = "deleted"
  BY <1>1 DEF SetEnabled, Remove
<1>4. FaultsOnlyGrow
  BY <1>1, <1>2, FaultGrows DEF AllFaults
<1>5. "edit" \in faults'.kinds
  BY <1>1, <1>2 DEF Fault
<1>6. WebhookTypeOK'
  <2>1. /\ fanOuts \in Seq([planned : SUBSET Endpoints, todo : SUBSET Endpoints])
        /\ Len(fanOuts) <= MaxEvents
        /\ jobs \in Seq(JobRecord)
        /\ posts \in [1..MaxEvents ->
                         [Endpoints -> Seq([attempt : 1..(RetrySteps + 1), answer : Answers])]]
    BY DEF WebhookInv, WebhookTypeOK
  <2>2. JobRecord' = JobRecord
    BY <1>2 DEF JobRecord
  <2> QED
    BY <1>2, <1>3, <1>4, <2>1, <2>2 DEF WebhookTypeOK, FaultsOnlyGrow
<1>7. (OneActive /\ IdsUnique /\ NotYetQueued /\ AttemptsLeft)'
  BY <1>2 DEF WebhookInv, OneActive, IdsUnique, NotYetQueued, NoJob, Delivers, AttemptsLeft
<1> QED
  BY <1>2, <1>3, <1>4, <1>5, <1>6, <1>7 DEF WebhookInv

\* Planning an event, and giving up what is left of it, queue nothing.
LEMMA PlanKeepsInv ==
    ASSUME WebhookInv, PlanDeliveries
    PROVE  /\ WebhookInv' /\ UNCHANGED << endpoints, jobs, posts, faults >>
           /\ DOMAIN fanOuts' = DOMAIN fanOuts \cup {Len(fanOuts) + 1}
           /\ fanOuts'[Len(fanOuts) + 1].planned \ fanOuts'[Len(fanOuts) + 1].todo = {}
           /\ \A n \in DOMAIN fanOuts : fanOuts'[n] = fanOuts[n]
<1> DEFINE planned == {e \in Endpoints : endpoints[e] = "enabled"}
           m == Len(fanOuts) + 1
<1>1. /\ fanOuts \in Seq([planned : SUBSET Endpoints, todo : SUBSET Endpoints])
      /\ Len(fanOuts) \in Nat /\ Len(fanOuts) < MaxEvents /\ MaxEvents \in Nat
      /\ fanOuts' = Append(fanOuts, [planned |-> planned, todo |-> planned])
      /\ UNCHANGED << endpoints, jobs, posts, faults >>
  BY WebhookAssumption DEF WebhookInv, WebhookTypeOK, PlanDeliveries
<1>2. [planned |-> planned, todo |-> planned] \in [planned : SUBSET Endpoints, todo : SUBSET Endpoints]
  OBVIOUS
<1>3. /\ fanOuts' \in Seq([planned : SUBSET Endpoints, todo : SUBSET Endpoints])
      /\ Len(fanOuts') = m /\ m \in 1..MaxEvents
      /\ DOMAIN fanOuts = 1..Len(fanOuts) /\ DOMAIN fanOuts' = DOMAIN fanOuts \cup {m}
      /\ \A n \in DOMAIN fanOuts : fanOuts'[n] = fanOuts[n]
      /\ fanOuts'[m] = [planned |-> planned, todo |-> planned]
  BY <1>1, <1>2
<1>4. \A j \in DOMAIN jobs : jobs[j].event \in 1..Len(fanOuts)
  BY JobsTyped DEF WebhookInv
<1>5. WebhookTypeOK'
  <2>1. JobRecord \subseteq JobRecord'
    BY <1>1, <1>3 DEF JobRecord
  <2>2. jobs' \in Seq(JobRecord')
    BY <1>1, <2>1 DEF WebhookInv, WebhookTypeOK
  <2>3. /\ endpoints \in [Endpoints -> {"enabled", "disabled", "deleted"}]
        /\ posts \in [1..MaxEvents ->
                         [Endpoints -> Seq([attempt : 1..(RetrySteps + 1), answer : Answers])]]
        /\ faults \in [count : 0..MaxFaults, kinds : SUBSET FaultKinds]
    BY DEF WebhookInv, WebhookTypeOK
  <2>4. Len(fanOuts') <= MaxEvents
    BY <1>3
  <2> QED
    BY <1>1, <1>3, <2>2, <2>3, <2>4 DEF WebhookTypeOK
<1>6. NotYetQueued'
  <2>1. \A n, e : NoJob(n, e)' <=> NoJob(n, e)
    BY <1>1 DEF NoJob, Delivers
  <2>2. \A e \in Endpoints : NoJob(m, e) /\ posts[m][e] = << >>
    <3>1. \A j \in DOMAIN jobs : jobs[j].event # m
      BY <1>1, <1>4
    <3>2. m > Len(fanOuts)
      BY <1>1
    <3> QED
      BY <1>3, <3>1, <3>2 DEF NoJob, Delivers, WebhookInv, NotYetQueued
  <2>3. \A n \in DOMAIN fanOuts' : \A e \in fanOuts'[n].todo : NoJob(n, e)' /\ posts'[n][e] = << >>
    BY <1>1, <1>3, <2>1, <2>2 DEF WebhookInv, NotYetQueued
  <2>4. \A n \in 1..MaxEvents : n > m => n > Len(fanOuts)
    BY <1>1
  <2> QED
    BY <1>1, <1>3, <2>3, <2>4 DEF WebhookInv, NotYetQueued
<1>7. (OneActive /\ IdsUnique /\ AttemptsLeft)'
  BY <1>1 DEF WebhookInv, OneActive, IdsUnique, AttemptsLeft
<1> QED
  BY <1>1, <1>3, <1>5, <1>6, <1>7 DEF WebhookInv

\* Giving up a fan-out.
LEMMA FanOutFailsKeepsInv ==
    ASSUME WebhookInv, NEW n \in DOMAIN fanOuts, FanOutFails(n)
    PROVE  /\ WebhookInv' /\ UNCHANGED << endpoints, jobs, posts >> /\ FaultsOnlyGrow
           /\ "queueError" \in faults'.kinds
<1>1. /\ fanOuts \in Seq([planned : SUBSET Endpoints, todo : SUBSET Endpoints])
      /\ fanOuts[n] \in [planned : SUBSET Endpoints, todo : SUBSET Endpoints]
      /\ faults \in [count : 0..MaxFaults, kinds : SUBSET FaultKinds]
      /\ WebhookTypeOK
  BY FanOutsTyped DEF WebhookInv, WebhookTypeOK
<1>2. /\ Fault("queueError")
      /\ UNCHANGED << endpoints, jobs, posts >>
      /\ fanOuts' = [fanOuts EXCEPT ![n] = [fanOuts[n] EXCEPT !.todo = {}]]
  BY DEF FanOutFails
<1>3. /\ [fanOuts[n] EXCEPT !.todo = {}] \in [planned : SUBSET Endpoints, todo : SUBSET Endpoints]
      /\ [fanOuts[n] EXCEPT !.todo = {}].todo = {}
  BY <1>1
<1>4. /\ fanOuts' \in Seq([planned : SUBSET Endpoints, todo : SUBSET Endpoints])
      /\ Len(fanOuts') = Len(fanOuts) /\ DOMAIN fanOuts' = DOMAIN fanOuts
      /\ fanOuts'[n].todo = {}
      /\ \A m \in DOMAIN fanOuts : m # n => fanOuts'[m] = fanOuts[m]
  <2> DEFINE fan == [fanOuts[n] EXCEPT !.todo = {}]
  <2>1. fan \in [planned : SUBSET Endpoints, todo : SUBSET Endpoints] /\ fan.todo = {}
    BY <1>3
  <2>2. fanOuts' = [fanOuts EXCEPT ![n] = fan]
    BY <1>2
  <2> HIDE DEF fan
  <2> QED
    BY <1>1, <2>1, <2>2
<1>5. FaultsOnlyGrow /\ "queueError" \in faults'.kinds
  BY <1>1, <1>2, FaultGrows DEF AllFaults, Fault
<1>6. WebhookTypeOK'
  <2>1. JobRecord' = JobRecord
    BY <1>4 DEF JobRecord
  <2>2. /\ endpoints \in [Endpoints -> {"enabled", "disabled", "deleted"}]
        /\ Len(fanOuts) <= MaxEvents /\ jobs \in Seq(JobRecord)
        /\ posts \in [1..MaxEvents ->
                         [Endpoints -> Seq([attempt : 1..(RetrySteps + 1), answer : Answers])]]
    BY DEF WebhookInv, WebhookTypeOK
  <2> QED
    BY <1>2, <1>4, <1>5, <2>1, <2>2 DEF WebhookTypeOK, FaultsOnlyGrow
<1>7. NotYetQueued'
  <2>1. \A m, e : NoJob(m, e)' <=> NoJob(m, e)
    BY <1>2 DEF NoJob, Delivers
  <2> QED
    BY <1>2, <1>4, <2>1 DEF WebhookInv, NotYetQueued
<1>8. (OneActive /\ IdsUnique /\ AttemptsLeft)'
  BY <1>2 DEF WebhookInv, OneActive, IdsUnique, AttemptsLeft
<1> QED
  BY <1>2, <1>5, <1>6, <1>7, <1>8 DEF WebhookInv

\* Queueing a planned delivery.
LEMMA QueueingKeepsInv ==
    ASSUME WebhookInv, NEW n \in DOMAIN fanOuts, NEW e \in Endpoints, QueueDelivery(n, e)
    PROVE  /\ WebhookInv' /\ UNCHANGED << endpoints, posts, faults >>
           /\ NoJob(n, e) /\ posts[n][e] = << >> /\ n \in 1..MaxEvents
           /\ NewJob(n, e, 1, "waiting") /\ Len(jobs) + 1 \notin DOMAIN jobs
           /\ \A i \in DOMAIN jobs : jobs'[i] = jobs[i]
<1> DEFINE k == Len(jobs) + 1
           new == Job(n, e, 1, "waiting")
           fan == [fanOuts[n] EXCEPT !.todo = @ \ {e}]
<1>1. /\ fanOuts \in Seq([planned : SUBSET Endpoints, todo : SUBSET Endpoints])
      /\ fanOuts[n] \in [planned : SUBSET Endpoints, todo : SUBSET Endpoints]
      /\ n \in 1..Len(fanOuts) /\ n \in 1..MaxEvents
      /\ jobs \in Seq(JobRecord) /\ RetrySteps \in Nat /\ MaxAttempts \in Nat \ {0}
  BY FanOutsTyped, WebhookAssumption, JobQueueAssumption DEF WebhookInv, WebhookTypeOK
<1>2. /\ e \in fanOuts[n].todo
      /\ UNCHANGED << endpoints, posts, faults >>
      /\ fanOuts' = [fanOuts EXCEPT ![n] = fan]
      /\ jobs' = Append(jobs, new)
  BY DEF QueueDelivery
<1>3. fan \in [planned : SUBSET Endpoints, todo : SUBSET Endpoints] /\ fan.todo = fanOuts[n].todo \ {e}
  BY <1>1
<1>4. /\ fanOuts' \in Seq([planned : SUBSET Endpoints, todo : SUBSET Endpoints])
      /\ Len(fanOuts') = Len(fanOuts) /\ DOMAIN fanOuts' = DOMAIN fanOuts
      /\ \A m \in DOMAIN fanOuts : fanOuts'[m].todo \subseteq fanOuts[m].todo
      /\ e \notin fanOuts'[n].todo
  <2> HIDE DEF fan
  <2>1. /\ fanOuts' \in Seq([planned : SUBSET Endpoints, todo : SUBSET Endpoints])
        /\ Len(fanOuts') = Len(fanOuts) /\ DOMAIN fanOuts' = DOMAIN fanOuts
        /\ fanOuts'[n] = fan
        /\ \A m \in DOMAIN fanOuts : m # n => fanOuts'[m] = fanOuts[m]
    BY <1>1, <1>2, <1>3
  <2> QED
    BY <1>3, <2>1
<1>5. /\ new \in JobRecord /\ new.event = n /\ new.endpoint = e /\ new.attempt = 1
      /\ new.state = "waiting" /\ new.attempts = 0
  BY <1>1 DEF JobRecord, Job, JobStates, Answers
<1>6. /\ jobs' \in Seq(JobRecord) /\ DOMAIN jobs' = DOMAIN jobs \cup {k} /\ k \notin DOMAIN jobs
      /\ \A i \in DOMAIN jobs : jobs'[i] = jobs[i]
      /\ jobs'[k] = new
  <2> HIDE DEF new
  <2> QED
    BY <1>1, <1>2, <1>5
<1>7. NoJob(n, e) /\ posts[n][e] = << >>
  BY <1>2 DEF WebhookInv, NotYetQueued
<1> HIDE DEF fan
<1>8. WebhookTypeOK'
  <2>1. JobRecord' = JobRecord
    BY <1>4 DEF JobRecord
  <2>2. /\ endpoints \in [Endpoints -> {"enabled", "disabled", "deleted"}]
        /\ Len(fanOuts) <= MaxEvents
        /\ posts \in [1..MaxEvents ->
                         [Endpoints -> Seq([attempt : 1..(RetrySteps + 1), answer : Answers])]]
        /\ faults \in [count : 0..MaxFaults, kinds : SUBSET FaultKinds]
    BY DEF WebhookInv, WebhookTypeOK
  <2> HIDE DEF new
  <2> QED
    BY <1>2, <1>4, <1>6, <2>1, <2>2 DEF WebhookTypeOK
<1>9. NotYetQueued'
  <2>1. ASSUME NEW m, NEW f, NoJob(m, f), ~(m = n /\ f = e)
        PROVE  NoJob(m, f)'
    BY <1>5, <1>6, <2>1 DEF NoJob, Delivers
  <2>2. \A m \in DOMAIN fanOuts' : \A f \in fanOuts'[m].todo :
           NoJob(m, f) /\ posts'[m][f] = << >> /\ ~(m = n /\ f = e)
    BY <1>2, <1>4 DEF WebhookInv, NotYetQueued
  <2> QED
    BY <1>2, <1>4, <2>1, <2>2 DEF WebhookInv, NotYetQueued
<1>10. OneActive' /\ AttemptsLeft'
  BY <1>1, <1>5, <1>6 DEF WebhookInv, OneActive, AttemptsLeft
<1>11. IdsUnique'
  BY <1>5, <1>6, <1>7 DEF WebhookInv, IdsUnique, NoJob, Delivers
<1>12. NewJob(n, e, 1, "waiting")
  BY <1>6 DEF NewJob
<1> QED
  BY <1>1, <1>2, <1>6, <1>7, <1>8, <1>9, <1>10, <1>11, <1>12 DEF WebhookInv

\* What a request adds to the answers of an endpoint.
LEMMA PostAdds ==
    ASSUME WebhookInv, NEW j \in DOMAIN jobs, NEW answer \in Answers, Post(j, answer)
    PROVE  LET n == jobs[j].event e == jobs[j].endpoint
           IN  /\ PostsAt(j) /\ n \in 1..MaxEvents /\ e \in Endpoints
               /\ posts'[n][e] = Append(posts[n][e], [attempt |-> jobs[j].attempt, answer |-> answer])
<1> DEFINE n == jobs[j].event  e == jobs[j].endpoint
           Posts == Seq([attempt : 1..(RetrySteps + 1), answer : Answers])
           more == Append(posts[n][e], [attempt |-> jobs[j].attempt, answer |-> answer])
<1>1. n \in 1..MaxEvents /\ e \in Endpoints /\ jobs[j].attempt \in 1..(RetrySteps + 1)
  BY JobsTyped DEF WebhookInv
<1>2. posts \in [1..MaxEvents -> [Endpoints -> Posts]]
  BY DEF WebhookInv, WebhookTypeOK
<1>3. more \in Posts
  <2>1. posts[n][e] \in Posts
    <3> HIDE DEF Posts
    <3> QED
      BY <1>1, <1>2
  <2>2. [attempt |-> jobs[j].attempt, answer |-> answer]
           \in [attempt : 1..(RetrySteps + 1), answer : Answers]
    BY <1>1
  <2> QED
    BY <2>1, <2>2
<1>4. posts' = [posts EXCEPT ![n][e] = more]
  BY <1>1, <1>2 DEF Post
<1> HIDE DEF more, Posts, n, e
<1>5. /\ posts' \in [1..MaxEvents -> [Endpoints -> Posts]]
      /\ posts'[n][e] = more
      /\ \A m \in 1..MaxEvents, f \in Endpoints : ~(m = n /\ f = e) => posts'[m][f] = posts[m][f]
  BY <1>1, <1>2, <1>3, <1>4
<1> QED
  BY <1>1, <1>5 DEF PostsAt, Delivers, Posts, more, n, e

\* Every step keeps the invariant.
LEMMA StepKeepsInv ==
    ASSUME WebhookInv, [Next]_vars PROVE WebhookInv'
<1>1. ASSUME NEW j \in DOMAIN jobs, UNCHANGED posts PROVE PostsAt(j)
  BY <1>1 DEF PostsAt, WebhookInv, WebhookTypeOK
<1>2. CASE PlanDeliveries
  BY <1>2, PlanKeepsInv
<1>3. ASSUME NEW n \in DOMAIN fanOuts, FanOutFails(n) PROVE WebhookInv'
  BY <1>3, FanOutFailsKeepsInv
<1>4. ASSUME NEW n \in DOMAIN fanOuts, NEW e \in Endpoints, QueueDelivery(n, e) PROVE WebhookInv'
  BY <1>4, QueueingKeepsInv
<1>5. ASSUME NEW e \in Endpoints, SetEnabled(e) \/ Remove(e) PROVE WebhookInv'
  BY <1>5, EditKeepsInv
<1>6. ASSUME NEW j \in DOMAIN jobs, QueueRetry(j) PROVE WebhookInv'
  BY <1>6, RetryKeepsInv
<1>7. ASSUME NEW j \in DOMAIN jobs, NEW answer \in Answers, Post(j, answer) PROVE WebhookInv'
  <2>1. HandlerStep(j, "active", "answered", answer, jobs[j].attempts)
    BY <1>7, HandlerActions
  <2> QED
    BY <1>7, <2>1, PostAdds, HandlerKeepsInv
<1>8. ASSUME NEW j \in DOMAIN jobs,
             \/ StartDelivery(j) \/ SkipDelivery(j) \/ RecordAttempt(j) \/ RecordAnswer(j)
             \/ CompleteDelivery(j) \/ AnswerTakenForFailure(j) \/ CrashDelivery(j)
      PROVE  WebhookInv'
  <2>1. UNCHANGED posts /\ \E state, step, answer, attempts : HandlerStep(j, state, step, answer, attempts)
    BY <1>8, HandlerActions
  <2> QED
    BY <1>1, <2>1, HandlerKeepsInv
<1>9. ASSUME NEW j \in DOMAIN jobs, DeliveryThrows(j) PROVE WebhookInv'
  <2>1. UNCHANGED posts /\ \E state, step, answer, attempts : HandlerStep(j, state, step, answer, attempts)
    BY <1>9, HandlerActions
  <2> QED
    BY <1>1, <2>1, HandlerKeepsInv
<1>10. CASE UNCHANGED vars
  <2>1. UNCHANGED << endpoints, fanOuts, jobs, posts, faults >>
    BY <1>10 DEF vars
  <2>2. WebhookTypeOK' = WebhookTypeOK
    <3>1. JobRecord' = JobRecord
      BY <2>1 DEF JobRecord
    <3> QED
      BY <2>1, <3>1 DEF WebhookTypeOK
  <2>3. NotYetQueued' = NotYetQueued
    BY <2>1 DEF NotYetQueued, NoJob, Delivers
  <2> QED
    BY <2>1, <2>2, <2>3 DEF WebhookInv, OneActive, IdsUnique, AttemptsLeft
<1> QED
  BY <1>2, <1>3, <1>4, <1>5, <1>6, <1>7, <1>8, <1>9, <1>10 DEF Next, DeliveryStep

\* Jobs, fan-outs and answers are of their types; the worker has one job in hand, and
\* the id of event, endpoint and attempt names one job.
THEOREM WebhookKeepsInv == Spec => []WebhookInv
<1>1. Init => WebhookInv
  <2> SUFFICES ASSUME Init PROVE WebhookInv
    OBVIOUS
  <2>1. endpoints = [e \in Endpoints |-> "enabled"] /\ fanOuts = << >> /\ jobs = << >>
        /\ posts = [n \in 1..MaxEvents |-> [e \in Endpoints |-> << >>]]
        /\ faults = [count |-> 0, kinds |-> {}]
    BY DEF Init
  <2>2. WebhookTypeOK
    BY <2>1, WebhookAssumption DEF WebhookTypeOK
  <2>3. OneActive /\ IdsUnique /\ AttemptsLeft
    BY <2>1 DEF OneActive, IdsUnique, AttemptsLeft
  <2>4. NotYetQueued
    BY <2>1 DEF NotYetQueued
  <2> QED
    BY <2>2, <2>3, <2>4 DEF WebhookInv
<1>2. WebhookInv /\ [Next]_vars => WebhookInv'
  BY StepKeepsInv
<1> QED
  BY <1>1, <1>2, PTL DEF Spec

-----------------------------------------------------------------------------
(* FinalAnswerEnds: while the worker does not die and rows can be written, *)
(* one job of a delivery at most has a request still to make, and none     *)
(* once a final answer came.                                               *)

\* A job that may make a request of its own accord, now or in a later attempt.
Open(job) ==
    \/ job.state \in {"waiting", "delayed"}
    \/ job.state = "active" /\ job.step \in {"read", "recorded"}
    \/ job.state = "active" /\ job.step \in {"answered", "updated"} /\ job.answer \in {"retry", "none"}

OneOpen ==
    \A j, k \in DOMAIN jobs :
        /\ Open(jobs[j]) /\ Open(jobs[k])
        /\ jobs[j].event = jobs[k].event /\ jobs[j].endpoint = jobs[k].endpoint
        /\ Status(j) # "deleted"
        => j = k

\* The endpoint may be deleted while its last answer is worked on: what is then taken
\* for a failure is retried, but makes no request.
ClosedAfterFinal ==
    \A j \in DOMAIN jobs :
        Answered(jobs[j].event, jobs[j].endpoint, {"ok", "drop"}) =>
            /\ ~At(j, "recorded")
            /\ Status(j) # "deleted" => ~Open(jobs[j])

DeliveriesClose == OneOpen /\ ClosedAfterFinal /\ FinalAnswerIsLast

Undisturbed == faults.kinds \subseteq {"edit", "queueError"}

FinalInv == Undisturbed => DeliveriesClose

\* A step of the handler without a request, which opens no delivery again.
LEMMA HandlerCloses ==
    ASSUME WebhookInv, DeliveriesClose, NEW j \in DOMAIN jobs,
           NEW state, NEW step, NEW answer, NEW attempts,
           HandlerStep(j, state, step, answer, attempts), UNCHANGED posts,
           Open(jobs'[j]) => Open(jobs[j]) \/ Status(j) = "deleted",
           jobs'[j].state = "active" /\ jobs'[j].step = "recorded" =>
               ~Answered(jobs[j].event, jobs[j].endpoint, {"ok", "drop"})
    PROVE  DeliveriesClose'
<1>1. /\ DOMAIN jobs' = DOMAIN jobs
      /\ jobs'[j].event = jobs[j].event /\ jobs'[j].endpoint = jobs[j].endpoint
      /\ \A k \in DOMAIN jobs : k # j => jobs'[k] = jobs[k]
      /\ UNCHANGED << endpoints, fanOuts, posts >>
  BY DEF HandlerStep, JobGoes, SameJobs
<1>2. \A k \in DOMAIN jobs : Open(jobs'[k]) => Open(jobs[k]) \/ Status(k) = "deleted"
  BY <1>1
<1>3. \A k \in DOMAIN jobs : /\ jobs'[k].event = jobs[k].event /\ jobs'[k].endpoint = jobs[k].endpoint
                             /\ Status(k)' = Status(k)
  BY <1>1 DEF Status
<1>4. \A n, e : Answered(n, e, {"ok", "drop"})' = Answered(n, e, {"ok", "drop"})
  BY <1>1 DEF Answered
<1>5. OneOpen'
  <2> SUFFICES ASSUME NEW i \in DOMAIN jobs, NEW k \in DOMAIN jobs,
                      Open(jobs'[i]), Open(jobs'[k]), jobs'[i].event = jobs'[k].event,
                      jobs'[i].endpoint = jobs'[k].endpoint, Status(i)' # "deleted"
               PROVE  i = k
    BY <1>1 DEF OneOpen
  <2>1. Status(i) # "deleted" /\ Status(k) # "deleted"
    BY <1>3 DEF Status
  <2> QED
    BY <1>2, <1>3, <2>1 DEF DeliveriesClose, OneOpen
<1>6. ClosedAfterFinal'
  <2> SUFFICES ASSUME NEW k \in DOMAIN jobs, Answered(jobs[k].event, jobs[k].endpoint, {"ok", "drop"})
               PROVE  ~At(k, "recorded")' /\ (Status(k)' # "deleted" => ~Open(jobs'[k]))
    BY <1>1, <1>3, <1>4 DEF ClosedAfterFinal
  <2>1. ~At(k, "recorded") /\ (Status(k) # "deleted" => ~Open(jobs[k]))
    BY DEF DeliveriesClose, ClosedAfterFinal
  <2> QED
    BY <1>1, <1>2, <1>3, <2>1 DEF At
<1>7. FinalAnswerIsLast'
  BY <1>1 DEF DeliveriesClose, FinalAnswerIsLast
<1> QED
  BY <1>5, <1>6, <1>7 DEF DeliveriesClose

\* One more element at the end of a sequence.
LEMMA Appended ==
    ASSUME NEW S, NEW s \in Seq(S), NEW x \in S
    PROVE  /\ Len(s) \in Nat /\ DOMAIN s = 1..Len(s) /\ Len(Append(s, x)) = Len(s) + 1
           /\ DOMAIN Append(s, x) = DOMAIN s \cup {Len(s) + 1} /\ Len(s) + 1 \notin DOMAIN s
           /\ Append(s, x)[Len(s) + 1] = x
           /\ \A i \in DOMAIN s : Append(s, x)[i] = s[i]
  OBVIOUS

\* A request: its job was the only open one of a delivery without a final answer.
LEMMA PostCloses ==
    ASSUME WebhookInv, DeliveriesClose, NEW j \in DOMAIN jobs, NEW reply \in Answers, Post(j, reply)
    PROVE  DeliveriesClose'
<1> DEFINE n == jobs[j].event  e == jobs[j].endpoint
           post == [attempt |-> jobs[j].attempt, answer |-> reply]
           Final(m, f) == Answered(m, f, {"ok", "drop"})
           FinalAfter(m, f) == \E i \in DOMAIN posts'[m][f] : posts'[m][f][i].answer \in {"ok", "drop"}
           PostRecord == [attempt : 1..(RetrySteps + 1), answer : Answers]
<1>1. /\ DOMAIN jobs' = DOMAIN jobs
      /\ jobs'[j].event = n /\ jobs'[j].endpoint = e
      /\ jobs'[j].state = "active" /\ jobs'[j].step = "answered" /\ jobs'[j].answer = reply
      /\ \A k \in DOMAIN jobs : k # j => jobs'[k] = jobs[k]
      /\ UNCHANGED << endpoints, fanOuts >>
      /\ At(j, "recorded")
  <2>1. HandlerStep(j, "active", "answered", reply, jobs[j].attempts) /\ At(j, "recorded")
    BY HandlerActions
  <2> QED
    BY <2>1 DEF HandlerStep, JobGoes, SameJobs
<1>2. /\ n \in 1..MaxEvents /\ e \in Endpoints
      /\ posts'[n][e] = Append(posts[n][e], post)
      /\ \A m \in 1..MaxEvents, f \in Endpoints : ~(m = n /\ f = e) => posts'[m][f] = posts[m][f]
  BY PostAdds DEF PostsAt, Delivers
<1>3. Open(jobs[j]) /\ ~Final(n, e)
  BY <1>1 DEF DeliveriesClose, ClosedAfterFinal, At, Open
<1>4. posts[n][e] \in Seq(PostRecord) /\ post \in PostRecord
  <2>1. posts \in [1..MaxEvents -> [Endpoints -> Seq(PostRecord)]]
    BY DEF WebhookInv, WebhookTypeOK
  <2>2. posts[n][e] \in Seq(PostRecord)
    <3> HIDE DEF PostRecord
    <3> QED
      BY <1>2, <2>1
  <2>3. post \in PostRecord
    BY JobsTyped DEF WebhookInv
  <2> QED
    BY <2>2, <2>3
<1> HIDE DEF post, PostRecord
<1> DEFINE old == posts[n][e]  new == posts'[n][e]
<1>5. /\ Len(old) \in Nat /\ Len(new) = Len(old) + 1
      /\ DOMAIN new = DOMAIN old \cup {Len(old) + 1} /\ Len(old) + 1 \notin DOMAIN old
      /\ \A i \in DOMAIN old : new[i] = old[i]
      /\ new[Len(old) + 1] = post
  BY <1>2, <1>4, Appended
<1>6. post.answer = reply
  BY DEF post
<1>7. \A m \in 1..MaxEvents, f \in Endpoints :
         FinalAfter(m, f) <=> Final(m, f) \/ (m = n /\ f = e /\ reply \in {"ok", "drop"})
  <2>1. FinalAfter(n, e) <=> reply \in {"ok", "drop"}
    <3>1. \A i \in DOMAIN old : old[i].answer \notin {"ok", "drop"}
      BY <1>3 DEF Answered
    <3>2. FinalAfter(n, e) <=> \E i \in DOMAIN new : new[i].answer \in {"ok", "drop"}
      OBVIOUS
    <3> HIDE DEF old, new, FinalAfter
    <3> QED
      BY <1>5, <1>6, <3>1, <3>2
  <2> QED
    BY <1>2, <1>3, <2>1 DEF Answered
<1>8. \A k \in DOMAIN jobs :
         /\ jobs[k].event \in 1..MaxEvents /\ jobs[k].endpoint \in Endpoints
         /\ jobs'[k].event = jobs[k].event /\ jobs'[k].endpoint = jobs[k].endpoint
         /\ Status(k)' = Status(k)
         /\ Open(jobs'[k]) => Open(jobs[k])
         /\ k # j => jobs[k].state # "active"
  <2>1. \A k \in DOMAIN jobs : jobs'[k].event = jobs[k].event /\ jobs'[k].endpoint = jobs[k].endpoint
    BY <1>1
  <2>2. \A k \in DOMAIN jobs : k # j => jobs[k].state # "active"
    BY <1>1 DEF WebhookInv, OneActive, At
  <2> QED
    BY <1>1, <1>3, <2>1, <2>2, JobsTyped DEF Status, WebhookInv
<1>9. OneOpen'
  <2> SUFFICES ASSUME NEW i \in DOMAIN jobs, NEW k \in DOMAIN jobs,
                      Open(jobs'[i]), Open(jobs'[k]), jobs'[i].event = jobs'[k].event,
                      jobs'[i].endpoint = jobs'[k].endpoint, Status(i)' # "deleted"
               PROVE  i = k
    BY <1>1 DEF OneOpen
  <2> QED
    BY <1>8 DEF DeliveriesClose, OneOpen
<1>10. ClosedAfterFinal'
  <2> SUFFICES ASSUME NEW k \in DOMAIN jobs, FinalAfter(jobs[k].event, jobs[k].endpoint)
               PROVE  ~At(k, "recorded")' /\ (Status(k)' # "deleted" => ~Open(jobs'[k]))
    BY <1>1, <1>8 DEF ClosedAfterFinal, Answered
  <2>1. ~At(k, "recorded")'
    BY <1>1, <1>8 DEF At
  <2>2. CASE Final(jobs[k].event, jobs[k].endpoint)
    BY <1>8, <2>1, <2>2 DEF DeliveriesClose, ClosedAfterFinal
  <2>3. CASE jobs[k].event = n /\ jobs[k].endpoint = e /\ reply \in {"ok", "drop"}
    <3>1. k = j => ~Open(jobs'[k])
      BY <1>1, <2>3 DEF Open
    <3>2. Status(k) # "deleted" /\ Open(jobs[k]) => k = j
      BY <1>3, <2>3 DEF DeliveriesClose, OneOpen, Status
    <3> QED
      BY <1>8, <2>1, <3>1, <3>2
  <2> QED
    BY <1>7, <1>8, <2>2, <2>3
<1>11. FinalAnswerIsLast'
  <2> SUFFICES ASSUME NEW m \in 1..MaxEvents, NEW f \in Endpoints, NEW i \in DOMAIN posts'[m][f],
                      posts'[m][f][i].answer \in {"ok", "drop"}
               PROVE  i = Len(posts'[m][f])
    BY DEF FinalAnswerIsLast
  <2>1. CASE m = n /\ f = e
    <3>1. \A k \in DOMAIN old : old[k].answer \notin {"ok", "drop"}
      BY <1>3 DEF Answered
    <3>2. i \in DOMAIN new /\ new[i].answer \in {"ok", "drop"}
      BY <2>1
    <3>3. i = Len(new)
      <4> HIDE DEF old, new
      <4> QED
        BY <1>5, <3>1, <3>2
    <3> QED
      BY <2>1, <3>3
  <2>2. CASE ~(m = n /\ f = e)
    BY <1>2, <2>2 DEF DeliveriesClose, FinalAnswerIsLast
  <2> QED
    BY <2>1, <2>2
<1> QED
  BY <1>9, <1>10, <1>11 DEF DeliveriesClose

\* A new job opens its delivery; it may when no other job is open and no final answer
\* has come, or the endpoint is gone.
LEMMA NewJobCloses ==
    ASSUME WebhookInv, DeliveriesClose,
           NEW n \in 1..MaxEvents, NEW e \in Endpoints, NEW a, NEW state,
           NewJob(n, e, a, state), state # "active",
           UNCHANGED << endpoints, posts >>,
           \A k \in DOMAIN jobs :
               /\ jobs'[k].event = jobs[k].event /\ jobs'[k].endpoint = jobs[k].endpoint
               /\ Open(jobs'[k]) => Open(jobs[k])
               /\ ~At(k, "recorded") => ~(jobs'[k].state = "active" /\ jobs'[k].step = "recorded"),
           endpoints[e] # "deleted" =>
               /\ ~Answered(n, e, {"ok", "drop"})
               /\ \A k \in DOMAIN jobs : Delivers(k, n, e) => ~Open(jobs'[k])
    PROVE  DeliveriesClose'
<1> DEFINE new == Len(jobs) + 1
<1>1. /\ DOMAIN jobs' = DOMAIN jobs \cup {new}
      /\ jobs'[new].event = n /\ jobs'[new].endpoint = e /\ jobs'[new].state = state
  BY DEF NewJob, Job
<1> HIDE DEF new
<1>2. \A k \in DOMAIN jobs : Status(k)' = Status(k)
  BY DEF Status
<1>3. OneOpen'
  <2> SUFFICES ASSUME NEW i \in DOMAIN jobs', NEW k \in DOMAIN jobs',
                      Open(jobs'[i]), Open(jobs'[k]), jobs'[i].event = jobs'[k].event,
                      jobs'[i].endpoint = jobs'[k].endpoint, endpoints[jobs'[i].endpoint] # "deleted"
               PROVE  i = k
    BY DEF OneOpen, Status
  <2>1. CASE i \in DOMAIN jobs /\ k \in DOMAIN jobs
    BY <2>1 DEF DeliveriesClose, OneOpen, Status
  <2>2. CASE i = new /\ k # new
    BY <1>1, <2>2 DEF Delivers
  <2>3. CASE k = new /\ i # new
    BY <1>1, <2>3 DEF Delivers
  <2> QED
    BY <1>1, <2>1, <2>2, <2>3
<1>4. ClosedAfterFinal'
  <2> SUFFICES ASSUME NEW k \in DOMAIN jobs', Answered(jobs'[k].event, jobs'[k].endpoint, {"ok", "drop"})
               PROVE  /\ ~(jobs'[k].state = "active" /\ jobs'[k].step = "recorded")
                      /\ endpoints[jobs'[k].endpoint] # "deleted" => ~Open(jobs'[k])
    BY DEF ClosedAfterFinal, Answered, Status, At
  <2>1. CASE k \in DOMAIN jobs
    BY <2>1 DEF DeliveriesClose, ClosedAfterFinal, Status
  <2>2. CASE k = new
    BY <1>1, <2>2
  <2> QED
    BY <1>1, <2>1, <2>2
<1>5. FinalAnswerIsLast'
  BY DEF DeliveriesClose, FinalAnswerIsLast
<1> QED
  BY <1>3, <1>4, <1>5 DEF DeliveriesClose

\* Queueing the next attempt closes the job and opens the next.
LEMMA RetryCloses ==
    ASSUME WebhookInv, DeliveriesClose, NEW j \in DOMAIN jobs, QueueRetry(j)
    PROVE  DeliveriesClose'
<1> DEFINE n == jobs[j].event  e == jobs[j].endpoint  a == jobs[j].attempt + 1
<1>1. /\ JobGoes(j, "active", "rescheduled", jobs[j].answer, jobs[j].attempts)
      /\ At(j, "updated") /\ jobs[j].answer \in {"retry", "none"}
      /\ SameJobs \/ NewJob(n, e, a, "delayed")
      /\ UNCHANGED << endpoints, fanOuts, posts, faults >>
  BY RetryQueued
<1>2. /\ jobs'[j].event = n /\ jobs'[j].endpoint = e
      /\ jobs'[j].state = "active" /\ jobs'[j].step = "rescheduled"
      /\ \A k \in DOMAIN jobs : k # j => jobs'[k] = jobs[k]
  BY <1>1 DEF JobGoes
<1>3. Open(jobs[j]) /\ ~Open(jobs'[j])
  BY <1>1, <1>2 DEF Open, At
<1>4. CASE SameJobs
  <2>1. UNCHANGED faults => FaultsOnlyGrow
    BY FaultGrows DEF WebhookInv
  <2>2. HandlerStep(j, "active", "rescheduled", jobs[j].answer, jobs[j].attempts)
    BY <1>1, <1>4, <2>1 DEF HandlerStep, At, WebhookInv, AttemptsLeft
  <2> QED
    BY <1>1, <1>2, <1>3, <2>2, HandlerCloses
<1>5. CASE NewJob(n, e, a, "delayed")
  <2>1. n \in 1..MaxEvents /\ e \in Endpoints
    BY JobsTyped DEF WebhookInv
  <2>2. \A k \in DOMAIN jobs :
            /\ jobs'[k].event = jobs[k].event /\ jobs'[k].endpoint = jobs[k].endpoint
            /\ Open(jobs'[k]) => Open(jobs[k])
            /\ ~At(k, "recorded") => ~(jobs'[k].state = "active" /\ jobs'[k].step = "recorded")
    BY <1>2, <1>3 DEF At
  <2>3. endpoints[e] # "deleted" =>
            /\ ~Answered(n, e, {"ok", "drop"})
            /\ \A k \in DOMAIN jobs : Delivers(k, n, e) => ~Open(jobs'[k])
    BY <1>2, <1>3 DEF DeliveriesClose, OneOpen, ClosedAfterFinal, Status, Delivers
  <2> QED
    BY <1>1, <1>5, <2>1, <2>2, <2>3, NewJobCloses
<1> QED
  BY <1>1, <1>4, <1>5

\* Faults are never forgotten.
LEMMA StepFaults ==
    ASSUME WebhookInv, [Next]_vars PROVE FaultsOnlyGrow
<1>1. UNCHANGED faults => FaultsOnlyGrow
  BY FaultGrows DEF WebhookInv
<1>2. CASE PlanDeliveries
  BY <1>1, <1>2, PlanKeepsInv
<1>3. ASSUME NEW n \in DOMAIN fanOuts, NEW e \in Endpoints, FanOutFails(n) \/ QueueDelivery(n, e)
      PROVE  FaultsOnlyGrow
  BY <1>1, <1>3, FanOutFailsKeepsInv, QueueingKeepsInv
<1>4. ASSUME NEW e \in Endpoints, SetEnabled(e) \/ Remove(e) PROVE FaultsOnlyGrow
  BY <1>4, EditKeepsInv
<1>5. ASSUME NEW j \in DOMAIN jobs, DeliveryStep(j) PROVE FaultsOnlyGrow
  BY <1>1, <1>5 DEF DeliveryStep, StartDelivery, SkipDelivery, RecordAttempt, Post, RecordAnswer,
                    QueueRetry, CompleteDelivery
<1>6. ASSUME NEW j \in DOMAIN jobs, AnswerTakenForFailure(j) \/ DeliveryThrows(j) \/ CrashDelivery(j)
      PROVE  FaultsOnlyGrow
  <2>1. \E state, step, answer, attempts : HandlerStep(j, state, step, answer, attempts)
    BY <1>6, HandlerActions
  <2> QED
    BY <2>1 DEF HandlerStep
<1>7. ASSUME NEW n \in DOMAIN fanOuts, FanOutFails(n) PROVE FaultsOnlyGrow
  BY <1>7, FanOutFailsKeepsInv
<1>8. CASE UNCHANGED vars
  BY <1>1, <1>8 DEF vars
<1> QED
  BY <1>2, <1>3, <1>4, <1>5, <1>6, <1>7, <1>8 DEF Next

\* No step of an undisturbed worker opens a delivery that is closed.
LEMMA StepCloses ==
    ASSUME WebhookInv, DeliveriesClose, Undisturbed', [Next]_vars
    PROVE  DeliveriesClose'
<1>0. "crash" \notin faults'.kinds /\ "dbError" \notin faults'.kinds
  BY DEF Undisturbed
<1>1. ~Fault("crash") /\ ~Fault("dbError")
  BY <1>0 DEF Fault
<1>2. CASE UNCHANGED << endpoints, jobs, posts >>
  BY <1>2 DEF DeliveriesClose, OneOpen, ClosedAfterFinal, FinalAnswerIsLast, Answered, Status, At
<1>3. CASE PlanDeliveries \/ (\E n \in DOMAIN fanOuts : FanOutFails(n)) \/ UNCHANGED vars
  BY <1>2, <1>3, PlanKeepsInv, FanOutFailsKeepsInv DEF vars
<1>4. ASSUME NEW n \in DOMAIN fanOuts, NEW e \in Endpoints, QueueDelivery(n, e) PROVE DeliveriesClose'
  <2>1. /\ UNCHANGED << endpoints, posts >> /\ NewJob(n, e, 1, "waiting") /\ n \in 1..MaxEvents
        /\ NoJob(n, e) /\ posts[n][e] = << >>
        /\ \A k \in DOMAIN jobs : jobs'[k] = jobs[k]
    BY <1>4, QueueingKeepsInv
  <2>2. ~Answered(n, e, {"ok", "drop"})
    BY <2>1 DEF Answered
  <2>3. \A k \in DOMAIN jobs : ~Delivers(k, n, e)
    BY <2>1 DEF NoJob
  <2> QED
    BY <2>1, <2>2, <2>3, NewJobCloses DEF At
<1>5. ASSUME NEW e \in Endpoints, SetEnabled(e) \/ Remove(e) PROVE DeliveriesClose'
  <2>1. /\ UNCHANGED << jobs, posts >>
        /\ \A f \in Endpoints : endpoints[f] = "deleted" => endpoints'[f] = "deleted"
    BY <1>5, EditKeepsInv
  <2>2. \A k \in DOMAIN jobs : Status(k)' # "deleted" => Status(k) # "deleted"
    BY <2>1, JobsTyped DEF Status, WebhookInv
  <2>3. OneOpen'
    BY <2>1, <2>2 DEF DeliveriesClose, OneOpen
  <2>4. ClosedAfterFinal'
    BY <2>1, <2>2 DEF DeliveriesClose, ClosedAfterFinal, Answered, At
  <2> QED
    BY <2>1, <2>3, <2>4 DEF DeliveriesClose, FinalAnswerIsLast
<1>6. ASSUME NEW j \in DOMAIN jobs, QueueRetry(j) PROVE DeliveriesClose'
  BY <1>6, RetryCloses
<1>7. ASSUME NEW j \in DOMAIN jobs, NEW answer \in Answers, Post(j, answer) PROVE DeliveriesClose'
  BY <1>7, PostCloses
<1>8. ASSUME NEW j \in DOMAIN jobs, StartDelivery(j) PROVE DeliveriesClose'
  <2>1. /\ HandlerStep(j, "active", "read", "none", jobs[j].attempts) /\ UNCHANGED posts
        /\ jobs[j].state \in {"waiting", "delayed"}
    BY <1>8, HandlerActions
  <2>2. Open(jobs[j]) /\ jobs'[j].step = "read"
    BY <2>1 DEF Open, HandlerStep, JobGoes
  <2> QED
    BY <2>1, <2>2, HandlerCloses
<1>9. ASSUME NEW j \in DOMAIN jobs, SkipDelivery(j) \/ CompleteDelivery(j) PROVE DeliveriesClose'
  <2>1. HandlerStep(j, "done", jobs[j].step, jobs[j].answer, jobs[j].attempts) /\ UNCHANGED posts
    BY <1>9, HandlerActions
  <2>2. jobs'[j].state = "done"
    BY <2>1 DEF HandlerStep, JobGoes
  <2>3. ~Open(jobs'[j])
    BY <2>2 DEF Open
  <2> QED
    BY <2>1, <2>2, <2>3, HandlerCloses
<1>10. ASSUME NEW j \in DOMAIN jobs, RecordAttempt(j) PROVE DeliveriesClose'
  <2>1. /\ HandlerStep(j, "active", "recorded", jobs[j].answer, jobs[j].attempts) /\ UNCHANGED posts
        /\ At(j, "read") /\ Status(j) # "deleted"
    BY <1>10, HandlerActions
  <2>2. Open(jobs[j])
    BY <2>1 DEF Open, At
  <2>3. ~Answered(jobs[j].event, jobs[j].endpoint, {"ok", "drop"})
    BY <2>1, <2>2 DEF DeliveriesClose, ClosedAfterFinal
  <2> QED
    BY <2>1, <2>2, <2>3, HandlerCloses
<1>11. ASSUME NEW j \in DOMAIN jobs, RecordAnswer(j) PROVE DeliveriesClose'
  <2>1. /\ HandlerStep(j, "active", "updated", jobs[j].answer, jobs[j].attempts) /\ UNCHANGED posts
        /\ At(j, "answered")
    BY <1>11, HandlerActions
  <2>2. /\ jobs'[j].step = "updated" /\ jobs'[j].state = "active"
        /\ jobs'[j].answer = jobs[j].answer
    BY <2>1 DEF HandlerStep, JobGoes
  <2>3. Open(jobs'[j]) => Open(jobs[j])
    BY <2>1, <2>2 DEF Open, At
  <2> QED
    BY <2>1, <2>2, <2>3, HandlerCloses
<1>12. ASSUME NEW j \in DOMAIN jobs, AnswerTakenForFailure(j) PROVE DeliveriesClose'
  <2>1. /\ HandlerStep(j, "active", "answered", "none", jobs[j].attempts) /\ UNCHANGED posts
        /\ RowFails(j)
    BY <1>12, HandlerActions
  <2>2. Status(j) = "deleted"
    BY <1>1, <2>1 DEF RowFails
  <2>3. jobs'[j].step = "answered"
    BY <2>1 DEF HandlerStep, JobGoes
  <2> QED
    BY <2>1, <2>2, <2>3, HandlerCloses
<1>13. ASSUME NEW j \in DOMAIN jobs, DeliveryThrows(j) PROVE DeliveriesClose'
  <2>1. PICK state \in {"delayed", "failed"} :
           HandlerStep(j, state, jobs[j].step, jobs[j].answer, jobs[j].attempts + 1) /\ UNCHANGED posts
    BY <1>13, HandlerActions
  <2>2. Open(jobs[j])
    BY <1>13 DEF DeliveryThrows, Open, At, WantsRetry
  <2>3. jobs'[j].state # "active"
    BY <2>1 DEF HandlerStep, JobGoes
  <2> QED
    BY <2>1, <2>2, <2>3, HandlerCloses
<1>14. ASSUME NEW j \in DOMAIN jobs, CrashDelivery(j) PROVE FALSE
  BY <1>1, <1>14 DEF CrashDelivery
<1> QED
  BY <1>3, <1>4, <1>5, <1>6, <1>7, <1>8, <1>9, <1>10, <1>11, <1>12, <1>13, <1>14
  DEF Next, DeliveryStep

\* While the worker does not die and can write its rows, whatever is paused, removed
\* or fails to be queued, the answer that ends a delivery is the last request the
\* endpoint sees for the event, although jobs are retried in two ways.
THEOREM WebhookFinalAnswerEnds == Spec => []FinalAnswerEnds
<1>1. Init => FinalInv
  <2> SUFFICES ASSUME Init PROVE DeliveriesClose
    BY DEF FinalInv
  <2>1. jobs = << >> /\ posts = [n \in 1..MaxEvents |-> [e \in Endpoints |-> << >>]]
    BY DEF Init
  <2> QED
    BY <2>1 DEF DeliveriesClose, OneOpen, ClosedAfterFinal, FinalAnswerIsLast
<1>2. WebhookInv /\ FinalInv /\ [Next]_vars => FinalInv'
  <2> SUFFICES ASSUME WebhookInv, FinalInv, [Next]_vars, Undisturbed' PROVE DeliveriesClose'
    BY DEF FinalInv
  <2>1. Undisturbed
    BY StepFaults DEF Undisturbed, FaultsOnlyGrow
  <2> QED
    BY <2>1, StepCloses DEF FinalInv
<1>3. FinalInv => FinalAnswerEnds
  BY DEF FinalInv, DeliveriesClose, FinalAnswerEnds, Undisturbed
<1> QED
  BY <1>1, <1>2, <1>3, WebhookKeepsInv, PTL DEF Spec

-----------------------------------------------------------------------------
(* RepeatsAreFaults: a job owes at most one request until a fault makes it *)
(* owe another.                                                            *)

\* Job j will make a request before it can be done, if nothing else happens.
Owes(j) ==
    \/ At(j, "recorded")
    \/ /\ Status(j) # "deleted"
       /\ jobs[j].state \in {"waiting", "delayed"} \/ At(j, "read")

Spent(n, e) == {j \in DOMAIN jobs : Delivers(j, n, e) /\ ~Owes(j)}

RequestsCounted ==
    \A n \in 1..MaxEvents, e \in Endpoints :
        Len(posts[n][e]) <= Cardinality(Spent(n, e)) + faults.count

\* Sets of jobs are finite, and what was answered can be counted.
LEMMA Countable ==
    ASSUME WebhookInv, NEW n \in 1..MaxEvents, NEW e \in Endpoints
    PROVE  /\ IsFiniteSet(Spent(n, e)) /\ Cardinality(Spent(n, e)) \in Nat
           /\ Len(posts[n][e]) \in Nat /\ faults.count \in Nat
<1>1. /\ jobs \in Seq(JobRecord) /\ MaxFaults \in Nat
      /\ faults \in [count : 0..MaxFaults, kinds : SUBSET FaultKinds]
  BY WebhookAssumption DEF WebhookInv, WebhookTypeOK
<1>2. IsFiniteSet(DOMAIN jobs)
  <2>1. DOMAIN jobs = 1..Len(jobs) /\ Len(jobs) \in Int
    BY <1>1
  <2> QED
    BY <2>1, FS_Interval
<1>3. Spent(n, e) \in SUBSET DOMAIN jobs
  BY DEF Spent
<1>4. Len(posts[n][e]) \in Nat
  <2> DEFINE PostRecord == [attempt : 1..(RetrySteps + 1), answer : Answers]
  <2>1. posts \in [1..MaxEvents -> [Endpoints -> Seq(PostRecord)]]
    BY DEF WebhookInv, WebhookTypeOK
  <2> HIDE DEF PostRecord
  <2>2. posts[n][e] \in Seq(PostRecord)
    BY <2>1
  <2> QED
    BY <2>2
<1>5. faults.count \in Nat
  BY <1>1
<1> QED
  BY <1>2, <1>3, <1>4, <1>5, FS_Subset, FS_CardinalityType

\* The same of the state after a step.
LEMMA CountableAfter ==
    ASSUME WebhookInv', NEW n \in 1..MaxEvents, NEW e \in Endpoints
    PROVE  IsFiniteSet(Spent(n, e)') /\ Cardinality(Spent(n, e)') \in Nat
<1>1. jobs' \in Seq(JobRecord')
  BY DEF WebhookInv, WebhookTypeOK
<1>2. DOMAIN jobs' = 1..Len(jobs') /\ Len(jobs') \in Int
  BY <1>1
<1>3. Spent(n, e)' \in SUBSET DOMAIN jobs'
  BY DEF Spent
<1>4. IsFiniteSet(DOMAIN jobs')
  BY <1>2, FS_Interval
<1>5. IsFiniteSet(Spent(n, e)')
  BY <1>3, <1>4, FS_Subset
<1> QED
  BY <1>5, FS_CardinalityType

\* The jobs that are there stay what they are for.
SameDeliveries ==
    /\ DOMAIN jobs \subseteq DOMAIN jobs'
    /\ \A k \in DOMAIN jobs : jobs'[k].event = jobs[k].event /\ jobs'[k].endpoint = jobs[k].endpoint

\* Without a request and without a job that owes one anew, the count holds.
LEMMA QuietCounts ==
    ASSUME WebhookInv, WebhookInv', RequestsCounted, FaultsOnlyGrow, UNCHANGED posts,
           SameDeliveries, \A k \in DOMAIN jobs : Owes(k)' => Owes(k)
    PROVE  RequestsCounted'
<1> SUFFICES ASSUME NEW n \in 1..MaxEvents, NEW e \in Endpoints
             PROVE  Len(posts[n][e]) <= Cardinality(Spent(n, e)') + faults'.count
  BY DEF RequestsCounted
<1>1. /\ IsFiniteSet(Spent(n, e)') /\ Cardinality(Spent(n, e)') \in Nat
      /\ IsFiniteSet(Spent(n, e)) /\ Cardinality(Spent(n, e)) \in Nat /\ Len(posts[n][e]) \in Nat
  BY Countable, CountableAfter
<1>2. Spent(n, e) \in SUBSET (Spent(n, e)')
  BY DEF Spent, Delivers, SameDeliveries
<1>3. Cardinality(Spent(n, e)) <= Cardinality(Spent(n, e)')
  BY <1>1, <1>2, FS_Subset
<1>4. Len(posts[n][e]) <= Cardinality(Spent(n, e)) + faults.count
  BY DEF RequestsCounted
<1> QED
  BY <1>1, <1>3, <1>4 DEF FaultsOnlyGrow

\* A fault makes one job at most owe a request anew, and pays for it.
LEMMA FaultCounts ==
    ASSUME WebhookInv, WebhookInv', RequestsCounted, faults'.count = faults.count + 1, UNCHANGED posts,
           SameDeliveries, NEW j \in DOMAIN jobs, \A k \in DOMAIN jobs : k # j /\ Owes(k)' => Owes(k)
    PROVE  RequestsCounted'
<1> SUFFICES ASSUME NEW n \in 1..MaxEvents, NEW e \in Endpoints
             PROVE  Len(posts[n][e]) <= Cardinality(Spent(n, e)') + faults'.count
  BY DEF RequestsCounted
<1>1. /\ IsFiniteSet(Spent(n, e)') /\ Cardinality(Spent(n, e)') \in Nat
      /\ IsFiniteSet(Spent(n, e)) /\ Cardinality(Spent(n, e)) \in Nat /\ Len(posts[n][e]) \in Nat
      /\ faults.count \in Nat
  BY Countable, CountableAfter
<1>2. Spent(n, e) \ {j} \in SUBSET (Spent(n, e)')
  BY DEF Spent, Delivers, SameDeliveries
<1>3. Cardinality(Spent(n, e) \ {j}) <= Cardinality(Spent(n, e)')
  BY <1>1, <1>2, FS_Subset
<1>4. Cardinality(Spent(n, e) \ {j}) >= Cardinality(Spent(n, e)) - 1
  <2>1. Cardinality(Spent(n, e) \ {j}) = IF j \in Spent(n, e) THEN Cardinality(Spent(n, e)) - 1
                                                             ELSE Cardinality(Spent(n, e))
    BY <1>1, FS_RemoveElement
  <2> QED
    BY <1>1, <2>1
<1>5. Len(posts[n][e]) <= Cardinality(Spent(n, e)) + faults.count
  BY DEF RequestsCounted
<1>6. Cardinality(Spent(n, e) \ {j}) \in Nat
  BY <1>1, FS_RemoveElement, FS_CardinalityType
<1> QED
  BY <1>1, <1>3, <1>4, <1>5, <1>6

\* A request is the one its job owed.
LEMMA PostCounts ==
    ASSUME WebhookInv, WebhookInv', RequestsCounted, NEW j \in DOMAIN jobs, NEW reply \in Answers,
           Post(j, reply)
    PROVE  RequestsCounted'
<1>1. /\ HandlerStep(j, "active", "answered", reply, jobs[j].attempts)
      /\ At(j, "recorded") /\ UNCHANGED faults
  BY HandlerActions
<1>2. /\ DOMAIN jobs' = DOMAIN jobs /\ SameDeliveries
      /\ jobs'[j].state = "active" /\ jobs'[j].step = "answered"
      /\ \A k \in DOMAIN jobs : k # j => jobs'[k] = jobs[k]
      /\ UNCHANGED endpoints
  BY <1>1 DEF HandlerStep, JobGoes, SameJobs, SameDeliveries
<1>3. Owes(j) /\ ~(Owes(j)') /\ \A k \in DOMAIN jobs : Owes(k)' => Owes(k)
  BY <1>1, <1>2 DEF Owes, At, Status
<1> SUFFICES ASSUME NEW n \in 1..MaxEvents, NEW e \in Endpoints
             PROVE  Len(posts'[n][e]) <= Cardinality(Spent(n, e)') + faults'.count
  BY DEF RequestsCounted
<1>4. /\ IsFiniteSet(Spent(n, e)') /\ Cardinality(Spent(n, e)') \in Nat
      /\ IsFiniteSet(Spent(n, e)) /\ Cardinality(Spent(n, e)) \in Nat /\ Len(posts[n][e]) \in Nat
      /\ faults.count \in Nat
  BY Countable, CountableAfter
<1>5. Len(posts[n][e]) <= Cardinality(Spent(n, e)) + faults.count
  BY DEF RequestsCounted
<1>6. CASE Delivers(j, n, e)
  <2>1. Spent(n, e) \cup {j} \in SUBSET (Spent(n, e)') /\ j \notin Spent(n, e)
    BY <1>2, <1>3, <1>6 DEF Spent, Delivers, SameDeliveries
  <2>2. Cardinality(Spent(n, e)) + 1 <= Cardinality(Spent(n, e)')
    BY <1>4, <2>1, FS_AddElement, FS_Subset
  <2>3. Len(posts'[n][e]) = Len(posts[n][e]) + 1
    <3> DEFINE PostRecord == [attempt : 1..(RetrySteps + 1), answer : Answers]
               post == [attempt |-> jobs[j].attempt, answer |-> reply]
    <3>1. posts'[n][e] = Append(posts[n][e], post)
      BY <1>6, PostAdds DEF Delivers
    <3>2. posts \in [1..MaxEvents -> [Endpoints -> Seq(PostRecord)]]
      BY DEF WebhookInv, WebhookTypeOK
    <3>3. post \in PostRecord
      BY JobsTyped DEF WebhookInv
    <3> HIDE DEF PostRecord, post
    <3>4. posts[n][e] \in Seq(PostRecord)
      BY <3>2
    <3> QED
      BY <3>1, <3>3, <3>4, Appended
  <2> QED
    BY <1>1, <1>4, <1>5, <2>2, <2>3
<1>7. CASE ~Delivers(j, n, e)
  <2>1. posts'[n][e] = posts[n][e]
    BY <1>7, PostAdds DEF PostsAt
  <2>2. Spent(n, e) \in SUBSET (Spent(n, e)')
    BY <1>3, <1>2 DEF Spent, Delivers, SameDeliveries
  <2>3. Cardinality(Spent(n, e)) <= Cardinality(Spent(n, e)')
    BY <1>4, <2>2, FS_Subset
  <2> QED
    BY <1>1, <1>4, <1>5, <2>1, <2>3
<1> QED
  BY <1>6, <1>7

\* Every step keeps the count.
LEMMA StepCounts ==
    ASSUME WebhookInv, RequestsCounted, [Next]_vars
    PROVE  RequestsCounted'
<1>1. WebhookInv' /\ FaultsOnlyGrow
  BY StepKeepsInv, StepFaults
<1>2. CASE UNCHANGED << endpoints, jobs, posts >>
  BY <1>1, <1>2, QuietCounts DEF SameDeliveries, Owes, At, Status
<1>3. CASE PlanDeliveries \/ (\E n \in DOMAIN fanOuts : FanOutFails(n)) \/ UNCHANGED vars
  BY <1>2, <1>3, PlanKeepsInv, FanOutFailsKeepsInv DEF vars
<1>4. ASSUME NEW n \in DOMAIN fanOuts, NEW e \in Endpoints, QueueDelivery(n, e) PROVE RequestsCounted'
  <2>1. /\ UNCHANGED << endpoints, posts >> /\ NewJob(n, e, 1, "waiting")
        /\ \A k \in DOMAIN jobs : jobs'[k] = jobs[k]
    BY <1>4, QueueingKeepsInv
  <2>2. SameDeliveries /\ \A k \in DOMAIN jobs : Owes(k)' => Owes(k)
    BY <2>1 DEF NewJob, SameDeliveries, Owes, At, Status
  <2> QED
    BY <1>1, <2>1, <2>2, QuietCounts
<1>5. ASSUME NEW e \in Endpoints, SetEnabled(e) \/ Remove(e) PROVE RequestsCounted'
  <2>1. /\ UNCHANGED << jobs, posts >>
        /\ \A f \in Endpoints : endpoints[f] = "deleted" => endpoints'[f] = "deleted"
    BY <1>5, EditKeepsInv
  <2>2. \A k \in DOMAIN jobs : Status(k)' # "deleted" => Status(k) # "deleted"
    BY <2>1, JobsTyped DEF Status, WebhookInv
  <2>3. SameDeliveries /\ \A k \in DOMAIN jobs : Owes(k)' => Owes(k)
    BY <2>1, <2>2 DEF SameDeliveries, Owes, At
  <2> QED
    BY <1>1, <2>1, <2>3, QuietCounts
<1>6. ASSUME NEW j \in DOMAIN jobs, QueueRetry(j) PROVE RequestsCounted'
  <2>1. /\ JobGoes(j, "active", "rescheduled", jobs[j].answer, jobs[j].attempts)
        /\ UNCHANGED << endpoints, fanOuts, posts, faults >>
    BY <1>6, RetryQueued
  <2>2. SameDeliveries /\ \A k \in DOMAIN jobs : Owes(k)' => Owes(k)
    BY <2>1 DEF JobGoes, SameDeliveries, Owes, At, Status
  <2> QED
    BY <1>1, <2>1, <2>2, QuietCounts
<1>7. ASSUME NEW j \in DOMAIN jobs, NEW answer \in Answers, Post(j, answer) PROVE RequestsCounted'
  BY <1>1, <1>7, PostCounts
\* What a step of the handler without a request has to show: the job owes nothing anew,
\* or a fault pays for it.
<1>8. ASSUME NEW j \in DOMAIN jobs, NEW state, NEW step, NEW answer, NEW attempts,
             HandlerStep(j, state, step, answer, attempts), UNCHANGED posts,
             (Owes(j)' => Owes(j)) \/ faults'.count = faults.count + 1
      PROVE  RequestsCounted'
  <2>1. SameDeliveries /\ \A k \in DOMAIN jobs : k # j /\ Owes(k)' => Owes(k)
    BY <1>8 DEF HandlerStep, JobGoes, SameDeliveries, Owes, At, Status
  <2>2. CASE Owes(j)' => Owes(j)
    BY <1>1, <1>8, <2>1, <2>2, QuietCounts
  <2>3. CASE faults'.count = faults.count + 1
    BY <1>1, <1>8, <2>1, <2>3, FaultCounts
  <2> QED
    BY <1>8, <2>2, <2>3
<1>9. ASSUME NEW j \in DOMAIN jobs, StartDelivery(j) PROVE RequestsCounted'
  <2>1. /\ HandlerStep(j, "active", "read", "none", jobs[j].attempts) /\ UNCHANGED posts
        /\ jobs[j].state \in {"waiting", "delayed"} /\ Status(j) = "enabled"
    BY <1>9, HandlerActions
  <2>2. Owes(j)
    BY <2>1 DEF Owes
  <2> QED
    BY <1>8, <2>1, <2>2
<1>10. ASSUME NEW j \in DOMAIN jobs, SkipDelivery(j) \/ CompleteDelivery(j) PROVE RequestsCounted'
  <2>1. HandlerStep(j, "done", jobs[j].step, jobs[j].answer, jobs[j].attempts) /\ UNCHANGED posts
    BY <1>10, HandlerActions
  <2>2. ~(Owes(j)')
    BY <2>1 DEF Owes, At, HandlerStep, JobGoes
  <2> QED
    BY <1>8, <2>1, <2>2
<1>11. ASSUME NEW j \in DOMAIN jobs, RecordAttempt(j) PROVE RequestsCounted'
  <2>1. /\ HandlerStep(j, "active", "recorded", jobs[j].answer, jobs[j].attempts) /\ UNCHANGED posts
        /\ At(j, "read") /\ Status(j) # "deleted"
    BY <1>11, HandlerActions
  <2>2. Owes(j)
    BY <2>1 DEF Owes
  <2> QED
    BY <1>8, <2>1, <2>2
<1>12. ASSUME NEW j \in DOMAIN jobs, RecordAnswer(j) \/ AnswerTakenForFailure(j) PROVE RequestsCounted'
  <2>1. PICK step \in {"answered", "updated"} : \E answer :
           HandlerStep(j, "active", step, answer, jobs[j].attempts) /\ UNCHANGED posts
    BY <1>12, HandlerActions
  <2>2. ~(Owes(j)')
    BY <2>1 DEF Owes, At, HandlerStep, JobGoes
  <2> QED
    BY <1>8, <2>1, <2>2
<1>13. ASSUME NEW j \in DOMAIN jobs, DeliveryThrows(j) PROVE RequestsCounted'
  <2>1. PICK state \in {"delayed", "failed"} :
           HandlerStep(j, state, jobs[j].step, jobs[j].answer, jobs[j].attempts + 1) /\ UNCHANGED posts
    BY <1>13, HandlerActions
  <2>2. CASE faults'.count = faults.count + 1
    BY <1>8, <2>1, <2>2
  <2>3. CASE Status(j) = "deleted"
    <3>1. ~(Owes(j)')
      BY <2>1, <2>3 DEF Owes, At, Status, HandlerStep, JobGoes
    <3> QED
      BY <1>8, <2>1, <3>1
  <2>4. faults'.count = faults.count + 1 \/ Status(j) = "deleted"
    BY <1>13 DEF DeliveryThrows, RowFails, Fault
  <2> QED
    BY <2>2, <2>3, <2>4
<1>14. ASSUME NEW j \in DOMAIN jobs, CrashDelivery(j) PROVE RequestsCounted'
  <2>1. HandlerStep(j, "waiting", jobs[j].step, jobs[j].answer, jobs[j].attempts) /\ UNCHANGED posts
    BY <1>14, HandlerActions
  <2>2. faults'.count = faults.count + 1
    BY <1>14 DEF CrashDelivery, Fault
  <2> QED
    BY <1>8, <2>1, <2>2
<1> QED
  BY <1>3, <1>4, <1>5, <1>6, <1>7, <1>9, <1>10, <1>11, <1>12, <1>13, <1>14 DEF Next, DeliveryStep

\* The jobs of a delivery have different attempt numbers, so there are not more of
\* them than the schedule has attempts.
LEMMA AttemptsBound ==
    ASSUME WebhookInv, NEW n \in 1..MaxEvents, NEW e \in Endpoints
    PROVE  Cardinality(Spent(n, e)) <= RetrySteps + 1
<1> DEFINE attempt == [j \in Spent(n, e) |-> jobs[j].attempt]
           Attempts == 1..(RetrySteps + 1)
<1>1. \A j \in Spent(n, e) : jobs[j].attempt \in Attempts
  BY JobsTyped DEF Spent, WebhookInv
<1>2. \A j, k \in Spent(n, e) : jobs[j].attempt = jobs[k].attempt => j = k
  BY DEF Spent, Delivers, WebhookInv, IdsUnique
<1>3. attempt \in Injection(Spent(n, e), Attempts)
  BY <1>1, <1>2 DEF Injection, IsInjective
<1>4. IsFiniteSet(Attempts) /\ Cardinality(Attempts) = RetrySteps + 1
  BY FS_Interval, WebhookAssumption
<1> QED
  BY <1>3, <1>4, FS_Injection

\* However often the worker dies, cannot write its rows or cannot queue, an endpoint
\* sees no more requests for an event than the schedule has attempts and faults
\* happened: the queue's retries do not multiply with the schedule's.
THEOREM WebhookRepeatsAreFaults == Spec => []RepeatsAreFaults
<1>1. Init => RequestsCounted
  <2> SUFFICES ASSUME Init, NEW n \in 1..MaxEvents, NEW e \in Endpoints
               PROVE  Len(posts[n][e]) <= Cardinality(Spent(n, e)) + faults.count
    BY DEF RequestsCounted
  <2>1. posts[n][e] = << >> /\ jobs = << >> /\ faults.count = 0
    BY DEF Init
  <2>2. Spent(n, e) = {}
    BY <2>1 DEF Spent
  <2> QED
    BY <2>1, <2>2, FS_EmptySet
<1>2. WebhookInv /\ RequestsCounted /\ [Next]_vars => RequestsCounted'
  BY StepCounts
<1>3. WebhookInv /\ RequestsCounted => RepeatsAreFaults
  <2> SUFFICES ASSUME WebhookInv, RequestsCounted, NEW n \in 1..MaxEvents, NEW e \in Endpoints
               PROVE  Len(posts[n][e]) <= RetrySteps + 1 + faults.count
    BY DEF RepeatsAreFaults
  <2>1. Len(posts[n][e]) <= Cardinality(Spent(n, e)) + faults.count
    BY DEF RequestsCounted
  <2> QED
    BY <2>1, AttemptsBound, Countable, WebhookAssumption
<1> QED
  BY <1>1, <1>2, <1>3, WebhookKeepsInv, PTL DEF Spec

-----------------------------------------------------------------------------
(* ScheduleIsUsedUp: the attempts of a delivery are made one after the     *)
(* other, and the job of the highest one carries the delivery on.          *)

Posted(n, e, a) == \E i \in DOMAIN posts[n][e] : posts[n][e][i].attempt = a

Final(n, e) == Answered(n, e, {"ok", "drop"})

\* Every attempt before a job's has its job, and has made a request; the job itself
\* has once it has an answer, and has queued the next attempt once it says so.
JobInOrder(j) ==
    /\ \A b \in 1..(jobs[j].attempt - 1) :
           HasJob(jobs[j].event, jobs[j].endpoint, b) /\ Posted(jobs[j].event, jobs[j].endpoint, b)
    /\ (jobs[j].state = "active" /\ jobs[j].step \in {"answered", "updated", "rescheduled"}
           => Posted(jobs[j].event, jobs[j].endpoint, jobs[j].attempt))
    /\ (jobs[j].state = "active" /\ jobs[j].step \in {"answered", "updated"}
           /\ jobs[j].answer \in {"ok", "drop"}
           => Final(jobs[j].event, jobs[j].endpoint))
    /\ (jobs[j].state = "active" /\ jobs[j].step = "rescheduled"
           => HasJob(jobs[j].event, jobs[j].endpoint, jobs[j].attempt + 1))

AttemptsInOrder == \A j \in DOMAIN jobs : JobInOrder(j)

\* A job that is over leaves its delivery over, or to the next attempt's job.
Carries(n, e, a) ==
    Final(n, e) \/ HasJob(n, e, a + 1) \/ (a = RetrySteps + 1 /\ Posted(n, e, a))

Carried ==
    \A j \in DOMAIN jobs :
        jobs[j].state \in {"done", "failed"} =>
            Carries(jobs[j].event, jobs[j].endpoint, jobs[j].attempt)

\* Every attempt of the queue that was used up, was used up by a fault.
FaultsPaid == \A j \in DOMAIN jobs : jobs[j].attempts <= faults.count /\ jobs[j].state # "failed"

NobodyEdits == "edit" \notin faults.kinds

CarriedOn == (\A e \in Endpoints : endpoints[e] = "enabled") /\ Carried /\ FaultsPaid

FirstQueued ==
    \A n \in DOMAIN fanOuts : \A e \in fanOuts[n].planned \ fanOuts[n].todo :
        HasJob(n, e, 1) \/ "queueError" \in faults.kinds

ScheduleInv ==
    /\ AttemptsInOrder /\ FirstQueued
    /\ NobodyEdits => CarriedOn

-----------------------------------------------------------------------------
(* What has been queued, requested and answered stays so.                  *)

SameIds ==
    /\ DOMAIN jobs \subseteq DOMAIN jobs'
    /\ \A k \in DOMAIN jobs : /\ jobs'[k].event = jobs[k].event
                             /\ jobs'[k].endpoint = jobs[k].endpoint
                             /\ jobs'[k].attempt = jobs[k].attempt

HistoryGrows ==
    \A n \in 1..MaxEvents, e \in Endpoints :
        /\ Final(n, e) => Final(n, e)'
        /\ \A a : (HasJob(n, e, a) => HasJob(n, e, a)') /\ (Posted(n, e, a) => Posted(n, e, a)')

\* Every step leaves identities and history as they were, or longer.
LEMMA StepGrows ==
    ASSUME WebhookInv, [Next]_vars PROVE SameIds /\ HistoryGrows
<1>1. SameIds /\ UNCHANGED posts => HistoryGrows
  BY DEF SameIds, HistoryGrows, Final, Answered, HasJob, Posted
<1>2. CASE UNCHANGED << jobs, posts >>
  BY <1>1, <1>2 DEF SameIds
<1>3. CASE PlanDeliveries \/ (\E n \in DOMAIN fanOuts : FanOutFails(n)) \/ UNCHANGED vars
           \/ (\E e \in Endpoints : SetEnabled(e) \/ Remove(e))
  BY <1>2, <1>3 DEF PlanDeliveries, FanOutFails, SetEnabled, Remove, vars
<1>4. ASSUME NEW n \in DOMAIN fanOuts, NEW e \in Endpoints, QueueDelivery(n, e)
      PROVE  SameIds /\ HistoryGrows
  <2>1. UNCHANGED posts /\ NewJob(n, e, 1, "waiting") /\ \A k \in DOMAIN jobs : jobs'[k] = jobs[k]
    BY <1>4, QueueingKeepsInv
  <2> QED
    BY <1>1, <2>1 DEF NewJob, SameIds
<1>5. ASSUME NEW j \in DOMAIN jobs, QueueRetry(j) PROVE SameIds /\ HistoryGrows
  <2>1. JobGoes(j, "active", "rescheduled", jobs[j].answer, jobs[j].attempts) /\ UNCHANGED posts
    BY <1>5, RetryQueued
  <2> QED
    BY <1>1, <2>1 DEF JobGoes, SameIds
<1>6. ASSUME NEW j \in DOMAIN jobs, NEW reply \in Answers, Post(j, reply) PROVE SameIds /\ HistoryGrows
  <2>1. SameIds
    <3>1. HandlerStep(j, "active", "answered", reply, jobs[j].attempts)
      BY <1>6, HandlerActions
    <3> QED
      BY <3>1 DEF HandlerStep, JobGoes, SameJobs, SameIds
  <2> SUFFICES ASSUME NEW n \in 1..MaxEvents, NEW e \in Endpoints
               PROVE  /\ Final(n, e) => Final(n, e)'
                      /\ \A a : Posted(n, e, a) => Posted(n, e, a)'
    BY <2>1 DEF SameIds, HistoryGrows, HasJob
  <2>2. DOMAIN posts[n][e] \subseteq DOMAIN posts'[n][e]
        /\ \A i \in DOMAIN posts[n][e] : posts'[n][e][i] = posts[n][e][i]
    <3>1. CASE ~Delivers(j, n, e)
      <4>1. posts'[n][e] = posts[n][e]
        BY <1>6, <3>1, PostAdds DEF PostsAt
      <4> QED
        BY <4>1
    <3>2. CASE Delivers(j, n, e)
      <4> DEFINE PostRecord == [attempt : 1..(RetrySteps + 1), answer : Answers]
                 post == [attempt |-> jobs[j].attempt, answer |-> reply]
      <4>1. posts'[n][e] = Append(posts[n][e], post)
        BY <1>6, <3>2, PostAdds DEF Delivers
      <4>2. posts \in [1..MaxEvents -> [Endpoints -> Seq(PostRecord)]]
        BY DEF WebhookInv, WebhookTypeOK
      <4>3. post \in PostRecord
        BY JobsTyped DEF WebhookInv
      <4> HIDE DEF PostRecord, post
      <4>4. posts[n][e] \in Seq(PostRecord)
        BY <4>2
      <4> QED
        BY <4>1, <4>3, <4>4, Appended
    <3> QED
      BY <3>1, <3>2
  <2> QED
    BY <2>2 DEF Final, Answered, Posted
<1>7. ASSUME NEW j \in DOMAIN jobs, NEW state, NEW step, NEW answer, NEW attempts,
             HandlerStep(j, state, step, answer, attempts), UNCHANGED posts
      PROVE  SameIds /\ HistoryGrows
  BY <1>1, <1>7 DEF HandlerStep, JobGoes, SameJobs, SameIds
<1>8. ASSUME NEW j \in DOMAIN jobs,
             \/ StartDelivery(j) \/ SkipDelivery(j) \/ RecordAttempt(j) \/ RecordAnswer(j)
             \/ CompleteDelivery(j) \/ AnswerTakenForFailure(j) \/ DeliveryThrows(j) \/ CrashDelivery(j)
      PROVE  SameIds /\ HistoryGrows
  <2>1. UNCHANGED posts /\ \E state, step, answer, attempts : HandlerStep(j, state, step, answer, attempts)
    BY <1>8, HandlerActions
  <2> QED
    BY <1>7, <2>1
<1> QED
  BY <1>3, <1>4, <1>5, <1>6, <1>8 DEF Next, DeliveryStep

-----------------------------------------------------------------------------
(* What a step of the handler has to show of its own job.                  *)

\* The job's own clauses, after the step; those about earlier attempts only grow.
LEMMA MovedInOrder ==
    ASSUME WebhookInv, SameIds, HistoryGrows, NEW k \in DOMAIN jobs, JobInOrder(k),
           NEW n, NEW e, NEW a, n = jobs[k].event, e = jobs[k].endpoint, a = jobs[k].attempt,
           (jobs'[k].state = "active" /\ jobs'[k].step \in {"answered", "updated", "rescheduled"}
               => Posted(n, e, a)'),
           (jobs'[k].state = "active" /\ jobs'[k].step \in {"answered", "updated"}
               /\ jobs'[k].answer \in {"ok", "drop"} => Final(n, e)'),
           (jobs'[k].state = "active" /\ jobs'[k].step = "rescheduled" => HasJob(n, e, a + 1)')
    PROVE  JobInOrder(k)'
<1>1. n \in 1..MaxEvents /\ e \in Endpoints
  BY JobsTyped DEF WebhookInv
<1>2. jobs'[k].event = n /\ jobs'[k].endpoint = e /\ jobs'[k].attempt = a
  BY DEF SameIds
<1>3. \A b \in 1..(a - 1) : HasJob(n, e, b)' /\ Posted(n, e, b)'
  BY <1>1 DEF JobInOrder, HistoryGrows
<1> QED
  BY <1>2, <1>3 DEF JobInOrder

\* A job that a step leaves alone stays in order.
LEMMA KeptInOrder ==
    ASSUME WebhookInv, SameIds, HistoryGrows, NEW k \in DOMAIN jobs, JobInOrder(k), jobs'[k] = jobs[k]
    PROVE  JobInOrder(k)'
<1>1. PICK n \in 1..MaxEvents, e \in Endpoints, a \in Nat :
            n = jobs[k].event /\ e = jobs[k].endpoint /\ a = jobs[k].attempt
  BY JobsTyped DEF WebhookInv
<1>2. /\ jobs[k].state = "active" /\ jobs[k].step \in {"answered", "updated", "rescheduled"}
            => Posted(n, e, a)
      /\ jobs[k].state = "active" /\ jobs[k].step \in {"answered", "updated"}
            /\ jobs[k].answer \in {"ok", "drop"} => Final(n, e)
      /\ jobs[k].state = "active" /\ jobs[k].step = "rescheduled" => HasJob(n, e, a + 1)
  BY <1>1 DEF JobInOrder
<1>3. /\ Posted(n, e, a) => Posted(n, e, a)'
      /\ Final(n, e) => Final(n, e)'
      /\ HasJob(n, e, a + 1) => HasJob(n, e, a + 1)'
  BY DEF HistoryGrows
<1> QED
  BY <1>1, <1>2, <1>3, MovedInOrder

\* A step of the handler keeps all jobs in order when its own job is.
LEMMA HandlerInOrder ==
    ASSUME WebhookInv, SameIds, HistoryGrows, AttemptsInOrder, NEW j \in DOMAIN jobs,
           NEW n, NEW e, NEW a, n = jobs[j].event, e = jobs[j].endpoint, a = jobs[j].attempt,
           NEW state, NEW step, NEW answer, NEW attempts,
           HandlerStep(j, state, step, answer, attempts),
           (state = "active" /\ step \in {"answered", "updated", "rescheduled"} => Posted(n, e, a)'),
           (state = "active" /\ step \in {"answered", "updated"} /\ answer \in {"ok", "drop"}
               => Final(n, e)'),
           state = "active" => step # "rescheduled"
    PROVE  AttemptsInOrder'
<1>1. /\ DOMAIN jobs' = DOMAIN jobs
      /\ jobs'[j].state = state /\ jobs'[j].step = step /\ jobs'[j].answer = answer
      /\ \A k \in DOMAIN jobs : k # j => jobs'[k] = jobs[k]
  BY DEF HandlerStep, JobGoes, SameJobs
<1>2. ASSUME NEW k \in DOMAIN jobs, k # j PROVE JobInOrder(k)'
  BY <1>1, <1>2, KeptInOrder DEF AttemptsInOrder
<1>3. JobInOrder(j)'
  BY <1>1, MovedInOrder DEF AttemptsInOrder
<1> QED
  BY <1>1, <1>2, <1>3 DEF AttemptsInOrder

\* Deliveries are carried on by the jobs that are left, when the step's own job is.
LEMMA HandlerCarriesOn ==
    ASSUME WebhookInv, SameIds, HistoryGrows, CarriedOn, NEW j \in DOMAIN jobs,
           NEW n, NEW e, NEW a, n = jobs[j].event, e = jobs[j].endpoint, a = jobs[j].attempt,
           NEW state, NEW step, NEW answer, NEW attempts,
           HandlerStep(j, state, step, answer, attempts),
           state \in {"done", "failed"} => Carries(n, e, a)', state # "failed", attempts <= faults'.count
    PROVE  CarriedOn'
<1>1. /\ DOMAIN jobs' = DOMAIN jobs
      /\ jobs'[j].state = state /\ jobs'[j].attempts = attempts
      /\ \A k \in DOMAIN jobs : k # j => jobs'[k] = jobs[k]
      /\ UNCHANGED endpoints
  BY DEF HandlerStep, JobGoes, SameJobs
<1>2. ASSUME NEW k \in DOMAIN jobs, jobs'[k].state \in {"done", "failed"}
      PROVE  Carries(jobs[k].event, jobs[k].endpoint, jobs[k].attempt)'
  <2>1. PICK m \in 1..MaxEvents, f \in Endpoints, b \in Nat :
              m = jobs[k].event /\ f = jobs[k].endpoint /\ b = jobs[k].attempt
    BY JobsTyped DEF WebhookInv
  <2>2. m = jobs'[k].event /\ f = jobs'[k].endpoint /\ b = jobs'[k].attempt
    BY <2>1 DEF SameIds
  <2>3. Carries(m, f, b) => Carries(m, f, b)'
    BY DEF Carries, HistoryGrows
  <2>4. CASE k = j
    BY <1>1, <1>2, <2>1, <2>2, <2>4
  <2>5. CASE k # j
    BY <1>1, <1>2, <2>1, <2>2, <2>3, <2>5 DEF CarriedOn, Carried
  <2> QED
    BY <2>4, <2>5
<1>3. Carried'
  BY <1>1, <1>2 DEF Carried
<1>4. FaultsPaid'
  <2> SUFFICES ASSUME NEW k \in DOMAIN jobs
               PROVE  jobs'[k].attempts <= faults'.count /\ jobs'[k].state # "failed"
    BY <1>1 DEF FaultsPaid
  <2>1. faults.count \in Nat /\ faults'.count \in Nat /\ faults.count <= faults'.count
        /\ jobs[k].attempts \in Nat
    BY JobsTyped DEF HandlerStep, FaultsOnlyGrow, WebhookInv
  <2> QED
    BY <1>1, <2>1 DEF CarriedOn, FaultsPaid
<1> QED
  BY <1>1, <1>3, <1>4 DEF CarriedOn

\* Attempts stay in order.
LEMMA StepInOrder ==
    ASSUME WebhookInv, AttemptsInOrder, [Next]_vars
    PROVE  AttemptsInOrder'
<1>1. SameIds /\ HistoryGrows
  BY StepGrows
<1>2. CASE UNCHANGED jobs
  BY <1>1, <1>2, KeptInOrder DEF AttemptsInOrder
<1>3. CASE PlanDeliveries \/ (\E n \in DOMAIN fanOuts : FanOutFails(n)) \/ UNCHANGED vars
           \/ (\E e \in Endpoints : SetEnabled(e) \/ Remove(e))
  BY <1>2, <1>3 DEF PlanDeliveries, FanOutFails, SetEnabled, Remove, vars
<1>4. ASSUME NEW n \in DOMAIN fanOuts, NEW e \in Endpoints, QueueDelivery(n, e) PROVE AttemptsInOrder'
  <2>1. NewJob(n, e, 1, "waiting") /\ \A k \in DOMAIN jobs : jobs'[k] = jobs[k]
    BY <1>4, QueueingKeepsInv
  <2>2. \A k \in DOMAIN jobs : JobInOrder(k)'
    BY <1>1, <2>1, KeptInOrder DEF AttemptsInOrder
  <2>3. ASSUME NEW k, k = Len(jobs) + 1 PROVE JobInOrder(k)'
    BY <2>1, <2>3 DEF NewJob, Job, JobInOrder
  <2> QED
    BY <2>1, <2>2, <2>3 DEF NewJob, AttemptsInOrder
<1>5. ASSUME NEW j \in DOMAIN jobs,
             NEW n \in 1..MaxEvents, NEW e \in Endpoints, NEW a \in 1..(RetrySteps + 1),
             n = jobs[j].event, e = jobs[j].endpoint, a = jobs[j].attempt, QueueRetry(j)
      PROVE  AttemptsInOrder'
  <2>1. /\ JobGoes(j, "active", "rescheduled", jobs[j].answer, jobs[j].attempts)
        /\ At(j, "updated") /\ UNCHANGED posts
        /\ \/ HasJob(n, e, a + 1) /\ SameJobs
           \/ NewJob(n, e, a + 1, "delayed")
    BY <1>5, RetryQueued
  <2>2. JobInOrder(j) /\ Posted(n, e, a)'
    BY <1>1, <1>5, <2>1 DEF AttemptsInOrder, JobInOrder, At, HistoryGrows
  <2>3. HasJob(n, e, a + 1)'
    <3>1. CASE HasJob(n, e, a + 1)
      BY <1>1, <3>1 DEF HistoryGrows
    <3>2. CASE NewJob(n, e, a + 1, "delayed")
      BY <3>2 DEF NewJob, HasJob, Job
    <3> QED
      BY <2>1, <3>1, <3>2
  <2>4. JobInOrder(j)'
    BY <1>1, <1>5, <2>1, <2>2, <2>3, MovedInOrder DEF JobGoes
  <2>5. \A k \in DOMAIN jobs : JobInOrder(k)'
    BY <1>1, <2>1, <2>4, KeptInOrder DEF JobGoes, AttemptsInOrder
  <2>6. CASE SameJobs
    BY <2>5, <2>6 DEF SameJobs, AttemptsInOrder
  <2>7. CASE NewJob(n, e, a + 1, "delayed")
    <3>1. ASSUME NEW k, k = Len(jobs) + 1 PROVE JobInOrder(k)'
      <4>1. /\ jobs'[k].event = n /\ jobs'[k].endpoint = e /\ jobs'[k].attempt = a + 1
            /\ jobs'[k].state = "delayed"
        BY <2>7, <3>1 DEF NewJob, Job
      <4>2. \A b \in 1..(a - 1) : HasJob(n, e, b)' /\ Posted(n, e, b)'
        BY <1>1, <1>5, <2>2 DEF JobInOrder, HistoryGrows
      <4>3. HasJob(n, e, a)'
        BY <1>1, <1>5 DEF HasJob, SameIds
      <4>4. \A b \in 1..((a + 1) - 1) : b \in 1..(a - 1) \/ b = a
        OBVIOUS
      <4>5. \A b \in 1..((a + 1) - 1) : HasJob(n, e, b)' /\ Posted(n, e, b)'
        BY <2>2, <4>2, <4>3, <4>4
      <4> QED
        BY <4>1, <4>5 DEF JobInOrder
    <3> QED
      BY <2>5, <2>7, <3>1 DEF NewJob, AttemptsInOrder
  <2> QED
    BY <2>1, <2>6, <2>7
<1>6. ASSUME NEW j \in DOMAIN jobs,
             NEW n \in 1..MaxEvents, NEW e \in Endpoints, NEW a \in 1..(RetrySteps + 1),
             n = jobs[j].event, e = jobs[j].endpoint, a = jobs[j].attempt,
             NEW reply \in Answers, Post(j, reply)
      PROVE  AttemptsInOrder'
  <2>1. HandlerStep(j, "active", "answered", reply, jobs[j].attempts)
    BY <1>6, HandlerActions
  <2>2. Posted(n, e, a)' /\ (reply \in {"ok", "drop"} => Final(n, e)')
    <3> DEFINE PostRecord == [attempt : 1..(RetrySteps + 1), answer : Answers]
               post == [attempt |-> a, answer |-> reply]
    <3>1. posts'[n][e] = Append(posts[n][e], post)
      BY <1>6, PostAdds
    <3>2. posts \in [1..MaxEvents -> [Endpoints -> Seq(PostRecord)]]
      BY DEF WebhookInv, WebhookTypeOK
    <3>3. post \in PostRecord /\ post.attempt = a /\ post.answer = reply
      OBVIOUS
    <3> HIDE DEF PostRecord, post
    <3>4. posts[n][e] \in Seq(PostRecord)
      BY <3>2
    <3>5. PICK i \in DOMAIN posts'[n][e] : posts'[n][e][i] = post
      BY <3>1, <3>3, <3>4, Appended
    <3> QED
      BY <3>3, <3>5 DEF Posted, Final, Answered
  <2> QED
    BY <1>1, <1>6, <2>1, <2>2, HandlerInOrder
\* The other steps of the handler leave what was posted alone.
<1>7. ASSUME NEW j \in DOMAIN jobs,
             NEW n \in 1..MaxEvents, NEW e \in Endpoints, NEW a \in 1..(RetrySteps + 1),
             n = jobs[j].event, e = jobs[j].endpoint, a = jobs[j].attempt,
             NEW state, NEW step, NEW answer, NEW attempts,
             HandlerStep(j, state, step, answer, attempts),
             state = "active" => \/ step \in {"read", "recorded"}
                                 \/ At(j, "answered") /\ step \in {"answered", "updated"}
                                       /\ answer \in {jobs[j].answer, "none"}
      PROVE  AttemptsInOrder'
  <2>1. JobInOrder(j)
    BY DEF AttemptsInOrder
  <2>2. CASE ~(state = "active" /\ step \in {"answered", "updated", "rescheduled"})
    BY <1>1, <1>7, <2>2, HandlerInOrder
  <2>3. CASE state = "active" /\ step \in {"answered", "updated", "rescheduled"}
    <3>1. At(j, "answered") /\ step \in {"answered", "updated"} /\ answer \in {jobs[j].answer, "none"}
      BY <1>7, <2>3
    <3>2. Posted(n, e, a)'
      BY <1>1, <1>7, <2>1, <3>1 DEF JobInOrder, At, HistoryGrows
    <3>3. answer \in {"ok", "drop"} => Final(n, e)'
      BY <1>1, <1>7, <2>1, <3>1 DEF JobInOrder, At, HistoryGrows
    <3> QED
      BY <1>1, <1>7, <3>1, <3>2, <3>3, HandlerInOrder
  <2> QED
    BY <2>2, <2>3
<1>8. ASSUME NEW j \in DOMAIN jobs,
             \/ StartDelivery(j) \/ SkipDelivery(j) \/ RecordAttempt(j) \/ RecordAnswer(j)
             \/ CompleteDelivery(j) \/ AnswerTakenForFailure(j) \/ DeliveryThrows(j) \/ CrashDelivery(j)
      PROVE  \E state, step, answer, attempts :
                /\ HandlerStep(j, state, step, answer, attempts)
                /\ state = "active" => \/ step \in {"read", "recorded"}
                                       \/ At(j, "answered") /\ step \in {"answered", "updated"}
                                             /\ answer \in {jobs[j].answer, "none"}
  <2>1. CASE StartDelivery(j)
    BY <2>1, HandlerActions
  <2>2. CASE RecordAttempt(j)
    BY <2>2, HandlerActions
  <2>3. CASE RecordAnswer(j)
    BY <2>3, HandlerActions
  <2>4. CASE AnswerTakenForFailure(j)
    BY <2>4, HandlerActions
  <2>5. CASE SkipDelivery(j) \/ CompleteDelivery(j)
    BY <2>5, HandlerActions
  <2>6. CASE DeliveryThrows(j)
    BY <2>6, HandlerActions
  <2>7. CASE CrashDelivery(j)
    BY <2>7, HandlerActions
  <2> QED
    BY <1>8, <2>1, <2>2, <2>3, <2>4, <2>5, <2>6, <2>7
<1>9. \A j \in DOMAIN jobs : \E n \in 1..MaxEvents, e \in Endpoints, a \in 1..(RetrySteps + 1) :
         n = jobs[j].event /\ e = jobs[j].endpoint /\ a = jobs[j].attempt
  BY JobsTyped DEF WebhookInv
<1>10. ASSUME NEW j \in DOMAIN jobs, DeliveryStep(j) \/ AnswerTakenForFailure(j) \/ DeliveryThrows(j)
                                      \/ CrashDelivery(j)
       PROVE  AttemptsInOrder'
  <2>1. PICK n \in 1..MaxEvents, e \in Endpoints, a \in 1..(RetrySteps + 1) :
           n = jobs[j].event /\ e = jobs[j].endpoint /\ a = jobs[j].attempt
    BY <1>9
  <2>2. CASE QueueRetry(j) \/ \E reply \in Answers : Post(j, reply)
    BY <1>5, <1>6, <2>1, <2>2
  <2>3. CASE \/ StartDelivery(j) \/ SkipDelivery(j) \/ RecordAttempt(j) \/ RecordAnswer(j)
             \/ CompleteDelivery(j) \/ AnswerTakenForFailure(j) \/ DeliveryThrows(j) \/ CrashDelivery(j)
    BY <1>7, <1>8, <2>1, <2>3
  <2> QED
    BY <1>10, <2>2, <2>3 DEF DeliveryStep
<1> QED
  BY <1>3, <1>4, <1>10 DEF Next

\* Where nobody edits an endpoint and attempts are never used up, deliveries are
\* carried on.
LEMMA StepCarriesOn ==
    ASSUME MaxFaults < MaxAttempts, WebhookInv, AttemptsInOrder, CarriedOn, NobodyEdits', [Next]_vars
    PROVE  CarriedOn'
<1>1. /\ SameIds /\ HistoryGrows /\ FaultsOnlyGrow
      /\ faults.count \in Nat /\ faults'.count <= MaxFaults /\ MaxFaults \in Nat
      /\ \A j \in DOMAIN jobs : jobs[j].attempts \in Nat /\ jobs[j].attempts <= faults.count
      /\ MaxAttempts \in Nat
  BY StepGrows, StepFaults, JobsTyped, WebhookAssumption, JobQueueAssumption
  DEF FaultsOnlyGrow, CarriedOn, FaultsPaid, WebhookInv
<1>2. \A j \in DOMAIN jobs : \E n \in 1..MaxEvents, e \in Endpoints, a \in 1..(RetrySteps + 1) :
         n = jobs[j].event /\ e = jobs[j].endpoint /\ a = jobs[j].attempt
  BY JobsTyped DEF WebhookInv
\* Jobs that are left alone, or come new.
<1>3. ASSUME UNCHANGED endpoints, \A k \in DOMAIN jobs : jobs'[k].state = jobs[k].state
                                                       /\ jobs'[k].attempts = jobs[k].attempts,
             \A k \in DOMAIN jobs' : k \notin DOMAIN jobs =>
                jobs'[k].state \in {"waiting", "delayed"} /\ jobs'[k].attempts = 0
      PROVE  CarriedOn'
  <2>1. ASSUME NEW k \in DOMAIN jobs', jobs'[k].state \in {"done", "failed"}
        PROVE  Carries(jobs[k].event, jobs[k].endpoint, jobs[k].attempt)'
    <3>1. k \in DOMAIN jobs /\ jobs[k].state \in {"done", "failed"}
      BY <1>3, <2>1
    <3>2. PICK n \in 1..MaxEvents, f \in Endpoints, a \in 1..(RetrySteps + 1) :
             n = jobs[k].event /\ f = jobs[k].endpoint /\ a = jobs[k].attempt
      BY <1>2, <3>1
    <3>3. Carries(n, f, a)'
      BY <1>1, <3>1, <3>2 DEF CarriedOn, Carried, Carries, HistoryGrows
    <3> QED
      BY <1>1, <3>1, <3>2, <3>3 DEF SameIds
  <2>2. Carried'
    BY <2>1 DEF Carried
  <2>3. FaultsPaid'
    BY <1>1, <1>3 DEF FaultsPaid, FaultsOnlyGrow, CarriedOn
  <2> QED
    BY <1>3, <2>2, <2>3 DEF CarriedOn
<1>4. CASE PlanDeliveries \/ (\E n \in DOMAIN fanOuts : FanOutFails(n)) \/ UNCHANGED vars
  <2>1. UNCHANGED << endpoints, jobs >>
    BY <1>4 DEF PlanDeliveries, FanOutFails, vars
  <2> QED
    BY <1>3, <2>1
<1>5. ASSUME NEW n \in DOMAIN fanOuts, NEW e \in Endpoints, QueueDelivery(n, e) PROVE CarriedOn'
  <2>1. UNCHANGED endpoints /\ NewJob(n, e, 1, "waiting") /\ \A k \in DOMAIN jobs : jobs'[k] = jobs[k]
    BY <1>5, QueueingKeepsInv
  <2> QED
    BY <1>3, <2>1 DEF NewJob, Job
<1>6. ASSUME NEW e \in Endpoints, SetEnabled(e) \/ Remove(e) PROVE FALSE
  BY <1>6, EditKeepsInv DEF NobodyEdits
<1>7. ASSUME NEW j \in DOMAIN jobs, QueueRetry(j) PROVE CarriedOn'
  <2>1. /\ JobGoes(j, "active", "rescheduled", jobs[j].answer, jobs[j].attempts)
        /\ At(j, "updated") /\ UNCHANGED endpoints
        /\ SameJobs \/ NewJob(jobs[j].event, jobs[j].endpoint, jobs[j].attempt + 1, "delayed")
    BY <1>7, RetryQueued
  <2>2. \A k \in DOMAIN jobs : jobs'[k].state = jobs[k].state /\ jobs'[k].attempts = jobs[k].attempts
    BY <2>1 DEF JobGoes, At
  <2>3. \A k \in DOMAIN jobs' : k \notin DOMAIN jobs =>
                jobs'[k].state \in {"waiting", "delayed"} /\ jobs'[k].attempts = 0
    BY <2>1 DEF SameJobs, NewJob, Job
  <2> QED
    BY <1>3, <2>1, <2>2, <2>3
\* A step of the handler that ends no job.
<1>8. ASSUME NEW j \in DOMAIN jobs, NEW state, NEW step, NEW answer, NEW attempts,
             HandlerStep(j, state, step, answer, attempts),
             state \notin {"done", "failed"}, attempts <= faults'.count
      PROVE  CarriedOn'
  BY <1>1, <1>2, <1>8, HandlerCarriesOn
<1>9. \A j \in DOMAIN jobs : jobs[j].attempts <= faults'.count
  BY <1>1 DEF FaultsOnlyGrow
<1>10. ASSUME NEW j \in DOMAIN jobs, SkipDelivery(j) PROVE FALSE
  BY <1>2, <1>10, HandlerActions DEF CarriedOn, Status
<1>11. ASSUME NEW j \in DOMAIN jobs, CompleteDelivery(j) PROVE CarriedOn'
  <2>1. PICK n \in 1..MaxEvents, e \in Endpoints, a \in 1..(RetrySteps + 1) :
           n = jobs[j].event /\ e = jobs[j].endpoint /\ a = jobs[j].attempt
    BY <1>2
  <2>2. HandlerStep(j, "done", jobs[j].step, jobs[j].answer, jobs[j].attempts)
    BY <1>11, HandlerActions
  <2>3. JobInOrder(j) /\ jobs[j].answer \in Answers
    BY JobsTyped DEF AttemptsInOrder, WebhookInv
  <2>4. Carries(n, e, a)
    <3>1. CASE At(j, "rescheduled")
      BY <2>1, <2>3, <3>1 DEF JobInOrder, At, Carries
    <3>2. CASE At(j, "updated") /\ jobs[j].answer \in {"ok", "drop"}
      BY <2>1, <2>3, <3>2 DEF JobInOrder, At, Carries
    <3>3. CASE At(j, "updated") /\ jobs[j].answer \notin {"ok", "drop"}
      <4>1. Posted(n, e, a)
        BY <2>1, <2>3, <3>3 DEF JobInOrder, At
      <4>2. ~(a <= RetrySteps)
        BY <1>11, <2>1, <2>3, <3>3 DEF CompleteDelivery, At, WantsRetry, RetryInSeconds, Answers
      <4>3. a = RetrySteps + 1
        BY <4>2, WebhookAssumption
      <4> QED
        BY <4>1, <4>3 DEF Carries
    <3> QED
      BY <1>11, <3>1, <3>2, <3>3 DEF CompleteDelivery
  <2>5. Carries(n, e, a)'
    BY <1>1, <2>4 DEF Carries, HistoryGrows
  <2> QED
    BY <1>1, <1>9, <2>1, <2>2, <2>5, HandlerCarriesOn
<1>12. ASSUME NEW j \in DOMAIN jobs, DeliveryThrows(j) PROVE CarriedOn'
  <2>1. PICK state \in {"delayed", "failed"} :
           /\ HandlerStep(j, state, jobs[j].step, jobs[j].answer, jobs[j].attempts + 1)
           /\ (state = "delayed" <=> jobs[j].attempts + 1 < MaxAttempts)
    BY <1>12, HandlerActions
  <2>2. Status(j) # "deleted"
    BY <1>2 DEF CarriedOn, Status
  <2>3. faults'.count = faults.count + 1
    BY <1>12, <2>2 DEF DeliveryThrows, RowFails, Fault
  <2>4. jobs[j].attempts + 1 <= faults'.count /\ state = "delayed"
    BY <1>1, <2>1, <2>3
  <2> QED
    BY <1>8, <2>1, <2>4
<1>13. ASSUME NEW j \in DOMAIN jobs,
              \/ StartDelivery(j) \/ RecordAttempt(j) \/ (\E reply \in Answers : Post(j, reply))
              \/ RecordAnswer(j) \/ AnswerTakenForFailure(j) \/ CrashDelivery(j)
       PROVE  CarriedOn'
  <2>1. \E state \in {"active", "waiting"} : \E step, answer :
           HandlerStep(j, state, step, answer, jobs[j].attempts)
    BY <1>13, HandlerActions
  <2> QED
    BY <1>8, <1>9, <2>1
<1> QED
  BY <1>4, <1>5, <1>6, <1>7, <1>10, <1>11, <1>12, <1>13 DEF Next, DeliveryStep

\* What was planned is queued, or its fan-out failed.
LEMMA StepFirstQueued ==
    ASSUME WebhookInv, FirstQueued, [Next]_vars
    PROVE  FirstQueued'
<1>1. SameIds /\ HistoryGrows /\ FaultsOnlyGrow
  BY StepGrows, StepFaults
<1>2. \A n \in DOMAIN fanOuts : \A e \in fanOuts[n].planned \ fanOuts[n].todo :
         HasJob(n, e, 1)' \/ "queueError" \in faults'.kinds
  <2> SUFFICES ASSUME NEW n \in DOMAIN fanOuts, NEW e \in fanOuts[n].planned \ fanOuts[n].todo
               PROVE  HasJob(n, e, 1)' \/ "queueError" \in faults'.kinds
    OBVIOUS
  <2>1. n \in 1..MaxEvents /\ e \in Endpoints
    BY FanOutsTyped DEF WebhookInv
  <2>2. HasJob(n, e, 1) \/ "queueError" \in faults.kinds
    BY DEF FirstQueued
  <2> QED
    BY <1>1, <2>1, <2>2 DEF HistoryGrows, FaultsOnlyGrow
<1>3. CASE UNCHANGED fanOuts
  BY <1>2, <1>3 DEF FirstQueued
<1>4. CASE PlanDeliveries
  BY <1>2, <1>4, PlanKeepsInv DEF FirstQueued
<1>5. ASSUME NEW n \in DOMAIN fanOuts, FanOutFails(n) PROVE FirstQueued'
  BY <1>5, FanOutFailsKeepsInv DEF FirstQueued
<1>6. ASSUME NEW n \in DOMAIN fanOuts, NEW e \in Endpoints, QueueDelivery(n, e) PROVE FirstQueued'
  <2>1. NewJob(n, e, 1, "waiting")
    BY <1>6, QueueingKeepsInv
  <2>2. HasJob(n, e, 1)'
    BY <2>1 DEF NewJob, HasJob, Job
  <2>3. /\ fanOuts[n] \in [planned : SUBSET Endpoints, todo : SUBSET Endpoints]
        /\ fanOuts \in Seq([planned : SUBSET Endpoints, todo : SUBSET Endpoints])
    BY FanOutsTyped DEF WebhookInv, WebhookTypeOK
  <2>4. /\ DOMAIN fanOuts' = DOMAIN fanOuts
        /\ fanOuts'[n].planned = fanOuts[n].planned /\ fanOuts'[n].todo = fanOuts[n].todo \ {e}
        /\ \A m \in DOMAIN fanOuts : m # n => fanOuts'[m] = fanOuts[m]
    BY <1>6, <2>3 DEF QueueDelivery
  <2> SUFFICES ASSUME NEW m \in DOMAIN fanOuts, NEW f \in fanOuts'[m].planned \ fanOuts'[m].todo
               PROVE  HasJob(m, f, 1)' \/ "queueError" \in faults'.kinds
    BY <2>4 DEF FirstQueued
  <2>5. CASE m = n /\ f = e
    BY <2>2, <2>5
  <2>6. CASE ~(m = n /\ f = e)
    BY <1>2, <2>4, <2>6
  <2> QED
    BY <2>5, <2>6
<1> QED
  BY <1>3, <1>4, <1>5, <1>6 DEF Next, DeliveryStep, SetEnabled, Remove, StartDelivery, SkipDelivery,
     RecordAttempt, Post, RecordAnswer, QueueRetry, CompleteDelivery, AnswerTakenForFailure,
     DeliveryThrows, CrashDelivery, vars

-----------------------------------------------------------------------------
(* When all is done, the job of the highest attempt of a delivery says how *)
(* it ended.                                                               *)

\* A set of naturals that has a member has a least one.
LEMMA LeastExists ==
    ASSUME NEW T \in SUBSET Nat, T # {}
    PROVE  \E x \in T : \A y \in T : x <= y
<1>1. PICK x \in T : \A y \in T : << y, x >> \notin OpToRel(<, Nat)
  BY NatLessThanWellFounded, WFMin
<1>2. \A y \in T : ~(y < x)
  BY <1>1 DEF OpToRel
<1> QED
  BY <1>2

\* A non-empty set of naturals with an upper bound has a greatest element.
LEMMA GreatestExists ==
    ASSUME NEW S \in SUBSET Nat, S # {}, NEW bound \in Nat, \A x \in S : x <= bound
    PROVE  \E x \in S : \A y \in S : y <= x
<1> DEFINE T == {c \in Nat : \E x \in S : c = bound - x}
<1>1. \A x \in S : bound - x \in T
  OBVIOUS
<1>2. T \in SUBSET Nat
  OBVIOUS
<1>3. T # {}
  BY <1>1
<1>4. PICK c \in T : \A d \in T : c <= d
  <2> HIDE DEF T
  <2> QED
    BY <1>2, <1>3, LeastExists
<1>5. PICK x \in S : c = bound - x
  OBVIOUS
<1>6. ASSUME NEW y \in S PROVE y <= x
  <2>1. bound - y \in T
    BY <1>1, <1>6
  <2> QED
    BY <1>4, <1>5, <2>1
<1> QED
  BY <1>5, <1>6

\* A delivery that posted every attempt of the schedule made that many requests.
LEMMA AllAttemptsPosted ==
    ASSUME WebhookInv, NEW n \in 1..MaxEvents, NEW e \in Endpoints,
           \A b \in 1..(RetrySteps + 1) : Posted(n, e, b)
    PROVE  Len(posts[n][e]) > RetrySteps
<1> DEFINE PostRecord == [attempt : 1..(RetrySteps + 1), answer : Answers]
           made == posts[n][e]
           attempt == [i \in DOMAIN made |-> made[i].attempt]
           Attempts == 1..(RetrySteps + 1)
<1>1. made \in Seq(PostRecord)
  <2>1. posts \in [1..MaxEvents -> [Endpoints -> Seq(PostRecord)]]
    BY DEF WebhookInv, WebhookTypeOK
  <2> HIDE DEF PostRecord
  <2> QED
    BY <2>1
<1>2. DOMAIN made = 1..Len(made) /\ Len(made) \in Nat /\ \A i \in DOMAIN made : made[i] \in PostRecord
  <2> HIDE DEF PostRecord, made
  <2> QED
    BY <1>1
<1>3. \A i \in DOMAIN made : made[i].attempt \in Attempts
  BY <1>2
<1>4. \A b \in Attempts : \E i \in DOMAIN made : made[i].attempt = b
  BY DEF Posted
<1> HIDE DEF made, Attempts
<1>5. attempt \in Surjection(DOMAIN made, Attempts)
  <2>1. attempt \in [DOMAIN made -> Attempts]
    BY <1>3
  <2>2. \A b \in Attempts : \E i \in DOMAIN made : attempt[i] = b
    BY <1>4
  <2> HIDE DEF attempt
  <2> QED
    BY <2>1, <2>2 DEF Surjection
<1>6. IsFiniteSet(DOMAIN made) /\ Cardinality(DOMAIN made) = Len(made)
  <2> DEFINE len == Len(made)
  <2>1. len \in Int /\ len \in Nat /\ 1 \in Int
    BY <1>2
  <2> HIDE DEF len
  <2>2. IsFiniteSet(1..len) /\ Cardinality(1..len) = IF 1 > len THEN 0 ELSE len - 1 + 1
    BY <2>1, FS_Interval
  <2>3. IsFiniteSet(1..len) /\ Cardinality(1..len) = len
    BY <2>1, <2>2
  <2> QED
    BY <1>2, <2>3 DEF len
<1>7. Cardinality(Attempts) = RetrySteps + 1
  BY FS_Interval, WebhookAssumption DEF Attempts
<1>8. Cardinality(Attempts) <= Cardinality(DOMAIN made)
  BY <1>5, <1>6, FS_Surjection
<1> QED
  BY <1>2, <1>6, <1>7, <1>8, WebhookAssumption DEF made

\* When all jobs have ended without a final answer, nothing can have stopped the chain of
\* attempts but its own end, so as many requests were made as the schedule has.
LEMMA SettledSchedule ==
    ASSUME WebhookInv, ScheduleInv
    PROVE  ScheduleIsUsedUp
<1> SUFFICES ASSUME Settled(jobs), NEW n \in DOMAIN fanOuts,
                    NEW e \in fanOuts[n].planned \ fanOuts[n].todo,
                    HasJob(n, e, 1) \/ "queueError" \notin faults.kinds, NobodyEdits,
                    ~Final(n, e)
             PROVE  Len(posts[n][e]) > RetrySteps
  BY DEF ScheduleIsUsedUp, NobodyEdits, Final
<1> DEFINE queued == {a \in 1..(RetrySteps + 1) : HasJob(n, e, a)}
<1>1. n \in 1..MaxEvents /\ e \in Endpoints /\ RetrySteps \in Nat
  BY FanOutsTyped, WebhookAssumption DEF WebhookInv
<1>2. HasJob(n, e, 1)
  BY DEF ScheduleInv, FirstQueued
<1>3. PICK a \in queued : \A b \in queued : b <= a
  <2>1. queued \in SUBSET Nat /\ (\A b \in queued : b <= RetrySteps + 1) /\ RetrySteps + 1 \in Nat
    BY <1>1
  <2>2. queued # {}
    BY <1>1, <1>2
  <2> HIDE DEF queued
  <2> QED
    BY <2>1, <2>2, GreatestExists
<1>4. a \in 1..(RetrySteps + 1) /\ HasJob(n, e, a)
  OBVIOUS
<1>5. \A b : HasJob(n, e, b) => b \in 1..(RetrySteps + 1)
  BY JobsTyped DEF HasJob, WebhookInv
<1>6. ~HasJob(n, e, a + 1)
  BY <1>1, <1>3, <1>4, <1>5
<1>7. PICK j \in DOMAIN jobs : jobs[j].event = n /\ jobs[j].endpoint = e /\ jobs[j].attempt = a
  BY <1>4 DEF HasJob
<1>8. Carries(n, e, a)
  BY <1>7 DEF ScheduleInv, CarriedOn, Carried, Settled
<1>9. a = RetrySteps + 1 /\ Posted(n, e, a)
  BY <1>6, <1>8 DEF Carries
<1>10. \A b \in 1..(a - 1) : Posted(n, e, b)
  BY <1>7 DEF ScheduleInv, AttemptsInOrder, JobInOrder
<1>11. \A b \in 1..(RetrySteps + 1) : Posted(n, e, b)
  <2>1. \A b \in 1..(RetrySteps + 1) : b \in 1..(a - 1) \/ b = a
    BY <1>1, <1>9
  <2> QED
    BY <1>9, <1>10, <2>1
<1> QED
  BY <1>1, <1>11, AllAttemptsPosted

\* While fewer faults happen than a job of the queue has attempts, no delivery is lost
\* between fan-out, schedule and queue: when all is done, a delivery that was queued,
\* to an endpoint nobody touched, was taken or refused for good, or has been tried as
\* often as the schedule says.
THEOREM WebhookScheduleIsUsedUp ==
    ASSUME MaxFaults < MaxAttempts
    PROVE  Spec => []ScheduleIsUsedUp
<1>1. Init => ScheduleInv
  BY DEF Init, ScheduleInv, AttemptsInOrder, FirstQueued, CarriedOn, Carried, FaultsPaid
<1>2. WebhookInv /\ ScheduleInv /\ [Next]_vars => ScheduleInv'
  <2> SUFFICES ASSUME WebhookInv, ScheduleInv, [Next]_vars PROVE ScheduleInv'
    OBVIOUS
  <2>1. AttemptsInOrder' /\ FirstQueued'
    BY StepInOrder, StepFirstQueued DEF ScheduleInv
  <2>2. ASSUME NobodyEdits' PROVE CarriedOn'
    <3>1. NobodyEdits
      BY <2>2, StepFaults DEF NobodyEdits, FaultsOnlyGrow
    <3> QED
      BY <2>2, <3>1, StepCarriesOn DEF ScheduleInv
  <2> QED
    BY <2>1, <2>2 DEF ScheduleInv
<1>3. WebhookInv /\ ScheduleInv => ScheduleIsUsedUp
  BY SettledSchedule
<1> QED
  BY <1>1, <1>2, <1>3, WebhookKeepsInv, PTL DEF Spec
=============================================================================
