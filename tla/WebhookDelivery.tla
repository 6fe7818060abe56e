--------------------------- MODULE WebhookDelivery ---------------------------
(***************************************************************************)
(* Signed webhooks: an event is fanned out to the endpoints that are       *)
(* enabled when it is built, one job each, and the webhook worker of       *)
(* concurrency 1 posts it until the endpoint takes it, refuses it for good *)
(* or the backoff schedule is used up.                                     *)
(*                                                                         *)
(* Two retries live side by side: the schedule's, a new job with the next  *)
(* attempt number, and the queue's, when the handler throws or dies.       *)
(***************************************************************************)
EXTENDS JobQueue, Sequences

CONSTANTS
    Endpoints,      \* endpoints subscribed to the events emitted here
    RetrySteps,     \* entries of RETRY_BACKOFF_SECONDS
    FaultKinds,     \* which faults may happen in this instance
    MaxFaults,      \* bound: faults of a behaviour
    MaxEvents       \* bound: events emitted

AllFaults == {"dbError", "queueError", "crash", "edit"}

ASSUME WebhookAssumption ==
    /\ RetrySteps \in Nat
    /\ FaultKinds \subseteq AllFaults
    /\ MaxFaults \in Nat
    /\ MaxEvents \in Nat

VARIABLES
    endpoints,      \* table WebhookEndpoint: enabled, disabled or deleted
    fanOuts,        \* per event: endpoints planned, and those still to be queued
    jobs,           \* jobs of the webhook queue
    posts,          \* what each endpoint answered to each event, in order
    faults          \* faults so far, and their kinds

vars == << endpoints, fanOuts, jobs, posts, faults >>

Fault(kind) ==
    /\ kind \in FaultKinds
    /\ faults.count < MaxFaults
    /\ faults' = [count |-> faults.count + 1, kinds |-> faults.kinds \cup {kind}]

Init ==
    /\ endpoints = [e \in Endpoints |-> "enabled"]
    /\ fanOuts = << >> /\ jobs = << >>
    /\ posts = [n \in 1..MaxEvents |-> [e \in Endpoints |-> << >>]]
    /\ faults = [count |-> 0, kinds |-> {}]

-----------------------------------------------------------------------------
(* emit: the endpoints are planned, and queued one after the other.        *)

Job(n, e, a, state) == [event |-> n, endpoint |-> e, attempt |-> a, state |-> state,
                        attempts |-> 0, step |-> "read", answer |-> "none"]

PlanDeliveries ==
    LET planned == {e \in Endpoints : endpoints[e] = "enabled"}
    IN  /\ Len(fanOuts) < MaxEvents
        /\ fanOuts' = Append(fanOuts, [planned |-> planned, todo |-> planned])
        /\ UNCHANGED << endpoints, jobs, posts, faults >>

QueueDelivery(n, e) ==
    /\ e \in fanOuts[n].todo
    /\ fanOuts' = [fanOuts EXCEPT ![n].todo = @ \ {e}]
    /\ jobs' = Append(jobs, Job(n, e, 1, "waiting"))
    /\ UNCHANGED << endpoints, posts, faults >>

\* The queue or the database throws: logged, and the rest is not queued.
FanOutFails(n) ==
    /\ fanOuts[n].todo # {}
    /\ Fault("queueError")
    /\ fanOuts' = [fanOuts EXCEPT ![n].todo = {}]
    /\ UNCHANGED << endpoints, jobs, posts >>

-----------------------------------------------------------------------------
(* The API: the owner pauses, resumes or removes an endpoint.              *)

SetEnabled(e) ==
    /\ endpoints[e] # "deleted"
    /\ Fault("edit")
    /\ endpoints' = [endpoints EXCEPT ![e] = IF @ = "enabled" THEN "disabled" ELSE "enabled"]
    /\ UNCHANGED << fanOuts, jobs, posts >>

Remove(e) ==
    /\ endpoints[e] # "deleted"
    /\ Fault("edit")
    /\ endpoints' = [endpoints EXCEPT ![e] = "deleted"]
    /\ UNCHANGED << fanOuts, jobs, posts >>

-----------------------------------------------------------------------------
(* deliver, and the worker around it.                                      *)

At(j, step) == jobs[j].state = "active" /\ jobs[j].step = step
Status(j) == endpoints[jobs[j].endpoint]

StartDelivery(j) ==
    /\ Startable(jobs, j, 1)
    /\ Status(j) = "enabled"
    /\ jobs' = [jobs EXCEPT ![j].state = "active", ![j].step = "read", ![j].answer = "none"]
    /\ UNCHANGED << endpoints, fanOuts, posts, faults >>

\* Mutant: the job of a paused endpoint is kept for later.
SkipDelivery_KeepsPaused(j) ==
    /\ Startable(jobs, j, 1)
    /\ Status(j) = "deleted"
    /\ jobs' = [jobs EXCEPT ![j].state = "done"]
    /\ UNCHANGED << endpoints, fanOuts, posts, faults >>

\* endpoint missing or disabled
SkipDelivery(j) ==
    /\ Startable(jobs, j, 1)
    /\ Status(j) # "enabled"
    /\ jobs' = [jobs EXCEPT ![j].state = "done"]
    /\ UNCHANGED << endpoints, fanOuts, posts, faults >>

\* The attempt's row is created before the request; the row of a deleted endpoint
\* cannot be.
RecordAttempt(j) ==
    /\ At(j, "read")
    /\ Status(j) # "deleted"
    /\ jobs' = [jobs EXCEPT ![j].step = "recorded"]
    /\ UNCHANGED << endpoints, fanOuts, posts, faults >>

\* classify: 2xx is ok; 408, 429 and 5xx are retried; any other 4xx is dropped.
\* A request without an answer in time is "none".
Post(j, answer) ==
    LET job == jobs[j]
    IN  /\ At(j, "recorded")
        /\ posts' = [posts EXCEPT ![job.event][job.endpoint] =
                        Append(@, [attempt |-> job.attempt, answer |-> answer])]
        /\ jobs' = [jobs EXCEPT ![j].step = "answered", ![j].answer = answer]
        /\ UNCHANGED << endpoints, fanOuts, faults >>

RecordAnswer(j) ==
    /\ At(j, "answered")
    /\ Status(j) # "deleted"
    /\ jobs' = [jobs EXCEPT ![j].step = "updated"]
    /\ UNCHANGED << endpoints, fanOuts, posts, faults >>

\* The row of a deleted endpoint is gone with it; any other write may fail too.
RowFails(j) ==
    \/ Status(j) = "deleted" /\ UNCHANGED faults
    \/ Status(j) # "deleted" /\ Fault("dbError")

\* The update of the row throws inside the try block, so its catch takes the answer
\* for a network failure and goes on to update the row once more.
AnswerTakenForFailure(j) ==
    /\ At(j, "answered") /\ jobs[j].answer # "none"
    /\ RowFails(j)
    /\ jobs' = [jobs EXCEPT ![j].answer = "none"]
    /\ UNCHANGED << endpoints, fanOuts, posts >>

\* RETRY_BACKOFF_SECONDS[attempt - 1] is undefined after the last entry.
RetryInSeconds(job) == job.attempt <= RetrySteps

\* Mutant: every answer but a 2xx is tried again.
WantsRetry_DropsNothing(job) == job.answer # "ok" /\ RetryInSeconds(job)

WantsRetry(job) == job.answer \in {"retry", "none"} /\ RetryInSeconds(job)

\* Mutant: the next attempt is queued under the number of this one.
NextAttempt_Same(job) == job.attempt

NextAttempt(job) == job.attempt + 1

HasJob(n, e, a) ==
    \E k \in DOMAIN jobs : jobs[k].event = n /\ jobs[k].endpoint = e /\ jobs[k].attempt = a

\* Mutant: the handler queues the next attempt under a fresh id.
Queued_Again(n, e, a) == Append(jobs, Job(n, e, a, "delayed"))

\* webhookQueue.add with the id of event, endpoint and attempt.
Queued(n, e, a) == IF HasJob(n, e, a) THEN jobs ELSE Append(jobs, Job(n, e, a, "delayed"))

QueueRetry(j) ==
    /\ At(j, "updated")
    /\ WantsRetry(jobs[j])
    /\ jobs' = [Queued(jobs[j].event, jobs[j].endpoint, NextAttempt(jobs[j]))
                  EXCEPT ![j].step = "rescheduled"]
    /\ UNCHANGED << endpoints, fanOuts, posts, faults >>

CompleteDelivery(j) ==
    /\ At(j, "rescheduled") \/ (At(j, "updated") /\ ~WantsRetry(jobs[j]))
    /\ jobs' = [jobs EXCEPT ![j].state = "done"]
    /\ UNCHANGED << endpoints, fanOuts, posts, faults >>

\* The handler throws: the endpoint was deleted under it, or the database or the
\* queue failed outside the try block, or inside its catch.
DeliveryThrows(j) ==
    /\ \/ At(j, "read") /\ RowFails(j)
       \/ At(j, "answered") /\ jobs[j].answer = "none" /\ RowFails(j)
       \/ At(j, "updated") /\ WantsRetry(jobs[j]) /\ Fault("queueError")
    /\ jobs' = [jobs EXCEPT ![j] = Thrown(@)]
    /\ UNCHANGED << endpoints, fanOuts, posts >>

CrashDelivery(j) ==
    /\ jobs[j].state = "active"
    /\ Fault("crash")
    /\ jobs' = [jobs EXCEPT ![j].state = "waiting"]
    /\ UNCHANGED << endpoints, fanOuts, posts >>

-----------------------------------------------------------------------------
Answers == {"ok", "drop", "retry", "none"}

DeliveryStep(j) ==
    \/ StartDelivery(j) \/ SkipDelivery(j) \/ RecordAttempt(j)
    \/ \E answer \in Answers : Post(j, answer)
    \/ RecordAnswer(j) \/ QueueRetry(j) \/ CompleteDelivery(j)

Next ==
    \/ PlanDeliveries
    \/ \E n \in DOMAIN fanOuts : FanOutFails(n) \/ \E e \in Endpoints : QueueDelivery(n, e)
    \/ \E e \in Endpoints : SetEnabled(e) \/ Remove(e)
    \/ \E j \in DOMAIN jobs : DeliveryStep(j)
    \/ \E j \in DOMAIN jobs : AnswerTakenForFailure(j) \/ DeliveryThrows(j) \/ CrashDelivery(j)

Spec == Init /\ [][Next]_vars

\* The emitting handler and the webhook worker keep going.
Fairness ==
    /\ WF_vars(\E n \in DOMAIN fanOuts, e \in Endpoints : QueueDelivery(n, e))
    /\ WF_vars(\E j \in DOMAIN jobs : DeliveryStep(j) \/ AnswerTakenForFailure(j)
                                   \/ DeliveryThrows(j))

FairSpec == Spec /\ Fairness

-----------------------------------------------------------------------------
(* Properties.                                                             *)

JobRecord ==
    [event : 1..Len(fanOuts), endpoint : Endpoints, attempt : 1..(RetrySteps + 1),
     state : JobStates, attempts : 0..MaxAttempts,
     step : {"read", "recorded", "answered", "updated", "rescheduled"}, answer : Answers]

\* Fan-outs, jobs and answers refer to events and endpoints that exist.
WebhookTypeOK ==
    /\ endpoints \in [Endpoints -> {"enabled", "disabled", "deleted"}]
    /\ fanOuts \in Seq([planned : SUBSET Endpoints, todo : SUBSET Endpoints])
    /\ Len(fanOuts) <= MaxEvents
    /\ jobs \in Seq(JobRecord)
    /\ posts \in [1..MaxEvents ->
                    [Endpoints -> Seq([attempt : 1..(RetrySteps + 1), answer : Answers])]]
    /\ faults \in [count : 0..MaxFaults, kinds : SUBSET FaultKinds]

Answered(n, e, answers) == \E i \in DOMAIN posts[n][e] : posts[n][e][i].answer \in answers

\* docs/webhooks: "2xx: Delivered. Done", "Any other 4xx: Drops it": the answer that
\* ends a delivery is the last request for the event the endpoint sees.
FinalAnswerIsLast ==
    \A n \in 1..MaxEvents, e \in Endpoints : \A i \in DOMAIN posts[n][e] :
        posts[n][e][i].answer \in {"ok", "drop"} => i = Len(posts[n][e])

\* The same as far as it holds: unless the worker dies or cannot write a row, no
\* request follows the final answer, although jobs are retried in two ways.
FinalAnswerEnds == faults.kinds \subseteq {"edit", "queueError"} => FinalAnswerIsLast

\* docs/webhooks: "at most five attempts before the delivery is dropped": the queue's
\* retries come on top of the schedule's and do not multiply with them: requests beyond
\* the schedule are at most the faults that happened.
RepeatsAreFaults ==
    \A n \in 1..MaxEvents, e \in Endpoints : Len(posts[n][e]) <= RetrySteps + 1 + faults.count

\* No delivery is lost between fan-out, schedule and queue: when all is done, a
\* planned delivery to an endpoint nobody touched has been taken or refused for good,
\* or has been tried as often as the schedule says.  A fan-out that failed is
\* excused: what it had not queued is gone.
ScheduleIsUsedUp ==
    Settled(jobs) =>
        \A n \in DOMAIN fanOuts : \A e \in fanOuts[n].planned \ fanOuts[n].todo :
            /\ HasJob(n, e, 1) \/ "queueError" \notin faults.kinds
            /\ endpoints[e] = "enabled" /\ "edit" \notin faults.kinds
            => Answered(n, e, {"ok", "drop"}) \/ Len(posts[n][e]) > RetrySteps

\* However endpoints answer, are paused or removed, no delivery is pursued for ever
\* and no fan-out is left half done.
DeliveriesEnd ==
    <>[](Settled(jobs) /\ \A n \in DOMAIN fanOuts : fanOuts[n].todo = {})
=============================================================================
