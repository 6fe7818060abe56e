------------------------------ MODULE JobQueue ------------------------------
(***************************************************************************)
(* The BullMQ queues of packages/queue, as the handlers that work on them  *)
(* see them.  A queue is a sequence of jobs in the order they were added; a *)
(* job is a record with the fields state and attempts, among others.       *)
(*                                                                         *)
(* A waiting job is taken in order, a delayed one at any time: a job is    *)
(* delayed by its own delay option, or by the backoff that an attempt that *)
(* threw waits out.  The worker takes no job while `concurrency` of them   *)
(* are active.                                                             *)
(***************************************************************************)
EXTENDS Integers, FiniteSets

CONSTANT MaxAttempts        \* attempts of a job

ASSUME JobQueueAssumption == MaxAttempts \in Nat \ {0}

JobStates == {"waiting", "active", "delayed", "done", "failed"}

\* Mutant: every job is started as soon as it is there.
Startable_Unlimited(jobs, i, concurrency) == jobs[i].state \in {"delayed", "waiting"}

Startable(jobs, i, concurrency) ==
    /\ \/ jobs[i].state = "delayed"
       \/ jobs[i].state = "waiting" /\ \A k \in 1..(i - 1) : jobs[k].state # "waiting"
    /\ Cardinality({k \in DOMAIN jobs : jobs[k].state = "active"}) < concurrency

\* Mutant: an attempt is not counted.
Thrown_Uncounted(job) == [job EXCEPT !.state = "delayed"]

\* Mutant: the queue is created without its default options, so nothing is retried.
Thrown_NotRetried(job) == [job EXCEPT !.attempts = @ + 1, !.state = "failed"]

Thrown(job) ==
    [job EXCEPT !.attempts = @ + 1,
                !.state = IF job.attempts + 1 < MaxAttempts THEN "delayed" ELSE "failed"]

Settled(jobs) == \A i \in DOMAIN jobs : jobs[i].state \in {"done", "failed"}
=============================================================================
