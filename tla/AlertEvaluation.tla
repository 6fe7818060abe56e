--------------------------- MODULE AlertEvaluation ---------------------------
(***************************************************************************)
(* The alert worker: from a stored risk snapshot to alert events, policy   *)
(* breaches and mails, for one wallet whose owner wants mail.              *)
(*                                                                         *)
(* A job compares its snapshot with the one observed before it.  First     *)
(* come the ACTIVE rules of the database, then the checks of the wallet's  *)
(* on-chain policy; each crossing stores an event, publishes it and mails  *)
(* it, and the handler may throw or die between any two of these.  An      *)
(* error while policy checks are handled is logged and swallowed.          *)
(***************************************************************************)
EXTENDS JobQueue, Sequences

CONSTANTS
    Metrics,            \* names of the metrics the rules look at
    Values,             \* what a metric may come out as
    Null,               \* a metric that is not defined for the wallet
    LocalRules,         \* rules: [metric, operator, threshold]
    PolicyChecks,       \* checks an on-chain policy may ask for, in the same form
    Policies,           \* sets of checks a wallet may register as its policy
    MaxMinHealthFactorE4,   \* MAX_MIN_HEALTH_FACTOR_E4 of the policy contract
    AlertConcurrency,   \* ALERT_WORKER_CONCURRENCY
    FaultKinds,         \* which faults may happen in this instance
    MaxFaults,          \* bound: faults of a behaviour
    MaxSnapshots,       \* bound: risk snapshots
    MaxHeight           \* bound: source blocks

AllFaults == {"alertError", "policyError", "mailError", "crash", "edit"}

Rules == LocalRules \cup PolicyChecks

ASSUME AlertAssumption ==
    /\ Values \subseteq Nat
    /\ Null \notin Values
    /\ Rules \subseteq [metric : Metrics, operator : {"lt", "lte", "gt", "gte"}, threshold : Nat]
    /\ LocalRules \cap PolicyChecks = {}
    /\ Policies \subseteq SUBSET PolicyChecks
    /\ MaxMinHealthFactorE4 \in Nat
    /\ AlertConcurrency \in Nat \ {0}
    /\ FaultKinds \subseteq AllFaults
    /\ MaxFaults \in Nat
    /\ MaxSnapshots \in Nat
    /\ MaxHeight \in Nat

VARIABLES
    riskRows,       \* table RiskSnapshot, in observedAt order
    activeRules,    \* local rules whose status is ACTIVE
    policy,         \* the wallet's entry of map risk-policies
    alertJobs,      \* jobs of the alert queue
    events,         \* AlertEvent and PolicyBreachEvent rows, counted by rule and snapshot
    notifications,  \* table Notification: state by dedupe key
    mails,          \* mails sent, as a sequence of <<rule, snapshot>>
    faults          \* faults so far, and their kinds

vars == << riskRows, activeRules, policy, alertJobs, events, notifications, mails, faults >>
output == << events, notifications, mails >>

\* get-risk-policy answers none: nothing is enabled.
NoPolicy == [checks |-> {}, enabled |-> FALSE]

PolicyInRange(checks) ==
    \A c \in checks :
        c.threshold <= IF c.metric = "healthFactorE4" THEN MaxMinHealthFactorE4 ELSE 10000

Fault(kind) ==
    /\ kind \in FaultKinds
    /\ faults.count < MaxFaults
    /\ faults' = [count |-> faults.count + 1, kinds |-> faults.kinds \cup {kind}]

Init ==
    /\ riskRows = << >> /\ alertJobs = << >>
    /\ activeRules = LocalRules
    /\ policy \in {NoPolicy} \cup
          [checks : {c \in Policies : PolicyInRange(c)}, enabled : BOOLEAN]
    /\ events = [r \in Rules |-> [s \in 1..MaxSnapshots |-> 0]]
    /\ notifications = [k \in {} |-> "created"]
    /\ mails = << >>
    /\ faults = [count |-> 0, kinds |-> {}]

-----------------------------------------------------------------------------
(* alert-evaluator.ts.                                                     *)

CompareThreshold(v, rule) ==
    CASE rule.operator = "lt"  -> v < rule.threshold
      [] rule.operator = "lte" -> v <= rule.threshold
      [] rule.operator = "gt"  -> v > rule.threshold
      [] rule.operator = "gte" -> v >= rule.threshold

Breaches(s, rule) ==
    /\ riskRows[s].metrics[rule.metric] # Null
    /\ CompareThreshold(riskRows[s].metrics[rule.metric], rule)

\* Mutant: the snapshot before is the newest of the others.
Previous_Newest(s) == {p \in DOMAIN riskRows : p # s /\ \A q \in DOMAIN riskRows \ {s} : q <= p}

\* At most one: the latest row observed before s.
Previous(s) == {p \in DOMAIN riskRows : p < s /\ \A q \in 1..(s - 1) : q <= p}

CrossedIntoBreach(s, rule) ==
    Breaches(s, rule) /\ \A p \in Previous(s) : ~Breaches(p, rule)

-----------------------------------------------------------------------------
(* The world around the worker.                                            *)

\* The risk worker stores a snapshot and queues its evaluation.
PersistSnapshot(m, b) ==
    /\ Len(riskRows) < MaxSnapshots
    /\ riskRows' = Append(riskRows, [metrics |-> m, sourceBlock |-> b])
    /\ alertJobs' = Append(alertJobs,
          [snapshot |-> Len(riskRows) + 1, state |-> "waiting", attempts |-> 0,
           stage |-> "queued", todo |-> {}, current |-> {}, step |-> "next"])
    /\ UNCHANGED << activeRules, policy, output, faults >>

\* updateStatus of the API: the owner pauses or resumes a rule.
UpdateStatus(r) ==
    /\ r \in LocalRules
    /\ Fault("edit")
    /\ activeRules' = IF r \in activeRules THEN activeRules \ {r} ELSE activeRules \cup {r}
    /\ UNCHANGED << riskRows, policy, alertJobs, output >>

-----------------------------------------------------------------------------
(* risk-policy.clar: the wallet's own transactions.                        *)

SetRiskPolicy(checks) ==
    /\ PolicyInRange(checks)
    /\ Fault("edit")
    /\ policy' = [checks |-> checks, enabled |-> TRUE]
    /\ UNCHANGED << riskRows, activeRules, alertJobs, output >>

SetPolicyEnabled(enabled) ==
    /\ policy # NoPolicy
    /\ Fault("edit")
    /\ policy' = [policy EXCEPT !.enabled = enabled]
    /\ UNCHANGED << riskRows, activeRules, alertJobs, output >>

DeleteRiskPolicy ==
    /\ Fault("edit")
    /\ policy' = NoPolicy
    /\ UNCHANGED << riskRows, activeRules, alertJobs, output >>

-----------------------------------------------------------------------------
(* The handler.                                                            *)

At(j, step) == alertJobs[j].state = "active" /\ alertJobs[j].step = step

Crossed(j, rules) == {r \in rules : CrossedIntoBreach(alertJobs[j].snapshot, r)}

StartAlert(j) ==
    /\ Startable(alertJobs, j, AlertConcurrency)
    /\ alertJobs' = [alertJobs EXCEPT ![j].state = "active", ![j].stage = "local",
                        ![j].todo = Crossed(j, activeRules), ![j].current = {}, ![j].step = "next"]
    /\ UNCHANGED << riskRows, activeRules, policy, output, faults >>

CreateEvent(j, r) ==
    /\ At(j, "next")
    /\ r \in alertJobs[j].todo
    /\ events' = [events EXCEPT ![r][alertJobs[j].snapshot] = @ + 1]
    /\ alertJobs' = [alertJobs EXCEPT ![j].todo = @ \ {r}, ![j].current = {r}, ![j].step = "created"]
    /\ UNCHANGED << riskRows, activeRules, policy, notifications, mails, faults >>

\* A policy check is known by its metric, whatever the threshold.
RuleId(r) ==
    IF r \in LocalRules THEN r ELSE [metric |-> r.metric, operator |-> "policy", threshold |-> 0]

DedupeKey(r, s) == << RuleId(r), riskRows[s].sourceBlock >>

\* Mutant: one mail per block, whatever the rule.
AlreadyQueued_AnyRule(key) == \E k \in DOMAIN notifications : k[2] = key[2]

\* Mutant: the key is not unique in the table.
AlreadyQueued_Never(key) == FALSE

AlreadyQueued(key) == key \in DOMAIN notifications

\* The event is published, and the unique row claims the mail.
ClaimMail(j) ==
    \E r \in alertJobs[j].current :
        LET key == DedupeKey(r, alertJobs[j].snapshot)
        IN  /\ At(j, "created")
            /\ ~AlreadyQueued(key)
            /\ notifications' = [k \in DOMAIN notifications \cup {key} |->
                                    IF k = key THEN "created" ELSE notifications[k]]
            /\ alertJobs' = [alertJobs EXCEPT ![j].step = "claimed"]
            /\ UNCHANGED << riskRows, activeRules, policy, events, mails, faults >>

SkipMail(j) ==
    /\ At(j, "created")
    /\ \E r \in alertJobs[j].current : AlreadyQueued(DedupeKey(r, alertJobs[j].snapshot))
    /\ alertJobs' = [alertJobs EXCEPT ![j].step = "next", ![j].current = {}]
    /\ UNCHANGED << riskRows, activeRules, policy, output, faults >>

SendMail(j) ==
    \E r \in alertJobs[j].current :
        /\ At(j, "claimed")
        /\ mails' = Append(mails, << r, alertJobs[j].snapshot >>)
        /\ alertJobs' = [alertJobs EXCEPT ![j].step = "sent"]
        /\ UNCHANGED << riskRows, activeRules, policy, events, notifications, faults >>

RecordMail(j) ==
    \E r \in alertJobs[j].current :
        /\ At(j, "sent")
        /\ notifications' = [notifications EXCEPT ![DedupeKey(r, alertJobs[j].snapshot)] = "sent"]
        /\ alertJobs' = [alertJobs EXCEPT ![j].step = "next", ![j].current = {}]
        /\ UNCHANGED << riskRows, activeRules, policy, events, mails, faults >>

\* Nothing of this throws out of sendAlertEmail, and the handler goes on: creating
\* the row fails, which is taken for a row that exists; the mail server refuses,
\* which is recorded; updating the row fails.
MailFails(j) ==
    \E r \in alertJobs[j].current :
        /\ Fault("mailError")
        /\ \/ /\ At(j, "created") \/ At(j, "sent")
              /\ UNCHANGED notifications
           \/ /\ At(j, "claimed")
              /\ notifications' =
                    [notifications EXCEPT ![DedupeKey(r, alertJobs[j].snapshot)] = "failed"]
        /\ alertJobs' = [alertJobs EXCEPT ![j].step = "next", ![j].current = {}]
        /\ UNCHANGED << riskRows, activeRules, policy, events, mails >>

\* evaluateOnchainPolicy reads the policy when the local rules are done.
ReadPolicy(j) ==
    /\ At(j, "next")
    /\ alertJobs[j].stage = "local" /\ alertJobs[j].todo = {}
    /\ alertJobs' = [alertJobs EXCEPT ![j].stage = "policy",
                        ![j].todo = IF policy.enabled THEN Crossed(j, policy.checks) ELSE {}]
    /\ UNCHANGED << riskRows, activeRules, policy, output, faults >>

CompleteAlert(j) ==
    /\ At(j, "next")
    /\ alertJobs[j].stage = "policy" /\ alertJobs[j].todo = {}
    /\ alertJobs' = [alertJobs EXCEPT ![j].state = "done"]
    /\ UNCHANGED << riskRows, activeRules, policy, output, faults >>

\* Mutant: an error while rules are handled is swallowed as it is for the policy.
AlertThrown_Swallowed(job) == [job EXCEPT !.state = "done"]

AlertThrown(job) == Thrown(job)

\* Storing or publishing an event throws while local rules are handled; mailing
\* never throws out of sendAlertEmail.
AlertThrows(j) ==
    /\ At(j, "next") \/ At(j, "created")
    /\ alertJobs[j].stage = "local"
    /\ Fault("alertError")
    /\ alertJobs' = [alertJobs EXCEPT ![j] = AlertThrown(@)]
    /\ UNCHANGED << riskRows, activeRules, policy, output >>

\* Reading the policy, storing or publishing throws: the rest of the checks is left
\* out and the job completes.
PolicyThrows(j) ==
    /\ At(j, "next") \/ At(j, "created")
    /\ alertJobs[j].stage = "policy"
    /\ Fault("policyError")
    /\ alertJobs' = [alertJobs EXCEPT ![j].state = "done"]
    /\ UNCHANGED << riskRows, activeRules, policy, output >>

CrashAlert(j) ==
    /\ alertJobs[j].state = "active"
    /\ Fault("crash")
    /\ alertJobs' = [alertJobs EXCEPT ![j].state = "waiting"]
    /\ UNCHANGED << riskRows, activeRules, policy, output >>

-----------------------------------------------------------------------------
AlertStep(j) ==
    \/ StartAlert(j) \/ ReadPolicy(j) \/ CompleteAlert(j)
    \/ \E r \in Rules : CreateEvent(j, r)
    \/ ClaimMail(j) \/ SkipMail(j) \/ SendMail(j) \/ RecordMail(j)

Next ==
    \/ \E m \in [Metrics -> Values \cup {Null}], b \in 1..MaxHeight : PersistSnapshot(m, b)
    \/ \E r \in LocalRules : UpdateStatus(r)
    \/ \E checks \in Policies : SetRiskPolicy(checks)
    \/ \E enabled \in BOOLEAN : SetPolicyEnabled(enabled)
    \/ DeleteRiskPolicy
    \/ \E j \in DOMAIN alertJobs : AlertStep(j)
    \/ \E j \in DOMAIN alertJobs : AlertThrows(j) \/ PolicyThrows(j) \/ MailFails(j) \/ CrashAlert(j)

Spec == Init /\ [][Next]_vars

-----------------------------------------------------------------------------
(* Properties.                                                             *)

\* Rows, jobs and notifications refer to snapshots and rules that exist.
AlertTypeOK ==
    /\ riskRows \in Seq([metrics : [Metrics -> Values \cup {Null}], sourceBlock : 1..MaxHeight])
    /\ activeRules \subseteq LocalRules /\ policy \in [checks : SUBSET PolicyChecks, enabled : BOOLEAN]
    /\ alertJobs \in Seq([snapshot : 1..Len(riskRows), state : JobStates, attempts : 0..MaxAttempts,
                          stage : {"queued", "local", "policy"}, todo : SUBSET Rules,
                          current : SUBSET Rules, step : {"next", "created", "claimed", "sent"}])
    /\ events \in [Rules -> [1..MaxSnapshots -> 0..(MaxFaults + 1)]]
    /\ DOMAIN notifications \subseteq {RuleId(r) : r \in Rules} \X (1..MaxHeight)
    /\ \A k \in DOMAIN notifications : notifications[k] \in {"created", "sent", "failed"}
    /\ mails \in Seq(Rules \X (1..Len(riskRows)))

\* documentation/33:100, README.md:505: a rule that has fired does not fire again
\* for a later snapshot until the metric has left the breach, although the
\* snapshots of a wallet are evaluated side by side, in any order, and repeatedly.
FiresOncePerBreach ==
    \A r \in Rules : \A s, t \in DOMAIN riskRows :
        s < t /\ events[r][s] > 0 /\ events[r][t] > 0
            => \E q \in (s + 1)..(t - 1) : ~Breaches(q, r)

Entered(s, r) == Breaches(s, r) /\ (s = 1 \/ ~Breaches(s - 1, r))

Unhurt(kinds) == Settled(alertJobs) /\ faults.kinds \cap kinds = {}

\* documentation/33:98: "A breach is persisted as a PolicyBreachEvent", and so is what a
\* local rule fires on.  Once every job has settled, each crossing has left an event,
\* whatever threw or died on the way, but for two cases: the owner changed rules or policy
\* meanwhile, or an error hit the policy checks, which are not retried.
CrossingsAreRecorded ==
    Unhurt({"edit"}) =>
        \A s \in DOMAIN riskRows :
            /\ \A r \in LocalRules : Entered(s, r) => events[r][s] > 0
            /\ policy.enabled /\ "policyError" \notin faults.kinds =>
                  \A c \in policy.checks : Entered(s, c) => events[c][s] > 0

\* documentation/14:46: processing the same event twice creates no duplicate alerts.
NoDuplicateAlerts == \A r \in Rules : \A s \in DOMAIN riskRows : events[r][s] <= 1

\* notifications/src/index.ts:28: "a retry cannot double-send": no rule is mailed twice
\* for one snapshot, in spite of retries, crashes and evaluations side by side.
NoDoubleSend ==
    \A i, k \in DOMAIN mails : mails[i] = mails[k] => i = k

\* What fired is mailed, once for all snapshots of a block and for all thresholds a policy
\* had for the metric meanwhile: no other rule and no other block claims the mail.  It is
\* lost to a crash, an error of mail or policy handling, or a pause before a retry.
CrossingsAreMailed ==
    (Unhurt({"policyError", "mailError", "crash"}) /\ ~({"edit", "alertError"} \subseteq faults.kinds)) =>
        \A r \in Rules : \A s \in DOMAIN riskRows :
            events[r][s] > 0 => \E i \in DOMAIN mails :
                /\ RuleId(mails[i][1]) = RuleId(r)
                /\ riskRows[mails[i][2]].sourceBlock = riskRows[s].sourceBlock
=============================================================================
