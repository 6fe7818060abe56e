----------------------------- MODULE AlertProofs -----------------------------
(***************************************************************************)
(* What the alert worker promises, for every set of rules and metrics,     *)
(* every concurrency and every number of snapshots: no rule is mailed      *)
(* twice for one snapshot, a rule fires once per breach, no crossing goes  *)
(* unrecorded and none unmailed but for the errors that are not retried.   *)
(*                                                                         *)
(* MailInv: a mail is sent by the one job that created the row of its key, *)
(* rows are never removed, and the job leaves the claimed step with the    *)
(* mail.  A job that dies there gives its claim up and never gets the key  *)
(* again.  FiringInv: what fired and what a job has listed to fire crossed *)
(* into breach.  RecordInv: how far each job has come with its crossings.  *)
(* PledgeInv: a stored event is owed a mail by some job until the mail's   *)
(* row exists, and that row is claimed by some job until the mail is sent. *)
(***************************************************************************)
EXTENDS AlertEvaluation, TLAPS

\* What the argument needs to know of the variables' types.
AlertJob == [snapshot : Nat, state : JobStates, attempts : Nat,
             stage : {"queued", "local", "policy"}, todo : SUBSET Rules,
             current : SUBSET Rules, step : {"next", "created", "claimed", "sent"}]

RulesOK ==
    /\ activeRules \subseteq Rules
    /\ policy \in [checks : SUBSET Rules, enabled : BOOLEAN]

RowsOK == riskRows \in Seq([metrics : [Metrics -> Values \cup {Null}], sourceBlock : 1..MaxHeight])

JobsOK ==
    /\ alertJobs \in Seq(AlertJob)
    /\ \A j \in DOMAIN alertJobs : alertJobs[j].snapshot \in DOMAIN riskRows

MailsOK ==
    /\ mails \in Seq(Rules \X Nat)
    /\ \A i \in DOMAIN mails : mails[i][2] \in DOMAIN riskRows

\* The dedupe key of a mail, and that job j has created the row of `key` and not yet mailed.
KeyOf(m) == DedupeKey(m[1], m[2])

Claims(j, key) ==
    /\ At(j, "claimed")
    /\ \E r \in alertJobs[j].current : key = DedupeKey(r, alertJobs[j].snapshot)

\* A job mails one crossing at a time; rows outlive their mails; a row stands for at most
\* one mail and, until that is sent, for at most one claim.
OneCurrent == \A j \in DOMAIN alertJobs : \A r, q \in alertJobs[j].current : r = q

KeysRecorded == \A i \in DOMAIN mails : KeyOf(mails[i]) \in DOMAIN notifications

KeysMailedOnce ==
    \A i, k \in DOMAIN mails : KeyOf(mails[i]) = KeyOf(mails[k]) => i = k

ClaimsRecorded ==
    \A j \in DOMAIN alertJobs : \A key : Claims(j, key) => key \in DOMAIN notifications

ClaimsUnmailed ==
    \A j \in DOMAIN alertJobs : \A i \in DOMAIN mails : ~Claims(j, KeyOf(mails[i]))

ClaimsExclusive ==
    \A j, l \in DOMAIN alertJobs : \A key : Claims(j, key) /\ Claims(l, key) => j = l

MailInv ==
    /\ RulesOK /\ RowsOK /\ JobsOK /\ MailsOK
    /\ OneCurrent
    /\ KeysRecorded /\ KeysMailedOnce
    /\ ClaimsRecorded /\ ClaimsUnmailed /\ ClaimsExclusive

-----------------------------------------------------------------------------
\* A registered policy asks for checks the evaluation knows.
LEMMA PoliciesAreRules == \A checks \in Policies : checks \subseteq Rules
  BY AlertAssumption DEF Rules

\* The initial tables are empty: there is nothing to be mailed twice.
LEMMA InitMailInv == Init => MailInv
  <1> SUFFICES ASSUME Init PROVE MailInv
    OBVIOUS
  <1>1. policy \in [checks : SUBSET Rules, enabled : BOOLEAN]
    <2>1. \A checks \in Policies : checks \in SUBSET Rules
      BY PoliciesAreRules
    <2> DEFINE accepted == {c \in Policies : PolicyInRange(c)}
    <2>2. \A checks \in accepted : checks \in SUBSET Rules
      BY <2>1
    <2>3. policy = NoPolicy \/ policy \in [checks : accepted, enabled : BOOLEAN]
      BY DEF Init
    <2> HIDE DEF accepted
    <2>4. CASE policy = NoPolicy
      BY <2>4 DEF NoPolicy
    <2>5. CASE policy \in [checks : accepted, enabled : BOOLEAN]
      BY <2>2, <2>5
    <2> QED BY <2>3, <2>4, <2>5
  <1> QED
    BY <1>1 DEF Init, MailInv, RulesOK, Rules, RowsOK, JobsOK, MailsOK, OneCurrent, KeysRecorded,
                KeysMailedOnce, ClaimsRecorded, ClaimsUnmailed, ClaimsExclusive

\* What most steps of the handler have in common: job j becomes `job`, which claims no key.
GivesClaimUp(j, job) ==
    /\ alertJobs' = [alertJobs EXCEPT ![j] = job]
    /\ job \in AlertJob
    /\ job.snapshot = alertJobs[j].snapshot
    /\ \A r, q \in job.current : r = q
    /\ job.state # "active" \/ job.step # "claimed"
    /\ DOMAIN notifications \subseteq DOMAIN notifications'
    /\ UNCHANGED << riskRows, mails, activeRules, policy >>

\* A step of one job that touches neither snapshots nor mails, and that may record a
\* key but not claim one, keeps the invariant: most steps of the handler.
LEMMA JobStepKeepsMailInv ==
  ASSUME MailInv, NEW j \in DOMAIN alertJobs, NEW job, GivesClaimUp(j, job)
  PROVE  MailInv'
  <1> USE DEF MailInv
  <1>1. RowsOK' /\ MailsOK' /\ RulesOK'
    BY DEF RowsOK, MailsOK, RulesOK, GivesClaimUp
  <1>2. /\ DOMAIN alertJobs' = DOMAIN alertJobs
        /\ alertJobs' \in Seq(AlertJob)
        /\ alertJobs'[j].snapshot = alertJobs[j].snapshot
        /\ \A r, q \in alertJobs'[j].current : r = q
        /\ ~At(j, "claimed")'
        /\ \A l \in DOMAIN alertJobs \ {j} : alertJobs'[l] = alertJobs[l]
        /\ DOMAIN notifications \subseteq DOMAIN notifications'
        /\ UNCHANGED << riskRows, mails >>
    BY DEF GivesClaimUp, JobsOK, At
  <1>3. JobsOK'
    BY <1>2 DEF JobsOK
  <1>4. OneCurrent'
    BY <1>2 DEF OneCurrent
  <1>5. \A m : KeyOf(m)' = KeyOf(m)
    BY <1>2 DEF KeyOf, DedupeKey
  <1>6. \A l \in DOMAIN alertJobs : \A key : Claims(l, key)' => Claims(l, key)
    BY <1>2 DEF Claims, At, DedupeKey
  <1>7. KeysRecorded' /\ KeysMailedOnce'
    BY <1>2, <1>5 DEF KeysRecorded, KeysMailedOnce
  <1>8. ClaimsRecorded' /\ ClaimsUnmailed' /\ ClaimsExclusive'
    <2>1. ClaimsRecorded'
      BY <1>2, <1>6 DEF ClaimsRecorded
    <2>2. ClaimsUnmailed'
      BY <1>2, <1>6, <1>5 DEF ClaimsUnmailed, KeyOf, DedupeKey
    <2>3. ClaimsExclusive'
      BY <1>2, <1>6 DEF ClaimsExclusive
    <2> QED BY <2>1, <2>2, <2>3
  <1> QED BY <1>1, <1>3, <1>4, <1>7, <1>8

\* Claiming: the key is new to the table, so no mail and no other job has it.
LEMMA ClaimMailKeepsMailInv ==
  ASSUME MailInv, NEW j \in DOMAIN alertJobs, ClaimMail(j)
  PROVE  MailInv'
  <1> USE DEF MailInv
  <1>1. PICK r \in alertJobs[j].current :
           /\ At(j, "created")
           /\ ~AlreadyQueued(DedupeKey(r, alertJobs[j].snapshot))
           /\ DOMAIN notifications' =
                 DOMAIN notifications \cup {DedupeKey(r, alertJobs[j].snapshot)}
           /\ alertJobs' = [alertJobs EXCEPT ![j].step = "claimed"]
           /\ UNCHANGED << riskRows, mails, activeRules, policy >>
    BY DEF ClaimMail
  <1> DEFINE new == DedupeKey(r, alertJobs[j].snapshot)
  <1>2. new \notin DOMAIN notifications
    BY <1>1 DEF AlreadyQueued
  <1>3. DOMAIN notifications' = DOMAIN notifications \cup {new}
    BY <1>1
  <1>4. /\ DOMAIN alertJobs' = DOMAIN alertJobs
        /\ alertJobs'[j] \in AlertJob
        /\ alertJobs'[j].snapshot = alertJobs[j].snapshot
        /\ alertJobs'[j].current = alertJobs[j].current
        /\ \A l \in DOMAIN alertJobs \ {j} : alertJobs'[l] = alertJobs[l]
    <2>1. alertJobs \in Seq(AlertJob) /\ alertJobs[j] \in AlertJob
      BY DEF JobsOK
    <2>2. alertJobs' = [alertJobs EXCEPT ![j] = [alertJobs[j] EXCEPT !.step = "claimed"]]
      BY <1>1, <2>1
    <2>3. [alertJobs[j] EXCEPT !.step = "claimed"] \in AlertJob
      BY <2>1 DEF AlertJob
    <2> QED BY <2>1, <2>2, <2>3 DEF AlertJob
  <1>5. RulesOK' /\ RowsOK' /\ MailsOK'
    BY <1>1 DEF RulesOK, RowsOK, MailsOK
  <1>6. JobsOK'
    BY <1>1, <1>4 DEF JobsOK
  <1>7. OneCurrent'
    BY <1>4 DEF OneCurrent
  <1>8. \A l \in DOMAIN alertJobs : \A key :
           Claims(l, key)' => (l = j /\ key = new) \/ (l # j /\ Claims(l, key))
    BY <1>1, <1>4 DEF Claims, At, DedupeKey, OneCurrent
  <1> HIDE DEF new
  <1>9. KeysRecorded' /\ KeysMailedOnce'
    BY <1>1, <1>3 DEF KeysRecorded, KeysMailedOnce, KeyOf, DedupeKey
  <1>10. ClaimsRecorded'
    BY <1>3, <1>4, <1>8 DEF ClaimsRecorded
  <1>11. ClaimsUnmailed'
    <2> SUFFICES ASSUME NEW l \in DOMAIN alertJobs, NEW i \in DOMAIN mails,
                        Claims(l, KeyOf(mails[i]))'
                 PROVE  FALSE
      BY <1>1, <1>4 DEF ClaimsUnmailed
    <2>1. KeyOf(mails[i])' = KeyOf(mails[i])
      BY <1>1 DEF KeyOf, DedupeKey
    <2>2. KeyOf(mails[i]) \in DOMAIN notifications
      BY DEF KeysRecorded
    <2> QED BY <1>2, <1>8, <2>1, <2>2 DEF ClaimsUnmailed
  <1>12. ClaimsExclusive'
    BY <1>2, <1>4, <1>8 DEF ClaimsExclusive, ClaimsRecorded
  <1> QED BY <1>5, <1>6, <1>7, <1>9, <1>10, <1>11, <1>12

\* Sending: the key is the job's own claim, which it gives up.
LEMMA SendMailKeepsMailInv ==
  ASSUME MailInv, NEW j \in DOMAIN alertJobs, SendMail(j)
  PROVE  MailInv'
  <1> USE DEF MailInv
  <1>1. PICK r \in alertJobs[j].current :
           /\ At(j, "claimed")
           /\ mails' = Append(mails, << r, alertJobs[j].snapshot >>)
           /\ alertJobs' = [alertJobs EXCEPT ![j].step = "sent"]
           /\ UNCHANGED << riskRows, notifications, activeRules, policy >>
    BY DEF SendMail
  <1> DEFINE mail == << r, alertJobs[j].snapshot >>
  <1>2. /\ DOMAIN alertJobs' = DOMAIN alertJobs
        /\ alertJobs'[j] \in AlertJob
        /\ alertJobs'[j].snapshot = alertJobs[j].snapshot
        /\ alertJobs'[j].current = alertJobs[j].current
        /\ alertJobs'[j].step = "sent"
        /\ \A l \in DOMAIN alertJobs \ {j} : alertJobs'[l] = alertJobs[l]
    <2>1. alertJobs \in Seq(AlertJob) /\ alertJobs[j] \in AlertJob
      BY DEF JobsOK
    <2>2. alertJobs' = [alertJobs EXCEPT ![j] = [alertJobs[j] EXCEPT !.step = "sent"]]
      BY <1>1, <2>1
    <2>3. [alertJobs[j] EXCEPT !.step = "sent"] \in AlertJob
      BY <2>1 DEF AlertJob
    <2> QED BY <2>1, <2>2, <2>3 DEF AlertJob
  <1>3. mail \in Rules \X Nat /\ mail[2] \in DOMAIN riskRows
    <2>1. alertJobs[j] \in AlertJob /\ alertJobs[j].snapshot \in DOMAIN riskRows
      BY DEF JobsOK
    <2>2. r \in Rules /\ alertJobs[j].snapshot \in Nat
      BY <2>1 DEF AlertJob
    <2> QED BY <2>1, <2>2
  <1>4. Claims(j, KeyOf(mail))
    BY <1>1 DEF Claims, KeyOf
  <1>5. \A m : KeyOf(m)' = KeyOf(m)
    BY <1>1 DEF KeyOf, DedupeKey
  <1>6. \A l \in DOMAIN alertJobs : \A key : Claims(l, key)' => l # j /\ Claims(l, key)
    BY <1>1, <1>2 DEF Claims, At, DedupeKey
  <1> HIDE DEF mail
  <1>7. /\ DOMAIN mails' = DOMAIN mails \cup {Len(mails) + 1}
        /\ Len(mails) + 1 \notin DOMAIN mails
        /\ mails'[Len(mails) + 1] = mail
        /\ \A i \in DOMAIN mails : mails'[i] = mails[i]
        /\ mails' \in Seq(Rules \X Nat)
    BY <1>1, <1>3 DEF MailsOK, mail
  <1>8. RowsOK' /\ JobsOK' /\ RulesOK'
    BY <1>1, <1>2 DEF RowsOK, JobsOK, RulesOK
  <1>9. MailsOK'
    BY <1>1, <1>3, <1>7 DEF MailsOK
  <1>10. OneCurrent'
    BY <1>2 DEF OneCurrent
  <1>11. \A i \in DOMAIN mails : KeyOf(mails[i]) # KeyOf(mail)
    BY <1>4 DEF ClaimsUnmailed
  <1>12. KeyOf(mail) \in DOMAIN notifications
    BY <1>4 DEF ClaimsRecorded
  <1>13. KeysRecorded'
    <2> SUFFICES ASSUME NEW i \in DOMAIN mails'
                 PROVE  KeyOf(mails'[i]) \in DOMAIN notifications
      BY <1>1, <1>5 DEF KeysRecorded
    <2> QED BY <1>7, <1>12 DEF KeysRecorded
  <1>14. KeysMailedOnce'
    <2> SUFFICES ASSUME NEW i \in DOMAIN mails', NEW k \in DOMAIN mails',
                        KeyOf(mails'[i]) = KeyOf(mails'[k])
                 PROVE  i = k
      BY <1>5 DEF KeysMailedOnce
    <2> QED BY <1>7, <1>11 DEF KeysMailedOnce
  <1>15. ClaimsRecorded'
    BY <1>1, <1>2, <1>6 DEF ClaimsRecorded
  <1>16. ClaimsUnmailed'
    <2> SUFFICES ASSUME NEW l \in DOMAIN alertJobs, NEW i \in DOMAIN mails',
                        Claims(l, KeyOf(mails[i]))'
                 PROVE  FALSE
      BY <1>2 DEF ClaimsUnmailed
    <2>1. l # j /\ Claims(l, KeyOf(mails'[i]))
      BY <1>5, <1>6
    <2>2. CASE i \in DOMAIN mails
      BY <2>1, <2>2, <1>7 DEF ClaimsUnmailed
    <2>3. CASE i = Len(mails) + 1
      BY <2>1, <2>3, <1>4, <1>7 DEF ClaimsExclusive
    <2> QED BY <2>2, <2>3, <1>7
  <1>17. ClaimsExclusive'
    BY <1>2, <1>6 DEF ClaimsExclusive
  <1> QED BY <1>8, <1>9, <1>10, <1>13, <1>14, <1>15, <1>16, <1>17

\* A new snapshot changes no key, and its job claims nothing.
LEMMA PersistSnapshotKeepsMailInv ==
  ASSUME MailInv, NEW m \in [Metrics -> Values \cup {Null}], NEW b \in 1..MaxHeight,
         PersistSnapshot(m, b)
  PROVE  MailInv'
  <1> USE DEF MailInv
  <1> DEFINE row == [metrics |-> m, sourceBlock |-> b]
             job == [snapshot |-> Len(riskRows) + 1, state |-> "waiting", attempts |-> 0,
                     stage |-> "queued", todo |-> {}, current |-> {}, step |-> "next"]
  <1>1. /\ riskRows' = Append(riskRows, row)
        /\ alertJobs' = Append(alertJobs, job)
        /\ UNCHANGED << mails, notifications, activeRules, policy >>
    BY DEF PersistSnapshot, output
  <1>2. /\ RowsOK'
        /\ DOMAIN riskRows' = DOMAIN riskRows \cup {Len(riskRows) + 1}
        /\ \A s \in DOMAIN riskRows : riskRows'[s] = riskRows[s]
    BY <1>1 DEF RowsOK
  <1>3. job \in AlertJob
    BY DEF RowsOK, AlertJob, JobStates
  <1>4. job.snapshot \in DOMAIN riskRows' /\ job.state # "active" /\ job.current = {}
    BY <1>2
  <1> HIDE DEF job, row
  <1>5. /\ DOMAIN alertJobs' = DOMAIN alertJobs \cup {Len(alertJobs) + 1}
        /\ Len(alertJobs) + 1 \notin DOMAIN alertJobs
        /\ alertJobs'[Len(alertJobs) + 1] = job
        /\ \A l \in DOMAIN alertJobs : alertJobs'[l] = alertJobs[l]
        /\ alertJobs' \in Seq(AlertJob)
    BY <1>1, <1>3 DEF JobsOK
  <1>6. JobsOK' /\ MailsOK'
    BY <1>1, <1>2, <1>4, <1>5 DEF JobsOK, MailsOK
  <1>7. OneCurrent' /\ RulesOK'
    BY <1>1, <1>4, <1>5 DEF OneCurrent, RulesOK
  <1>8. \A i \in DOMAIN mails : KeyOf(mails[i])' = KeyOf(mails[i])
    BY <1>1, <1>2 DEF KeyOf, DedupeKey, MailsOK
  <1>9. \A l \in DOMAIN alertJobs' : \A key : Claims(l, key)' => l \in DOMAIN alertJobs /\ Claims(l, key)
    BY <1>2, <1>4, <1>5 DEF Claims, At, DedupeKey, JobsOK
  <1>10. KeysRecorded'
    BY <1>1, <1>8 DEF KeysRecorded
  <1>11. KeysMailedOnce'
    BY <1>1, <1>8 DEF KeysMailedOnce
  <1>12. ClaimsRecorded' /\ ClaimsExclusive'
    BY <1>1, <1>9 DEF ClaimsRecorded, ClaimsExclusive
  <1>13. ClaimsUnmailed'
    BY <1>1, <1>8, <1>9 DEF ClaimsUnmailed
  <1> QED BY <1>2, <1>6, <1>7, <1>10, <1>11, <1>12, <1>13

\* Every step keeps the invariant.
LEMMA NextKeepsMailInv == MailInv /\ [Next]_vars => MailInv'
  <1> SUFFICES ASSUME MailInv, [Next]_vars
               PROVE  MailInv'
    OBVIOUS
  <1>1. CASE \E m \in [Metrics -> Values \cup {Null}], b \in 1..MaxHeight : PersistSnapshot(m, b)
    BY <1>1, PersistSnapshotKeepsMailInv
  <1>2. CASE \/ \E r \in LocalRules : UpdateStatus(r)
             \/ \E checks \in Policies : SetRiskPolicy(checks)
             \/ \E enabled \in BOOLEAN : SetPolicyEnabled(enabled)
             \/ DeleteRiskPolicy
             \/ UNCHANGED vars
    <2>1. /\ UNCHANGED << riskRows, alertJobs, notifications, mails >>
          /\ activeRules' \subseteq activeRules \cup Rules
      BY <1>2 DEF UpdateStatus, SetRiskPolicy, SetPolicyEnabled, DeleteRiskPolicy, output, vars, Rules
    <2>2. policy' \in [checks : SUBSET Rules, enabled : BOOLEAN]
      <3>1. policy \in [checks : SUBSET Rules, enabled : BOOLEAN]
        BY DEF MailInv, RulesOK
      <3>2. ASSUME NEW checks \in Policies, SetRiskPolicy(checks)
            PROVE  policy' \in [checks : SUBSET Rules, enabled : BOOLEAN]
        BY <3>2, PoliciesAreRules DEF SetRiskPolicy
      <3>3. ASSUME NEW enabled \in BOOLEAN, SetPolicyEnabled(enabled)
            PROVE  policy' \in [checks : SUBSET Rules, enabled : BOOLEAN]
        BY <3>1, <3>3 DEF SetPolicyEnabled
      <3>4. CASE DeleteRiskPolicy
        BY <3>4 DEF DeleteRiskPolicy, NoPolicy
      <3>5. CASE UNCHANGED policy
        BY <3>1, <3>5
      <3> QED BY <1>2, <3>2, <3>3, <3>4, <3>5 DEF UpdateStatus, vars
    <2> QED
      BY <2>1, <2>2 DEF MailInv, RulesOK, RowsOK, JobsOK, MailsOK, OneCurrent, KeysRecorded,
                        KeysMailedOnce, ClaimsRecorded, ClaimsUnmailed, ClaimsExclusive,
                        KeyOf, Claims, At, DedupeKey
  <1>3. ASSUME NEW j \in DOMAIN alertJobs,
               \/ AlertStep(j) \/ AlertThrows(j) \/ PolicyThrows(j)
               \/ MailFails(j) \/ CrashAlert(j)
        PROVE  MailInv'
    <2> DEFINE old == alertJobs[j]
    <2>1. /\ old \in AlertJob
          /\ \A r, q \in old.current : r = q
          /\ alertJobs \in Seq(AlertJob)
          /\ activeRules \subseteq Rules /\ policy \in [checks : SUBSET Rules, enabled : BOOLEAN]
      BY DEF MailInv, JobsOK, OneCurrent, RulesOK
    <2>2. CASE StartAlert(j)
      <3> DEFINE job == [old EXCEPT !.state = "active", !.stage = "local",
                                  !.todo = Crossed(j, activeRules), !.current = {}, !.step = "next"]
      <3>0. Crossed(j, activeRules) \in SUBSET Rules
        BY <2>1 DEF Crossed
      <3>1. /\ alertJobs' = [alertJobs EXCEPT ![j] = job]
            /\ DOMAIN notifications \subseteq DOMAIN notifications'
            /\ UNCHANGED << riskRows, mails, activeRules, policy >>
        BY <2>1, <2>2 DEF StartAlert, output
      <3>2. job \in AlertJob
        BY <2>1, <3>0 DEF AlertJob, JobStates
      <3>3. /\ job.snapshot = old.snapshot
            /\ \A p, q \in job.current : p = q
            /\ job.state # "active" \/ job.step # "claimed"
        BY <2>1, <2>2 DEF AlertJob, StartAlert, At
      <3> HIDE DEF job
      <3> QED BY <3>1, <3>2, <3>3, JobStepKeepsMailInv DEF GivesClaimUp
    <2>3. CASE ReadPolicy(j)
      <3> DEFINE job == [old EXCEPT !.stage = "policy",
                       !.todo = IF policy.enabled THEN Crossed(j, policy.checks) ELSE {}]
      <3>0. (IF policy.enabled THEN Crossed(j, policy.checks) ELSE {}) \in SUBSET Rules
        BY <2>1 DEF Crossed
      <3>1. /\ alertJobs' = [alertJobs EXCEPT ![j] = job]
            /\ DOMAIN notifications \subseteq DOMAIN notifications'
            /\ UNCHANGED << riskRows, mails, activeRules, policy >>
        BY <2>1, <2>3 DEF ReadPolicy, output
      <3>2. job \in AlertJob
        BY <2>1, <3>0 DEF AlertJob, JobStates
      <3>3. /\ job.snapshot = old.snapshot
            /\ \A p, q \in job.current : p = q
            /\ job.state # "active" \/ job.step # "claimed"
        BY <2>1, <2>3 DEF AlertJob, ReadPolicy, At
      <3> HIDE DEF job
      <3> QED BY <3>1, <3>2, <3>3, JobStepKeepsMailInv DEF GivesClaimUp
    <2>4. CASE CompleteAlert(j)
      <3> DEFINE job == [old EXCEPT !.state = "done"]
      <3>1. /\ alertJobs' = [alertJobs EXCEPT ![j] = job]
            /\ DOMAIN notifications \subseteq DOMAIN notifications'
            /\ UNCHANGED << riskRows, mails, activeRules, policy >>
        BY <2>1, <2>4 DEF CompleteAlert, output
      <3>2. job \in AlertJob
        BY <2>1 DEF AlertJob, JobStates
      <3>3. /\ job.snapshot = old.snapshot
            /\ \A p, q \in job.current : p = q
            /\ job.state # "active" \/ job.step # "claimed"
        BY <2>1, <2>4 DEF AlertJob, CompleteAlert, At
      <3> HIDE DEF job
      <3> QED BY <3>1, <3>2, <3>3, JobStepKeepsMailInv DEF GivesClaimUp
    <2>5. ASSUME NEW r \in Rules, CreateEvent(j, r) PROVE MailInv'
      <3> DEFINE job == [old EXCEPT !.todo = @ \ {r}, !.current = {r}, !.step = "created"]
      <3>0. /\ old.todo \ {r} \in SUBSET Rules
            /\ {r} \in SUBSET Rules
        BY <2>1, <2>5 DEF AlertJob
      <3>1. /\ alertJobs' = [alertJobs EXCEPT ![j] = job]
            /\ DOMAIN notifications \subseteq DOMAIN notifications'
            /\ UNCHANGED << riskRows, mails, activeRules, policy >>
        BY <2>1, <2>5 DEF CreateEvent, output
      <3>2. job \in AlertJob
        BY <2>1, <3>0 DEF AlertJob, JobStates
      <3>3. /\ job.snapshot = old.snapshot
            /\ \A p, q \in job.current : p = q
            /\ job.state # "active" \/ job.step # "claimed"
        BY <2>1, <2>5 DEF AlertJob, CreateEvent, At
      <3> HIDE DEF job
      <3> QED BY <3>1, <3>2, <3>3, JobStepKeepsMailInv DEF GivesClaimUp
    <2>6. CASE ClaimMail(j)
      BY <2>6, ClaimMailKeepsMailInv
    <2>7. CASE SkipMail(j)
      <3> DEFINE job == [old EXCEPT !.step = "next", !.current = {}]
      <3>1. /\ alertJobs' = [alertJobs EXCEPT ![j] = job]
            /\ DOMAIN notifications \subseteq DOMAIN notifications'
            /\ UNCHANGED << riskRows, mails, activeRules, policy >>
        BY <2>1, <2>7 DEF SkipMail, output
      <3>2. job \in AlertJob
        BY <2>1 DEF AlertJob, JobStates
      <3>3. /\ job.snapshot = old.snapshot
            /\ \A p, q \in job.current : p = q
            /\ job.state # "active" \/ job.step # "claimed"
        BY <2>1, <2>7 DEF AlertJob, SkipMail, At
      <3> HIDE DEF job
      <3> QED BY <3>1, <3>2, <3>3, JobStepKeepsMailInv DEF GivesClaimUp
    <2>8. CASE SendMail(j)
      BY <2>8, SendMailKeepsMailInv
    <2>9. CASE RecordMail(j)
      <3> DEFINE job == [old EXCEPT !.step = "next", !.current = {}]
      <3>1. /\ alertJobs' = [alertJobs EXCEPT ![j] = job]
            /\ DOMAIN notifications \subseteq DOMAIN notifications'
            /\ UNCHANGED << riskRows, mails, activeRules, policy >>
        BY <2>1, <2>9 DEF RecordMail, output
      <3>2. job \in AlertJob
        BY <2>1 DEF AlertJob, JobStates
      <3>3. /\ job.snapshot = old.snapshot
            /\ \A p, q \in job.current : p = q
            /\ job.state # "active" \/ job.step # "claimed"
        BY <2>1, <2>9 DEF AlertJob, RecordMail, At
      <3> HIDE DEF job
      <3> QED BY <3>1, <3>2, <3>3, JobStepKeepsMailInv DEF GivesClaimUp
    <2>10. CASE MailFails(j)
      <3> DEFINE job == [old EXCEPT !.step = "next", !.current = {}]
      <3>1. /\ alertJobs' = [alertJobs EXCEPT ![j] = job]
            /\ DOMAIN notifications \subseteq DOMAIN notifications'
            /\ UNCHANGED << riskRows, mails, activeRules, policy >>
        BY <2>1, <2>10 DEF MailFails, output
      <3>2. job \in AlertJob
        BY <2>1 DEF AlertJob, JobStates
      <3>3. /\ job.snapshot = old.snapshot
            /\ \A p, q \in job.current : p = q
            /\ job.state # "active" \/ job.step # "claimed"
        BY <2>1, <2>10 DEF AlertJob, MailFails, At
      <3> HIDE DEF job
      <3> QED BY <3>1, <3>2, <3>3, JobStepKeepsMailInv DEF GivesClaimUp
    <2>11. CASE AlertThrows(j)
      <3> DEFINE job == Thrown(old)
      <3>0. old.attempts + 1 \in Nat /\ (IF old.attempts + 1 < MaxAttempts THEN "delayed" ELSE "failed") \in JobStates
        BY <2>1 DEF AlertJob, JobStates
      <3>1. /\ alertJobs' = [alertJobs EXCEPT ![j] = job]
            /\ DOMAIN notifications \subseteq DOMAIN notifications'
            /\ UNCHANGED << riskRows, mails, activeRules, policy >>
        BY <2>1, <2>11 DEF AlertThrows, output, AlertThrown
      <3>2. job \in AlertJob
        BY <2>1, <3>0 DEF AlertJob, JobStates, Thrown
      <3>3. /\ job.snapshot = old.snapshot
            /\ \A p, q \in job.current : p = q
            /\ job.state # "active" \/ job.step # "claimed"
        BY <2>1, <2>11 DEF AlertJob, Thrown, AlertThrows, At
      <3> HIDE DEF job
      <3> QED BY <3>1, <3>2, <3>3, JobStepKeepsMailInv DEF GivesClaimUp
    <2>12. CASE PolicyThrows(j)
      <3> DEFINE job == [old EXCEPT !.state = "done"]
      <3>1. /\ alertJobs' = [alertJobs EXCEPT ![j] = job]
            /\ DOMAIN notifications \subseteq DOMAIN notifications'
            /\ UNCHANGED << riskRows, mails, activeRules, policy >>
        BY <2>1, <2>12 DEF PolicyThrows, output
      <3>2. job \in AlertJob
        BY <2>1 DEF AlertJob, JobStates
      <3>3. /\ job.snapshot = old.snapshot
            /\ \A p, q \in job.current : p = q
            /\ job.state # "active" \/ job.step # "claimed"
        BY <2>1, <2>12 DEF AlertJob, PolicyThrows, At
      <3> HIDE DEF job
      <3> QED BY <3>1, <3>2, <3>3, JobStepKeepsMailInv DEF GivesClaimUp
    <2>13. CASE CrashAlert(j)
      <3> DEFINE job == [old EXCEPT !.state = "waiting"]
      <3>1. /\ alertJobs' = [alertJobs EXCEPT ![j] = job]
            /\ DOMAIN notifications \subseteq DOMAIN notifications'
            /\ UNCHANGED << riskRows, mails, activeRules, policy >>
        BY <2>1, <2>13 DEF CrashAlert, output
      <3>2. job \in AlertJob
        BY <2>1 DEF AlertJob, JobStates
      <3>3. /\ job.snapshot = old.snapshot
            /\ \A p, q \in job.current : p = q
            /\ job.state # "active" \/ job.step # "claimed"
        BY <2>1, <2>13 DEF AlertJob, CrashAlert, At
      <3> HIDE DEF job
      <3> QED BY <3>1, <3>2, <3>3, JobStepKeepsMailInv DEF GivesClaimUp
    <2> QED
      BY <1>3, <2>2, <2>3, <2>4, <2>5, <2>6, <2>7, <2>8, <2>9, <2>10, <2>11, <2>12, <2>13
         DEF AlertStep
  <1> QED BY <1>1, <1>2, <1>3 DEF Next

-----------------------------------------------------------------------------
(* The steps of the handler, as changes of its job.                        *)

JobBecomes(j, state, attempts, stage, todo, current, step) ==
    /\ DOMAIN alertJobs' = DOMAIN alertJobs
    /\ alertJobs'[j].snapshot = alertJobs[j].snapshot
    /\ alertJobs'[j].state = state /\ alertJobs'[j].attempts = attempts
    /\ alertJobs'[j].stage = stage /\ alertJobs'[j].todo = todo
    /\ alertJobs'[j].current = current /\ alertJobs'[j].step = step
    /\ \A l \in DOMAIN alertJobs : l # j => alertJobs'[l] = alertJobs[l]

\* A job's record, and those of the others.
LEMMA JobTyped ==
    ASSUME MailInv, NEW j \in DOMAIN alertJobs
    PROVE  /\ alertJobs[j] \in AlertJob /\ alertJobs \in Seq(AlertJob)
           /\ alertJobs[j].snapshot \in DOMAIN riskRows
           /\ \A r, q \in alertJobs[j].current : r = q
           /\ alertJobs[j].todo \subseteq Rules /\ alertJobs[j].current \subseteq Rules
           /\ alertJobs[j].attempts \in Nat
<1>1. alertJobs \in Seq(AlertJob) /\ alertJobs[j].snapshot \in DOMAIN riskRows
  BY DEF MailInv, JobsOK
<1>2. alertJobs[j] \in AlertJob
  BY <1>1
<1> QED
  BY <1>1, <1>2 DEF MailInv, OneCurrent, AlertJob

\* An update of a job's fields.
LEMMA UpdatedJobBecomes ==
    ASSUME MailInv, NEW j \in DOMAIN alertJobs,
           NEW state, NEW attempts, NEW stage, NEW todo, NEW current, NEW step,
           alertJobs' = [alertJobs EXCEPT ![j] =
                            [alertJobs[j] EXCEPT !.state = state, !.attempts = attempts, !.stage = stage,
                                                 !.todo = todo, !.current = current, !.step = step]]
    PROVE  JobBecomes(j, state, attempts, stage, todo, current, step)
<1> DEFINE old == alertJobs[j]
           job == [old EXCEPT !.state = state, !.attempts = attempts, !.stage = stage,
                              !.todo = todo, !.current = current, !.step = step]
<1>1. old \in AlertJob /\ alertJobs \in Seq(AlertJob)
  BY JobTyped
<1>2. /\ job.snapshot = old.snapshot /\ job.state = state /\ job.attempts = attempts
      /\ job.stage = stage /\ job.todo = todo /\ job.current = current /\ job.step = step
  BY <1>1 DEF AlertJob
<1>3. alertJobs' = [alertJobs EXCEPT ![j] = job]
  OBVIOUS
<1> HIDE DEF job
<1>4. /\ DOMAIN alertJobs' = DOMAIN alertJobs /\ alertJobs'[j] = job
      /\ \A l \in DOMAIN alertJobs : l # j => alertJobs'[l] = alertJobs[l]
  BY <1>1, <1>3
<1> QED
  BY <1>2, <1>4 DEF JobBecomes

\* What each step makes of the job.
LEMMA HandlerSteps ==
    ASSUME MailInv, NEW j \in DOMAIN alertJobs, NEW old, old = alertJobs[j]
    PROVE  /\ StartAlert(j) =>
                 JobBecomes(j, "active", old.attempts, "local", Crossed(j, activeRules), {}, "next")
           /\ ReadPolicy(j) =>
                 JobBecomes(j, "active", old.attempts, "policy",
                            IF policy.enabled THEN Crossed(j, policy.checks) ELSE {}, old.current, "next")
           /\ CompleteAlert(j) \/ PolicyThrows(j) =>
                 JobBecomes(j, "done", old.attempts, old.stage, old.todo, old.current, old.step)
           /\ \A r \in Rules : CreateEvent(j, r) =>
                 JobBecomes(j, "active", old.attempts, old.stage, old.todo \ {r}, {r}, "created")
           /\ ClaimMail(j) =>
                 JobBecomes(j, "active", old.attempts, old.stage, old.todo, old.current, "claimed")
           /\ SkipMail(j) \/ RecordMail(j) \/ MailFails(j) =>
                 JobBecomes(j, "active", old.attempts, old.stage, old.todo, {}, "next")
           /\ SendMail(j) =>
                 JobBecomes(j, "active", old.attempts, old.stage, old.todo, old.current, "sent")
           /\ AlertThrows(j) =>
                 JobBecomes(j, IF old.attempts + 1 < MaxAttempts THEN "delayed" ELSE "failed",
                            old.attempts + 1, old.stage, old.todo, old.current, old.step)
           /\ CrashAlert(j) =>
                 JobBecomes(j, "waiting", old.attempts, old.stage, old.todo, old.current, old.step)
<1> DEFINE Updated(state, attempts, stage, todo, current, step) ==
               alertJobs' = [alertJobs EXCEPT ![j] =
                                [old EXCEPT !.state = state, !.attempts = attempts, !.stage = stage,
                                            !.todo = todo, !.current = current, !.step = step]]
<1>1. old \in AlertJob
  BY JobTyped
<1>2. ASSUME StartAlert(j)
      PROVE  Updated("active", old.attempts, "local", Crossed(j, activeRules), {}, "next")
  <2>1. alertJobs' = [alertJobs EXCEPT ![j] =
           [old EXCEPT !.state = "active", !.stage = "local", !.todo = Crossed(j, activeRules),
                       !.current = {}, !.step = "next"]]
    BY <1>2 DEF StartAlert
  <2> QED
    BY <1>1, <2>1 DEF AlertJob
<1>3. ASSUME ReadPolicy(j)
      PROVE  Updated("active", old.attempts, "policy",
                     IF policy.enabled THEN Crossed(j, policy.checks) ELSE {}, old.current, "next")
  <2> DEFINE todo == IF policy.enabled THEN Crossed(j, policy.checks) ELSE {}
  <2>1. /\ alertJobs' = [alertJobs EXCEPT ![j] = [old EXCEPT !.stage = "policy", !.todo = todo]]
        /\ old.state = "active" /\ old.step = "next"
    BY <1>3 DEF ReadPolicy, At
  <2> HIDE DEF todo
  <2>2. Updated("active", old.attempts, "policy", todo, old.current, "next")
    BY <1>1, <2>1 DEF AlertJob
  <2> QED
    BY <2>2 DEF todo
<1>4. ASSUME CompleteAlert(j) \/ PolicyThrows(j)
      PROVE  Updated("done", old.attempts, old.stage, old.todo, old.current, old.step)
  <2>1. alertJobs' = [alertJobs EXCEPT ![j] = [old EXCEPT !.state = "done"]]
    BY <1>4 DEF CompleteAlert, PolicyThrows
  <2> QED
    BY <1>1, <2>1 DEF AlertJob
<1>5. ASSUME NEW r \in Rules, CreateEvent(j, r)
      PROVE  Updated("active", old.attempts, old.stage, old.todo \ {r}, {r}, "created")
  <2>1. /\ alertJobs' = [alertJobs EXCEPT ![j] =
              [old EXCEPT !.todo = old.todo \ {r}, !.current = {r}, !.step = "created"]]
        /\ old.state = "active"
    BY <1>5 DEF CreateEvent, At
  <2> QED
    BY <1>1, <2>1 DEF AlertJob
<1>6. ASSUME ClaimMail(j)
      PROVE  Updated("active", old.attempts, old.stage, old.todo, old.current, "claimed")
  <2>1. /\ alertJobs' = [alertJobs EXCEPT ![j] = [old EXCEPT !.step = "claimed"]]
        /\ old.state = "active"
    BY <1>6 DEF ClaimMail, At
  <2> QED
    BY <1>1, <2>1 DEF AlertJob
<1>7. ASSUME SkipMail(j) \/ RecordMail(j) \/ MailFails(j)
      PROVE  Updated("active", old.attempts, old.stage, old.todo, {}, "next")
  <2>1. /\ alertJobs' = [alertJobs EXCEPT ![j] = [old EXCEPT !.step = "next", !.current = {}]]
        /\ old.state = "active"
    <3>1. CASE SkipMail(j)
      BY <3>1 DEF SkipMail, At
    <3>2. CASE RecordMail(j)
      BY <3>2 DEF RecordMail, At
    <3>3. CASE MailFails(j)
      BY <3>3 DEF MailFails, At
    <3> QED
      BY <1>7, <3>1, <3>2, <3>3
  <2> QED
    BY <1>1, <2>1 DEF AlertJob
<1>8. ASSUME SendMail(j)
      PROVE  Updated("active", old.attempts, old.stage, old.todo, old.current, "sent")
  <2>1. /\ alertJobs' = [alertJobs EXCEPT ![j] = [old EXCEPT !.step = "sent"]]
        /\ old.state = "active"
    BY <1>8 DEF SendMail, At
  <2> QED
    BY <1>1, <2>1 DEF AlertJob
<1>9. ASSUME AlertThrows(j)
      PROVE  Updated(IF old.attempts + 1 < MaxAttempts THEN "delayed" ELSE "failed",
                     old.attempts + 1, old.stage, old.todo, old.current, old.step)
  <2>1. alertJobs' = [alertJobs EXCEPT ![j] = Thrown(old)]
    BY <1>9 DEF AlertThrows, AlertThrown
  <2> QED
    BY <1>1, <2>1 DEF AlertJob, Thrown
<1>10. ASSUME CrashAlert(j)
       PROVE  Updated("waiting", old.attempts, old.stage, old.todo, old.current, old.step)
  <2>1. alertJobs' = [alertJobs EXCEPT ![j] = [old EXCEPT !.state = "waiting"]]
    BY <1>10 DEF CrashAlert
  <2> QED
    BY <1>1, <2>1 DEF AlertJob
<1> QED
  BY <1>2, <1>3, <1>4, <1>5, <1>6, <1>7, <1>8, <1>9, <1>10, UpdatedJobBecomes

-----------------------------------------------------------------------------
(* What fires has crossed into breach.                                     *)

EventsOK ==
    /\ events \in [Rules -> [1..MaxSnapshots -> Nat]]
    /\ Len(riskRows) <= MaxSnapshots

\* An event, and a rule a job has yet to fire, stand for a crossing.
FiresRight ==
    /\ \A r \in Rules : \A s \in 1..MaxSnapshots :
          events[r][s] > 0 => s \in DOMAIN riskRows /\ Entered(s, r)
    /\ \A j \in DOMAIN alertJobs : \A r \in alertJobs[j].todo : Entered(alertJobs[j].snapshot, r)

FiringInv == MailInv /\ EventsOK /\ FiresRight

\* The row before is the row of the number before.
LEMMA CrossingIsEntering ==
    ASSUME MailInv, NEW s \in DOMAIN riskRows, NEW r
    PROVE  CrossedIntoBreach(s, r) <=> Entered(s, r)
<1>1. DOMAIN riskRows = 1..Len(riskRows) /\ Len(riskRows) \in Nat
  BY DEF MailInv, RowsOK
<1>2. CASE s = 1
  <2>1. Previous(s) = {}
    BY <1>1, <1>2 DEF Previous
  <2> QED
    BY <1>2, <2>1 DEF CrossedIntoBreach, Entered
<1>3. CASE s # 1
  <2>1. s - 1 \in DOMAIN riskRows /\ s - 1 < s /\ \A q \in 1..(s - 1) : q <= s - 1
    BY <1>1, <1>3
  <2>2. \A p \in DOMAIN riskRows : (p < s /\ \A q \in 1..(s - 1) : q <= p) => p = s - 1
    <3> SUFFICES ASSUME NEW p \in DOMAIN riskRows, p < s, \A q \in 1..(s - 1) : q <= p
                 PROVE  p = s - 1
      OBVIOUS
    <3>1. s - 1 \in 1..(s - 1)
      BY <1>1, <1>3
    <3>2. s - 1 <= p
      BY <3>1
    <3> QED
      BY <1>1, <3>2
  <2>3. Previous(s) = {s - 1}
    BY <2>1, <2>2 DEF Previous
  <2> QED
    BY <1>3, <2>3 DEF CrossedIntoBreach, Entered
<1> QED
  BY <1>2, <1>3

\* A row once stored is never changed, so a crossing stays one.
LEMMA CrossingsAreStable ==
    ASSUME MailInv, NEW s \in DOMAIN riskRows, NEW r,
           DOMAIN riskRows \subseteq DOMAIN riskRows',
           \A t \in DOMAIN riskRows : riskRows'[t] = riskRows[t]
    PROVE  Entered(s, r)' <=> Entered(s, r)
<1>1. DOMAIN riskRows = 1..Len(riskRows) /\ Len(riskRows) \in Nat
  BY DEF MailInv, RowsOK
<1>2. s # 1 => s - 1 \in DOMAIN riskRows
  BY <1>1
<1> QED
  BY <1>2 DEF Entered, Breaches

\* No rule has fired and no job is queued.
LEMMA InitFiringInv == Init => FiringInv
<1> SUFFICES ASSUME Init PROVE FiringInv
  OBVIOUS
<1>1. MailInv
  BY InitMailInv
<1>2. events = [r \in Rules |-> [s \in 1..MaxSnapshots |-> 0]] /\ riskRows = << >> /\ alertJobs = << >>
  BY DEF Init
<1>3. EventsOK
  BY <1>2, AlertAssumption DEF EventsOK
<1>4. FiresRight
  BY <1>2 DEF FiresRight
<1> QED
  BY <1>1, <1>3, <1>4 DEF FiringInv

\* The rules of a set that crossed for the snapshot of a job.
LEMMA CrossedEntered ==
    ASSUME MailInv, NEW j \in DOMAIN alertJobs, NEW rules \in SUBSET Rules
    PROVE  /\ Crossed(j, rules) \subseteq rules
           /\ \A r \in rules : r \in Crossed(j, rules) <=> Entered(alertJobs[j].snapshot, r)
<1>1. alertJobs[j].snapshot \in DOMAIN riskRows
  BY JobTyped
<1> QED
  BY <1>1, CrossingIsEntering DEF Crossed

\* What a handler leaves alone.
LEMMA HandlerFrame ==
    ASSUME NEW j,
           \/ AlertStep(j) \/ AlertThrows(j) \/ PolicyThrows(j) \/ MailFails(j) \/ CrashAlert(j)
    PROVE  /\ UNCHANGED << riskRows, activeRules, policy >>
           /\ UNCHANGED events \/ \E r \in Rules : CreateEvent(j, r)
BY DEF AlertStep, StartAlert, ReadPolicy, CompleteAlert, CreateEvent, ClaimMail, SkipMail, SendMail,
       RecordMail, MailFails, AlertThrows, PolicyThrows, CrashAlert, output

\* A job lists a crossing when it starts or reads the policy, and strikes it when it fires.
LEMMA HandlerLists ==
    ASSUME MailInv, NEW j \in DOMAIN alertJobs,
           \/ AlertStep(j) \/ AlertThrows(j) \/ PolicyThrows(j) \/ MailFails(j) \/ CrashAlert(j)
    PROVE  /\ DOMAIN alertJobs' = DOMAIN alertJobs
           /\ \A l \in DOMAIN alertJobs : alertJobs'[l].snapshot = alertJobs[l].snapshot
           /\ \A l \in DOMAIN alertJobs : l # j => alertJobs'[l] = alertJobs[l]
           /\ \A r \in alertJobs'[j].todo :
                 r \in alertJobs[j].todo \/ Entered(alertJobs[j].snapshot, r)
<1> DEFINE old == alertJobs[j]
<1>1. /\ activeRules \in SUBSET Rules /\ policy.checks \in SUBSET Rules
  BY DEF MailInv, RulesOK
<1>2. \A r \in Crossed(j, activeRules) : Entered(old.snapshot, r)
  BY <1>1, CrossedEntered
<1>3. \A r \in Crossed(j, policy.checks) : Entered(old.snapshot, r)
  BY <1>1, CrossedEntered
<1>4. PICK state, attempts, stage, todo, current, step :
         /\ JobBecomes(j, state, attempts, stage, todo, current, step)
         /\ \A r \in todo : r \in old.todo \/ Entered(old.snapshot, r)
  <2>1. CASE StartAlert(j)
    BY <1>2, <2>1, HandlerSteps
  <2>2. CASE ReadPolicy(j)
    <3> DEFINE todo == IF policy.enabled THEN Crossed(j, policy.checks) ELSE {}
    <3>1. \A r \in todo : Entered(old.snapshot, r)
      BY <1>3
    <3>2. JobBecomes(j, "active", old.attempts, "policy", todo, old.current, "next")
      BY <2>2, HandlerSteps
    <3> QED
      BY <3>1, <3>2
  <2>3. CASE CompleteAlert(j) \/ PolicyThrows(j)
    BY <2>3, HandlerSteps
  <2>4. ASSUME NEW r \in Rules, CreateEvent(j, r)
        PROVE  \E state, attempts, stage, todo, current, step :
                   /\ JobBecomes(j, state, attempts, stage, todo, current, step)
                   /\ \A q \in todo : q \in old.todo \/ Entered(old.snapshot, q)
    <3>1. JobBecomes(j, "active", old.attempts, old.stage, old.todo \ {r}, {r}, "created")
      BY <2>4, HandlerSteps
    <3>2. \A q \in old.todo \ {r} : q \in old.todo
      OBVIOUS
    <3> QED
      BY <3>1, <3>2
  <2>5. CASE ClaimMail(j)
    BY <2>5, HandlerSteps
  <2>6. CASE SkipMail(j) \/ RecordMail(j) \/ MailFails(j)
    BY <2>6, HandlerSteps
  <2>7. CASE SendMail(j)
    BY <2>7, HandlerSteps
  <2>8. CASE AlertThrows(j)
    BY <2>8, HandlerSteps
  <2>9. CASE CrashAlert(j)
    BY <2>9, HandlerSteps
  <2> QED
    BY <2>1, <2>2, <2>3, <2>4, <2>5, <2>6, <2>7, <2>8, <2>9 DEF AlertStep
<1> QED
  BY <1>4 DEF JobBecomes

\* Every step keeps the invariant.
LEMMA NextKeepsFiringInv == FiringInv /\ [Next]_vars => FiringInv'
<1> SUFFICES ASSUME FiringInv, [Next]_vars
             PROVE  FiringInv'
  OBVIOUS
<1>1. MailInv /\ MailInv' /\ EventsOK /\ FiresRight
  BY NextKeepsMailInv DEF FiringInv
<1>2. ASSUME NEW m \in [Metrics -> Values \cup {Null}], NEW b \in 1..MaxHeight, PersistSnapshot(m, b)
      PROVE  EventsOK' /\ FiresRight'
  <2> DEFINE row == [metrics |-> m, sourceBlock |-> b]
             job == [snapshot |-> Len(riskRows) + 1, state |-> "waiting", attempts |-> 0,
                     stage |-> "queued", todo |-> {}, current |-> {}, step |-> "next"]
  <2>1. /\ riskRows' = Append(riskRows, row) /\ alertJobs' = Append(alertJobs, job)
        /\ Len(riskRows) < MaxSnapshots /\ UNCHANGED events
    BY <1>2 DEF PersistSnapshot, output
  <2>2. job.todo = {}
    OBVIOUS
  <2> HIDE DEF row, job
  <2>3. riskRows \in Seq([metrics : [Metrics -> Values \cup {Null}], sourceBlock : 1..MaxHeight])
        /\ alertJobs \in Seq(AlertJob)
    BY <1>1 DEF MailInv, RowsOK, JobsOK
  <2>4. /\ Len(riskRows') = Len(riskRows) + 1 /\ DOMAIN riskRows \subseteq DOMAIN riskRows'
        /\ \A t \in DOMAIN riskRows : riskRows'[t] = riskRows[t]
    BY <2>1, <2>3
  <2>5. /\ DOMAIN alertJobs' = DOMAIN alertJobs \cup {Len(alertJobs) + 1}
        /\ \A l \in DOMAIN alertJobs : alertJobs'[l] = alertJobs[l]
        /\ alertJobs'[Len(alertJobs) + 1] = job
    BY <2>1, <2>3
  <2>6. Len(riskRows) \in Nat
    BY <2>3
  <2>7. Len(riskRows') <= MaxSnapshots
    BY <2>1, <2>4, <2>6, AlertAssumption
  <2>8. EventsOK'
    BY <1>1, <2>1, <2>7 DEF EventsOK
  <2>9. \A s \in DOMAIN riskRows : \A r : Entered(s, r)' <=> Entered(s, r)
    BY <1>1, <2>4, CrossingsAreStable
  <2>10. \A r \in Rules : \A s \in 1..MaxSnapshots :
            events'[r][s] > 0 => s \in DOMAIN riskRows' /\ Entered(s, r)'
    BY <1>1, <2>1, <2>4, <2>9 DEF FiresRight
  <2>11. ASSUME NEW l \in DOMAIN alertJobs', NEW r \in alertJobs'[l].todo
         PROVE  /\ alertJobs'[l].snapshot \in DOMAIN riskRows
                /\ Entered(alertJobs'[l].snapshot, r)
    <3>1. l \in DOMAIN alertJobs
      BY <2>2, <2>5
    <3>2. alertJobs[l].snapshot \in DOMAIN riskRows /\ Entered(alertJobs[l].snapshot, r)
      BY <1>1, <2>5, <3>1, JobTyped DEF FiresRight
    <3> QED
      BY <2>5, <3>1, <3>2
  <2>12. ASSUME NEW l \in DOMAIN alertJobs', NEW r \in alertJobs'[l].todo,
                NEW s, s = alertJobs'[l].snapshot
         PROVE  Entered(s, r)'
    BY <2>9, <2>11, <2>12
  <2>13. (\A l \in DOMAIN alertJobs : \A r \in alertJobs[l].todo : Entered(alertJobs[l].snapshot, r))'
    BY <2>12 DEF Entered, Breaches
  <2> QED
    BY <2>8, <2>10, <2>13 DEF FiresRight
<1>3. ASSUME UNCHANGED << riskRows, alertJobs, events >>
      PROVE  EventsOK' /\ FiresRight'
  BY <1>1, <1>3 DEF EventsOK, FiresRight, Entered, Breaches
<1>4. ASSUME NEW j \in DOMAIN alertJobs,
             \/ AlertStep(j) \/ AlertThrows(j) \/ PolicyThrows(j) \/ MailFails(j) \/ CrashAlert(j)
      PROVE  EventsOK' /\ FiresRight'
  <2>1. UNCHANGED riskRows /\ (UNCHANGED events \/ \E r \in Rules : CreateEvent(j, r))
    BY <1>4, HandlerFrame
  <2>2. \A s, r : Entered(s, r)' <=> Entered(s, r)
    BY <2>1 DEF Entered, Breaches
  <2>3. (\A l \in DOMAIN alertJobs : \A r \in alertJobs[l].todo : Entered(alertJobs[l].snapshot, r))'
    <3>1. \A l \in DOMAIN alertJobs' : \A r \in alertJobs'[l].todo : Entered(alertJobs'[l].snapshot, r)
      BY <1>1, <1>4, HandlerLists DEF FiresRight
    <3> QED
      BY <2>1, <3>1 DEF Entered, Breaches
  <2>4. ASSUME UNCHANGED events
        PROVE  EventsOK' /\ FiresRight'
    <3>1. EventsOK'
      BY <1>1, <2>1, <2>4 DEF EventsOK
    <3>2. \A r \in Rules : \A s \in 1..MaxSnapshots :
             events'[r][s] > 0 => s \in DOMAIN riskRows' /\ Entered(s, r)'
      BY <1>1, <2>1, <2>2, <2>4 DEF FiresRight
    <3> QED
      BY <2>3, <3>1, <3>2 DEF FiresRight
  <2>5. ASSUME NEW r \in Rules, CreateEvent(j, r)
        PROVE  EventsOK' /\ FiresRight'
    <3> DEFINE s == alertJobs[j].snapshot
    <3>1. /\ events' = [events EXCEPT ![r][s] = @ + 1] /\ r \in alertJobs[j].todo
      BY <2>5 DEF CreateEvent
    <3>2. s \in DOMAIN riskRows /\ Entered(s, r)
      BY <1>1, <3>1, JobTyped DEF FiresRight
    <3>3. events \in [Rules -> [1..MaxSnapshots -> Nat]]
      BY <1>1 DEF EventsOK
    <3>4. s \in 1..MaxSnapshots
      <4>1. DOMAIN riskRows = 1..Len(riskRows) /\ Len(riskRows) \in Nat /\ Len(riskRows) <= MaxSnapshots
        BY <1>1 DEF MailInv, RowsOK, EventsOK
      <4> QED
        BY <3>2, <4>1, AlertAssumption
    <3> HIDE DEF s
    <3>5. events' \in [Rules -> [1..MaxSnapshots -> Nat]]
      <4>1. PICK f \in [1..MaxSnapshots -> Nat] : f = events[r]
        BY <3>3
      <4>2. f[s] \in Nat
        BY <3>4
      <4>3. PICK n \in Nat : n = f[s] + 1
        BY <4>2
      <4>4. [f EXCEPT ![s] = n] \in [1..MaxSnapshots -> Nat]
        OBVIOUS
      <4>5. events' = [events EXCEPT ![r] = [f EXCEPT ![s] = n]]
        BY <3>1, <4>1, <4>3
      <4> QED
        BY <3>3, <4>4, <4>5
    <3>6. \A q \in Rules : \A t \in 1..MaxSnapshots :
             (q = r /\ t = s) \/ events'[q][t] = events[q][t]
      BY <3>1, <3>3
    <3>7. EventsOK'
      BY <1>1, <2>1, <3>5 DEF EventsOK
    <3>8. \A q \in Rules : \A t \in 1..MaxSnapshots :
             events'[q][t] > 0 => t \in DOMAIN riskRows' /\ Entered(t, q)'
      BY <1>1, <2>1, <2>2, <3>2, <3>6 DEF FiresRight
    <3> QED
      BY <2>3, <3>7, <3>8 DEF FiresRight
  <2> QED
    BY <2>1, <2>4, <2>5
<1>5. CASE \/ \E r \in LocalRules : UpdateStatus(r)
           \/ \E checks \in Policies : SetRiskPolicy(checks)
           \/ \E enabled \in BOOLEAN : SetPolicyEnabled(enabled)
           \/ DeleteRiskPolicy
           \/ UNCHANGED vars
  <2>1. UNCHANGED << riskRows, alertJobs, events >>
    BY <1>5 DEF UpdateStatus, SetRiskPolicy, SetPolicyEnabled, DeleteRiskPolicy, output, vars
  <2> QED
    BY <1>1, <1>3, <2>1 DEF FiringInv
<1> QED
  BY <1>1, <1>2, <1>4, <1>5 DEF Next, FiringInv

\* The metric was out of breach just before the second crossing, and the first crossing
\* is not that snapshot.
LEMMA FiringInvFiresOnce == FiringInv => FiresOncePerBreach
<1> SUFFICES ASSUME FiringInv, NEW r \in Rules, NEW s \in DOMAIN riskRows, NEW t \in DOMAIN riskRows,
                    s < t, events[r][s] > 0, events[r][t] > 0
             PROVE  \E q \in (s + 1)..(t - 1) : ~Breaches(q, r)
  BY DEF FiresOncePerBreach
<1>1. DOMAIN riskRows = 1..Len(riskRows) /\ Len(riskRows) \in Nat /\ Len(riskRows) <= MaxSnapshots
  BY DEF FiringInv, MailInv, RowsOK, EventsOK
<1>2. s \in 1..MaxSnapshots /\ t \in 1..MaxSnapshots
  BY <1>1, AlertAssumption
<1>3. Entered(s, r) /\ Entered(t, r)
  BY <1>2 DEF FiringInv, FiresRight
<1>4. Breaches(s, r) /\ ~Breaches(t - 1, r)
  BY <1>1, <1>3 DEF Entered
<1>5. t - 1 # s
  BY <1>4
<1>6. t - 1 \in (s + 1)..(t - 1)
  BY <1>1, <1>5
<1> QED
  BY <1>4, <1>6

-----------------------------------------------------------------------------
(* Every crossing is recorded.                                             *)

\* The checks of the wallet's policy that are in force.
Checks == IF policy.enabled THEN policy.checks ELSE {}

\* Of `rules`, those that crossed for snapshot s have fired, but for those in `todo`.
Fired(evs, s, rules, todo) ==
    \A r \in rules : Entered(s, r) => r \in todo \/ evs[r][s] > 0

\* How far a job has come with its snapshot's crossings, if nobody edits rules or policy.
ProgressOf(job, evs, kinds) ==
    /\ job.state = "active" /\ job.stage = "local" =>
          Fired(evs, job.snapshot, LocalRules, job.todo)
    /\ (job.state = "active" /\ job.stage = "policy") \/ job.state = "done" =>
          Fired(evs, job.snapshot, LocalRules, {})
    /\ job.state = "active" /\ job.stage = "policy" =>
          Fired(evs, job.snapshot, Checks, job.todo)
    /\ job.state = "done" /\ "policyError" \notin kinds =>
          Fired(evs, job.snapshot, Checks, {})

FaultsOK == faults \in [count : 0..MaxFaults, kinds : SUBSET AllFaults]

\* The n-th job is about the n-th row.
JobPerRow ==
    /\ Len(alertJobs) = Len(riskRows)
    /\ \A j \in DOMAIN alertJobs : alertJobs[j].snapshot = j

\* An attempt is used up by a fault, and faults are fewer than attempts.
NoneFailed ==
    \A j \in DOMAIN alertJobs : alertJobs[j].attempts <= faults.count /\ alertJobs[j].state # "failed"

\* A job is at its local rules first.
LocalFirst ==
    /\ activeRules \subseteq LocalRules
    /\ \A j \in DOMAIN alertJobs :
          alertJobs[j].state = "active" =>
              \/ alertJobs[j].stage = "policy"
              \/ /\ alertJobs[j].stage = "local"
                 /\ alertJobs[j].todo \subseteq LocalRules /\ alertJobs[j].current \subseteq LocalRules

\* Left alone, all local rules are evaluated and none of their crossings is dropped.
Progress ==
    "edit" \notin faults.kinds =>
        /\ activeRules = LocalRules
        /\ \A j \in DOMAIN alertJobs : ProgressOf(alertJobs[j], events, faults.kinds)

RecordInv == FaultsOK /\ JobPerRow /\ NoneFailed /\ LocalFirst /\ Progress

\* No fault, no job.
LEMMA InitRecordInv == Init => RecordInv
<1> SUFFICES ASSUME Init PROVE RecordInv
  OBVIOUS
<1>1. riskRows = << >> /\ alertJobs = << >> /\ activeRules = LocalRules
      /\ faults = [count |-> 0, kinds |-> {}]
  BY DEF Init
<1>2. FaultsOK
  BY <1>1, AlertAssumption DEF FaultsOK
<1> QED
  BY <1>1, <1>2 DEF RecordInv, JobPerRow, NoneFailed, LocalFirst, Progress

\* Faults are only added.
LEMMA FaultsGrow ==
    ASSUME FaultsOK, [Next]_vars
    PROVE  /\ FaultsOK'
           /\ faults.kinds \subseteq faults'.kinds /\ faults.count <= faults'.count
<1>1. /\ faults.count \in Nat /\ faults.count <= MaxFaults /\ MaxFaults \in Nat
      /\ faults.kinds \subseteq AllFaults
  BY AlertAssumption DEF FaultsOK
<1>2. ASSUME NEW kind, Fault(kind)
      PROVE  /\ FaultsOK'
             /\ faults.kinds \subseteq faults'.kinds /\ faults.count <= faults'.count
  <2>1. /\ faults' = [count |-> faults.count + 1, kinds |-> faults.kinds \cup {kind}]
        /\ kind \in AllFaults /\ faults.count < MaxFaults
    BY <1>2, AlertAssumption DEF Fault
  <2>2. /\ faults'.count = faults.count + 1 /\ faults'.kinds = faults.kinds \cup {kind}
    BY <2>1
  <2>3. faults.count + 1 \in 0..MaxFaults
    BY <1>1, <2>1
  <2>4. faults.kinds \cup {kind} \in SUBSET AllFaults
    BY <1>1, <2>1
  <2>5. FaultsOK'
    BY <2>1, <2>3, <2>4 DEF FaultsOK
  <2> QED
    BY <1>1, <2>2, <2>5
<1>3. CASE UNCHANGED faults
  BY <1>1, <1>3 DEF FaultsOK
<1>4. CASE \E kind : Fault(kind)
  BY <1>2, <1>4
<1>5. UNCHANGED faults \/ \E kind : Fault(kind)
  BY DEF Next, vars, PersistSnapshot, UpdateStatus, SetRiskPolicy, SetPolicyEnabled, DeleteRiskPolicy,
         AlertStep, StartAlert, ReadPolicy, CompleteAlert, CreateEvent, ClaimMail, SkipMail, SendMail,
         RecordMail, AlertThrows, PolicyThrows, MailFails, CrashAlert
<1> QED
  BY <1>3, <1>4, <1>5

\* The snapshot of a job is one there can be events of.
LEMMA SnapshotInRange ==
    ASSUME FiringInv, NEW j \in DOMAIN alertJobs
    PROVE  alertJobs[j].snapshot \in DOMAIN riskRows /\ alertJobs[j].snapshot \in 1..MaxSnapshots
<1>1. DOMAIN riskRows = 1..Len(riskRows) /\ Len(riskRows) \in Nat /\ Len(riskRows) <= MaxSnapshots
  BY DEF FiringInv, MailInv, RowsOK, EventsOK
<1>2. alertJobs[j].snapshot \in DOMAIN riskRows
  BY JobTyped DEF FiringInv
<1> QED
  BY <1>1, <1>2, AlertAssumption

\* Events are only added, and firing adds one.
LEMMA EventsGrow ==
    ASSUME FiringInv, NEW j \in DOMAIN alertJobs,
           \/ AlertStep(j) \/ AlertThrows(j) \/ PolicyThrows(j) \/ MailFails(j) \/ CrashAlert(j)
    PROVE  /\ \A r \in Rules : \A s \in 1..MaxSnapshots : events[r][s] > 0 => events'[r][s] > 0
           /\ \A r \in Rules : CreateEvent(j, r) => events'[r][alertJobs[j].snapshot] > 0
<1>1. events \in [Rules -> [1..MaxSnapshots -> Nat]]
  BY DEF FiringInv, EventsOK
<1>2. ASSUME NEW r \in Rules, CreateEvent(j, r)
      PROVE  /\ \A q \in Rules : \A s \in 1..MaxSnapshots : events[q][s] > 0 => events'[q][s] > 0
             /\ events'[r][alertJobs[j].snapshot] > 0
  <2>1. PICK t \in 1..MaxSnapshots : t = alertJobs[j].snapshot
    BY SnapshotInRange
  <2>2. events' = [events EXCEPT ![r][t] = @ + 1]
    BY <1>2, <2>1 DEF CreateEvent
  <2>3. PICK f \in [1..MaxSnapshots -> Nat] : f = events[r]
    BY <1>1
  <2>4. PICK n \in Nat : n = f[t] + 1 /\ n > 0
    <3>1. f[t] \in Nat
      OBVIOUS
    <3> QED
      BY <3>1
  <2>5. events' = [events EXCEPT ![r] = [f EXCEPT ![t] = n]]
    BY <2>2, <2>3, <2>4
  <2>6. events'[r] = [f EXCEPT ![t] = n] /\ \A q \in Rules : q # r => events'[q] = events[q]
    BY <1>1, <2>5
  <2>7. events'[r][t] = n /\ \A s \in 1..MaxSnapshots : s # t => events'[r][s] = f[s]
    BY <2>6
  <2> QED
    BY <2>1, <2>3, <2>4, <2>6, <2>7
<1> QED
  BY <1>2, HandlerFrame

\* What has fired stays fired.
LEMMA FiredStays ==
    ASSUME NEW evs, NEW evs2, NEW s \in 1..MaxSnapshots, NEW rules \in SUBSET Rules, NEW todo,
           \A r \in Rules : \A t \in 1..MaxSnapshots : evs[r][t] > 0 => evs2[r][t] > 0,
           Fired(evs, s, rules, todo)
    PROVE  Fired(evs2, s, rules, todo)
BY DEF Fired

\* Checks are rules.
LEMMA ChecksAreRules == MailInv => Checks \subseteq Rules /\ LocalRules \subseteq Rules
BY DEF MailInv, RulesOK, Checks, Rules

\* So is what a job has come through, whatever else happens.
LEMMA ProgressStays ==
    ASSUME FiringInv, NEW j \in DOMAIN alertJobs, NEW evs, NEW kinds, NEW more, kinds \subseteq more,
           \A r \in Rules : \A t \in 1..MaxSnapshots : events[r][t] > 0 => evs[r][t] > 0,
           ProgressOf(alertJobs[j], events, kinds)
    PROVE  ProgressOf(alertJobs[j], evs, more)
<1>1. alertJobs[j].snapshot \in 1..MaxSnapshots
  BY SnapshotInRange
<1>2. Checks \in SUBSET Rules /\ LocalRules \in SUBSET Rules
  BY ChecksAreRules DEF FiringInv
<1>3. \A rules \in {Checks, LocalRules} : \A todo :
         Fired(events, alertJobs[j].snapshot, rules, todo) => Fired(evs, alertJobs[j].snapshot, rules, todo)
  BY <1>1, <1>2, FiredStays
<1> QED
  BY <1>3 DEF ProgressOf

\* An attempt that throws is paid for by the fault.
LEMMA HandlerFailsNone ==
    ASSUME MaxFaults < MaxAttempts, MailInv, FaultsOK, NoneFailed, [Next]_vars, NEW j \in DOMAIN alertJobs,
           \/ AlertStep(j) \/ AlertThrows(j) \/ PolicyThrows(j) \/ MailFails(j) \/ CrashAlert(j)
    PROVE  NoneFailed'
<1> DEFINE old == alertJobs[j]
<1>1. /\ faults.count \in Nat /\ faults'.count \in Nat /\ MaxFaults \in Nat /\ MaxAttempts \in Nat
      /\ faults'.count <= MaxFaults /\ faults.count <= faults'.count
  BY FaultsGrow, AlertAssumption, JobQueueAssumption DEF FaultsOK
<1>2. \A l \in DOMAIN alertJobs :
         alertJobs[l].attempts \in Nat /\ alertJobs[l].attempts <= faults'.count /\ alertJobs[l].state # "failed"
  BY <1>1, JobTyped DEF NoneFailed
<1>3. PICK state, attempts, stage, todo, current, step :
         /\ JobBecomes(j, state, attempts, stage, todo, current, step)
         /\ state # "failed" /\ attempts <= faults'.count
  <2>1. CASE AlertThrows(j)
    <3>1. /\ faults'.count = faults.count + 1
      BY <2>1 DEF AlertThrows, Fault
    <3>2. old.attempts \in Nat /\ old.attempts <= faults.count
      BY JobTyped DEF NoneFailed
    <3>3. old.attempts + 1 <= faults'.count /\ old.attempts + 1 < MaxAttempts
      BY <1>1, <3>1, <3>2
    <3>4. JobBecomes(j, "delayed", old.attempts + 1, old.stage, old.todo, old.current, old.step)
      BY <2>1, <3>3, HandlerSteps
    <3> QED
      BY <3>3, <3>4
  <2>2. CASE StartAlert(j)
    BY <1>2, <2>2, HandlerSteps
  <2>3. CASE ReadPolicy(j)
    BY <1>2, <2>3, HandlerSteps
  <2>4. CASE CompleteAlert(j) \/ PolicyThrows(j)
    BY <1>2, <2>4, HandlerSteps
  <2>5. ASSUME NEW r \in Rules, CreateEvent(j, r)
        PROVE  \E state, attempts, stage, todo, current, step :
                   /\ JobBecomes(j, state, attempts, stage, todo, current, step)
                   /\ state # "failed" /\ attempts <= faults'.count
    BY <1>2, <2>5, HandlerSteps
  <2>6. CASE ClaimMail(j)
    BY <1>2, <2>6, HandlerSteps
  <2>7. CASE SkipMail(j) \/ RecordMail(j) \/ MailFails(j)
    BY <1>2, <2>7, HandlerSteps
  <2>8. CASE SendMail(j)
    BY <1>2, <2>8, HandlerSteps
  <2>9. CASE CrashAlert(j)
    BY <1>2, <2>9, HandlerSteps
  <2> QED
    BY <2>1, <2>2, <2>3, <2>4, <2>5, <2>6, <2>7, <2>8, <2>9 DEF AlertStep
<1> QED
  BY <1>2, <1>3 DEF JobBecomes, NoneFailed

\* Rules of the policy come after the local ones.
LEMMA HandlerLocalFirst ==
    ASSUME MailInv, LocalFirst, NEW j \in DOMAIN alertJobs,
           \/ AlertStep(j) \/ AlertThrows(j) \/ PolicyThrows(j) \/ MailFails(j) \/ CrashAlert(j)
    PROVE  LocalFirst'
<1> DEFINE old == alertJobs[j]
           First(state, stage, todo, current) ==
               state = "active" =>
                   \/ stage = "policy"
                   \/ stage = "local" /\ todo \subseteq LocalRules /\ current \subseteq LocalRules
<1>1. PICK state, attempts, stage, todo, current, step :
         /\ JobBecomes(j, state, attempts, stage, todo, current, step)
         /\ First(state, stage, todo, current)
  <2>1. CASE StartAlert(j)
    <3>1. activeRules \in SUBSET Rules /\ activeRules \subseteq LocalRules
      BY DEF MailInv, RulesOK, LocalFirst
    <3>2. Crossed(j, activeRules) \subseteq LocalRules
      BY <3>1, CrossedEntered
    <3> QED
      BY <2>1, <3>2, HandlerSteps
  <2>2. CASE ReadPolicy(j)
    BY <2>2, HandlerSteps
  <2>3. CASE CompleteAlert(j) \/ PolicyThrows(j)
    <3>1. First("done", old.stage, old.todo, old.current)
      OBVIOUS
    <3> QED
      BY <2>3, <3>1, HandlerSteps
  <2>4. ASSUME NEW r \in Rules, CreateEvent(j, r)
        PROVE  \E state, attempts, stage, todo, current, step :
                   /\ JobBecomes(j, state, attempts, stage, todo, current, step)
                   /\ First(state, stage, todo, current)
    <3>1. old.state = "active" /\ r \in old.todo
      BY <2>4 DEF CreateEvent, At
    <3>2. First("active", old.stage, old.todo \ {r}, {r})
      BY <3>1 DEF LocalFirst
    <3>3. JobBecomes(j, "active", old.attempts, old.stage, old.todo \ {r}, {r}, "created")
      BY <2>4, HandlerSteps
    <3> HIDE DEF First
    <3> QED
      BY <3>2, <3>3
  <2>5. CASE ClaimMail(j)
    <3>1. First("active", old.stage, old.todo, old.current)
      BY <2>5 DEF ClaimMail, At, LocalFirst
    <3> QED
      BY <2>5, <3>1, HandlerSteps
  <2>6. CASE SkipMail(j) \/ RecordMail(j) \/ MailFails(j)
    <3>1. old.state = "active"
      BY <2>6 DEF SkipMail, RecordMail, MailFails, At
    <3>2. First("active", old.stage, old.todo, {})
      BY <3>1 DEF LocalFirst
    <3> QED
      BY <2>6, <3>2, HandlerSteps
  <2>7. CASE SendMail(j)
    <3>1. First("active", old.stage, old.todo, old.current)
      BY <2>7 DEF SendMail, At, LocalFirst
    <3> QED
      BY <2>7, <3>1, HandlerSteps
  <2>8. CASE AlertThrows(j)
    <3> DEFINE state == IF old.attempts + 1 < MaxAttempts THEN "delayed" ELSE "failed"
    <3>1. First(state, old.stage, old.todo, old.current)
      OBVIOUS
    <3> QED
      BY <2>8, <3>1, HandlerSteps
  <2>9. CASE CrashAlert(j)
    <3>1. First("waiting", old.stage, old.todo, old.current)
      OBVIOUS
    <3> QED
      BY <2>9, <3>1, HandlerSteps
  <2> QED
    BY <2>1, <2>2, <2>3, <2>4, <2>5, <2>6, <2>7, <2>8, <2>9 DEF AlertStep
<1>2. activeRules' = activeRules
  BY HandlerFrame
<1> QED
  BY <1>1, <1>2 DEF JobBecomes, LocalFirst

\* Undisturbed, a step of the handler drops no crossing.
LEMMA HandlerProgress ==
    ASSUME FiringInv, FaultsOK, NoneFailed, LocalFirst, Progress, [Next]_vars,
           "edit" \notin faults'.kinds, NEW j \in DOMAIN alertJobs,
           \/ AlertStep(j) \/ AlertThrows(j) \/ PolicyThrows(j) \/ MailFails(j) \/ CrashAlert(j)
    PROVE  ProgressOf(alertJobs'[j], events', faults'.kinds)
<1> DEFINE old == alertJobs[j]
           s == alertJobs[j].snapshot
           new == alertJobs'[j]
<1>1. MailInv /\ faults.kinds \subseteq faults'.kinds
  BY FaultsGrow DEF FiringInv
<1>2. activeRules = LocalRules /\ ProgressOf(old, events, faults.kinds)
  BY <1>1 DEF Progress
<1>3. ProgressOf(old, events', faults'.kinds)
  BY <1>1, <1>2, EventsGrow, ProgressStays
<1>4. LocalRules \in SUBSET Rules /\ Checks \in SUBSET Rules
  BY <1>1, ChecksAreRules
<1>5. new.snapshot = s
  BY <1>1, HandlerLists
<1>6. CASE StartAlert(j)
  <2>1. /\ new.state = "active" /\ new.stage = "local" /\ new.todo = Crossed(j, LocalRules)
    BY <1>1, <1>2, <1>6, HandlerSteps DEF JobBecomes
  <2>2. Fired(events', s, LocalRules, Crossed(j, LocalRules))
    BY <1>1, <1>4, CrossedEntered DEF Fired
  <2> QED
    BY <1>5, <2>1, <2>2 DEF ProgressOf
<1>7. CASE ReadPolicy(j)
  <2> DEFINE todo == IF policy.enabled THEN Crossed(j, policy.checks) ELSE {}
  <2>1. /\ new.state = "active" /\ new.stage = "policy" /\ new.todo = todo
    BY <1>1, <1>7, HandlerSteps DEF JobBecomes
  <2>2. old.state = "active" /\ old.stage = "local" /\ old.todo = {}
    BY <1>7 DEF ReadPolicy, At
  <2>3. Fired(events', s, LocalRules, {})
    BY <1>3, <2>2 DEF ProgressOf
  <2>4. Fired(events', s, Checks, todo)
    <3>1. CASE policy.enabled
      BY <1>1, <1>4, <3>1, CrossedEntered DEF Checks, Fired
    <3>2. CASE ~policy.enabled
      BY <3>2 DEF Checks, Fired
    <3> QED
      BY <3>1, <3>2
  <2> HIDE DEF todo
  <2> QED
    BY <1>5, <2>1, <2>3, <2>4 DEF ProgressOf
<1>8. CASE CompleteAlert(j)
  <2>1. new.state = "done"
    BY <1>1, <1>8, HandlerSteps DEF JobBecomes
  <2>2. old.state = "active" /\ old.stage = "policy" /\ old.todo = {}
    BY <1>8 DEF CompleteAlert, At
  <2>3. Fired(events', s, LocalRules, {}) /\ Fired(events', s, Checks, {})
    BY <1>3, <2>2 DEF ProgressOf
  <2> QED
    BY <1>5, <2>1, <2>3 DEF ProgressOf
<1>9. CASE PolicyThrows(j)
  <2>1. new.state = "done"
    BY <1>1, <1>9, HandlerSteps DEF JobBecomes
  <2>2. old.state = "active" /\ old.stage = "policy" /\ "policyError" \in faults'.kinds
    BY <1>9 DEF PolicyThrows, At, Fault
  <2>3. Fired(events', s, LocalRules, {})
    BY <1>3, <2>2 DEF ProgressOf
  <2> QED
    BY <1>5, <2>1, <2>2, <2>3 DEF ProgressOf
<1>10. ASSUME NEW r \in Rules, CreateEvent(j, r)
       PROVE  ProgressOf(new, events', faults'.kinds)
  <2>1. /\ new.state = "active" /\ new.stage = old.stage /\ new.todo = old.todo \ {r}
    BY <1>1, <1>10, HandlerSteps DEF JobBecomes
  <2>2. old.state = "active" /\ events'[r][s] > 0
    BY <1>10, EventsGrow DEF CreateEvent, At
  <2>3. \A rules : Fired(events', s, rules, old.todo) => Fired(events', s, rules, old.todo \ {r})
    BY <2>2 DEF Fired
  <2> QED
    BY <1>3, <1>5, <2>1, <2>2, <2>3 DEF ProgressOf
<1>11. CASE ClaimMail(j) \/ SkipMail(j) \/ SendMail(j) \/ RecordMail(j) \/ MailFails(j)
  <2>1. new.state = "active" /\ new.stage = old.stage /\ new.todo = old.todo
    BY <1>1, <1>11, HandlerSteps DEF JobBecomes
  <2>2. old.state = "active"
    BY <1>11 DEF ClaimMail, SkipMail, SendMail, RecordMail, MailFails, At
  <2> QED
    BY <1>3, <1>5, <2>1, <2>2 DEF ProgressOf
<1>12. CASE AlertThrows(j)
  <2>1. new.state \in {"delayed", "failed"}
    BY <1>1, <1>12, HandlerSteps DEF JobBecomes
  <2> QED
    BY <2>1 DEF ProgressOf
<1>13. CASE CrashAlert(j)
  <2>1. new.state = "waiting"
    BY <1>1, <1>13, HandlerSteps DEF JobBecomes
  <2> QED
    BY <2>1 DEF ProgressOf
<1> QED
  BY <1>6, <1>7, <1>8, <1>9, <1>10, <1>11, <1>12, <1>13 DEF AlertStep

\* Every step keeps the invariant.
LEMMA NextKeepsRecordInv ==
    ASSUME MaxFaults < MaxAttempts
    PROVE  FiringInv /\ RecordInv /\ [Next]_vars => RecordInv'
<1> SUFFICES ASSUME FiringInv, RecordInv, [Next]_vars
             PROVE  RecordInv'
  OBVIOUS
<1>1. /\ MailInv /\ FiringInv' /\ FaultsOK /\ JobPerRow /\ NoneFailed /\ LocalFirst /\ Progress
  BY NextKeepsFiringInv DEF FiringInv, RecordInv
<1>2. FaultsOK' /\ faults.kinds \subseteq faults'.kinds
  BY <1>1, FaultsGrow
<1>3. ASSUME NEW m \in [Metrics -> Values \cup {Null}], NEW b \in 1..MaxHeight, PersistSnapshot(m, b)
      PROVE  RecordInv'
  <2> DEFINE row == [metrics |-> m, sourceBlock |-> b]
             job == [snapshot |-> Len(riskRows) + 1, state |-> "waiting", attempts |-> 0,
                     stage |-> "queued", todo |-> {}, current |-> {}, step |-> "next"]
  <2>1. /\ riskRows' = Append(riskRows, row) /\ alertJobs' = Append(alertJobs, job)
        /\ UNCHANGED << events, faults, activeRules, policy >>
    BY <1>3 DEF PersistSnapshot, output
  <2>2. job.snapshot = Len(riskRows) + 1 /\ job.state = "waiting" /\ job.attempts = 0
    OBVIOUS
  <2> HIDE DEF row, job
  <2>3. riskRows \in Seq([metrics : [Metrics -> Values \cup {Null}], sourceBlock : 1..MaxHeight])
        /\ alertJobs \in Seq(AlertJob)
    BY <1>1 DEF MailInv, RowsOK, JobsOK
  <2>4. /\ Len(riskRows') = Len(riskRows) + 1 /\ DOMAIN riskRows \subseteq DOMAIN riskRows'
        /\ \A t \in DOMAIN riskRows : riskRows'[t] = riskRows[t]
    BY <2>1, <2>3
  <2>5. /\ DOMAIN alertJobs' = DOMAIN alertJobs \cup {Len(alertJobs) + 1}
        /\ Len(alertJobs') = Len(alertJobs) + 1
        /\ \A l \in DOMAIN alertJobs : alertJobs'[l] = alertJobs[l]
        /\ alertJobs'[Len(alertJobs) + 1] = job
    BY <2>1, <2>3
  <2>6. JobPerRow'
    BY <1>1, <2>2, <2>4, <2>5 DEF JobPerRow
  <2>7. NoneFailed'
    <3>1. 0 <= faults.count
      BY <1>1 DEF FaultsOK
    <3> QED
      BY <1>1, <2>1, <2>2, <2>5, <3>1 DEF NoneFailed
  <2>8. LocalFirst'
    BY <1>1, <2>1, <2>2, <2>5 DEF LocalFirst
  <2>9. \A l \in DOMAIN alertJobs : \A r :
           Entered(alertJobs[l].snapshot, r)' <=> Entered(alertJobs[l].snapshot, r)
    <3> SUFFICES ASSUME NEW l \in DOMAIN alertJobs, NEW r
                 PROVE  Entered(alertJobs[l].snapshot, r)' <=> Entered(alertJobs[l].snapshot, r)
      OBVIOUS
    <3>1. PICK t \in DOMAIN riskRows : t = alertJobs[l].snapshot
      BY <1>1, JobTyped
    <3>2. Entered(t, r)' <=> Entered(t, r)
      BY <1>1, <2>4, CrossingsAreStable
    <3>3. alertJobs'[l].snapshot = t
      BY <2>5, <3>1
    <3> QED
      BY <3>1, <3>2, <3>3 DEF Entered, Breaches
  <2>10. Progress'
    <3> SUFFICES ASSUME "edit" \notin faults'.kinds, NEW l \in DOMAIN alertJobs'
                 PROVE  activeRules' = LocalRules /\ ProgressOf(alertJobs[l], events, faults.kinds)'
      <4>1. CASE alertJobs' = << >>
        BY <2>5, <4>1
      <4> QED
        BY <2>5 DEF Progress
    <3>1. activeRules' = LocalRules /\ \A k \in DOMAIN alertJobs : ProgressOf(alertJobs[k], events, faults.kinds)
      BY <1>1, <2>1 DEF Progress
    <3>2. CASE l \in DOMAIN alertJobs
      BY <2>1, <2>5, <2>9, <3>1, <3>2 DEF ProgressOf, Fired, Checks
    <3>3. CASE l = Len(alertJobs) + 1
      BY <2>2, <2>5, <3>1, <3>3 DEF ProgressOf
    <3> QED
      BY <2>5, <3>2, <3>3
  <2> QED
    BY <1>2, <2>6, <2>7, <2>8, <2>10 DEF RecordInv
<1>4. ASSUME UNCHANGED << riskRows, alertJobs, events >>, faults.count <= faults'.count,
             activeRules' \subseteq LocalRules,
             UNCHANGED vars \/ "edit" \in faults'.kinds
      PROVE  RecordInv'
  <2>1. JobPerRow'
    BY <1>1, <1>4 DEF JobPerRow
  <2>2. NoneFailed'
    <3>1. \A j \in DOMAIN alertJobs : alertJobs[j].attempts \in Nat
      BY <1>1, JobTyped
    <3>2. faults.count \in Nat /\ faults'.count \in Nat
      BY <1>1, <1>2, AlertAssumption DEF FaultsOK
    <3> QED
      BY <1>1, <1>4, <3>1, <3>2 DEF NoneFailed
  <2>3. LocalFirst'
    BY <1>1, <1>4 DEF LocalFirst
  <2>4. Progress'
    <3>1. CASE UNCHANGED vars
      BY <1>1, <3>1 DEF vars, Progress, ProgressOf, Fired, Checks, Entered, Breaches
    <3>2. CASE "edit" \in faults'.kinds
      BY <3>2 DEF Progress
    <3> QED
      BY <1>4, <3>1, <3>2
  <2> QED
    BY <1>2, <2>1, <2>2, <2>3, <2>4 DEF RecordInv
<1>5. CASE \/ \E r \in LocalRules : UpdateStatus(r)
           \/ \E checks \in Policies : SetRiskPolicy(checks)
           \/ \E enabled \in BOOLEAN : SetPolicyEnabled(enabled)
           \/ DeleteRiskPolicy
           \/ UNCHANGED vars
  <2>1. /\ UNCHANGED << riskRows, alertJobs, events >>
        /\ UNCHANGED vars \/ "edit" \in faults'.kinds
    BY <1>5 DEF UpdateStatus, SetRiskPolicy, SetPolicyEnabled, DeleteRiskPolicy, output, vars, Fault
  <2>2. activeRules' \subseteq LocalRules
    <3>1. activeRules \subseteq LocalRules
      BY <1>1 DEF LocalFirst
    <3>2. CASE \E r \in LocalRules : UpdateStatus(r)
      BY <3>1, <3>2 DEF UpdateStatus
    <3>3. CASE UNCHANGED activeRules
      BY <3>1, <3>3
    <3> QED
      BY <1>5, <3>2, <3>3 DEF SetRiskPolicy, SetPolicyEnabled, DeleteRiskPolicy, vars
  <2>3. faults.count <= faults'.count
    BY <1>1, FaultsGrow
  <2> QED
    BY <1>4, <2>1, <2>2, <2>3
<1>6. ASSUME NEW j \in DOMAIN alertJobs,
             \/ AlertStep(j) \/ AlertThrows(j) \/ PolicyThrows(j) \/ MailFails(j) \/ CrashAlert(j)
      PROVE  RecordInv'
  <2>1. NoneFailed' /\ LocalFirst'
    BY <1>1, <1>6, HandlerFailsNone, HandlerLocalFirst
  <2>2. /\ UNCHANGED << riskRows, activeRules, policy >>
        /\ DOMAIN alertJobs' = DOMAIN alertJobs
        /\ \A l \in DOMAIN alertJobs : alertJobs'[l].snapshot = alertJobs[l].snapshot
        /\ \A l \in DOMAIN alertJobs : l # j => alertJobs'[l] = alertJobs[l]
    BY <1>1, <1>6, HandlerFrame, HandlerLists
  <2>3. JobPerRow'
    <3>1. Len(alertJobs') = Len(alertJobs)
      <4>1. alertJobs \in Seq(AlertJob) /\ alertJobs' \in Seq(AlertJob)
        BY <1>1 DEF FiringInv, MailInv, JobsOK
      <4> QED
        BY <2>2, <4>1
    <3> QED
      BY <1>1, <2>2, <3>1 DEF JobPerRow
  <2>4. Progress'
    <3>1. ASSUME "edit" \notin faults'.kinds, NEW l \in DOMAIN alertJobs
          PROVE  ProgressOf(alertJobs'[l], events', faults'.kinds)
      <4>1. ProgressOf(alertJobs[l], events, faults.kinds)
        BY <1>1, <1>2, <3>1 DEF Progress
      <4>2. CASE l = j
        BY <1>1, <1>6, <3>1, <4>2, HandlerProgress
      <4>3. CASE l # j
        <5>1. ProgressOf(alertJobs[l], events', faults'.kinds)
          BY <1>2, <1>6, <4>1, EventsGrow, ProgressStays
        <5> QED
          BY <2>2, <4>3, <5>1
      <4> QED
        BY <4>2, <4>3
    <3>2. "edit" \notin faults'.kinds => activeRules' = LocalRules
      BY <1>1, <1>2, <2>2 DEF Progress
    <3> QED
      BY <2>2, <3>1, <3>2 DEF Progress, ProgressOf, Fired, Checks, Entered, Breaches
  <2> QED
    BY <1>2, <2>1, <2>3, <2>4 DEF RecordInv
<1> QED
  BY <1>3, <1>5, <1>6 DEF Next

\* Settled jobs are done, as none has failed, and there is one for each row.
LEMMA RecordInvRecordsCrossings == FiringInv /\ RecordInv => CrossingsAreRecorded
<1> SUFFICES ASSUME FiringInv, RecordInv, Unhurt({"edit"}), NEW s \in DOMAIN riskRows
             PROVE  /\ \A r \in LocalRules : Entered(s, r) => events[r][s] > 0
                    /\ policy.enabled /\ "policyError" \notin faults.kinds =>
                          \A c \in policy.checks : Entered(s, c) => events[c][s] > 0
  BY DEF CrossingsAreRecorded
<1>1. s \in DOMAIN alertJobs /\ alertJobs[s].snapshot = s
  <2>1. /\ DOMAIN riskRows = 1..Len(riskRows) /\ DOMAIN alertJobs = 1..Len(alertJobs)
    BY DEF FiringInv, MailInv, RowsOK, JobsOK
  <2> QED
    BY <2>1 DEF RecordInv, JobPerRow
<1>2. alertJobs[s].state = "done"
  BY <1>1 DEF Unhurt, Settled, RecordInv, NoneFailed
<1>3. ProgressOf(alertJobs[s], events, faults.kinds)
  BY <1>1 DEF Unhurt, RecordInv, Progress
<1> QED
  BY <1>1, <1>2, <1>3 DEF ProgressOf, Fired, Checks

-----------------------------------------------------------------------------
(* What fired is mailed.                                                   *)

\* No fault so far loses a mail for good.
Unlost(kinds) ==
    /\ kinds \cap {"policyError", "mailError", "crash"} = {}
    /\ ~({"edit", "alertError"} \subseteq kinds)

MailedAs(ms, key) == \E i \in DOMAIN ms : KeyOf(ms[i]) = key

\* The job has created the row of `key` and will mail it.
ClaimedBy(job, key) ==
    /\ job.state = "active" /\ job.step = "claimed"
    /\ \E r \in job.current : key = DedupeKey(r, job.snapshot)

\* The job will get to claiming the mail of r for snapshot s: it has just stored the
\* event, or it is to evaluate the local rules again after an attempt that threw.
Owes(job, r, s, kinds) ==
    /\ job.snapshot = s
    /\ \/ job.state = "active" /\ job.step = "created" /\ r \in job.current
       \/ /\ r \in LocalRules /\ "alertError" \in kinds
          /\ \/ job.state = "delayed"
             \/ job.state = "active" /\ job.stage = "local" /\ r \in job.todo

NotesPledged ==
    Unlost(faults.kinds) =>
        \A key \in DOMAIN notifications :
            MailedAs(mails, key) \/ \E j \in DOMAIN alertJobs : ClaimedBy(alertJobs[j], key)

EventsPledged ==
    Unlost(faults.kinds) =>
        \A r \in Rules : \A s \in DOMAIN riskRows :
            events[r][s] > 0 =>
                \/ DedupeKey(r, s) \in DOMAIN notifications
                \/ \E j \in DOMAIN alertJobs : Owes(alertJobs[j], r, s, faults.kinds)

PledgeInv == NotesPledged /\ EventsPledged

\* Nothing is noted and nothing has fired.
LEMMA InitPledgeInv == Init => PledgeInv
<1> SUFFICES ASSUME Init PROVE PledgeInv
  OBVIOUS
<1>1. DOMAIN notifications = {} /\ riskRows = << >>
  BY DEF Init
<1> QED
  BY <1>1 DEF PledgeInv, NotesPledged, EventsPledged

\* Faults that lose nothing have lost nothing before.
LEMMA UnlostBefore == \A more : \A kinds \in SUBSET more : Unlost(more) => Unlost(kinds)
BY DEF Unlost

\* Which steps of a handler lose a mail, and where the others are.
LEMMA HandlerUnlost ==
    ASSUME NEW j, Unlost(faults'.kinds),
           \/ AlertStep(j) \/ AlertThrows(j) \/ PolicyThrows(j) \/ MailFails(j) \/ CrashAlert(j)
    PROVE  \/ /\ AlertThrows(j) \/ StartAlert(j) \/ ReadPolicy(j) \/ CompleteAlert(j)
                 \/ SkipMail(j) \/ \E r \in Rules : CreateEvent(j, r)
              /\ UNCHANGED << notifications, mails >>
              /\ ~At(j, "claimed")
           \/ /\ RecordMail(j) /\ ~At(j, "claimed") /\ UNCHANGED mails
              /\ DOMAIN notifications' = DOMAIN notifications
           \/ ClaimMail(j) /\ ~At(j, "claimed") /\ UNCHANGED mails
           \/ SendMail(j) /\ UNCHANGED notifications
<1>1. ~PolicyThrows(j) /\ ~MailFails(j) /\ ~CrashAlert(j)
  BY DEF Unlost, PolicyThrows, MailFails, CrashAlert, Fault
<1>2. CASE AlertThrows(j)
  BY <1>2 DEF AlertThrows, At, output
<1>3. CASE StartAlert(j)
  BY <1>3 DEF StartAlert, Startable, At, output
<1>4. CASE ReadPolicy(j) \/ CompleteAlert(j) \/ SkipMail(j)
  BY <1>4 DEF ReadPolicy, CompleteAlert, SkipMail, At, output
<1>5. CASE \E r \in Rules : CreateEvent(j, r)
  BY <1>5 DEF CreateEvent, At
<1>6. CASE RecordMail(j)
  BY <1>6 DEF RecordMail, At
<1>7. CASE ClaimMail(j)
  BY <1>7 DEF ClaimMail, At
<1>8. CASE SendMail(j)
  BY <1>8 DEF SendMail
<1> QED
  BY <1>1, <1>2, <1>3, <1>4, <1>5, <1>6, <1>7, <1>8 DEF AlertStep

\* A row is created with a claim, and a claim is given up with the mail.
LEMMA HandlerKeepsNotes ==
    ASSUME MailInv, NotesPledged, Unlost(faults.kinds), Unlost(faults'.kinds), NEW j \in DOMAIN alertJobs,
           \/ AlertStep(j) \/ AlertThrows(j) \/ PolicyThrows(j) \/ MailFails(j) \/ CrashAlert(j)
    PROVE  NotesPledged'
<1>1. /\ UNCHANGED riskRows /\ DOMAIN alertJobs' = DOMAIN alertJobs
      /\ \A l \in DOMAIN alertJobs : l # j => alertJobs'[l] = alertJobs[l]
      /\ alertJobs'[j].snapshot = alertJobs[j].snapshot
  BY HandlerFrame, HandlerLists
<1>2. \A key \in DOMAIN notifications :
         MailedAs(mails, key) \/ \E l \in DOMAIN alertJobs : ClaimedBy(alertJobs[l], key)
  BY DEF NotesPledged
<1> SUFFICES ASSUME NEW key \in DOMAIN notifications'
             PROVE  MailedAs(mails', key) \/ \E l \in DOMAIN alertJobs' : ClaimedBy(alertJobs'[l], key)
  BY <1>1 DEF NotesPledged, MailedAs, ClaimedBy, KeyOf, DedupeKey
<1>3. ASSUME ~At(j, "claimed"), UNCHANGED mails, key \in DOMAIN notifications
      PROVE  MailedAs(mails', key) \/ \E l \in DOMAIN alertJobs' : ClaimedBy(alertJobs'[l], key)
  <2>1. ~ClaimedBy(alertJobs[j], key)
    BY <1>3 DEF ClaimedBy, At
  <2> QED
    BY <1>1, <1>2, <1>3, <2>1
<1>4. CASE ClaimMail(j) /\ ~At(j, "claimed") /\ UNCHANGED mails
  <2>1. PICK r \in alertJobs[j].current :
           DOMAIN notifications' = DOMAIN notifications \cup {DedupeKey(r, alertJobs[j].snapshot)}
    BY <1>4 DEF ClaimMail
  <2>2. /\ alertJobs'[j].state = "active" /\ alertJobs'[j].step = "claimed"
        /\ alertJobs'[j].current = alertJobs[j].current
    BY <1>4, HandlerSteps DEF JobBecomes
  <2>3. ClaimedBy(alertJobs'[j], DedupeKey(r, alertJobs[j].snapshot))
    BY <1>1, <2>2 DEF ClaimedBy
  <2> QED
    BY <1>1, <1>3, <1>4, <2>1, <2>3
<1>5. CASE SendMail(j) /\ UNCHANGED notifications
  <2>1. PICK r \in alertJobs[j].current : mails' = Append(mails, << r, alertJobs[j].snapshot >>)
    BY <1>5 DEF SendMail
  <2> DEFINE mail == << r, alertJobs[j].snapshot >>
  <2>2. mails \in Seq(Rules \X Nat)
    BY DEF MailInv, MailsOK
  <2>3. KeyOf(mail) = DedupeKey(r, alertJobs[j].snapshot)
    BY DEF KeyOf
  <2> HIDE DEF mail
  <2>4. /\ Len(mails) + 1 \in DOMAIN mails' /\ mails'[Len(mails) + 1] = mail
        /\ DOMAIN mails \subseteq DOMAIN mails'
        /\ \A i \in DOMAIN mails : mails'[i] = mails[i]
    BY <2>1, <2>2 DEF mail
  <2>5. CASE MailedAs(mails, key)
    BY <2>4, <2>5 DEF MailedAs
  <2>6. CASE ClaimedBy(alertJobs[j], key)
    <3>1. key = KeyOf(mail)
      BY <2>3, <2>6, JobTyped DEF ClaimedBy
    <3> QED
      BY <2>4, <3>1 DEF MailedAs
  <2> QED
    BY <1>1, <1>2, <1>5, <2>5, <2>6
<1> QED
  BY <1>3, <1>4, <1>5, HandlerUnlost

\* What a job owes it claims or goes on owing.
LEMMA HandlerPaysDebts ==
    ASSUME MaxFaults < MaxAttempts, FiringInv, RecordInv, [Next]_vars, Unlost(faults'.kinds),
           NEW j \in DOMAIN alertJobs, NEW r \in Rules, NEW s \in DOMAIN riskRows,
           \/ AlertStep(j) \/ AlertThrows(j) \/ PolicyThrows(j) \/ MailFails(j) \/ CrashAlert(j),
           events[r][s] > 0, Owes(alertJobs[j], r, s, faults.kinds)
    PROVE  \/ DedupeKey(r, s) \in DOMAIN notifications'
           \/ Owes(alertJobs'[j], r, s, faults'.kinds)
<1> DEFINE old == alertJobs[j]
           new == alertJobs'[j]
           Listed == /\ r \in LocalRules /\ "alertError" \in faults.kinds
                     /\ old.state = "active" /\ old.stage = "local" /\ r \in old.todo
<1>1. /\ MailInv /\ FaultsOK /\ NoneFailed /\ LocalFirst /\ Progress
      /\ faults.kinds \subseteq faults'.kinds
  BY FaultsGrow DEF FiringInv, RecordInv
<1>2. old.snapshot = s /\ new.snapshot = s
  BY <1>1, HandlerLists DEF Owes
<1>3. Entered(s, r)
  <2>1. s \in 1..MaxSnapshots
    BY <1>2, SnapshotInRange
  <2> QED
    BY <2>1 DEF FiringInv, FiresRight
<1>4. CASE StartAlert(j)
  <2>1. old.state # "active"
    BY <1>4 DEF StartAlert, Startable
  <2>2. r \in LocalRules /\ "alertError" \in faults.kinds
    BY <2>1 DEF Owes
  <2>3. "edit" \notin faults.kinds
    BY <1>1, <2>2 DEF Unlost
  <2>4. activeRules = LocalRules /\ activeRules \in SUBSET Rules
    BY <1>1, <2>3 DEF Progress, MailInv, RulesOK
  <2>5. r \in Crossed(j, activeRules)
    BY <1>1, <1>2, <1>3, <2>2, <2>4, CrossedEntered
  <2>6. new.state = "active" /\ new.stage = "local" /\ new.todo = Crossed(j, activeRules)
    BY <1>1, <1>4, HandlerSteps DEF JobBecomes
  <2> QED
    BY <1>1, <1>2, <2>2, <2>5, <2>6 DEF Owes
<1>5. CASE ReadPolicy(j) \/ CompleteAlert(j)
  <2>1. old.state = "active" /\ old.step = "next" /\ old.todo = {}
    BY <1>5 DEF ReadPolicy, CompleteAlert, At
  <2> QED
    BY <2>1 DEF Owes
<1>6. ASSUME NEW q \in Rules, CreateEvent(j, q)
      PROVE  Owes(new, r, s, faults'.kinds)
  <2>1. old.state = "active" /\ old.step = "next"
    BY <1>6 DEF CreateEvent, At
  <2>2. Listed
    BY <2>1 DEF Owes
  <2>3. /\ new.state = "active" /\ new.stage = old.stage /\ new.todo = old.todo \ {q}
        /\ new.current = {q} /\ new.step = "created"
    BY <1>1, <1>6, HandlerSteps DEF JobBecomes
  <2> QED
    BY <1>1, <1>2, <2>2, <2>3 DEF Owes
<1>7. ASSUME Listed, ClaimMail(j) \/ SkipMail(j) \/ SendMail(j) \/ RecordMail(j)
      PROVE  Owes(new, r, s, faults'.kinds)
  <2>1. new.state = "active" /\ new.stage = old.stage /\ new.todo = old.todo
    BY <1>1, <1>7, HandlerSteps DEF JobBecomes
  <2> QED
    BY <1>1, <1>2, <1>7, <2>1 DEF Owes
<1>8. CASE ClaimMail(j) \/ SkipMail(j)
  <2>1. old.state = "active"
    BY <1>8 DEF ClaimMail, SkipMail, At
  <2>2. CASE r \in old.current
    <3>1. \A q \in old.current : q = r
      BY <1>1, <2>2, JobTyped
    <3>2. CASE ClaimMail(j)
      <4>1. PICK q \in old.current :
               DOMAIN notifications' = DOMAIN notifications \cup {DedupeKey(q, old.snapshot)}
        BY <3>2 DEF ClaimMail
      <4> QED
        BY <1>2, <3>1, <4>1
    <3>3. CASE SkipMail(j)
      <4>1. PICK q \in old.current : AlreadyQueued(DedupeKey(q, old.snapshot))
        BY <3>3 DEF SkipMail
      <4>2. UNCHANGED notifications
        BY <3>3 DEF SkipMail, output
      <4> QED
        BY <1>2, <3>1, <4>1, <4>2 DEF AlreadyQueued
    <3> QED
      BY <1>8, <3>2, <3>3
  <2>3. CASE r \notin old.current
    <3>1. Listed
      BY <2>1, <2>3 DEF Owes
    <3> QED
      BY <1>7, <1>8, <3>1
  <2> QED
    BY <2>2, <2>3
<1>9. CASE SendMail(j) \/ RecordMail(j)
  <2>1. old.state = "active" /\ old.step # "created"
    BY <1>9 DEF SendMail, RecordMail, At
  <2>2. Listed
    BY <2>1 DEF Owes
  <2> QED
    BY <1>7, <1>9, <2>2
<1>10. CASE AlertThrows(j)
  <2>1. old.state = "active" /\ old.stage = "local" /\ "alertError" \in faults'.kinds
    BY <1>10 DEF AlertThrows, At, Fault
  <2>2. r \in LocalRules
    BY <1>1, <2>1 DEF Owes, LocalFirst
  <2>3. new.state \in {"delayed", "failed"} /\ new.state # "failed"
    <3>1. new.state \in {"delayed", "failed"}
      BY <1>1, <1>10, HandlerSteps DEF JobBecomes
    <3>2. NoneFailed' /\ DOMAIN alertJobs' = DOMAIN alertJobs
      BY <1>1, <1>10, HandlerFailsNone, HandlerLists
    <3> QED
      BY <3>1, <3>2 DEF NoneFailed
  <2> QED
    BY <1>2, <2>1, <2>2, <2>3 DEF Owes
<1> QED
  BY <1>4, <1>5, <1>6, <1>8, <1>9, <1>10, HandlerUnlost

\* An event is owed from the step that stores it.
LEMMA HandlerKeepsEvents ==
    ASSUME MaxFaults < MaxAttempts, FiringInv, RecordInv, EventsPledged, [Next]_vars,
           Unlost(faults.kinds), Unlost(faults'.kinds), NEW j \in DOMAIN alertJobs,
           \/ AlertStep(j) \/ AlertThrows(j) \/ PolicyThrows(j) \/ MailFails(j) \/ CrashAlert(j)
    PROVE  EventsPledged'
<1>1. MailInv /\ faults.kinds \subseteq faults'.kinds
  BY FaultsGrow DEF FiringInv, RecordInv
<1>2. /\ UNCHANGED riskRows /\ DOMAIN alertJobs' = DOMAIN alertJobs
      /\ \A l \in DOMAIN alertJobs : l # j => alertJobs'[l] = alertJobs[l]
      /\ alertJobs'[j].snapshot = alertJobs[j].snapshot
  BY <1>1, HandlerFrame, HandlerLists
<1>3. DOMAIN notifications \subseteq DOMAIN notifications'
  <2>1. ClaimMail(j) => DOMAIN notifications \subseteq DOMAIN notifications'
    BY DEF ClaimMail
  <2> QED
    BY <2>1, HandlerUnlost
<1>4. ASSUME NEW r \in Rules, NEW s \in DOMAIN riskRows, events'[r][s] > 0
      PROVE  \/ DedupeKey(r, s) \in DOMAIN notifications'
             \/ \E l \in DOMAIN alertJobs' : Owes(alertJobs'[l], r, s, faults'.kinds)
  <2>1. CASE events[r][s] > 0
    <3>1. CASE DedupeKey(r, s) \in DOMAIN notifications
      BY <1>3, <3>1
    <3>2. ASSUME NEW l \in DOMAIN alertJobs, Owes(alertJobs[l], r, s, faults.kinds)
          PROVE  \/ DedupeKey(r, s) \in DOMAIN notifications'
                 \/ \E k \in DOMAIN alertJobs' : Owes(alertJobs'[k], r, s, faults'.kinds)
      <4>1. CASE l = j
        BY <1>2, <2>1, <3>2, <4>1, HandlerPaysDebts
      <4>2. CASE l # j
        <5>1. Owes(alertJobs[l], r, s, faults'.kinds)
          BY <1>1, <3>2 DEF Owes
        <5> QED
          BY <1>2, <4>2, <5>1
      <4> QED
        BY <4>1, <4>2
    <3> QED
      BY <2>1, <3>1, <3>2 DEF EventsPledged
  <2>2. CASE ~(events[r][s] > 0)
    <3>1. PICK q \in Rules : CreateEvent(j, q)
      BY <1>4, <2>2, HandlerFrame
    <3>2. r = q /\ s = alertJobs[j].snapshot
      <4>1. events \in [Rules -> [1..MaxSnapshots -> Nat]]
        BY DEF FiringInv, EventsOK
      <4>2. PICK t \in 1..MaxSnapshots : t = alertJobs[j].snapshot
        BY SnapshotInRange
      <4>3. PICK f \in [1..MaxSnapshots -> Nat] : f = events[q]
        BY <4>1
      <4>4. PICK n : n = f[t] + 1
        OBVIOUS
      <4>5. events' = [events EXCEPT ![q] = [f EXCEPT ![t] = n]]
        BY <3>1, <4>2, <4>3, <4>4 DEF CreateEvent
      <4>6. s \in 1..MaxSnapshots
        <5>1. DOMAIN riskRows = 1..Len(riskRows) /\ Len(riskRows) \in Nat /\ Len(riskRows) <= MaxSnapshots
          BY DEF FiringInv, MailInv, RowsOK, EventsOK
        <5> QED
          BY <5>1, AlertAssumption
      <4>7. r # q => events'[r] = events[r]
        BY <4>1, <4>5
      <4>8. r = q
        BY <1>4, <2>2, <4>7
      <4>9. s # t => events'[r][s] = events[r][s]
        BY <4>1, <4>3, <4>5, <4>6, <4>8
      <4> QED
        BY <1>4, <2>2, <4>2, <4>8, <4>9
    <3>3. /\ alertJobs'[j].state = "active" /\ alertJobs'[j].step = "created"
          /\ alertJobs'[j].current = {q}
      BY <1>1, <3>1, HandlerSteps DEF JobBecomes
    <3> QED
      BY <1>2, <3>2, <3>3 DEF Owes
  <2> QED
    BY <2>1, <2>2
<1> QED
  BY <1>2, <1>4 DEF EventsPledged, Owes, DedupeKey

\* Every step keeps the invariant.
LEMMA NextKeepsPledgeInv ==
    ASSUME MaxFaults < MaxAttempts
    PROVE  FiringInv /\ RecordInv /\ PledgeInv /\ [Next]_vars => PledgeInv'
<1> SUFFICES ASSUME FiringInv, RecordInv, PledgeInv, [Next]_vars, Unlost(faults'.kinds)
             PROVE  PledgeInv'
  BY DEF PledgeInv, NotesPledged, EventsPledged
<1>1. /\ MailInv /\ NotesPledged /\ EventsPledged /\ EventsOK /\ FiresRight
      /\ faults.kinds \subseteq faults'.kinds
  BY FaultsGrow DEF FiringInv, RecordInv, PledgeInv
<1>2. Unlost(faults.kinds)
  BY <1>1, UnlostBefore
<1>3. ASSUME NEW m \in [Metrics -> Values \cup {Null}], NEW b \in 1..MaxHeight, PersistSnapshot(m, b)
      PROVE  PledgeInv'
  <2> DEFINE row == [metrics |-> m, sourceBlock |-> b]
             job == [snapshot |-> Len(riskRows) + 1, state |-> "waiting", attempts |-> 0,
                     stage |-> "queued", todo |-> {}, current |-> {}, step |-> "next"]
  <2>1. /\ riskRows' = Append(riskRows, row) /\ alertJobs' = Append(alertJobs, job)
        /\ UNCHANGED << events, faults, notifications, mails >>
    BY <1>3 DEF PersistSnapshot, output
  <2> HIDE DEF row, job
  <2>2. riskRows \in Seq([metrics : [Metrics -> Values \cup {Null}], sourceBlock : 1..MaxHeight])
        /\ alertJobs \in Seq(AlertJob)
    BY <1>1 DEF MailInv, RowsOK, JobsOK
  <2>3. /\ \A t \in DOMAIN riskRows : riskRows'[t] = riskRows[t]
        /\ DOMAIN alertJobs \subseteq DOMAIN alertJobs'
        /\ \A l \in DOMAIN alertJobs : alertJobs'[l] = alertJobs[l]
    BY <2>1, <2>2
  <2>4. \A i \in DOMAIN mails : mails[i][2] \in DOMAIN riskRows
    BY <1>1 DEF MailInv, MailsOK
  <2>5. \A l \in DOMAIN alertJobs : alertJobs[l].snapshot \in DOMAIN riskRows
    BY <1>1, JobTyped
  <2>6. NotesPledged'
    <3> SUFFICES ASSUME NEW key \in DOMAIN notifications
                 PROVE  MailedAs(mails, key)' \/ \E l \in DOMAIN alertJobs' : ClaimedBy(alertJobs[l], key)'
      BY <2>1 DEF NotesPledged, MailedAs, ClaimedBy, KeyOf, DedupeKey
    <3>1. CASE MailedAs(mails, key)
      BY <2>1, <2>3, <2>4, <3>1 DEF MailedAs, KeyOf, DedupeKey
    <3>2. ASSUME NEW l \in DOMAIN alertJobs, ClaimedBy(alertJobs[l], key)
          PROVE  ClaimedBy(alertJobs[l], key)'
      BY <2>3, <2>5, <3>2 DEF ClaimedBy, DedupeKey
    <3> QED
      BY <1>1, <1>2, <2>3, <3>1, <3>2 DEF NotesPledged
  <2>7. EventsPledged'
    <3> SUFFICES ASSUME NEW r \in Rules, NEW s \in DOMAIN riskRows', events[r][s] > 0
                 PROVE  \/ DedupeKey(r, s)' \in DOMAIN notifications
                        \/ \E l \in DOMAIN alertJobs' : Owes(alertJobs'[l], r, s, faults.kinds)
      BY <2>1 DEF EventsPledged, Owes
    <3>1. s \in DOMAIN riskRows
      <4>1. s \in 1..MaxSnapshots
        <5>1. /\ DOMAIN riskRows' = 1..Len(riskRows') /\ Len(riskRows') = Len(riskRows) + 1
              /\ Len(riskRows) \in Nat
          BY <2>1, <2>2
        <5>2. Len(riskRows) < MaxSnapshots
          BY <1>3 DEF PersistSnapshot
        <5> QED
          BY <5>1, <5>2, AlertAssumption
      <4> QED
        BY <1>1, <4>1 DEF FiresRight
    <3>2. DedupeKey(r, s)' = DedupeKey(r, s)
      BY <2>3, <3>1 DEF DedupeKey
    <3> QED
      BY <1>1, <1>2, <2>3, <3>1, <3>2 DEF EventsPledged
  <2> QED
    BY <2>6, <2>7 DEF PledgeInv
<1>4. CASE \/ \E r \in LocalRules : UpdateStatus(r)
           \/ \E checks \in Policies : SetRiskPolicy(checks)
           \/ \E enabled \in BOOLEAN : SetPolicyEnabled(enabled)
           \/ DeleteRiskPolicy
           \/ UNCHANGED vars
  <2>1. UNCHANGED << riskRows, alertJobs, events, notifications, mails >>
    BY <1>4 DEF UpdateStatus, SetRiskPolicy, SetPolicyEnabled, DeleteRiskPolicy, output, vars
  <2>2. NotesPledged'
    BY <1>1, <1>2, <2>1 DEF NotesPledged, MailedAs, ClaimedBy, KeyOf, DedupeKey
  <2>3. \A r, s : \A l \in DOMAIN alertJobs :
           Owes(alertJobs[l], r, s, faults.kinds) => Owes(alertJobs[l], r, s, faults'.kinds)
    BY <1>1 DEF Owes
  <2>4. \A r \in Rules : \A s \in DOMAIN riskRows : events[r][s] > 0 =>
           \/ DedupeKey(r, s) \in DOMAIN notifications
           \/ \E l \in DOMAIN alertJobs : Owes(alertJobs[l], r, s, faults'.kinds)
    BY <1>1, <1>2, <2>3 DEF EventsPledged
  <2>5. EventsPledged'
    BY <2>1, <2>4 DEF EventsPledged, Owes, DedupeKey
  <2> QED
    BY <2>2, <2>5 DEF PledgeInv
<1>5. ASSUME NEW j \in DOMAIN alertJobs,
             \/ AlertStep(j) \/ AlertThrows(j) \/ PolicyThrows(j) \/ MailFails(j) \/ CrashAlert(j)
      PROVE  PledgeInv'
  BY <1>1, <1>2, <1>5, HandlerKeepsNotes, HandlerKeepsEvents DEF PledgeInv
<1> QED
  BY <1>3, <1>4, <1>5 DEF Next

\* Settled jobs claim and owe nothing any more.
LEMMA PledgeInvMailsCrossings == FiringInv /\ PledgeInv => CrossingsAreMailed
<1> SUFFICES ASSUME FiringInv, PledgeInv, Unhurt({"policyError", "mailError", "crash"}),
                    ~({"edit", "alertError"} \subseteq faults.kinds),
                    NEW r \in Rules, NEW s \in DOMAIN riskRows, events[r][s] > 0
             PROVE  \E i \in DOMAIN mails :
                        /\ RuleId(mails[i][1]) = RuleId(r)
                        /\ riskRows[mails[i][2]].sourceBlock = riskRows[s].sourceBlock
  BY DEF CrossingsAreMailed
<1>1. Unlost(faults.kinds) /\ Settled(alertJobs)
  BY DEF Unhurt, Unlost
<1>2. \A j \in DOMAIN alertJobs :
         /\ \A key : ~ClaimedBy(alertJobs[j], key)
         /\ ~Owes(alertJobs[j], r, s, faults.kinds)
  BY <1>1 DEF Settled, ClaimedBy, Owes
<1>3. DedupeKey(r, s) \in DOMAIN notifications
  BY <1>1, <1>2 DEF PledgeInv, EventsPledged
<1>4. MailedAs(mails, DedupeKey(r, s))
  BY <1>1, <1>2, <1>3 DEF PledgeInv, NotesPledged
<1> QED
  BY <1>4 DEF MailedAs, KeyOf, DedupeKey

-----------------------------------------------------------------------------
(* Theorems.                                                               *)

\* Mails with the same rule and snapshot have the same key.
LEMMA MailInvSendsOnce == MailInv => NoDoubleSend
  BY DEF MailInv, KeysMailedOnce, NoDoubleSend, KeyOf

\* No rule is mailed twice for one snapshot, whatever is retried, dies or runs side
\* by side (apps/worker/src/main.ts:381).
THEOREM AlertMailsOnce == Spec => []NoDoubleSend
  BY InitMailInv, NextKeepsMailInv, MailInvSendsOnce, PTL DEF Spec

\* Whatever order snapshots are evaluated in and however often, a rule fires for two of
\* them only if the metric was out of breach in between (alert-evaluator.ts).
THEOREM AlertFiresOncePerBreach == Spec => []FiresOncePerBreach
  BY InitFiringInv, NextKeepsFiringInv, FiringInvFiresOnce, PTL DEF Spec

\* Where faults are fewer than the attempts of a job, every crossing has left an event once
\* the jobs have settled, but for what owners changed meanwhile and errors of the policy
\* checks, which are swallowed (apps/worker/src/main.ts).
THEOREM AlertCrossingsRecorded ==
    ASSUME MaxFaults < MaxAttempts
    PROVE  Spec => []CrossingsAreRecorded
<1>1. FiringInv /\ RecordInv /\ [Next]_vars => RecordInv'
  BY NextKeepsRecordInv
<1> QED
  BY InitFiringInv, NextKeepsFiringInv, InitRecordInv, <1>1, RecordInvRecordsCrossings, PTL DEF Spec

\* And each of them is mailed, once for its rule and block, where no mail or policy error,
\* no crash and no edit together with a retry came between (notifications/src/index.ts).
THEOREM AlertCrossingsMailed ==
    ASSUME MaxFaults < MaxAttempts
    PROVE  Spec => []CrossingsAreMailed
<1>1. FiringInv /\ RecordInv /\ [Next]_vars => RecordInv'
  BY NextKeepsRecordInv
<1>2. FiringInv /\ RecordInv /\ PledgeInv /\ [Next]_vars => PledgeInv'
  BY NextKeepsPledgeInv
<1> QED
  BY InitFiringInv, NextKeepsFiringInv, InitRecordInv, InitPledgeInv, <1>1, <1>2,
     PledgeInvMailsCrossings, PTL DEF Spec
=============================================================================
