----------------------------- MODULE RiskConsumer -----------------------------
(***************************************************************************)
(* The contracts together, as they are deployed on one chain:              *)
(*                                                                         *)
(*   risk-registry.clar                     RiskRegistry                   *)
(*   protocol-registry.clar                 ProtocolRegistry, as Adapters  *)
(*   examples/risk-consumer-example.clar    the actions of this module     *)
(*                                                                         *)
(* The example's callers pass the registry as its <risk-provider>.         *)
(***************************************************************************)
EXTENDS RiskRegistry

CONSTANTS
    Protocols, Descriptors,     \* of ProtocolRegistry
    MinHealthFactorE4,          \* MIN_HEALTH_FACTOR_E4
    MaxConcentrationBps,        \* MAX_CONCENTRATION_BPS
    MaxApprovals,               \* bound: positions opened
    MaxAdminCalls               \* bound: calls that change an owner, a publisher or an adapter

ASSUME ConsumerAssumption ==
    /\ MinHealthFactorE4 \in Nat /\ MaxConcentrationBps \in Nat
    /\ MaxApprovals \in Nat /\ MaxAdminCalls \in Nat

VARIABLES
    adapterOwner, adapterNominee, protocols,    \* protocol-registry.clar
    approvals,          \* data-var approvals
    lastApprovedAt,     \* map last-approved-at, -1 where the key is absent
    opened,             \* the "position-opened" events
    interpretedBy,      \* history: the adapters listed when a snapshot was published
    adminCalls          \* calls of the owners so far

adapterVars == << adapterOwner, adapterNominee, protocols >>
consumerVars == << approvals, lastApprovedAt, opened >>
vars == << registryVars, adapterVars, consumerVars, interpretedBy, adminCalls >>

Adapters == INSTANCE ProtocolRegistry
                WITH contractOwner <- adapterOwner, pendingOwner <- adapterNominee

Init ==
    /\ RegistryInit
    /\ Adapters!DeployedBy(Deployer)
    /\ approvals = 0
    /\ lastApprovedAt = [w \in Wallets |-> -1]
    /\ opened = {}
    /\ interpretedBy = [k \in {} |-> 0]
    /\ adminCalls = 0

\* meets-policy, and the two asserts! of open-position.
MeetsPolicy(r) ==
    /\ r.healthFactorE4 >= MinHealthFactorE4
    /\ r.protocolConcentrationBps <= MaxConcentrationBps

\* Mutant: any reading that is fresh will do.
Approved_AnyFresh(w, id) ==
    /\ << w, id >> \in DOMAIN riskSnapshots
    /\ IsFresh(riskSnapshots[<< w, id >>].publishedAt, MaxAge)
    /\ MeetsPolicy(riskSnapshots[<< w, id >>].reading)

\* get-risk-if-fresh answers with the newest snapshot or not at all.
Approved(w, id) ==
    /\ HasFreshRisk(w, MaxAge) /\ id = latestSnapshotId[w]
    /\ MeetsPolicy(LatestSnapshot(w).reading)

OpenPosition(w, id) ==
    /\ approvals < MaxApprovals
    /\ Approved(w, id)
    /\ approvals' = approvals + 1
    /\ lastApprovedAt' = [lastApprovedAt EXCEPT ![w] = stacksBlockHeight]
    /\ opened' = opened \cup {[wallet |-> w, id |-> id, at |-> stacksBlockHeight]}
    /\ UNCHANGED << registryVars, adapterVars, interpretedBy, adminCalls >>

\* A step that changes nothing but what the owners decide.
Administrative ==
    IF << adminVars, adapterVars >>' = << adminVars, adapterVars >>
    THEN UNCHANGED adminCalls
    ELSE adminCalls < MaxAdminCalls /\ adminCalls' = adminCalls + 1

AdaptersNow == [p \in DOMAIN protocols |-> protocols[p].descriptor]

Next ==
    \/ /\ RegistryNext
       /\ interpretedBy' = [k \in DOMAIN riskSnapshots' |->
                               IF k \in DOMAIN interpretedBy THEN interpretedBy[k] ELSE AdaptersNow]
       /\ UNCHANGED << adapterVars, consumerVars >>
       /\ Administrative
    \/ /\ UNCHANGED << registryVars, consumerVars, interpretedBy >>
       /\ Adapters!Next
       /\ Administrative
    \/ \E w \in Wallets, id \in 1..MaxSnapshots : OpenPosition(w, id)

Spec == Init /\ [][Next]_vars
-----------------------------------------------------------------------------
(* Properties.                                                             *)

\* risk-consumer-example.clar:48: a decision "can be audited later against the exact
\* report it was made from".  The snapshot a position was opened with is still there,
\* still safe, and was both fresh and the newest at that time: no worse reading that
\* the chain already knew was passed over.
ApprovalsAreAuditable ==
    \A o \in opened :
        /\ << o.wallet, o.id >> \in DOMAIN riskSnapshots
        /\ LET used == riskSnapshots[<< o.wallet, o.id >>]
           IN  /\ MeetsPolicy(used.reading)
               /\ used.publishedAt <= o.at /\ o.at - used.publishedAt <= MaxAge
        /\ \A k \in DOMAIN riskSnapshots :
              k[1] = o.wallet /\ k[2] > o.id => riskSnapshots[k].publishedAt >= o.at

\* protocol-registry.clar:13: "so a consumer can tell whether the interpretation of a
\* protocol changed".  An entry that is not what it was when a snapshot was published
\* bears a height no earlier than the snapshot's, and none is ever lost, whoever has
\* owned the two registries meanwhile.
AdapterChangeIsVisible ==
    \A k \in DOMAIN riskSnapshots :
        /\ DOMAIN interpretedBy[k] \subseteq DOMAIN protocols
        /\ \A p \in DOMAIN protocols :
              (p \in DOMAIN interpretedBy[k] => protocols[p].descriptor # interpretedBy[k][p])
                  => protocols[p].updatedAt >= riskSnapshots[k].publishedAt
=============================================================================
