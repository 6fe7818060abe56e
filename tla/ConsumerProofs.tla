---------------------------- MODULE ConsumerProofs ----------------------------
(***************************************************************************)
(* Theorems about the contracts together, for every set of principals,     *)
(* wallets, readings, protocols and descriptors and every bound.           *)
(*                                                                         *)
(* RegistryInv is carried over from the registry alone: no contract of the *)
(* composition writes the registry's maps but the registry.  What is added *)
(* relates the maps of two contracts to one chain height: every entry and  *)
(* every approval bears a height that the chain has reached, and ids that  *)
(* are published later bear heights that are no lower.                     *)
(***************************************************************************)
EXTENDS RiskConsumer, RiskRegistryProofs

\* An approval names a wallet and was given at a height of the past.
OpenedOK ==
    \A o \in opened : o.wallet \in Wallets /\ o.id \in Nat /\ o.at \in Nat /\ o.at <= stacksBlockHeight

\* The history of interpretations has an entry per snapshot.
InterpretationsOK == DOMAIN interpretedBy = DOMAIN riskSnapshots

\* The entries of the protocol registry.
Entry == [descriptor : Descriptors, enabled : BOOLEAN, updatedAt : Nat]

EntriesOK == \A p \in DOMAIN protocols : protocols[p] \in Entry

ConsumerInv ==
    /\ RegistryInv
    /\ EntriesOK
    /\ OpenedOK
    /\ InterpretationsOK
    /\ ApprovalsAreAuditable
    /\ AdapterChangeIsVisible

\* The contracts' first states satisfy the inductive invariant.
LEMMA InitEstablishesConsumerInv == Init => ConsumerInv
<1> SUFFICES ASSUME Init PROVE ConsumerInv
  OBVIOUS
<1>1. RegistryInv
  BY InitEstablishesInv DEF Init
<1>2. DOMAIN riskSnapshots = {} /\ DOMAIN interpretedBy = {} /\ opened = {}
  BY DEF Init, RegistryInit, DeployedWith
<1>3. DOMAIN protocols = {}
  BY DEF Init, Adapters!DeployedBy
<1> QED
  BY <1>1, <1>2, <1>3 DEF ConsumerInv, EntriesOK, OpenedOK, InterpretationsOK, ApprovalsAreAuditable,
                    AdapterChangeIsVisible

\* What every step of the registry does to what is stored: attestations stay, the
\* height does not fall, and a new attestation has an id above all of its wallet's and
\* the height of now.
LEMMA RegistryStepOnlyAdds ==
    ASSUME RegistryInv, [RegistryNext]_registryVars
    PROVE  /\ stacksBlockHeight \in Nat /\ stacksBlockHeight' \in Nat
           /\ stacksBlockHeight <= stacksBlockHeight'
           /\ \A k \in DOMAIN riskSnapshots :
                 k \in DOMAIN riskSnapshots' /\ riskSnapshots'[k] = riskSnapshots[k]
           /\ \A k \in DOMAIN riskSnapshots' \ DOMAIN riskSnapshots :
                 riskSnapshots'[k].publishedAt = stacksBlockHeight
<1> USE RegistryAssumption
<1>1. CASE ~\E s \in Principals, w \in Wallets, r \in Readings, b \in 0..MaxHeight :
              PublishRiskSnapshot(s, w, r, b)
  BY <1>1, OthersKeepSnapshots DEF snapshotVars, RegistryInv, TypeOK
<1>2. ASSUME NEW s \in Principals, NEW w \in Wallets, NEW r \in Readings,
             NEW b \in 0..MaxHeight, PublishRiskSnapshot(s, w, r, b)
      PROVE  /\ stacksBlockHeight' = stacksBlockHeight
             /\ \A k \in DOMAIN riskSnapshots :
                   k \in DOMAIN riskSnapshots' /\ riskSnapshots'[k] = riskSnapshots[k]
             /\ \A k \in DOMAIN riskSnapshots' \ DOMAIN riskSnapshots :
                   riskSnapshots'[k].publishedAt = stacksBlockHeight
  <2> DEFINE key == << w, latestSnapshotId[w] + 1 >>
  <2>1. stacksBlockHeight' = stacksBlockHeight
    BY <1>2 DEF PublishRiskSnapshot
  <2>2. /\ DOMAIN riskSnapshots' = DOMAIN riskSnapshots \cup {key}
        /\ riskSnapshots'[key] = [reading |-> r, sourceBlock |-> b, publishedAt |-> stacksBlockHeight]
        /\ \A k \in DOMAIN riskSnapshots : riskSnapshots'[k] = riskSnapshots[k]
    BY <1>2, PublishUsesNewId
  <2> HIDE DEF key
  <2> QED
    BY <2>1, <2>2
<1> QED
  BY <1>1, <1>2 DEF RegistryInv, TypeOK

\* A call of the risk registry, or a new block.
LEMMA RegistryStepKeepsConsumerInv ==
    ASSUME ConsumerInv, RegistryNext,
           interpretedBy' = [k \in DOMAIN riskSnapshots' |->
                                IF k \in DOMAIN interpretedBy THEN interpretedBy[k] ELSE AdaptersNow],
           UNCHANGED << adapterVars, consumerVars >>
    PROVE  ConsumerInv'
<1> USE DEF ConsumerInv
<1>1. RegistryInv'
  BY StepKeepsInv
<1>2. /\ stacksBlockHeight \in Nat /\ stacksBlockHeight' \in Nat
      /\ stacksBlockHeight <= stacksBlockHeight'
      /\ \A k \in DOMAIN riskSnapshots :
            k \in DOMAIN riskSnapshots' /\ riskSnapshots'[k] = riskSnapshots[k]
      /\ \A k \in DOMAIN riskSnapshots' \ DOMAIN riskSnapshots :
            riskSnapshots'[k].publishedAt = stacksBlockHeight
  BY RegistryStepOnlyAdds
<1>3. UNCHANGED << protocols, opened >>
  BY DEF adapterVars, consumerVars
<1>4. OpenedOK' /\ EntriesOK'
  BY <1>2, <1>3 DEF OpenedOK, EntriesOK
<1>5. InterpretationsOK'
  BY DEF InterpretationsOK
<1>6. ApprovalsAreAuditable'
  <2> SUFFICES ASSUME NEW o \in opened
               PROVE  /\ << o.wallet, o.id >> \in DOMAIN riskSnapshots'
                      /\ riskSnapshots'[<< o.wallet, o.id >>] = riskSnapshots[<< o.wallet, o.id >>]
                      /\ \A k \in DOMAIN riskSnapshots' :
                            k[1] = o.wallet /\ k[2] > o.id => riskSnapshots'[k].publishedAt >= o.at
    BY <1>3 DEF ApprovalsAreAuditable, MeetsPolicy
  <2>1. << o.wallet, o.id >> \in DOMAIN riskSnapshots
    BY DEF ApprovalsAreAuditable
  <2>2. \A k \in DOMAIN riskSnapshots' :
           k[1] = o.wallet /\ k[2] > o.id => riskSnapshots'[k].publishedAt >= o.at
    \* an attestation of before is as it was; a new one bears the height of now
    <3> SUFFICES ASSUME NEW k \in DOMAIN riskSnapshots', k[1] = o.wallet, k[2] > o.id
                 PROVE  riskSnapshots'[k].publishedAt >= o.at
      OBVIOUS
    <3>1. CASE k \in DOMAIN riskSnapshots
      BY <1>2, <3>1 DEF ApprovalsAreAuditable
    <3>2. CASE k \notin DOMAIN riskSnapshots
      BY <1>2, <3>2 DEF OpenedOK
    <3> QED
      BY <3>1, <3>2
  <2> QED
    BY <1>2, <2>1, <2>2
<1>7. AdapterChangeIsVisible'
  <2> SUFFICES ASSUME NEW k \in DOMAIN riskSnapshots'
               PROVE  /\ DOMAIN interpretedBy'[k] \subseteq DOMAIN protocols
                      /\ \A p \in DOMAIN protocols :
                            (p \in DOMAIN interpretedBy'[k]
                                => protocols[p].descriptor # interpretedBy'[k][p])
                                => protocols[p].updatedAt >= riskSnapshots'[k].publishedAt
    BY <1>3 DEF AdapterChangeIsVisible
  <2>1. CASE k \in DOMAIN riskSnapshots
    <3>1. interpretedBy'[k] = interpretedBy[k] /\ riskSnapshots'[k] = riskSnapshots[k]
      BY <1>2, <2>1 DEF InterpretationsOK
    <3> QED
      BY <2>1, <3>1 DEF AdapterChangeIsVisible
  <2>2. CASE k \notin DOMAIN riskSnapshots
    \* the interpretation recorded with a new attestation is the one of now
    <3>1. interpretedBy'[k] = AdaptersNow
      BY <2>2 DEF InterpretationsOK
    <3> QED
      BY <3>1 DEF AdaptersNow
  <2> QED
    BY <2>1, <2>2
<1> QED
  BY <1>1, <1>4, <1>5, <1>6, <1>7

\* A call of the protocol registry replaces at most one entry, and dates it by now.
ReplacesEntry(p) ==
    /\ DOMAIN protocols' = DOMAIN protocols \cup {p}
    /\ protocols'[p] \in Entry
    /\ protocols'[p].updatedAt = stacksBlockHeight
    /\ \A q \in DOMAIN protocols : q # p => protocols'[q] = protocols[q]

\* Every step of the protocol registry is such a call, or changes no entry.
LEMMA AdapterStepDatesItsEntry ==
    ASSUME EntriesOK, stacksBlockHeight \in Nat, Adapters!Next
    PROVE  UNCHANGED protocols \/ \E p \in Protocols : ReplacesEntry(p)
<1>1. ASSUME NEW p, NEW e \in Entry, e.updatedAt = stacksBlockHeight,
             protocols' = Adapters!Changed(p, e)
      PROVE  ReplacesEntry(p)
  BY <1>1 DEF Adapters!Changed, Adapters!Registered, ReplacesEntry
<1>2. ASSUME NEW s \in Principals, NEW p \in Protocols, NEW d \in Descriptors,
             Adapters!RegisterProtocol(s, p, d)
      PROVE  ReplacesEntry(p)
  <2> DEFINE e == [descriptor |-> d, enabled |-> TRUE, updatedAt |-> stacksBlockHeight]
  <2>1. protocols' = Adapters!Changed(p, e) /\ e \in Entry /\ e.updatedAt = stacksBlockHeight
    BY <1>2 DEF Adapters!RegisterProtocol, Entry
  <2> HIDE DEF e
  <2> QED
    BY <1>1, <2>1
<1>3. ASSUME NEW s \in Principals, NEW p \in Protocols, NEW d \in Descriptors,
             Adapters!SetAdapterVersion(s, p, d)
      PROVE  ReplacesEntry(p)
  <2> DEFINE e == [protocols[p] EXCEPT !.descriptor = d, !.updatedAt = stacksBlockHeight]
  <2>1. protocols[p] \in Entry
    BY <1>3 DEF Adapters!SetAdapterVersion, Adapters!Registered, EntriesOK
  <2>2. protocols' = Adapters!Changed(p, e) /\ e \in Entry /\ e.updatedAt = stacksBlockHeight
    BY <1>3, <2>1 DEF Adapters!SetAdapterVersion, Entry
  <2> HIDE DEF e
  <2> QED
    BY <1>1, <2>2
<1>4. ASSUME NEW s \in Principals, NEW p \in Protocols, NEW enabled \in BOOLEAN,
             Adapters!SetProtocolEnabled(s, p, enabled)
      PROVE  ReplacesEntry(p)
  <2> DEFINE e == [protocols[p] EXCEPT !.enabled = enabled, !.updatedAt = stacksBlockHeight]
  <2>1. protocols[p] \in Entry
    BY <1>4 DEF Adapters!SetProtocolEnabled, Adapters!Registered, EntriesOK
  <2>2. protocols' = Adapters!Changed(p, e) /\ e \in Entry /\ e.updatedAt = stacksBlockHeight
    BY <1>4, <2>1 DEF Adapters!SetProtocolEnabled, Entry
  <2> HIDE DEF e
  <2> QED
    BY <1>1, <2>2
<1>5. ASSUME NEW s \in Principals, NEW p \in Principals,
             Adapters!TransferOwnership(s, p) \/ Adapters!AcceptOwnership(s)
                \/ Adapters!CancelOwnershipTransfer(s)
      PROVE  UNCHANGED protocols
  BY <1>5 DEF Adapters!TransferOwnership, Adapters!AcceptOwnership, Adapters!CancelOwnershipTransfer
<1> QED
  BY <1>2, <1>3, <1>4, <1>5 DEF Adapters!Next

\* A call of the protocol registry.
LEMMA AdapterStepKeepsConsumerInv ==
    ASSUME ConsumerInv, Adapters!Next, UNCHANGED << registryVars, consumerVars, interpretedBy >>
    PROVE  ConsumerInv'
<1> USE DEF ConsumerInv
<1>1. UNCHANGED << riskSnapshots, stacksBlockHeight, opened, interpretedBy >>
  BY DEF registryVars, consumerVars
<1>2. RegistryInv'
  BY StepKeepsInv
<1>3. OpenedOK' /\ InterpretationsOK' /\ ApprovalsAreAuditable'
  BY <1>1 DEF OpenedOK, InterpretationsOK, ApprovalsAreAuditable, MeetsPolicy
<1>4. stacksBlockHeight \in Nat
  BY RegistryAssumption DEF RegistryInv, TypeOK
<1>5. CASE UNCHANGED protocols
  BY <1>1, <1>2, <1>3, <1>5 DEF EntriesOK, AdapterChangeIsVisible
<1>6. ASSUME NEW p \in Protocols, ReplacesEntry(p)
      PROVE  EntriesOK' /\ AdapterChangeIsVisible'
  <2>1. EntriesOK'
    BY <1>6 DEF EntriesOK, ReplacesEntry
  <2>2. \A k \in DOMAIN riskSnapshots : riskSnapshots[k].publishedAt <= stacksBlockHeight
    BY DEF RegistryInv, HeightsOrdered
  <2>3. AdapterChangeIsVisible'
    BY <1>1, <1>4, <1>6, <2>2 DEF AdapterChangeIsVisible, ReplacesEntry
  <2> QED
    BY <2>1, <2>3
<1> QED
  BY <1>2, <1>3, <1>4, <1>5, <1>6, AdapterStepDatesItsEntry

\* A position that opens: the attestation it names is the newest, so none with a
\* higher id exists, and it is fresh at the height of now.
LEMMA OpenPositionKeepsConsumerInv ==
    ASSUME ConsumerInv, NEW w \in Wallets, NEW id \in 1..MaxSnapshots, OpenPosition(w, id)
    PROVE  ConsumerInv'
<1> USE RegistryAssumption DEF ConsumerInv
<1> DEFINE new == [wallet |-> w, id |-> id, at |-> stacksBlockHeight]
<1>1. /\ UNCHANGED << riskSnapshots, stacksBlockHeight, protocols, interpretedBy >>
      /\ opened' = opened \cup {new}
  BY DEF OpenPosition, registryVars, adapterVars
<1>2. RegistryInv'
  BY StepKeepsInv DEF OpenPosition
<1>3. stacksBlockHeight \in Nat
  BY DEF RegistryInv, TypeOK
<1>4. EntriesOK' /\ OpenedOK' /\ InterpretationsOK' /\ AdapterChangeIsVisible'
  BY <1>1, <1>3 DEF EntriesOK, OpenedOK, InterpretationsOK, AdapterChangeIsVisible
<1>5. /\ << w, id >> \in DOMAIN riskSnapshots
      /\ MeetsPolicy(riskSnapshots[<< w, id >>].reading)
      /\ IsFresh(riskSnapshots[<< w, id >>].publishedAt, MaxAge)
      /\ id = latestSnapshotId[w]
  BY DEF OpenPosition, Approved, HasFreshRisk, HasSnapshot, LatestSnapshot
<1>6. \A k \in DOMAIN riskSnapshots : k[1] = w => ~(k[2] > id)
  <2> SUFFICES ASSUME NEW k \in DOMAIN riskSnapshots, k[1] = w, k[2] > id PROVE FALSE
    OBVIOUS
  <2>1. k[2] <= latestSnapshotId[w] /\ k[2] \in Nat
    BY DEF RegistryInv, IdsContiguous, SnapshotKeys
  <2> QED
    BY <1>5, <2>1
<1>7. ApprovalsAreAuditable'
  <2> SUFFICES ASSUME NEW o \in opened'
               PROVE  /\ << o.wallet, o.id >> \in DOMAIN riskSnapshots
                      /\ MeetsPolicy(riskSnapshots[<< o.wallet, o.id >>].reading)
                      /\ riskSnapshots[<< o.wallet, o.id >>].publishedAt <= o.at
                      /\ o.at - riskSnapshots[<< o.wallet, o.id >>].publishedAt <= MaxAge
                      /\ \A k \in DOMAIN riskSnapshots :
                            k[1] = o.wallet /\ k[2] > o.id => riskSnapshots[k].publishedAt >= o.at
    BY <1>1 DEF ApprovalsAreAuditable, MeetsPolicy
  <2>1. CASE o \in opened
    BY <2>1 DEF ApprovalsAreAuditable
  <2>2. CASE o = new
    <3>1. o.wallet = w /\ o.id = id /\ o.at = stacksBlockHeight
      BY <2>2
    <3>2. riskSnapshots[<< w, id >>].publishedAt \in Nat
      BY <1>5 DEF RegistryInv, TypeOK, Snapshot
    <3> HIDE DEF new
    <3> QED
      BY <1>3, <1>5, <1>6, <3>1, <3>2 DEF IsFresh
  <2> QED
    BY <1>1, <2>1, <2>2
<1> QED
  BY <1>2, <1>4, <1>7

\* Every step of the composition keeps the inductive invariant.
LEMMA StepKeepsConsumerInv == ConsumerInv /\ [Next]_vars => ConsumerInv'
<1> SUFFICES ASSUME ConsumerInv, [Next]_vars PROVE ConsumerInv'
  OBVIOUS
<1>1. CASE UNCHANGED vars
  <2>1. UNCHANGED << riskSnapshots, stacksBlockHeight, opened, interpretedBy, protocols, registryVars >>
    BY <1>1 DEF vars, registryVars, adapterVars, consumerVars
  <2>2. RegistryInv'
    BY <2>1, StepKeepsInv DEF ConsumerInv
  <2> QED
    BY <2>1, <2>2 DEF ConsumerInv, EntriesOK, OpenedOK, InterpretationsOK, ApprovalsAreAuditable,
                      AdapterChangeIsVisible, MeetsPolicy
<1>2. CASE /\ RegistryNext
           /\ interpretedBy' = [k \in DOMAIN riskSnapshots' |->
                                   IF k \in DOMAIN interpretedBy THEN interpretedBy[k] ELSE AdaptersNow]
           /\ UNCHANGED << adapterVars, consumerVars >>
  BY <1>2, RegistryStepKeepsConsumerInv
<1>3. CASE UNCHANGED << registryVars, consumerVars, interpretedBy >> /\ Adapters!Next
  BY <1>3, AdapterStepKeepsConsumerInv
<1>4. CASE \E w \in Wallets, id \in 1..MaxSnapshots : OpenPosition(w, id)
  BY <1>4, OpenPositionKeepsConsumerInv
<1> QED
  BY <1>1, <1>2, <1>3, <1>4 DEF Next

\* risk-consumer-example.clar:48: whatever the registries' owners, publishers and
\* other callers do before and after, every position that open-position let through can
\* be checked against the exact attestation it was given for, and no worse one that the
\* chain knew was passed over.
THEOREM ConsumerApprovalsAuditable == Spec => []ApprovalsAreAuditable
<1>1. Spec => []ConsumerInv
  BY InitEstablishesConsumerInv, StepKeepsConsumerInv, PTL DEF Spec
<1>2. ConsumerInv => ApprovalsAreAuditable
  BY DEF ConsumerInv
<1> QED
  BY <1>1, <1>2, PTL

\* protocol-registry.clar:13: a protocol whose adapter is not the one that was listed
\* when a snapshot was published says so by the height of its entry.
THEOREM ConsumerAdapterChangeVisible == Spec => []AdapterChangeIsVisible
<1>1. Spec => []ConsumerInv
  BY InitEstablishesConsumerInv, StepKeepsConsumerInv, PTL DEF Spec
<1>2. ConsumerInv => AdapterChangeIsVisible
  BY DEF ConsumerInv
<1> QED
  BY <1>1, <1>2, PTL

\* Beside the other contracts the registry behaves as it does alone: every step of the
\* composition is a step of the registry's, or leaves it untouched.
THEOREM ConsumerRefinesRegistry == Spec => RegistrySpec
<1>1. Init => RegistryInit
  BY DEF Init
<1>2. [Next]_vars => [RegistryNext]_registryVars
  BY DEF Next, OpenPosition, vars
<1> QED
  BY <1>1, <1>2, PTL DEF Spec, RegistrySpec

\* What was proved of the registry alone holds of it on the chain it is deployed on: its
\* types, its freshness and its nominations, and the log its readers see.
THEOREM ConsumerKeepsRegistry ==
    Spec => [](TypeOK /\ FreshReadIsComplete /\ NominationIsCurrent) /\ ImplementsLog
BY ConsumerRefinesRegistry, RegistryTypeCorrect, RegistryFreshReadComplete, RegistrySafe,
   RegistryImplementsLog, PTL
=============================================================================
