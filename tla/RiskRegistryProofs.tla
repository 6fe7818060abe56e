------------------------- MODULE RiskRegistryProofs -------------------------
(***************************************************************************)
(* Theorems about the registry contract, for every set of principals,      *)
(* wallets and readings and every bound.  RegistryInv is the inductive     *)
(* invariant: neither the order of publication heights nor the append-only *)
(* property can be carried through publish-risk-snapshot unless the id it  *)
(* writes is known to be unused, which is what IdsContiguous says.         *)
(***************************************************************************)
EXTENDS RiskRegistry, SequenceTheorems, TLAPS

RegistryInv ==
    /\ TypeOK
    /\ IdsContiguous
    /\ HeightsOrdered
    /\ PublicationOrdered
    /\ StoredReadingsInRange
    /\ NominationIsCurrent

\* A function on 1..n is a sequence of length n, and a function on 1..n+1 that agrees
\* with it is that sequence with one element appended.
LEMMA FunctionAsAppend ==
    ASSUME NEW S, NEW n \in Nat, NEW f \in [1..n -> S], NEW g \in [1..(n + 1) -> S],
           \A i \in 1..n : g[i] = f[i]
    PROVE  f \in Seq(S) /\ Len(f) = n /\ g = Append(f, g[n + 1])
<1>1. f \in Seq(S) /\ g \in Seq(S)
  BY SeqDef
<1>2. Len(f) = n /\ Len(g) = n + 1
  BY <1>1, LenProperties
<1>3. g[n + 1] \in S
  OBVIOUS
<1>4. /\ Append(f, g[n + 1]) \in Seq(S)
      /\ Len(Append(f, g[n + 1])) = n + 1
      /\ \A i \in 1..n : Append(f, g[n + 1])[i] = g[i]
      /\ Append(f, g[n + 1])[n + 1] = g[n + 1]
  BY <1>1, <1>2, <1>3, AppendProperties
<1>5. \A i \in 1..(n + 1) : g[i] = Append(f, g[n + 1])[i]
  BY <1>4
<1> QED
  BY <1>1, <1>2, <1>4, <1>5, SeqEqual

\* The contract's first state satisfies the inductive invariant.
LEMMA InitEstablishesInv == RegistryInit => RegistryInv
<1> SUFFICES ASSUME RegistryInit PROVE RegistryInv
  OBVIOUS
<1> USE RegistryAssumption DEF RegistryInit, DeployedWith
<1>1. DOMAIN riskSnapshots = {}
  OBVIOUS
<1>2. TypeOK
  BY <1>1 DEF TypeOK
<1>3. IdsContiguous
  BY <1>1 DEF IdsContiguous, SnapshotKeys
<1>4. HeightsOrdered /\ PublicationOrdered /\ StoredReadingsInRange
  BY <1>1 DEF HeightsOrdered, PublicationOrdered, StoredReadingsInRange
<1>5. NominationIsCurrent
  BY DEF NominationIsCurrent
<1> QED
  BY <1>2, <1>3, <1>4, <1>5 DEF RegistryInv

\* Publishing writes an id no attestation has, so it changes nothing a reader
\* could already have read.
LEMMA PublishUsesNewId ==
    ASSUME RegistryInv,
           NEW s \in Principals, NEW w \in Wallets, NEW r \in Readings,
           NEW b \in 0..MaxHeight, PublishRiskSnapshot(s, w, r, b)
    PROVE  /\ << w, latestSnapshotId[w] + 1 >> \in SnapshotKeys
           /\ << w, latestSnapshotId[w] + 1 >> \notin DOMAIN riskSnapshots
           /\ DOMAIN riskSnapshots' = DOMAIN riskSnapshots \cup {<< w, latestSnapshotId[w] + 1 >>}
           /\ riskSnapshots'[<< w, latestSnapshotId[w] + 1 >>] =
                 [reading |-> r, sourceBlock |-> b, publishedAt |-> stacksBlockHeight]
           /\ \A k \in DOMAIN riskSnapshots : riskSnapshots'[k] = riskSnapshots[k]
<1> DEFINE key == << w, latestSnapshotId[w] + 1 >>
<1>1. latestSnapshotId[w] \in 0..MaxSnapshots /\ MaxSnapshots \in Nat
  BY RegistryAssumption DEF RegistryInv, TypeOK
<1>2. key \in SnapshotKeys
  BY <1>1 DEF PublishRiskSnapshot, NextId, SnapshotKeys
<1>3. key \notin DOMAIN riskSnapshots
  BY <1>1 DEF RegistryInv, IdsContiguous
<1> DEFINE new == [reading |-> r, sourceBlock |-> b, publishedAt |-> stacksBlockHeight]
<1>4. riskSnapshots' = MapSet(riskSnapshots, key, new)
  BY DEF PublishRiskSnapshot, NextId, NewSnapshot
<1>5. /\ DOMAIN riskSnapshots' = DOMAIN riskSnapshots \cup {key}
      /\ riskSnapshots'[key] = new
      /\ \A k \in DOMAIN riskSnapshots : k # key => riskSnapshots'[k] = riskSnapshots[k]
  <2> HIDE DEF key, new
  <2> QED
    BY <1>4 DEF MapSet
<1>6. \A k \in DOMAIN riskSnapshots : riskSnapshots'[k] = riskSnapshots[k]
  BY <1>3, <1>5
<1> QED
  BY <1>2, <1>3, <1>5, <1>6

\* What every action other than publish-risk-snapshot leaves alone: the stored
\* attestations, while the chain's height does not fall.
LEMMA OthersKeepSnapshots ==
    ASSUME RegistryInv, [RegistryNext]_registryVars,
           ~(\E s \in Principals, w \in Wallets, r \in Readings, b \in 0..MaxHeight :
                PublishRiskSnapshot(s, w, r, b))
    PROVE  /\ UNCHANGED snapshotVars
           /\ stacksBlockHeight' \in 0..MaxHeight
           /\ stacksBlockHeight <= stacksBlockHeight'
<1> USE RegistryAssumption DEF RegistryInv, TypeOK
<1> QED
  BY DEF RegistryNext, registryVars, snapshotVars, adminVars, SetPublisher, TransferOwnership,
         AcceptOwnership, CancelOwnershipTransfer, MineBlock

\* Every step of the contract keeps the inductive invariant.
LEMMA StepKeepsInv == RegistryInv /\ [RegistryNext]_registryVars => RegistryInv'
<1> SUFFICES ASSUME RegistryInv, [RegistryNext]_registryVars
             PROVE  RegistryInv'
  OBVIOUS
<1> USE RegistryAssumption
<1>1. CASE ~\E s \in Principals, w \in Wallets, r \in Readings, b \in 0..MaxHeight :
              PublishRiskSnapshot(s, w, r, b)
  <2>1. /\ UNCHANGED snapshotVars
        /\ stacksBlockHeight' \in 0..MaxHeight
        /\ stacksBlockHeight <= stacksBlockHeight'
    BY <1>1, OthersKeepSnapshots
  <2>2. (contractOwner \in Principals /\ pendingOwner \in Principals \cup {NoPrincipal}
         /\ nominatedBy \in Principals \cup {NoPrincipal} /\ authorizedPublishers \subseteq Principals)'
    BY <1>1 DEF RegistryInv, TypeOK, RegistryNext, registryVars, adminVars, SetPublisher, TransferOwnership,
           AcceptOwnership, CancelOwnershipTransfer, MineBlock
  <2>3. TypeOK'
    BY <2>1, <2>2 DEF RegistryInv, TypeOK, snapshotVars
  <2>4. IdsContiguous' /\ PublicationOrdered' /\ StoredReadingsInRange'
    BY <2>1 DEF RegistryInv, IdsContiguous, PublicationOrdered, StoredReadingsInRange, snapshotVars
  <2>5. HeightsOrdered'
    BY <2>1 DEF RegistryInv, TypeOK, HeightsOrdered, snapshotVars, Snapshot
  <2>6. NominationIsCurrent'
    BY <1>1 DEF RegistryInv, NominationIsCurrent, RegistryNext, registryVars, adminVars, SetPublisher,
           TransferOwnership, AcceptOwnership, CancelOwnershipTransfer, MineBlock, IsOwner
  <2> QED
    BY <2>3, <2>4, <2>5, <2>6 DEF RegistryInv
<1>2. ASSUME NEW s \in Principals, NEW w \in Wallets, NEW r \in Readings,
             NEW b \in 0..MaxHeight, PublishRiskSnapshot(s, w, r, b)
      PROVE  RegistryInv'
  <2> DEFINE key == << w, latestSnapshotId[w] + 1 >>
             new == [reading |-> r, sourceBlock |-> b, publishedAt |-> stacksBlockHeight]
  <2>1. /\ key \in SnapshotKeys
        /\ key \notin DOMAIN riskSnapshots
        /\ DOMAIN riskSnapshots' = DOMAIN riskSnapshots \cup {key}
        /\ riskSnapshots'[key] = new
        /\ \A k \in DOMAIN riskSnapshots : riskSnapshots'[k] = riskSnapshots[k]
    BY <1>2, PublishUsesNewId
  <2>2. /\ latestSnapshotId' = [latestSnapshotId EXCEPT ![w] = latestSnapshotId[w] + 1]
        /\ latestSnapshotId[w] + 1 <= MaxSnapshots
        /\ InRange(r) /\ b <= stacksBlockHeight
        /\ UNCHANGED << contractOwner, pendingOwner, authorizedPublishers, nominatedBy, stacksBlockHeight >>
    BY <1>2 DEF PublishRiskSnapshot, PublishAllowed, NextId, adminVars
  <2>3. TypeOK'
    <3>1. new \in Snapshot
      BY DEF RegistryInv, TypeOK, Snapshot
    <3>2. latestSnapshotId' \in [Wallets -> 0..MaxSnapshots]
      BY <2>2 DEF RegistryInv, TypeOK
    <3>3. DOMAIN riskSnapshots' \subseteq SnapshotKeys
      BY <2>1 DEF RegistryInv, TypeOK
    <3>4. \A k \in DOMAIN riskSnapshots' : riskSnapshots'[k] \in Snapshot
      BY <2>1, <3>1 DEF RegistryInv, TypeOK
    <3> QED
      BY <2>2, <3>2, <3>3, <3>4 DEF RegistryInv, TypeOK
  <2>4. IdsContiguous'
    <3> SUFFICES ASSUME NEW k \in SnapshotKeys
                 PROVE  k \in DOMAIN riskSnapshots' <=> k[2] <= latestSnapshotId'[k[1]]
      BY <2>3 DEF TypeOK, IdsContiguous
    <3>1. k \in DOMAIN riskSnapshots <=> k[2] <= latestSnapshotId[k[1]]
      BY DEF RegistryInv, IdsContiguous
    <3>2. k[1] \in Wallets /\ k[2] \in 1..MaxSnapshots /\ k = << k[1], k[2] >>
      BY DEF SnapshotKeys
    <3>3. CASE k[1] # w
      BY <2>1, <2>2, <3>1, <3>2, <3>3 DEF RegistryInv, TypeOK
    <3>4. CASE k[1] = w
      BY <2>1, <2>2, <3>1, <3>2, <3>4 DEF RegistryInv, TypeOK
    <3> QED
      BY <3>3, <3>4
  <2>5. HeightsOrdered'
    BY <2>1, <2>2 DEF RegistryInv, TypeOK, HeightsOrdered
  <2>6. PublicationOrdered'
    <3> SUFFICES ASSUME NEW k \in DOMAIN riskSnapshots', NEW l \in DOMAIN riskSnapshots',
                        k[1] = l[1], k[2] <= l[2]
                 PROVE  riskSnapshots'[k].publishedAt <= riskSnapshots'[l].publishedAt
      BY DEF PublicationOrdered
    <3>1. CASE k \in DOMAIN riskSnapshots /\ l \in DOMAIN riskSnapshots
      BY <2>1, <3>1 DEF RegistryInv, PublicationOrdered
    <3>2. CASE l = key
      BY <2>1, <3>2 DEF RegistryInv, TypeOK, HeightsOrdered
    <3>3. CASE k = key /\ l \in DOMAIN riskSnapshots
      \* a stored id of the wallet is at most the latest, which is below the key's
      <4>1. l[2] <= latestSnapshotId[w] /\ l[2] \in Nat /\ latestSnapshotId[w] \in Nat
        BY <3>3 DEF RegistryInv, TypeOK, IdsContiguous, SnapshotKeys
      <4> QED
        BY <3>3, <4>1
    <3> QED
      BY <2>1, <3>1, <3>2, <3>3
  <2>7. StoredReadingsInRange'
    BY <2>1, <2>2 DEF RegistryInv, StoredReadingsInRange, InRange
  <2>8. NominationIsCurrent'
    BY <2>2 DEF RegistryInv, NominationIsCurrent
  <2> QED
    BY <2>3, <2>4, <2>5, <2>6, <2>7, <2>8 DEF RegistryInv
<1> QED
  BY <1>1, <1>2

\* The maps of the contract always have the shape their declarations give them.
THEOREM RegistryTypeCorrect == RegistrySpec => []TypeOK
<1>1. RegistrySpec => []RegistryInv
  BY InitEstablishesInv, StepKeepsInv, PTL DEF RegistrySpec
<1>2. RegistryInv => TypeOK
  BY DEF RegistryInv
<1> QED
  BY <1>1, <1>2, PTL

\* The contract's stored attestations are, in every reachable state: exactly ids 1
\* to latest per wallet, in range, not from the future and in publication order; and
\* a nomination that can be accepted is the present owner's.
THEOREM RegistrySafe ==
    RegistrySpec => [](IdsContiguous /\ HeightsOrdered /\ PublicationOrdered
                       /\ StoredReadingsInRange /\ NominationIsCurrent)
<1>1. RegistrySpec => []RegistryInv
  BY InitEstablishesInv, StepKeepsInv, PTL DEF RegistrySpec
<1>2. RegistryInv => IdsContiguous /\ HeightsOrdered /\ PublicationOrdered
                     /\ StoredReadingsInRange /\ NominationIsCurrent
  BY DEF RegistryInv
<1> QED
  BY <1>1, <1>2, PTL

\* A snapshot that was ever stored stays stored, unchanged, under every call.
THEOREM RegistryAppendOnly == RegistrySpec => AppendOnly
<1> DEFINE Keeps == \A k \in DOMAIN riskSnapshots :
                       /\ k \in DOMAIN riskSnapshots'
                       /\ riskSnapshots'[k] = riskSnapshots[k]
<1>1. RegistrySpec => []RegistryInv
  BY InitEstablishesInv, StepKeepsInv, PTL DEF RegistrySpec
<1>2. RegistryInv /\ [RegistryNext]_registryVars => [Keeps]_registryVars
  <2> SUFFICES ASSUME RegistryInv, [RegistryNext]_registryVars
               PROVE  Keeps
    OBVIOUS
  <2>1. CASE ~\E s \in Principals, w \in Wallets, r \in Readings, b \in 0..MaxHeight :
                PublishRiskSnapshot(s, w, r, b)
    BY <2>1, OthersKeepSnapshots DEF snapshotVars
  <2>2. ASSUME NEW s \in Principals, NEW w \in Wallets, NEW r \in Readings,
               NEW b \in 0..MaxHeight, PublishRiskSnapshot(s, w, r, b)
        PROVE  Keeps
    BY <2>2, PublishUsesNewId
  <2> QED
    BY <2>1, <2>2
<1> QED
  BY <1>1, <1>2, PTL DEF RegistrySpec, AppendOnly

\* The newest attestation of a wallet is as fresh as any: heights grow with ids.
LEMMA FreshReadFollows == RegistryInv => FreshReadIsComplete
<1> SUFFICES ASSUME RegistryInv, NEW k \in DOMAIN riskSnapshots,
                    IsFresh(riskSnapshots[k].publishedAt, MaxAge)
             PROVE  HasFreshRisk(k[1], MaxAge)
  BY DEF FreshReadIsComplete
<1> USE RegistryAssumption
<1> DEFINE last == << k[1], latestSnapshotId[k[1]] >>
<1>1. k[1] \in Wallets /\ k[2] \in 1..MaxSnapshots /\ k[2] <= latestSnapshotId[k[1]]
  BY DEF RegistryInv, IdsContiguous, SnapshotKeys
<1>2. latestSnapshotId[k[1]] \in 1..MaxSnapshots
  BY <1>1 DEF RegistryInv, TypeOK
<1>3. last \in DOMAIN riskSnapshots
  BY <1>1, <1>2 DEF RegistryInv, IdsContiguous, SnapshotKeys
<1>4. riskSnapshots[k].publishedAt <= riskSnapshots[last].publishedAt
  BY <1>1, <1>3 DEF RegistryInv, PublicationOrdered
<1>5. /\ riskSnapshots[k].publishedAt \in Nat
      /\ riskSnapshots[last].publishedAt \in Nat
      /\ stacksBlockHeight \in Nat
      /\ riskSnapshots[last].publishedAt <= stacksBlockHeight
  BY <1>3 DEF RegistryInv, TypeOK, Snapshot, HeightsOrdered
<1>6. IsFresh(riskSnapshots[last].publishedAt, MaxAge)
  BY <1>4, <1>5 DEF IsFresh
<1> QED
  BY <1>3, <1>6 DEF HasFreshRisk, HasSnapshot, LatestSnapshot

\* Whenever any stored attestation of a wallet is young enough for a reader,
\* get-risk-if-fresh answers that reader: asking only for the newest loses nothing.
THEOREM RegistryFreshReadComplete == RegistrySpec => []FreshReadIsComplete
<1>1. RegistrySpec => []RegistryInv
  BY InitEstablishesInv, StepKeepsInv, PTL DEF RegistrySpec
<1> QED
  BY <1>1, FreshReadFollows, PTL

\* The contract implements the append-only log: its first state maps to empty logs,
\* publishing maps to one Append, every other call to a stuttering step.
THEOREM RegistryImplementsLog == RegistrySpec => ImplementsLog
<1> USE RegistryAssumption
<1>1. RegistrySpec => []RegistryInv
  BY InitEstablishesInv, StepKeepsInv, PTL DEF RegistrySpec
<1>2. RegistryInit => Log!Init
  <2> SUFFICES ASSUME RegistryInit PROVE LogOf = [w \in Wallets |-> << >>]
    BY DEF Log!Init
  <2>1. \A w \in Wallets : latestSnapshotId[w] = 0
    BY DEF RegistryInit, DeployedWith
  <2>2. \A w \in Wallets : [i \in 1..latestSnapshotId[w] |-> riskSnapshots[<< w, i >>]] = << >>
    BY <2>1
  <2> QED
    BY <2>2 DEF LogOf
<1>3. RegistryInv /\ [RegistryNext]_registryVars => [Log!Next]_LogOf
  <2> SUFFICES ASSUME RegistryInv, [RegistryNext]_registryVars
               PROVE  [Log!Next]_LogOf
    OBVIOUS
  <2>1. CASE ~\E s \in Principals, w \in Wallets, r \in Readings, b \in 0..MaxHeight :
                PublishRiskSnapshot(s, w, r, b)
    BY <2>1, OthersKeepSnapshots DEF snapshotVars, LogOf
  <2>2. ASSUME NEW s \in Principals, NEW w \in Wallets, NEW r \in Readings,
               NEW b \in 0..MaxHeight, PublishRiskSnapshot(s, w, r, b)
        PROVE  Log!Next
    <3> DEFINE n   == latestSnapshotId[w]
               new == [reading |-> r, sourceBlock |-> b, publishedAt |-> stacksBlockHeight]
               old == [i \in 1..n |-> riskSnapshots[<< w, i >>]]
    <3>1. /\ DOMAIN riskSnapshots' = DOMAIN riskSnapshots \cup {<< w, n + 1 >>}
          /\ riskSnapshots'[<< w, n + 1 >>] = new
          /\ \A k \in DOMAIN riskSnapshots : riskSnapshots'[k] = riskSnapshots[k]
      BY <2>2, PublishUsesNewId
    <3>2. n \in Nat /\ n + 1 <= MaxSnapshots /\ latestSnapshotId' = [latestSnapshotId EXCEPT ![w] = n + 1]
      BY <2>2 DEF PublishRiskSnapshot, NextId, RegistryInv, TypeOK
    <3>3. \A v \in Wallets : \A i \in 1..latestSnapshotId[v] : << v, i >> \in DOMAIN riskSnapshots
      BY DEF RegistryInv, TypeOK, IdsContiguous, SnapshotKeys
    <3> DEFINE ext == [i \in 1..(n + 1) |-> riskSnapshots'[<< w, i >>]]
    <3>4. /\ new \in Snapshot
          /\ old \in [1..n -> Snapshot]
          /\ ext \in [1..(n + 1) -> Snapshot]
          /\ ext[n + 1] = new
          /\ \A i \in 1..n : ext[i] = old[i]
      BY <3>1, <3>2, <3>3 DEF RegistryInv, TypeOK, Snapshot
    <3>5. Len(old) = n /\ ext = Append(old, new)
      <4> HIDE DEF old, ext, new
      <4> QED
        BY <3>2, <3>4, FunctionAsAppend
    <3>6. LogOf' = [LogOf EXCEPT ![w] = Append(LogOf[w], new)]
      <4>1. LogOf[w] = old
        BY DEF LogOf
      <4>2. LogOf'[w] = Append(old, new)
        BY <3>2, <3>5 DEF LogOf, RegistryInv, TypeOK
      <4>3. \A v \in Wallets \ {w} : LogOf'[v] = LogOf[v]
        BY <3>1, <3>2, <3>3 DEF LogOf, RegistryInv, TypeOK
      <4> QED
        BY <4>1, <4>2, <4>3 DEF LogOf
    <3>7. LogOf[w] # << >> => LogOf[w][Len(LogOf[w])].publishedAt <= new.publishedAt
      <4>1. LogOf[w] = old
        BY DEF LogOf
      <4>2. CASE n = 0
        BY <4>1, <4>2
      <4>3. CASE n > 0
        BY <3>2, <3>3, <3>4, <4>1, <4>3 DEF RegistryInv, HeightsOrdered
      <4> QED
        BY <3>2, <4>2, <4>3
    <3> QED
      BY <3>4, <3>6, <3>7 DEF Log!Next, Log!Append1
  <2> QED
    BY <2>1, <2>2
<1> QED
  BY <1>1, <1>2, <1>3, PTL DEF RegistrySpec, ImplementsLog, Log!Spec

\* A wallet whose newest attestation has aged out is fresh again only after a new
\* publication for that wallet.
THEOREM RegistryStaleUntilRepublished == RegistrySpec => StaleUntilRepublished
<1> DEFINE Ages == \A w \in Wallets :
                      ~HasFreshRisk(w, MaxAge) /\ HasFreshRisk(w, MaxAge)'
                          => latestSnapshotId'[w] = latestSnapshotId[w] + 1
<1> USE RegistryAssumption
<1>1. RegistrySpec => []RegistryInv
  BY InitEstablishesInv, StepKeepsInv, PTL DEF RegistrySpec
<1>2. RegistryInv /\ [RegistryNext]_registryVars => [Ages]_registryVars
  <2> SUFFICES ASSUME RegistryInv, [RegistryNext]_registryVars, NEW v \in Wallets,
                      ~HasFreshRisk(v, MaxAge), HasFreshRisk(v, MaxAge)'
               PROVE  latestSnapshotId'[v] = latestSnapshotId[v] + 1
    OBVIOUS
  <2>1. CASE ~\E s \in Principals, w \in Wallets, r \in Readings, b \in 0..MaxHeight :
                PublishRiskSnapshot(s, w, r, b)
    \* the same attestation cannot become younger: the height never falls
    <3>1. UNCHANGED snapshotVars /\ stacksBlockHeight <= stacksBlockHeight'
          /\ stacksBlockHeight' \in Nat /\ stacksBlockHeight \in Nat
      BY <2>1, OthersKeepSnapshots DEF RegistryInv, TypeOK
    <3>2. HasSnapshot(v) /\ LatestSnapshot(v)' = LatestSnapshot(v)
      BY <3>1 DEF HasFreshRisk, HasSnapshot, LatestSnapshot, snapshotVars
    <3>3. LatestSnapshot(v).publishedAt \in Nat /\ LatestSnapshot(v).publishedAt <= stacksBlockHeight
      BY <3>2 DEF HasSnapshot, LatestSnapshot, RegistryInv, TypeOK, Snapshot, HeightsOrdered
    <3>4. IsFresh(LatestSnapshot(v).publishedAt, MaxAge)
      BY <3>1, <3>2, <3>3 DEF HasFreshRisk, IsFresh
    <3> QED
      BY <3>2, <3>4 DEF HasFreshRisk
  <2>2. ASSUME NEW s \in Principals, NEW w \in Wallets, NEW r \in Readings,
               NEW b \in 0..MaxHeight, PublishRiskSnapshot(s, w, r, b)
        PROVE  latestSnapshotId'[v] = latestSnapshotId[v] + 1
    <3>1. /\ latestSnapshotId' = [latestSnapshotId EXCEPT ![w] = latestSnapshotId[w] + 1]
          /\ stacksBlockHeight' = stacksBlockHeight
      BY <2>2 DEF PublishRiskSnapshot, NextId
    <3>2. CASE v = w
      BY <3>1, <3>2 DEF RegistryInv, TypeOK
    <3>3. CASE v # w
      <4>1. latestSnapshotId'[v] = latestSnapshotId[v]
        BY <3>1, <3>3 DEF RegistryInv, TypeOK
      <4>2. << v, latestSnapshotId[v] >> \in DOMAIN riskSnapshots
        <5>1. << v, latestSnapshotId[v] >> \in DOMAIN riskSnapshots'
          BY <4>1 DEF HasFreshRisk, HasSnapshot
        <5>2. DOMAIN riskSnapshots' = DOMAIN riskSnapshots \cup {<< w, latestSnapshotId[w] + 1 >>}
          BY <2>2, PublishUsesNewId
        <5>3. << v, latestSnapshotId[v] >> # << w, latestSnapshotId[w] + 1 >>
          BY <3>3
        <5> QED
          BY <5>1, <5>2, <5>3
      <4>3. riskSnapshots'[<< v, latestSnapshotId[v] >>] = riskSnapshots[<< v, latestSnapshotId[v] >>]
        BY <2>2, <4>2, PublishUsesNewId
      <4> QED
        BY <3>1, <4>1, <4>2, <4>3 DEF HasFreshRisk, HasSnapshot, LatestSnapshot, IsFresh
    <3> QED
      BY <3>2, <3>3
  <2> QED
    BY <2>1, <2>2
<1> QED
  BY <1>1, <1>2, PTL DEF RegistrySpec, StaleUntilRepublished
=============================================================================
