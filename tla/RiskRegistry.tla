---------------------------- MODULE RiskRegistry ----------------------------
(***************************************************************************)
(* contracts/contracts/risk-registry.clar: the Clarity contract that holds *)
(* the attestations.  One action per public function, called by any        *)
(* principal; a call whose asserts! fails reverts and is no step.  The     *)
(* chain under it only grows here (AttestationPipeline adds reorganised    *)
(* blocks).                                                                *)
(*                                                                         *)
(* A reading is the tuple of figures of one call.  Its report hash is      *)
(* payload the contract only stores, so it is part of the reading's        *)
(* identity and not a field.                                               *)
(***************************************************************************)
EXTENDS Integers

CONSTANTS
    Principals,     \* senders of transactions
    Deployer,       \* the principal that deployed the contract
    NoPrincipal,    \* the Clarity value `none` of an optional principal
    Wallets,        \* subjects of attestations
    Readings,       \* figures a caller may send, in or out of range
    MaxAge,         \* the max-age-blocks a reader passes
    MaxHeight,      \* bound: highest block
    MaxSnapshots    \* bound: attestations of one wallet

Figures == [riskScoreBps : Nat, healthFactorE4 : Nat, liquidationDistanceBps : Nat,
            protocolConcentrationBps : Nat, liquidityScoreBps : Nat]

ASSUME RegistryAssumption ==
    /\ Deployer \in Principals
    /\ NoPrincipal \notin Principals
    /\ Readings \subseteq Figures
    /\ MaxAge \in Nat
    /\ MaxHeight \in Nat
    /\ MaxSnapshots \in Nat

VARIABLES
    contractOwner,          \* data-var contract-owner
    pendingOwner,           \* data-var pending-owner
    authorizedPublishers,   \* map authorized-publishers: principals set to true
    latestSnapshotId,       \* map latest-snapshot-id, 0 where the key is absent
    riskSnapshots,          \* map risk-snapshots, keyed by <<wallet, id>>
    stacksBlockHeight,      \* the chain's own height
    nominatedBy             \* history: owner that made the pending nomination

adminVars == << contractOwner, pendingOwner, authorizedPublishers, nominatedBy >>
snapshotVars == << latestSnapshotId, riskSnapshots >>
registryVars == << contractOwner, pendingOwner, authorizedPublishers, nominatedBy,
                   latestSnapshotId, riskSnapshots, stacksBlockHeight >>

DeployedWith(publishers) ==
    /\ contractOwner = Deployer
    /\ pendingOwner = NoPrincipal
    /\ authorizedPublishers = publishers
    /\ latestSnapshotId = [w \in Wallets |-> 0]
    /\ riskSnapshots = [k \in {} |-> 0]
    /\ stacksBlockHeight = 0
    /\ nominatedBy = NoPrincipal

RegistryInit == DeployedWith({})

-----------------------------------------------------------------------------
(* Authority.                                                              *)

IsOwner(sender) == sender = contractOwner

IsPublisher(sender) == IsOwner(sender) \/ sender \in authorizedPublishers

SetPublisher(sender, publisher, enabled) ==
    /\ IsOwner(sender)
    /\ authorizedPublishers' = IF enabled THEN authorizedPublishers \cup {publisher}
                                          ELSE authorizedPublishers \ {publisher}
    /\ UNCHANGED << contractOwner, pendingOwner, nominatedBy, snapshotVars, stacksBlockHeight >>

TransferOwnership(sender, newOwner) ==
    /\ IsOwner(sender)
    /\ pendingOwner' = newOwner
    /\ nominatedBy' = sender
    /\ UNCHANGED << contractOwner, authorizedPublishers, snapshotVars, stacksBlockHeight >>

\* Mutant: the accepted nomination stays open.
AcceptOwnership_StaysNominated(sender) ==
    /\ sender = pendingOwner
    /\ contractOwner' = sender
    /\ UNCHANGED << pendingOwner, authorizedPublishers, nominatedBy, snapshotVars, stacksBlockHeight >>

AcceptOwnership(sender) ==
    /\ sender = pendingOwner
    /\ contractOwner' = sender
    /\ pendingOwner' = NoPrincipal
    /\ UNCHANGED << authorizedPublishers, nominatedBy, snapshotVars, stacksBlockHeight >>

CancelOwnershipTransfer(sender) ==
    /\ IsOwner(sender)
    /\ pendingOwner' = NoPrincipal
    /\ UNCHANGED << contractOwner, authorizedPublishers, nominatedBy, snapshotVars, stacksBlockHeight >>

-----------------------------------------------------------------------------
(* Publishing.                                                             *)

InRange(r) ==
    /\ r.riskScoreBps <= 10000
    /\ r.liquidationDistanceBps <= 10000
    /\ r.protocolConcentrationBps <= 10000
    /\ r.liquidityScoreBps <= 10000

PublishAllowed(sender, r, sourceBlock) ==
    /\ IsPublisher(sender)
    /\ InRange(r)
    /\ sourceBlock <= stacksBlockHeight

\* Mutant: the id is read but not advanced.
NextId_NotAdvanced(w) == latestSnapshotId[w]

NextId(w) == latestSnapshotId[w] + 1

\* Mutant: the attestation is dated by the block it describes.
NewSnapshot_DatedBySource(r, sourceBlock) ==
    [reading |-> r, sourceBlock |-> sourceBlock, publishedAt |-> sourceBlock]

NewSnapshot(r, sourceBlock) ==
    [reading |-> r, sourceBlock |-> sourceBlock, publishedAt |-> stacksBlockHeight]

\* map-set: the key is inserted, or overwritten when it is already there.
MapSet(m, key, value) ==
    [k \in DOMAIN m \cup {key} |-> IF k = key THEN value ELSE m[k]]

PublishRiskSnapshot(sender, w, r, sourceBlock) ==
    /\ PublishAllowed(sender, r, sourceBlock)
    /\ NextId(w) <= MaxSnapshots
    /\ riskSnapshots' = MapSet(riskSnapshots, << w, NextId(w) >>, NewSnapshot(r, sourceBlock))
    /\ latestSnapshotId' = [latestSnapshotId EXCEPT ![w] = NextId(w)]
    /\ UNCHANGED << adminVars, stacksBlockHeight >>

MineBlock ==
    /\ stacksBlockHeight < MaxHeight
    /\ stacksBlockHeight' = stacksBlockHeight + 1
    /\ UNCHANGED << adminVars, snapshotVars >>

-----------------------------------------------------------------------------
(* Reads.  A read that answers `none` has no snapshot to return: readers   *)
(* ask for it under the matching Has... guard.                             *)

HasSnapshot(w) == << w, latestSnapshotId[w] >> \in DOMAIN riskSnapshots

LatestSnapshot(w) == riskSnapshots[<< w, latestSnapshotId[w] >>]

IsFresh(publishedAt, maxAge) ==
    /\ stacksBlockHeight >= publishedAt
    /\ stacksBlockHeight - publishedAt <= maxAge

\* get-risk-if-fresh answers (some ..): this is also is-snapshot-fresh.
HasFreshRisk(w, maxAge) ==
    HasSnapshot(w) /\ IsFresh(LatestSnapshot(w).publishedAt, maxAge)

-----------------------------------------------------------------------------
RegistryNext ==
    \/ \E s, p \in Principals, enabled \in BOOLEAN : SetPublisher(s, p, enabled)
    \/ \E s, p \in Principals : TransferOwnership(s, p)
    \/ \E s \in Principals : AcceptOwnership(s)
    \/ \E s \in Principals : CancelOwnershipTransfer(s)
    \/ \E s \in Principals, w \in Wallets, r \in Readings, b \in 0..MaxHeight :
          PublishRiskSnapshot(s, w, r, b)
    \/ MineBlock

RegistrySpec == RegistryInit /\ [][RegistryNext]_registryVars

-----------------------------------------------------------------------------
(* Properties.                                                             *)

Snapshot == [reading : Readings, sourceBlock : 0..MaxHeight, publishedAt : 0..MaxHeight]
SnapshotKeys == Wallets \X (1..MaxSnapshots)

\* Every variable of the contract has the shape its declaration gives it.
TypeOK ==
    /\ contractOwner \in Principals
    /\ pendingOwner \in Principals \cup {NoPrincipal}
    /\ nominatedBy \in Principals \cup {NoPrincipal}
    /\ authorizedPublishers \subseteq Principals
    /\ latestSnapshotId \in [Wallets -> 0..MaxSnapshots]
    /\ DOMAIN riskSnapshots \subseteq SnapshotKeys
    /\ \A k \in DOMAIN riskSnapshots : riskSnapshots[k] \in Snapshot
    /\ stacksBlockHeight \in 0..MaxHeight

\* The two maps agree: a wallet's snapshots are exactly 1 to its latest id, so no
\* read through latest-snapshot-id dangles and no id is skipped.
IdsContiguous ==
    DOMAIN riskSnapshots =
        {k \in SnapshotKeys : k[2] <= latestSnapshotId[k[1]]}

\* No stored attestation describes chain state later than its own publication,
\* or is published in the future: the two heights a reader compares are ordered.
HeightsOrdered ==
    \A k \in DOMAIN riskSnapshots :
        /\ riskSnapshots[k].sourceBlock <= riskSnapshots[k].publishedAt
        /\ riskSnapshots[k].publishedAt <= stacksBlockHeight

\* A higher id of the same wallet was never published earlier.
PublicationOrdered ==
    \A k, l \in DOMAIN riskSnapshots :
        k[1] = l[1] /\ k[2] <= l[2]
            => riskSnapshots[k].publishedAt <= riskSnapshots[l].publishedAt

\* Reading only the newest attestation loses nothing: when any attestation of a
\* wallet is young enough, get-risk-if-fresh answers with one.
FreshReadIsComplete ==
    \A k \in DOMAIN riskSnapshots :
        IsFresh(riskSnapshots[k].publishedAt, MaxAge) => HasFreshRisk(k[1], MaxAge)

\* Every figure a reader can get is inside the range the trait documents, so a
\* comparison against a basis-point threshold means what it says.
StoredReadingsInRange ==
    \A k \in DOMAIN riskSnapshots :
        /\ riskSnapshots[k].reading.riskScoreBps <= 10000
        /\ riskSnapshots[k].reading.liquidationDistanceBps <= 10000
        /\ riskSnapshots[k].reading.protocolConcentrationBps <= 10000
        /\ riskSnapshots[k].reading.liquidityScoreBps <= 10000

\* A nomination that can still be accepted was made by the owner of today: one
\* that a past owner left behind never survives a handover.
NominationIsCurrent ==
    pendingOwner # NoPrincipal => nominatedBy = contractOwner

\* "Snapshots are append-only": no step removes or rewrites a stored attestation.
AppendOnly ==
    [][\A k \in DOMAIN riskSnapshots :
          /\ k \in DOMAIN riskSnapshots'
          /\ riskSnapshots'[k] = riskSnapshots[k]]_registryVars

\* Ageing is one-way: a wallet without a fresh reading gets one only by a new
\* attestation, never by the passing of blocks or by an administrative call.
StaleUntilRepublished ==
    [][\A w \in Wallets :
          ~HasFreshRisk(w, MaxAge) /\ HasFreshRisk(w, MaxAge)'
              => latestSnapshotId'[w] = latestSnapshotId[w] + 1]_registryVars

\* The log a reader sees: the stored attestations of each wallet in id order.
LogOf == [w \in Wallets |-> [i \in 1..latestSnapshotId[w] |-> riskSnapshots[<< w, i >>]]]

Log == INSTANCE AttestationLog WITH log <- LogOf, Attestations <- Snapshot

\* The two maps implement one append-only, publication-ordered log per wallet.
ImplementsLog == Log!Spec

\* attestation-throttle.ts:14 says that consumers measure max-age-blocks in source
\* blocks: what a fresh read returns would then describe state at most MaxAge old.
FreshReadingDescribesRecentBlocks ==
    \A w \in Wallets : HasFreshRisk(w, MaxAge)
        => stacksBlockHeight - LatestSnapshot(w).sourceBlock <= MaxAge
=============================================================================
