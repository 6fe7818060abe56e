--------------------------- MODULE ProtocolRegistry ---------------------------
(***************************************************************************)
(* contracts/contracts/protocol-registry.clar: the list of the protocols   *)
(* there is an adapter for.  One action per public function, called by any *)
(* principal; a call whose asserts! fails reverts and is no step.  Version *)
(* and metadata hash of an adapter are one descriptor here; name, type and *)
(* contract of a protocol never change after its registration and are left *)
(* out.                                                                    *)
(***************************************************************************)
EXTENDS Integers

CONSTANTS
    Principals,
    NoPrincipal,        \* the Clarity value `none`
    Protocols,          \* protocol ids
    Descriptors         \* adapter versions with their metadata hashes

VARIABLES
    contractOwner,      \* data-var contract-owner
    pendingOwner,       \* data-var pending-owner
    protocols,          \* map protocols: a record per registered id
    stacksBlockHeight   \* the chain's own height

vars == << contractOwner, pendingOwner, protocols, stacksBlockHeight >>

DeployedBy(deployer) ==
    /\ contractOwner = deployer
    /\ pendingOwner = NoPrincipal
    /\ protocols = [p \in {} |-> 0]

IsOwner(sender) == sender = contractOwner

Registered == DOMAIN protocols

\* Mutant: a change of the adapter keeps the height of the one before.
Changed_Undated(p, entry) ==
    [q \in Registered \cup {p} |->
        IF q # p THEN protocols[q]
        ELSE [entry EXCEPT !.updatedAt = IF p \in Registered THEN protocols[p].updatedAt ELSE @]]

\* map-set of an entry that is dated by the block.
Changed(p, entry) ==
    [q \in Registered \cup {p} |-> IF q = p THEN entry ELSE protocols[q]]

RegisterProtocol(sender, p, d) ==
    /\ IsOwner(sender)
    /\ p \notin Registered
    /\ protocols' = Changed(p, [descriptor |-> d, enabled |-> TRUE, updatedAt |-> stacksBlockHeight])
    /\ UNCHANGED << contractOwner, pendingOwner, stacksBlockHeight >>

SetProtocolEnabled(sender, p, enabled) ==
    /\ IsOwner(sender)
    /\ p \in Registered
    /\ protocols' = Changed(p, [protocols[p] EXCEPT !.enabled = enabled,
                                                    !.updatedAt = stacksBlockHeight])
    /\ UNCHANGED << contractOwner, pendingOwner, stacksBlockHeight >>

SetAdapterVersion(sender, p, d) ==
    /\ IsOwner(sender)
    /\ p \in Registered
    /\ protocols' = Changed(p, [protocols[p] EXCEPT !.descriptor = d,
                                                    !.updatedAt = stacksBlockHeight])
    /\ UNCHANGED << contractOwner, pendingOwner, stacksBlockHeight >>

TransferOwnership(sender, newOwner) ==
    /\ IsOwner(sender)
    /\ pendingOwner' = newOwner
    /\ UNCHANGED << contractOwner, protocols, stacksBlockHeight >>

AcceptOwnership(sender) ==
    /\ sender = pendingOwner
    /\ contractOwner' = sender
    /\ pendingOwner' = NoPrincipal
    /\ UNCHANGED << protocols, stacksBlockHeight >>

CancelOwnershipTransfer(sender) ==
    /\ IsOwner(sender)
    /\ pendingOwner' = NoPrincipal
    /\ UNCHANGED << contractOwner, protocols, stacksBlockHeight >>

\* is-supported-protocol
IsSupported(p) == p \in Registered /\ protocols[p].enabled

Next ==
    \/ \E s \in Principals, p \in Protocols, d \in Descriptors :
          RegisterProtocol(s, p, d) \/ SetAdapterVersion(s, p, d)
    \/ \E s \in Principals, p \in Protocols, enabled \in BOOLEAN : SetProtocolEnabled(s, p, enabled)
    \/ \E s, p \in Principals : TransferOwnership(s, p)
    \/ \E s \in Principals : AcceptOwnership(s) \/ CancelOwnershipTransfer(s)
=============================================================================
