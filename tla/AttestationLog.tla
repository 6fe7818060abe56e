--------------------------- MODULE AttestationLog ---------------------------
(***************************************************************************)
(* What the registry contract promises an on-chain reader, without saying  *)
(* how it is stored: every wallet has a log of attestations, and the only  *)
(* thing that ever happens to a log is that one attestation is added at    *)
(* its end, stamped with a publication height that never runs backwards.   *)
(***************************************************************************)
EXTENDS Integers, Sequences

CONSTANTS
    Wallets,        \* wallets that can be attested
    Attestations    \* values a log entry may hold, each with a publishedAt

VARIABLE log        \* log[w]: the attestations of wallet w, oldest first

Init == log = [w \in Wallets |-> << >>]

\* Publishing for one wallet leaves every other log, and every earlier entry of
\* this one, as they are.
Append1(w, a) ==
    /\ log[w] # << >> => log[w][Len(log[w])].publishedAt <= a.publishedAt
    /\ log' = [log EXCEPT ![w] = Append(log[w], a)]

Next == \E w \in Wallets, a \in Attestations : Append1(w, a)

Spec == Init /\ [][Next]_log
=============================================================================
