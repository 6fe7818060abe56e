----------------------- MODULE MCAttestationPipeline -----------------------
(***************************************************************************)
(* AttestationPipeline with one owner and one publisher.  The three        *)
(* readings differ in one figure; the last one is a wallet past the point  *)
(* of liquidation, whose distance no unsigned integer in range can hold    *)
(* (20000 stands for every value assertBps refuses).                       *)
(***************************************************************************)
EXTENDS AttestationPipeline

Reading(distance) ==
    [riskScoreBps |-> 4000, healthFactorE4 |-> 12500, liquidationDistanceBps |-> distance,
     protocolConcentrationBps |-> 10000, liquidityScoreBps |-> 0]

Healthy    == Reading(2000)
Strained   == Reading(500)
Underwater == Reading(20000)

Publishable == {Healthy, Strained}
Mixed       == {Healthy, Underwater}
=============================================================================
