--------------------------- MODULE MCRiskConsumer ---------------------------
(***************************************************************************)
(* RiskConsumer on two principals, one wallet and one protocol.  One       *)
(* reading satisfies the consumer exactly, one misses its health factor by *)
(* a unit, and one is out of the registry's range by a basis point.        *)
(***************************************************************************)
EXTENDS RiskConsumer

Reading(health, distance) ==
    [riskScoreBps |-> 10000, healthFactorE4 |-> health, liquidationDistanceBps |-> distance,
     protocolConcentrationBps |-> 6000, liquidityScoreBps |-> 0]

MCReadings == {Reading(12500, 10000), Reading(12499, 0), Reading(12500, 10001)}
=============================================================================
