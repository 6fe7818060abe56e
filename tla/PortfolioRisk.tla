---------------------------- MODULE PortfolioRisk ----------------------------
(***************************************************************************)
(* The portfolio engine and the risk engine on the positions of a wallet:  *)
(* pricing, lending metrics, the summary of a risk snapshot and the stress *)
(* scenarios the risk job and the simulation endpoint run on them.         *)
(*                                                                         *)
(* Amounts times prices are whole numbers of a unit of value, and a shock  *)
(* of whole per cents leaves one, so no value is rounded.                  *)
(***************************************************************************)
EXTENDS RiskMath, Sequences, FiniteSetsExt

CONSTANTS
    Portfolios,     \* what the adapters may report for the wallet
    Quotes,         \* answers of the oracle: price or Null by asset id
    Scenarios       \* sequences of shocks

Roles == {"asset", "collateral", "debt", "reward", "locked"}

Fields == {"protocol", "type", "partialThreshold", "liquidBps", "assets",
           "gross", "equity", "healthFactorE4", "distanceBps"}

IsPosition(p) == p = [f \in Fields |-> p[f]]

IsAsset(a) == a = [f \in {"asset", "role", "amount", "value"} |-> a[f]]

\* A position as an adapter reports it: without values and metrics.  partialThreshold
\* is Null without lending parameters, 0 if they do not name one.
Reported(p) ==
    /\ IsPosition(p)
    /\ p.type \in {"wallet", "stream", "lending", "borrowing"}
    /\ p.partialThreshold \in Nat \cup {Null}
    /\ p.liquidBps \in (0..Unit) \cup {Null}
    /\ {p.gross, p.equity, p.healthFactorE4, p.distanceBps} = {Null}
    /\ IsFiniteSet(DOMAIN p.assets)
    /\ \A i \in DOMAIN p.assets :
          /\ IsAsset(p.assets[i])
          /\ p.assets[i].role \in Roles /\ p.assets[i].amount \in Nat /\ p.assets[i].value = Null

\* A change validation takes: at most everything is lost, at most ten times it gained.
Changes == -Unit..100000

\* A quote has each of them, with Null where the map of prices has none.
AssetsOf(ps) == UNION {{ps[i].assets[n].asset : n \in DOMAIN ps[i].assets} : i \in DOMAIN ps}

ASSUME PortfolioAssumption ==
    /\ \A ps \in Portfolios : IsFiniteSet(DOMAIN ps) /\ \A i \in DOMAIN ps : Reported(ps[i])
    /\ \A q \in Quotes : \A a \in DOMAIN q : q[a] \in Nat \cup {Null}
    /\ \A ps \in Portfolios, q \in Quotes : AssetsOf(ps) \subseteq DOMAIN q
    /\ \A s \in Scenarios : \A i \in DOMAIN s : i \in Nat /\ s[i].changeBps \in Changes

VARIABLES
    positions,  \* table Position of the wallet: what valuePositions returned
    result      \* the last scenario run on them and what they became, at first none

-----------------------------------------------------------------------------
(* Positions.                                                              *)

Total(f) == MapThenSumSet(LAMBDA x : f[x], DOMAIN f)

SumOf(seq, Value(_)) == Total([i \in DOMAIN seq |-> Value(seq[i])])

WorthOf(asset) == IF asset.value = Null THEN 0 ELSE asset.value

RoleValue(assets, role) ==
    SumOf(assets, LAMBDA a : IF a.role = role THEN WorthOf(a) ELSE 0)

SignedValue(asset) == IF asset.role = "debt" THEN -WorthOf(asset) ELSE WorthOf(asset)

\* A position keeps its metrics where collateral or debt has no value.
DeriveLendingMetrics(p) ==
    LET collateral == RoleValue(p.assets, "collateral")
        debt       == RoleValue(p.assets, "debt")
        ltv        == CurrentLtvBps(debt, collateral)
        Known(f)   == IF p.partialThreshold > 0 THEN f ELSE Null
    IN  IF p.partialThreshold = Null \/ collateral <= 0 \/ debt <= 0 THEN p
        ELSE [p EXCEPT !.healthFactorE4 = Known(HealthFactorE4(p.partialThreshold, ltv)),
                       !.distanceBps    = Known(DistanceBps(p.partialThreshold, ltv))]

\* The common end of valuePosition and stressPosition.
Revalued(p, assets) ==
    DeriveLendingMetrics([p EXCEPT !.assets = assets, !.gross = SumOf(assets, WorthOf),
                                   !.equity = SumOf(assets, SignedValue)])

ValuePosition(p, quote) ==
    LET Valued(a) == IF quote[a.asset] = Null THEN a
                     ELSE [a EXCEPT !.value = a.amount * quote[a.asset]]
    IN  Revalued(p, [i \in DOMAIN p.assets |-> Valued(p.assets[i])])

-----------------------------------------------------------------------------
(* calculatePortfolioRisk.                                                 *)

LargestOf(shares) == Max({0} \cup {shares[k] : k \in DOMAIN shares})

\* Wallet balances count in the total and are no protocol.
ProtocolConcentration(ps) ==
    LET Counted(p) == p.type # "wallet"
        grouped == [k \in {ps[i].protocol : i \in DOMAIN ps} |->
                       SumOf(ps, LAMBDA p : IF Counted(p) /\ p.protocol = k THEN p.gross ELSE 0)]
    IN  ShareBps(LargestOf(grouped), SumOf(ps, LAMBDA p : p.gross))

AssetConcentration(ps) ==
    LET Worth(p, k) == SumOf(p.assets, LAMBDA a : IF a.asset = k THEN WorthOf(a) ELSE 0)
        grouped == [k \in AssetsOf(ps) |-> SumOf(ps, LAMBDA p : Worth(p, k))]
    IN  ShareBps(LargestOf(grouped), Total(grouped))

\* Mutant: what is liquid counts wallets, the total does not.
CapitalAccessibilityBps_OfProtocols(ps) ==
    LET total == SumOf(ps, LAMBDA p : IF p.type = "wallet" THEN 0 ELSE p.gross)
    IN  IF total = 0 THEN Unit
        ELSE RoundDiv(SumOf(ps, LAMBDA p : p.gross * (IF p.liquidBps = Null THEN Unit ELSE p.liquidBps)),
                      total)

CapitalAccessibilityBps(ps) ==
    LET LiquidBps(p) == IF p.liquidBps = Null THEN Unit ELSE p.liquidBps
        total == SumOf(ps, LAMBDA p : p.gross)
    IN  IF total = 0 THEN Unit
        ELSE RoundDiv(SumOf(ps, LAMBDA p : p.gross * LiquidBps(p)), total)

Worst(figures) == IF figures \subseteq {Null} THEN Null ELSE Min(figures \ {Null})

WorstHealth(ps) == Worst({ps[i].healthFactorE4 : i \in DOMAIN ps})
LiquidationDistance(ps) == Worst({ps[i].distanceBps : i \in DOMAIN ps})

CalculatePortfolioRisk(ps) ==
    LET share  == ProtocolConcentration(ps)
        access == CapitalAccessibilityBps(ps)
        score  == Score(WorstHealth(ps), share, access)
    IN  [protocolConcentrationBps |-> share,
         assetConcentrationBps    |-> AssetConcentration(ps),
         liquidityScoreBps        |-> access,
         riskScoreBps             |-> Clamped(0, Unit, score),
         riskLevel                |-> OverallRiskLevel(WorstHealth(ps), score),
         worstHealthFactorE4      |-> WorstHealth(ps),
         liquidationDistanceBps   |-> LiquidationDistance(ps)]

\* The publisher's checks of the figures it attests.
PublisherAccepts(risk) ==
    /\ risk.riskScoreBps \in 0..Unit
    /\ risk.liquidationDistanceBps = Null \/ risk.liquidationDistanceBps \in 0..Unit
    /\ risk.protocolConcentrationBps \in 0..Unit
    /\ risk.liquidityScoreBps \in 0..Unit

-----------------------------------------------------------------------------
(* runStressScenario.  A shock names an asset by id or by symbol; ids here *)
(* are symbols, as they are for every asset but fungible tokens.           *)

Linked == {"BTC", "sBTC"}

FirstChange(shocks, matching) == shocks[Min(matching)].changeBps

\* Mutant: a shock of BTC moves everything.
ResolveShock_LinksAll(asset, shocks) ==
    LET By(field, keys) == {i \in DOMAIN shocks : shocks[i].by = field /\ shocks[i].key \in keys}
    IN  IF By("symbol", Linked) # {} THEN FirstChange(shocks, By("symbol", Linked)) ELSE 0

ResolveShock(asset, shocks) ==
    LET By(field, keys) == {i \in DOMAIN shocks : shocks[i].by = field /\ shocks[i].key \in keys}
    IN  IF By("assetId", {asset}) # {} THEN FirstChange(shocks, By("assetId", {asset}))
        ELSE IF By("symbol", {asset}) # {} THEN FirstChange(shocks, By("symbol", {asset}))
        ELSE IF asset \in Linked /\ By("symbol", Linked) # {}
             THEN FirstChange(shocks, By("symbol", Linked))
        ELSE 0

\* Mutant: the sign of the change is lost.
Shocked_Unsigned(v, changeBps) == (v * (Unit + Greater(changeBps, -changeBps))) \div Unit

Shocked(v, changeBps) == (v * (Unit + changeBps)) \div Unit

StressPosition(p, shocks) ==
    LET ShockedAsset(a) == IF a.value = Null THEN a
                           ELSE [a EXCEPT !.value = Shocked(@, ResolveShock(a.asset, shocks))]
    IN  Revalued(p, [i \in DOMAIN p.assets |-> ShockedAsset(p.assets[i])])

StressAll(ps, shocks) == [i \in DOMAIN ps |-> StressPosition(ps[i], shocks)]

-----------------------------------------------------------------------------
vars == << positions, result >>

\* What an index run stores, in place of all it stored before: the adapters' positions,
\* priced as far as the oracle answered.
Indexed(ps, quote) == [i \in DOMAIN ps |-> ValuePosition(ps[i], quote)]

\* The wallet has been indexed; no figure depends on earlier runs.
Init ==
    /\ \E ps \in Portfolios, quote \in Quotes : positions = Indexed(ps, quote)
    /\ result = [shocks |-> << >>, stressed |-> positions]

\* A scenario on the stored positions, by the risk job or by SimulationsService.run.
Simulate(shocks) ==
    /\ positions # << >>
    /\ result' = [shocks |-> shocks, stressed |-> StressAll(positions, shocks)]
    /\ UNCHANGED positions

Next == \E shocks \in Scenarios : Simulate(shocks)

Spec == Init /\ [][Next]_vars

-----------------------------------------------------------------------------
(* Properties.                                                             *)

Stressed == result.stressed

\* What is stored and what a scenario answers are positions with whole figures.
PortfolioTypeOK ==
    \A ps \in {positions, Stressed} : \A i \in DOMAIN ps :
        /\ ps[i].gross \in Nat /\ ps[i].equity \in Int
        /\ ps[i].healthFactorE4 \in Nat \cup {Null}
        /\ ps[i].distanceBps \in (-Unit..Unit) \cup {Null}
        /\ \A n \in DOMAIN ps[i].assets : ps[i].assets[n].value \in Nat \cup {Null}

\* risk-registry.clar:136-141 and the publisher bound the figures an attestation may
\* carry: of everything calculatePortfolioRisk returns, only the distance of a wallet
\* past its threshold is outside.
OnlyUnderwaterIsRefused ==
    LET risk == CalculatePortfolioRisk(positions)
    IN  PublisherAccepts(risk) <=> \/ ~Liquidatable(risk.worstHealthFactorE4)
                                   \/ risk.liquidationDistanceBps = 0

\* Asked of positions whose collateral and debt have values above zero.
HealthFollowsValues(p) ==
    LET collateral == RoleValue(p.assets, "collateral")
        debt       == RoleValue(p.assets, "debt")
    IN  p.partialThreshold \in Thresholds /\ collateral \in Nat \ {0} /\ debt \in Nat \ {0}
          => (Liquidatable(p.healthFactorE4)
                <=> 2 * Unit * debt >= (2 * p.partialThreshold - 1) * collateral)

\* documentation/32:135: on one side of 1.0 the debt is below the threshold share of the
\* collateral, on the other above, up to half a basis point of LTV, although ratio and
\* health factor are rounded one after the other; before and after a shock.
LiquidatableIffPastThreshold ==
    \A ps \in {positions, Stressed} : \A i \in DOMAIN ps : HealthFollowsValues(ps[i])

\* A fall of collateral prices with debt prices unchanged raises no health factor and
\* rescues no position, whichever shocks of the scenario resolve to which assets.
FallsDoNotHelp ==
    \A i \in DOMAIN Stressed :
        LET before == positions[i]
            after  == Stressed[i]
            Change(n) == ResolveShock(before.assets[n].asset, result.shocks)
            Falls == \A n \in DOMAIN before.assets :
                        Change(n) <= 0 /\ (before.assets[n].role = "debt" => Change(n) = 0)
        IN  before.healthFactorE4 # Null /\ Falls
              => after.healthFactorE4 <= before.healthFactorE4

Names(shock, asset) == shock.key = asset \/ {shock.key, asset} \subseteq Linked

\* A scenario that names none of the wallet's assets, nor for BTC and sBTC the other of
\* the two, leaves everything as it was: recomputed figures are the stored ones.
UnrelatedShocksChangeNothing ==
    (\A i \in DOMAIN result.shocks : \A a \in AssetsOf(positions) : ~Names(result.shocks[i], a))
        => result.stressed = positions

\* packages/rivisk-contracts/src/index.ts:90: "A wallet with no debt has no health
\* factor": so that only such a wallet is attested with the safest representable values.
NoHealthFactorMeansNoDebt ==
    positions # << >> /\ WorstHealth(positions) = Null =>
        \A i \in DOMAIN positions : \A n \in DOMAIN positions[i].assets :
            positions[i].assets[n].role = "debt" => positions[i].assets[n].amount = 0
=============================================================================
