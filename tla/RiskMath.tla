------------------------------ MODULE RiskMath ------------------------------
(***************************************************************************)
(* The arithmetic of the portfolio engine and the risk engine on single    *)
(* figures: ratios in basis points (1/10000), health factors in E4, bands  *)
(* and the composite score.  PortfolioRisk applies it to positions.        *)
(*                                                                         *)
(* Decimal.js divides with 20 digits and rounds half away from zero, which *)
(* for the quotients below is the exact quotient rounded.  The score is    *)
(* computed with doubles: where the weighted sum ends in exactly one half, *)
(* it may come out a basis point lower than Score.                         *)
(***************************************************************************)
EXTENDS Integers

CONSTANT Null   \* a figure that is undefined

ASSUME NullAssumption == Null \notin Int

Unit == 10000   \* 100 per cent in basis points, and a health factor of 1

\* Liquidation thresholds above one basis point and up to 200 per cent, where rounding
\* moves no position across one.
Thresholds == 2..20000

Greater(x, y) == IF x >= y THEN x ELSE y
Lesser(x, y) == IF x <= y THEN x ELSE y
Clamped(lo, hi, x) == Greater(lo, Lesser(hi, x))

\* The integer nearest to a / b, for b > 0, halves away from zero.
RoundDiv(a, b) ==
    IF a >= 0 THEN (2 * a + b) \div (2 * b) ELSE -((b - 2 * a) \div (2 * b))

ShareBps(part, total) == IF total <= 0 THEN 0 ELSE RoundDiv(part * Unit, total)

-----------------------------------------------------------------------------
(* Lending, in deriveLendingMetrics; T is the partial-liquidation LTV.     *)

\* Mutant: truncated instead of rounded.
CurrentLtvBps_Truncated(debt, collateral) == (debt * Unit) \div collateral

CurrentLtvBps(debt, collateral) == RoundDiv(debt * Unit, collateral)

HealthFactorE4(T, ltv) == RoundDiv(T * Unit, IF ltv = 0 THEN 1 ELSE ltv)

DistanceBps(T, ltv) == Clamped(-Unit, Unit, RoundDiv((T - ltv) * Unit, T))

Liquidatable(hf) == hf # Null /\ hf <= Unit

-----------------------------------------------------------------------------
(* Bands and score, in calculatePortfolioRisk.                             *)

ClassifyHealthFactor(hf) ==
    IF hf = Null THEN "unknown"
    ELSE IF hf < 12000 THEN "critical"
    ELSE IF hf < 15000 THEN "elevated"
    ELSE IF hf < 20000 THEN "moderate"
    ELSE "healthy"

\* By the bands of ClassifyHealthFactor.
HealthRiskBps(hf) ==
    [unknown |-> 0, critical |-> Unit, elevated |-> 7500, moderate |-> 4000, healthy |-> 1000]
        [ClassifyHealthFactor(hf)]

ConcentrationRiskBps(share) ==
    IF share <= 2500 THEN 0 ELSE Lesser(Unit, RoundDiv((share - 2500) * Unit, 7500))

AccessibilityRiskBps(accessibility) == Greater(0, Unit - accessibility)

\* Before the clamp of riskScoreBps.
Score(hf, share, accessibility) ==
    RoundDiv(4 * HealthRiskBps(hf) + 3 * ConcentrationRiskBps(share)
                                   + 3 * AccessibilityRiskBps(accessibility), 10)

OverallRiskLevel(hf, score) ==
    IF hf # Null THEN ClassifyHealthFactor(hf)
    ELSE IF score >= 7500 THEN "critical"
    ELSE IF score >= 5000 THEN "elevated"
    ELSE IF score >= 2500 THEN "moderate"
    ELSE "healthy"
=============================================================================
