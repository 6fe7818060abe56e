------------------------- MODULE PortfolioRiskProofs -------------------------
(***************************************************************************)
(* From the requests of an indexer's read to the figures of a snapshot,    *)
(* for every portfolio, quote, scenario and chain.                         *)
(*                                                                         *)
(*   single figures   what rounding and banding do to every input          *)
(*   sums             over finitely many assets and positions              *)
(*   positions        the health factor of every stored and every stressed *)
(*                    position says what its collateral and debt say; a    *)
(*                    scenario that names nothing of the wallet's changes  *)
(*                    nothing; falling collateral raises no health factor  *)
(*   snapshots        what is refused for attestation, and what never is   *)
(*   reads            the report a read puts together from several blocks  *)
(*                                                                         *)
(* A sum is unfolded member by member (TotalUnfolds); what holds of it is  *)
(* shown for the set of subsets whose partial sums have it.                *)
(***************************************************************************)
EXTENDS PortfolioRisk, ProtocolReads, FiniteSetTheorems, TLAPS

-----------------------------------------------------------------------------
(* Single figures.                                                         *)

\* Division rounded down reaches n when the dividend reaches n divisors.
LEMMA DivReaches ==
  ASSUME NEW x \in Int, NEW y \in Nat \ {0}, NEW n \in Int
  PROVE  x \div y \in Int /\ (x \div y >= n <=> x >= y * n)
  OBVIOUS

\* A rounded quotient reaches n when the exact one reaches n - 1/2.
LEMMA RoundDivReaches ==
  ASSUME NEW a \in Nat, NEW b \in Nat \ {0}, NEW n \in Int
  PROVE  RoundDiv(a, b) \in Int /\ (RoundDiv(a, b) >= n <=> 2 * a + b >= 2 * b * n)
  <1>1. 2 * a + b \in Int /\ 2 * b \in Nat \ {0}
    OBVIOUS
  <1>2. RoundDiv(a, b) = (2 * a + b) \div (2 * b)
    BY DEF RoundDiv
  <1> QED BY <1>1, <1>2, DivReaches

\* A rounded quotient has the sign of the exact one, or is zero.
LEMMA RoundDivOfNegative ==
  ASSUME NEW a \in Int, a < 0, NEW b \in Nat \ {0}
  PROVE  RoundDiv(a, b) \in Int /\ RoundDiv(a, b) <= 0
  <1>1. b - 2 * a \in Int /\ 2 * b \in Nat \ {0}
    OBVIOUS
  <1>2. (b - 2 * a) \div (2 * b) \in Int /\ (b - 2 * a) \div (2 * b) >= 0
    BY <1>1, DivReaches
  <1> QED BY <1>2 DEF RoundDiv

\* The LTV in basis points reaches T when debt over collateral reaches it up to half a
\* basis point (portfolio-engine/src/index.ts:97).
LEMMA LtvReachesThreshold ==
  ASSUME NEW debt \in Nat, NEW collateral \in Nat \ {0}, NEW T \in Nat
  PROVE  /\ CurrentLtvBps(debt, collateral) \in Nat
         /\ CurrentLtvBps(debt, collateral) >= T
              <=> 2 * Unit * debt >= (2 * T - 1) * collateral
  <1>1. debt * Unit \in Nat
    BY DEF Unit
  <1>2. /\ CurrentLtvBps(debt, collateral) \in Int
        /\ CurrentLtvBps(debt, collateral) >= T
             <=> 2 * (debt * Unit) + collateral >= 2 * collateral * T
        /\ CurrentLtvBps(debt, collateral) >= 0
             <=> 2 * (debt * Unit) + collateral >= 2 * collateral * 0
    BY <1>1, RoundDivReaches DEF CurrentLtvBps
  <1>3. CurrentLtvBps(debt, collateral) \in Nat
    BY <1>1, <1>2
  <1>4. 2 * (debt * Unit) + collateral >= 2 * collateral * T
          <=> 2 * Unit * debt >= (2 * T - 1) * collateral
    BY DEF Unit
  <1> QED BY <1>2, <1>3, <1>4

\* What it is to be in a range.
LEMMA RangeMember ==
  \A lo, hi \in Int : \A x : x \in lo..hi <=> x \in Int /\ lo <= x /\ x <= hi
  OBVIOUS

\* Thresholds and basis points as bounds.
LEMMA Bounds ==
  /\ \A T \in Thresholds : T \in Nat \ {0} /\ T \in Int /\ 2 <= T /\ T <= 20000
  /\ \A x : x \in 0..Unit <=> x \in Int /\ 0 <= x /\ x <= Unit
  /\ \A x : x \in -Unit..Unit <=> x \in Int /\ -Unit <= x /\ x <= Unit
  <1> DEFINE lo == 2
             hi == 20000
  <1>0. lo = 2 /\ hi = 20000
    OBVIOUS
  <1>1. lo \in Int /\ hi \in Int /\ Thresholds = lo..hi
    BY DEF Thresholds
  <1>2. 0 \in Int /\ Unit \in Int /\ -Unit \in Int
    BY DEF Unit
  <1> HIDE DEF lo, hi
  <1>3. \A T \in Thresholds : T \in Int /\ lo <= T /\ T <= hi
    BY <1>1, RangeMember
  <1>4. \A T \in Thresholds : T \in Nat \ {0} /\ T \in Int /\ 2 <= T /\ T <= 20000
    BY <1>0, <1>3
  <1>5. \A x : x \in 0..Unit <=> x \in Int /\ 0 <= x /\ x <= Unit
    BY <1>2, RangeMember
  <1>6. \A x : x \in -Unit..Unit <=> x \in Int /\ -Unit <= x /\ x <= Unit
    BY <1>2, RangeMember
  <1> QED BY <1>4, <1>5, <1>6

\* Where rounding a health factor up would lift it above 1.
LEMMA RoundedAboveOne ==
  ASSUME NEW T \in Int, 2 <= T, T <= 20000, NEW d \in Int, 1 <= d
  PROVE  2 * (T * Unit) + d >= 2 * d * (Unit + 1) <=> d < T
  <1>1. 2 * (T * Unit) = 20000 * T /\ 2 * d * (Unit + 1) = 20002 * d
    BY DEF Unit
  <1>2. 20000 * T + d >= 20002 * d <=> d < T
    OBVIOUS
  <1> QED BY <1>1, <1>2

\* Rounding the health factor moves no position across 1.0 (portfolio-engine/src/index.ts:102).
LEMMA HealthAgreesWithLtv ==
  ASSUME NEW T \in Thresholds, NEW ltv \in Nat
  PROVE  Liquidatable(HealthFactorE4(T, ltv)) <=> ltv >= T
  <1> DEFINE d == IF ltv = 0 THEN 1 ELSE ltv
             hf == RoundDiv(T * Unit, d)
  <1>0. T \in Nat \ {0} /\ 2 <= T /\ T <= 20000
    BY Bounds
  <1>1. d \in Nat \ {0} /\ T * Unit \in Nat
    BY <1>0 DEF Unit
  <1>2. hf \in Int /\ (hf >= Unit + 1 <=> 2 * (T * Unit) + d >= 2 * d * (Unit + 1))
    <2> DEFINE n == Unit + 1
    <2>1. n \in Int
      BY DEF Unit
    <2> HIDE DEF d, n
    <2>2. hf \in Int /\ (hf >= n <=> 2 * (T * Unit) + d >= 2 * d * n)
      BY <1>1, <2>1, RoundDivReaches
    <2> QED BY <2>2 DEF n
  <1>3. 2 * (T * Unit) + d >= 2 * d * (Unit + 1) <=> d < T
    <2>1. d \in Int /\ 1 <= d
      BY <1>1
    <2> HIDE DEF d
    <2> QED BY <1>0, <2>1, RoundedAboveOne
  <1>4. d < T <=> ltv < T
    BY <1>0
  <1>5. HealthFactorE4(T, ltv) = hf
    BY DEF HealthFactorE4
  <1> HIDE DEF hf, d
  <1>6. hf # Null
    BY <1>2, NullAssumption
  <1>7. hf <= Unit <=> ltv >= T
    BY <1>0, <1>2, <1>3, <1>4 DEF Unit
  <1> QED BY <1>5, <1>6, <1>7 DEF Liquidatable

\* A position is liquidatable by its health factor exactly if its debt has reached the
\* threshold share of its collateral, up to half a basis point of LTV, for every value of
\* both (documentation/32:135).
THEOREM LiquidatableExactly ==
  ASSUME NEW T \in Thresholds, NEW debt \in Nat, NEW collateral \in Nat \ {0}
  PROVE  Liquidatable(HealthFactorE4(T, CurrentLtvBps(debt, collateral)))
            <=> 2 * Unit * debt >= (2 * T - 1) * collateral
  <1> DEFINE ltv == CurrentLtvBps(debt, collateral)
  <1>1. ltv \in Nat /\ (ltv >= T <=> 2 * Unit * debt >= (2 * T - 1) * collateral)
    <2>1. T \in Nat
      BY Bounds
    <2> QED BY <2>1, LtvReachesThreshold
  <1> HIDE DEF ltv
  <1>2. Liquidatable(HealthFactorE4(T, ltv)) <=> ltv >= T
    BY <1>1, HealthAgreesWithLtv
  <1> QED BY <1>1, <1>2 DEF ltv

\* The distance is within 100 per cent, and is used up exactly where the health factor
\* says so (portfolio-engine/src/index.ts:110, 144).
THEOREM DistanceAgreesWithHealth ==
  ASSUME NEW T \in Thresholds, NEW ltv \in Nat
  PROVE  /\ DistanceBps(T, ltv) \in -Unit..Unit
         /\ DistanceBps(T, ltv) <= 0 <=> Liquidatable(HealthFactorE4(T, ltv))
  <1>0. T \in Nat \ {0} /\ 2 <= T /\ T <= 20000
    BY Bounds
  <1> DEFINE x == (T - ltv) * Unit
             r == RoundDiv(x, T)
  <1>1. r \in Int /\ (r <= 0 <=> ltv >= T)
    <2>1. CASE ltv <= T
      <3>1. x \in Nat
        BY <1>0, <2>1 DEF Unit
      <3>2. 2 * x + T >= 2 * T * 1 <=> ltv < T
        BY <1>0, <2>1 DEF Unit
      <3> HIDE DEF x
      <3>3. r \in Int /\ (r >= 1 <=> 2 * x + T >= 2 * T * 1)
        BY <1>0, <3>1, RoundDivReaches
      <3> QED BY <1>0, <2>1, <3>2, <3>3
    <2>2. CASE ltv > T
      <3>1. x \in Int /\ x < 0
        BY <1>0, <2>2 DEF Unit
      <3> HIDE DEF x
      <3> QED BY <2>2, <1>0, <3>1, RoundDivOfNegative
    <2> QED BY <1>0, <2>1, <2>2
  <1>2. DistanceBps(T, ltv) = Clamped(-Unit, Unit, r)
    BY DEF DistanceBps
  <1> HIDE DEF r
  <1>3. /\ Clamped(-Unit, Unit, r) \in -Unit..Unit
        /\ Clamped(-Unit, Unit, r) <= 0 <=> r <= 0
    <2>1. /\ Clamped(-Unit, Unit, r) \in Int
          /\ -Unit <= Clamped(-Unit, Unit, r) /\ Clamped(-Unit, Unit, r) <= Unit
          /\ Clamped(-Unit, Unit, r) <= 0 <=> r <= 0
      BY <1>1 DEF Clamped, Greater, Lesser, Unit
    <2> QED BY <2>1, Bounds
  <1>4. Liquidatable(HealthFactorE4(T, ltv)) <=> ltv >= T
    BY HealthAgreesWithLtv
  <1> QED BY <1>1, <1>2, <1>3, <1>4

\* The parts of the score are basis points, and an unknown health factor adds nothing.
LEMMA ScorePartsInRange ==
  ASSUME NEW hf \in Nat \cup {Null}, NEW share \in Nat, NEW access \in Nat
  PROVE  /\ HealthRiskBps(hf) \in 0..Unit /\ (hf = Null => HealthRiskBps(hf) = 0)
         /\ ConcentrationRiskBps(share) \in 0..Unit
         /\ AccessibilityRiskBps(access) \in 0..Unit
  <1>1. /\ HealthRiskBps(hf) \in 0..Unit
        /\ hf = Null => HealthRiskBps(hf) = 0
    <2>1. ClassifyHealthFactor(hf) \in {"unknown", "critical", "elevated", "moderate", "healthy"}
      BY DEF ClassifyHealthFactor
    <2>2. hf = Null => ClassifyHealthFactor(hf) = "unknown"
      BY DEF ClassifyHealthFactor
    <2>3. /\ ClassifyHealthFactor(hf) = "unknown"  => HealthRiskBps(hf) = 0
          /\ ClassifyHealthFactor(hf) = "critical" => HealthRiskBps(hf) = Unit
          /\ ClassifyHealthFactor(hf) = "elevated" => HealthRiskBps(hf) = 7500
          /\ ClassifyHealthFactor(hf) = "moderate" => HealthRiskBps(hf) = 4000
          /\ ClassifyHealthFactor(hf) = "healthy"  => HealthRiskBps(hf) = 1000
      BY DEF HealthRiskBps
    <2>4. HealthRiskBps(hf) \in {0, Unit, 7500, 4000, 1000}
      BY <2>1, <2>3
    <2>5. /\ HealthRiskBps(hf) \in Int
          /\ 0 <= HealthRiskBps(hf) /\ HealthRiskBps(hf) <= Unit
      BY <2>4 DEF Unit
    <2> QED BY <2>2, <2>3, <2>5, Bounds
  <1>2. ConcentrationRiskBps(share) \in 0..Unit
    <2> DEFINE r == RoundDiv((share - 2500) * Unit, 7500)
    <2>1. CASE share <= 2500
      <3>1. ConcentrationRiskBps(share) = 0
        BY <2>1 DEF ConcentrationRiskBps
      <3>2. 0 <= Unit
        BY DEF Unit
      <3> QED BY <3>1, <3>2, Bounds
    <2>2. CASE share > 2500
      <3>1. (share - 2500) * Unit \in Nat
        BY <2>2 DEF Unit
      <3>2. r \in Int /\ (r >= 0 <=> 2 * ((share - 2500) * Unit) + 7500 >= 2 * 7500 * 0)
        BY <3>1, RoundDivReaches
      <3>3. ConcentrationRiskBps(share) = Lesser(Unit, r)
        BY <2>2 DEF ConcentrationRiskBps
      <3> HIDE DEF r
      <3>4. Lesser(Unit, r) \in Int /\ 0 <= Lesser(Unit, r) /\ Lesser(Unit, r) <= Unit
        BY <3>1, <3>2 DEF Lesser, Unit
      <3> QED BY <3>3, <3>4, Bounds
    <2> QED BY <2>1, <2>2
  <1>3. AccessibilityRiskBps(access) \in 0..Unit
    <2>1. /\ AccessibilityRiskBps(access) \in Int
          /\ 0 <= AccessibilityRiskBps(access) /\ AccessibilityRiskBps(access) <= Unit
      BY DEF AccessibilityRiskBps, Greater, Unit
    <2> QED BY <2>1, Bounds
  <1> QED BY <1>1, <1>2, <1>3

\* The composite score needs no clamp, and without a health factor it stays below the
\* critical band, whatever is concentrated or locked (risk-engine/src/index.ts:137-140,
\* 313-320).
THEOREM ScoreInRange ==
  ASSUME NEW hf \in Nat \cup {Null}, NEW share \in Nat, NEW access \in Nat
  PROVE  /\ Score(hf, share, access) \in 0..Unit
         /\ hf = Null => OverallRiskLevel(hf, Score(hf, share, access)) # "critical"
  <1> DEFINE h == HealthRiskBps(hf)
             c == ConcentrationRiskBps(share)
             l == AccessibilityRiskBps(access)
             sum == 4 * h + 3 * c + 3 * l
             s == RoundDiv(sum, 10)
  <1>1. h \in 0..Unit /\ c \in 0..Unit /\ l \in 0..Unit /\ (hf = Null => h = 0)
    BY ScorePartsInRange
  <1>2. Score(hf, share, access) = s
    BY DEF Score
  <1> HIDE DEF h, c, l
  <1>3. sum \in Nat /\ sum <= 100000 /\ (hf = Null => sum <= 60000)
    <2>1. /\ h \in Int /\ c \in Int /\ l \in Int
          /\ 0 <= h /\ 0 <= c /\ 0 <= l
          /\ h <= Unit /\ c <= Unit /\ l <= Unit
      BY <1>1, Bounds
    <2>2. hf = Null => h = 0
      BY <1>1
    <2>3. Unit = 10000
      BY DEF Unit
    <2> QED BY <2>1, <2>2, <2>3
  <1> HIDE DEF sum
  <1>4. /\ s \in Int
        /\ s >= 0 <=> 2 * sum + 10 >= 0
        /\ s >= 10001 <=> 2 * sum + 10 >= 200020
        /\ s >= 7500 <=> 2 * sum + 10 >= 150000
    <2>1. \A n \in Int : s \in Int /\ (s >= n <=> 2 * sum + 10 >= 2 * 10 * n)
      BY <1>3, RoundDivReaches
    <2> HIDE DEF s
    <2> QED BY <2>1, <1>3
  <1> HIDE DEF s
  <1>5. s \in 0..Unit /\ (hf = Null => s < 7500)
    <2>1. s \in Int /\ s >= 0 /\ s <= 10000 /\ (hf = Null => s < 7500)
      BY <1>3, <1>4
    <2>2. s <= Unit
      BY <2>1 DEF Unit
    <2> QED BY <2>1, <2>2, Bounds
  <1>6. ASSUME hf = Null PROVE OverallRiskLevel(hf, s) # "critical"
    <2>1. s \in Int /\ ~(s >= 7500)
      BY <1>5, <1>6
    <2> QED BY <1>6, <2>1 DEF OverallRiskLevel
  <1> QED BY <1>2, <1>5, <1>6

-----------------------------------------------------------------------------
(* Sums over finite sets of assets and positions, by induction on subsets. *)

Pick(s) == CHOOSE x \in s : TRUE

\* g is the partial sums of f over sets of its arguments.
PartialSums(f, S, g) ==
    g = [s \in S |-> IF s = {} THEN 0 ELSE f[Pick(s)] + g[s \ {Pick(s)}]]

\* A set that is not empty has a member to pick.
LEMMA PickIsMember == \A s : s # {} => Pick(s) \in s
  BY DEF Pick

\* A sum is the partial sum over all arguments, by Folds.
LEMMA TotalIsPartialSum ==
  ASSUME NEW f
  PROVE  Total(f) = (CHOOSE g : PartialSums(f, SUBSET DOMAIN f, g))[DOMAIN f]
  BY DEF Total, MapThenSumSet, MapThenFoldSet, PartialSums, Pick

\* A set of naturals that has a member has a least one.
LEMMA LeastExists ==
    ASSUME NEW T \in SUBSET Nat, T # {}
    PROVE  \E x \in T : \A y \in T : x <= y
<1>1. PICK x \in T : \A y \in T : << y, x >> \notin OpToRel(<, Nat)
  BY NatLessThanWellFounded, WFMin
<1>2. \A y \in T : ~(y < x)
  BY <1>1 DEF OpToRel
<1> QED
  BY <1>2

\* The subsets of up to n members.
Layer(D, n) == {s \in SUBSET D : Cardinality(s) <= n}

\* Partial sums exist for finite sets: by the number of arguments.
LEMMA PartialSumsExist ==
  ASSUME NEW D, IsFiniteSet(D), NEW f
  PROVE  \E g : PartialSums(f, SUBSET D, g)
  <1> DEFINE Bad == {n \in Nat : \A g : ~PartialSums(f, Layer(D, n), g)}
  <1>1. Bad = {}
    <2>1. SUFFICES ASSUME NEW n \in Bad, \A m \in Bad : n <= m
                   PROVE  FALSE
      <3>1. Bad \in SUBSET Nat
        OBVIOUS
      <3> HIDE DEF Bad
      <3> QED BY <3>1, LeastExists
    <2>2. CASE n = 0
      <3>1. \A s \in Layer(D, n) : s = {}
        BY <2>2, FS_Subset, FS_CardinalityType, FS_EmptySet DEF Layer
      <3>2. PartialSums(f, Layer(D, n), [s \in Layer(D, n) |-> 0])
        BY <3>1 DEF PartialSums
      <3> QED BY <3>2
    <2>3. CASE n # 0
      <3>1. n - 1 \in Nat /\ n - 1 \notin Bad
        BY <2>1, <2>3
      <3>2. PICK g : PartialSums(f, Layer(D, n - 1), g)
        BY <3>1
      <3> DEFINE h == [s \in Layer(D, n) |-> IF s = {} THEN 0 ELSE f[Pick(s)] + g[s \ {Pick(s)}]]
      <3>3. ASSUME NEW s \in Layer(D, n), s # {}
            PROVE  s \ {Pick(s)} \in Layer(D, n - 1) /\ s \ {Pick(s)} \in Layer(D, n)
        <4>1. IsFiniteSet(s) /\ Pick(s) \in s /\ Cardinality(s) <= n /\ s \in SUBSET D
          BY <3>3, FS_Subset, PickIsMember DEF Layer
        <4>2. Cardinality(s) \in Nat /\ Cardinality(s \ {Pick(s)}) = Cardinality(s) - 1
          BY <4>1, FS_RemoveElement, FS_CardinalityType
        <4> QED BY <4>1, <4>2 DEF Layer
      <3>4. ASSUME NEW s \in Layer(D, n - 1), s \in Layer(D, n)
            PROVE  h[s] = g[s]
        BY <3>2, <3>4 DEF PartialSums
      <3>5. \A s \in Layer(D, n) : s # {} => h[s \ {Pick(s)}] = g[s \ {Pick(s)}]
        <4> HIDE DEF h
        <4> QED BY <3>3, <3>4
      <3>6. PartialSums(f, Layer(D, n), h)
        BY <3>5 DEF PartialSums
      <3> QED BY <3>6
    <2> QED BY <2>2, <2>3
  <1>2. Cardinality(D) \in Nat /\ Layer(D, Cardinality(D)) = SUBSET D
    BY FS_Subset, FS_CardinalityType DEF Layer
  <1>3. Cardinality(D) \notin Bad
    BY <1>1
  <1> QED BY <1>2, <1>3

\* A finite sum can be taken member by member.
LEMMA TotalUnfolds ==
  ASSUME NEW f, IsFiniteSet(DOMAIN f)
  PROVE  \E g : PartialSums(f, SUBSET DOMAIN f, g) /\ Total(f) = g[DOMAIN f]
  BY PartialSumsExist, TotalIsPartialSum

\* What holds of the empty set, and of a set if of it without a member, holds of all.
LEMMA SubsetInduction ==
  ASSUME NEW D, IsFiniteSet(D), NEW Q \in SUBSET SUBSET D, {} \in Q,
         \A s \in SUBSET D : s # {} /\ s \ {Pick(s)} \in Q => s \in Q
  PROVE  Q = SUBSET D
  <1> DEFINE Bad == (SUBSET D) \ Q
  <1>1. SUFFICES ASSUME Bad # {} PROVE FALSE
    OBVIOUS
  <1>2. IsWellFoundedOn(StrictSubsetOrdering(D), SUBSET D)
    BY FS_StrictSubsetOrderingWellFounded, FS_FiniteSubsetsOfFinite
  <1>6. Bad \subseteq SUBSET D
    OBVIOUS
  <1>3. PICK s \in Bad : \A t \in Bad : << t, s >> \notin StrictSubsetOrdering(D)
    <2> HIDE DEF Bad
    <2> QED BY <1>1, <1>2, <1>6, WFMin
  <1>4. s # {} /\ Pick(s) \in s
    BY PickIsMember
  <1>5. << s \ {Pick(s)}, s >> \in StrictSubsetOrdering(D)
    BY <1>4 DEF StrictSubsetOrdering
  <1> QED BY <1>3, <1>4, <1>5

\* A sum of integers is one, and a sum of naturals.
LEMMA TotalType ==
  ASSUME NEW f, IsFiniteSet(DOMAIN f)
  PROVE  /\ (\A x \in DOMAIN f : f[x] \in Int) => Total(f) \in Int
         /\ (\A x \in DOMAIN f : f[x] \in Nat) => Total(f) \in Nat
  <1>1. PICK D : D = DOMAIN f
    OBVIOUS
  <1>2. PICK g : PartialSums(f, SUBSET D, g) /\ Total(f) = g[D]
    BY <1>1, TotalUnfolds
  <1>3. ASSUME NEW N \in {Nat, Int}, \A x \in DOMAIN f : f[x] \in N
        PROVE  g[D] \in N
    <2> DEFINE Q == {s \in SUBSET D : g[s] \in N}
    <2>1. {} \in Q
      BY <1>2, <1>3 DEF PartialSums
    <2>2. ASSUME NEW s \in SUBSET D, s # {}, s \ {Pick(s)} \in Q
          PROVE  s \in Q
      <3>1. g[s] = f[Pick(s)] + g[s \ {Pick(s)}]
        BY <1>2, <2>2 DEF PartialSums
      <3>2. f[Pick(s)] \in N
        BY <1>1, <1>3, <2>2, PickIsMember
      <3>3. g[s \ {Pick(s)}] \in N
        BY <2>2
      <3> QED BY <3>1, <3>2, <3>3
    <2>3. Q \in SUBSET SUBSET D
      OBVIOUS
    <2>4. Q = SUBSET D
      <3> HIDE DEF Q
      <3> QED BY <1>1, <2>1, <2>2, <2>3, SubsetInduction
    <2> QED BY <2>4
  <1> QED BY <1>2, <1>3

\* A sum does not fall if none of its terms does.
LEMMA TotalMonotone ==
  ASSUME NEW f, NEW h, IsFiniteSet(DOMAIN f), DOMAIN h = DOMAIN f,
         \A x \in DOMAIN f : f[x] \in Int /\ h[x] \in Int /\ f[x] <= h[x]
  PROVE  Total(f) <= Total(h)
  <1>1. PICK D : D = DOMAIN f
    OBVIOUS
  <1>2. PICK g : PartialSums(f, SUBSET D, g) /\ Total(f) = g[D]
    BY <1>1, TotalUnfolds
  <1>3. PICK k : PartialSums(h, SUBSET D, k) /\ Total(h) = k[D]
    BY <1>1, TotalUnfolds
  <1> DEFINE Q == {s \in SUBSET D : g[s] \in Int /\ k[s] \in Int /\ g[s] <= k[s]}
  <1>4. {} \in Q
    BY <1>2, <1>3 DEF PartialSums
  <1>5. ASSUME NEW s \in SUBSET D, s # {}, s \ {Pick(s)} \in Q
        PROVE  s \in Q
    <2>1. g[s] = f[Pick(s)] + g[s \ {Pick(s)}] /\ k[s] = h[Pick(s)] + k[s \ {Pick(s)}]
      BY <1>2, <1>3, <1>5 DEF PartialSums
    <2>2. f[Pick(s)] \in Int /\ h[Pick(s)] \in Int /\ f[Pick(s)] <= h[Pick(s)]
      BY <1>1, <1>5, PickIsMember
    <2>3. /\ g[s \ {Pick(s)}] \in Int /\ k[s \ {Pick(s)}] \in Int
          /\ g[s \ {Pick(s)}] <= k[s \ {Pick(s)}]
      BY <1>5
    <2> QED BY <2>1, <2>2, <2>3
  <1>6. Q \in SUBSET SUBSET D
    OBVIOUS
  <1>7. Q = SUBSET D
    <2> HIDE DEF Q
    <2> QED BY <1>1, <1>4, <1>5, <1>6, SubsetInduction
  <1> QED BY <1>2, <1>3, <1>7

\* A common factor of the terms is one of the sum.
LEMMA TotalScaled ==
  ASSUME NEW f, NEW h, NEW c \in Int, IsFiniteSet(DOMAIN f), DOMAIN h = DOMAIN f,
         \A x \in DOMAIN f : f[x] \in Int /\ h[x] = f[x] * c
  PROVE  Total(h) = Total(f) * c
  <1>1. PICK D : D = DOMAIN f
    OBVIOUS
  <1>2. PICK g : PartialSums(f, SUBSET D, g) /\ Total(f) = g[D]
    BY <1>1, TotalUnfolds
  <1>3. PICK k : PartialSums(h, SUBSET D, k) /\ Total(h) = k[D]
    BY <1>1, TotalUnfolds
  <1> DEFINE Q == {s \in SUBSET D : g[s] \in Int /\ k[s] = g[s] * c}
  <1>4. {} \in Q
    BY <1>2, <1>3 DEF PartialSums
  <1>5. ASSUME NEW s \in SUBSET D, s # {}, s \ {Pick(s)} \in Q
        PROVE  s \in Q
    <2>1. g[s] = f[Pick(s)] + g[s \ {Pick(s)}] /\ k[s] = h[Pick(s)] + k[s \ {Pick(s)}]
      BY <1>2, <1>3, <1>5 DEF PartialSums
    <2>2. f[Pick(s)] \in Int /\ h[Pick(s)] = f[Pick(s)] * c
      BY <1>1, <1>5, PickIsMember
    <2>3. g[s \ {Pick(s)}] \in Int /\ k[s \ {Pick(s)}] = g[s \ {Pick(s)}] * c
      BY <1>5
    <2>4. \A x, y \in Int : (x + y) * c = x * c + y * c
      OBVIOUS
    <2> QED BY <2>1, <2>2, <2>3, <2>4
  <1>6. Q \in SUBSET SUBSET D
    OBVIOUS
  <1>7. Q = SUBSET D
    <2> HIDE DEF Q
    <2> QED BY <1>1, <1>4, <1>5, <1>6, SubsetInduction
  <1> QED BY <1>2, <1>3, <1>7

-----------------------------------------------------------------------------
(* Health factors of positions.                                            *)

\* What the guards of deriveLendingMetrics see of positive figures.
LEMMA PositiveFigures ==
  ASSUME NEW t \in Thresholds, NEW x \in Nat \ {0}, NEW y \in Nat \ {0}
  PROVE  t # Null /\ t > 0 /\ ~(x <= 0) /\ ~(y <= 0)
  <1>1. t \in Int /\ t > 0 /\ ~(x <= 0) /\ ~(y <= 0)
    BY Bounds
  <1>2. t # Null
    BY <1>1, NullAssumption, Zenon
  <1> QED BY <1>1, <1>2

\* Deriving the metrics makes the health factor follow the values, whatever it was
\* (portfolio-engine/src/index.ts:76).
LEMMA DerivedHealthFollowsValues ==
  ASSUME NEW p, {"assets", "partialThreshold", "healthFactorE4", "distanceBps"} \subseteq DOMAIN p,
         p = [f \in DOMAIN p |-> p[f]]
  PROVE  HealthFollowsValues(DeriveLendingMetrics(p))
  <1> DEFINE collateral == RoleValue(p.assets, "collateral")
             debt == RoleValue(p.assets, "debt")
             T == p.partialThreshold
             ltv == CurrentLtvBps(debt, collateral)
             d == DeriveLendingMetrics(p)
  <1>1. CASE T \in Thresholds /\ collateral \in Nat \ {0} /\ debt \in Nat \ {0}
    <2>1. T # Null /\ T > 0 /\ ~(collateral <= 0) /\ ~(debt <= 0)
      BY <1>1, PositiveFigures
    <2>2. d = [p EXCEPT !.healthFactorE4 = HealthFactorE4(T, ltv), !.distanceBps = DistanceBps(T, ltv)]
      BY <2>1 DEF DeriveLendingMetrics
    <2>3. d.assets = p.assets /\ d.partialThreshold = T /\ d.healthFactorE4 = HealthFactorE4(T, ltv)
      BY <2>2
    <2>4. Liquidatable(HealthFactorE4(T, ltv)) <=> 2 * Unit * debt >= (2 * T - 1) * collateral
      BY <1>1, LiquidatableExactly
    <2> QED BY <2>3, <2>4 DEF HealthFollowsValues
  <1>2. CASE ~(T \in Thresholds /\ collateral \in Nat \ {0} /\ debt \in Nat \ {0})
    <2>1. d.assets = p.assets /\ d.partialThreshold = T
      BY DEF DeriveLendingMetrics
    <2> QED BY <1>2, <2>1 DEF HealthFollowsValues
  <1> QED BY <1>1, <1>2

\* Pricing and shocking end in Revalued, which keeps the fields.
LEMMA RevaluedFollowsValues ==
  ASSUME NEW p, IsPosition(p), NEW assets
  PROVE  IsPosition(Revalued(p, assets)) /\ HealthFollowsValues(Revalued(p, assets))
  <1> DEFINE q == [p EXCEPT !.assets = assets, !.gross = SumOf(assets, WorthOf),
                            !.equity = SumOf(assets, SignedValue)]
  <1>1. DOMAIN q = Fields /\ q = [f \in DOMAIN q |-> q[f]]
    BY DEF IsPosition
  <1>2. Revalued(p, assets) = DeriveLendingMetrics(q)
    BY DEF Revalued
  <1> HIDE DEF q
  <1>3. HealthFollowsValues(DeriveLendingMetrics(q))
    BY <1>1, DerivedHealthFollowsValues DEF Fields
  <1>4. IsPosition(DeriveLendingMetrics(q))
    BY <1>1 DEF DeriveLendingMetrics, IsPosition
  <1> QED BY <1>2, <1>3, <1>4

\* The inductive invariant: what is stored and what a scenario answers are positions
\* whose health factor follows their values.
AllFollow(ps) == \A i \in DOMAIN ps : IsPosition(ps[i]) /\ HealthFollowsValues(ps[i])

HealthInv == AllFollow(positions) /\ AllFollow(Stressed)

\* The indexer stores positions it has priced.
LEMMA InitHealthInv == Init => HealthInv
  <1> SUFFICES ASSUME NEW ps \in Portfolios, NEW quote \in Quotes,
                      positions = Indexed(ps, quote),
                      result = [shocks |-> << >>, stressed |-> positions]
               PROVE  HealthInv
    BY DEF Init
  <1>1. ASSUME NEW i \in DOMAIN ps
        PROVE  IsPosition(ValuePosition(ps[i], quote)) /\ HealthFollowsValues(ValuePosition(ps[i], quote))
    <2>1. IsPosition(ps[i])
      BY PortfolioAssumption DEF Reported
    <2> QED BY <2>1, RevaluedFollowsValues DEF ValuePosition
  <1>2. AllFollow(positions)
    BY <1>1 DEF AllFollow, Indexed
  <1> QED BY <1>2 DEF HealthInv, Stressed

\* A scenario revalues copies of the stored positions.
LEMMA NextHealthInv == HealthInv /\ [Next]_vars => HealthInv'
  <1> SUFFICES ASSUME HealthInv, [Next]_vars
               PROVE  HealthInv'
    OBVIOUS
  <1>1. ASSUME NEW shocks \in Scenarios, Simulate(shocks)
        PROVE  HealthInv'
    <2>1. positions' = positions /\ result'.stressed = StressAll(positions, shocks)
      BY <1>1 DEF Simulate
    <2>2. ASSUME NEW i \in DOMAIN positions
          PROVE  /\ IsPosition(StressPosition(positions[i], shocks))
                 /\ HealthFollowsValues(StressPosition(positions[i], shocks))
      <3>1. IsPosition(positions[i])
        BY DEF HealthInv, AllFollow
      <3> QED BY <3>1, RevaluedFollowsValues DEF StressPosition
    <2>3. AllFollow(StressAll(positions, shocks))
      BY <2>2 DEF AllFollow, StressAll
    <2> QED BY <2>1, <2>3 DEF HealthInv, AllFollow, Stressed, IsPosition, HealthFollowsValues
  <1>2. CASE UNCHANGED vars
    BY <1>2 DEF HealthInv, AllFollow, Stressed, vars
  <1> QED BY <1>1, <1>2 DEF Next

-----------------------------------------------------------------------------
(* Scenarios that name nothing of the wallet's.                            *)

\* A position whose metrics are those of its assets' values, each of which is a number
\* or absent.
Settled(p) ==
    /\ IsPosition(p)
    /\ Revalued(p, p.assets) = p
    /\ p.assets = [n \in DOMAIN p.assets |-> p.assets[n]]
    /\ \A n \in DOMAIN p.assets :
          IsAsset(p.assets[n]) /\ p.assets[n].value \in Nat \cup {Null}

\* Deriving the metrics of the values again changes nothing.
LEMMA RevaluedIsSettled ==
  ASSUME NEW p, IsPosition(p), NEW assets, assets = [n \in DOMAIN assets |-> assets[n]],
         \A n \in DOMAIN assets : IsAsset(assets[n]) /\ assets[n].value \in Nat \cup {Null}
  PROVE  Settled(Revalued(p, assets))
  <1> DEFINE q == [p EXCEPT !.assets = assets, !.gross = SumOf(assets, WorthOf),
                            !.equity = SumOf(assets, SignedValue)]
             d == DeriveLendingMetrics(q)
  <1>1. Revalued(p, assets) = d
    BY DEF Revalued
  <1>2. DOMAIN p = Fields
    BY DEF IsPosition
  <1>3. /\ IsPosition(q) /\ q.assets = assets
        /\ q.gross = SumOf(assets, WorthOf) /\ q.equity = SumOf(assets, SignedValue)
    BY <1>2 DEF IsPosition, Fields
  <1> HIDE DEF q
  <1>4. /\ IsPosition(d) /\ d.assets = assets /\ d.gross = q.gross /\ d.equity = q.equity
        /\ DeriveLendingMetrics(d) = d
    <2> DEFINE collateral == RoleValue(assets, "collateral")
               debt == RoleValue(assets, "debt")
               ltv == CurrentLtvBps(debt, collateral)
               hf == IF q.partialThreshold > 0 THEN HealthFactorE4(q.partialThreshold, ltv) ELSE Null
               distance == IF q.partialThreshold > 0 THEN DistanceBps(q.partialThreshold, ltv) ELSE Null
               none == q.partialThreshold = Null \/ collateral <= 0 \/ debt <= 0
    <2>1. d = IF none THEN q ELSE [q EXCEPT !.healthFactorE4 = hf, !.distanceBps = distance]
      BY <1>3 DEF DeriveLendingMetrics
    <2>2. ASSUME NEW e, e.assets = assets, e.partialThreshold = q.partialThreshold
          PROVE  DeriveLendingMetrics(e) =
                    IF none THEN e ELSE [e EXCEPT !.healthFactorE4 = hf, !.distanceBps = distance]
      BY <2>2 DEF DeriveLendingMetrics
    <2> HIDE DEF none, hf, distance, d
    <2>3. CASE none
      BY <1>3, <2>1, <2>2, <2>3
    <2>4. CASE ~none
      <3>1. d = [q EXCEPT !.healthFactorE4 = hf, !.distanceBps = distance]
        BY <2>1, <2>4
      <3>2. /\ IsPosition(d) /\ d.assets = assets /\ d.gross = q.gross /\ d.equity = q.equity
            /\ d.partialThreshold = q.partialThreshold
            /\ d.healthFactorE4 = hf /\ d.distanceBps = distance
        BY <1>3, <3>1 DEF IsPosition, Fields
      <3>3. [d EXCEPT !.healthFactorE4 = hf, !.distanceBps = distance] = d
        BY <3>2 DEF IsPosition, Fields
      <3> QED
        BY <2>2, <2>4, <3>2, <3>3
    <2> QED
      BY <2>3, <2>4
  <1> HIDE DEF d
  <1>5. Revalued(d, d.assets) = d
    <2>1. [d EXCEPT !.assets = d.assets, !.gross = SumOf(d.assets, WorthOf),
                    !.equity = SumOf(d.assets, SignedValue)] = d
      <3>1. d.gross = SumOf(d.assets, WorthOf) /\ d.equity = SumOf(d.assets, SignedValue)
        BY <1>3, <1>4
      <3>2. IsPosition(d)
        BY <1>4
      <3> QED
        BY <3>1, <3>2 DEF IsPosition, Fields
    <2> QED
      BY <1>4, <2>1 DEF Revalued
  <1> QED
    BY <1>1, <1>4, <1>5 DEF Settled

\* No scenario moves an asset it does not name.
LEMMA UnnamedIsNotShocked ==
  ASSUME NEW shocks, NEW asset, \A i \in DOMAIN shocks : ~Names(shocks[i], asset)
  PROVE  ResolveShock(asset, shocks) = 0
  <1> DEFINE By(field, keys) == {i \in DOMAIN shocks : shocks[i].by = field /\ shocks[i].key \in keys}
  <1>1. By("assetId", {asset}) = {} /\ By("symbol", {asset}) = {}
    BY DEF Names
  <1>2. asset \in Linked => By("symbol", Linked) = {}
    BY DEF Names
  <1> QED
    BY <1>1, <1>2 DEF ResolveShock

\* A change of nothing leaves a value as it is.
LEMMA NoChange == \A v \in Nat : Shocked(v, 0) = v
  <1> SUFFICES ASSUME NEW v \in Nat PROVE Shocked(v, 0) = v
    OBVIOUS
  <1>1. Shocked(v, 0) = (v * 10000) \div 10000
    BY DEF Shocked, Unit
  <1>2. (v * 10000) \div 10000 = v
    OBVIOUS
  <1> QED
    BY <1>1, <1>2

\* What is stored has the metrics of its values, and the answer is that of the scenario
\* on what is stored.
SettledInv ==
    /\ positions = [i \in DOMAIN positions |-> positions[i]]
    /\ \A i \in DOMAIN positions : Settled(positions[i])
    /\ Stressed = positions \/ Stressed = StressAll(positions, result.shocks)

\* Pricing gives every asset a number or leaves it absent.
LEMMA InitSettledInv == Init => SettledInv
  <1> SUFFICES ASSUME NEW ps \in Portfolios, NEW quote \in Quotes,
                      positions = Indexed(ps, quote),
                      result = [shocks |-> << >>, stressed |-> positions]
               PROVE  SettledInv
    BY DEF Init
  <1>1. ASSUME NEW i \in DOMAIN ps
        PROVE  Settled(ValuePosition(ps[i], quote))
    <2> DEFINE p == ps[i]
               Valued(a) == IF quote[a.asset] = Null THEN a
                            ELSE [a EXCEPT !.value = a.amount * quote[a.asset]]
               assets == [n \in DOMAIN p.assets |-> Valued(p.assets[n])]
    <2>1. Reported(p)
      BY PortfolioAssumption
    <2>2. ASSUME NEW n \in DOMAIN p.assets
          PROVE  IsAsset(Valued(p.assets[n])) /\ Valued(p.assets[n]).value \in Nat \cup {Null}
      <3> DEFINE a == p.assets[n]
      <3>1. IsAsset(a) /\ a.amount \in Nat /\ a.value = Null
        BY <2>1 DEF Reported
      <3>2. a.asset \in AssetsOf(ps)
        BY DEF AssetsOf
      <3>3. AssetsOf(ps) \subseteq DOMAIN quote
        BY PortfolioAssumption
      <3>4. quote[a.asset] \in Nat \cup {Null}
        BY <3>2, <3>3, PortfolioAssumption
      <3> HIDE DEF a
      <3>5. CASE quote[a.asset] = Null
        BY <3>1, <3>5 DEF a
      <3>6. CASE quote[a.asset] # Null
        <4>1. quote[a.asset] \in Nat
          BY <3>4, <3>6
        <4>2. PICK v \in Nat : v = a.amount * quote[a.asset]
          BY <3>1, <4>1
        <4>3. Valued(a) = [a EXCEPT !.value = v]
          BY <3>6, <4>2
        <4>4. IsAsset([a EXCEPT !.value = v]) /\ [a EXCEPT !.value = v].value = v
          BY <3>1 DEF IsAsset
        <4> QED
          BY <4>3, <4>4 DEF a
      <3> QED
        BY <3>5, <3>6
    <2> HIDE DEF Valued
    <2>3. /\ assets = [n \in DOMAIN assets |-> assets[n]]
          /\ \A n \in DOMAIN assets : IsAsset(assets[n]) /\ assets[n].value \in Nat \cup {Null}
      BY <2>2
    <2>4. ValuePosition(p, quote) = Revalued(p, assets)
      BY DEF ValuePosition, Valued
    <2>5. IsPosition(p)
      BY <2>1 DEF Reported
    <2> HIDE DEF assets, p
    <2>6. Settled(ValuePosition(p, quote))
      BY <2>3, <2>4, <2>5, RevaluedIsSettled
    <2> QED
      BY <2>6 DEF p
  <1> QED
    BY <1>1 DEF SettledInv, Indexed, Stressed

\* A scenario leaves what is stored alone.
LEMMA NextSettledInv == SettledInv /\ [Next]_vars => SettledInv'
  <1> SUFFICES ASSUME SettledInv, [Next]_vars
               PROVE  SettledInv'
    OBVIOUS
  <1>1. ASSUME NEW shocks \in Scenarios, Simulate(shocks)
        PROVE  SettledInv'
    <2>1. positions' = positions /\ result'.shocks = shocks
          /\ result'.stressed = StressAll(positions, shocks)
      BY <1>1 DEF Simulate
    <2>2. StressAll(positions', result'.shocks) = StressAll(positions, shocks)
      BY <2>1
    <2> QED
      BY <2>1, <2>2 DEF SettledInv, Stressed, Settled, IsPosition
  <1>2. CASE UNCHANGED vars
    BY <1>2 DEF SettledInv, Stressed, vars, Settled, IsPosition
  <1> QED
    BY <1>1, <1>2 DEF Next

\* Values that are not shocked are the values that were stored, and so are their metrics.
LEMMA SettledInvUnrelated == SettledInv => UnrelatedShocksChangeNothing
  <1> SUFFICES ASSUME SettledInv, Stressed = StressAll(positions, result.shocks),
                      \A i \in DOMAIN result.shocks : \A a \in AssetsOf(positions) :
                          ~Names(result.shocks[i], a)
               PROVE  Stressed = positions
    BY DEF SettledInv, UnrelatedShocksChangeNothing, Stressed
  <1> DEFINE shocks == result.shocks
  <1>1. ASSUME NEW i \in DOMAIN positions
        PROVE  StressPosition(positions[i], shocks) = positions[i]
    <2> DEFINE p == positions[i]
               ShockedAsset(a) == IF a.value = Null THEN a
                                  ELSE [a EXCEPT !.value = Shocked(@, ResolveShock(a.asset, shocks))]
               assets == [n \in DOMAIN p.assets |-> ShockedAsset(p.assets[n])]
    <2>1. Settled(p)
      BY DEF SettledInv
    <2>2. ASSUME NEW n \in DOMAIN p.assets
          PROVE  ShockedAsset(p.assets[n]) = p.assets[n]
      <3>1. IsAsset(p.assets[n]) /\ p.assets[n].value \in Nat \cup {Null}
        BY <2>1 DEF Settled
      <3>2. p.assets[n].asset \in AssetsOf(positions)
        BY DEF AssetsOf
      <3>3. ResolveShock(p.assets[n].asset, shocks) = 0
        BY <3>2, UnnamedIsNotShocked
      <3>4. p.assets[n].value # Null => Shocked(p.assets[n].value, 0) = p.assets[n].value
        BY <3>1, NoChange
      <3>5. [p.assets[n] EXCEPT !.value = p.assets[n].value] = p.assets[n]
        BY <3>1 DEF IsAsset
      <3> QED
        BY <3>3, <3>4, <3>5
    <2> HIDE DEF ShockedAsset
    <2>3. assets = p.assets
      BY <2>1, <2>2 DEF Settled
    <2>4. StressPosition(p, shocks) = Revalued(p, assets)
      BY DEF StressPosition, ShockedAsset
    <2> QED
      BY <2>1, <2>3, <2>4 DEF Settled
  <1> QED
    BY <1>1 DEF SettledInv, StressAll

-----------------------------------------------------------------------------
(* Figures of positions in relation to each other, and worst figures.      *)

\* Rounding keeps the order of quotients: the larger divisor has the smaller.
LEMMA RoundDivAntitone ==
  ASSUME NEW a \in Nat, NEW b \in Nat \ {0}, NEW c \in Nat \ {0}, b <= c
  PROVE  RoundDiv(a, c) \in Nat /\ RoundDiv(a, c) <= RoundDiv(a, b)
  <1>1. /\ \A n \in Int : RoundDiv(a, c) \in Int /\ (RoundDiv(a, c) >= n <=> 2 * a + c >= 2 * c * n)
        /\ \A n \in Int : RoundDiv(a, b) \in Int /\ (RoundDiv(a, b) >= n <=> 2 * a + b >= 2 * b * n)
    BY RoundDivReaches
  <1>2. PICK n \in Int : n = RoundDiv(a, c)
    BY <1>1
  <1>3. n >= 0
    <2>1. RoundDiv(a, c) >= 0 <=> 2 * a + c >= 2 * c * 0
      BY <1>1
    <2> QED BY <1>2, <2>1
  <1>4. 2 * a + c >= 2 * c * n
    BY <1>1, <1>2
  <1>5. 2 * a + b >= 2 * b * n
    <2>1. CASE n = 0
      BY <2>1
    <2>2. CASE n >= 1
      <3>1. PICK m \in Nat : m = 2 * n - 1
        BY <2>2
      <3>2. 2 * c * n = c * m + c /\ 2 * b * n = b * m + b
        BY <3>1
      <3>3. c * m >= b * m
        BY <3>1
      <3>4. c * m \in Int /\ b * m \in Int
        BY <3>1
      <3> QED BY <1>4, <3>2, <3>3, <3>4
    <2> QED BY <1>3, <2>1, <2>2
  <1> QED BY <1>1, <1>2, <1>3, <1>5

\* Collateral that falls raises the LTV and lowers the health factor, or leaves them
\* (portfolio-engine/src/index.ts:97-102).
LEMMA LessCollateralLessHealth ==
  ASSUME NEW T \in Nat, NEW debt \in Nat, NEW less \in Nat \ {0}, NEW more \in Nat \ {0}, less <= more
  PROVE  HealthFactorE4(T, CurrentLtvBps(debt, less)) <= HealthFactorE4(T, CurrentLtvBps(debt, more))
  <1> DEFINE l == CurrentLtvBps(debt, more)
             h == CurrentLtvBps(debt, less)
             dl == IF l = 0 THEN 1 ELSE l
             dh == IF h = 0 THEN 1 ELSE h
  <1>1. l \in Nat /\ h \in Nat /\ l <= h
    <2>1. PICK x \in Nat : x = debt * Unit
      BY DEF Unit
    <2>2. RoundDiv(x, more) \in Nat /\ RoundDiv(x, more) <= RoundDiv(x, less)
      BY ONLY RoundDivAntitone, x \in Nat, less \in Nat \ {0}, more \in Nat \ {0}, less <= more
    <2>3. RoundDiv(x, less) \in Nat
      BY ONLY RoundDivAntitone, x \in Nat, less \in Nat \ {0}
    <2> QED BY <2>1, <2>2, <2>3 DEF CurrentLtvBps
  <1> HIDE DEF l, h
  <1>2. dl \in Nat \ {0} /\ dh \in Nat \ {0} /\ dl <= dh
    BY <1>1
  <1>3. PICK y \in Nat : y = T * Unit
    BY DEF Unit
  <1>4. HealthFactorE4(T, l) = RoundDiv(y, dl) /\ HealthFactorE4(T, h) = RoundDiv(y, dh)
    BY <1>3 DEF HealthFactorE4
  <1> HIDE DEF dl, dh
  <1>5. RoundDiv(y, dh) <= RoundDiv(y, dl)
    BY <1>2, RoundDivAntitone
  <1> QED BY <1>4, <1>5 DEF l, h

\* Beyond one basis point of threshold, a position past its threshold is liquidatable, and
\* one that is has no distance left (portfolio-engine/src/index.ts:102, 110).
LEMMA DistanceAndHealth ==
  ASSUME NEW T \in Nat, T >= 2, NEW ltv \in Nat
  PROVE  /\ HealthFactorE4(T, ltv) \in Nat
         /\ DistanceBps(T, ltv) \in -Unit..Unit
         /\ DistanceBps(T, ltv) < 0 => HealthFactorE4(T, ltv) <= Unit
         /\ HealthFactorE4(T, ltv) <= Unit => DistanceBps(T, ltv) <= 0
  <1> DEFINE d == IF ltv = 0 THEN 1 ELSE ltv
             hf == RoundDiv(T * Unit, d)
             x == (T - ltv) * Unit
             r == RoundDiv(x, T)
  <1>1. HealthFactorE4(T, ltv) = hf /\ DistanceBps(T, ltv) = Clamped(-Unit, Unit, r)
    BY DEF HealthFactorE4, DistanceBps
  <1>2. hf \in Nat /\ (hf >= 10001 <=> 20000 * T + d >= 20002 * d)
    <2>1. PICK e \in Nat \ {0} : e = d
      OBVIOUS
    <2>2. PICK y \in Nat : y = T * Unit
      BY DEF Unit
    <2>3. \A n \in Int : RoundDiv(y, e) \in Int /\ (RoundDiv(y, e) >= n <=> 2 * y + e >= 2 * e * n)
      BY RoundDivReaches
    <2>4. /\ RoundDiv(y, e) >= 0 <=> 2 * y + e >= 2 * e * 0
          /\ RoundDiv(y, e) >= 10001 <=> 2 * y + e >= 2 * e * 10001
          /\ RoundDiv(y, e) \in Int
      BY <2>3
    <2>5. hf = RoundDiv(y, e)
      BY <2>1, <2>2
    <2>6. 2 * y + e >= 2 * e * 0 /\ 2 * e * 10001 = 20002 * e /\ 2 * y = 20000 * T
      BY <2>2 DEF Unit
    <2> HIDE DEF d, hf
    <2> QED BY <2>1, <2>4, <2>5, <2>6
  <1>3. r \in Int /\ (r < 0 => ltv > T) /\ (ltv <= T => (r >= 1 <=> 20000 * (T - ltv) + T >= 2 * T))
    <2>0. T \in Nat \ {0}
      OBVIOUS
    <2>1. CASE ltv <= T
      <3>1. PICK y \in Nat : y = x
        BY <2>1 DEF Unit
      <3>2. \A n \in Int : RoundDiv(y, T) \in Int /\ (RoundDiv(y, T) >= n <=> 2 * y + T >= 2 * T * n)
        BY <2>0, RoundDivReaches
      <3>3. /\ RoundDiv(y, T) \in Int
            /\ RoundDiv(y, T) >= 0 <=> 2 * y + T >= 2 * T * 0
            /\ RoundDiv(y, T) >= 1 <=> 2 * y + T >= 2 * T * 1
        BY <3>2
      <3>4. 2 * y = 20000 * (T - ltv) /\ r = RoundDiv(y, T)
        BY <3>1 DEF Unit
      <3> HIDE DEF r
      <3> QED BY <2>1, <3>3, <3>4
    <2>2. CASE ltv > T
      <3>1. x \in Int /\ x < 0
        BY <2>2 DEF Unit
      <3> HIDE DEF x
      <3> QED BY <2>0, <2>2, <3>1, RoundDivOfNegative
    <2> QED BY <2>1, <2>2
  <1>4. ltv > T => r <= 0
    <2> SUFFICES ASSUME ltv > T PROVE r <= 0
      OBVIOUS
    <2>1. x \in Int /\ x < 0
      BY DEF Unit
    <2> HIDE DEF x
    <2> QED BY <2>1, RoundDivOfNegative
  <1>5. d \in Nat /\ d >= 1 /\ d >= ltv /\ (ltv >= 1 => d = ltv) /\ (ltv = 0 => d = 1)
    OBVIOUS
  <1> HIDE DEF hf, r, d
  <1>6. (r < 0 => hf <= 10000) /\ (hf <= 10000 => r <= 0)
    <2>1. ASSUME r < 0 PROVE hf <= 10000
      BY <1>2, <1>3, <1>5, <2>1
    <2>2. ASSUME hf <= 10000, ltv <= T PROVE r <= 0
      BY <1>2, <1>3, <1>5, <2>2
    <2> QED BY <1>3, <1>4, <2>1, <2>2
  <1>7. /\ Clamped(-Unit, Unit, r) \in Int
        /\ -Unit <= Clamped(-Unit, Unit, r) /\ Clamped(-Unit, Unit, r) <= Unit
        /\ Clamped(-Unit, Unit, r) <= 0 <=> r <= 0
        /\ Clamped(-Unit, Unit, r) < 0 <=> r < 0
    BY <1>3 DEF Clamped, Greater, Lesser, Unit
  <1>8. Clamped(-Unit, Unit, r) \in -Unit..Unit
    BY <1>7, Bounds
  <1>9. Unit = 10000
    BY DEF Unit
  <1> DEFINE c == Clamped(-Unit, Unit, r)
  <1>10. (c < 0 => hf <= Unit) /\ (hf <= Unit => c <= 0)
    BY ONLY <1>6, <1>7, <1>9
  <1>11. hf \in Nat
    BY <1>2
  <1> HIDE DEF c
  <1> QED BY <1>1, <1>8, <1>10, <1>11 DEF c

\* The worst of finitely many figures is one of them, and at most as large as each.
LEMMA WorstIsLeast ==
  ASSUME NEW figures, figures \subseteq (Int \cup {Null}), NEW floor \in Int,
         \A x \in figures \ {Null} : floor <= x
  PROVE  /\ Worst(figures) = Null <=> figures \subseteq {Null}
         /\ Worst(figures) # Null =>
               /\ Worst(figures) \in figures \ {Null}
               /\ \A x \in figures \ {Null} : Worst(figures) <= x
  <1>1. CASE figures \subseteq {Null}
    BY <1>1 DEF Worst
  <1>2. CASE ~(figures \subseteq {Null})
    <2> DEFINE N == figures \ {Null}
               S == {n \in Nat : \E x \in N : n = x - floor}
    <2>1. N # {} /\ \A x \in N : x \in Int /\ floor <= x
      BY <1>2
    <2>2. S \in SUBSET Nat /\ \A x \in N : x - floor \in S
      BY <2>1
    <2>3. S # {}
      BY <2>1, <2>2
    <2>4. PICK n \in S : \A m \in S : n <= m
      <3> HIDE DEF S
      <3> QED BY <2>2, <2>3, LeastExists
    <2>5. PICK x \in N : n = x - floor
      OBVIOUS
    <2>6. \A y \in N : x <= y
      <3> SUFFICES ASSUME NEW y \in N PROVE x <= y
        OBVIOUS
      <3>1. n <= y - floor
        BY <2>2, <2>4
      <3> HIDE DEF N
      <3> QED BY <2>1, <2>5, <3>1
    <2>7. Worst(figures) = CHOOSE z \in N : \A y \in N : z <= y
      BY <1>2 DEF Worst, Min
    <2>8. Worst(figures) \in N /\ \A y \in N : Worst(figures) <= y
      BY <2>5, <2>6, <2>7
    <2> QED BY <1>2, <2>8
  <1> QED BY <1>1, <1>2

\* A naturals' set with an upper bound has a greatest element.
LEMMA GreatestExists ==
  ASSUME NEW S \in SUBSET Nat, S # {}, NEW bound \in Nat, \A x \in S : x <= bound
  PROVE  Max(S) \in S /\ \A y \in S : y <= Max(S)
  <1> DEFINE T == {c \in Nat : \E x \in S : c = bound - x}
  <1>0. T \in SUBSET Nat /\ \A x \in S : bound - x \in T
    OBVIOUS
  <1>1. T \in SUBSET Nat /\ T # {} /\ \A x \in S : bound - x \in T
    <2> HIDE DEF T
    <2> QED BY <1>0
  <1>2. PICK c \in T : \A d \in T : c <= d
    <2> HIDE DEF T
    <2> QED BY <1>1, LeastExists
  <1>3. PICK x \in S : c = bound - x
    OBVIOUS
  <1>4. \A y \in S : x >= y
    <2> SUFFICES ASSUME NEW y \in S PROVE x >= y
      OBVIOUS
    <2>1. c <= bound - y
      BY <1>1, <1>2
    <2> QED BY <1>3, <2>1
  <1>5. Max(S) \in S /\ \A y \in S : Max(S) >= y
    BY <1>3, <1>4 DEF Max
  <1> QED BY <1>5

\* A part of at most the whole is at most 100 per cent.
LEMMA ShareInRange ==
  ASSUME NEW part \in Nat, NEW total \in Nat, part <= total
  PROVE  ShareBps(part, total) \in 0..Unit
  <1>1. CASE total = 0
    <2>1. ShareBps(part, total) = 0
      BY <1>1 DEF ShareBps
    <2>2. 0 <= Unit
      BY DEF Unit
    <2> QED BY <2>1, <2>2, Bounds
  <1>2. CASE total # 0
    <2>1. PICK x \in Nat : x = part * 10000
      OBVIOUS
    <2>2. total \in Nat \ {0}
      BY <1>2
    <2>3. \A n \in Int : /\ RoundDiv(x, total) \in Int
                         /\ RoundDiv(x, total) >= n <=> 2 * x + total >= 2 * total * n
      BY <2>2, RoundDivReaches
    <2>4. /\ RoundDiv(x, total) \in Int
          /\ RoundDiv(x, total) >= 0 <=> 2 * x + total >= 2 * total * 0
          /\ RoundDiv(x, total) >= 10001 <=> 2 * x + total >= 2 * total * 10001
      BY <2>3
    <2>5. 2 * x + total >= 0 /\ 2 * x + total < 20002 * total
      BY <1>2, <2>1
    <2>6. RoundDiv(x, total) \in Int /\ 0 <= RoundDiv(x, total) /\ RoundDiv(x, total) <= 10000
      BY <2>4, <2>5
    <2>7. ShareBps(part, total) = RoundDiv(x, total)
      BY <1>2, <2>1 DEF ShareBps, Unit
    <2>8. PICK s \in Int : s = RoundDiv(x, total)
      BY <2>6
    <2>9. 0 <= s /\ s <= Unit
      BY <2>6, <2>8 DEF Unit
    <2>10. s \in 0..Unit
      BY <2>9, Bounds
    <2> QED BY <2>7, <2>8, <2>10
  <1> QED BY <1>1, <1>2

\* What the engines know of a position: whole values, and metrics of its collateral and
\* debt or none.
Measured(p) ==
    /\ IsFiniteSet(DOMAIN p.assets)
    /\ p.gross \in Nat
    /\ p.liquidBps \in (0..Unit) \cup {Null}
    /\ \/ p.healthFactorE4 = Null /\ p.distanceBps = Null
       \/ LET T          == p.partialThreshold
              collateral == RoleValue(p.assets, "collateral")
              debt       == RoleValue(p.assets, "debt")
              ltv        == CurrentLtvBps(debt, collateral)
          IN  /\ T \in Nat \ {0} /\ collateral \in Nat \ {0} /\ debt \in Nat \ {0}
              /\ p.healthFactorE4 = HealthFactorE4(T, ltv)
              /\ p.distanceBps = DistanceBps(T, ltv)

\* A stored wallet has finitely many positions, and a threshold is one of those reported.
MeasuredInv ==
    /\ IsFiniteSet(DOMAIN positions)
    /\ \A i \in DOMAIN positions : Measured(positions[i])
    /\ \E ps \in Portfolios : DOMAIN ps = DOMAIN positions
          /\ \A i \in DOMAIN ps : positions[i].partialThreshold = ps[i].partialThreshold
    /\ \A i \in DOMAIN result.shocks :
          i \in Nat /\ result.shocks[i].changeBps \in Changes

\* The values of a role are whole and add up to a whole value.
LEMMA RoleValueType ==
  ASSUME NEW assets, NEW kind, IsFiniteSet(DOMAIN assets),
         \A n \in DOMAIN assets : assets[n].value \in Nat \cup {Null}
  PROVE  RoleValue(assets, kind) \in Nat /\ SumOf(assets, WorthOf) \in Nat
  <1> DEFINE f == [n \in DOMAIN assets |-> IF assets[n].role = kind THEN WorthOf(assets[n]) ELSE 0]
             g == [n \in DOMAIN assets |-> WorthOf(assets[n])]
  <1>1. RoleValue(assets, kind) = Total(f) /\ SumOf(assets, WorthOf) = Total(g)
    BY DEF RoleValue, SumOf
  <1>2. \A n \in DOMAIN assets : WorthOf(assets[n]) \in Nat
    BY DEF WorthOf
  <1>3. DOMAIN f = DOMAIN assets /\ DOMAIN g = DOMAIN assets
        /\ (\A n \in DOMAIN f : f[n] \in Nat) /\ (\A n \in DOMAIN g : g[n] \in Nat)
    BY <1>2
  <1> HIDE DEF f, g
  <1>4. Total(f) \in Nat
    BY <1>3, TotalType
  <1>5. Total(g) \in Nat
    BY <1>3, TotalType
  <1> QED BY <1>1, <1>4, <1>5

\* Deriving the metrics of a reported position measures it (portfolio-engine/src/index.ts:76).
LEMMA RevaluedIsMeasured ==
  ASSUME NEW p, IsPosition(p), NEW assets, IsFiniteSet(DOMAIN assets),
         \A n \in DOMAIN assets : assets[n].value \in Nat \cup {Null},
         p.healthFactorE4 = Null, p.distanceBps = Null,
         p.liquidBps \in (0..Unit) \cup {Null}, p.partialThreshold \in Nat \cup {Null}
  PROVE  Measured(Revalued(p, assets)) /\ Revalued(p, assets).partialThreshold = p.partialThreshold
  <1> DEFINE q == [p EXCEPT !.assets = assets, !.gross = SumOf(assets, WorthOf),
                            !.equity = SumOf(assets, SignedValue)]
             collateral == RoleValue(assets, "collateral")
             debt == RoleValue(assets, "debt")
             T == p.partialThreshold
             ltv == CurrentLtvBps(debt, collateral)
             hf == IF T > 0 THEN HealthFactorE4(T, ltv) ELSE Null
             distance == IF T > 0 THEN DistanceBps(T, ltv) ELSE Null
             none == T = Null \/ collateral <= 0 \/ debt <= 0
  <1>1. collateral \in Nat /\ debt \in Nat /\ SumOf(assets, WorthOf) \in Nat
    BY RoleValueType
  <1>2. /\ IsPosition(q) /\ q.assets = assets /\ q.gross \in Nat /\ q.partialThreshold = T
        /\ q.liquidBps = p.liquidBps /\ q.healthFactorE4 = Null /\ q.distanceBps = Null
    BY <1>1 DEF IsPosition, Fields
  <1>3. Revalued(p, assets) = DeriveLendingMetrics(q)
    BY DEF Revalued
  <1> HIDE DEF q
  <1>4. DeriveLendingMetrics(q) =
            IF none THEN q ELSE [q EXCEPT !.healthFactorE4 = hf, !.distanceBps = distance]
    BY <1>2 DEF DeriveLendingMetrics
  <1> HIDE DEF collateral, debt
  <1>5. CASE none
    BY <1>2, <1>3, <1>4, <1>5 DEF Measured
  <1>6. CASE ~none
    <2> DEFINE d == [q EXCEPT !.healthFactorE4 = hf, !.distanceBps = distance]
    <2>1. /\ d.assets = assets /\ d.gross \in Nat /\ d.partialThreshold = T
          /\ d.liquidBps = p.liquidBps /\ d.healthFactorE4 = hf /\ d.distanceBps = distance
      BY <1>2 DEF IsPosition, Fields
    <2>2. T \in Nat /\ collateral \in Nat \ {0} /\ debt \in Nat \ {0}
      BY <1>1, <1>6
    <2>3. Revalued(p, assets) = d
      BY <1>3, <1>4, <1>6
    <2>4. T > 0 => T \in Nat \ {0} /\ hf = HealthFactorE4(T, ltv) /\ distance = DistanceBps(T, ltv)
      BY <2>2
    <2>5. ~(T > 0) => hf = Null /\ distance = Null
      OBVIOUS
    <2> HIDE DEF d, hf, distance, none
    <2>6. Measured(d)
      BY <2>1, <2>2, <2>4, <2>5 DEF Measured, collateral, debt
    <2> QED BY <2>1, <2>3, <2>6
  <1> QED BY <1>5, <1>6

\* The indexer measures the positions that the adapters report.
LEMMA InitMeasuredInv == Init => MeasuredInv
  <1> SUFFICES ASSUME NEW ps \in Portfolios, NEW quote \in Quotes,
                      positions = Indexed(ps, quote),
                      result = [shocks |-> << >>, stressed |-> positions]
               PROVE  MeasuredInv
    BY DEF Init
  <1>1. ASSUME NEW i \in DOMAIN ps
        PROVE  /\ Measured(ValuePosition(ps[i], quote))
               /\ ValuePosition(ps[i], quote).partialThreshold = ps[i].partialThreshold
    <2> DEFINE p == ps[i]
               Valued(a) == IF quote[a.asset] = Null THEN a
                            ELSE [a EXCEPT !.value = a.amount * quote[a.asset]]
               assets == [n \in DOMAIN p.assets |-> Valued(p.assets[n])]
    <2>1. Reported(p)
      BY PortfolioAssumption
    <2>2. ASSUME NEW n \in DOMAIN p.assets
          PROVE  Valued(p.assets[n]).value \in Nat \cup {Null}
      <3> DEFINE a == p.assets[n]
      <3>1. IsAsset(a) /\ a.amount \in Nat /\ a.value = Null
        BY <2>1 DEF Reported
      <3>2. a.asset \in AssetsOf(ps)
        BY DEF AssetsOf
      <3>3. AssetsOf(ps) \subseteq DOMAIN quote
        BY PortfolioAssumption
      <3>4. quote[a.asset] \in Nat \cup {Null}
        BY <3>2, <3>3, PortfolioAssumption
      <3> HIDE DEF a
      <3>5. CASE quote[a.asset] = Null
        BY <3>1, <3>5 DEF a
      <3>6. CASE quote[a.asset] # Null
        <4>1. PICK v \in Nat : v = a.amount * quote[a.asset]
          BY <3>1, <3>4, <3>6
        <4>2. [a EXCEPT !.value = v].value = v
          BY <3>1 DEF IsAsset
        <4> QED BY <3>6, <4>1, <4>2 DEF a
      <3> QED BY <3>5, <3>6
    <2> HIDE DEF Valued
    <2>3. IsFiniteSet(DOMAIN assets) /\ \A n \in DOMAIN assets : assets[n].value \in Nat \cup {Null}
      BY <2>1, <2>2 DEF Reported
    <2>4. ValuePosition(p, quote) = Revalued(p, assets)
      BY DEF ValuePosition, Valued
    <2>5. /\ IsPosition(p) /\ p.healthFactorE4 = Null /\ p.distanceBps = Null
          /\ p.liquidBps \in (0..Unit) \cup {Null} /\ p.partialThreshold \in Nat \cup {Null}
      BY <2>1 DEF Reported
    <2> HIDE DEF assets, p
    <2>6. Measured(Revalued(p, assets)) /\ Revalued(p, assets).partialThreshold = p.partialThreshold
      BY <2>3, <2>5, RevaluedIsMeasured
    <2> QED BY <2>4, <2>6 DEF p
  <1>2. DOMAIN positions = DOMAIN ps /\ \A i \in DOMAIN ps : positions[i] = ValuePosition(ps[i], quote)
    BY DEF Indexed
  <1>3. IsFiniteSet(DOMAIN ps)
    BY PortfolioAssumption
  <1>4. DOMAIN result.shocks = {}
    OBVIOUS
  <1> QED BY <1>1, <1>2, <1>3, <1>4 DEF MeasuredInv

\* A scenario leaves what is stored alone, and its changes are bounded.
LEMMA NextMeasuredInv == MeasuredInv /\ [Next]_vars => MeasuredInv'
  <1> SUFFICES ASSUME MeasuredInv, [Next]_vars
               PROVE  MeasuredInv'
    OBVIOUS
  <1>1. ASSUME NEW shocks \in Scenarios, Simulate(shocks)
        PROVE  MeasuredInv'
    <2>1. positions' = positions /\ result'.shocks = shocks
      BY <1>1 DEF Simulate
    <2>2. \A i \in DOMAIN shocks : i \in Nat /\ shocks[i].changeBps \in Changes
      BY PortfolioAssumption
    <2> QED BY <2>1, <2>2 DEF MeasuredInv, Measured
  <1>2. CASE UNCHANGED vars
    BY <1>2 DEF MeasuredInv, vars, Measured
  <1> QED BY <1>1, <1>2 DEF Next

-----------------------------------------------------------------------------
(* The figures of a snapshot.                                              *)

\* A position's health factor and distance come together and agree.
LEMMA MeasuredFigures ==
  ASSUME NEW p, Measured(p), p.partialThreshold # 1
  PROVE  /\ p.healthFactorE4 = Null <=> p.distanceBps = Null
         /\ p.healthFactorE4 # Null =>
               /\ p.healthFactorE4 \in Nat /\ p.distanceBps \in Int
               /\ -Unit <= p.distanceBps /\ p.distanceBps <= Unit
               /\ p.distanceBps < 0 => p.healthFactorE4 <= Unit
               /\ p.healthFactorE4 <= Unit => p.distanceBps <= 0
  <1>1. CASE p.healthFactorE4 = Null /\ p.distanceBps = Null
    BY <1>1
  <1>2. CASE ~(p.healthFactorE4 = Null /\ p.distanceBps = Null)
    <2> DEFINE collateral == RoleValue(p.assets, "collateral")
               debt == RoleValue(p.assets, "debt")
    <2>1. PICK T \in Nat \ {0} : T = p.partialThreshold
      BY <1>2 DEF Measured
    <2>2. collateral \in Nat \ {0} /\ debt \in Nat \ {0}
      BY <1>2 DEF Measured
    <2>3. PICK ltv : ltv = CurrentLtvBps(debt, collateral)
      OBVIOUS
    <2>4. p.healthFactorE4 = HealthFactorE4(T, ltv) /\ p.distanceBps = DistanceBps(T, ltv)
      BY <1>2, <2>1, <2>3 DEF Measured
    <2> HIDE DEF collateral, debt
    <2>5. ltv \in Nat
      BY <2>2, <2>3, LtvReachesThreshold
    <2>6. T \in Nat /\ T >= 2
      BY <2>1
    <2>7. /\ HealthFactorE4(T, ltv) \in Nat
          /\ DistanceBps(T, ltv) \in -Unit..Unit
          /\ DistanceBps(T, ltv) < 0 => HealthFactorE4(T, ltv) <= Unit
          /\ HealthFactorE4(T, ltv) <= Unit => DistanceBps(T, ltv) <= 0
      BY <2>5, <2>6, DistanceAndHealth
    <2>8. DistanceBps(T, ltv) \in Int /\ -Unit <= DistanceBps(T, ltv) /\ DistanceBps(T, ltv) <= Unit
      BY <2>7, Bounds
    <2>9. HealthFactorE4(T, ltv) # Null /\ DistanceBps(T, ltv) # Null
      BY <2>7, <2>8, NullAssumption
    <2> QED BY <2>4, <2>7, <2>8, <2>9
  <1> QED BY <1>1, <1>2

\* No protocol is worth more than the whole portfolio (risk-engine/src/index.ts:102-113).
LEMMA ConcentrationInRange ==
  ASSUME NEW ps, IsFiniteSet(DOMAIN ps), \A i \in DOMAIN ps : ps[i].gross \in Nat
  PROVE  ProtocolConcentration(ps) \in 0..Unit
  <1> DEFINE Counted(p) == p.type # "wallet"
             f == [i \in DOMAIN ps |-> ps[i].gross]
             part(k) == [i \in DOMAIN ps |-> IF Counted(ps[i]) /\ ps[i].protocol = k
                                             THEN ps[i].gross ELSE 0]
             protocols == {ps[i].protocol : i \in DOMAIN ps}
             grouped == [k \in protocols |-> Total(part(k))]
             shares == {0} \cup {grouped[k] : k \in DOMAIN grouped}
  <1>1. ProtocolConcentration(ps) = ShareBps(LargestOf(grouped), Total(f))
    BY DEF ProtocolConcentration, SumOf
  <1>2. DOMAIN f = DOMAIN ps /\ \A i \in DOMAIN f : f[i] \in Nat
    OBVIOUS
  <1>3. Total(f) \in Nat
    <2> HIDE DEF f
    <2> QED BY <1>2, TotalType
  <1>4. ASSUME NEW k PROVE Total(part(k)) \in Nat /\ Total(part(k)) <= Total(f)
    <2>1. PICK g : g = part(k)
      OBVIOUS
    <2>2. /\ DOMAIN g = DOMAIN ps
          /\ \A i \in DOMAIN g : g[i] \in Nat
          /\ \A i \in DOMAIN g : g[i] \in Int /\ f[i] \in Int /\ g[i] <= f[i]
      BY <2>1
    <2> HIDE DEF f, part
    <2>3. Total(g) \in Nat
      BY <2>2, TotalType
    <2>4. Total(g) <= Total(f)
      BY <1>2, <2>2, TotalMonotone
    <2> QED BY <2>1, <2>3, <2>4
  <1>5. shares \in SUBSET Nat /\ shares # {} /\ \A x \in shares : x <= Total(f)
    <2>1. ASSUME NEW x \in shares PROVE x \in Nat /\ x <= Total(f)
      <3>1. CASE x = 0
        <4> HIDE DEF f
        <4> QED BY <1>3, <3>1
      <3>2. CASE x # 0
        <4>1. PICK k \in protocols : x = grouped[k]
          BY <3>2
        <4>2. x = Total(part(k))
          BY <4>1
        <4> HIDE DEF f, part
        <4> QED BY <1>4, <4>2
      <3> QED BY <3>1, <3>2
    <2>2. shares # {}
      OBVIOUS
    <2> HIDE DEF shares, f
    <2> QED BY <2>1, <2>2
  <1>6. Max(shares) \in shares
    <2> HIDE DEF shares, f
    <2> QED BY <1>3, <1>5, GreatestExists
  <1>7. PICK m : m = Max(shares)
    OBVIOUS
  <1>8. LargestOf(grouped) = m
    BY <1>7 DEF LargestOf
  <1> HIDE DEF shares, f, grouped
  <1>9. m \in Nat /\ m <= Total(f)
    BY <1>5, <1>6, <1>7
  <1> QED BY <1>1, <1>3, <1>8, <1>9, ShareInRange

\* No more than everything is liquid (risk-engine/src/index.ts:124-135).
LEMMA AccessibilityInRange ==
  ASSUME NEW ps, IsFiniteSet(DOMAIN ps),
         \A i \in DOMAIN ps : ps[i].gross \in Nat /\ ps[i].liquidBps \in (0..Unit) \cup {Null}
  PROVE  CapitalAccessibilityBps(ps) \in 0..Unit
  <1> DEFINE Liquid(p) == IF p.liquidBps = Null THEN Unit ELSE p.liquidBps
             f == [i \in DOMAIN ps |-> ps[i].gross]
             h == [i \in DOMAIN ps |-> ps[i].gross * Unit]
             g == [i \in DOMAIN ps |-> ps[i].gross * Liquid(ps[i])]
  <1>1. CapitalAccessibilityBps(ps) = IF Total(f) = 0 THEN Unit ELSE RoundDiv(Total(g), Total(f))
    BY DEF CapitalAccessibilityBps, SumOf
  <1>2. \A i \in DOMAIN ps : Liquid(ps[i]) \in Int /\ 0 <= Liquid(ps[i]) /\ Liquid(ps[i]) <= Unit
    <2> SUFFICES ASSUME NEW i \in DOMAIN ps
                 PROVE  Liquid(ps[i]) \in Int /\ 0 <= Liquid(ps[i]) /\ Liquid(ps[i]) <= Unit
      OBVIOUS
    <2>1. CASE ps[i].liquidBps = Null
      BY <2>1 DEF Unit
    <2>2. CASE ps[i].liquidBps # Null
      <3>1. ps[i].liquidBps \in 0..Unit
        BY <2>2
      <3> QED BY <2>2, <3>1, Bounds
    <2> QED BY <2>1, <2>2
  <1> HIDE DEF Liquid
  <1>3. /\ DOMAIN f = DOMAIN ps /\ DOMAIN g = DOMAIN ps /\ DOMAIN h = DOMAIN ps
        /\ \A i \in DOMAIN f : f[i] \in Nat
        /\ \A i \in DOMAIN f : f[i] \in Int /\ h[i] = f[i] * Unit
    OBVIOUS
  <1>4. \A i \in DOMAIN g : g[i] \in Nat /\ g[i] \in Int /\ h[i] \in Int /\ g[i] <= h[i]
    <2> SUFFICES ASSUME NEW i \in DOMAIN ps
                 PROVE  g[i] \in Nat /\ g[i] \in Int /\ h[i] \in Int /\ g[i] <= h[i]
      OBVIOUS
    <2>1. PICK v \in Nat : v = ps[i].gross
      OBVIOUS
    <2>2. PICK l \in Int : l = Liquid(ps[i])
      BY <1>2
    <2>3. 0 <= l /\ l <= Unit /\ Unit \in Int
      BY <1>2, <2>2 DEF Unit
    <2>4. g[i] = v * l /\ h[i] = v * Unit
      BY <2>1, <2>2
    <2> HIDE DEF g, h
    <2>5. v * l \in Nat /\ v * Unit \in Int /\ v * l <= v * Unit
      BY <2>3
    <2> QED BY <2>4, <2>5
  <1> HIDE DEF f, g, h
  <1>5. Total(f) \in Nat
    BY <1>3, TotalType
  <1>6. Total(g) \in Nat
    BY <1>3, <1>4, TotalType
  <1>7. Total(g) <= Total(h)
    BY <1>3, <1>4, TotalMonotone
  <1>8. Unit \in Int
    BY DEF Unit
  <1>9. Total(h) = Total(f) * Unit
    BY <1>3, <1>8, TotalScaled
  <1>10. PICK t \in Nat, w \in Nat : t = Total(f) /\ w = Total(g)
    BY <1>5, <1>6
  <1>11. CASE t = 0
    <2>1. 0 <= Unit /\ Unit <= Unit
      BY DEF Unit
    <2> QED BY <1>1, <1>8, <1>10, <1>11, <2>1, Bounds
  <1>12. CASE t # 0
    <2>1. w <= t * 10000
      BY <1>7, <1>9, <1>10 DEF Unit
    <2>2. PICK r : r = RoundDiv(w, t)
      OBVIOUS
    <2>3. \A n \in Int : RoundDiv(w, t) \in Int /\ (RoundDiv(w, t) >= n <=> 2 * w + t >= 2 * t * n)
      BY <1>12, RoundDivReaches
    <2>4. /\ r \in Int
          /\ r >= 0 <=> 2 * w + t >= 2 * t * 0
          /\ r >= 10001 <=> 2 * w + t >= 2 * t * 10001
      BY <2>2, <2>3
    <2>5. r \in Int /\ 0 <= r /\ r <= 10000
      BY <1>12, <2>1, <2>4
    <2>6. r <= Unit
      BY <2>5 DEF Unit
    <2>7. r \in 0..Unit
      BY <2>5, <2>6, Bounds
    <2> QED BY <1>1, <1>10, <1>12, <2>2, <2>7
  <1> QED BY <1>11, <1>12

\* No position reports a threshold of exactly one basis point, at which a debt rounded to
\* an LTV of zero counts as liquidatable.
NoThresholdOfOne == \A ps \in Portfolios : \A i \in DOMAIN ps : ps[i].partialThreshold # 1

\* A stored wallet is refused exactly if some position is past its threshold.
LEMMA MeasuredInvRefuses ==
  ASSUME NoThresholdOfOne, MeasuredInv
  PROVE  OnlyUnderwaterIsRefused
  <1> DEFINE hfs == {positions[i].healthFactorE4 : i \in DOMAIN positions}
             ds == {positions[i].distanceBps : i \in DOMAIN positions}
             hf == WorstHealth(positions)
             dist == LiquidationDistance(positions)
             share == ProtocolConcentration(positions)
             access == CapitalAccessibilityBps(positions)
             score == Score(hf, share, access)
             risk == CalculatePortfolioRisk(positions)
  <1>1. ASSUME NEW i \in DOMAIN positions
        PROVE  /\ positions[i].healthFactorE4 = Null <=> positions[i].distanceBps = Null
               /\ positions[i].healthFactorE4 # Null =>
                     /\ positions[i].healthFactorE4 \in Nat /\ positions[i].distanceBps \in Int
                     /\ -Unit <= positions[i].distanceBps /\ positions[i].distanceBps <= Unit
                     /\ positions[i].distanceBps < 0 => positions[i].healthFactorE4 <= Unit
                     /\ positions[i].healthFactorE4 <= Unit => positions[i].distanceBps <= 0
    <2>1. PICK p : p = positions[i]
      OBVIOUS
    <2>2. Measured(p) /\ p.partialThreshold # 1
      BY <2>1 DEF MeasuredInv, NoThresholdOfOne
    <2> QED BY <2>1, <2>2, MeasuredFigures
  <1>2. /\ hf = Null <=> hfs \subseteq {Null}
        /\ hf # Null => hf \in hfs \ {Null} /\ \A x \in hfs \ {Null} : hf <= x
    <2>1. hfs \subseteq Int \cup {Null} /\ 0 \in Int /\ \A x \in hfs \ {Null} : 0 <= x
      BY <1>1
    <2>2. hf = Worst(hfs)
      BY DEF WorstHealth
    <2> HIDE DEF hfs, hf
    <2> QED BY <2>1, <2>2, WorstIsLeast
  <1>3. /\ dist = Null <=> ds \subseteq {Null}
        /\ dist # Null => dist \in ds \ {Null} /\ \A x \in ds \ {Null} : dist <= x
    <2>1. ds \subseteq Int \cup {Null} /\ -Unit \in Int /\ \A x \in ds \ {Null} : -Unit <= x
      BY <1>1 DEF Unit
    <2>2. dist = Worst(ds)
      BY DEF LiquidationDistance
    <2> HIDE DEF ds, dist
    <2> QED BY <2>1, <2>2, WorstIsLeast
  <1>4. share \in 0..Unit /\ access \in 0..Unit
    BY ConcentrationInRange, AccessibilityInRange DEF MeasuredInv, Measured
  <1>5. /\ risk.riskScoreBps = Clamped(0, Unit, score)
        /\ risk.liquidationDistanceBps = dist /\ risk.worstHealthFactorE4 = hf
        /\ risk.protocolConcentrationBps = share /\ risk.liquidityScoreBps = access
    BY DEF CalculatePortfolioRisk
  <1> HIDE DEF hf, dist, share, access, risk
  <1>6. score \in 0..Unit
    <2>1. hf \in Nat \cup {Null}
      BY <1>1, <1>2
    <2>2. share \in Nat /\ access \in Nat
      BY <1>4, Bounds
    <2> QED BY <2>1, <2>2, ScoreInRange
  <1>7. Clamped(0, Unit, score) \in 0..Unit
    <2> HIDE DEF score
    <2>1. score \in Int /\ 0 <= score /\ score <= Unit
      BY <1>6, Bounds
    <2>2. Clamped(0, Unit, score) = score
      BY <2>1 DEF Clamped, Greater, Lesser, Unit
    <2> QED BY <1>6, <2>2
  <1>8. dist # Null => dist \in Int /\ -Unit <= dist /\ dist <= Unit
    BY <1>1, <1>3
  <1>9. PublisherAccepts(risk) <=> dist = Null \/ dist >= 0
    <2>1. dist # Null => (dist \in 0..Unit <=> dist >= 0)
      BY <1>8, Bounds
    <2> QED BY <1>4, <1>5, <1>7, <2>1 DEF PublisherAccepts
  <1>10. ASSUME dist # Null, dist < 0
         PROVE  Liquidatable(hf) /\ dist # 0
    <2>1. PICK i \in DOMAIN positions : dist = positions[i].distanceBps
      BY <1>3, <1>10
    <2>2. positions[i].healthFactorE4 # Null /\ positions[i].healthFactorE4 <= Unit
      BY <1>1, <1>10, <2>1
    <2>3. hf # Null /\ hf <= positions[i].healthFactorE4
      BY <1>2, <2>2
    <2>4. hf \in Nat /\ positions[i].healthFactorE4 \in Nat
      BY <1>1, <1>2, <2>2, <2>3
    <2>5. hf <= Unit
      BY <2>2, <2>3, <2>4 DEF Unit
    <2> QED BY <1>8, <1>10, <2>3, <2>5 DEF Liquidatable
  <1>11. ASSUME Liquidatable(hf), dist = Null \/ dist >= 0
         PROVE  dist = 0
    <2>1. hf # Null /\ hf <= Unit
      BY <1>11 DEF Liquidatable
    <2>2. PICK i \in DOMAIN positions : hf = positions[i].healthFactorE4
      BY <1>2, <2>1
    <2>3. positions[i].distanceBps \in Int /\ positions[i].distanceBps <= 0
      BY <1>1, <2>1, <2>2
    <2>4. positions[i].distanceBps # Null
      BY <1>1, <2>1, <2>2
    <2>5. dist # Null /\ dist <= positions[i].distanceBps
      BY <1>3, <2>4
    <2> QED BY <1>8, <1>11, <2>3, <2>5
  <1>12. PublisherAccepts(risk) <=> ~Liquidatable(hf) \/ dist = 0
    <2>1. ASSUME PublisherAccepts(risk) PROVE ~Liquidatable(hf) \/ dist = 0
      BY <1>9, <1>11, <2>1
    <2>2. ASSUME ~Liquidatable(hf) \/ dist = 0, ~PublisherAccepts(risk) PROVE FALSE
      BY <1>8, <1>9, <1>10, <2>2
    <2> QED BY <2>1, <2>2
  <1> QED BY <1>5, <1>12 DEF OnlyUnderwaterIsRefused, risk

-----------------------------------------------------------------------------
(* Scenarios in which collateral falls.                                    *)

\* No price falls by more than all of it.
LEMMA ChangeBounds == \A c \in Changes : c \in Int /\ -Unit <= c
  <1> DEFINE hi == 100000
  <1>1. hi \in Int /\ -Unit \in Int
    BY DEF Unit
  <1>2. Changes = -Unit..hi
    BY DEF Changes
  <1> HIDE DEF hi
  <1> QED BY <1>1, <1>2, RangeMember

\* What a scenario changes an asset by is one of its changes, or nothing
\* (risk-engine/src/index.ts, resolveShockBps).
LEMMA ResolvedShock ==
  ASSUME NEW shocks, NEW asset,
         \A i \in DOMAIN shocks : i \in Nat /\ shocks[i].changeBps \in Changes
  PROVE  ResolveShock(asset, shocks) \in Int /\ -Unit <= ResolveShock(asset, shocks)
  <1> DEFINE By(field, keys) == {i \in DOMAIN shocks : shocks[i].by = field /\ shocks[i].key \in keys}
  <1>1. ASSUME NEW S \in SUBSET DOMAIN shocks, S # {}
        PROVE  FirstChange(shocks, S) \in Int /\ -Unit <= FirstChange(shocks, S)
    <2>1. S \in SUBSET Nat
      OBVIOUS
    <2>2. PICK x \in S : \A y \in S : x <= y
      BY <1>1, <2>1, LeastExists
    <2>3. Min(S) \in S
      BY <2>2 DEF Min
    <2>4. shocks[Min(S)].changeBps \in Changes
      BY <2>3
    <2> QED BY <2>4, ChangeBounds DEF FirstChange
  <1>2. \A field, keys : By(field, keys) \in SUBSET DOMAIN shocks
    OBVIOUS
  <1>3. ResolveShock(asset, shocks) =
          IF By("assetId", {asset}) # {} THEN FirstChange(shocks, By("assetId", {asset}))
          ELSE IF By("symbol", {asset}) # {} THEN FirstChange(shocks, By("symbol", {asset}))
          ELSE IF asset \in Linked /\ By("symbol", Linked) # {}
               THEN FirstChange(shocks, By("symbol", Linked))
          ELSE 0
    BY DEF ResolveShock
  <1>4. 0 \in Int /\ -Unit <= 0
    BY DEF Unit
  <1> HIDE DEF By
  <1>5. /\ By("assetId", {asset}) \in SUBSET DOMAIN shocks
        /\ By("symbol", {asset}) \in SUBSET DOMAIN shocks
        /\ By("symbol", Linked) \in SUBSET DOMAIN shocks
    BY <1>2
  <1> QED BY <1>1, <1>3, <1>4, <1>5

\* A price that falls, by at most all of itself, lowers a value to no less than zero.
LEMMA ShockedFalls ==
  ASSUME NEW v \in Nat, NEW c \in Int, -Unit <= c, c <= 0
  PROVE  Shocked(v, c) \in Nat /\ Shocked(v, c) <= v
  <1>1. PICK k \in Nat : k = Unit + c
    BY DEF Unit
  <1>2. k <= 10000
    BY <1>1 DEF Unit
  <1>3. PICK x \in Nat : x = v * k
    OBVIOUS
  <1>4. x <= v * 10000
    BY <1>2, <1>3
  <1>5. x \div 10000 \in Nat /\ x \div 10000 <= v
    BY <1>4
  <1>6. Shocked(v, c) = x \div 10000
    BY <1>1, <1>3 DEF Shocked, Unit
  <1> QED BY <1>5, <1>6

\* One position: debt keeps its value, no other asset gains, and so the health factor,
\* which is derived again where collateral is left, is not raised.
LEMMA FallingPosition ==
  ASSUME NEW p, Settled(p), Measured(p), p.healthFactorE4 # Null, NEW shocks,
         \A i \in DOMAIN shocks : i \in Nat /\ shocks[i].changeBps \in Changes,
         \A n \in DOMAIN p.assets :
            /\ ResolveShock(p.assets[n].asset, shocks) <= 0
            /\ p.assets[n].role = "debt" => ResolveShock(p.assets[n].asset, shocks) = 0
  PROVE  StressPosition(p, shocks).healthFactorE4 <= p.healthFactorE4
  <1> DEFINE ShockedAsset(a) == IF a.value = Null THEN a
                                ELSE [a EXCEPT !.value = Shocked(@, ResolveShock(a.asset, shocks))]
             assets == [n \in DOMAIN p.assets |-> ShockedAsset(p.assets[n])]
             Part(as, kind) == [n \in DOMAIN as |-> IF as[n].role = kind THEN WorthOf(as[n]) ELSE 0]
             T == p.partialThreshold
             more == RoleValue(p.assets, "collateral")
             less == RoleValue(assets, "collateral")
             debt == RoleValue(p.assets, "debt")
             left == RoleValue(assets, "debt")
  <1>1. ASSUME NEW n \in DOMAIN p.assets
        PROVE  /\ assets[n].role = p.assets[n].role
               /\ WorthOf(p.assets[n]) \in Nat
               /\ WorthOf(assets[n]) \in Nat /\ WorthOf(assets[n]) <= WorthOf(p.assets[n])
               /\ p.assets[n].role = "debt" => WorthOf(assets[n]) = WorthOf(p.assets[n])
    <2> DEFINE a == p.assets[n]
               c == ResolveShock(a.asset, shocks)
    <2>1. IsAsset(a) /\ a.value \in Nat \cup {Null}
      BY DEF Settled
    <2>2. c \in Int /\ -Unit <= c /\ c <= 0 /\ (a.role = "debt" => c = 0)
      BY ResolvedShock
    <2>3. assets[n] = ShockedAsset(a)
      OBVIOUS
    <2> HIDE DEF a, c
    <2>4. CASE a.value = Null
      <3>1. ShockedAsset(a) = a
        BY <2>4
      <3>2. WorthOf(a) = 0
        BY <2>4 DEF WorthOf
      <3> HIDE DEF assets, ShockedAsset
      <3> QED BY <2>3, <3>1, <3>2 DEF a
    <2>5. CASE a.value # Null
      <3>1. a.value \in Nat
        BY <2>1, <2>5
      <3>2. PICK w \in Nat : w = Shocked(a.value, c)
        BY <2>2, <3>1, ShockedFalls
      <3>3. w <= a.value
        BY <2>2, <3>1, <3>2, ShockedFalls
      <3>4. a.role = "debt" => w = a.value
        BY <2>2, <3>1, <3>2, NoChange
      <3>5. ShockedAsset(a) = [a EXCEPT !.value = w]
        BY <2>5, <3>2 DEF c
      <3>6. PICK b : b = [a EXCEPT !.value = w]
        OBVIOUS
      <3>7. b.role = a.role /\ b.value = w
        BY <2>1, <3>6 DEF IsAsset
      <3>8. w # Null
        BY <3>2, NullAssumption
      <3>9. WorthOf(b) = w /\ WorthOf(a) = a.value
        BY <2>5, <3>7, <3>8 DEF WorthOf
      <3>10. assets[n] = b
        BY <2>3, <3>5, <3>6
      <3> HIDE DEF assets, ShockedAsset
      <3> QED BY <3>1, <3>2, <3>3, <3>4, <3>7, <3>9, <3>10 DEF a
    <2> QED BY <2>4, <2>5
  <1>2. /\ IsPosition(p) /\ DOMAIN assets = DOMAIN p.assets
        /\ IsFiniteSet(DOMAIN p.assets)
    BY DEF Settled, Measured
  <1>3. StressPosition(p, shocks) = Revalued(p, assets)
    BY DEF StressPosition
  <1> HIDE DEF assets, ShockedAsset
  <1>4. /\ \A as, kind : RoleValue(as, kind) = Total(Part(as, kind))
        /\ \A as, kind : DOMAIN Part(as, kind) = DOMAIN as
    BY DEF RoleValue, SumOf
  <1>5. left = debt
    <2>1. Part(assets, "debt") = Part(p.assets, "debt")
      BY <1>1, <1>2
    <2> HIDE DEF Part
    <2> QED BY <1>4, <2>1
  <1>6. less \in Nat /\ less <= more
    <2>1. PICK f : f = Part(assets, "collateral")
      OBVIOUS
    <2>2. PICK h : h = Part(p.assets, "collateral")
      OBVIOUS
    <2>3. /\ \A x \in DOMAIN f : f[x] \in Nat
          /\ \A x \in DOMAIN f : f[x] \in Int /\ h[x] \in Int /\ f[x] <= h[x]
          /\ DOMAIN f = DOMAIN p.assets /\ DOMAIN h = DOMAIN p.assets
      BY <1>1, <1>2, <2>1, <2>2
    <2> HIDE DEF Part
    <2>4. less = Total(f) /\ more = Total(h)
      BY <1>4, <2>1, <2>2
    <2>5. Total(f) \in Nat
      BY <1>2, <2>3, TotalType
    <2>6. Total(f) <= Total(h)
      BY <1>2, <2>3, TotalMonotone
    <2> QED BY <2>4, <2>5, <2>6
  <1> HIDE DEF Part
  <1>7. /\ T \in Nat \ {0} /\ more \in Nat \ {0} /\ debt \in Nat \ {0}
        /\ p.healthFactorE4 = HealthFactorE4(T, CurrentLtvBps(debt, more))
    BY DEF Measured
  <1> DEFINE q == [p EXCEPT !.assets = assets, !.gross = SumOf(assets, WorthOf),
                            !.equity = SumOf(assets, SignedValue)]
             ltv == CurrentLtvBps(debt, less)
  <1>8. /\ IsPosition(q) /\ q.assets = assets /\ q.partialThreshold = T
        /\ q.healthFactorE4 = p.healthFactorE4
    BY <1>2 DEF IsPosition, Fields
  <1>9. Revalued(p, assets) = DeriveLendingMetrics(q)
    BY DEF Revalued
  <1> HIDE DEF q
  <1>10. T # Null /\ T > 0 /\ ~(debt <= 0)
    BY <1>7, NullAssumption
  <1>11. DeriveLendingMetrics(q) =
            IF less <= 0 THEN q
            ELSE [q EXCEPT !.healthFactorE4 = HealthFactorE4(T, ltv), !.distanceBps = DistanceBps(T, ltv)]
    BY <1>5, <1>8, <1>10 DEF DeriveLendingMetrics
  <1> HIDE DEF less, more, debt, left
  <1>12. HealthFactorE4(T, CurrentLtvBps(debt, more)) \in Int
    <2>1. PICK l \in Nat : l = CurrentLtvBps(debt, more)
      BY <1>7, LtvReachesThreshold
    <2>2. PICK d \in Nat \ {0} : d = IF l = 0 THEN 1 ELSE l
      OBVIOUS
    <2>3. T * Unit \in Nat
      BY <1>7 DEF Unit
    <2>4. RoundDiv(T * Unit, d) \in Int
      BY <2>3, RoundDivReaches
    <2> QED BY <2>1, <2>2, <2>4 DEF HealthFactorE4
  <1>13. CASE less <= 0
    BY <1>3, <1>7, <1>8, <1>9, <1>11, <1>12, <1>13
  <1>14. CASE ~(less <= 0)
    <2>1. less \in Nat \ {0} /\ less <= more
      BY <1>6, <1>14
    <2>2. HealthFactorE4(T, ltv) <= HealthFactorE4(T, CurrentLtvBps(debt, more))
      BY <1>7, <2>1, LessCollateralLessHealth
    <2>3. DeriveLendingMetrics(q).healthFactorE4 = HealthFactorE4(T, ltv)
      BY <1>8, <1>11, <1>14 DEF IsPosition, Fields
    <2> QED BY <1>3, <1>7, <1>9, <2>2, <2>3
  <1> QED BY <1>13, <1>14

\* Where nothing was run, nothing is raised; else each position falls for itself.
LEMMA FallsRaiseNothing ==
  SettledInv /\ MeasuredInv => FallsDoNotHelp
  <1> SUFFICES ASSUME SettledInv, MeasuredInv, NEW i \in DOMAIN Stressed,
                      positions[i].healthFactorE4 # Null,
                      \A n \in DOMAIN positions[i].assets :
                         /\ ResolveShock(positions[i].assets[n].asset, result.shocks) <= 0
                         /\ positions[i].assets[n].role = "debt" =>
                               ResolveShock(positions[i].assets[n].asset, result.shocks) = 0
               PROVE  Stressed[i].healthFactorE4 <= positions[i].healthFactorE4
    BY DEF FallsDoNotHelp
  <1>1. CASE Stressed = positions
    <2>1. PICK p : p = positions[i]
      OBVIOUS
    <2>2. Measured(p) /\ p.healthFactorE4 # Null
      BY <1>1, <2>1 DEF MeasuredInv
    <2> DEFINE collateral == RoleValue(p.assets, "collateral")
               debt == RoleValue(p.assets, "debt")
    <2>3. /\ p.partialThreshold \in Nat \ {0} /\ collateral \in Nat \ {0} /\ debt \in Nat \ {0}
          /\ p.healthFactorE4 = HealthFactorE4(p.partialThreshold, CurrentLtvBps(debt, collateral))
      BY <2>2 DEF Measured
    <2> HIDE DEF collateral, debt
    <2>4. p.healthFactorE4 <= p.healthFactorE4
      BY <2>3, LessCollateralLessHealth
    <2> QED BY <1>1, <2>1, <2>4
  <1>2. CASE Stressed = StressAll(positions, result.shocks)
    <2>1. i \in DOMAIN positions /\ Stressed[i] = StressPosition(positions[i], result.shocks)
      BY <1>2 DEF StressAll
    <2>2. PICK p : p = positions[i]
      OBVIOUS
    <2>3. PICK shocks : shocks = result.shocks
      OBVIOUS
    <2>4. Settled(p) /\ Measured(p)
      BY <2>1, <2>2 DEF SettledInv, MeasuredInv
    <2>5. \A k \in DOMAIN shocks : k \in Nat /\ shocks[k].changeBps \in Changes
      BY <2>3 DEF MeasuredInv
    <2>6. p.healthFactorE4 # Null /\ \A n \in DOMAIN p.assets :
             /\ ResolveShock(p.assets[n].asset, shocks) <= 0
             /\ p.assets[n].role = "debt" => ResolveShock(p.assets[n].asset, shocks) = 0
      BY <2>2, <2>3
    <2>7. StressPosition(p, shocks).healthFactorE4 <= p.healthFactorE4
      BY <2>4, <2>5, <2>6, FallingPosition
    <2> QED BY <2>1, <2>2, <2>3, <2>7
  <1> QED BY <1>1, <1>2 DEF SettledInv

-----------------------------------------------------------------------------
(* Theorems.                                                               *)

\* In every stored portfolio and every answer to a scenario, the health factor is at most
\* 1.0 exactly for positions whose debt has reached the threshold share of their
\* collateral, up to rounding of the LTV (documentation/32:135).
THEOREM PortfolioHealthExact == Spec => []LiquidatableIffPastThreshold
  <1>1. HealthInv => LiquidatableIffPastThreshold
    BY DEF HealthInv, AllFollow, LiquidatableIffPastThreshold
  <1> QED BY <1>1, InitHealthInv, NextHealthInv, PTL DEF Spec

\* A scenario that names no asset of the wallet, nor for BTC and sBTC the other of the two,
\* answers the stored positions, figure by figure (risk-engine/src/index.ts).
THEOREM PortfolioUnrelatedShocks == Spec => []UnrelatedShocksChangeNothing
  BY InitSettledInv, NextSettledInv, SettledInvUnrelated, PTL DEF Spec

\* Of everything calculatePortfolioRisk returns, only the distance of a wallet past its
\* threshold is outside what the registry and the publisher take, unless an adapter reports
\* a threshold of one basis point (risk-registry.clar:136-141).
THEOREM PortfolioUnderwaterRefused ==
  ASSUME NoThresholdOfOne
  PROVE  Spec => []OnlyUnderwaterIsRefused
  <1>1. MeasuredInv => OnlyUnderwaterIsRefused
    BY MeasuredInvRefuses
  <1> QED BY <1>1, InitMeasuredInv, NextMeasuredInv, PTL DEF Spec

\* A fall of collateral prices with debt prices unchanged raises no health factor, whatever
\* the shocks, the amounts and the thresholds (risk-engine/src/index.ts).
THEOREM PortfolioFallsDoNotHelp == Spec => []FallsDoNotHelp
  BY InitSettledInv, NextSettledInv, InitMeasuredInv, NextMeasuredInv, FallsRaiseNothing, PTL
     DEF Spec

-----------------------------------------------------------------------------
(* One read of a wallet (ProtocolReads): what the chain keeps, what the    *)
(* answers say of the block they come from, and how far the read is.       *)

\* What only a block that names the wallet changes.
SameBooks(k, l) ==
    /\ k.stx = l.stx /\ k.sbtc = l.sbtc
    /\ k.shares = l.shares /\ k.scaled = l.scaled
    /\ k.withdrawn = l.withdrawn /\ k.cancelled = l.cancelled

Untouched(l, h) == \A k \in (l + 1)..h : chain[k].cause = "time"

BooksInv ==
    /\ chain \in Seq(Ledgers) /\ Tip >= 1
    /\ \A l, h \in 1..Tip : l <= h =>
          /\ chain[l].index <= chain[h].index
          /\ Untouched(l, h) => SameBooks(chain[l], chain[h])

\* An answer is what the block it comes from says.
TrueAnswers ==
    /\ Has("height") => seen["height"] = at["height"]
    /\ Has("stx") => seen["stx"] = chain[at["stx"]].stx
    /\ Has("tokens") => seen["tokens"] = chain[at["tokens"]].sbtc
    /\ Has("balances") =>
          seen["balances"] = [stx |-> chain[at["balances"]].stx, sbtc |-> chain[at["balances"]].sbtc]
    /\ Has("sent") => seen["sent"] = Sends
    /\ Has("received") => seen["received"] = Receives
    /\ Has("stream") =>
          seen["stream"] = [withdrawn |-> chain[at["stream"]].withdrawn,
                            cancelled |-> chain[at["stream"]].cancelled]
    /\ Has("position") =>
          seen["position"] = [shares |-> chain[at["position"]].shares,
                              scaled |-> chain[at["position"]].scaled]
    /\ Has("assets") => seen["assets"] = seen["position"].shares * chain[at["assets"]].rate
    /\ Has("index") => seen["index"] = chain[at["index"]].index

AnswersInv ==
    /\ role \in StreamRoles /\ v3 \in BOOLEAN
    /\ at \in [DOMAIN seen -> 1..Tip]
    /\ DOMAIN seen \subseteq Requests
    /\ \A q \in DOMAIN seen : Has("height") /\ at["height"] <= at[q]
    /\ Has("index") => at["position"] <= at["index"]
    /\ TrueAnswers

Stages == {"height", "wallet", "legacy", "streams", "stream", "position", "group", "assets",
           "index", "done", "failed"}

\* What a stage has behind it, and has not before it.
StageInv ==
    /\ stage \in Stages
    /\ pending \subseteq RequestsOf(stage) /\ RequestsOf(stage) \ pending \subseteq DOMAIN seen
    /\ pending = {} => stage \in {"done", "failed"}
    /\ stage = "height" => DOMAIN seen = {}
    /\ stage \notin {"height", "failed"} => Has("height")
    /\ stage = "legacy" => ~v3
    /\ stage \notin {"height", "wallet", "legacy", "failed"} =>
          IF v3 THEN Has("stx") /\ Has("tokens") ELSE Has("balances")
    /\ stage \notin {"height", "wallet", "legacy", "streams", "failed"} => Has("sent") /\ Has("received")
    /\ Has("stream") \/ stage = "stream" => Sends \/ Receives
    /\ stage \in {"position", "group", "assets", "index", "done"} /\ (Sends \/ Receives) =>
          Has("stream") /\ Has("vested")
    /\ stage \in {"group", "assets", "index", "done"} => Has("position")
    /\ Has("position") => stage \in {"group", "assets", "index", "done", "failed"}
    /\ stage \in {"index", "done"} /\ seen["position"].shares > 0 => Has("assets")
    /\ stage = "assets" => seen["position"].shares > 0
    /\ Has("assets") => /\ stage \in {"index", "done", "failed"}
                        /\ Has("position") /\ seen["position"].shares > 0
    /\ stage = "done" /\ seen["position"].scaled > 0 => Has("index")
    /\ stage = "index" => seen["position"].scaled > 0
    /\ Has("index") => /\ stage \in {"done", "failed"}
                       /\ Has("position") /\ seen["position"].scaled > 0

ReadsInv == BooksInv /\ AnswersInv /\ StageInv

\* A block of the chain is a ledger.
LEMMA BlocksAreLedgers ==
  ASSUME BooksInv
  PROVE  /\ Tip \in Nat /\ Tip >= 1 /\ DOMAIN chain = 1..Tip
         /\ Now \in Ledgers
         /\ \A h \in 1..Tip : chain[h] \in Ledgers
  <1>1. Tip \in Nat /\ Tip >= 1 /\ DOMAIN chain = 1..Tip
    BY DEF BooksInv, Tip
  <1>2. \A h \in 1..Tip : chain[h] \in Ledgers
    BY <1>1 DEF BooksInv
  <1> QED BY <1>1, <1>2 DEF Now

\* The amounts of a ledger.
LEMMA LedgerAmounts ==
  ASSUME NEW l \in Ledgers
  PROVE  /\ l.stx \in Nat /\ l.sbtc \in Nat /\ l.shares \in Nat /\ l.rate \in Nat /\ l.scaled \in Nat
         /\ l.index \in Nat /\ l.vested \in Nat /\ l.cancelled \in BOOLEAN
         /\ l.withdrawn \in 0..StreamTotal
  BY ReadsAssumption DEF Ledgers

\* A block that does not lower the index, and changes the books only if it names the
\* wallet, keeps BooksInv.
LEMMA MineKeepsBooks ==
  ASSUME BooksInv, NEW cause, NEW ledger, Mine(cause, ledger),
         ledger.index >= Now.index,
         cause = "time" => SameBooks(Now, ledger)
  PROVE  BooksInv'
  <1> DEFINE block == [ledger EXCEPT !.cause = cause]
  <1>1. block \in Ledgers /\ chain' = Append(chain, block)
    BY DEF Mine
  <1>2. /\ ledger.index = block.index
        /\ SameBooks(Now, ledger) => SameBooks(Now, block)
        /\ block.cause = "time" => cause = "time"
    BY <1>1 DEF Ledgers, SameBooks
  <1> HIDE DEF block
  <1>3. /\ Tip \in Nat /\ Tip >= 1 /\ Now \in Ledgers
        /\ \A h \in 1..Tip : chain[h] \in Ledgers
    BY BlocksAreLedgers
  <1>4. /\ chain' \in Seq(Ledgers) /\ Tip' = Tip + 1
        /\ \A h \in 1..Tip : chain'[h] = chain[h]
        /\ chain'[Tip + 1] = block
    BY <1>1 DEF BooksInv, Tip
  <1>5. ASSUME NEW l \in 1..Tip', NEW h \in 1..Tip', l <= h
        PROVE  /\ chain'[l].index <= chain'[h].index
               /\ Untouched(l, h)' => SameBooks(chain'[l], chain'[h])
    <2>1. CASE h <= Tip
      <3>1. l \in 1..Tip /\ h \in 1..Tip
        BY <1>3, <1>5, <2>1
      <3>2. Untouched(l, h)' => Untouched(l, h)
        BY <1>3, <1>4, <3>1 DEF Untouched
      <3> QED
        BY <1>4, <1>5, <3>1, <3>2 DEF BooksInv
    <2>2. CASE h = Tip + 1 /\ l = Tip + 1
      <3>1. chain'[l] = block /\ chain'[h] = block
        BY <1>4, <2>2
      <3>2. block.index \in Nat
        BY <1>1, LedgerAmounts
      <3> QED
        BY <3>1, <3>2 DEF SameBooks
    <2>3. CASE h = Tip + 1 /\ l <= Tip
      <3>1. l \in 1..Tip /\ Tip \in 1..Tip
        BY <1>3, <2>3
      <3>2. chain[l].index <= Now.index /\ (Untouched(l, Tip) => SameBooks(chain[l], Now))
        BY <1>3, <3>1 DEF BooksInv, Now
      <3>3. chain[l].index \in Nat /\ Now.index \in Nat /\ block.index \in Nat
        BY <1>1, <1>3, <3>1, LedgerAmounts
      <3>4. Untouched(l, h)' => Untouched(l, Tip) /\ cause = "time"
        <4>1. \A k \in (l + 1)..Tip : k \in (l + 1)..h /\ k \in 1..Tip
          BY <1>3, <2>3, <3>1
        <4>2. Tip + 1 \in (l + 1)..h
          BY <1>3, <2>3, <3>1
        <4> QED
          BY <1>2, <1>4, <4>1, <4>2 DEF Untouched
      <3>5. chain'[l] = chain[l] /\ chain'[h] = block
        BY <1>4, <2>3, <3>1
      <3>6. chain[l].index <= block.index
        BY <1>2, <3>2, <3>3
      <3> QED
        BY <1>2, <3>2, <3>4, <3>5, <3>6 DEF SameBooks
    <2> QED
      BY <1>3, <1>4, <1>5, <2>1, <2>2, <2>3
  <1> QED
    BY <1>3, <1>4, <1>5 DEF BooksInv

\* Interest and vesting change no books; the other blocks name the wallet.  No block
\* lowers the index.
LEMMA ChainKeepsBooks ==
  ASSUME BooksInv, Chain
  PROVE  BooksInv'
  <1>1. Now \in Ledgers
    BY BlocksAreLedgers
  <1>2. Now.index \in Nat
    BY <1>1, LedgerAmounts
  <1>3. CASE Deposit
    <2> DEFINE l == [Now EXCEPT !.stx = @ - Now.rate, !.shares = @ + 1]
    <2>1. l.index = Now.index
      BY <1>1 DEF Ledgers
    <2>2. Mine("wallet", l)
      BY <1>3 DEF Deposit
    <2> HIDE DEF l
    <2> QED
      BY <1>2, <2>1, <2>2, MineKeepsBooks
  <1>4. CASE Redeem
    <2> DEFINE l == [Now EXCEPT !.stx = @ + Now.rate, !.shares = @ - 1]
    <2>1. l.index = Now.index
      BY <1>1 DEF Ledgers
    <2>2. Mine("wallet", l)
      BY <1>4 DEF Redeem
    <2> HIDE DEF l
    <2> QED
      BY <1>2, <2>1, <2>2, MineKeepsBooks
  <1>5. CASE Borrow
    BY <1>1, <1>2, <1>5, MineKeepsBooks DEF Borrow, Ledgers
  <1>6. CASE Repay
    BY <1>1, <1>2, <1>6, MineKeepsBooks DEF Repay, Ledgers
  <1>7. CASE Accrue
    <2> DEFINE l == [Now EXCEPT !.rate = IF @ < MaxRate THEN @ + 1 ELSE @, !.index = @ + 1]
    <2>1. l.index >= Now.index /\ SameBooks(Now, l)
      BY <1>1, <1>2 DEF SameBooks, Ledgers
    <2> QED
      BY <1>7, <2>1, MineKeepsBooks DEF Accrue
  <1>8. CASE Vest
    <2> DEFINE l == [Now EXCEPT !.vested = @ + 1]
    <2>1. l.index >= Now.index /\ SameBooks(Now, l)
      BY <1>1, <1>2 DEF SameBooks, Ledgers
    <2> QED
      BY <1>8, <2>1, MineKeepsBooks DEF Vest
  <1>9. CASE Claim
    <2> DEFINE l == [Now EXCEPT !.withdrawn = Now.vested,
                              !.sbtc = @ + ToRecipient(Now.vested - Now.withdrawn)]
    <2>1. l.index = Now.index
      BY <1>1 DEF Ledgers
    <2>2. Mine("wallet", l)
      BY <1>9 DEF Claim
    <2> HIDE DEF l
    <2> QED
      BY <1>2, <2>1, <2>2, MineKeepsBooks
  <1>10. CASE Cancel
    <2> DEFINE l == [Now EXCEPT !.cancelled = TRUE,
                              !.sbtc = @ + ToRecipient(Now.vested - Now.withdrawn)
                                         + ToSender(StreamTotal - Now.vested)]
    <2>1. l.index = Now.index
      BY <1>1 DEF Ledgers
    <2>2. Mine("wallet", l)
      BY <1>10 DEF Cancel
    <2> HIDE DEF l
    <2> QED
      BY <1>2, <2>1, <2>2, MineKeepsBooks
  <1> QED
    BY <1>3, <1>4, <1>5, <1>6, <1>7, <1>8, <1>9, <1>10 DEF Chain

\* A block adds to the chain and leaves the read alone.
LEMMA ChainOnlyAdds ==
  ASSUME BooksInv, Chain
  PROVE  /\ Tip' = Tip + 1 /\ \A h \in 1..Tip : chain'[h] = chain[h]
         /\ UNCHANGED << role, v3, stage, pending, seen, at >>
  <1>1. PICK block : /\ block \in Ledgers /\ chain' = Append(chain, block)
                     /\ UNCHANGED << role, v3, stage, pending, seen, at >>
    BY DEF Chain, Deposit, Redeem, Borrow, Repay, Accrue, Vest, Claim, Cancel, Mine
  <1> QED
    BY <1>1 DEF BooksInv, Tip

\* Blocks that are added change no answer that was given.
LEMMA ChainKeepsAnswers ==
  ASSUME BooksInv, AnswersInv, Chain
  PROVE  AnswersInv'
  <1>1. /\ Tip \in Nat /\ Tip' = Tip + 1 /\ \A h \in 1..Tip : chain'[h] = chain[h]
        /\ UNCHANGED << role, v3, stage, pending, seen, at >>
    BY ChainOnlyAdds, BlocksAreLedgers
  <1>2. at \in [DOMAIN seen -> 1..Tip] /\ 1..Tip \subseteq 1..Tip'
    BY <1>1 DEF AnswersInv
  <1>3. \A q \in DOMAIN seen : chain'[at[q]] = chain[at[q]]
    BY <1>1, <1>2
  <1>4. TrueAnswers'
    BY <1>1, <1>3 DEF AnswersInv, TrueAnswers, Has, Sends, Receives
  <1>5. at' \in [DOMAIN seen' -> 1..Tip']
    BY <1>1, <1>2
  <1> QED
    BY <1>1, <1>4, <1>5 DEF AnswersInv, Has

\* An answer is true when it is given, is no older than the label, and the index is asked
\* for after the position.
LEMMA AnsweredKeepsAnswers ==
  ASSUME BooksInv, AnswersInv, StageInv, NEW q \in Requests, Answered(q)
  PROVE  AnswersInv'
  <1>1. PICK x \in Answers(q) : seen' = With(seen, q, x)
    BY DEF Answered
  <1>2. /\ at' = With(at, q, Tip) /\ q \in pending
        /\ UNCHANGED << chain, role, v3 >>
    BY DEF Answered
  <1>3. /\ DOMAIN seen' = DOMAIN seen \cup {q} /\ seen'[q] = x
        /\ \A r \in DOMAIN seen : r # q => seen'[r] = seen[r]
    BY <1>1 DEF With
  <1>4. DOMAIN at = DOMAIN seen /\ Tip \in 1..Tip /\ Tip' = Tip
    BY <1>2, BlocksAreLedgers DEF AnswersInv, Tip
  <1>5. /\ DOMAIN at' = DOMAIN seen \cup {q} /\ at'[q] = Tip
        /\ \A r \in DOMAIN seen : r # q => at'[r] = at[r]
    BY <1>2, <1>4 DEF With
  <1>6. at' \in [DOMAIN seen' -> 1..Tip']
    <2>1. at' = [r \in DOMAIN seen' |-> at'[r]]
      BY <1>2, <1>3, <1>5 DEF With
    <2>2. \A r \in DOMAIN seen' : at'[r] \in 1..Tip
      BY <1>3, <1>4, <1>5 DEF AnswersInv
    <2> QED
      BY <1>4, <2>1, <2>2
  <1>7. \/ stage = "height" /\ q = "height" /\ DOMAIN seen = {}
        \/ stage # "height" /\ q # "height" /\ Has("height")
    BY <1>2 DEF StageInv, RequestsOf, Requests, Stages
  <1>8. q = "position" => ~Has("index") /\ ~Has("assets")
    BY <1>2 DEF StageInv, RequestsOf, Requests, Stages
  <1>9. q \in {"index", "assets"} => Has("position")
    BY <1>2 DEF StageInv, RequestsOf, Requests, Stages
  <1>10. \A r \in DOMAIN seen' : Has("height")' /\ at'["height"] <= at'[r]
    <2>1. \A r \in DOMAIN seen : at[r] \in Nat /\ at[r] <= Tip
      BY BlocksAreLedgers DEF AnswersInv
    <2> QED
      BY <1>3, <1>4, <1>5, <1>7, <2>1, BlocksAreLedgers DEF AnswersInv, Has
  <1>11. Has("index")' => at'["position"] <= at'["index"]
    <2>1. \A r \in DOMAIN seen : at[r] \in Nat /\ at[r] <= Tip
      BY BlocksAreLedgers DEF AnswersInv
    <2>2. Has("index") => Has("position")
      BY DEF StageInv
    <2> QED
      BY <1>3, <1>5, <1>8, <1>9, <2>1, <2>2 DEF AnswersInv, Has
  <1>12. TrueAnswers'
    <2>1. TrueAnswers
      BY DEF AnswersInv
    <2>2. Has("assets") => Has("position")
      BY DEF StageInv
    <2>3. Now = chain[Tip]
      BY DEF Now
    <2> QED
      <3>1. CASE q \in {"height", "stx", "tokens", "balances"}
        BY <1>1, <1>2, <1>3, <1>5, <2>1, <2>2, <2>3, <3>1
           DEF TrueAnswers, Has, Answers, Sends, Receives
      <3>2. CASE q \in {"sent", "received", "stream", "vested"}
        BY <1>1, <1>2, <1>3, <1>5, <2>1, <2>2, <2>3, <3>2
           DEF TrueAnswers, Has, Answers, Sends, Receives
      <3>3. CASE q \in {"position", "group"}
        BY <1>1, <1>2, <1>3, <1>5, <1>8, <2>1, <2>2, <2>3, <3>3
           DEF TrueAnswers, Has, Answers, Sends, Receives
      <3>4. CASE q \in {"assets", "index"}
        BY <1>1, <1>2, <1>3, <1>5, <1>9, <2>1, <2>2, <2>3, <3>4
           DEF TrueAnswers, Has, Answers, Sends, Receives
      <3> QED
        BY <3>1, <3>2, <3>3, <3>4 DEF Requests
  <1>13. DOMAIN seen' \subseteq Requests /\ role' \in StreamRoles /\ v3' \in BOOLEAN
    BY <1>2, <1>3 DEF AnswersInv
  <1> QED
    BY <1>6, <1>10, <1>11, <1>12, <1>13 DEF AnswersInv

\* The read goes from stage to stage with the answers the next one builds on.
LEMMA AnsweredKeepsStage ==
  ASSUME BooksInv, AnswersInv, StageInv, NEW q \in Requests, Answered(q)
  PROVE  StageInv'
  <1>1. PICK x \in Answers(q) : seen' = With(seen, q, x)
    BY DEF Answered
  <1>2. q \in pending /\ UNCHANGED << role, v3 >> /\ (q \in {"stx", "tokens"} => v3)
    BY DEF Answered
  <1>3. /\ DOMAIN seen' = DOMAIN seen \cup {q} /\ seen'[q] = x
        /\ \A r \in DOMAIN seen : r # q => seen'[r] = seen[r]
    BY <1>1 DEF With
  <1>4. /\ (Sends \/ Receives)' <=> (Sends \/ Receives)
        /\ Has("sent") => seen["sent"] = Sends
        /\ Has("received") => seen["received"] = Receives
        /\ q = "sent" => seen'["sent"] = Sends
        /\ q = "received" => seen'["received"] = Receives
    BY <1>1, <1>2, <1>3 DEF Sends, Receives, AnswersInv, TrueAnswers, Answers
  <1>5. Has("position") => seen["position"].shares \in Nat /\ seen["position"].scaled \in Nat
    BY BlocksAreLedgers, LedgerAmounts DEF AnswersInv, TrueAnswers, Has
  <1>6. q = "position" => seen'["position"].shares \in Nat /\ seen'["position"].scaled \in Nat
    BY <1>1, <1>3, BlocksAreLedgers, LedgerAmounts DEF Answers
  <1>7. CASE pending # {q}
    <2>1. pending' = pending \ {q} /\ stage' = stage
      BY <1>7 DEF Answered
    <2>2. stage \in {"wallet", "streams", "stream"}
      BY <1>2, <1>7 DEF StageInv, RequestsOf, Requests, Stages
    <2>3. CASE stage = "wallet"
      BY <1>2, <1>3, <1>4, <1>7, <2>1, <2>3 DEF StageInv, RequestsOf, Requests, Stages, Has
    <2>4. CASE stage = "streams"
      BY <1>2, <1>3, <1>4, <1>7, <2>1, <2>4 DEF StageInv, RequestsOf, Requests, Stages, Has
    <2>5. CASE stage = "stream"
      BY <1>2, <1>3, <1>4, <1>7, <2>1, <2>5 DEF StageInv, RequestsOf, Requests, Stages, Has
    <2> QED
      BY <2>2, <2>3, <2>4, <2>5
  <1>8. CASE pending = {q}
    <2>1. stage' = After(stage, seen') /\ pending' = RequestsOf(stage')
      BY <1>8 DEF Answered, Enter
    <2>10. CASE stage = "height"
      <3>1. stage' = "wallet" /\ pending' = RequestsOf("wallet")
        BY <2>1, <2>10 DEF After
      <3>2. {"height"} \subseteq DOMAIN seen'
        BY <1>2, <1>3, <1>8, <2>10 DEF StageInv, RequestsOf, Requests, Has
      <3> QED
        BY <1>2, <1>3, <1>4, <1>8, <2>10, <3>1, <3>2 DEF StageInv, RequestsOf, Requests, Stages, Has
    <2>11. CASE stage = "wallet"
      <3>1. stage' = "streams" /\ pending' = RequestsOf("streams")
        BY <2>1, <2>11 DEF After
      <3>2. {"height", "stx", "tokens"} \subseteq DOMAIN seen'
        BY <1>2, <1>3, <1>8, <2>11 DEF StageInv, RequestsOf, Requests, Has
      <3> QED
        BY <1>2, <1>3, <1>4, <1>8, <2>11, <3>1, <3>2 DEF StageInv, RequestsOf, Requests, Stages, Has
    <2>12. CASE stage = "legacy"
      <3>1. stage' = "streams" /\ pending' = RequestsOf("streams")
        BY <2>1, <2>12 DEF After
      <3>2. {"height", "balances"} \subseteq DOMAIN seen'
        BY <1>2, <1>3, <1>8, <2>12 DEF StageInv, RequestsOf, Requests, Has
      <3> QED
        BY <1>2, <1>3, <1>4, <1>8, <2>12, <3>1, <3>2 DEF StageInv, RequestsOf, Requests, Stages, Has
    <2>3. CASE stage = "streams"
      BY <1>2, <1>3, <1>4, <1>8, <2>1, <2>3 DEF StageInv, RequestsOf, Requests, Stages, Has, After
    <2>4. CASE stage = "stream"
      <3>1. stage' = "position" /\ pending' = RequestsOf("position")
        BY <2>1, <2>4 DEF After
      <3>2. {"stream", "vested"} \subseteq DOMAIN seen'
        BY <1>2, <1>3, <1>8, <2>4 DEF StageInv, RequestsOf, Requests, Has
      <3> QED
        BY <1>2, <1>3, <1>4, <1>8, <2>4, <3>1, <3>2 DEF StageInv, RequestsOf, Requests, Stages, Has
    <2>5. CASE stage = "position"
      BY <1>2, <1>3, <1>4, <1>8, <2>1, <2>5 DEF StageInv, RequestsOf, Requests, Stages, Has, After
    <2>6. CASE stage = "group"
      BY <1>2, <1>3, <1>4, <1>5, <1>8, <2>1, <2>6 DEF StageInv, RequestsOf, Requests, Stages, Has, After
    <2>7. CASE stage = "assets"
      BY <1>2, <1>3, <1>4, <1>5, <1>8, <2>1, <2>7 DEF StageInv, RequestsOf, Requests, Stages, Has, After
    <2>8. CASE stage = "index"
      BY <1>2, <1>3, <1>4, <1>5, <1>8, <2>1, <2>8 DEF StageInv, RequestsOf, Requests, Stages, Has, After
    <2>9. stage \notin {"done", "failed"}
      BY <1>2 DEF StageInv, RequestsOf, Requests
    <2> QED
      BY <2>3, <2>4, <2>5, <2>6, <2>7, <2>8, <2>9, <2>10, <2>11, <2>12 DEF StageInv, Stages
  <1> QED
    BY <1>7, <1>8

\* The steps that answer nothing.
LEMMA OtherStepsKeepReads ==
  ASSUME ReadsInv, FallBack \/ RequestFails \/ UNCHANGED readsVars
  PROVE  ReadsInv'
  <1>1. UNCHANGED << chain, role, v3, seen, at >>
    BY DEF FallBack, RequestFails, readsVars
  <1>2. BooksInv' /\ AnswersInv'
    BY <1>1 DEF ReadsInv, BooksInv, Tip, Untouched, AnswersInv, TrueAnswers, Has, Sends, Receives
  <1>3. StageInv'
    <2>1. CASE FallBack
      BY <1>1, <2>1 DEF ReadsInv, StageInv, FallBack, Enter, RequestsOf, Requests, Stages, Has,
                        Sends, Receives, AnswersInv
    <2>2. CASE RequestFails
      BY <1>1, <2>2 DEF ReadsInv, StageInv, RequestFails, Enter, RequestsOf, Requests, Stages, Has,
                        Sends, Receives
    <2>3. CASE UNCHANGED readsVars
      BY <2>3 DEF ReadsInv, StageInv, readsVars, Has, Sends, Receives
    <2> QED
      BY <2>1, <2>2, <2>3
  <1> QED
    BY <1>2, <1>3 DEF ReadsInv

\* A read starts at the first block, without answers.
LEMMA InitReadsInv == ReadsInit => ReadsInv
  <1> SUFFICES ASSUME ReadsInit PROVE ReadsInv
    OBVIOUS
  <1>1. PICK stx, scaled \in 0..MaxAmount, shares \in 0..1, withdrawn \in {0, StreamTotal} :
          chain = << [stx |-> stx, sbtc |-> 0, shares |-> shares, rate |-> 1, scaled |-> scaled,
                      index |-> IndexPrecision, withdrawn |-> withdrawn, vested |-> withdrawn,
                      cancelled |-> FALSE, cause |-> "wallet"] >>
    BY DEF ReadsInit
  <1> DEFINE l == [stx |-> stx, sbtc |-> 0, shares |-> shares, rate |-> 1, scaled |-> scaled,
                   index |-> IndexPrecision, withdrawn |-> withdrawn, vested |-> withdrawn,
                   cancelled |-> FALSE, cause |-> "wallet"]
  <1>2. l \in Ledgers
    BY ReadsAssumption DEF Ledgers
  <1>3. l.index \in Nat
    BY ReadsAssumption
  <1>4. chain = << l >>
    BY <1>1
  <1> HIDE DEF l
  <1>5. chain \in Seq(Ledgers) /\ Tip = 1 /\ \A h \in 1..Tip : chain[h] = l
    BY <1>2, <1>4 DEF Tip
  <1>6. BooksInv
    BY <1>3, <1>5 DEF BooksInv, SameBooks
  <1>7. AnswersInv
    BY <1>5 DEF ReadsInit, AnswersInv, TrueAnswers, Has
  <1>8. StageInv
    BY DEF ReadsInit, StageInv, Stages, RequestsOf, Requests, Has
  <1> QED
    BY <1>6, <1>7, <1>8 DEF ReadsInv

\* Every step of the chain and of the read keeps ReadsInv.
LEMMA NextReadsInv == ReadsInv /\ [ReadsNext]_readsVars => ReadsInv'
  <1> SUFFICES ASSUME ReadsInv, [ReadsNext]_readsVars PROVE ReadsInv'
    OBVIOUS
  <1>1. CASE Chain
    <2>1. StageInv'
      BY <1>1, ChainOnlyAdds DEF ReadsInv, StageInv, Has, Sends, Receives
    <2> QED
      BY <1>1, <2>1, ChainKeepsBooks, ChainKeepsAnswers DEF ReadsInv
  <1>2. ASSUME NEW q \in Requests, Answered(q) PROVE ReadsInv'
    <2>1. BooksInv'
      BY <1>2 DEF Answered, ReadsInv, BooksInv, Tip, Untouched
    <2> QED
      BY <1>2, <2>1, AnsweredKeepsAnswers, AnsweredKeepsStage DEF ReadsInv
  <1> QED
    BY <1>1, <1>2, OtherStepsKeepReads DEF ReadsNext

\* The amount of the only asset of a kind, or zero where there is none.
LEMMA AmountOf ==
  ASSUME NEW asset, NEW kind, NEW n \in Nat,
         {a \in Report : a.asset = asset /\ a.role = kind} = Asset(asset, kind, n)
  PROVE  Amount(asset, kind) = n
  <1> DEFINE found == {a \in Report : a.asset = asset /\ a.role = kind}
             a == [asset |-> asset, role |-> kind, amount |-> n]
  <1>1. Amount(asset, kind) = IF found = {} THEN 0 ELSE (CHOOSE b \in found : TRUE).amount
    BY DEF Amount
  <1>2. CASE n = 0
    BY <1>1, <1>2 DEF Asset
  <1>3. CASE n > 0
    <2>1. found = {a}
      BY <1>3 DEF Asset
    <2> HIDE DEF found
    <2>2. (CHOOSE b \in found : TRUE) = a
      BY <2>1
    <2> QED
      BY <1>1, <2>1, <2>2
  <1> QED BY <1>2, <1>3

\* Every asset of the report has a kind of its own.
LEMMA ReportedAmounts ==
  ASSUME NEW stx \in Nat, NEW sbtc \in Nat, NEW locked \in Nat, NEW collateral \in Nat, NEW debt \in Nat,
         Report = UNION {WalletAssets(stx, sbtc), Asset("sBTC", "locked", locked),
                         LendingAssets(collateral, debt)}
  PROVE  /\ Amount("STX", "asset") = stx /\ Amount("sBTC", "asset") = sbtc
         /\ Amount("sBTC", "locked") = locked
         /\ Amount("STX", "collateral") = collateral /\ Amount("USDC", "debt") = debt
  <1>1. Report = UNION {Asset("STX", "asset", stx), Asset("sBTC", "asset", sbtc),
                        Asset("sBTC", "locked", locked),
                        Asset("STX", "collateral", collateral), Asset("USDC", "debt", debt)}
    BY DEF WalletAssets, LendingAssets
  <1>2. \A asset, kind, n : \A a \in Asset(asset, kind, n) : a.asset = asset /\ a.role = kind
    BY DEF Asset
  <1>3. {a \in Report : a.asset = "STX" /\ a.role = "asset"} = Asset("STX", "asset", stx)
    BY <1>1, <1>2
  <1>4. {a \in Report : a.asset = "sBTC" /\ a.role = "asset"} = Asset("sBTC", "asset", sbtc)
    BY <1>1, <1>2
  <1>5. {a \in Report : a.asset = "sBTC" /\ a.role = "locked"} = Asset("sBTC", "locked", locked)
    BY <1>1, <1>2
  <1>6. {a \in Report : a.asset = "STX" /\ a.role = "collateral"} = Asset("STX", "collateral", collateral)
    BY <1>1, <1>2
  <1>7. {a \in Report : a.asset = "USDC" /\ a.role = "debt"} = Asset("USDC", "debt", debt)
    BY <1>1, <1>2
  <1> QED
    BY <1>3, <1>4, <1>5, <1>6, <1>7, AmountOf

\* getActualDebt covers the debt and exceeds it by less than a unit.
LEMMA DebtIsRoundedUp ==
  ASSUME NEW scaled \in Nat, NEW index \in Nat
  PROVE  /\ ActualDebt(scaled, index) \in Nat
         /\ ActualDebt(scaled, index) * IndexPrecision >= scaled * index
         /\ (ActualDebt(scaled, index) - 1) * IndexPrecision < scaled * index
  <1> DEFINE owed == scaled * index
             p == IndexPrecision
             d == (owed + p - 1) \div p
  <1>1. owed \in Nat /\ p \in Nat \ {0}
    BY ReadsAssumption
  <1>2. ActualDebt(scaled, index) = d
    BY DEF ActualDebt
  <1> HIDE DEF owed, p
  <1>3. d \in Nat /\ p * d <= owed + p - 1 /\ owed + p - 1 < p * d + p
    BY <1>1
  <1>4. d * p = p * d /\ (d - 1) * p = p * d - p
    BY <1>1, <1>3
  <1>5. p * d \in Nat
    BY <1>1, <1>3
  <1>6. d * p >= owed /\ (d - 1) * p < owed
    BY <1>1, <1>3, <1>4, <1>5
  <1> QED
    BY <1>2, <1>3, <1>6 DEF owed, p

\* What a finished read reports.
LEMMA DoneReport ==
  ASSUME ReadsInv, stage = "done"
  PROVE  /\ Amount("STX", "asset") = Balances.stx
         /\ Amount("sBTC", "asset") = Balances.sbtc
         /\ Balances.stx = chain[at[IF v3 THEN "stx" ELSE "balances"]].stx
         /\ Balances.sbtc = chain[at[IF v3 THEN "tokens" ELSE "balances"]].sbtc
         /\ Amount("sBTC", "locked") =
               IF Receives /\ ~chain[at["stream"]].cancelled
               THEN StreamTotal - chain[at["stream"]].withdrawn ELSE 0
         /\ Amount("STX", "collateral") =
               IF chain[at["position"]].shares = 0 THEN 0
               ELSE chain[at["position"]].shares * chain[at["assets"]].rate
         /\ Amount("USDC", "debt") =
               IF chain[at["position"]].scaled = 0 THEN 0
               ELSE ActualDebt(chain[at["position"]].scaled, chain[at["index"]].index)
  <1> DEFINE locked == IF StreamCounts THEN Outstanding ELSE 0
             collateral == IF Has("assets") THEN seen["assets"] ELSE 0
             debt == IF Has("index") THEN ActualDebt(seen["position"].scaled, seen["index"]) ELSE 0
             p == chain[at["position"]]
             s == chain[at["stream"]]
  <1>1. /\ Has("position")
        /\ Has("height") /\ Has("sent") /\ Has("received")
        /\ IF v3 THEN Has("stx") /\ Has("tokens") ELSE Has("balances")
        /\ Receives => Has("stream")
        /\ Has("assets") <=> seen["position"].shares > 0
        /\ Has("index") <=> seen["position"].scaled > 0
    BY DEF ReadsInv, StageInv
  <1>2. \A q \in DOMAIN seen : at[q] \in 1..Tip
    BY DEF ReadsInv, AnswersInv
  <1>3. \A q \in DOMAIN seen : chain[at[q]] \in Ledgers
    BY <1>2, BlocksAreLedgers DEF ReadsInv
  <1>4. TrueAnswers
    BY DEF ReadsInv, AnswersInv
  <1>5. /\ Balances.stx = chain[at[IF v3 THEN "stx" ELSE "balances"]].stx
        /\ Balances.sbtc = chain[at[IF v3 THEN "tokens" ELSE "balances"]].sbtc
        /\ Balances.stx \in Nat /\ Balances.sbtc \in Nat
    <2>1. CASE v3
      BY <1>1, <1>3, <1>4, <2>1, LedgerAmounts DEF Balances, TrueAnswers, Has
    <2>2. CASE ~v3
      BY <1>1, <1>3, <1>4, <2>2, LedgerAmounts DEF Balances, TrueAnswers, Has
    <2> QED
      BY <2>1, <2>2
  <1>6. /\ p.shares \in Nat /\ p.scaled \in Nat
        /\ seen["position"].shares = p.shares /\ seen["position"].scaled = p.scaled
    BY <1>1, <1>3, <1>4, LedgerAmounts DEF TrueAnswers, Has
  <1>7. /\ collateral = IF p.shares = 0 THEN 0 ELSE p.shares * chain[at["assets"]].rate
        /\ collateral \in Nat
    <2>1. CASE Has("assets")
      <3>1. seen["assets"] = p.shares * chain[at["assets"]].rate /\ p.shares > 0
        BY <1>1, <1>4, <1>6, <2>1 DEF TrueAnswers
      <3>2. chain[at["assets"]].rate \in Nat
        BY <1>3, <2>1, LedgerAmounts DEF Has
      <3> QED
        BY <1>6, <2>1, <3>1, <3>2
    <2>2. CASE ~Has("assets")
      BY <1>1, <1>6, <2>2
    <2> QED
      BY <2>1, <2>2
  <1>8. /\ debt = IF p.scaled = 0 THEN 0 ELSE ActualDebt(p.scaled, chain[at["index"]].index)
        /\ debt \in Nat
    <2>1. CASE Has("index")
      <3>1. seen["index"] = chain[at["index"]].index /\ p.scaled > 0
        BY <1>1, <1>4, <1>6, <2>1 DEF TrueAnswers
      <3>2. chain[at["index"]].index \in Nat
        BY <1>3, <2>1, LedgerAmounts DEF Has
      <3>3. ActualDebt(p.scaled, chain[at["index"]].index) \in Nat
        BY <1>6, <3>2, DebtIsRoundedUp
      <3> QED
        BY <1>6, <2>1, <3>1, <3>3
    <2>2. CASE ~Has("index")
      BY <1>1, <1>6, <2>2
    <2> QED
      BY <2>1, <2>2
  <1>9. /\ locked = IF Receives /\ ~s.cancelled THEN StreamTotal - s.withdrawn ELSE 0
        /\ locked \in Nat
    <2>1. Relationship = "recipient" <=> Receives
      BY DEF Relationship
    <2>2. CASE Has("stream")
      <3>1. s.withdrawn \in 0..StreamTotal /\ s.cancelled \in BOOLEAN
        BY <1>3, <2>2, LedgerAmounts DEF Has
      <3>2. Outstanding = StreamTotal - s.withdrawn /\ seen["stream"].cancelled = s.cancelled
        BY <1>4, <2>2 DEF TrueAnswers, Outstanding
      <3>3. StreamTotal - s.withdrawn \in Nat
        BY <3>1, ReadsAssumption
      <3>4. StreamCounts <=> ~s.cancelled /\ StreamTotal - s.withdrawn > 0 /\ Receives
        BY <2>1, <2>2, <3>2 DEF StreamCounts
      <3> HIDE DEF s
      <3> QED
        BY <3>2, <3>3, <3>4
    <2>3. CASE ~Has("stream")
      BY <1>1, <2>3 DEF StreamCounts
    <2> QED
      BY <2>2, <2>3
  <1>10. Report = UNION {WalletAssets(Balances.stx, Balances.sbtc), Asset("sBTC", "locked", locked),
                         LendingAssets(collateral, debt)}
    <2>1. StreamAssets = Asset("sBTC", "locked", locked)
      BY DEF StreamAssets, Asset
    <2> QED
      BY <2>1 DEF Report
  <1> HIDE DEF locked, collateral, debt, p, s
  <1>11. /\ Amount("STX", "asset") = Balances.stx /\ Amount("sBTC", "asset") = Balances.sbtc
         /\ Amount("sBTC", "locked") = locked
         /\ Amount("STX", "collateral") = collateral /\ Amount("USDC", "debt") = debt
    <2>1. PICK stx, sbtc, l, c, d \in Nat :
             stx = Balances.stx /\ sbtc = Balances.sbtc /\ l = locked /\ c = collateral /\ d = debt
      BY <1>5, <1>7, <1>8, <1>9
    <2>2. Report = UNION {WalletAssets(stx, sbtc), Asset("sBTC", "locked", l), LendingAssets(c, d)}
      BY <1>10, <2>1
    <2>3. /\ Amount("STX", "asset") = stx /\ Amount("sBTC", "asset") = sbtc
          /\ Amount("sBTC", "locked") = l
          /\ Amount("STX", "collateral") = c /\ Amount("USDC", "debt") = d
      BY ONLY <2>2, ReportedAmounts
    <2> QED
      BY <2>1, <2>3
  <1> QED
    BY <1>5, <1>7, <1>8, <1>9, <1>11 DEF p, s

-----------------------------------------------------------------------------
(* Theorems about a read.                                                  *)

\* adapter-core's source.exact: however its requests fall between blocks, a report is what
\* the wallet owned in the block that labels it, unless a later block has named the wallet.
THEOREM ReadsUntouchedWalletExact == ReadsSpec => []UntouchedWalletIsExact
  <1>1. ReadsInv => UntouchedWalletIsExact
    <2> SUFFICES ASSUME ReadsInv, stage = "done",
                        \A h \in (seen["height"] + 1)..Tip : chain[h].cause = "time"
                 PROVE  UntouchedWalletIsExact
      BY DEF UntouchedWalletIsExact
    <2> DEFINE label == seen["height"]
               p == chain[at["position"]]
               debt == Amount("USDC", "debt")
    <2>1. Has("height") /\ Has("position") /\ label = at["height"]
      BY DEF ReadsInv, StageInv, AnswersInv, TrueAnswers
    <2>2. /\ \A q \in DOMAIN seen : at[q] \in 1..Tip /\ label <= at[q]
          /\ label \in 1..Tip
      BY <2>1 DEF ReadsInv, AnswersInv, Has
    <2>3. Tip \in Nat
      BY BlocksAreLedgers DEF ReadsInv
    <2>4. ASSUME NEW q \in DOMAIN seen
          PROVE  SameBooks(chain[label], chain[at[q]])
      <3>1. Untouched(label, at[q])
        BY <2>2, <2>3, <2>4 DEF Untouched
      <3> HIDE DEF label
      <3> QED
        BY <2>2, <3>1 DEF ReadsInv, BooksInv
    <2>5. /\ IF v3 THEN Has("stx") /\ Has("tokens") ELSE Has("balances")
          /\ Receives => Has("stream")
      BY DEF ReadsInv, StageInv
    <2>6. /\ Amount("STX", "asset") = chain[label].stx
          /\ Amount("sBTC", "asset") = chain[label].sbtc
      BY <2>4, <2>5, DoneReport DEF Has, SameBooks
    <2>7. Amount("sBTC", "locked") =
             IF Receives /\ ~chain[label].cancelled THEN StreamTotal - chain[label].withdrawn ELSE 0
      BY <2>4, <2>5, DoneReport DEF Has, SameBooks
    <2>8. p.shares = chain[label].shares /\ p.scaled = chain[label].scaled
      BY <2>1, <2>4 DEF Has, SameBooks
    <2>9. Amount("STX", "collateral") =
             IF chain[label].shares = 0 THEN 0 ELSE chain[label].shares * chain[at["assets"]].rate
      BY <2>8, DoneReport
    <2>10. IF chain[label].scaled = 0 THEN debt = 0
           ELSE /\ debt * IndexPrecision >= chain[label].scaled * chain[at["index"]].index
                /\ (debt - 1) * IndexPrecision < chain[label].scaled * chain[at["index"]].index
      <3>1. CASE p.scaled = 0
        BY <2>8, <3>1, DoneReport
      <3>2. CASE p.scaled # 0
        <4>1. p \in Ledgers /\ p.scaled \in Nat
          BY <2>1, <2>2, BlocksAreLedgers, LedgerAmounts DEF ReadsInv, Has
        <4>2. seen["position"].scaled = p.scaled
          BY <2>1 DEF ReadsInv, AnswersInv, TrueAnswers
        <4>3. Has("index")
          BY <3>2, <4>1, <4>2 DEF ReadsInv, StageInv
        <4>4. chain[at["index"]].index \in Nat
          BY <2>2, <4>3, BlocksAreLedgers, LedgerAmounts DEF ReadsInv, Has
        <4>5. debt = ActualDebt(p.scaled, chain[at["index"]].index)
          BY <3>2, DoneReport
        <4> HIDE DEF debt, p, label
        <4> QED
          BY <2>8, <3>2, <4>1, <4>4, <4>5, DebtIsRoundedUp
      <3> QED
        BY <3>1, <3>2
    <2> QED
      BY <2>6, <2>7, <2>9, <2>10 DEF UntouchedWalletIsExact
  <1> QED BY <1>1, InitReadsInv, NextReadsInv, PTL DEF ReadsSpec

\* zest-v2's getActualDebt: the debt reported covers what the position owed in the block it
\* was read from, though blocks come between position and index.
THEOREM ReadsDebtNeverUnderstated == ReadsSpec => []DebtIsNeverUnderstated
  <1>1. ReadsInv => DebtIsNeverUnderstated
    <2> SUFFICES ASSUME ReadsInv, stage = "done"
                 PROVE  Amount("USDC", "debt") * IndexPrecision
                           >= chain[at["position"]].scaled * chain[at["position"]].index
      BY DEF DebtIsNeverUnderstated
    <2> DEFINE p == chain[at["position"]]
               i == chain[at["index"]]
               debt == Amount("USDC", "debt")
    <2>1. Has("position") /\ at["position"] \in 1..Tip /\ seen["position"].scaled = p.scaled
      BY DEF ReadsInv, StageInv, AnswersInv, TrueAnswers, Has
    <2>2. p.scaled \in Nat /\ p.index \in Nat
      BY <2>1, BlocksAreLedgers, LedgerAmounts DEF ReadsInv
    <2>3. CASE p.scaled = 0
      <3>1. debt = 0
        BY <2>3, DoneReport
      <3> HIDE DEF debt, p
      <3>2. 0 * IndexPrecision >= 0 * p.index
        BY <2>2, ReadsAssumption
      <3> QED
        BY <2>3, <3>1, <3>2 DEF debt, p
    <2>4. CASE p.scaled # 0
      <3>1. Has("index") /\ at["index"] \in 1..Tip /\ at["position"] <= at["index"]
        BY <2>1, <2>2, <2>4 DEF ReadsInv, StageInv, AnswersInv, Has
      <3>2. i.index \in Nat /\ p.index <= i.index
        BY <2>1, <3>1, BlocksAreLedgers, LedgerAmounts DEF ReadsInv, BooksInv
      <3>3. debt = ActualDebt(p.scaled, i.index)
        BY <2>4, DoneReport
      <3> HIDE DEF debt, p, i
      <3>4. debt \in Nat /\ debt * IndexPrecision >= p.scaled * i.index
        BY <2>2, <3>2, <3>3, DebtIsRoundedUp
      <3>5. p.scaled * i.index >= p.scaled * p.index
        BY <2>2, <3>2
      <3>6. debt * IndexPrecision \in Nat /\ p.scaled * i.index \in Nat /\ p.scaled * p.index \in Nat
        BY <2>2, <3>2, <3>4, ReadsAssumption
      <3>7. debt * IndexPrecision >= p.scaled * p.index
        BY <3>4, <3>5, <3>6
      <3> QED
        BY <3>7 DEF debt, p
    <2> QED
      BY <2>3, <2>4
  <1> QED BY <1>1, InitReadsInv, NextReadsInv, PTL DEF ReadsSpec
=============================================================================
