------------------------ MODULE ContributionPolicies ------------------------
(***************************************************************************)
(* The policies that size and direct a month's money in the buy-only       *)
(* allocation engine, as operators: the reserve schedules v1 to v4, KAFI   *)
(* deployment, horizon-conserved shaping, adaptive sizing, currency        *)
(* deferral, and the resolution of target mixes (policy, tilt, risk        *)
(* budget, overlay, mapping, eligibility).                                 *)
(*                                                                         *)
(* A multiplier is a whole percentage.  A mix is a record of parts per     *)
(* ticker and the whole they are parts of, so a weight is a fraction       *)
(* without rounding.  Signals (drawdown depth, trend, VIX, scores,         *)
(* percentiles) are arguments.                                             *)
(***************************************************************************)
EXTENDS Integers, FiniteSets, Functions

CONSTANTS ReserveLaw,     \* ReserveConfig: maxWithhold, trigger, minInvest, maxInvest, months, vix
          ShapeLaw,       \* ContributionShapeConfig: min, max, window
          KafiLaw,        \* KafiDeploymentConfig: min, max
          AdaptiveLaw,    \* AdaptiveContributionConfig: min, max, deadband, downside, upside
          CurrencyLaw,    \* CurrencyConfig: maxDefer, expensive
          OverlayLaw,     \* OverlayConfig: maxShift, gate (use the VIX gate)
          MappingLaw      \* MappingConfig: minImprovement, candidates

SmallerOf(x, y) == IF x < y THEN x ELSE y
LargerOf(x, y) == IF x > y THEN x ELSE y
Percent(x, p) == (x * p) \div 100

\* The checks of the configurations' __post_init__.
ReserveConfigOK ==
  /\ ReserveLaw.maxWithhold \in 1..10
  /\ ReserveLaw.minInvest \in 1..99
  /\ ReserveLaw.maxInvest \in 101..300
  /\ ReserveLaw.months \in 1..6
  /\ ReserveLaw.trigger \in Int /\ ReserveLaw.vix \in Nat \ {0}
ShapeConfigOK ==
  ShapeLaw.min \in 1..99 /\ ShapeLaw.max \in 101..200 /\ ShapeLaw.window \in 3..24
KafiConfigOK == KafiLaw.min \in 1..99 /\ KafiLaw.max \in 101..150
AdaptiveConfigOK ==
  /\ AdaptiveLaw.min \in 0..99 /\ AdaptiveLaw.max \in 101..200 /\ AdaptiveLaw.deadband \in Nat
  /\ AdaptiveLaw.downside \in [0..100 -> 0..100] /\ AdaptiveLaw.upside \in [0..100 -> 0..100]
CurrencyConfigOK == CurrencyLaw.maxDefer \in 1..100 /\ CurrencyLaw.expensive \in 1..99

ASSUME PolicyConfigs ==
  /\ ReserveConfigOK /\ ShapeConfigOK /\ KafiConfigOK /\ AdaptiveConfigOK /\ CurrencyConfigOK
  /\ OverlayLaw.maxShift \in Int
-----------------------------------------------------------------------------
(* Reserve: a share of the contribution is kept back or brought back. *)

\* The multiplier of v2 by the depth of the drawdown, in percent.
PiecewiseMultiplier(depth, trend) ==
  CASE depth < 10 -> IF trend > 0 THEN ReserveLaw.minInvest ELSE 100
    [] depth \in 10..19 -> 125 + (25 * (depth - 10)) \div 10
    [] depth \in 20..29 -> 150 + (50 * (depth - 20)) \div 10
    [] OTHER -> ReserveLaw.maxInvest

\* v3: drawdown or VIX stress scales between the full and the largest multiplier.
ErpMultiplier(depth, vix) ==
  LET calm   == depth < 10 /\ vix < ReserveLaw.vix
      scaled == LargerOf(SmallerOf(100, (100 * LargerOf(0, depth)) \div 30),
                        SmallerOf(100, LargerOf(0, (100 * vix) \div ReserveLaw.vix - 100)))
      stress == IF scaled = 0 THEN 66 ELSE scaled
  IN IF calm THEN ReserveLaw.minInvest
     ELSE IF depth >= 20 \/ vix >= ReserveLaw.vix
          THEN 100 + Percent(ReserveLaw.maxInvest - 100, stress)
          ELSE 100

\* v4: withhold only in a falling market that is not yet deep.
ErpPreservingMultiplier(depth, trend) ==
  CASE trend > 0 -> IF depth >= 20 THEN ReserveLaw.maxInvest ELSE 100
    [] trend <= 0 /\ depth < 10 -> 100
    [] trend <= 0 /\ depth \in 10..19 -> ReserveLaw.minInvest
    [] OTHER -> ReserveLaw.maxInvest

InvestMultiplier(schedule, s) ==
  CASE schedule = "v2" -> PiecewiseMultiplier(s.depth, s.trend)
    [] schedule = "v3" -> ErpMultiplier(s.depth, s.vix)
    [] schedule = "v4" -> ErpPreservingMultiplier(s.depth, s.trend)

Split(investable, reserve) == [investable |-> investable, reserve |-> reserve]

\* Mutant: the overflow above the stock cap is cut off and not invested.
StockScheduleDropping(schedule, contribution, reserve, s) ==
  LET stock      == contribution + reserve
      investable == SmallerOf(Percent(contribution, InvestMultiplier(schedule, s)), stock)
  IN Split(investable, SmallerOf(stock - investable, ReserveLaw.months * contribution))

\* Mutant: the stock cap is not applied.
StockScheduleUncapped(schedule, contribution, reserve, s) ==
  LET stock      == contribution + reserve
      investable == SmallerOf(Percent(contribution, InvestMultiplier(schedule, s)), stock)
  IN Split(investable, stock - investable)

\* v2 to v4: the multiplier draws on the stock only; what exceeds the stock cap
\* is invested.
StockSchedule(schedule, contribution, reserve, s) ==
  LET stock      == contribution + reserve
      investable == SmallerOf(Percent(contribution, InvestMultiplier(schedule, s)), stock)
      kept       == SmallerOf(stock - investable, ReserveLaw.months * contribution)
  IN Split(stock - kept, kept)

\* v1: deploy in a drawdown, else withhold in an upward trend.
BinarySchedule(contribution, reserve, s) ==
  LET cap    == Percent(contribution, ReserveLaw.maxWithhold)
      deploy == SmallerOf(reserve, cap)
  IN CASE s.depth >= ReserveLaw.trigger -> Split(contribution + deploy, reserve - deploy)
       [] s.depth < ReserveLaw.trigger /\ s.trend > 0 -> Split(contribution - cap, reserve + cap)
       [] OTHER -> Split(contribution, reserve)

ReserveSchedule(schedule, contribution, reserve, s) ==
  IF schedule = "v1" THEN BinarySchedule(contribution, reserve, s)
                     ELSE StockSchedule(schedule, contribution, reserve, s)

\* apply_kafi_deployment: deploy from contribution and reserve, never from the future.
KafiDeployment(contribution, reserve, score) ==
  LET multiplier == KafiLaw.min + Percent(KafiLaw.max - KafiLaw.min, score)
      stock      == contribution + reserve
      investable == SmallerOf(Percent(contribution, multiplier), stock)
  IN Split(investable, stock - investable)
-----------------------------------------------------------------------------
(* Shaping and adaptive sizing of the credit itself. *)

\* Mutant: the months left include the current one, so the last month need not
\* absorb the drift.
ShapeCorridorLate(base, drift, remaining) ==
  [lower |-> LargerOf(Percent(base, ShapeLaw.min),
                     base - drift - remaining * Percent(base, ShapeLaw.max - 100)),
   upper |-> SmallerOf(Percent(base, ShapeLaw.max),
                    base - drift + remaining * Percent(base, 100 - ShapeLaw.min))]

\* Mutant: the rolling window is not taken into account.
ShapeCorridorUnrolled(base, drift, remaining) ==
  [lower |-> LargerOf(Percent(base, ShapeLaw.min),
                     base - drift - (remaining - 1) * Percent(base, ShapeLaw.max - 100)),
   upper |-> SmallerOf(Percent(base, ShapeLaw.max),
                    base - drift + (remaining - 1) * Percent(base, 100 - ShapeLaw.min))]

\* The credits of a month that keep the horizon's sum reachable: later months can
\* still save down or catch up the drift, within the rolling window.
ShapeCorridor(base, drift, remaining) ==
  LET future   == remaining - 1
      saveDown == Percent(base, 100 - ShapeLaw.min)
      catchUp  == Percent(base, ShapeLaw.max - 100)
      window   == SmallerOf(ShapeLaw.window, remaining) - 1
  IN [lower |-> LargerOf(Percent(base, ShapeLaw.min), base - drift - future * catchUp),
      upper |-> SmallerOf(Percent(base, ShapeLaw.max),
                       base - drift + SmallerOf(future, window) * saveDown)]

\* shape_monthly_contribution: the score's credit, clipped into the corridor and
\* then into the band.
ShapedCredit(base, score, corridor) ==
  LET raw     == Percent(base, ShapeLaw.min + Percent(ShapeLaw.max - ShapeLaw.min, 100 - score))
      clipped == SmallerOf(LargerOf(raw, corridor.lower), corridor.upper)
  IN SmallerOf(LargerOf(clipped, Percent(base, ShapeLaw.min)), Percent(base, ShapeLaw.max))

\* size_adaptive_contribution: the curves stand for the powers of the distance
\* from the neutral score, in percent.
AdaptiveCredit(base, score) ==
  LET distance   == score - 50
      neutral    == distance \in -AdaptiveLaw.deadband .. AdaptiveLaw.deadband
      multiplier ==
        CASE neutral -> 100 + Percent(AdaptiveLaw.max - 100, AdaptiveLaw.upside[0])
          [] ~neutral /\ distance < 0 ->
               100 - Percent(100 - AdaptiveLaw.min, AdaptiveLaw.downside[-2 * distance])
          [] OTHER -> 100 + Percent(AdaptiveLaw.max - 100, AdaptiveLaw.upside[2 * distance])
  IN SmallerOf(LargerOf(Percent(base, multiplier), Percent(base, AdaptiveLaw.min)),
            Percent(base, AdaptiveLaw.max))

\* conversion_fraction: an expensive dollar defers a part of the conversion.
ConversionFraction(percentile) ==
  IF percentile <= CurrencyLaw.expensive THEN 100
  ELSE 100 - (CurrencyLaw.maxDefer * (percentile - CurrencyLaw.expensive))
               \div (100 - CurrencyLaw.expensive)
-----------------------------------------------------------------------------
(* Target mixes. *)

PartsSum(parts) == FoldFunction(+, 0, parts)
Mix(parts, whole) == [parts |-> parts, whole |-> whole]
Normalised(parts) == Mix(parts, PartsSum(parts))
NoMix == Mix(<<>>, 1)

\* A nonnegative mix that adds up to the whole, or to less.
Simplex(mix) == PartsSum(mix.parts) = mix.whole

\* apply_fixed_tilt: each weight moves by its share of the loadings' scores.
TiltedMix(mix, z, intensity) ==
  LET spread == PartsSum([t \in DOMAIN z |-> LargerOf(z[t], -z[t])])
  IN Normalised([t \in DOMAIN mix.parts |->
       LargerOf(0, 100 * mix.parts[t] * spread + intensity * mix.whole * z[t])])

\* resolve_mix_risk_budget_targets: the satellite's share, floored and capped.
RiskBudgetMix(core, satellite, raw, floor, cap) ==
  LET share == SmallerOf(cap, LargerOf(floor, raw))
  IN Mix([t \in {core, satellite} |-> IF t = satellite THEN share ELSE 100 - share], 100)

\* _invvol_targets: weights inverse to the sleeves' volatility.
InverseVolMix(vol) ==
  Normalised([t \in DOMAIN vol |-> 1000 \div vol[t]])

\* The overlay's score of a sleeve in quarters: trend, relative volatility,
\* drawdown, and a full unit for the VIX gate.
OverlayScore(s, alarm) ==
  LET clip(x) == SmallerOf(4, LargerOf(-4, x))
      own     == clip(2 * s.trend - (IF s.volatile THEN 1 ELSE 0) - (IF s.fallen THEN 1 ELSE 0))
  IN IF OverlayLaw.gate /\ alarm THEN clip(own - 4) ELSE own

\* Mutant: a sum above one is kept.
BoundedOverlayInflated(mix, signs, alarm) ==
  Mix([t \in DOMAIN mix.parts |->
        LargerOf(0, mix.parts[t] * (400 + OverlayLaw.maxShift * OverlayScore(signs[t], alarm)))],
      400 * mix.whole)

\* apply_bounded_overlay: a sum above one is renormalised, one below stays cash.
BoundedOverlay(mix, signs, alarm) ==
  LET shifted == [t \in DOMAIN mix.parts |->
        LargerOf(0, mix.parts[t] * (400 + OverlayLaw.maxShift * OverlayScore(signs[t], alarm)))]
  IN Mix(shifted, LargerOf(400 * mix.whole, PartsSum(shifted)))

\* _select_implementation: the best passing candidate, unless the incumbent
\* passes and nobody beats it by the required improvement.  Names are ordered by
\* the sequence of candidates, which breaks ties.
Argmax(order, scores) ==
  LET best == {i \in DOMAIN order : order[i] \in DOMAIN scores
                 /\ \A t \in DOMAIN scores : scores[t] <= scores[order[i]]}
  IN order[CHOOSE i \in best : \A j \in best : i <= j]
Implementation(sleeve, scores, incumbents) ==
  LET order    == MappingLaw.candidates[sleeve]
      held     == sleeve \in DOMAIN incumbents /\ incumbents[sleeve] \in DOMAIN scores
      others   == Restrict(scores, DOMAIN scores \ {incumbents[sleeve]})
      rival    == Argmax(order, others)
  IN CASE ~held -> Argmax(order, scores)
       [] held /\ others # <<>>
            /\ scores[rival] >= scores[incumbents[sleeve]] + MappingLaw.minImprovement -> rival
       [] OTHER -> incumbents[sleeve]

\* apply_etf_mapping: the sleeves' parts on their implementations, summed where
\* two sleeves share one.
MappedMix(mix, choice) ==
  Mix([t \in {choice[s] : s \in DOMAIN mix.parts} |->
         PartsSum([s \in {q \in DOMAIN mix.parts : choice[q] = t} |-> mix.parts[s]])],
      mix.whole)

\* _eligible_delisting_targets: the funded tickers that trade, scaled to one.
EligibleMix(mix, eligible) ==
  LET funded == {t \in DOMAIN mix.parts : t \in eligible /\ mix.parts[t] > 0}
  IN IF funded = {} THEN NoMix ELSE Normalised(Restrict(mix.parts, funded))
-----------------------------------------------------------------------------
(* Spending: the buy-only mixer and the lots. *)

\* allocate_contribution: new money goes to the sleeves below their target by
\* more than the band, else to any below it, in proportion to what they lack.
BandedMix(mix, marks, nav, band) ==
  LET lack(t) == mix.parts[t] * nav - marks[t] * mix.whole
      wide   == {t \in DOMAIN mix.parts : 100 * lack(t) > band * nav * mix.whole}
      under  == {t \in DOMAIN mix.parts : lack(t) > 0}
      chosen == IF wide # {} THEN wide ELSE under
  IN IF chosen = {} THEN mix
     ELSE Normalised([t \in DOMAIN mix.parts |-> IF t \in chosen THEN lack(t) ELSE 0])

\* Mutant: lots are rounded up.
LotsRoundedUp(mix, net, prices) ==
  [t \in DOMAIN mix.parts |->
     (net * mix.parts[t] + mix.whole * prices[t] - 1) \div (mix.whole * prices[t])]

\* fill_integer_buys: whole lots of every ticker's share of the net proceeds.
Lots(mix, net, prices) ==
  [t \in DOMAIN mix.parts |-> (net * mix.parts[t]) \div (mix.whole * prices[t])]
Cost(lots, prices) == FoldFunction(+, 0, [t \in DOMAIN lots |-> lots[t] * prices[t]])
=============================================================================
