-------------------------- MODULE AfterTaxCampaign --------------------------
(***************************************************************************)
(* The after-tax campaign, from its rules to its report: what a rule's     *)
(* payload must and may not carry, the target weights a rule gives at a    *)
(* month end from the closes, the rate and the membership that are public  *)
(* by then; then the campaign's definition is loaded, every arm is run     *)
(* over every cohort of every horizon, with and without frictions, against *)
(* a baseline that is run once per cohort and kept, and the summaries pass *)
(* the gate or not before the report is published.                         *)
(*                                                                         *)
(* Weights are in Units, returns and ratios in whole percents, time in     *)
(* months.  An absent field is "none", Absent or empty.  The daily closes  *)
(* behind the realized volatility are not kept: the share it leaves is any *)
(* share.  The resampled means are any values between the worst and the    *)
(* best, and the disclosures (drawdown, taxes, sells) are left out.        *)
(***************************************************************************)
EXTENDS Integers, Sequences, FiniteSets, FiniteSetsExt, Functions, SequencesExt

CONSTANTS
  Payloads,    \* rules as they may be registered
  RuleTickers, \* tickers whose closes are followed
  CloseLevels, RateLevels,
  Memberships, \* tickers a membership may list in a month
  Year,        \* months of a year
  MonthSessions, \* sessions of a month
  MaxMonths,   \* bound of a behaviour
  HorizonEnd,  \* last month of the cohort
  Campaigns,   \* definitions as they may be written
  Regimes,     \* crash windows by name, <<first, last>> month
  BaseWealth,  \* [frictionless -> a function of horizon and first month]
  ArmWealths   \* what another arm may end with

Units == 24
Absent == -1
CashSleeve == "CASH"
NoTargets == <<>>
Everyone == {"any"}

VARIABLES
  payload,       \* the rule
  ruleStage,     \* "parse", then "refused", or "month" and "signal" in turn; "dead"
  closes,        \* month-end closes of every ticker
  rate,          \* percent a year, or Absent
  eligible,      \* membership of the month; Everyone where the run has none
  targets,       \* what the rule answered this month
  campaign,      \* the definition
  campStage,     \* "load", "refused", "run", "dead", "done", "published"
  baseCache,     \* the baseline runs that were kept
  campRows,      \* a row per arm, horizon and cohort
  campSummaries  \* a summary per arm and horizon, in the order they are made
ruleVars == <<payload, ruleStage, closes, rate, eligible, targets>>
campaignVars == <<campaign, campStage, baseCache, campRows, campSummaries>>

-----------------------------------------------------------------------------
(* Payloads. *)

Present(p) ==
  {f \in {"safe", "signal"} : p[f] # "none"}
  \cup {f \in {"core", "universe", "momentum"} : p[f] # <<>>}
  \cup {f \in {"sma", "fraction", "vol", "top", "satellite", "glide"} : p[f] # Absent}
\* what a rule requires; the rest is forbidden to it
Required(id) ==
  CASE id = "static"             -> {"core"}
    [] id = "dual_momentum_exit" -> {"core", "safe", "signal", "sma", "momentum"}
    [] id = "trend_partial"      -> {"core", "safe", "signal", "sma", "fraction"}
    [] id = "vol_target"         -> {"core", "safe", "signal", "vol"}
    [] id = "taa_top_n"          -> {"safe", "universe", "momentum", "top"}
    [] id = "gem"                -> {"safe", "signal", "universe"}
    [] id = "core_satellite_taa" -> {"core", "safe", "universe", "momentum", "top", "satellite"}
    [] id = "glide_path"         -> {"core", "safe", "glide"}
IsSimplex(w) == (\A t \in DOMAIN w : w[t] >= 0) /\ SumFunction(w) = Units

ParsesAnySimplex(p) ==
  /\ Present(p) = Required(p.id)
  /\ p.id = "dual_momentum_exit" => Len(p.momentum) = 1
  /\ p.id \in {"taa_top_n", "core_satellite_taa"} => p.top <= Len(p.universe)
  /\ IsInjective(p.universe)
Parses(p) ==
  /\ Present(p) = Required(p.id)
  /\ "core" \in Present(p) => IsSimplex(p.core)
  /\ p.id = "dual_momentum_exit" => Len(p.momentum) = 1
  /\ p.id \in {"taa_top_n", "core_satellite_taa"} => p.top <= Len(p.universe)
  /\ IsInjective(p.universe)

\* build_weight_rule checks again what it needs, and nothing more
Buildable(p) == Required(p.id) \subseteq Present(p)

\* tickers the run loads the closes of, and whether it loads the rates
TickersOf(p) ==
  (DOMAIN p.core \cup ToSet(p.universe) \cup {p.signal, p.safe}) \ {"none", CashSleeve}
RequiresCashRate(p) ==
  \/ p.id \in {"dual_momentum_exit", "taa_top_n", "gem", "core_satellite_taa"}
  \/ p.safe = CashSleeve

-----------------------------------------------------------------------------
(* The rule at a month end. *)

Months == Len(closes[CHOOSE t \in RuleTickers : TRUE])
KMonthReturn(t, k) == (100 * closes[t][Months]) \div closes[t][Months - k] - 100
BeatsHurdle(t, k) == Year * KMonthReturn(t, k) >= k * rate
AboveSma(t, months) ==
  months * closes[t][Months] > SumFunction(SubSeq(closes[t], Months - months + 1, Months))

EligibleUniverse(p) ==
  IF eligible = Everyone THEN p.universe ELSE SelectSeq(p.universe, LAMBDA t : t \in eligible)
SafeMissing(p) == eligible # Everyone /\ p.safe # CashSleeve /\ p.safe \notin eligible

AllIn(t) == [k \in {t} |-> Units]
Scaled(w, x) == [k \in DOMAIN w |-> (w[k] * x) \div Units]
Plus(v, w) ==
  LET at(u, k) == IF k \in DOMAIN u THEN u[k] ELSE 0
  IN  [k \in DOMAIN v \cup DOMAIN w |-> at(v, k) + at(w, k)]
\* a share of the core, the remainder in the safe asset
Partly(p, x) == Plus(Scaled(p.core, x), [k \in {p.safe} |-> Units - x])

\* the sum over the lookbacks; ties keep the order of the universe
Score(p, t) == SumFunction([i \in DOMAIN p.momentum |-> KMonthReturn(t, p.momentum[i])])
Passes(p, t) == Year * Score(p, t) >= SumFunction(p.momentum) * rate
Picks(p) ==
  LET u == EligibleUniverse(p)
      ahead(i, j) == Score(p, u[i]) > Score(p, u[j]) \/ (Score(p, u[i]) = Score(p, u[j]) /\ i < j)
  IN  {u[i] : i \in {k \in DOMAIN u : Cardinality({j \in DOMAIN u : ahead(j, k)}) < p.top}}
SlotsFixed(p, picks) == Units \div p.top
Slot(p, picks) == Units \div Cardinality(picks)
TaaWeights(p) ==
  LET picks == Picks(p)
      risky == {t \in picks : Passes(p, t)}
      safe  == IF risky = picks THEN {} ELSE {p.safe}
      slot  == Slot(p, picks)
  IN  IF EligibleUniverse(p) = <<>> THEN AllIn(p.safe)
      ELSE Plus([t \in risky |-> slot], [t \in safe |-> slot * Cardinality(picks \ risky)])

Strongest(u) ==
  u[CHOOSE i \in DOMAIN u : \A j \in DOMAIN u \ {i} :
      LET x == KMonthReturn(u[i], Year)
          y == KMonthReturn(u[j], Year)
      IN  x > y \/ (x = y /\ i < j)]
GemWeights(p) ==
  IF EligibleUniverse(p) = <<>> \/ ~BeatsHurdle(p.signal, Year) THEN AllIn(p.safe)
  ELSE AllIn(Strongest(EligibleUniverse(p)))

Invested(p) == AboveSma(p.signal, p.sma) \/ BeatsHurdle(p.signal, p.momentum[1])
Blend(p) ==
  IF EligibleUniverse(p) = <<>> THEN AllIn(p.safe)
  ELSE Plus(Scaled(p.core, Units - p.satellite), Scaled(TaaWeights(p), p.satellite))

\* calm: the share of the core the realized volatility leaves
WeightsOf(p, calm) ==
  CASE p.id = "static" -> p.core
    [] p.id = "dual_momentum_exit" -> IF Invested(p) THEN p.core ELSE AllIn(p.safe)
    [] p.id = "trend_partial" -> IF AboveSma(p.signal, p.sma) THEN p.core ELSE Partly(p, p.fraction)
    [] p.id = "vol_target" -> Partly(p, calm)
    [] p.id = "taa_top_n" -> TaaWeights(p)
    [] p.id = "gem" -> GemWeights(p)
    [] p.id = "core_satellite_taa" -> Blend(p)
    [] p.id = "glide_path" -> IF Months <= HorizonEnd - p.glide THEN p.core ELSE AllIn(p.safe)

\* what the rule reads before it can answer: closes back to the longest of its
\* lookbacks, a daily close more than the sessions of its window, a rate, and a safe asset that is a member
ShortOf(k) == Months < k
HistoryMissing(p) ==
  LET u == EligibleUniverse(p)
      longest == Max(ToSet(p.momentum)) + 1
  IN  CASE p.id = "dual_momentum_exit" ->
             ShortOf(p.sma) \/ (~AboveSma(p.signal, p.sma) /\ ShortOf(longest))
        [] p.id = "trend_partial" -> ShortOf(p.sma)
        [] p.id = "vol_target" -> MonthSessions * Months <= p.vol
        [] p.id = "gem" -> u # <<>> /\ ShortOf(Year + 1)
        [] p.id \in {"taa_top_n", "core_satellite_taa"} -> u # <<>> /\ ShortOf(longest)
        [] OTHER -> FALSE
RateMissing(p) ==
  /\ rate = Absent
  /\ \/ p.id = "dual_momentum_exit" /\ ~AboveSma(p.signal, p.sma)
     \/ p.id \in {"gem", "taa_top_n", "core_satellite_taa"} /\ EligibleUniverse(p) # <<>>
Dies(p) ==
  \/ p.id \in {"gem", "taa_top_n", "core_satellite_taa"} /\ SafeMissing(p)
  \/ HistoryMissing(p)
  \/ RateMissing(p)

-----------------------------------------------------------------------------
(* From the payload to the targets of every month. *)

RulesInit ==
  /\ payload \in Payloads
  /\ ruleStage = "parse"
  /\ closes = [t \in RuleTickers |-> <<>>]
  /\ rate = Absent
  /\ eligible \in {Everyone, {}}
  /\ targets = NoTargets

ParseRule ==
  /\ ruleStage = "parse"
  /\ ruleStage' = IF Parses(payload) /\ Buildable(payload) THEN "month" ELSE "refused"
  /\ UNCHANGED <<payload, closes, rate, eligible, targets>>

\* the closes of the months before the cohort are loaded with it, so any month
\* may be the first that asks; rates are loaded when the rule asks for them or the
\* run has a membership
MonthEnds ==
  /\ ruleStage \in {"month", "signal"}
  /\ Months < MaxMonths
  /\ \E now \in [TickersOf(payload) -> CloseLevels] :
       closes' = [t \in RuleTickers |->
                    Append(closes[t], IF t \in DOMAIN now THEN now[t] ELSE Min(CloseLevels))]
  /\ rate' \in IF RequiresCashRate(payload) \/ eligible # Everyone THEN RateLevels ELSE {Absent}
  /\ eligible' \in IF eligible = Everyone THEN {Everyone} ELSE Memberships
  /\ ruleStage' = "signal"
  /\ targets' = NoTargets
  /\ UNCHANGED payload

CallRule ==
  /\ ruleStage = "signal"
  /\ IF Dies(payload)
     THEN ruleStage' = "dead" /\ UNCHANGED targets
     ELSE /\ \E calm \in {Units \div 2, Units} : targets' = WeightsOf(payload, calm)
          /\ ruleStage' = "month"
  /\ UNCHANGED <<payload, closes, rate, eligible>>

RulesNext == ParseRule \/ MonthEnds \/ CallRule

-----------------------------------------------------------------------------
(* What the rules promise. *)

Momentum == {"taa_top_n", "gem"}

\* Whatever the month brings - members that left, ties, a hurdle nobody beats -
\* the answer is a whole portfolio of tickers whose closes were loaded, and of
\* cash only where the rate was loaded too.
WholePortfolio ==
  /\ SumFunction(targets) = Units
  /\ \A t \in DOMAIN targets : targets[t] >= 0
  /\ DOMAIN targets \subseteq TickersOf(payload) \cup {CashSleeve}
  /\ CashSleeve \in DOMAIN targets \ DOMAIN payload.core => RequiresCashRate(payload)

\* A momentum rule buys no former member, holds no member that a stronger one
\* was passed over for, and spreads no wider and no narrower than it was told.
StrongestMembersHeld ==
  /\ payload.id \in Momentum /\ eligible # Everyone => DOMAIN targets \subseteq eligible \cup {CashSleeve}
  /\ payload.id = "taa_top_n" =>
       \A t \in DOMAIN targets \ {payload.safe} :
         /\ targets[t] * payload.top >= Units
         /\ \A s \in ToSet(EligibleUniverse(payload)) \ DOMAIN targets : Score(payload, s) <= Score(payload, t)
  /\ payload.id = "core_satellite_taa" /\ EligibleUniverse(payload) # <<>> =>
       \A t \in DOMAIN payload.core : Units * targets[t] >= (Units - payload.satellite) * payload.core[t]

\* A rule that was built answers with such a portfolio, or dies for want of a
\* history, of a rate it asked for, or of a safe asset that is still a member.
RuleTargetsSound ==
  /\ targets # NoTargets => WholePortfolio /\ StrongestMembersHeld
  /\ ruleStage = "dead" =>
       \/ Months <= Max(ToSet(payload.momentum) \cup {payload.sma, Year})
       \/ MonthSessions * Months <= payload.vol
       \/ RequiresCashRate(payload) /\ rate = Absent
       \/ SafeMissing(payload)

-----------------------------------------------------------------------------
(* Loading. *)

ArmIdsOf(c) == [i \in DOMAIN c.arms |-> c.arms[i].id]
BandFits(arm) ==
  /\ arm.mode = "rebalance_band" => arm.band # Absent
  /\ arm.mode = "buy_only" => arm.band = Absent
\* formed: the fields are there, of their types and of the right sign
Loads(c) ==
  /\ c.formed
  /\ c.start <= c.end
  /\ c.horizons # <<>> /\ c.primary \in ToSet(c.horizons)
  /\ c.crashes \subseteq DOMAIN Regimes
  /\ c.arms # <<>> /\ IsInjective(ArmIdsOf(c))
  /\ \A i \in DOMAIN c.arms : BandFits(c.arms[i]) /\ Parses(c.arms[i].rule)
  /\ \E i \in DOMAIN c.arms : c.arms[i].id = c.baseline /\ c.arms[i].role = "baseline"
  /\ Cardinality({i \in DOMAIN c.arms : c.arms[i].role = "baseline"}) = 1
  /\ c.regimeFile

-----------------------------------------------------------------------------
(* Running. *)

CohortsOf(c, h) ==
  LET fits == {k \in 0..(c.end - c.start) : c.start + k * c.step + h - 1 <= c.end}
  IN  [i \in 1..Cardinality(fits) |-> c.start + (i - 1) * c.step]
CrashFirst(c, h, first) ==
  LET soon == first + (IF c.window < h THEN c.window ELSE h) - 1
  IN  \E r \in c.crashes : soon >= Regimes[r][1] /\ first <= Regimes[r][2]

\* the arm and the horizon whose summary is next
Done == Len(campSummaries)
ArmNow == campaign.arms[(Done % Len(campaign.arms)) + 1]
HorizonNow == campaign.horizons[(Done \div Len(campaign.arms)) + 1]
AllSummed == Done = Len(campaign.arms) * Len(campaign.horizons)
RowsNow == SelectSeq(campRows, LAMBDA r : r.made = Done + 1)

CacheKeyWithoutFrictions(h, first, free) == <<h, first>>
CacheKey(h, first, free) == <<h, first, free>>
BaselineResult(cache, h, first, free) ==
  LET key == CacheKey(h, first, free)
  IN  IF key \in DOMAIN cache THEN cache[key] ELSE BaseWealth[free][<<h, first>>]
Ratio(wealth, divisor) == (100 * wealth) \div divisor

LoadCampaign ==
  /\ campStage = "load"
  /\ campStage' = IF Loads(campaign) THEN "run" ELSE "refused"
  /\ UNCHANGED <<campaign, baseCache, campRows, campSummaries>>

\* one cohort of one arm: four runs of the ledger, two of them perhaps kept
RunCohort ==
  LET h == HorizonNow
      cohorts == CohortsOf(campaign, h)
      first == cohorts[Len(RowsNow) + 1]
      isBaseline == ArmNow.id = campaign.baseline
      baseNet == BaselineResult(baseCache, h, first, FALSE)
      withBase == (CacheKey(h, first, FALSE) :> baseNet) @@ baseCache
      baseFree == BaselineResult(withBase, h, first, TRUE)
  IN  /\ campStage = "run" /\ ~AllSummed
      /\ Len(RowsNow) < Len(cohorts)
      /\ baseCache' = (CacheKey(h, first, TRUE) :> baseFree) @@ withBase
      /\ IF baseNet <= 0 \/ baseFree <= 0
         THEN campStage' = "dead" /\ UNCHANGED campRows
         ELSE /\ \E w \in IF isBaseline THEN {<<baseNet, baseFree>>} ELSE ArmWealths :
                   campRows' = Append(campRows,
                     [arm |-> ArmNow.id, horizon |-> h, first |-> first, made |-> Done + 1,
                      wealth |-> w[1], freeWealth |-> w[2],
                      ratio |-> IF isBaseline THEN 100 ELSE Ratio(w[1], baseNet),
                      freeRatio |-> IF isBaseline THEN 100 ELSE Ratio(w[2], baseFree),
                      crash |-> CrashFirst(campaign, h, first)])
              /\ UNCHANGED campStage
      /\ UNCHANGED <<campaign, campSummaries>>

\* an error of the ledger, or a horizon no cohort fits
RunnerRaises ==
  /\ campStage = "run" /\ ~AllSummed
  /\ campStage' = "dead"
  /\ UNCHANGED <<campaign, baseCache, campRows, campSummaries>>

\* twice the middle value, so that two cohorts need no half
TwiceMedian(ratios) ==
  LET ordered == SortSeq(ratios, <)
      n == Len(ordered)
  IN  ordered[(n + 1) \div 2] + ordered[(n + 2) \div 2]
GatePassesAnyRole(c, s) ==
  /\ s.median > 2 * c.gate.median /\ s.worst >= c.gate.worst /\ s.tail >= c.gate.tail
GatePasses(c, s) ==
  /\ s.role = "operational_candidate"
  /\ s.median > 2 * c.gate.median /\ s.worst >= c.gate.worst /\ s.tail >= c.gate.tail

SummarizeArm ==
  LET ratiosOf(rows) == [i \in DOMAIN rows |-> rows[i].ratio]
      ratios == ratiosOf(RowsNow)
      among(crash) == ratiosOf(SelectSeq(RowsNow, LAMBDA r : r.crash = crash))
      of(seq) == IF seq = <<>> THEN Absent ELSE TwiceMedian(seq)
  IN  /\ campStage = "run" /\ ~AllSummed
      /\ RowsNow # <<>> /\ Len(RowsNow) = Len(CohortsOf(campaign, HorizonNow))
      /\ \E tail \in {Min(ToSet(ratios)), Max(ToSet(ratios))} :
           LET s == [arm |-> ArmNow.id, role |-> ArmNow.role, horizon |-> HorizonNow,
                     count |-> Len(RowsNow), median |-> TwiceMedian(ratios), worst |-> Min(ToSet(ratios)),
                     tail |-> tail, crash |-> of(among(TRUE)), other |-> of(among(FALSE))]
           IN  campSummaries' = Append(campSummaries,
                 s @@ [passes |-> HorizonNow = campaign.primary /\ GatePasses(campaign, s)])
      /\ UNCHANGED <<campaign, campStage, baseCache, campRows>>

PublishReport ==
  /\ campStage = "run" /\ AllSummed
  /\ campStage' = "published"
  /\ UNCHANGED <<campaign, baseCache, campRows, campSummaries>>

CampaignInit ==
  /\ campaign \in Campaigns
  /\ campStage = "load"
  /\ baseCache = <<>>
  /\ campRows = <<>>
  /\ campSummaries = <<>>
CampaignNext == LoadCampaign \/ RunCohort \/ RunnerRaises \/ SummarizeArm \/ PublishReport

-----------------------------------------------------------------------------
(* What the campaign promises. *)

\* Every row is measured against the baseline of its own cohort and frictions,
\* however often and in whatever order the kept baseline runs are used.
RowsComparable ==
  \A i \in DOMAIN campRows :
    LET r == campRows[i]
        own == BaseWealth[FALSE][<<r.horizon, r.first>>]
        free == BaseWealth[TRUE][<<r.horizon, r.first>>]
    IN  IF r.arm = campaign.baseline
        THEN r.wealth = own /\ r.freeWealth = free /\ r.ratio = 100
        ELSE r.ratio = Ratio(r.wealth, own) /\ r.freeRatio = Ratio(r.freeWealth, free)

\* A report that is published compares like with like: each arm has one summary
\* a horizon, over all the cohorts of the horizon (a horizon written twice in
\* the definition is run twice).
ReportPaired ==
  campStage = "published" /\ IsInjective(campaign.horizons) =>
    \A h \in ToSet(campaign.horizons), id \in ToSet(ArmIdsOf(campaign)) :
      /\ Cardinality({i \in DOMAIN campSummaries :
            campSummaries[i].arm = id /\ campSummaries[i].horizon = h}) = 1
      /\ LET mine == SelectSeq(campRows, LAMBDA r : r.arm = id /\ r.horizon = h)
         IN  [i \in DOMAIN mine |-> mine[i].first] = CohortsOf(campaign, h)

\* What passes the gate is the operational candidate on the primary horizon,
\* richer than the floor in at least half of the cohorts and below the worst
\* floor in none.
GateEarned ==
  \A i \in DOMAIN campSummaries : campSummaries[i].passes =>
    LET s == campSummaries[i]
        mine == {k \in DOMAIN campRows : campRows[k].made = i}
    IN  /\ s.role = "operational_candidate" /\ s.horizon = campaign.primary
        /\ \A k \in mine : campRows[k].ratio >= campaign.gate.worst
        /\ 2 * Cardinality({k \in mine : campRows[k].ratio > campaign.gate.median}) >= Cardinality(mine)

CampaignHonest == RowsComparable /\ ReportPaired /\ GateEarned

\* The after-tax research rests on rules that always answer with a portfolio
\* they may hold, and on a campaign that compares and judges them fairly.
AfterTaxCampaignSound == RuleTargetsSound /\ CampaignHonest
=============================================================================
