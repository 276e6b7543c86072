------------------------ MODULE HistoricalCampaign ------------------------
(***************************************************************************)
(* The final historical campaign: frozen arms are run over rolling cohorts *)
(* of a window resolved from the catalog, compared cohort by cohort with   *)
(* the baseline, stressed, and reported with the regimes they cover.       *)
(*                                                                         *)
(* Wealths are whole numbers and ratios percents.  What the simulator      *)
(* returns for a cohort is an input; whether it can run a window at all    *)
(* follows from the catalog.  Bootstrap, certainty equivalents and the     *)
(* census of trials are left out.                                          *)
(***************************************************************************)
EXTENDS DecisionSchedule, Sequences, SequencesExt, FiniteSets, FiniteSetsExt

CONSTANTS
  Specs,      \* [start, end, horizon, step], months for the last two
  Coverages,  \* [listed : ticker -> first session or 0, fx, cpi : first observation or 0,
              \*  last : session, trusted : BOOLEAN]
  CpiLag,     \* sessions from an observation to its release
  SeenHistoryCutoff, AllocationMinStart, MinCohorts,
  DefaultHorizon, DefaultStep,
  ArmCount,   \* the baseline and the candidates
  Outcomes,   \* wealths of the cohorts of an arm, 0 for what is not positive
  StressOutcomes, \* wealths of the cost scenarios, the ideal one first
  Regimes     \* [start, end]

VARIABLES
  spec, coverage,
  fate,       \* new, running, reported, refused, failed
  resolved,   \* [start, end, cohorts]
  wealths,    \* arm by arm, those evaluated so far
  armRows,    \* [median, p10, worst, wins, stress]
  regimeRows  \* [tiers, warning]

historyVars == <<spec, coverage, fate, resolved, wealths, armRows, regimeRows>>

HistoryInit ==
  /\ spec \in Specs /\ coverage \in Coverages
  /\ fate = "new" /\ resolved = [start |-> 0, end |-> 0, cohorts |-> <<>>]
  /\ wealths = <<>> /\ armRows = <<>> /\ regimeRows = [tiers |-> <<>>, warning |-> FALSE]

-----------------------------------------------------------------------------
(* The window *)

Sleeves == DOMAIN coverage.listed
Listed == \A t \in Sleeves : coverage.listed[t] > 0
UsableFirsts == {coverage.listed[t] : t \in Sleeves} \cup ({coverage.fx, coverage.cpi} \ {0})

\* Mutant: only the tickers bound the start.
ResolvedStartTickers == Max({AllocationMinStart} \cup {coverage.listed[t] : t \in Sleeves})
ResolvedStart == Max({AllocationMinStart} \cup UsableFirsts)
\* Mutant: the catalog may lead past what has been seen.
ResolvedEndCatalog == Max({spec.end, coverage.last})
\* at most the history already seen, even where the catalog has more
ResolvedEnd ==
  Max({Min({spec.end, SeenHistoryCutoff}), Min({coverage.last, SeenHistoryCutoff})})

\* rolling_cohorts: whole horizons only
CohortsOf(start, end, horizon, step) ==
  LET Cohort(k) == <<start + k * step * MonthLength,
                     start + (k * step + horizon) * MonthLength - 1>>
      fitting == {k \in 0 .. end : Cohort(k)[2] <= end}
  IN  [k \in 1 .. Cardinality(fitting) |-> Cohort(k - 1)]

Standard == spec.horizon = DefaultHorizon /\ spec.step = DefaultStep
\* A catalog that cannot be read leaves the window of the specification.
FromCatalog == Standard /\ coverage.trusted /\ Listed
ResolveWindow ==
  LET start == IF FromCatalog THEN ResolvedStart ELSE spec.start
      end == IF FromCatalog THEN ResolvedEnd ELSE Min({spec.end, SeenHistoryCutoff})
  IN  [start |-> start, end |-> end, cohorts |-> CohortsOf(start, end, spec.horizon, spec.step)]

Resolve ==
  /\ fate = "new"
  /\ resolved' = ResolveWindow
  /\ fate' = IF \/ spec.end > SeenHistoryCutoff
                \/ Len(resolved'.cohorts) < (IF Standard THEN MinCohorts ELSE 1)
             THEN "refused" ELSE "running"
  /\ UNCHANGED <<spec, coverage, wealths, armRows, regimeRows>>

-----------------------------------------------------------------------------
(* The arms *)

FirstFill(w) == Fill(Min(MonthEndSessions(w[1], w[2])))
FinalFill(w) == Fill(Max(MonthEndSessions(w[1], w[2])))

\* The simulator needs every mark and a released CPI from the first fill on.
Runnable(w) ==
  /\ coverage.trusted /\ Listed
  /\ \A t \in Sleeves : coverage.listed[t] <= FirstFill(w)
  /\ coverage.fx > 0 /\ coverage.fx <= FirstFill(w)
  /\ coverage.cpi > 0 /\ coverage.cpi + CpiLag <= FirstFill(w)
  /\ FinalFill(w) <= coverage.last

\* Mutant: ranked from the best down, without interpolation.
QuantileRank(ratios, n) == 10 * SortSeq(ratios, >)[((n * (Len(ratios) - 1)) \div 10) + 1]
\* wealth_quantile at n tenths, in tenths of a percent
Quantile(ratios, n) ==
  LET ordered == SortSeq(ratios, <)
      position == n * (Len(ratios) - 1)
      k == (position \div 10) + 1
      above == ordered[Min({k + 1, Len(ratios)})]
  IN  (10 * ordered[k]) + ((position % 10) * (above - ordered[k]))

\* _stress_worst_ratio: scenarios without a positive wealth are passed over
StressWorst(w) ==
  IF w[1] = 0 THEN 100
  ELSE Min({(100 * w[k]) \div w[1] : k \in {j \in DOMAIN w : w[j] > 0}})

ArmRow(arm, mine, stress) ==
  LET base == IF wealths = <<>> THEN mine ELSE wealths[1]
      ratios == [k \in DOMAIN mine |-> (100 * mine[k]) \div base[k]]
  IN  IF arm = 1
      THEN [median |-> 1000, p10 |-> 1000, worst |-> 100, wins |-> Len(mine), stress |-> stress]
      ELSE [median |-> Quantile(ratios, 5), p10 |-> Quantile(ratios, 1),
            worst |-> Min(ToSet(ratios)), stress |-> stress,
            wins |-> Cardinality({k \in DOMAIN mine : mine[k] > base[k]})]

NextArm == Len(armRows) + 1
\* Every arm runs its cohorts and then the specification's own window, whole and
\* under every scenario.
ArmRuns == (\A k \in DOMAIN resolved.cohorts : Runnable(resolved.cohorts[k])) /\ Runnable(<<spec.start, spec.end>>)

EvaluateArm ==
  /\ fate = "running" /\ NextArm <= ArmCount /\ ArmRuns
  /\ \E outcome \in Outcomes, stress \in StressOutcomes :
       LET mine == SubSeq(outcome, 1, Len(resolved.cohorts)) IN
       IF \A k \in DOMAIN mine : mine[k] > 0
       THEN /\ wealths' = Append(wealths, mine)
            /\ armRows' = Append(armRows, ArmRow(NextArm, mine, StressWorst(stress)))
            /\ UNCHANGED fate
       ELSE fate' = "failed" /\ UNCHANGED <<wealths, armRows>>
  /\ UNCHANGED <<spec, coverage, resolved, regimeRows>>

ArmFails ==
  /\ fate = "running" /\ NextArm <= ArmCount /\ ~ArmRuns
  /\ fate' = "failed"
  /\ UNCHANGED <<spec, coverage, resolved, wealths, armRows, regimeRows>>

-----------------------------------------------------------------------------
(* The regimes *)

MonthsBetween(start, end) == IF start > end THEN 0 ELSE MonthOf(end) - MonthOf(start) + 1
Overlap(w, regime) == MonthsBetween(Max({w[1], regime.start}), Min({w[2], regime.end}))
Tier(overlap, duration) ==
  CASE 10 * overlap >= 9 * duration -> "full"
    [] 10 * overlap >= 5 * duration /\ 10 * overlap < 9 * duration -> "substantial"
    [] overlap > 0 /\ 10 * overlap < 5 * duration -> "partial"
    [] OTHER -> "none"

\* Mutant: the cohorts are taken together.
BestOverlapSum(regime) == MapThenSumSet(LAMBDA k : Overlap(resolved.cohorts[k], regime), DOMAIN resolved.cohorts)
BestOverlap(regime) == Max({Overlap(resolved.cohorts[k], regime) : k \in DOMAIN resolved.cohorts})

\* Mutant: the horizon is taken for the months it touches.
SampleWarningNominal(cohorts) == Len(cohorts) = 1 \/ spec.step < spec.horizon
\* judged from the first two cohorts
SampleWarning(cohorts) ==
  \/ Len(cohorts) = 1
  \/ /\ Len(cohorts) >= 2
     /\ MonthOf(cohorts[2][1]) - MonthOf(cohorts[1][1]) < MonthsBetween(cohorts[1][1], cohorts[1][2])

Report ==
  /\ fate = "running" /\ NextArm > ArmCount
  /\ regimeRows' = [tiers |-> [r \in DOMAIN Regimes |->
                                 Tier(BestOverlap(Regimes[r]), MonthsBetween(Regimes[r].start, Regimes[r].end))],
                    warning |-> SampleWarning(resolved.cohorts)]
  /\ fate' = "reported"
  /\ UNCHANGED <<spec, coverage, resolved, wealths, armRows>>

HistoryNext == Resolve \/ EvaluateArm \/ ArmFails \/ Report
HistorySpec == HistoryInit /\ [][HistoryNext]_historyVars

-----------------------------------------------------------------------------
(* Properties *)

\* No cohort reaches past the history already seen; a window taken from the
\* catalog gives every cohort but one that ends with the catalog all it needs to
\* run, provided USD/KRW has rows and the CPI is out by the earliest start
\* allowed (resolve_final_campaign_window).
WindowRuns == fate \notin {"new", "refused"} =>
  \A k \in DOMAIN resolved.cohorts :
    LET w == resolved.cohorts[k] IN
    /\ resolved.start <= w[1] /\ w[2] <= SeenHistoryCutoff
    /\ /\ FromCatalog /\ coverage.fx > 0 /\ coverage.cpi > 0
       /\ coverage.cpi + CpiLag <= Fill(AllocationMinStart) /\ FinalFill(w) <= coverage.last
       => Runnable(w)

\* A row orders its quantiles, an arm that wins every cohort has no ratio below
\* one and one whose worst ratio is above one wins every cohort, and no stress
\* beats the ideal it is measured against (_compute_arm_metrics).
RowsCohere == \A a \in DOMAIN armRows :
  LET row == armRows[a] IN
  /\ 10 * row.worst <= row.p10 /\ row.p10 <= row.median
  /\ row.wins = Len(resolved.cohorts) => row.worst >= 100
  /\ row.worst > 100 => row.wins = Len(resolved.cohorts)
  /\ row.stress <= 100

\* A regime is fully covered only if one cohort lives through it, and untouched
\* only if none does; without a warning no two cohorts share a month
\* (audit_regime_coverage).
RegimesHonest == fate = "reported" =>
  LET MonthsLived(w, r) == {m \in MonthOf(r.start) .. MonthOf(r.end) : MonthOf(w[1]) <= m /\ m <= MonthOf(w[2])} IN
  /\ \A r \in DOMAIN Regimes :
       LET lived == {Cardinality(MonthsLived(resolved.cohorts[k], Regimes[r])) : k \in DOMAIN resolved.cohorts}
           duration == MonthsBetween(Regimes[r].start, Regimes[r].end)
       IN  /\ regimeRows.tiers[r] = "full" => 10 * Max(lived) >= 9 * duration
           /\ regimeRows.tiers[r] = "none" <=> Max(lived) = 0
  /\ ~regimeRows.warning =>
       \A j, k \in DOMAIN resolved.cohorts : j < k =>
         MonthOf(resolved.cohorts[j][2]) < MonthOf(resolved.cohorts[k][1])

HistorySound == WindowRuns /\ RowsCohere /\ RegimesHonest
=============================================================================
