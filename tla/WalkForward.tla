----------------------------- MODULE WalkForward -----------------------------
(***************************************************************************)
(* The walk-forward tournament: time-ordered folds, the train gate that    *)
(* picks the arm a fold is tested with, the process gate over the pooled   *)
(* folds, and the strategy selection that screens the registered arms,     *)
(* runs the kept ones on a pool of workers and recommends one.             *)
(*                                                                         *)
(* A date is a month number and a day; no year of the model is a leap      *)
(* year.  What the runner returns for one arm and one window is a record:  *)
(* real terminal wealth, real contributions, real XIRR and drawdown, the   *)
(* last two in percent.  The certainty equivalents are those of gamma 2.   *)
(***************************************************************************)
EXTENDS Integers, Sequences, FiniteSets, SequencesExt

CONSTANTS
  Arms,            \* the candidates, in registration order
  BaselineArm,     \* the id of the baseline
  Workers,         \* size of the thread pool
  MaxEvaluations,  \* how many candidates are walked forward
  Gains,           \* in-sample real gains
  Objectives,      \* adoption objectives of the experiments
  Hurdle,          \* percent of certainty equivalent required per module
  Modules,         \* complexity of the candidates
  Plans,           \* experiments: start, end and month counts
  Calendars,       \* the plans whose windows alone are examined
  BaseTrain, BaseTest,       \* what the baseline earns, per fold
  TrainResults, TestResults  \* what a candidate may earn, per fold

NoGain == "none"
ASSUME WorkersAssumption == Workers \in Nat \ {0} /\ MaxEvaluations \in Nat \ {0}

\* what the runner returns, with the positive wealth the gates require
Results == [tw : Nat \ {0}, paid : Nat, xirr : Int, mdd : Int]
ASSUME ResultsAssumption ==
  /\ BaseTest \in Seq(Results)
  /\ \A i \in DOMAIN BaseTest : TestResults[i] \subseteq Results
  /\ Hurdle \in Nat /\ Modules \in Nat
ASSUME ArmsAssumption ==
  /\ Arms \in Seq(ToSet(Arms))
  /\ \A i, j \in DOMAIN Arms : Arms[i] = Arms[j] => i = j
  /\ Objectives \subseteq {"adaptive_growth", "compound_growth", "growth_first", "ce"}

-----------------------------------------------------------------------------
(* Dates and windows. *)

MonthLength(m) == <<31, 28, 31, 30, 31, 30, 31, 31, 30, 31, 30, 31>>[(m % 12) + 1]
Before(x, y) == x.m < y.m \/ (x.m = y.m /\ x.d < y.d)
Earlier(x, y) == IF Before(y, x) THEN y ELSE x

AddCalendarMonths(x, n) ==
  [m |-> x.m + n, d |-> IF x.d < MonthLength(x.m + n) THEN x.d ELSE MonthLength(x.m + n)]
InclusiveEnd(start, n) ==
  LET bound == AddCalendarMonths(start, n)
  IN  IF bound.d > 1 THEN [bound EXCEPT !.d = @ - 1]
      ELSE [m |-> bound.m - 1, d |-> MonthLength(bound.m - 1)]

\* the fold that starts n test spans after the experiment does
FoldAtNoGap(p, n) ==
  LET trainStart == AddCalendarMonths(p.start, n * p.test)
      trainEnd   == InclusiveEnd(trainStart, p.train)
      testStart  == AddCalendarMonths(trainEnd, p.embargo)
  IN  [trainStart |-> trainStart, trainEnd |-> trainEnd,
       testStart |-> testStart, testEnd |-> InclusiveEnd(testStart, p.test)]
FoldAt(p, n) ==
  LET trainStart == AddCalendarMonths(p.start, n * p.test)
      trainEnd   == InclusiveEnd(trainStart, p.train)
      testStart  == AddCalendarMonths(trainEnd, p.embargo + 1)
  IN  [trainStart |-> trainStart, trainEnd |-> trainEnd,
       testStart |-> testStart, testEnd |-> InclusiveEnd(testStart, p.test)]

Fits(p, f) ==
  /\ ~Before(p.end, f.testStart)
  /\ p.full => ~Before(p.end, f.testEnd)

WalkForwardWindows(p) ==
  LET last == CHOOSE n \in 0..(p.end.m - p.start.m + 1) :
                /\ \A k \in 0..(n - 1) : Fits(p, FoldAt(p, k))
                /\ ~Fits(p, FoldAt(p, n))
  IN  [i \in 1..last |-> [FoldAt(p, i - 1) EXCEPT !.testEnd = Earlier(@, p.end)]]

\* an experiment ends after it starts, and the baseline has a run for every fold
Experiment(p) ==
  /\ p.start \in [m : Int, d : 1..31] /\ p.end \in [m : Int, d : 1..31]
  /\ ~Before(p.end, p.start)
  /\ p.train \in Nat \ {0} /\ p.test \in Nat \ {0} /\ p.embargo \in Nat /\ p.full \in BOOLEAN
ASSUME PlansAssumption ==
  /\ \A p \in Plans \cup Calendars : Experiment(p)
  /\ \A p \in Plans : Len(WalkForwardWindows(p)) =< Len(BaseTest)

-----------------------------------------------------------------------------
(* The gates. *)

Gain(r) == r.tw - r.paid
Wealth(results) == SumFunctionOnSet([i \in DOMAIN results |-> results[i].tw], DOMAIN results)
Profit(results) == SumFunctionOnSet([i \in DOMAIN results |-> Gain(results[i])], DOMAIN results)

\* terminal wealth, profit and return at once, so inflows alone win nothing
CompoundGrowthTrain(c, b) == c.tw > b.tw /\ Gain(c) > Gain(b) /\ c.xirr >= b.xirr
DrawdownKept(c, b) == c.mdd >= b.mdd - 2
ContributionGrowthTrain(c, b) == CompoundGrowthTrain(c, b) /\ DrawdownKept(c, b)
GrowthFirstTrain(c, b) == c.tw > b.tw /\ DrawdownKept(c, b)

TrainPasses(aim, c, b) ==
  CASE aim = "adaptive_growth" -> ContributionGrowthTrain(c, b)
    [] aim = "compound_growth" -> CompoundGrowthTrain(c, b)
    [] aim = "growth_first"    -> GrowthFirstTrain(c, b)
    [] OTHER -> 100 * c.tw > (100 + Hurdle * Modules) * b.tw

\* the running sum of the wealths' reciprocals, as a fraction <<numerator, denominator>>
AddReciprocal(sum, wealth) == <<sum[1] * wealth + sum[2], sum[2] * wealth>>
Reciprocals(results) ==
  LET sum[n \in 0..Len(results)] ==
        IF n = 0 THEN <<0, 1>> ELSE AddReciprocal(sum[n - 1], results[n].tw)
  IN  sum[Len(results)]
\* the harmonic mean of the wealths, again a fraction
CertaintyEquivalent(results) == <<Len(results) * Reciprocals(results)[2], Reciprocals(results)[1]>>
AdoptionPasses(c, b) == 100 * c[1] * b[2] > (100 + Hurdle * Modules) * b[1] * c[2]

NoFoldBelow(floor, chosen, base) ==
  \A i \in DOMAIN chosen : 100 * chosen[i].tw >= floor * base[i].tw
GrowthFirstProcess(chosen, base) == Wealth(chosen) > Wealth(base) /\ NoFoldBelow(97, chosen, base)
PooledGain(chosen, base) == Wealth(chosen) > Wealth(base) /\ Profit(chosen) > Profit(base)
NoFoldReturnsLess(chosen, base) == \A i \in DOMAIN chosen : chosen[i].xirr >= base[i].xirr
ContributionGrowthProcess(chosen, base) ==
  PooledGain(chosen, base) /\ NoFoldBelow(97, chosen, base) /\ NoFoldReturnsLess(chosen, base)
CompoundGrowthProcess(chosen, base) ==
  PooledGain(chosen, base) /\ NoFoldBelow(95, chosen, base) /\ NoFoldReturnsLess(chosen, base)
ProcessPasses(aim, chosen, base) ==
  CASE aim = "adaptive_growth" -> ContributionGrowthProcess(chosen, base)
    [] aim = "compound_growth" -> CompoundGrowthProcess(chosen, base)
    [] aim = "growth_first"    -> GrowthFirstProcess(chosen, base)
    [] OTHER -> AdoptionPasses(CertaintyEquivalent(chosen), CertaintyEquivalent(base))

-----------------------------------------------------------------------------
(* The tournament. *)

VARIABLES
  plan, objective,  \* the experiment
  phase,            \* "screen", "walk", then "done", "failed" or "refused"
  kept,             \* candidates that survived the in-sample screening
  champion,         \* the best in-sample arm, disclosed and never used
  rows,             \* per candidate, the folds walked so far
  finished,         \* candidates in the order their walks ended
  recommended
tournamentVars == <<plan, objective, phase, kept, champion, rows, finished, recommended>>

ArmIds == ToSet(Arms)
WindowsOf == [p \in Plans |-> WalkForwardWindows(p)]
Windows == WindowsOf[plan]
Position(c) == CHOOSE i \in DOMAIN Arms : Arms[i] = c

TournamentInit ==
  /\ plan \in Plans
  /\ objective \in Objectives
  /\ phase = IF WindowsOf[plan] = <<>> THEN "refused" ELSE "screen"
  /\ kept = {}
  /\ champion = NoGain
  /\ rows = [c \in ArmIds |-> <<>>]
  /\ finished = <<>>
  /\ recommended = NoGain

\* without in-sample runs the first candidates of the list are kept
RankBefore(gain, d, c) ==
  IF gain[d] = gain[c] THEN Position(d) < Position(c) ELSE gain[d] > gain[c]
Screened(gain) == {c \in ArmIds : Cardinality({d \in ArmIds : RankBefore(gain, d, c)}) < MaxEvaluations}
Screen ==
  /\ phase = "screen"
  /\ phase' = "walk"
  /\ \/ /\ champion' = NoGain
        /\ kept' = Screened([c \in ArmIds |-> 0])
     \/ \E gain \in [ArmIds -> Gains] :
          /\ champion' = CHOOSE c \in ArmIds : \A d \in ArmIds \ {c} : RankBefore(gain, c, d)
          /\ kept' = Screened(gain)
  /\ UNCHANGED <<plan, objective, rows, finished, recommended>>

\* tasks are taken in registration order by at most Workers threads
Running == {c \in kept : rows[c] # <<>> /\ Len(rows[c]) < Len(Windows)}
MayWalk(c) ==
  /\ phase = "walk"
  /\ c \in kept
  /\ \/ c \in Running
     \/ /\ rows[c] = <<>>
        /\ Cardinality(Running) < Workers
        /\ \A d \in kept : Position(d) < Position(c) => rows[d] # <<>>

ChosenPeeking(adopted, candidate, base) ==
  IF candidate.tw > base.tw THEN candidate ELSE base
Chosen(adopted, candidate, base) == IF adopted THEN candidate ELSE base

WalkFold(c) ==
  /\ MayWalk(c)
  /\ LET i == Len(rows[c]) + 1
     IN  /\ \E train \in TrainResults[i], test \in TestResults[i] :
              LET adopted == TrainPasses(objective, train, BaseTrain[i])
              IN  rows' = [rows EXCEPT ![c] = Append(@,
                             [adopted |-> adopted, chosen |-> Chosen(adopted, test, BaseTest[i])])]
         /\ finished' = IF i = Len(Windows) THEN Append(finished, c) ELSE finished
  /\ UNCHANGED <<plan, objective, phase, kept, champion, recommended>>

\* an error of one runner is raised again where the futures are collected
RunnerFails(c) ==
  /\ MayWalk(c)
  /\ phase' = "failed"
  /\ UNCHANGED <<plan, objective, kept, champion, rows, finished, recommended>>

ChosenTest(c) == [i \in DOMAIN rows[c] |-> rows[c][i].chosen]
BaselineTest == [i \in DOMAIN Windows |-> BaseTest[i]]
Adopted(c) == c \in kept /\ ProcessPasses(objective, ChosenTest(c), BaselineTest)

\* the first of the arms with the largest pooled out-of-sample gain
SelectRecommendedArm(order) ==
  LET eligible == {i \in DOMAIN order : Adopted(order[i])}
      gain == [i \in eligible |-> Profit(ChosenTest(order[i]))]
  IN  IF eligible = {} THEN BaselineArm
      ELSE order[CHOOSE i \in eligible :
                   \A j \in eligible \ {i} : gain[j] < gain[i] \/ (gain[j] = gain[i] /\ i < j)]
RecommendByArrival ==
  /\ phase = "walk"
  /\ ToSet(finished) = kept
  /\ phase' = "done"
  /\ recommended' = SelectRecommendedArm(finished)
  /\ UNCHANGED <<plan, objective, kept, champion, rows, finished>>

Recommend ==
  /\ phase = "walk"
  /\ ToSet(finished) = kept
  /\ phase' = "done"
  /\ recommended' = SelectRecommendedArm(Arms)
  /\ UNCHANGED <<plan, objective, kept, champion, rows, finished>>

TournamentNext == Screen \/ Recommend \/ \E c \in ArmIds : WalkFold(c) \/ RunnerFails(c)
TournamentSpec == TournamentInit /\ [][TournamentNext]_tournamentVars

-----------------------------------------------------------------------------
(* What the tournament promises. *)

\* No fold looks ahead: its evidence ends in a calendar month before the one
\* its test begins in, the tests follow one another inside the experiment, and
\* no day is tested twice when every month has the day the experiment starts on
\* and the day before it (otherwise the clamped ends may meet for some days).
WindowsAhead(p) ==
  LET w == WalkForwardWindows(p)
  IN  \A i \in DOMAIN w :
        /\ w[i].trainEnd.m < w[i].testStart.m
        /\ ~Before(w[i].testEnd, w[i].testStart)
        /\ ~Before(p.end, w[i].testEnd)
        /\ i > 1 => Before(w[i - 1].testStart, w[i].testStart)
        /\ i > 1 /\ p.start.d \in 2..28 => Before(w[i - 1].testEnd, w[i].testStart)

CalendarsAhead == \A p \in Calendars : WindowsAhead(p)

\* An arm that is adopted earned it out of sample: some fold whose training
\* chose the candidate made it richer than the baseline, no fold gave up more
\* than the objective's floor, and where capital counts its profit is larger too.
AdoptionEarned ==
  \A c \in ToSet(finished) : Adopted(c) =>
    /\ \E i \in DOMAIN rows[c] : rows[c][i].adopted /\ rows[c][i].chosen.tw > BaseTest[i].tw
    /\ \A i \in DOMAIN rows[c] : rows[c][i].adopted \/ rows[c][i].chosen = BaseTest[i]
    /\ objective # "ce" =>
         \A i \in DOMAIN rows[c] : 20 * rows[c][i].chosen.tw >= 19 * BaseTest[i].tw
    /\ objective \in {"adaptive_growth", "compound_growth"} =>
         Profit(ChosenTest(c)) > Profit(BaselineTest)

\* Whatever order the workers finish in, the recommendation is the adopted arm
\* of largest pooled gain, the earliest registered among equals, and it is the
\* baseline when none was adopted.
RecommendationStable ==
  phase = "done" =>
    LET eligible == {c \in kept : Adopted(c)}
    IN  IF eligible = {} THEN recommended = BaselineArm
        ELSE /\ recommended \in eligible
             /\ \A c \in eligible \ {recommended} :
                  LET own == Profit(ChosenTest(c))
                      best == Profit(ChosenTest(recommended))
                  IN  own < best \/ (own = best /\ Position(recommended) < Position(c))

\* The walk-forward tournament never looks ahead, adopts only what earned it
\* and recommends the same arm under every schedule of its workers.
TournamentHonest ==
  /\ CalendarsAhead
  /\ AdoptionEarned
  /\ RecommendationStable
=============================================================================
