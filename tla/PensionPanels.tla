---------------------------- MODULE PensionPanels ----------------------------
(***************************************************************************)
(* The monthly evidence of a pension decision: prices and research returns *)
(* appear day by day, the panel of a decision instant is built from what   *)
(* was visible then, late-listed sleeves prefixed by a blend of research   *)
(* series, and rolling cohorts of yearly contributions compound over it.   *)
(*                                                                         *)
(* A month has two days, its middle and its end.  Returns are growth in    *)
(* halves, weights are parts of Whole and a contribution is Unit, a number *)
(* the arithmetic divides exactly.                                         *)
(***************************************************************************)
EXTENDS Integers, Sequences, FiniteSets, FiniteSetsExt, SequencesExt, Functions

CONSTANTS
  Sleeves, Candidates,  \* the sleeves a selectable schedule holds
  Proxies,              \* research series
  Rules,                \* spliced sleeve -> [first, weights]
  ListedFrom,           \* sleeve -> its first session
  Closes,               \* what a month may end at, 0 for no trade
  MidClose,             \* what its middle trades at
  Reports, ReportedMonths, \* what research may say of a month: [growth, lag]
  ModernStart, DecisionMonths, \* months a panel may end in
  LastMonth,            \* the last month to be published
  MonthsPerYear, CohortYears, StepMonths, PreRetirementMonths,
  Whole, Schedules,     \* a sequence of [start, end, glide]
  Keep,                 \* sleeve -> halves left by a month of drag
  Unit, BlockMonths, HorizonMonths,
  NoPanel, Refused

PanelDays == 0 .. 2 * LastMonth + 1
MonthOf(d) == d \div 2
MonthEnd(m) == 2 * m + 1

ASSUME RulesAssumption ==
  /\ Candidates \subseteq Sleeves /\ DOMAIN Rules \subseteq Sleeves
  /\ \A s \in DOMAIN Rules : MapThenSumSet(LAMBDA p : Rules[s].weights[p], DOMAIN Rules[s].weights) = Whole
ASSUME ScheduleAssumption == \A n \in DOMAIN Schedules :
  /\ DOMAIN Schedules[n].start = DOMAIN Schedules[n].end
  /\ \A w \in {Schedules[n].start, Schedules[n].end} : MapThenSumSet(LAMBDA s : w[s], DOMAIN w) = Whole

VARIABLES
  today, prices, research,   \* what has been published
  modern, realized,        \* panels: [asOf, months, growth], NoPanel or Refused
  current,                 \* [month, held, values]: cohorts of the next schedule
  paths,                   \* by schedule, start -> [values, terminal, drawdown, pre]
  draws                    \* months drawn for a bootstrap path

dataVars == <<today, prices, research>>
panelsVars == <<dataVars, modern, realized, current, paths, draws>>

PanelsInit ==
  /\ today = -1 /\ prices = {} /\ research = {}
  /\ modern = NoPanel /\ realized = NoPanel
  /\ current = NoPanel /\ paths = <<>> /\ draws = <<>>

-----------------------------------------------------------------------------
(* What is published *)

Traded(d, close) == {[ticker |-> s, date |-> d, close |-> close[s], at |-> d] :
                       s \in {s \in Sleeves : ListedFrom[s] <= d /\ close[s] > 0}}
Reported(m, report) == {[series |-> p, month |-> m, growth |-> report.growth[p], at |-> MonthEnd(m) + report.lag] :
                          p \in Proxies}
Publish ==
  /\ paths = <<>> /\ current = NoPanel /\ draws = <<>>
  /\ today + 1 \in PanelDays
  /\ today' = today + 1
  /\ IF today' = MonthEnd(MonthOf(today'))
     THEN /\ \E close \in Closes : prices' = prices \cup Traded(today', close)
          /\ IF MonthOf(today') \in ReportedMonths
             THEN \E report \in Reports : research' = research \cup Reported(MonthOf(today'), report)
             ELSE UNCHANGED research
     ELSE prices' = prices \cup Traded(today', MidClose) /\ UNCHANGED research
  /\ UNCHANGED <<modern, realized, current, paths, draws>>

-----------------------------------------------------------------------------
(* The panel of a decision instant *)

VisibleAtHasty(rows, asOf) == rows
VisibleAt(rows, asOf) == {r \in rows : r.at <= asOf}

TargetsInRange(start, end) == [i \in 1 .. end - start + 1 |-> start + i - 1]

\* the close of the last session of a month, 0 when it has none
LastClose(rows, s, m) ==
  LET own == {r \in rows : r.ticker = s /\ MonthOf(r.date) = m}
  IN  IF own = {} THEN 0 ELSE (CHOOSE r \in own : \A q \in own : q.date <= r.date).close

PanelFromPrices(held, asOf, start, end) ==
  LET rows == VisibleAt(prices, asOf)
      close == [s \in held |-> [m \in start - 1 .. end |-> LastClose(rows, s, m)]]
  IN  IF \E s \in held : \E m \in start - 1 .. end : close[s][m] = 0 THEN Refused
      ELSE [asOf |-> asOf, months |-> TargetsInRange(start, end),
            growth |-> [s \in held |-> [m \in start .. end |-> (2 * close[s][m]) \div close[s][m - 1]]]]

ProxyCell(rows, p, m) == {r \in rows : r.series = p /\ r.month = m}
Blend(rows, rule, m) ==
  MapThenSumSet(LAMBDA p : rule.weights[p] * (CHOOSE r \in ProxyCell(rows, p, m) : TRUE).growth,
                DOMAIN rule.weights) \div Whole

SpliceModernPanel(asOf, start, end) ==
  LET rows == VisibleAt(research, asOf)
      plain == Sleeves \ DOMAIN Rules
      base == PanelFromPrices(plain, asOf, start, end)
      own == [s \in DOMAIN Rules |-> PanelFromPrices({s}, asOf, Rules[s].first, end)]
      known == \A s \in DOMAIN Rules : \A p \in DOMAIN Rules[s].weights :
                 \A m \in start .. Rules[s].first - 1 : ProxyCell(rows, p, m) # {}
  IN  IF \/ \E s \in DOMAIN Rules : ~(start < Rules[s].first /\ Rules[s].first <= end)
         \/ base = Refused \/ \E s \in DOMAIN Rules : own[s] = Refused
      THEN Refused
      ELSE IF ~known THEN Refused
      ELSE [asOf |-> asOf, months |-> TargetsInRange(start, end),
            growth |-> [s \in Sleeves |-> IF s \in plain THEN base.growth[s]
                        ELSE [m \in start .. end |-> IF m < Rules[s].first THEN Blend(rows, Rules[s], m)
                                                     ELSE own[s].growth[s][m]]]]

RealizedWindowStartAny(held) == Max({ModernStart} \cup {Rules[s].first : s \in DOMAIN Rules})
RealizedWindowStartPlain(held) == ModernStart
RealizedWindowStart(held) == Max({ModernStart} \cup {Rules[s].first : s \in DOMAIN Rules \cap held})

\* The decision instant is the end of its last month.
BuildPanels == \E end \in DecisionMonths :
  /\ modern = NoPanel /\ MonthEnd(end) <= today
  /\ modern' = SpliceModernPanel(MonthEnd(end), ModernStart, end)
  /\ realized' = IF modern' = Refused THEN Refused
                 ELSE PanelFromPrices(Candidates, MonthEnd(end), RealizedWindowStart(Candidates), end)
  /\ UNCHANGED <<dataVars, current, paths, draws>>

-----------------------------------------------------------------------------
(* Cohorts *)

Built == modern \notin {NoPanel, Refused}
PanelLength == Len(modern.months)
Horizon == CohortYears * MonthsPerYear
Starts == {k \in 0 .. PanelLength - Horizon : k % StepMonths = 0}

WeightsForYear(sched, year) ==
  LET holdLast == CohortYears - sched.glide - 1 IN
  IF sched.glide = 0 \/ CohortYears = 1 \/ year <= holdLast THEN sched.start
  ELSE [s \in DOMAIN sched.start |->
          ((sched.glide - (year - holdLast)) * sched.start[s] + (year - holdLast) * sched.end[s]) \div sched.glide]

SumOf(f) == MapThenSumSet(LAMBDA x : f[x], DOMAIN f)

BeginSchedule ==
  /\ Built /\ current = NoPanel /\ draws = <<>> /\ Len(paths) < Len(Schedules)
  /\ Horizon <= PanelLength /\ PreRetirementMonths <= Horizon
  /\ LET sched == Schedules[Len(paths) + 1] IN
     /\ sched.glide <= CohortYears
     /\ current' = [month |-> 0, held |-> [k \in Starts |-> [s \in DOMAIN sched.start |-> 0]],
                    values |-> [k \in Starts |-> <<>>]]
  /\ UNCHANGED <<dataVars, modern, realized, paths, draws>>

\* A year opens with one contribution and a rebalance of the whole account.
RebalancedIdle(held, weights) == [s \in DOMAIN held |-> held[s] + (Unit * weights[s]) \div Whole]
Rebalanced(held, weights) == [s \in DOMAIN held |-> ((SumOf(held) + Unit) * weights[s]) \div Whole]
Compounded(held, index) ==
  [s \in DOMAIN held |-> (held[s] * modern.growth[s][modern.months[index + 1]] * Keep[s]) \div 4]

CompoundMonth ==
  /\ current # NoPanel /\ current.month < Horizon
  /\ LET m == current.month
         year == m \div MonthsPerYear
         opened == [k \in Starts |-> IF m % MonthsPerYear = 0
                                     THEN Rebalanced(current.held[k], WeightsForYear(Schedules[Len(paths) + 1], year))
                                     ELSE current.held[k]]
         held == [k \in Starts |-> Compounded(opened[k], k + m)]
     IN  current' = [current EXCEPT !.month = m + 1, !.held = held,
                       !.values = [k \in Starts |-> Append(@[k], SumOf(held[k]))]]
  /\ UNCHANGED <<dataVars, modern, realized, paths, draws>>

\* A fall is the pair of a value and the peak before it; the deeper of two is
\* the one that keeps less of its peak.
Deeper(a, b) == IF a[1] * b[2] < b[1] * a[2] THEN a ELSE b
Falls(values) == [i \in DOMAIN values |-> <<values[i], Max({values[j] : j \in 1 .. i})>>]
Deepest(falls) == FoldLeft(Deeper, <<1, 1>>, falls)
PreRetirementFallsAnew(values) == Falls(SubSeq(values, Horizon - PreRetirementMonths + 1, Horizon))
PreRetirementFalls(values) == SubSeq(Falls(values), Horizon - PreRetirementMonths + 1, Horizon)

FinishSchedule ==
  /\ current # NoPanel /\ current.month = Horizon
  /\ paths' = Append(paths, [k \in Starts |->
       [values |-> current.values[k], terminal |-> Last(current.values[k]),
        drawdown |-> Deepest(Falls(current.values[k])),
        pre |-> Deepest(PreRetirementFalls(current.values[k]))]])
  /\ current' = NoPanel
  /\ UNCHANGED <<dataVars, modern, realized, draws>>

-----------------------------------------------------------------------------
(* A bootstrap path: blocks of whole months until the horizon is filled *)

LatestBlockStartPast == PanelLength - 1
LatestBlockStart == PanelLength - BlockMonths

DrawBlock ==
  /\ Built /\ paths = <<>> /\ current = NoPanel
  /\ BlockMonths <= PanelLength /\ HorizonMonths <= PanelLength
  /\ Len(draws) < HorizonMonths
  /\ \E b \in 0 .. LatestBlockStart :
       draws' = draws \o [i \in 1 .. Min({BlockMonths, PanelLength - b}) |-> b + i - 1]
  /\ UNCHANGED <<dataVars, modern, realized, current, paths>>

PanelsNext ==
  \/ Publish \/ BuildPanels \/ BeginSchedule
  \/ CompoundMonth \/ FinishSchedule \/ DrawBlock
PanelsSpec == PanelsInit /\ [][PanelsNext]_panelsVars

-----------------------------------------------------------------------------
(* Properties *)

\* A panel rests on nothing that was not available at its decision instant:
\* every month of it had a close, and every proxy month a report, by then
\* (_visible_at, _visible_proxy_cells), however late it is built.
NoLookAhead == Built => \A s \in Sleeves, m \in Range(modern.months) :
  IF s \in DOMAIN Rules /\ m < Rules[s].first
  THEN \A p \in DOMAIN Rules[s].weights : \E r \in ProxyCell(research, p, m) : r.at <= modern.asOf
  ELSE \E r \in prices : r.ticker = s /\ MonthOf(r.date) = m /\ r.at <= modern.asOf

\* The realized tier is the tail of the modern tier for every selectable
\* sleeve: no month of it is a proxy, and none is lost to a control sleeve.
RealizedIsModernTail == Built =>
  /\ realized # Refused
  /\ Last(realized.months) = Last(modern.months)
  /\ \A s \in Candidates, m \in Range(realized.months) : realized.growth[s][m] = modern.growth[s][m]
  /\ \A m \in Range(modern.months) \ Range(realized.months) :
       \E s \in Candidates : s \in DOMAIN Rules /\ m < Rules[s].first

\* Growth of a schedule's mix over the year that starts at an index, in parts
\* of YearBase.
YearGrowth(sched, year, from) ==
  LET w == WeightsForYear(sched, year)
      ofSleeve(s) == FoldLeft(LAMBDA acc, i : acc * modern.growth[s][modern.months[from + i]] * Keep[s],
                              1, [i \in 1 .. MonthsPerYear |-> i])
  IN  MapThenSumSet(LAMBDA s : w[s] * ofSleeve(s), DOMAIN w)
YearBase == Whole * 4 ^ MonthsPerYear

\* A cohort ends with every contribution grown by the years it was in: the
\* rebalance neither makes nor loses money, and the cohorts of all schedules
\* share their months.
TerminalExplained == \A n \in DOMAIN paths : \A k \in DOMAIN paths[n] :
  paths[n][k].terminal =
    FoldLeft(LAMBDA acc, y : ((acc + Unit) * YearGrowth(Schedules[n], y - 1, k + (y - 1) * MonthsPerYear)) \div YearBase,
             0, [y \in 1 .. CohortYears |-> y])

\* The fall before retirement is measured from the peak of the whole cohort, so
\* it is never deeper than the whole cohort's, and it is a fall of its tail.
DrawdownsNest == \A n \in DOMAIN paths : \A k \in DOMAIN paths[n] :
  LET p == paths[n][k] IN
  /\ p.pre[1] * p.drawdown[2] >= p.drawdown[1] * p.pre[2]
  /\ \A j \in Horizon - PreRetirementMonths + 1 .. Horizon, i \in 1 .. Horizon :
       i <= j => p.values[j] * p.pre[2] >= p.pre[1] * p.values[i]

\* A glide holds its first mix, ends on its last one and is a mix all along.
GlidesLand == \A n \in DOMAIN Schedules :
  LET sched == Schedules[n]
      w(y) == WeightsForYear(sched, y) IN
  sched.glide <= CohortYears =>
    /\ \A y \in 0 .. CohortYears - 1 : SumOf(w(y)) = Whole
    /\ sched.glide > 0 /\ CohortYears > 1 => w(CohortYears - 1) = sched.end
    /\ sched.glide < CohortYears => w(0) = sched.start

\* A path is made of whole blocks of source months.
BlocksWhole == \A i \in DOMAIN draws :
  /\ draws[i] \in 0 .. PanelLength - 1
  /\ i % BlockMonths # 0 /\ i < Len(draws) => draws[i + 1] = draws[i] + 1

PanelsSound == NoLookAhead /\ RealizedIsModernTail /\ TerminalExplained /\ DrawdownsNest /\ GlidesLand /\ BlocksWhole
=============================================================================
