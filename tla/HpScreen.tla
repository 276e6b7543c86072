------------------------------ MODULE HpScreen ------------------------------
(***************************************************************************)
(* The screen of the adaptive contribution's parameters.  The runner is    *)
(* built once, from one catalog snapshot, so what it answers for a point   *)
(* of the parameter grid is a function, the landscape.  A grid around the  *)
(* operational point is evaluated by a pool of threads; from its best      *)
(* point a climb moves along one axis after another, in three rounds of    *)
(* halved steps, within one budget of evaluations.  The screen reports a   *)
(* champion and unlocks nothing.                                           *)
(*                                                                         *)
(* An axis counts in parts small enough that two halvings of its step are  *)
(* whole (the code compares axes rounded to four decimals); a ratio of     *)
(* pooled terminal wealth is in percent of the operational point's.        *)
(***************************************************************************)
EXTENDS Integers, Sequences, SequencesExt, FiniteSets

CONSTANTS
  AxisCount,           \* tuned parameters; the others are locked
  Low, High, Operational, Delta, \* per axis: bounds, the point in use, the first step
  Landscapes,          \* what a runner may answer: per market, point -> outcome
  Contributions, Evaluations, Threads \* what a caller may ask for

Axes == 1 .. AxisCount
Points ==
  {p \in [Axes -> UNION {Low[a] .. High[a] : a \in Axes}] : \A a \in Axes : p[a] \in Low[a] .. High[a]}
Outcomes == [adopted : BOOLEAN, finite : BOOLEAN, ratio : Int]

ASSUME AxesAssumption ==
  /\ AxisCount \in Nat \ {0}
  /\ Low \in [Axes -> Int] /\ High \in [Axes -> Int] /\ Delta \in [Axes -> Nat \ {0}]
  /\ Operational \in Points
  /\ \A a \in Axes : Delta[a] % 4 = 0
ASSUME LandscapesAssumption ==
  \A m \in DOMAIN Landscapes : \A p \in Points : Landscapes[m][p] \in Outcomes
ASSUME RequestsAssumption == Contributions \subseteq Int /\ Evaluations \subseteq Int /\ Threads \subseteq Int

VARIABLES
  wanted,     \* the request: contribution, evaluations, threads
  market,     \* the one whose datasets the runner holds
  screening,      \* "asked", "grid", "climb", "done", "refused" or "failed"
  arrived,    \* places of the grid in the order their evaluations ended
  tried,      \* the points of the report's rows, in order
  spot,       \* where the climb stands
  halvings, axis, opened, \* the round, the axis it is at and whether that is open
  untried,    \* neighbours of the spot still to evaluate on this axis
  lead,       \* the best of them so far, or the spot
  improved,   \* the round has moved
  winner      \* the champion's point
hpVars == <<wanted, market, screening, arrived, tried, spot, halvings, axis, opened, untried, lead,
            improved, winner>>
climbVars == <<spot, halvings, axis, opened, untried, lead, improved>>

NoPoint == <<>>
Clip(a, v) == IF v < Low[a] THEN Low[a] ELSE IF v > High[a] THEN High[a] ELSE v

\* the order the rows of equal ratio are sorted in
Smaller(p, q) == \E a \in Axes : p[a] < q[a] /\ \A b \in 1 .. a - 1 : p[b] = q[b]

\* the points around the operational one, which comes first
GridValues(a) == {Clip(a, Operational[a] + k * Delta[a]) : k \in {-1, 0, 1}}
GridPoints == {p \in Points : \A a \in Axes : p[a] \in GridValues(a)}
GridBefore(p, q) == q # Operational /\ (p = Operational \/ Smaller(p, q))
Grid ==
  [i \in 1 .. Cardinality(GridPoints) |->
     CHOOSE p \in GridPoints : Cardinality({q \in GridPoints : GridBefore(q, p)}) = i - 1]
Batch == SubSeq(Grid, 1, IF Len(Grid) < wanted.evaluations THEN Len(Grid) ELSE wanted.evaluations)

Answer(p) == Landscapes[market][p]
Eligible(p) == Answer(p).adopted /\ Answer(p).finite /\ Answer(p).ratio > 100
EligibleOf(points) == {p \in ToSet(points) : Eligible(p)}
Better(p, q) ==
  \/ Answer(p).ratio > Answer(q).ratio
  \/ Answer(p).ratio = Answer(q).ratio /\ Smaller(p, q)
BestOf(S) == CHOOSE p \in S : \A q \in S \ {p} : Better(p, q)

HpInit ==
  /\ wanted \in [contribution : Contributions, evaluations : Evaluations, threads : Threads]
  /\ market \in DOMAIN Landscapes
  /\ screening = "asked"
  /\ arrived = <<>> /\ tried = <<>>
  /\ spot = Operational /\ halvings = 0 /\ axis = 1 /\ opened = FALSE
  /\ untried = <<>> /\ lead = Operational /\ improved = FALSE
  /\ winner = NoPoint

\* The request is refused, or the datasets do not load, or the runs of the
\* baseline fail; else the runner is ready.
Allowed == wanted.contribution > 0 /\ wanted.evaluations >= 1 /\ wanted.threads >= 1
BuildRunner ==
  /\ screening = "asked"
  /\ \/ ~Allowed /\ screening' = "refused"
     \/ wanted.contribution > 0 /\ screening' = "failed"
     \/ Allowed /\ screening' = "grid"
  /\ UNCHANGED <<wanted, market, arrived, tried, climbVars, winner>>

\* The pool starts the points in order and runs as many as it has threads.
Unfinished == (1 .. Len(Batch)) \ ToSet(arrived)
Started(i) == Cardinality({j \in Unfinished : j < i}) < wanted.threads
EvaluationEnds(i) ==
  /\ screening = "grid"
  /\ i \in Unfinished /\ Started(i)
  /\ \/ arrived' = Append(arrived, i) /\ UNCHANGED screening
     \/ screening' = "failed" /\ UNCHANGED arrived
  /\ UNCHANGED <<wanted, market, tried, climbVars, winner>>

\* Rows are put at the places of their points, whatever order they came in.
RowsAsTheyCame(places) == [i \in 1 .. Len(places) |-> Batch[places[i]]]
RowsOf(places) == Batch
EndGrid ==
  /\ screening = "grid"
  /\ Unfinished = {}
  /\ tried' = RowsOf(arrived)
  /\ IF EligibleOf(tried') = {}
     THEN screening' = "done" /\ UNCHANGED <<spot, lead>>
     ELSE screening' = "climb" /\ spot' = BestOf(EligibleOf(tried')) /\ lead' = spot'
  /\ UNCHANGED <<wanted, market, arrived, halvings, axis, opened, untried, improved, winner>>

BudgetLeft == Len(tried) < wanted.evaluations
StepOf(a) == Delta[a] \div (IF halvings = 0 THEN 1 ELSE 2 * halvings)
Moved(a, direction) == [spot EXCEPT ![a] = Clip(a, spot[a] + direction * StepOf(a))]
\* upwards first; where the bound stops a move there is nothing to evaluate
Fresh(p) == IF p # spot /\ p \notin ToSet(tried) THEN <<p>> ELSE <<>>
Neighbours(a) == Fresh(Moved(a, 1)) \o Fresh(Moved(a, -1))
OpenAxis ==
  /\ screening = "climb"
  /\ ~opened /\ axis \in Axes /\ BudgetLeft
  /\ opened' = TRUE
  /\ untried' = Neighbours(axis)
  /\ lead' = spot
  /\ UNCHANGED <<wanted, market, screening, arrived, tried, spot, halvings, axis, improved, winner>>

\* One neighbour is evaluated; it leads if it is strictly better than the lead.
TryNeighbour ==
  /\ screening = "climb"
  /\ opened /\ untried # <<>> /\ BudgetLeft
  /\ LET p == Head(untried)
     IN  \/ /\ tried' = Append(tried, p)
            /\ untried' = Tail(untried)
            /\ lead' = IF Eligible(p) /\ Answer(p).ratio > Answer(lead).ratio THEN p ELSE lead
            /\ UNCHANGED screening
         \/ screening' = "failed" /\ UNCHANGED <<tried, untried, lead>>
  /\ UNCHANGED <<wanted, market, arrived, spot, halvings, axis, opened, improved, winner>>

CloseAxisForgetting ==
  /\ screening = "climb"
  /\ opened /\ (untried = <<>> \/ ~BudgetLeft)
  /\ spot' = lead
  /\ improved' = (lead # spot)
  /\ opened' = FALSE
  /\ untried' = <<>>
  /\ axis' = axis + 1
  /\ UNCHANGED <<wanted, market, screening, arrived, tried, halvings, lead, winner>>

CloseAxis ==
  /\ screening = "climb"
  /\ opened /\ (untried = <<>> \/ ~BudgetLeft)
  /\ spot' = lead
  /\ improved' = (improved \/ lead # spot)
  /\ opened' = FALSE
  /\ untried' = <<>>
  /\ axis' = axis + 1
  /\ UNCHANGED <<wanted, market, screening, arrived, tried, halvings, lead, winner>>

\* A round that moved is followed by one of half the step, twice.
Rested == axis > AxisCount /\ (~improved \/ halvings = 2)
NextRound ==
  /\ screening = "climb"
  /\ ~opened /\ axis > AxisCount /\ ~Rested /\ BudgetLeft
  /\ halvings' = halvings + 1
  /\ axis' = 1
  /\ improved' = FALSE
  /\ UNCHANGED <<wanted, market, screening, arrived, tried, spot, opened, untried, lead, winner>>

Champion(points) == IF EligibleOf(points) = {} THEN NoPoint ELSE BestOf(EligibleOf(points))
EndClimb ==
  /\ screening = "climb"
  /\ ~opened /\ (~BudgetLeft \/ Rested)
  /\ screening' = "done"
  /\ winner' = Champion(tried)
  /\ UNCHANGED <<wanted, market, arrived, tried, climbVars>>

HpNext ==
  \/ BuildRunner
  \/ \E i \in 1 .. Len(Grid) : EvaluationEnds(i)
  \/ EndGrid
  \/ OpenAxis \/ TryNeighbour \/ CloseAxis \/ NextRound \/ EndClimb
HpSpec == HpInit /\ [][HpNext]_hpVars

-----------------------------------------------------------------------------
\* The report has one row per point, no more rows than the budget, and starts
\* with the grid in its registered order, whatever order the threads ended in.
RowsRegistered ==
  /\ Len(tried) =< (IF wanted.evaluations < 0 THEN 0 ELSE wanted.evaluations)
  /\ \A i, j \in 1 .. Len(tried) : tried[i] = tried[j] => i = j
  /\ \A i \in 1 .. Len(tried) : tried[i] \in Points
  /\ screening \in {"climb", "done"} => \A i \in 1 .. Len(Batch) : i =< Len(tried) /\ tried[i] = Grid[i]

\* The champion is the best row a gate adopts, the smallest of equals; there is
\* none only if no row qualifies, and the climb has ended as high.
ChampionBest == screening = "done" =>
  /\ winner = NoPoint <=> EligibleOf(tried) = {}
  /\ winner # NoPoint =>
       /\ winner \in EligibleOf(tried)
       /\ \A p \in EligibleOf(tried) \ {winner} : Better(winner, p)
       /\ Answer(spot).ratio = Answer(winner).ratio

\* A climb that stopped though evaluations were left and the last round had not
\* moved stands on top: every neighbour at the last step has been tried, and
\* none that qualifies is higher.
HillTop == screening = "done" /\ winner # NoPoint /\ BudgetLeft /\ ~improved =>
  \A a \in Axes, direction \in {-1, 1} :
    LET p == Moved(a, direction)
    IN  p = spot \/ (p \in ToSet(tried) /\ (Eligible(p) => Answer(p).ratio =< Answer(spot).ratio))

\* The screen of the contribution parameters keeps its word under every
\* interleaving of its threads (screen_adaptive_contribution_hp).
ScreenSound == RowsRegistered /\ ChampionBest /\ HillTop

=============================================================================
