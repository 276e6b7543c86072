-------------------------- MODULE PensionDecisions --------------------------
(***************************************************************************)
(* The two pension decisions: which holding is bought, reviewed every      *)
(* year, and how the ISA is operated, decided budget by budget.            *)
(***************************************************************************)
EXTENDS Integers, Sequences, FiniteSets, FiniteSetsExt

(***************************************************************************)
(* The pension holding decision and its yearly review.  Evidence is what   *)
(* each candidate would have ended with in every tier and horizon, in      *)
(* percent of the benchmark on the same months (one cohort per cell, so    *)
(* the ratio to the reference is a quotient of two of them).  A review     *)
(* decides from the evidence of its day and the incumbent of the previous  *)
(* record; a record is written only from a verdict that may be frozen.     *)
(***************************************************************************)

CONSTANTS
  Candidates, Benchmark, Reference,
  IdRank,       \* the order of the candidates' ids
  Neighbors,    \* per candidate, the mixes next to it
  Cells,        \* tier and horizon pairs
  RealizedCells,\* those measured on the prices of the funds themselves
  Levels,       \* terminal wealth, percent of the benchmark
  Band,         \* equivalence band, percent
  Drag,         \* per candidate, start-weighted yearly fees
  DrawdownCases \* per candidate, the depth before retirement of its worst tier

NoOne == "none"
NoVerdict == [status |-> "none", selected |-> NoOne, reasons |-> {}]
ASSUME CandidatesAssumption ==
  /\ {Benchmark, Reference} \subseteq Candidates /\ IsFiniteSet(Candidates)
  /\ RealizedCells \subseteq Cells
  /\ 100 \in Levels /\ Levels \subseteq Nat /\ Band \in Nat
ASSUME RankAssumption ==
  /\ IdRank \in [Candidates -> Nat] /\ \A c, d \in Candidates : IdRank[c] = IdRank[d] => c = d
  /\ Drag \in [Candidates -> Nat] /\ DrawdownCases \subseteq [Candidates -> Nat]

VARIABLES
  terminal,   \* per candidate and cell, percent of the benchmark
  feasible,   \* cells whose horizon fits the panel
  drawdown,   \* one of DrawdownCases
  strong,     \* candidates that win enough bootstrap paths
  verdict,    \* of the review at hand
  incumbent,  \* the holding of the last record
  settled     \* the last record was written from the evidence of this day
holdingVars == <<terminal, feasible, drawdown, strong, verdict, incumbent, settled>>

-----------------------------------------------------------------------------
(* The rule. *)

RobustScore(t, c) == Min({t[c][x] : x \in feasible})
Dominates(t, c, x) == 100 * t[c][x] >= (100 - Band) * t[Reference][x]

PoolUnguarded(t) == Candidates
Pool(t) == {c \in Candidates : \A x \in feasible : Dominates(t, c, x)}

Best(t, pool) == Max({RobustScore(t, c) : c \in pool})
Equivalent(t) == {c \in Pool(t) : RobustScore(t, c) >= Best(t, Pool(t)) - Band}

\* mildest drawdown, then lowest fees, then the reference, then the id
Rank(c) == <<drawdown[c], Drag[c], IF c = Reference THEN 0 ELSE 1, IdRank[c]>>
Precedes(p, q) ==
  \E i \in DOMAIN p : p[i] < q[i] /\ \A j \in 1..(i - 1) : p[j] = q[j]
Selection(t) ==
  CHOOSE c \in Equivalent(t) : \A d \in Equivalent(t) \ {c} : Precedes(Rank(c), Rank(d))

KnifeEdge(t, c) == \E n \in Neighbors[c] : RobustScore(t, n) <= 100

\* the best score of all was left out by the guard, on the funds' own prices too
GuardReasons(t) ==
  LET best == {c \in Candidates \ Pool(t) : RobustScore(t, c) = Best(t, Candidates)}
  IN  {r \in {"DOMINANCE_GUARD", "REALIZED_VETO"} :
         /\ best # {}
         /\ r = "REALIZED_VETO" =>
              \E c \in best, x \in RealizedCells \cap feasible : ~Dominates(t, c, x)}

DecisionBySelectionOnly(t, held) ==
  [status |-> "ADOPT_CANDIDATE", selected |-> Selection(t), reasons |-> {}]
DecisionKeepsHeld(t, held) ==
  LET c == IF held = NoOne THEN Selection(t) ELSE held
  IN  [status |-> "KEEP_INCUMBENT", selected |-> c, reasons |-> {}]
Decision(t, held) ==
  LET c == Selection(t)
      Is(status, selected, reason) ==
        [status |-> status, selected |-> selected, reasons |-> reason \cup GuardReasons(t)]
  IN  CASE c = Benchmark           -> Is("KEEP_BENCHMARK", Benchmark, {})
        [] c # Benchmark /\ KnifeEdge(t, c) -> Is("NO_DECISION", NoOne, {"KNIFE_EDGE"})
        [] c # Benchmark /\ ~KnifeEdge(t, c) /\ c \notin strong ->
             Is("NO_DECISION", NoOne, {"BOOTSTRAP_WEAK"})
        [] OTHER -> IF held \in Equivalent(t) THEN Is("KEEP_INCUMBENT", held, {})
                    ELSE Is("ADOPT_CANDIDATE", c, {})

-----------------------------------------------------------------------------
(* The reviews. *)

HoldingInit ==
  /\ terminal = [c \in Candidates |-> [x \in Cells |-> 100]]
  /\ feasible \in {X \in SUBSET Cells : Cardinality(X) = 1}
  /\ drawdown \in DrawdownCases
  /\ strong \in {Candidates, {}}
  /\ verdict = NoVerdict
  /\ incumbent = NoOne
  /\ settled = FALSE

NewDay == verdict' = NoVerdict /\ settled' = FALSE

\* a month of prices moves one candidate in one cell
PricesMove(c, x, level) ==
  /\ c # Benchmark
  /\ level - terminal[c][x] \in {-1, 1}
  /\ terminal' = [terminal EXCEPT ![c][x] = level]
  /\ NewDay
  /\ UNCHANGED <<feasible, drawdown, strong, incumbent>>

\* and makes a longer horizon fit
PanelGrows(x) ==
  /\ x \notin feasible
  /\ feasible' = feasible \cup {x}
  /\ NewDay
  /\ UNCHANGED <<terminal, drawdown, strong, incumbent>>

BootstrapMoves(c) ==
  /\ c # Benchmark
  /\ strong' = IF c \in strong THEN strong \ {c} ELSE strong \cup {c}
  /\ NewDay
  /\ UNCHANGED <<terminal, feasible, drawdown, incumbent>>

\* a taxed campaign is run to cross-check the ranks: where they disagree the
\* report decides nothing, whatever the rule said
CrossChecked(v, agrees) ==
  IF agrees THEN v
  ELSE [status |-> "NO_DECISION", selected |-> NoOne,
        reasons |-> v.reasons \cup {"TAX_RANK_DISAGREEMENT"}]
EvaluatePensionDecision ==
  /\ verdict = NoVerdict
  /\ \E agrees \in BOOLEAN : verdict' = CrossChecked(Decision(terminal, incumbent), agrees)
  /\ UNCHANGED <<terminal, feasible, drawdown, strong, incumbent, settled>>

\* a NO_DECISION report is refused; the record of one day is never overwritten
FreezePensionDecision ==
  /\ verdict # NoVerdict
  /\ verdict.status # "NO_DECISION"
  /\ ~settled
  /\ incumbent' = verdict.selected
  /\ settled' = TRUE
  /\ UNCHANGED <<terminal, feasible, drawdown, strong, verdict>>

HoldingNext ==
  \/ \E c \in Candidates, x \in Cells, level \in Levels : PricesMove(c, x, level)
  \/ \E x \in Cells : PanelGrows(x)
  \/ \E c \in Candidates : BootstrapMoves(c)
  \/ EvaluatePensionDecision
  \/ FreezePensionDecision
HoldingSpec == HoldingInit /\ [][HoldingNext]_holdingVars

-----------------------------------------------------------------------------
(* What the decision promises. *)

\* The holding of a record never loses a tier: against the reference it stays
\* within the band in every cell, its worst cell is within the band of the best
\* there is, and unless the guard left the benchmark itself out, within the
\* band of the benchmark.
HoldingLosesNoTier ==
  settled =>
    /\ \A x \in feasible :
         /\ 100 * terminal[incumbent][x] >= (100 - Band) * terminal[Reference][x]
         /\ Benchmark \in Pool(terminal) => terminal[incumbent][x] >= 100 - Band
    /\ \A c \in Candidates :
         (\A x \in feasible : 100 * terminal[c][x] >= (100 - Band) * terminal[Reference][x])
           => \E x \in feasible : terminal[c][x] <= RobustScore(terminal, incumbent) + Band

\* Reviewing the same evidence again changes nothing.
ReviewRepeatable ==
  settled => Decision(terminal, incumbent).selected = incumbent

\* A selected candidate is never deselected by doing better, unless it is the
\* reference the others are measured against.
BetterStaysSelected ==
  LET c == Selection(terminal)
  IN  c \notin {Benchmark, Reference} =>
        \A x \in feasible :
          Selection([terminal EXCEPT ![c][x] = @ + 1]) = c

\* The holding decision keeps its word on the evidence it was made from.
HoldingSound == HoldingLosesNoTier /\ ReviewRepeatable /\ BetterStaysSelected

\* A review sells a holding only when the evidence stopped supporting it, that
\* is when it is no longer equivalent to the best, or for the benchmark.
HoldingStable ==
  [][(incumbent \in Equivalent(terminal) /\ incumbent' # incumbent) =>
       (incumbent' = Benchmark)]_holdingVars

-----------------------------------------------------------------------------
(***************************************************************************)
(* The operating policy of the ISA, decided budget by budget.  An arm is   *)
(* scored by its household net, in percent of the baseline arm's, in every *)
(* life: an income profile with a tier and a horizon.  The arms are tried  *)
(* in registration order, the baseline first.  Every budget of a report    *)
(* must be decided before one record is frozen for all of them.            *)
(***************************************************************************)

CONSTANTS
  IsaArms,       \* in registration order
  BaselineArmId,
  Lives,         \* income profile, tier and horizon
  Profile,       \* per life, its income profile
  IsaLevels,     \* household net, percent of the baseline
  IsaBand,       \* equivalence band, percent
  DrawingYears,  \* drawing horizons of the sensitivity check
  Revaluations,  \* what another drawing horizon may do to the scores
  Budgets        \* number of budgets of the specification

ASSUME IsaAssumption ==
  /\ IsaArms \in Seq({IsaArms[i] : i \in DOMAIN IsaArms}) /\ IsaArms # <<>> /\ BaselineArmId = IsaArms[1]
  /\ 100 \in IsaLevels /\ IsaLevels \subseteq Nat /\ IsaBand \in Nat \ {0}

VARIABLES
  lives,      \* the lives whose tier and horizon fit
  decisions,  \* one per decided budget
  frozen      \* the record of the report
isaVars == <<lives, decisions, frozen>>

ArmSet == {IsaArms[i] : i \in DOMAIN IsaArms}
WorstOver(scores, L) == [a \in ArmSet |-> Min({scores[a][l] : l \in L})]

\* the earliest registered arm within the band of the best score
SelectBest(robust) ==
  LET best == Max({robust[a] : a \in ArmSet})
      first == Min({i \in DOMAIN IsaArms : robust[IsaArms[i]] >= best - IsaBand})
  IN  IsaArms[first]

ProfileBest(scores) ==
  [p \in {Profile[l] : l \in lives} |->
     SelectBest(WorstOver(scores, {l \in lives : Profile[l] = p}))]

StatusOfBestYear(selected, won, drawn) ==
  CASE selected = BaselineArmId -> "KEEP_BASELINE"
    [] selected # BaselineArmId /\ won = {} -> "BOOTSTRAP_WEAK"
    [] OTHER -> "ADOPT_ARM"
\* won: profiles whose bootstrap paths prefer the selected arm often enough
Status(selected, won, drawn) ==
  CASE selected = BaselineArmId -> "KEEP_BASELINE"
    [] selected # BaselineArmId /\ won # {Profile[l] : l \in lives} -> "BOOTSTRAP_WEAK"
    [] selected # BaselineArmId /\ won = {Profile[l] : l \in lives}
         /\ \E y \in DrawingYears : drawn[y] # selected -> "EXIT_SENSITIVE"
    [] OTHER -> "ADOPT_ARM"

IsaInit ==
  /\ lives \in (SUBSET Lives) \ {{}}
  /\ decisions = <<>>
  /\ frozen = FALSE

\* whether a candidate would now be the better holding is only remarked: it
\* changes neither the status nor what may be frozen
DecideBudget ==
  /\ Len(decisions) < Budgets
  /\ \E net \in [ArmSet -> [lives -> IsaLevels]], won \in SUBSET {Profile[l] : l \in lives},
        shift \in [DrawingYears -> Revaluations] :
       LET selected == SelectBest(WorstOver(net, lives))
           revalued(y) == [a \in ArmSet |-> [l \in lives |-> net[a][l] + shift[y][a]]]
           drawn == [y \in DrawingYears |-> SelectBest(WorstOver(revalued(y), lives))]
       IN  /\ \A l \in lives : net[BaselineArmId][l] = 100
           /\ decisions' = Append(decisions,
                [status |-> Status(selected, won, drawn), selected |-> selected, won |-> won,
                 scores |-> WorstOver(net, lives), best |-> ProfileBest(net), drawn |-> drawn])
  /\ UNCHANGED <<lives, frozen>>

FreezableStatuses == {"ADOPT_ARM", "KEEP_BASELINE"}
FreezeIsaDecision ==
  /\ Len(decisions) = Budgets
  /\ ~frozen
  /\ \A i \in DOMAIN decisions : decisions[i].status \in FreezableStatuses
  /\ frozen' = TRUE
  /\ UNCHANGED <<lives, decisions>>

IsaNext == DecideBudget \/ FreezeIsaDecision
IsaSpec == IsaInit /\ [][IsaNext]_isaVars

\* An arm of a frozen policy other than the baseline is richer than it in every
\* life of every profile, under every drawing horizon, and wins the bootstrap
\* of every profile; and some arm beats the baseline by more than the band, so a
\* lock-up is never taken for a tie.
PolicyPaysInEveryLife ==
  frozen => \A i \in DOMAIN decisions :
    LET d == decisions[i]
    IN  d.selected # BaselineArmId =>
          /\ d.scores[d.selected] > 100
          /\ \E a \in ArmSet : d.scores[a] > 100 + IsaBand
          /\ \A a \in ArmSet : d.scores[a] <= d.scores[d.selected] + IsaBand
          /\ \A y \in DrawingYears : d.drawn[y] = d.selected
          /\ d.won = DOMAIN d.best
          /\ \A p \in DOMAIN d.best : d.best[p] # BaselineArmId
=============================================================================
