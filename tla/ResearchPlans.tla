---------------------------- MODULE ResearchPlans ----------------------------
(***************************************************************************)
(* The registered plans of the two pension decisions: what their loaders   *)
(* admit, and how an admitted plan is worked off, cell by cell, until it   *)
(* is decided or an error ends the command.  Weights are percents, windows *)
(* are pairs of months; a window is whole when its last day ends a month.  *)
(***************************************************************************)
EXTENDS Integers, Sequences, FiniteSets, FiniteSetsExt, Functions

CONSTANTS
  PensionFiles,    \* plans of the holding decision as they may be filed
  HouseholdFiles,  \* plans of the ISA decision
  PublicMonth,     \* last month of the century series that is public at the decision
  IsaLaw           \* term, budget limit and pension limit of the tax regimes

VARIABLES file, stage, cursor, scored
planVars == <<file, stage, cursor, scored>>

SeqSet(s) == {s[i] : i \in DOMAIN s}
Distinct(s) == Cardinality(SeqSet(s)) = Len(s)
Schedules(f) == {f.candidates[c] : c \in DOMAIN f.candidates}
Controls(f) == {f.controls[c] : c \in DOMAIN f.controls}
SleevesOf(schedules) == UNION {DOMAIN s.start : s \in schedules}

\* month ends inside the window
PanelLength(w) == w.last - w.first + (IF w.whole THEN 1 ELSE 0)
CalendarMonths(w) == w.last - w.first + 1

RealizedStart(f) ==
  Max({f.modern.first} \cup {f.splices[s] : s \in DOMAIN f.splices \cap SleevesOf(Schedules(f))})
RealizedWindow(f) == [f.modern EXCEPT !.first = RealizedStart(f)]
\* the century series must be public over exactly the window of the plan
CenturyPublic(f) == f.century.last <= PublicMonth /\ f.century.whole

-----------------------------------------------------------------------------
(* What the loader of the holding decision admits. *)

SharesSum(shares) == SumFunction(shares) = 100 /\ \A s \in DOMAIN shares : shares[s] \in 0..100
ScheduleHolds(s) ==
  /\ SharesSum(s.start)
  /\ SharesSum(s.end)
  /\ DOMAIN s.start = DOMAIN s.end
  /\ s.glide >= 0

SchedulesHold(f) ==
  /\ f.candidates # <<>>
  /\ \A s \in Schedules(f) \cup Controls(f) : ScheduleHolds(s)
  /\ DOMAIN f.candidates \cap DOMAIN f.controls = {}
ReferencesHold(f) ==
  /\ f.reference \in DOMAIN f.candidates \cup {"none"}
  /\ f.benchmark \in DOMAIN f.candidates
NeighborsUnchecked(f) == DOMAIN f.neighbors \subseteq DOMAIN f.candidates
NeighborsHold(f) ==
  /\ DOMAIN f.neighbors \subseteq DOMAIN f.candidates
  /\ \A c \in DOMAIN f.neighbors :
       /\ SeqSet(f.neighbors[c]) \subseteq DOMAIN f.candidates \ {c}
       /\ Distinct(f.neighbors[c])
SeriesCover(f) == SleevesOf(Schedules(f)) \subseteq f.series
WindowsHold(f) == f.modern.first <= f.modern.last /\ f.century.first <= f.century.last
HorizonsHold(f) ==
  /\ f.horizons # <<>>
  /\ Distinct(f.horizons)
  /\ 0 <= f.pre /\ f.pre <= 12 * Min(SeqSet(f.horizons))
ThresholdsHold(f) == f.band >= 0 /\ f.winShare \in 1..100 /\ f.blocks >= 1
DragsHold(f) == \A s \in DOMAIN f.drags : f.drags[s] \in 0..99
ArmMapHolds(f) == f.taxed # {} /\ f.taxed \subseteq DOMAIN f.candidates
SplicesHold(f) ==
  \A s \in DOMAIN f.splices :
    /\ s \in SleevesOf(Schedules(f) \cup Controls(f))
    /\ f.modern.first < f.splices[s] /\ f.splices[s] <= f.modern.last
RealizedHoldsModern(f) == \A i \in DOMAIN f.realized : 12 * f.realized[i] <= CalendarMonths(f.modern)
RealizedHolds(f) ==
  /\ Distinct(f.realized)
  /\ \A i \in DOMAIN f.realized : 12 * f.realized[i] <= CalendarMonths(RealizedWindow(f))
ProductsHold(f) ==
  f.products # <<>> =>
    /\ SleevesOf(Schedules(f) \cup Controls(f)) \subseteq DOMAIN f.products
    /\ \A s \in DOMAIN f.products :
         /\ ~f.products[s].hedged
         /\ f.products[s].ratio <= (IF s \in DOMAIN f.drags THEN f.drags[s] ELSE 0)

\* every known field, no other, none twice, and every entry parses as its type
Formed(f) == f.formed
PlanWindows == [first : Int, last : Int, whole : BOOLEAN]
PensionEntries(f) ==
  /\ {f.modern, f.century} \subseteq PlanWindows /\ {f.pre, f.blocks} \subseteq Int
  /\ f.horizons \in Seq(Int) /\ f.realized \in Seq(Int)
  /\ f.splices \in [DOMAIN f.splices -> Int] /\ IsFiniteSet(DOMAIN f.splices)
  /\ \A s \in Schedules(f) \cup Controls(f) : s.glide \in Int
HouseholdEntries(f) ==
  /\ {f.modern, f.century} \subseteq PlanWindows /\ {f.holding.glide, f.blocks} \subseteq Int
  /\ f.horizons \in Seq(Int)
ASSUME FilesAssumption ==
  /\ \A f \in PensionFiles : f.kind = "holding" /\ (Formed(f) => PensionEntries(f))
  /\ \A f \in HouseholdFiles : f.kind = "isa" /\ (Formed(f) => HouseholdEntries(f))

LoadPensionDecisionSpec(f) ==
  /\ Formed(f)
  /\ SchedulesHold(f) /\ ReferencesHold(f) /\ NeighborsHold(f) /\ SeriesCover(f)
  /\ WindowsHold(f) /\ HorizonsHold(f) /\ ThresholdsHold(f) /\ DragsHold(f)
  /\ ArmMapHolds(f) /\ SplicesHold(f) /\ RealizedHolds(f) /\ ProductsHold(f)

(* What the loader of the ISA decision admits. *)

ArmHolds(a) ==
  /\ a.declared = a.key
  /\ a.mode \in {"roll_general", "roll_pension"} => a.cycle # 0
  /\ a.mode \notin {"roll_general", "roll_pension"} => a.cycle = 0
PhasesHold(offsets) ==
  /\ offsets # <<>>
  /\ offsets[1] = 0
  /\ \A i \in 2..Len(offsets) : offsets[i - 1] < offsets[i]
LoadIsaHouseholdSpec(f) ==
  /\ Formed(f)
  /\ f.horizons # <<>> /\ Distinct(f.horizons) /\ \A i \in DOMAIN f.horizons : f.horizons[i] >= 3
  /\ f.budgets # <<>> /\ \A i \in DOMAIN f.budgets : f.budgets[i] <= 20
  /\ f.drawing \notin SeqSet(f.sensitivity)
  /\ f.arms # <<>> /\ \A i \in DOMAIN f.arms : ArmHolds(f.arms[i])
  /\ f.baseline \in {f.arms[i].key : i \in DOMAIN f.arms}
  /\ f.profiles # <<>> /\ \A i \in DOMAIN f.profiles : PhasesHold(f.profiles[i].offsets)
  /\ Distinct([i \in DOMAIN f.profiles |-> f.profiles[i].id])
  /\ f.band \in 1..5 /\ f.winShare \in 1..99

-----------------------------------------------------------------------------
(* How an admitted plan is worked off. *)

PlansInit ==
  /\ file \in PensionFiles \cup HouseholdFiles
  /\ stage = "filed"
  /\ cursor = 0
  /\ scored = {}

Load ==
  /\ stage = "filed"
  /\ stage' = IF \/ file.kind = "holding" /\ LoadPensionDecisionSpec(file)
                 \/ file.kind = "isa" /\ LoadIsaHouseholdSpec(file)
              THEN "loaded" ELSE "refused"
  /\ UNCHANGED <<file, cursor, scored>>

PanelOf(f, tier) ==
  CASE tier = "modern"   -> PanelLength(f.modern)
    [] tier = "century"  -> PanelLength(f.century)
    [] tier = "realized" -> PanelLength(RealizedWindow(f))
CellsOf(f) ==
  LET tier(name, horizons) == [i \in DOMAIN horizons |-> <<name, horizons[i]>>]
  IN  tier("modern", f.horizons) \o tier("century", f.horizons)
        \o (IF f.kind = "holding" THEN tier("realized", f.realized) ELSE <<>>)
\* controls are reported on the modern panel only
Active(f, tier) ==
  CASE f.kind = "isa" -> {f.holding}
    [] f.kind = "holding" /\ tier = "modern" -> Schedules(f) \cup Controls(f)
    [] f.kind = "holding" /\ tier # "modern" -> Schedules(f)

\* sleeves no plan holds may not carry fees; the ISA plan rests on a holding
\* that is still a candidate and whose sleeves have returns
DragsKnown(f) == DOMAIN f.drags \subseteq SleevesOf(Schedules(f) \cup Controls(f))
HoldingKnown(f) == f.incumbent \in f.candidates /\ DOMAIN f.holding.start \subseteq f.series
Enter ==
  /\ stage = "loaded"
  /\ stage' = IF \/ file.kind = "holding" /\ DragsKnown(file)
                    /\ PanelLength(file.modern) > 0 /\ CenturyPublic(file)
                 \/ file.kind = "isa" /\ HoldingKnown(file) /\ CenturyPublic(file)
              THEN "scoring" ELSE "stopped"
  /\ cursor' = 1
  /\ UNCHANGED <<file, scored>>

\* a horizon longer than its panel is passed over, but not on realized prices
CellFits(f, cell) == 12 * cell[2] <= PanelOf(f, cell[1])
CellFails(f, cell) ==
  \/ ~CellFits(f, cell) /\ cell[1] = "realized"
  \/ /\ CellFits(f, cell)
     /\ \/ \E s \in Active(f, cell[1]) : s.glide > cell[2]
        \/ f.kind = "holding" /\ f.pre > 12 * cell[2]
ScoreCell ==
  /\ stage = "scoring"
  /\ cursor \in DOMAIN CellsOf(file)
  /\ LET cell == CellsOf(file)[cursor]
     IN  /\ stage' = IF CellFails(file, cell) THEN "stopped" ELSE "scoring"
         /\ scored' = IF CellFits(file, cell) THEN scored \cup {cell} ELSE scored
  /\ cursor' = cursor + 1
  /\ UNCHANGED file

\* the ISA plan also simulates every arm under the law
ArmFails(f) ==
  \/ \E i \in DOMAIN f.arms : f.arms[i].cycle # 0 /\ f.arms[i].cycle < IsaLaw.term
  \/ \E i \in DOMAIN f.budgets : f.budgets[i] > IsaLaw.budget
  \/ f.pension > IsaLaw.pension
Bootstrap ==
  /\ stage = "scoring"
  /\ cursor = Len(CellsOf(file)) + 1
  /\ LET paths == PanelOf(file, "century")
         longest == Max(SeqSet(file.horizons))
     IN  stage' = IF \/ scored = {}
                     \/ 12 * longest > paths
                     \/ file.blocks > paths
                     \/ file.kind = "isa" /\ ArmFails(file)
                  THEN "stopped" ELSE "drawn"
  /\ UNCHANGED <<file, cursor, scored>>

\* the verdict looks up the benchmark and the neighbors of the selection
LooksUp(f, selected) ==
  {f.benchmark} \cup (IF selected \in DOMAIN f.neighbors THEN SeqSet(f.neighbors[selected]) ELSE {})
Decide ==
  /\ stage = "drawn"
  /\ \/ file.kind = "isa" /\ stage' = "decided"
     \/ /\ file.kind = "holding"
        /\ \E selected \in DOMAIN file.candidates :
             stage' = IF LooksUp(file, selected) \subseteq DOMAIN file.candidates
                      THEN "decided" ELSE "crashed"
  /\ UNCHANGED <<file, cursor, scored>>

PlansNext == Load \/ Enter \/ ScoreCell \/ Bootstrap \/ Decide
PlansSpec == PlansInit /\ [][PlansNext]_planVars

-----------------------------------------------------------------------------
(* What an author may rely on. *)

Glides(f) == {s.glide : s \in IF f.kind = "isa" THEN {f.holding} ELSE Schedules(f) \cup Controls(f)}
Horizons(f) == SeqSet(f.horizons) \cup (IF f.kind = "isa" THEN {} ELSE SeqSet(f.realized))

\* what the loaders leave to the author of a plan
Careful(f) ==
  LET months == PanelLength(f.century) IN
  /\ CenturyPublic(f)
  /\ \A g \in Glides(f), h \in Horizons(f) : g <= h
  /\ \A h \in SeqSet(f.horizons) : 12 * h <= months
  /\ f.blocks <= months
  /\ f.kind = "holding" =>
       /\ f.modern.whole
       /\ \A i \in DOMAIN f.realized : f.pre <= 12 * f.realized[i]
       /\ DragsKnown(f)
  /\ f.kind = "isa" => HoldingKnown(f) /\ ~ArmFails(f)

\* A plan its loader admitted is decided unless it has one of the faults the
\* loader leaves to the author: the references it names are never missing when
\* the verdict looks them up, every realized horizon fits its own panel, and a
\* verdict rests on every cell that fits (load_pension_decision_spec,
\* load_isa_household_spec against evaluate_pension_decision, evaluate_isa_household).
AdmittedPlansDecide ==
  /\ stage # "crashed"
  /\ stage = "stopped" => ~Careful(file)
  /\ stage = "decided" =>
       /\ scored = {c \in SeqSet(CellsOf(file)) : 12 * c[2] <= PanelOf(file, c[1])}
       /\ \E c \in scored : c[1] = "century" /\ c[2] = Max(SeqSet(file.horizons))
       /\ file.kind = "holding" =>
            \A i \in DOMAIN file.realized :
              \A s \in Schedules(file), x \in DOMAIN file.splices :
                x \in DOMAIN s.start => 12 * file.realized[i] <= file.modern.last - file.splices[x] + 1
=============================================================================
