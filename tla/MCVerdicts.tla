----------------------------- MODULE MCVerdicts -----------------------------
(***************************************************************************)
(* The verdicts of the research commands, one subject a behaviour: the     *)
(* walk-forward tournament, the pension holding, the ISA policy, the plans *)
(* the last two are decided from, the after-tax rules and campaign,        *)
(* the screen of the contribution parameters, and the thesis commands.     *)
(***************************************************************************)
EXTENDS WalkForward, PensionDecisions, ResearchPlans, AfterTaxCampaign, HpScreen,
  ThesisPipeline

CONSTANTS benchmark, reference, challenger, modern, century, realized,
          hold, roll, side, young, late, pace, shape, tilt, base

VARIABLE subject

Plan(start, months, train, test, embargo, full) ==
  [start |-> start, end |-> InclusiveEnd(start, months), train |-> train, test |-> test,
   embargo |-> embargo, full |-> full]
MCArms == <<pace, shape, tilt>>
MCPlans == {Plan([m |-> 0, d |-> 1], 8, 2, 2, 0, TRUE), Plan([m |-> 0, d |-> 15], 3, 2, 2, 0, TRUE)}
MCCalendars ==
  {Plan([m |-> m, d |-> d], months, train, test, embargo, full) :
     m \in 0..11, d \in {1, 15, 28, 29, 31}, months \in {7, 14}, train \in {1, 3}, test \in {1, 2},
     embargo \in {0, 1}, full \in BOOLEAN}

Earns(tw, paid, xirr, mdd) == [tw |-> tw, paid |-> paid, xirr |-> xirr, mdd |-> mdd]
MCBaseTrain == [i \in 1..3 |-> Earns(100, 60, 5, -20)]
MCBaseTest == <<Earns(100, 60, 5, -20), Earns(200, 60, 5, -20), Earns(200, 60, 5, -20)>>
MCTrainResults == [i \in 1..3 |-> {Earns(106, 60, 6, -21), Earns(104, 60, 6, -30), Earns(101, 64, 4, -20)}]
MCTestResults == <<{Earns(110, 60, 6, -20), Earns(96, 60, 5, -20), Earns(90, 60, 5, -20)},
                   {Earns(220, 60, 6, -20), Earns(220, 90, 6, -20), Earns(196, 60, 6, -20)},
                   {Earns(220, 60, 6, -20)}>>

MCCandidates == {benchmark, reference, challenger}
MCIdRank == (benchmark :> 3 @@ reference :> 2 @@ challenger :> 1)
MCNeighbors == (benchmark :> {reference} @@ reference :> {challenger} @@ challenger :> {reference})
MCDrag == (benchmark :> 1 @@ reference :> 2 @@ challenger :> 2)
Depths(b, r, c) == (benchmark :> b @@ reference :> r @@ challenger :> c)
MCDrawdownCases == {Depths(30, 30, 30), Depths(35, 30, 25)}

MCIsaArms == <<hold, roll, side>>
MCLives == {<<young, modern>>, <<late, modern>>}
MCProfile == [l \in MCLives |-> l[1]]
MCRevaluations == {(hold :> 0 @@ roll :> r @@ side :> 0) : r \in {0, -1}}

Mix(first, second, share) == (first :> 100 - share @@ second :> share)
Schedule(start, end, glide) == [start |-> start, end |-> end, glide |-> glide]
GoodPlan ==
  [kind |-> "holding", formed |-> TRUE,
   candidates |-> ("b" :> Schedule("qqq" :> 100, "qqq" :> 100, 0) @@
                   "r" :> Schedule(Mix("qqq", "schd", 20), Mix("qqq", "schd", 60), 1)),
   controls |-> ("x" :> Schedule("soxx" :> 100, "soxx" :> 100, 0)),
   benchmark |-> "b", reference |-> "r", neighbors |-> ("r" :> <<"b">>), series |-> {"qqq", "schd"},
   modern |-> [first |-> 1, last |-> 36, whole |-> TRUE],
   century |-> [first |-> -40, last |-> 30, whole |-> TRUE],
   horizons |-> <<3, 2>>, pre |-> 18, band |-> 1, winShare |-> 60, blocks |-> 12,
   drags |-> ("qqq" :> 1), taxed |-> {"r"}, splices |-> ("schd" :> 13), realized |-> <<2>>, products |-> <<>>]
Product(ratio, hedged) == [ratio |-> ratio, hedged |-> hedged]
MCPensionFiles ==
  {[GoodPlan EXCEPT !.pre = pre, !.horizons = h, !.realized = r, !.splices = s, !.modern.whole = w,
      !.candidates["r"].glide = g, !.controls["x"].glide = x, !.century.first = c, !.blocks = k, !.drags = d] :
     pre \in {0, 18, 30}, h \in {<<3, 2>>, <<2, 2>>, <<4>>}, r \in {<<>>, <<1>>, <<2>>, <<3>>},
     s \in {<<>>, "schd" :> 13, "soxx" :> 20}, w \in BOOLEAN, g \in {1, 3}, x \in {0, 3}, c \in {-40, -10},
     k \in {12, 50}, d \in {"qqq" :> 1, "gold" :> 1}}
  \cup {[GoodPlan EXCEPT !.formed = FALSE], [GoodPlan EXCEPT !.candidates = <<>>],
        [GoodPlan EXCEPT !.candidates["b"].start = ("qqq" :> 90)],
        [GoodPlan EXCEPT !.candidates["b"].end = ("schd" :> 100)],
        [GoodPlan EXCEPT !.controls = GoodPlan.candidates],
        [GoodPlan EXCEPT !.benchmark = "x"], [GoodPlan EXCEPT !.reference = "none"],
        [GoodPlan EXCEPT !.reference = "x"], [GoodPlan EXCEPT !.series = {"qqq"}],
        [GoodPlan EXCEPT !.modern.first = 37], [GoodPlan EXCEPT !.band = -1],
        [GoodPlan EXCEPT !.winShare = 0], [GoodPlan EXCEPT !.century.last = 40],
        [GoodPlan EXCEPT !.century.whole = FALSE], [GoodPlan EXCEPT !.taxed = {"x"}]}
  \cup {[GoodPlan EXCEPT !.neighbors = n] : n \in {<<>>, "r" :> <<"x">>, "r" :> <<"r">>, "r" :> <<"b", "b">>}}
  \cup {[GoodPlan EXCEPT !.products = ("qqq" :> p @@ "schd" :> Product(0, FALSE) @@ "soxx" :> Product(0, FALSE))] :
          p \in {Product(1, FALSE), Product(2, FALSE), Product(1, TRUE)}}

GoodHousehold ==
  [kind |-> "isa", formed |-> TRUE, candidates |-> {"b", "r"}, incumbent |-> "r",
   holding |-> GoodPlan.candidates["r"], series |-> {"qqq", "schd"},
   modern |-> GoodPlan.modern, century |-> GoodPlan.century,
   horizons |-> <<3, 4>>, budgets |-> <<10, 20>>, drawing |-> 10, sensitivity |-> <<20>>, pension |-> 6,
   arms |-> <<[key |-> "hold", declared |-> "hold", mode |-> "hold", cycle |-> 0],
              [key |-> "roll", declared |-> "roll", mode |-> "roll_general", cycle |-> 3]>>,
   baseline |-> "hold", profiles |-> <<[id |-> "young", offsets |-> <<0, 2>>]>>,
   band |-> 1, winShare |-> 60, blocks |-> 12]
MCHouseholdFiles ==
  {[GoodHousehold EXCEPT !.horizons = h, !.budgets = b, !.arms[2].cycle = y, !.pension = p, !.incumbent = i,
      !.holding.glide = g, !.century.first = c] :
     h \in {<<3, 4>>, <<2>>, <<3, 3>>, <<8>>}, b \in {<<10, 20>>, <<21>>}, y \in {0, 2, 3}, p \in {6, 19},
     i \in {"r", "gone"}, g \in {1, 5}, c \in {-40, -10}}
  \cup {[GoodHousehold EXCEPT !.arms[1].declared = "side"], [GoodHousehold EXCEPT !.arms[1].cycle = 3],
        [GoodHousehold EXCEPT !.drawing = 20], [GoodHousehold EXCEPT !.baseline = "side"],
        [GoodHousehold EXCEPT !.profiles[1].offsets = <<1>>],
        [GoodHousehold EXCEPT !.profiles[1].offsets = <<0, 0>>],
        [GoodHousehold EXCEPT !.profiles = GoodHousehold.profiles \o GoodHousehold.profiles],
        [GoodHousehold EXCEPT !.winShare = 100], [GoodHousehold EXCEPT !.series = {"qqq"}]}
MCIsaLaw == [term |-> 3, budget |-> 20, pension |-> 18]

Rule(id, core, safe, signal, universe) ==
  [id |-> id, core |-> core, safe |-> safe, signal |-> signal, universe |-> universe, sma |-> Absent,
   momentum |-> <<>>, fraction |-> Absent, vol |-> Absent, top |-> Absent, satellite |-> Absent, glide |-> Absent]
AllQqq == "qqq" :> Units
HalfQqq == ("qqq" :> 12 @@ "bil" :> 12)
Trio == <<"qqq", "soxx", "bil">>
DualRule == [Rule("dual_momentum_exit", HalfQqq, "CASH", "qqq", <<>>) EXCEPT !.sma = 3, !.momentum = <<1>>]
TaaRule == [Rule("taa_top_n", <<>>, "bil", "none", Trio) EXCEPT !.momentum = <<1, 2>>, !.top = 2]
BlendRule == [Rule("core_satellite_taa", AllQqq, "CASH", "none", <<"soxx", "qqq">>) EXCEPT
               !.momentum = <<1>>, !.top = 2, !.satellite = 12]
MCPayloads ==
  {Rule("static", AllQqq, "none", "none", <<>>), Rule("static", "qqq" :> 12, "none", "none", <<>>),
   Rule("static", AllQqq, "bil", "none", <<>>), DualRule, [DualRule EXCEPT !.momentum = <<1, 2>>],
   [Rule("trend_partial", HalfQqq, "bil", "soxx", <<>>) EXCEPT !.sma = 2, !.fraction = 12],
   [Rule("vol_target", HalfQqq, "CASH", "qqq", <<>>) EXCEPT !.vol = 10],
   TaaRule, [TaaRule EXCEPT !.safe = "CASH", !.momentum = <<1>>], [TaaRule EXCEPT !.top = 4],
   [TaaRule EXCEPT !.universe = <<"qqq", "qqq">>],
   Rule("gem", <<>>, "bil", "qqq", <<"qqq", "soxx">>), BlendRule, [BlendRule EXCEPT !.satellite = Absent],
   [Rule("glide_path", AllQqq, "bil", "none", <<>>) EXCEPT !.glide = 2]}
MCRates == {0, 10, Absent}
MCMemberships == {{"qqq", "soxx", "bil"}, {"soxx", "bil"}, {"qqq"}, {}}

CampaignArm(id, role, mode, band) ==
  [id |-> id, role |-> role, mode |-> mode, band |-> band, rule |-> Rule("static", AllQqq, "none", "none", <<>>)]
BaseArm == CampaignArm("base", "baseline", "buy_only", Absent)
CandidateArm == CampaignArm("candidate", "operational_candidate", "rebalance_band", 1)
WatchArm == CampaignArm("watch", "prospective_watch", "buy_only", Absent)
GoodCampaign ==
  [formed |-> TRUE, start |-> 0, end |-> 4, horizons |-> <<2, 3>>, primary |-> 3, step |-> 2, window |-> 1,
   crashes |-> {"crash"}, arms |-> <<CandidateArm, BaseArm>>, baseline |-> "base", regimeFile |-> TRUE,
   gate |-> [median |-> 100, worst |-> 90, tail |-> 90]]
MCCampaigns ==
  {GoodCampaign, [GoodCampaign EXCEPT !.horizons = <<2>>, !.primary = 2, !.arms = <<BaseArm, WatchArm, CandidateArm>>],
   [GoodCampaign EXCEPT !.horizons = <<3, 3>>, !.crashes = {}], [GoodCampaign EXCEPT !.horizons = <<3, 6>>],
   [GoodCampaign EXCEPT !.step = 1, !.horizons = <<3>>], [GoodCampaign EXCEPT !.formed = FALSE],
   [GoodCampaign EXCEPT !.start = 5], [GoodCampaign EXCEPT !.horizons = <<2>>], [GoodCampaign EXCEPT !.crashes = {"war"}],
   [GoodCampaign EXCEPT !.arms = <<BaseArm, WatchArm, WatchArm>>], [GoodCampaign EXCEPT !.arms = <<WatchArm>>],
   [GoodCampaign EXCEPT !.arms = <<BaseArm, [CandidateArm EXCEPT !.band = Absent]>>],
   [GoodCampaign EXCEPT !.arms = <<BaseArm, [WatchArm EXCEPT !.rule = TaaRule, !.band = 1]>>],
   [GoodCampaign EXCEPT !.arms = <<BaseArm, [WatchArm EXCEPT !.rule.core = <<>>]>>],
   [GoodCampaign EXCEPT !.arms = <<BaseArm, [WatchArm EXCEPT !.role = "baseline"]>>],
   [GoodCampaign EXCEPT !.baseline = "candidate"], [GoodCampaign EXCEPT !.regimeFile = FALSE]}
MCRegimes == ("crash" :> <<2, 2>>)
MCBaseWealth ==
  [free \in BOOLEAN |-> [k \in {2, 3} \X (0..3) |-> IF k = <<3, 1>> THEN (IF free THEN 10 ELSE 0)
                                                  ELSE 100 + 10 * k[2] + (IF free THEN 50 ELSE 0)]]
\* a plain, a peak between the grid points, a slope into the corner, equals,
\* and a summit no gate adopts beside one that is not a number
Distance(x, y) == IF x < y THEN y - x ELSE x - y
Land(height(_, _), adopts(_, _)) ==
  [p \in [1..2 -> 0..14] |-> [adopted |-> adopts(p[1], p[2]), finite |-> p # <<4, 5>>, ratio |-> height(p[1], p[2])]]
MCLow == <<0, 0>>
MCHigh == <<14, 10>>
MCOperational == <<0, 5>>
MCDelta == <<4, 4>>
MCLandscapes ==
  <<Land(LAMBDA x, y : 100, LAMBDA x, y : TRUE),
    Land(LAMBDA x, y : 130 - 2 * Distance(x, 10) - Distance(y, 5), LAMBDA x, y : TRUE),
    Land(LAMBDA x, y : 101 + x + y, LAMBDA x, y : TRUE),
    Land(LAMBDA x, y : 110, LAMBDA x, y : x # 0),
    Land(LAMBDA x, y : 100 + x * y, LAMBDA x, y : x < 5)>>
MCArmWealths == {<<90, 160>>, <<125, 140>>, <<105, 200>>}

MCTheses == <<"ai_compute", "ai_power_bottleneck", "physical_automation">>
MCVehicle == ("ai_compute" :> "soxx" @@ "ai_power_bottleneck" :> "pave" @@ "physical_automation" :> "robo")
MCMinYears == [t \in ToSet(MCTheses) |-> 5]
MCTargetYears == [t \in ToSet(MCTheses) |-> 10]
MCMappedWindow ==
  ("ai_compute" :> [start |-> 2012, end |-> 2024] @@ "ai_power_bottleneck" :> [start |-> 2019, end |-> 2024]
   @@ "physical_automation" :> [start |-> 2013, end |-> 2024])
Earned(median, ce) == [median |-> median, ce |-> ce]
ArmEarned(median, tail, ok) == [median |-> median, tail |-> tail, ok |-> ok]
Listing(soxx, pave, robo) == ("soxx" :> soxx @@ "pave" :> pave @@ "robo" :> robo)
Catalog(last, status, first, slots, cohort(_, _), arm(_)) ==
  [since |-> 2010, last |-> last, panel |-> [asOf |-> last, status |-> status], first |-> first,
   slots |-> [t \in ToSet(MCTheses) |-> slots],
   terminal |-> [t \in ToSet(MCTheses) |-> 100],
   cohorts |-> [t \in ToSet(MCTheses), years \in {5, 7, 8, 10}, end \in 2007 .. 2032 |-> cohort(t, years)],
   arms |-> [v \in {"soxx", "pave", "robo"}, weight \in {5, 10, 15}, end \in 2007 .. 2032 |-> arm(weight)]]
Thriving(t, years) == IF years = 10 THEN Earned(101, 103) ELSE Earned(103, 101)
Fading(t, years) == Earned(99, IF years = 10 THEN 97 ELSE 99)
Promises(weight) == IF weight = 10 THEN ArmEarned(101, 101, TRUE) ELSE ArmEarned(103, 99, TRUE)
Dull(weight) == ArmEarned(103, 103, FALSE)
Old == Listing(2001, 2017, 2013)
MCWorlds ==
  <<<<Catalog(2026, "FRESH", Old, TrackF, Thriving, Promises)>>,
    <<Catalog(2031, "FRESH", Old, TrackF, Thriving, Promises), Catalog(2032, "FRESH", Old, TrackF, Fading, Dull)>>,
    <<Catalog(2026, "STALE", Old, {"structural"}, Fading, Promises), Catalog(2031, "FRESH", Old, TrackF, Fading, Dull)>>,
    <<Catalog(2022, "FRESH", Listing(2001, 2019, 2020), TrackF, Fading, Promises)>>,
    <<Catalog(2031, "STALE", Listing(2001, 2017, Missing), TrackF, Thriving, Promises)>>,
    <<Catalog(2026, "INSUFFICIENT_DATA", Old, TrackF, Fading, Dull)>>,
    <<Catalog(2026, "unreadable", Old, TrackF, Fading, Dull), Catalog(2026, "FRESH", Listing(Missing, 2019, 2013), TrackF, Fading, Promises)>>>>
Case(world, mayFail, command, thesis, when, allow, exp) ==
  [world |-> world, mayFail |-> mayFail, command |-> command, thesis |-> thesis, asOf |-> when,
   allowStale |-> allow, experiment |-> exp]
MCCases ==
  {Case(w, f, "pipeline", t, when, allow, FALSE) :
     w \in 1 .. 7, t \in {"ai_compute", "physical_automation"}, when \in {Missing, 2020}, allow \in BOOLEAN, f \in {0}}
  \cup {Case(w, 1, "pipeline", "ai_compute", when, FALSE, FALSE) : w \in {1, 4}, when \in {Missing, 2020}}
  \cup {Case(w, 1, "incremental", t, when, FALSE, FALSE) :
          w \in 1 .. 7, t \in {"ai_power_bottleneck", "unknown"}, when \in {Missing, 2021, 2040}}
  \cup {Case(w, 1, "report", t, when, FALSE, exp) :
          w \in 1 .. 7, t \in {"ai_compute", "physical_automation", "unknown"}, when \in {Missing, 2020, 2040}, exp \in BOOLEAN}

\* the subjects that are not examined rest in one of their initial states
FirstCase == CHOOSE k \in ThesisCases : k.world = 1 /\ k.mayFail = 0
ThesisRests == ThesisInit /\ request = FirstCase
HpRests == HpInit /\ market = 1 /\ wanted = [contribution |-> 1, evaluations |-> 1, threads |-> 1]
TournamentRests ==
  TournamentInit /\ objective = "ce" /\ plan = CHOOSE p \in Plans : TRUE
HoldingRests ==
  /\ HoldingInit
  /\ drawdown = CHOOSE d \in DrawdownCases : TRUE
  /\ feasible = {CHOOSE x \in Cells : TRUE}
  /\ strong = {}
IsaRests == IsaInit /\ lives = Lives
PlansRest == PlansInit /\ file = GoodPlan
RulesRest == RulesInit /\ payload = TaaRule /\ eligible = Everyone
CampaignRests == CampaignInit /\ campaign = GoodCampaign
OthersRest == RulesRest /\ CampaignRests /\ HpRests /\ ThesisRests
DecisionsRest == TournamentRests /\ HoldingRests /\ IsaRests /\ PlansRest

Init ==
  \/ subject = "tournament" /\ TournamentInit /\ HoldingRests /\ IsaRests /\ PlansRest /\ OthersRest
  \/ subject = "holding" /\ TournamentRests /\ HoldingInit /\ IsaRests /\ PlansRest /\ OthersRest
  \/ subject = "isa" /\ TournamentRests /\ HoldingRests /\ IsaInit /\ PlansRest /\ OthersRest
  \/ subject = "plans" /\ TournamentRests /\ HoldingRests /\ IsaRests /\ PlansInit /\ OthersRest
  \/ subject = "rules" /\ DecisionsRest /\ RulesInit /\ CampaignRests /\ HpRests /\ ThesisRests
  \/ subject = "campaign" /\ DecisionsRest /\ RulesRest /\ CampaignInit /\ HpRests /\ ThesisRests
  \/ subject = "screen" /\ DecisionsRest /\ RulesRest /\ CampaignRests /\ HpInit /\ ThesisRests
  \/ subject = "thesis" /\ DecisionsRest /\ RulesRest /\ CampaignRests /\ HpRests /\ ThesisInit
decisionVars == <<tournamentVars, holdingVars, isaVars, planVars>>
otherVars == <<ruleVars, campaignVars, hpVars, thesisVars>>
Next ==
  /\ UNCHANGED subject
  /\ \/ /\ subject = "tournament" /\ TournamentNext
        /\ UNCHANGED <<holdingVars, isaVars, planVars, otherVars>>
     \/ /\ subject = "holding" /\ HoldingNext
        /\ UNCHANGED <<tournamentVars, isaVars, planVars, otherVars>>
     \/ /\ subject = "isa" /\ IsaNext
        /\ UNCHANGED <<tournamentVars, holdingVars, planVars, otherVars>>
     \/ /\ subject = "plans" /\ PlansNext
        /\ UNCHANGED <<tournamentVars, holdingVars, isaVars, otherVars>>
     \/ subject = "rules" /\ RulesNext /\ UNCHANGED <<decisionVars, campaignVars, hpVars, thesisVars>>
     \/ subject = "campaign" /\ CampaignNext /\ UNCHANGED <<decisionVars, ruleVars, hpVars, thesisVars>>
     \/ subject = "screen" /\ HpNext /\ UNCHANGED <<decisionVars, ruleVars, campaignVars, thesisVars>>
     \/ subject = "thesis" /\ ThesisNext /\ UNCHANGED <<decisionVars, ruleVars, campaignVars, hpVars>>
\* The holding and the operating policy that are frozen keep their word, and the
\* plans behind them can be decided; the parameters' screen reports the best it saw.
VerdictsSound == HoldingSound /\ PolicyPaysInEveryLife /\ AdmittedPlansDecide /\ ScreenSound /\ ThesisSound

Spec == Init /\ [][Next]_<<subject, decisionVars, otherVars>>
=============================================================================
