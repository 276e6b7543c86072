--------------------------- MODULE MCSimulators ---------------------------
(***************************************************************************)
(* The simulators that are not on the pension book, one subject a          *)
(* behaviour: the ISA household, the law files it is simulated under, the  *)
(* buy-only engine, the preflight before it, the research proxy and the    *)
(* historical campaign over both.                                          *)
(***************************************************************************)
EXTENDS IsaHousehold, TaxRegimes, AllocationEngine, ResearchProxy, Feasibility, HistoricalCampaign, TLC

CONSTANTS qqq, gld, qqqm, soxx, ndx, sox

VARIABLE subject

-----------------------------------------------------------------------------
(* The household: small laws, operating policies and earners *)

\* Two years of annual room at most, and a lifetime limit just above them.
SmallIsaLaw ==
  [annualLimit |-> 400, lifetimeLimit |-> 850, carryoverYears |-> 1, minYears |-> 1,
   allowance |-> [c \in Classes |-> IF c = "general" THEN 20 ELSE 40], preferentialIncome |-> 500,
   rate |-> 9, localRate |-> 10, transferRate |-> 10, transferCap |-> 30]

SmallPensionLaw ==
  [annualLimit |-> 400, creditLimit |-> 250, lowIncome |-> 500, lowRate |-> 15, highRate |-> 12,
   localRate |-> 10, threshold |-> 200, annuityRate |-> 5, aboveRate |-> 15]

SmallOverseasLaw == [deduction |-> 25, rate |-> 22]

\* Every operating mode; the rolling ones every year or every two.
AllArms ==
  [mode : {"no_isa", "hold"}, cycle : {0}] \cup [mode : RollModes, cycle : {1, 2}]

Earning(income, national, local) == [income |-> income, national |-> national, local |-> local]

\* A steady earner whose tax covers every credit, one whose tax runs out
\* within the transfer credit and who retires, and one whose tax covers
\* part of the ordinary credit.
ThreeProfiles ==
  {[initialClass |-> "preferential", years |-> [k \in Years |-> Earning(500, 100, 10)]],
   [initialClass |-> "general",
    years |-> [k \in Years |-> IF k + 1 < Horizon THEN Earning(800, 32, 1) ELSE Earning(0, 0, 0)]],
   [initialClass |-> "general",
    years |-> [k \in Years |-> IF k = 0 THEN Earning(400, 17, 3) ELSE Earning(900, 17, 1)]]}

-----------------------------------------------------------------------------
(* The buy-only engine: three tickers of two sleeves over four months of two *)
(* sessions.  The configurations take every module once, alone and with the *)
(* modules it may be combined with, and two that are refused.               *)

MCTickers == {qqq, gld, qqqm}
MCReserve == [maxWithhold |-> 10, trigger |-> 15, minInvest |-> 70, maxInvest |-> 200,
              months |-> 1, vix |-> 25]
MCShape == [min |-> 70, max |-> 150, window |-> 3]
MCKafi == [min |-> 70, max |-> 130]
MCAdaptive == [min |-> 0, max |-> 200, deadband |-> 5,
               downside |-> [x \in 0..100 |-> x], upside |-> [x \in 0..100 |-> x]]
MCCurrency == [maxDefer |-> 50, expensive |-> 80]
MCOverlay == [maxShift |-> 10, gate |-> TRUE]
MCMapping == [minImprovement |-> 2, candidates |-> (qqq :> <<qqq, qqqm>> @@ gld :> <<gld>>)]

MCPolicyMix == Mix(qqq :> 6 @@ gld :> 4, 10)
MCOverrideMix == Mix(qqq :> 9 @@ gld :> 1, 10)
Signal(depth, trend, vix, score, up, better) ==
  [depth |-> depth, trend |-> trend, vix |-> vix, score |-> score, alarm |-> vix > 25,
   vol |-> (qqq :> vix @@ gld :> 20),
   loading |-> (qqq :> trend @@ gld :> -trend), core |-> qqq, satellite |-> gld,
   signs |-> [t \in {qqq, gld} |-> [trend |-> up, volatile |-> t = gld,
                                fallen |-> depth > 15]],
   passing |-> (qqq :> (qqq :> 5 @@ qqqm :> better) @@ gld :> (gld :> 3))]
MCSignals == {Signal(5, 1, 15, 0, 1, 6), Signal(12, -1, 20, 45, 0, 8), Signal(35, -1, 40, 100, -1, 4)}

Config(policy, modules, targeting, cadence, schedule, banded, membership) ==
  [first |-> 2,
   last |-> CASE modules = {"shape"} -> 10 [] cadence = "twice_monthly" -> 4 [] OTHER -> 6,
   policy |-> policy, modules |-> modules, targeting |-> targeting, cadence |-> cadence,
   schedule |-> schedule, banded |-> banded, membership |-> membership]
MCConfigs ==
  {Config("fixed", {"reserve"}, {}, cadence, v, FALSE, FALSE) :
       cadence \in {"monthly", "twice_monthly"}, v \in ReserveSchedules}
  \cup {Config("fixed", {m}, {}, "monthly", "off", banded, FALSE) :
           m \in {"kafi", "adaptive"}, banded \in BOOLEAN}
  \cup {Config("fixed", {"shape"}, {}, "monthly", "off", TRUE, FALSE)}
  \cup {Config("fixed", {}, g, "month_open", "off", TRUE, TRUE) : g \in {{"tilt"}, {"riskBudget"}}}
  \cup {Config("operational", {}, g, "monthly", "off", FALSE, TRUE) : g \in {{}, {"tilt"}}}
  \cup {Config("fixed", {"overlay"}, {}, "monthly", "off", FALSE, FALSE),
        Config("fixed", {"mapping", "currency"}, {}, "twice_monthly", "off", FALSE, TRUE),
        Config("inverseVol", {"currency"}, {}, "month_open", "off", FALSE, FALSE),
        Config("fixed", {"overlay", "reserve"}, {}, "monthly", "v1", FALSE, FALSE),
        Config("fixed", {"shape"}, {}, "twice_monthly", "off", FALSE, FALSE)}
MCLives == {[t \in MCTickers |-> [first |-> 1, last |-> 12]],
            [t \in MCTickers |-> [first |-> 1, last |-> IF t = qqq THEN 5 ELSE 12]]}
MCMarkets == {[rate |-> 2, close |-> (qqq :> 3 @@ gld :> 5 @@ qqqm :> 4)],
              [rate |-> 3, close |-> (qqq :> 4 @@ gld :> 2 @@ qqqm :> 3)]}

-----------------------------------------------------------------------------
(* The preflight: four price paths with and without a gap *)

MCPaths == {<<1, 2, 1, 2, 1, 2, 1, 2, 1>>, <<1, 2, 1, 1, 1, 1, 1, 2, 1>>, <<2, 2, 2, 2, 1, 2, 1, 2, 2>>,
            <<0, 0, 1, 2, 4, 8, 4, 2, 4>>}
Gapped(path, gap) == [s \in DOMAIN path |-> IF s = gap THEN 0 ELSE path[s]]
MCWorlds ==
  {[close |-> Gapped(p, g), mark |-> m, fx |-> (1 .. 9) \ {x}, cpi |-> {c, 7}, vix |-> {v}] :
     p \in MCPaths, g \in {0, 3, 5, 7}, m \in {1 .. 9, 4 .. 9, 1 .. 6}, x \in {0, 3, 9}, c \in {1, 4}, v \in {1, 5}}
MCSetups == {[modules |-> {}, gate |-> FALSE]}
            \cup {[modules |-> {"overlay"}, gate |-> g] : g \in BOOLEAN}
            \cup {[modules |-> {"reserve", "currency"}, gate |-> g] : g \in BOOLEAN}
MCAskedWindows == {<<1, 8>>, <<5, 8>>, <<2, 6>>, <<4, 7>>, <<5, 5>>}

-----------------------------------------------------------------------------
(* The law files: one of each that loads, the others with one fault; the    *)
(* accounts are below, at and above the threshold of a few drawing years.    *)

GoodIsa ==
  [documented |-> TRUE, year |-> 1, annualLimit |-> 40, lifetimeLimit |-> 80, carryoverYears |-> 1, minYears |-> 1,
   generalAllowance |-> 2, preferentialAllowance |-> 4, preferentialWage |-> 50, preferentialComprehensive |-> 30,
   rate |-> 9, localRate |-> 10, transferRate |-> 10, transferCap |-> 3]
Bracket(from, rate) == [from |-> from, rate |-> rate]
GoodPension ==
  [documented |-> TRUE, year |-> 1, annualLimit |-> 40, creditLimit |-> 25, wageThreshold |-> 50,
   comprehensiveThreshold |-> 40, threshold |-> 12, lowRate |-> 15, highRate |-> 12, localRate |-> 50,
   aboveRate |-> 25, nonPensionRate |-> 30, withholdingRate |-> 15, foreignCreditRate |-> 50,
   minimumAge |-> 3, minimumYears |-> 1, limitMultiplier |-> 120, limitFinalYear |-> 2,
   bands |-> <<Bracket(0, 15), Bracket(4, 10), Bracket(6, 5)>>]
GoodOverseas ==
  [documented |-> TRUE, rate |-> 22, dividendRate |-> 15, interestRate |-> 15, deduction |-> 25,
   financialIncomeThreshold |-> 20, lossCarryforward |-> FALSE, settlementSessions |-> 2, paymentMonth |-> 5,
   basis |-> "fifo"]
Spoiled(file, key, value) == {[file EXCEPT ![key] = value], [k \in DOMAIN file \ {key} |-> file[k]]}
MCIsaFiles ==
  {[GoodIsa EXCEPT !.transferRate = r, !.transferCap = c] : r \in {0, 10}, c \in {0, 3}}
  \cup UNION {Spoiled(GoodIsa, k, -1) : k \in IsaAmounts \cup IsaRates \cup {"carryoverYears", "year"}}
  \cup UNION {Spoiled(GoodIsa, k, 0) : k \in {"minYears", "annualLimit", "preferentialAllowance"}}
  \cup {[GoodIsa EXCEPT !.lifetimeLimit = 39]}
MCPensionFiles ==
  {[GoodPension EXCEPT !.aboveRate = a, !.nonPensionRate = n, !.foreignCreditRate = c] :
      a \in {12, 25}, n \in {0, 30}, c \in {0, 99}}
  \cup UNION {Spoiled(GoodPension, k, 0) : k \in PensionAmounts \cup {"minimumAge", "limitMultiplier", "year"}}
  \cup UNION {Spoiled(GoodPension, k, 100) : k \in PensionRates}
  \cup {[GoodPension EXCEPT !.highRate = 16], [GoodPension EXCEPT !.creditLimit = 41]}
  \cup {[GoodPension EXCEPT !.bands = b] :
           b \in {<<>>, <<Bracket(1, 5)>>, <<Bracket(0, 5), Bracket(0, 4)>>, <<Bracket(0, 15), Bracket(6, 5), Bracket(4, 10)>>,
                  <<Bracket(0, 100)>>, <<Bracket(0, 5)>>, <<Bracket(0, 5), Bracket(2, 30)>>}}
MCOverseasFiles ==
  {GoodOverseas}
  \cup UNION {Spoiled(GoodOverseas, k, -1) : k \in OverseasAmounts \cup OverseasRates}
  \cup UNION {Spoiled(GoodOverseas, k, 0) : k \in {"settlementSessions", "paymentMonth"}}
  \cup {[GoodOverseas EXCEPT !.lossCarryforward = TRUE], [GoodOverseas EXCEPT !.basis = "lifo"]}
MCFiles ==
  {[isa |-> i, pension |-> GoodPension, overseas |-> GoodOverseas] : i \in MCIsaFiles}
  \cup {[isa |-> GoodIsa, pension |-> p, overseas |-> GoodOverseas] : p \in MCPensionFiles}
  \cup {[isa |-> GoodIsa, pension |-> GoodPension, overseas |-> o] : o \in MCOverseasFiles}
MCSavers ==
  [balance : {0, 24, 97}, uncredited : {0, 30}, withheld : {0, 9}, age : {2, 4, 7}, kind : {"wage"},
   drawing : {1, 9}]
  \cup [balance : {97}, uncredited : {5}, withheld : {0}, age : {3, 5}, kind : {"comprehensive"}, drawing : {8}]

-----------------------------------------------------------------------------
(* The proxy: two research series over eight sessions, one of which may be   *)
(* absent, and errands whose start lies before, at or after the first row.   *)

MCLines == {<<1, 1, 1, 1, 1, 1, 1, 1>>, <<1, 3, 3, 1, 3, 1, 3, 1>>, <<0, 0, 3, 1, 1, 3, 3, 3>>,
            <<3, 1, 3, 1, 0, 1, 3, 1>>, <<0, 0, 0, 1, 3, 3, 1, 1>>, <<3, 1, 3, 3, 1, 3, 0, 0>>}
MCAbsent == [d \in 1 .. 8 |-> 0]
MCTapes == {[gross |-> (ndx :> a @@ sox :> b), fx |-> q] :
              a \in MCLines, b \in MCLines \cup {MCAbsent}, q \in {1 .. 8, 2 .. 8, 1 .. 6}}
MCErrands ==
  {[kind |-> "history", start |-> s, asOf |-> a, fallbacks |-> f] :
     s \in {1, 2, 5, 8}, a \in {4, 6, 7, 8}, f \in {<<>>, <<3>>, <<6, 4>>}}
  \cup {[kind |-> "mix", start |-> s, asOf |-> a, fallbacks |-> <<>>] : s \in 1 .. 4, a \in {5, 7, 8}}
MCMixWeights == ndx :> 1 @@ sox :> 1

-----------------------------------------------------------------------------
(* The historical campaign: catalogs that start late, lack a sleeve or a series *)

MCSpecs == {[start |-> s, end |-> e, horizon |-> p[1], step |-> p[2]] :
              s \in {1, 4, 7}, e \in {12, 14, 17}, p \in {<<3, 1>>, <<2, 2>>, <<2, 1>>}}
MCCoverages ==
  {[listed |-> (qqq :> q @@ soxx :> x), fx |-> f, cpi |-> c, last |-> l, trusted |-> t] :
     q \in {1, 3}, x \in {0, 2, 6}, f \in {0, 1, 7}, c \in {1, 2, 8}, l \in {13, 15, 18}, t \in BOOLEAN}
MCOutcomes == {<<2, 4, 2, 4, 2, 4, 2, 4>>, <<4, 4, 4, 4, 4, 4, 4, 4>>, <<2, 2, 0, 4, 4, 4, 4, 4>>}
MCStress == {<<4, 4, 3, 2>>, <<4, 0, 3, 3>>, <<0, 2, 2, 2>>}
MCRegimes == <<[start |-> 1, end |-> 2], [start |-> 5, end |-> 12], [start |-> 10, end |-> 11]>>

-----------------------------------------------------------------------------
\* the subjects that are not examined rest in one of their initial states
HouseholdRests ==
  arm = (CHOOSE a \in Arms : TRUE) /\ profile = (CHOOSE p \in Profiles : TRUE) /\ Init
AllocationRests ==
  config = Locked(CHOOSE c \in Configs : TRUE) /\ lives = (CHOOSE l \in Lives : TRUE) /\ AllocationInit
PreflightRests ==
  /\ world = (CHOOSE w \in Worlds : TRUE) /\ setup = (CHOOSE s \in Setups : TRUE)
  /\ asked = (CHOOSE w \in AskedWindows : TRUE)
  /\ FeasInit
ProxyRests == tape = (CHOOSE t \in Tapes : TRUE) /\ errand = (CHOOSE e \in Errands : TRUE) /\ ProxyInit
LawsRest ==
  files = (CHOOSE f \in Files : TRUE) /\ saver = (CHOOSE a \in Savers : TRUE)
  /\ command = "afterTaxCampaign" /\ LawInit
HistoryRests ==
  spec = (CHOOSE s \in Specs : TRUE) /\ coverage = (CHOOSE c \in Coverages : TRUE) /\ HistoryInit

SimInit ==
  \/ /\ subject = "household"
     /\ LawsRest /\ AllocationRests /\ PreflightRests /\ ProxyRests /\ HistoryRests /\ Init
  \/ /\ subject = "laws"
     /\ HouseholdRests /\ AllocationRests /\ PreflightRests /\ ProxyRests /\ HistoryRests /\ LawInit
  \/ /\ subject = "allocation"
     /\ HouseholdRests /\ LawsRest /\ PreflightRests /\ ProxyRests /\ HistoryRests /\ AllocationInit
  \/ /\ subject = "preflight"
     /\ HouseholdRests /\ LawsRest /\ AllocationRests /\ ProxyRests /\ HistoryRests /\ FeasInit
  \/ /\ subject = "proxy"
     /\ HouseholdRests /\ LawsRest /\ AllocationRests /\ PreflightRests /\ HistoryRests /\ ProxyInit
  \/ /\ subject = "history"
     /\ HouseholdRests /\ LawsRest /\ AllocationRests /\ PreflightRests /\ ProxyRests /\ HistoryInit
SimNext ==
  /\ UNCHANGED subject
  /\ \/ /\ subject = "household" /\ Next
        /\ UNCHANGED <<lawVars, allocationVars, feasVars, proxyVars, historyVars>>
     \/ /\ subject = "laws" /\ LawNext
        /\ UNCHANGED <<vars, allocationVars, feasVars, proxyVars, historyVars>>
     \/ /\ subject = "allocation" /\ AllocationNext
        /\ UNCHANGED <<vars, lawVars, feasVars, proxyVars, historyVars>>
     \/ /\ subject = "preflight" /\ FeasNext
        /\ UNCHANGED <<vars, lawVars, allocationVars, proxyVars, historyVars>>
     \/ /\ subject = "proxy" /\ ProxyNext
        /\ UNCHANGED <<vars, lawVars, allocationVars, feasVars, historyVars>>
     \/ /\ subject = "history" /\ HistoryNext
        /\ UNCHANGED <<vars, lawVars, allocationVars, feasVars, proxyVars>>
SimSpec ==
  SimInit /\ [][SimNext]_<<subject, vars, lawVars, allocationVars, feasVars, proxyVars, historyVars>>

\* What is checked before a run, the law it is under, what stands in where there
\* is no history, and the campaign that reports both keep their word.
PreflightSound == FeasibilitySound /\ LawsSound /\ ProxySound /\ HistorySound
=============================================================================
