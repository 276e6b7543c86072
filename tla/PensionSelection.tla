--------------------------- MODULE PensionSelection ---------------------------
(***************************************************************************)
(* The verdict on the pension arms: the panel of monthly returns they are  *)
(* estimated from, the growth each arm loses against the best one over a   *)
(* grid of premium scenarios, its stressed tail, and the worst paired      *)
(* ratio of the historical campaigns, which are run one after the other.   *)
(* Rates and ratios are integers, a return is the pair of the marks it     *)
(* leads from and to; an arm's growth is a line in the premium.            *)
(***************************************************************************)
EXTENDS Integers, Sequences, FiniteSets, FiniteSetsExt, SequencesExt

CONSTANTS
  MarkSets,        \* what the tickers may be marked at: ticker -> day -> mark, 0 for none
  EstimationStart, EstimationEnd, DaysPerMonth, MinReturns,
  MarketTicker, AnchorTicker,  \* the ticker that stands for the market, and the one whose premium is estimated
  SelectionArms,   \* the configured arms by id, the first the baseline
  IdRank,          \* arm -> its place in the alphabet
  Lines,           \* what may be estimated: arm -> [intercept, slope, volatility, tickers]
  Estimates,       \* [mean, deviation] of the premium
  GridWidth, GridPoints,
  Tails,           \* arm -> [multiple, drawdown]
  CampaignLists,   \* sequences of [baseline, fits, summaries of [arm, horizon, worst]]
  AllowedHorizons,
  Tolerance, MinMultiple, MaxDrawdown, Floor,
  Undefined

ArmSet == Range(SelectionArms)
ASSUME SelectionAssumption ==
  /\ GridPoints \in Nat /\ GridPoints >= 3 /\ GridPoints % 2 = 1 /\ GridWidth \in Nat \ {0} /\ Tolerance \in Nat
  /\ \A e \in Estimates : /\ e.mean \in Int /\ e.deviation \in Nat \ {0}
                          /\ (2 * GridWidth * e.deviation) % (GridPoints - 1) = 0
  /\ IdRank \in [ArmSet -> Nat] /\ IsInjective(IdRank)
  /\ SelectionArms \in Seq(ArmSet) \ {<<>>} /\ Undefined \notin ArmSet \cup Int
  /\ \A l \in Lines : \A a \in ArmSet :
       l[a].intercept \in Int /\ l[a].slope \in Int /\ l[a].volatility \in Nat /\ l[a].tickers \in Nat
  /\ MinMultiple \in Int /\ MaxDrawdown \in Int /\ Floor \in Int
  /\ \A row \in Tails : \A a \in ArmSet : row[a].multiple \in Int /\ row[a].drawdown \in Int
  /\ \A list \in CampaignLists : /\ list \in Seq(Range(list))
                                 /\ \A c \in Range(list) : /\ c.summaries \in Seq(Range(c.summaries))
                                                           /\ \A s \in Range(c.summaries) : s.worst \in Int \cup {Undefined}
ASSUME MarksAssumption ==
  /\ EstimationStart \in Nat /\ EstimationEnd \in Nat /\ EstimationStart <= EstimationEnd
  /\ DaysPerMonth \in Nat \ {0} /\ MinReturns \in Nat \ {0}
  /\ \A m \in MarkSets : /\ IsFiniteSet(DOMAIN m) /\ DOMAIN m # {}
                         /\ \A t \in DOMAIN m : /\ IsFiniteSet(DOMAIN m[t])
                                                /\ \A d \in DOMAIN m[t] : d \in Nat /\ m[t][d] \in Nat

VARIABLES
  marks, lines, estimate, tails, campaigns,  \* given
  returns,             \* month -> [end, of], the panel, Undefined before
  fitted,
  at,                  \* <<campaign, summary>> to read next
  worst, undefinedArms,
  verdicts, selected, stopped

selectionGiven == <<marks, lines, estimate, tails, campaigns>>
selectionVars == <<selectionGiven, returns, fitted, at, worst, undefinedArms, verdicts, selected, stopped>>

SelectionInit ==
  /\ marks \in MarkSets /\ returns = Undefined /\ fitted = FALSE
  /\ lines \in Lines /\ estimate \in Estimates /\ tails \in Tails /\ campaigns \in CampaignLists
  /\ at = <<1, 0>>
  /\ worst = [a \in ArmSet |-> Undefined] /\ undefinedArms = {}
  /\ verdicts = <<>> /\ selected = Undefined /\ stopped = FALSE

-----------------------------------------------------------------------------
(* The monthly panel *)

MarkMonth(d) == d \div DaysPerMonth
EstimationMonths == MarkMonth(EstimationStart) .. MarkMonth(EstimationEnd)
DaysInAll(t, m) == {d \in DOMAIN marks[t] : MarkMonth(d) = m /\ marks[t][d] > 0}
DaysIn(t, m) == {d \in DaysInAll(t, m) : EstimationStart <= d /\ d <= EstimationEnd}
LastMark(t, m) == marks[t][Max(DaysIn(t, m))]

\* Refused when a ticker has no mark in a month or the window is too short.
EstimatePanel ==
  /\ ~stopped /\ returns = Undefined
  /\ IF \/ \E t \in DOMAIN marks, m \in EstimationMonths : DaysIn(t, m) = {}
        \/ Cardinality(EstimationMonths) - 1 < MinReturns
     THEN stopped' = TRUE /\ UNCHANGED returns
     ELSE /\ returns' = [m \in EstimationMonths \ {Min(EstimationMonths)} |->
               [end |-> Max({Max(DaysIn(t, m)) : t \in DOMAIN marks}),
                of  |-> [t \in DOMAIN marks |-> <<LastMark(t, m - 1), LastMark(t, m)>>]]]
          /\ UNCHANGED stopped
  /\ UNCHANGED <<selectionGiven, fitted, at, worst, undefinedArms, verdicts, selected>>

-----------------------------------------------------------------------------
(* The estimates *)

StartMark(t, m) == returns[m].of[t][1]
\* Two months' returns of a ticker apart, times the marks they start from.
Apart(t, m, n) == returns[m].of[t][2] * StartMark(t, n) - returns[n].of[t][2] * StartMark(t, m)
Flat(t) == \A m, n \in DOMAIN returns : Apart(t, m, n) = 0

\* The market leaves nothing of the anchor's returns unexplained.
Explained == \A m, n, k \in DOMAIN returns :
  Apart(MarketTicker, m, n) * Apart(AnchorTicker, k, n) * StartMark(MarketTicker, k) * StartMark(AnchorTicker, m)
    = Apart(MarketTicker, k, n) * Apart(AnchorTicker, m, n) * StartMark(MarketTicker, m) * StartMark(AnchorTicker, k)

\* Lines and premium are estimated, unless the returns cannot tell them apart.
FitModel ==
  /\ ~stopped /\ returns # Undefined /\ ~fitted
  /\ IF Flat(MarketTicker) \/ Explained THEN stopped' = TRUE /\ UNCHANGED fitted
     ELSE fitted' = TRUE /\ UNCHANGED stopped
  /\ UNCHANGED <<selectionGiven, returns, at, worst, undefinedArms, verdicts, selected>>

-----------------------------------------------------------------------------
(* Scenarios *)

DeltaGrid ==
  LET low == estimate.mean - GridWidth * estimate.deviation
      step == (2 * GridWidth * estimate.deviation) \div (GridPoints - 1)
  IN  [i \in 1 .. GridPoints |-> IF i = 1 + GridPoints \div 2 THEN estimate.mean ELSE low + (i - 1) * step]

Growth(arm, i) == lines[arm].intercept + lines[arm].slope * DeltaGrid[i]
BestGrowth(i) == Max({Growth(a, i) : a \in ArmSet})
MaxRegretCentral(arm) == LET i == 1 + GridPoints \div 2 IN BestGrowth(i) - Growth(arm, i)
MaxRegret(arm) == Max({BestGrowth(i) - Growth(arm, i) : i \in 1 .. GridPoints})
RegretCeiling == Min({MaxRegret(a) : a \in ArmSet}) + Tolerance

-----------------------------------------------------------------------------
(* The historical campaigns *)

Campaign == campaigns[at[1]]
\* A campaign is refused before it runs if its baseline is another one, it has a
\* household view or an arm both name has other targets there (~fits).
OpenCampaign ==
  /\ ~stopped /\ fitted /\ at[1] <= Len(campaigns) /\ at[2] = 0
  /\ IF Campaign.fits /\ Campaign.baseline = SelectionArms[1]
     THEN at' = <<at[1], 1>> /\ UNCHANGED stopped
     ELSE stopped' = TRUE /\ UNCHANGED at
  /\ UNCHANGED <<selectionGiven, returns, fitted, worst, undefinedArms, verdicts, selected>>

MergedForgetful(arm, ratio) ==
  IF ratio = Undefined THEN Undefined
  ELSE IF worst[arm] = Undefined THEN ratio ELSE Min({worst[arm], ratio})
Merged(arm, ratio) ==
  IF ratio = Undefined \/ arm \in undefinedArms THEN Undefined
  ELSE IF worst[arm] = Undefined THEN ratio ELSE Min({worst[arm], ratio})

CountsAny(s) == s.arm \in ArmSet
Counts(s) == s.arm \in ArmSet /\ s.horizon \in AllowedHorizons

ReadSummary ==
  /\ ~stopped /\ at[1] <= Len(campaigns) /\ at[2] \in DOMAIN Campaign.summaries
  /\ LET s == Campaign.summaries[at[2]] IN
     IF Counts(s)
     THEN /\ worst' = [worst EXCEPT ![s.arm] = Merged(s.arm, s.worst)]
          /\ undefinedArms' = IF s.worst = Undefined THEN undefinedArms \cup {s.arm} ELSE undefinedArms
     ELSE UNCHANGED <<worst, undefinedArms>>
  /\ at' = IF at[2] < Len(Campaign.summaries) THEN <<at[1], at[2] + 1>> ELSE <<at[1] + 1, 0>>
  /\ UNCHANGED <<selectionGiven, returns, fitted, verdicts, selected, stopped>>

-----------------------------------------------------------------------------
(* The verdict *)

Reasons(arm) ==
  (IF MaxRegret(arm) > RegretCeiling THEN {"REGRET_ABOVE_TOLERANCE"} ELSE {})
  \cup (IF tails[arm].multiple < MinMultiple THEN {"STRESS_PRINCIPAL_TAIL"} ELSE {})
  \cup (IF tails[arm].drawdown > MaxDrawdown THEN {"STRESS_PRE_RETIREMENT_DRAWDOWN"} ELSE {})
  \cup (IF worst[arm] = Undefined THEN {"NO_HISTORICAL_EVIDENCE"}
        ELSE IF worst[arm] < Floor THEN {"HISTORICAL_BELOW_FLOOR"} ELSE {})

SimplerRiskFirst(a, b) ==
  \/ lines[a].volatility < lines[b].volatility
  \/ lines[a].volatility = lines[b].volatility /\ lines[a].tickers < lines[b].tickers
  \/ lines[a].volatility = lines[b].volatility /\ lines[a].tickers = lines[b].tickers /\ IdRank[a] <= IdRank[b]
Simpler(a, b) ==
  \/ lines[a].tickers < lines[b].tickers
  \/ lines[a].tickers = lines[b].tickers /\ lines[a].volatility < lines[b].volatility
  \/ lines[a].tickers = lines[b].tickers /\ lines[a].volatility = lines[b].volatility /\ IdRank[a] <= IdRank[b]

Passers == {a \in ArmSet : Reasons(a) = {}}
Decide ==
  /\ ~stopped /\ fitted /\ at[1] > Len(campaigns) /\ verdicts = <<>>
  /\ verdicts' = [i \in DOMAIN SelectionArms |-> [arm |-> SelectionArms[i], reasons |-> Reasons(SelectionArms[i])]]
  /\ selected' = IF Passers = {} THEN Undefined
                 ELSE CHOOSE a \in Passers : \A b \in Passers : Simpler(a, b)
  /\ UNCHANGED <<selectionGiven, returns, fitted, at, worst, undefinedArms, stopped>>

SelectionNext == EstimatePanel \/ FitModel \/ OpenCampaign \/ ReadSummary \/ Decide
SelectionSpec == SelectionInit /\ [][SelectionNext]_selectionVars

-----------------------------------------------------------------------------
(* Properties *)

ReadSoFar == UNION {{campaigns[c].summaries[i] :
                       i \in {i \in DOMAIN campaigns[c].summaries : c < at[1] \/ i < at[2]}} :
                    c \in {c \in DOMAIN campaigns : c <= at[1]}}

\* The historical evidence of an arm is its worst ratio over everything read,
\* and no evidence once any of it is undefined, in whatever order campaigns
\* and horizons come (_historical_worst_ratios).
HistoryOrderFree == \A a \in ArmSet :
  LET own == {s.worst : s \in {s \in ReadSoFar : s.arm = a /\ s.horizon \in AllowedHorizons}}
  IN  worst[a] = IF own = {} \/ Undefined \in own THEN Undefined ELSE Min(own)

\* The arm selected holds in every scenario: nowhere on the grid does it give
\* up more than the tolerance beyond the least regret, its tail and its history
\* pass, and no simpler or calmer arm does as well; the verdict is only NONE if
\* every arm has a reason, and the regret gate never fails them all.
SelectionHolds == verdicts # <<>> =>
  /\ selected # Undefined =>
       /\ \A i \in 1 .. GridPoints : Growth(selected, i) + RegretCeiling >= BestGrowth(i)
       /\ tails[selected].multiple >= MinMultiple /\ tails[selected].drawdown <= MaxDrawdown
       /\ \A s \in ReadSoFar : s.arm = selected /\ s.horizon \in AllowedHorizons => s.worst # Undefined /\ s.worst >= Floor
       /\ \A i \in DOMAIN verdicts : verdicts[i].reasons = {} =>
            \/ lines[verdicts[i].arm].tickers > lines[selected].tickers
            \/ lines[verdicts[i].arm].tickers = lines[selected].tickers
               /\ lines[verdicts[i].arm].volatility >= lines[selected].volatility
  /\ selected = Undefined => \A i \in DOMAIN verdicts : verdicts[i].reasons # {}
  /\ \E i \in DOMAIN verdicts : "REGRET_ABOVE_TOLERANCE" \notin verdicts[i].reasons

\* The marks the returns of a ticker start from, or lead to, multiplied.
Multiplied(t, k) ==
  LET upTo[m \in EstimationMonths] ==
        IF m = Min(EstimationMonths) THEN 1 ELSE upTo[m - 1] * returns[m].of[t][k]
  IN  upTo[Max(EstimationMonths)]

\* The monthly returns of every ticker compound to what it gained between its
\* last mark of the base month and its last one within the window: no month is
\* skipped or counted twice, and nothing after the window is seen
\* (build_monthly_krw_panel).
ReturnsChain == returns # Undefined => \A t \in DOMAIN marks :
  LET marked == {d \in DOMAIN marks[t] : marks[t][d] > 0}
      base == Min(EstimationMonths)
      first == Max({d \in marked : d < (base + 1) * DaysPerMonth})
      last == Max({d \in marked : d <= EstimationEnd})
  IN  /\ Multiplied(t, 2) * marks[t][first] = Multiplied(t, 1) * marks[t][last]
      /\ DOMAIN returns = EstimationMonths \ {base}
      /\ \A m \in DOMAIN returns : returns[m].end <= EstimationEnd /\ MarkMonth(returns[m].end) = m

SelectionSound == ReturnsChain /\ HistoryOrderFree /\ SelectionHolds
=============================================================================
