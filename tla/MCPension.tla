----------------------------- MODULE MCPension -----------------------------
(***************************************************************************)
(* The pension research, one subject a behaviour: the book of an account,  *)
(* the monthly panels and their cohorts, the exchange rate, the campaign   *)
(* over arms, incomes and windows, and the selection from its reports.     *)
(***************************************************************************)
EXTENDS PensionLedger, PensionPanels, PensionCampaign, PensionSelection, TLC

CONSTANTS spy, schd, gold, mkt, valueFactor, armBase, armOther, incomeLow, incomeHigh,
          armPlain, armTech, armMix

VARIABLE subject

-----------------------------------------------------------------------------
(* The ledger: laws, holders and plans *)

SmallIsaLaw ==
  [annualLimit |-> 40, lifetimeLimit |-> 80, carryoverYears |-> 1, minYears |-> 1,
   allowance |-> [c \in Classes |-> 2], preferentialIncome |-> 50,
   rate |-> 9, localRate |-> 10, transferRate |-> 10, transferCap |-> 3]
SmallPensionLaw ==
  [annualLimit |-> 40, creditLimit |-> 25, lowIncome |-> 50, lowRate |-> 15, highRate |-> 12,
   localRate |-> 50, threshold |-> 12, annuityRate |-> 10, aboveRate |-> 25]
SmallOverseasLaw == [deduction |-> 2, rate |-> 22]

Earning(income, national, local) == [income |-> income, national |-> national, local |-> local]

\* One whose tax covers the credit and who retires in the last year, and one
\* whose tax covers part of it, already drawing in the second year.
TwoHolders ==
  {[opened |-> 1, eligible |-> FirstDay(LastYear) - 1, started |-> FirstDay(LastYear),
    years |-> [y \in Years |-> Earning(40, 100, 10)], other |-> [y \in Years |-> 0]],
   [opened |-> 1, eligible |-> FirstDay(2), started |-> FirstDay(2) + 1,
    years |-> [y \in Years |-> Earning(80, 2, 1)], other |-> [y \in Years |-> 5]]}

\* Cash at the start or in the middle of a year, one or two contributions a
\* year, modest or excessive payments.
SmallPlans ==
  [available : {[d \in Days |-> IF d = 1 THEN 30 ELSE 0],
                [d \in Days |-> IF d = 1 THEN 9 ELSE IF d = SessionsPerYear - 1 THEN 14 ELSE 0]},
   dates : {[y \in Years |-> IF y < LastYear THEN {FirstDay(y), LastDay(y)} ELSE {}],
            [y \in Years |-> IF y = 1 THEN {2} ELSE {}]},
   withdrawals : {[y \in Years |-> IF y = LastYear THEN 13 ELSE 0],
                  [y \in Years |-> IF y = 1 THEN 0 ELSE 9],
                  [y \in Years |-> 0]}]

-----------------------------------------------------------------------------
(* Panels: a fund spliced onto factors, one spliced onto a single factor *)

MCRules == (schd :> [first |-> 4, weights |-> (mkt :> 2 @@ valueFactor :> 2)])
        @@ (gold :> [first |-> 5, weights |-> (valueFactor :> 4)])
MCListedFrom == (spy :> 0 @@ schd :> 6 @@ gold :> 8)
MCCloses == {(spy :> p[1] @@ schd :> p[2] @@ gold :> 1) : p \in {<<1, 1>>, <<2, 1>>, <<1, 2>>, <<2, 0>>}}
MCMidClose == (spy :> 1 @@ schd :> 2 @@ gold :> 1)
MCReports == {[growth |-> (mkt :> 1 @@ valueFactor :> 3), lag |-> 1], [growth |-> (mkt :> 2 @@ valueFactor :> 2), lag |-> 3]}
MCSchedules == <<[start |-> (spy :> 2 @@ schd :> 2), end |-> (spy :> 2 @@ schd :> 2), glide |-> 0],
                 [start |-> (spy :> 4 @@ gold :> 0), end |-> (spy :> 0 @@ gold :> 4), glide |-> 2]>>
MCKeep == (spy :> 2 @@ schd :> 2 @@ gold :> 1)

-----------------------------------------------------------------------------
(* The campaign: what the simulator may return for a cell *)

MCCampaignArms == <<armBase, armOther>>
MCIncomes == <<incomeLow, incomeHigh>>
MCHorizons == <<2>>
MCCash == (1 :> 4 @@ 2 :> 1 @@ 4 :> 3 @@ 6 :> 4)
MCOutcomes == {[yearly |-> 0, refund |-> 0, liquidation |-> 0, low |-> 0, external |-> 0, payouts |-> FALSE],
               [yearly |-> 2, refund |-> 1, liquidation |-> 3, low |-> 4, external |-> 0, payouts |-> FALSE],
               [yearly |-> 2, refund |-> 0, liquidation |-> 6, low |-> 6, external |-> 2, payouts |-> TRUE]}
MCUnfundable == [yearly |-> 4, refund |-> 0, liquidation |-> 4, low |-> 4, external |-> 0, payouts |-> FALSE]
MCCells == Range(Arms) \X Range(Profiles) \X Windows
MCEngines == [MCCells -> MCOutcomes] \cup {[c \in MCCells |-> MCUnfundable]}
MCYield == (armBase :> 1 @@ armOther :> 2)
MCIndexRows == {Missing, {[period |-> 0, at |-> 1, value |-> 10], [period |-> 2, at |-> 3, value |-> 12],
                      [period |-> 5, at |-> 7, value |-> 15]}}

-----------------------------------------------------------------------------
(* The selection *)

\* two tickers over four months of two days, with gaps, the first and the last
\* day outside the window; then a market that never varies, and one that
\* explains the other ticker
MCMarkSets ==
  {(spy :> <<2, 3, 1, 2, f, 4, 3, 5, 6>> @@ schd :> <<1, e, 3, 0, g, 2, h, 3, 7>>) :
     e \in {0, 2}, f \in {0, 1}, g \in {0, 2}, h \in {0, 4}}
  \cup {(spy :> <<1, 0, 1, 2, 0, 4, 0, 8, 9>> @@ schd :> <<1, 0, 3, 0, 2, 2, 0, 3, 7>>),
        (spy :> <<1, 0, 2, 2, 4, 4, 0, 8, 9>> @@ schd :> <<1, 3, 0, 6, 0, 0, 6, 12, 7>>)}
MCSelArms == <<armPlain, armTech, armMix>>
MCIdRank == (armPlain :> 2 @@ armTech :> 1 @@ armMix :> 3)
GrowthLine(i, s, v, t) == [intercept |-> i, slope |-> s, volatility |-> v, tickers |-> t]
MCLines == {(armPlain :> GrowthLine(6, 0, 4, 1) @@ armTech :> GrowthLine(i, 2, i, 1) @@ armMix :> GrowthLine(5, 1, v, 2)) : i \in {4, 6}, v \in {3, 6}}
MCEstimates == {[mean |-> 0, deviation |-> 1], [mean |-> 2, deviation |-> 1]}
TailRow(m, d) == [multiple |-> m, drawdown |-> d]
MCTails == {(armPlain :> TailRow(2, 3) @@ armTech :> TailRow(m, 3) @@ armMix :> TailRow(2, d)) : m \in {1, 2}, d \in {3, 5}}
Told(a, h, w) == [arm |-> a, horizon |-> h, worst |-> w]
MCCampaignLists ==
  {<<[baseline |-> armPlain, fits |-> TRUE, summaries |-> <<Told(armPlain, 1, 100), Told(armTech, 1, t), Told(armMix, 1, 95)>>],
     [baseline |-> o[1], fits |-> o[2], summaries |-> <<Told(armTech, 1, u), Told(armMix, 2, m), Told(armPlain, 1, p)>>]>> :
     t \in {Undefined, 92, 80}, u \in {Undefined, 95}, m \in {Undefined, 50}, p \in {Undefined, 100},
     o \in {<<armPlain, TRUE>>, <<armTech, TRUE>>, <<armPlain, FALSE>>}}

-----------------------------------------------------------------------------
\* the subjects that are not examined rest in one of their initial states
LedgerRests ==
  plan = (CHOOSE p \in Plans : TRUE) /\ holder = (CHOOSE h \in Holders : TRUE)
  /\ price = (CHOOSE p \in Prices : TRUE) /\ Init
FxRests == held = [d \in Sources |-> "trusted"] /\ FxInit
CampaignRests ==
  engine = (CHOOSE e \in Engines : TRUE) /\ cpi = Missing /\ household = FALSE /\ CampaignInit
SelectionRests ==
  /\ marks = (CHOOSE m \in MarkSets : TRUE) /\ lines = (CHOOSE l \in Lines : TRUE) /\ estimate = (CHOOSE e \in Estimates : TRUE)
  /\ tails = (CHOOSE t \in Tails : TRUE) /\ campaigns = (CHOOSE c \in CampaignLists : TRUE)
  /\ SelectionInit

PensionInit ==
  \/ subject = "ledger" /\ PanelsInit /\ FxRests /\ CampaignRests /\ SelectionRests /\ Init
  \/ subject = "panels" /\ LedgerRests /\ FxRests /\ CampaignRests /\ SelectionRests /\ PanelsInit
  \/ subject = "fx" /\ LedgerRests /\ PanelsInit /\ CampaignRests /\ SelectionRests /\ FxInit
  \/ subject = "campaign" /\ LedgerRests /\ PanelsInit /\ FxRests /\ SelectionRests /\ CampaignInit
  \/ subject = "selection" /\ LedgerRests /\ PanelsInit /\ FxRests /\ CampaignRests /\ SelectionInit
PensionNext ==
  /\ UNCHANGED subject
  /\ \/ /\ subject = "ledger" /\ Next
        /\ UNCHANGED <<panelsVars, fxVars, campaignVars, selectionVars>>
     \/ /\ subject = "panels" /\ PanelsNext
        /\ UNCHANGED <<vars, fxVars, campaignVars, selectionVars>>
     \/ /\ subject = "fx" /\ FxNext
        /\ UNCHANGED <<vars, panelsVars, campaignVars, selectionVars>>
     \/ /\ subject = "campaign" /\ CampaignNext
        /\ UNCHANGED <<vars, panelsVars, fxVars, selectionVars>>
     \/ /\ subject = "selection" /\ SelectionNext
        /\ UNCHANGED <<vars, panelsVars, fxVars, campaignVars>>
PensionSpec ==
  PensionInit /\ [][PensionNext]_<<subject, vars, panelsVars, fxVars, campaignVars, selectionVars>>

\* The account's books balance and its plan is funded and kept.
AccountSound == BooksBalance /\ PlanSound

\* The evidence an arm is chosen on: the rate it is valued at, the campaign's
\* rows and the selection from them.
EvidenceSound == FxSound /\ CampaignSound /\ SelectionSound
=============================================================================
