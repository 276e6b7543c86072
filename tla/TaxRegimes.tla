----------------------------- MODULE TaxRegimes -----------------------------
(***************************************************************************)
(* The law files.  A command reads the files it needs one after another    *)
(* and stops at the first it refuses; what it goes on with is a law the    *)
(* rules of AccountTax are stated for.  Under a pension law the whole      *)
(* account is valued as if it left at once, in three ways, or the way the  *)
(* household does, as an annuity over a number of years.                   *)
(*                                                                         *)
(* A file is a record of its fields, "documented" standing for its name,   *)
(* its sources, their statutes and the day they were checked.  Rates are   *)
(* whole percentages.                                                      *)
(***************************************************************************)
EXTENDS AccountTax, Sequences

CONSTANTS
  Files,           \* what may lie on the disk: [isa, pension, overseas]
  Savers,          \* [balance, uncredited, withheld, age, kind, drawing]
  SupportedYear,
  NoExits

ASSUME SaversAssumption ==
  Savers \subseteq [balance : Nat, uncredited : Nat, withheld : Nat, age : Nat,
                    kind : {"wage", "comprehensive"}, drawing : Nat \ {0}]

VARIABLES
  files, command, saver,  \* given
  lawsRead,                 \* the files read so far, in order
  lawRefused,
  exits                     \* [ways, years] once the account was valued

lawVars == <<files, command, saver, lawsRead, lawRefused, exits>>

\* What each command reads, in order.
Reads ==
  [afterTaxCampaign |-> <<"overseas">>, pensionSelection |-> <<"pension">>,
   pensionCampaign |-> <<"pension">>, householdView |-> <<"pension", "overseas">>,
   isaHousehold |-> <<"isa", "pension", "overseas">>]

LawInit ==
  /\ files \in Files /\ command \in DOMAIN Reads /\ saver \in Savers
  /\ lawsRead = <<>> /\ lawRefused = FALSE /\ exits = NoExits

-----------------------------------------------------------------------------
(* Reading *)

Positive == Nat \ {0}

PensionAmounts == {"annualLimit", "creditLimit", "wageThreshold", "comprehensiveThreshold", "threshold"}
PensionRates == {"lowRate", "highRate", "localRate", "aboveRate", "nonPensionRate", "withholdingRate",
                 "foreignCreditRate"}
PensionKeys == PensionAmounts \cup PensionRates
  \cup {"documented", "year", "minimumAge", "minimumYears", "limitMultiplier", "limitFinalYear", "bands"}

\* Mutant: two bands may start at one age or in any order.
BandsInAnyOrder(bands) ==
  /\ bands # <<>> /\ bands \in Seq([from : Nat, rate : Rates])
  /\ bands[1].from = 0

\* Every age has a band: the first starts at birth and they go up.
BandsLoad(bands) ==
  /\ bands # <<>> /\ bands \in Seq([from : Nat, rate : Rates])
  /\ bands[1].from = 0
  /\ \A i, j \in DOMAIN bands : i < j => bands[i].from < bands[j].from

PensionLoads(f) ==
  /\ DOMAIN f = PensionKeys
  /\ f.documented /\ f.year = SupportedYear
  /\ \A k \in PensionAmounts \cup {"minimumAge", "minimumYears", "limitFinalYear"} : f[k] \in Positive
  /\ \A k \in PensionRates : f[k] \in Rates
  /\ f.lowRate >= f.highRate /\ f.creditLimit <= f.annualLimit
  /\ f.limitMultiplier \in Nat /\ f.limitMultiplier >= 100
  /\ BandsLoad(f.bands)

IsaAmounts == {"annualLimit", "lifetimeLimit", "generalAllowance", "preferentialAllowance", "preferentialWage",
               "preferentialComprehensive", "transferCap"}
IsaRates == {"rate", "localRate", "transferRate"}
IsaKeys == IsaAmounts \cup IsaRates \cup {"documented", "year", "carryoverYears", "minYears"}

IsaLoads(f) ==
  /\ DOMAIN f = IsaKeys
  /\ f.documented /\ f.year = SupportedYear
  /\ \A k \in IsaAmounts \cup {"carryoverYears", "minYears"} : f[k] \in Nat
  /\ \A k \in IsaRates : f[k] \in Rates
  /\ f.minYears > 0 /\ f.annualLimit > 0 /\ f.lifetimeLimit > 0
  /\ f.lifetimeLimit >= f.annualLimit
  /\ f.preferentialAllowance >= f.generalAllowance

OverseasAmounts == {"deduction", "financialIncomeThreshold"}
OverseasRates == {"rate", "dividendRate", "interestRate"}
OverseasKeys == OverseasAmounts \cup OverseasRates
  \cup {"documented", "lossCarryforward", "settlementSessions", "paymentMonth", "basis"}

\* A law that carries losses into later years is not modelled and refused.
OverseasLoads(f) ==
  /\ DOMAIN f = OverseasKeys
  /\ f.documented
  /\ \A k \in OverseasRates : f[k] \in Rates
  /\ \A k \in OverseasAmounts : f[k] \in Nat
  /\ f.lossCarryforward = FALSE
  /\ f.settlementSessions \in Positive /\ f.paymentMonth \in 1 .. 12
  /\ f.basis \in {"fifo", "moving_average"}

Loads(name) ==
  CASE name = "pension"  -> PensionLoads(files.pension)
    [] name = "isa"      -> IsaLoads(files.isa)
    [] name = "overseas" -> OverseasLoads(files.overseas)

AllRead == Len(lawsRead) = Len(Reads[command])
ReadLaw ==
  /\ ~lawRefused /\ ~AllRead
  /\ LET name == Reads[command][Len(lawsRead) + 1]
     IN IF Loads(name) THEN lawsRead' = Append(lawsRead, name) /\ UNCHANGED lawRefused
        ELSE lawRefused' = TRUE /\ UNCHANGED lawsRead
  /\ UNCHANGED <<files, command, saver, exits>>

-----------------------------------------------------------------------------
(* The law a holder is under *)

\* _age_rate: the last band that has been reached.
AgeRate(bands, age) ==
  LET reached == {i \in DOMAIN bands : age >= bands[i].from}
  IN IF reached = {} THEN bands[1].rate
     ELSE bands[CHOOSE i \in reached : \A j \in reached : j <= i].rate

PensionLawOf(f, kind, age) ==
  [annualLimit |-> f.annualLimit, creditLimit |-> f.creditLimit,
   lowIncome |-> IF kind = "wage" THEN f.wageThreshold ELSE f.comprehensiveThreshold,
   lowRate |-> f.lowRate, highRate |-> f.highRate, localRate |-> f.localRate, threshold |-> f.threshold,
   annuityRate |-> AgeRate(f.bands, age), aboveRate |-> f.aboveRate]

IsaLawOf(f, kind) ==
  [annualLimit |-> f.annualLimit, lifetimeLimit |-> f.lifetimeLimit, carryoverYears |-> f.carryoverYears,
   minYears |-> f.minYears,
   allowance |-> [c \in Classes |-> IF c = "general" THEN f.generalAllowance ELSE f.preferentialAllowance],
   preferentialIncome |-> IF kind = "wage" THEN f.preferentialWage ELSE f.preferentialComprehensive,
   rate |-> f.rate, localRate |-> f.localRate, transferRate |-> f.transferRate, transferCap |-> f.transferCap]

OverseasLawOf(f) == [deduction |-> f.deduction, rate |-> f.rate]

-----------------------------------------------------------------------------
(* Leaving the pension *)

Taxable == saver.balance - Lesser(saver.balance, saver.uncredited)

\* Who has not reached the minimum age is taken to wait for it.
ExitRate(way) ==
  LET law == files.pension
  IN CASE way = "lumpSum"     -> law.nonPensionRate
       [] way = "annuityLow"  -> AgeRate(law.bands, Greater(saver.age, law.minimumAge))
       [] way = "annuityHigh" -> law.aboveRate

\* quote_pension_exit
Exit(way, withheld) ==
  LET tax    == WithLocalUnder(files.pension, Won(Taxable, ExitRate(way)))
      credit == Lesser(tax, Won(withheld, files.pension.foreignCreditRate))
  IN [tax |-> tax, credit |-> credit, net |-> saver.balance - tax + credit]

\* years_to_draw_at_threshold
YearsToDraw == IF Taxable = 0 THEN 0 ELSE RoundedUp(Taxable, files.pension.threshold)

\* _exit_wealths of the pension campaign
ValueExits ==
  /\ command \in {"pensionCampaign", "householdView"} /\ AllRead /\ exits = NoExits
  /\ exits' = [ways  |-> [way \in {"lumpSum", "annuityLow", "annuityHigh"} |-> Exit(way, saver.withheld)],
               years |-> YearsToDraw]
  /\ UNCHANGED <<files, command, saver, lawsRead, lawRefused>>

\* quote_threshold_annuity_exit at the holder's own age
Threshold ==
  LET law == PensionLawOf(files.pension, saver.kind, saver.age)
      tax == AnnuityTaxUnder(law, saver.balance, saver.uncredited, saver.drawing)
  IN [tax |-> tax, credit |-> 0, net |-> saver.balance - tax]

\* The household asks for the transfer of a full credit before it starts, and
\* an ISA law with a cap but no rate is refused only there.  No foreign tax is
\* credited to it.
ValueHousehold ==
  /\ command = "isaHousehold" /\ AllRead /\ ~lawRefused /\ exits = NoExits
  /\ IF CapReached(IsaLawOf(files.isa, saver.kind))
     THEN /\ exits' = [ways |-> [threshold |-> Threshold, lumpSum |-> Exit("lumpSum", 0)], years |-> saver.drawing]
          /\ UNCHANGED lawRefused
     ELSE lawRefused' = TRUE /\ UNCHANGED exits
  /\ UNCHANGED <<files, command, saver, lawsRead>>

LawNext == ReadLaw \/ ValueExits \/ ValueHousehold
LawSpec == LawInit /\ [][LawNext]_lawVars

-----------------------------------------------------------------------------
(* Properties *)

WasRead(name) == \E i \in DOMAIN lawsRead : lawsRead[i] = name
Valued == exits # NoExits

\* What a loader lets through is a law the tax rules are stated for, whatever
\* the income kind and the age; the ISA law of a household that was valued has
\* a transfer that earns the full credit (load_*_tax_regime).
LawsFit ==
  /\ WasRead("pension") => PensionLawOf(files.pension, saver.kind, saver.age) \in PensionLaws
  /\ WasRead("isa") => IsaLawOf(files.isa, saver.kind) \in IsaLaws
  /\ WasRead("overseas") => OverseasLawOf(files.overseas) \in OverseasLaws
  /\ Valued /\ command = "isaHousehold" => CapReached(IsaLawOf(files.isa, saver.kind))

\* The rate of an age is that of the highest age that starts a band and has
\* been reached, though the loop keeps the last band in the file (_age_rate).
RateOfBand == WasRead("pension") =>
  \E i \in DOMAIN files.pension.bands :
    LET bands == files.pension.bands IN
    /\ bands[i].from <= saver.age /\ AgeRate(bands, saver.age) = bands[i].rate
    /\ \A j \in DOMAIN bands : bands[j].from <= saver.age => bands[j].from <= bands[i].from

\* The years quoted are the fewest that keep every payment within the
\* threshold the low annuity rate is for (years_to_draw_at_threshold).
DrawWithinThreshold == Valued /\ command # "isaHousehold" =>
  /\ Taxable <= files.pension.threshold * exits.years
  /\ Taxable > 0 => files.pension.threshold * (exits.years - 1) < Taxable

\* The two valuations of an annuity agree: a household that draws over at
\* least the years quoted, and has reached the minimum age, pays the tax of
\* the low annuity (quote_threshold_annuity_exit, quote_pension_exit).
AnnuitiesAgree ==
  Valued /\ command = "isaHousehold" /\ YearsToDraw <= saver.drawing /\ files.pension.minimumAge <= saver.age
    => exits.ways.threshold.tax = Exit("annuityLow", 0).tax

\* No way out returns more than the balance, however much foreign tax was
\* withheld; and under a law whose rates are in the order their names promise,
\* so are the three amounts.
WaysInOrder == Valued =>
  /\ \A way \in DOMAIN exits.ways : exits.ways[way].net <= saver.balance
  /\ command # "isaHousehold" /\ ExitRate("annuityLow") <= files.pension.aboveRate
       => exits.ways.annuityHigh.net <= exits.ways.annuityLow.net
  /\ command # "isaHousehold" /\ files.pension.aboveRate <= files.pension.nonPensionRate
       => exits.ways.lumpSum.net <= exits.ways.annuityHigh.net

LawsSound == LawsFit /\ RateOfBand /\ DrawWithinThreshold /\ AnnuitiesAgree /\ WaysInOrder
=============================================================================
