---------------------------- MODULE IsaHousehold ----------------------------
(***************************************************************************)
(* The household simulator: a pension account, an ISA that is held or      *)
(* closed and reopened every few years, and a side account that takes what *)
(* the others cannot, month by month for one arm and one scenario.  A year *)
(* starts with closing a matured ISA, booking the year's tax credits and   *)
(* contributing; credits come back in February of the next year; at the    *)
(* end every account is valued after tax.                                  *)
(*                                                                         *)
(* Balances are the totals of the sleeves: ISA and pension are rebalanced  *)
(* to the same weights every year and grow by one factor, the side account *)
(* drifts and grows by its own.  The program rounds balances only when an  *)
(* account is closed or valued, the model every month.                     *)
(***************************************************************************)
EXTENDS AccountTax

CONSTANTS
  Arms,           \* operating policies: records [mode, cycle]
  Profiles,       \* per plan year: income and the tax a credit can reduce
  PensionAnnual,  \* yearly pension contribution
  IsaBudget,      \* yearly cash meant for the ISA
  DrawingYears,   \* years over which the pension is drawn
  Growths,        \* monthly growth factors, in percent
  MonthsPerYear,
  Horizon         \* plan years

Modes == {"no_isa", "hold", "roll_to_side", "roll_to_pension_credit_cap", "roll_to_pension_all"}
RollModes == Modes \ {"no_isa", "hold"}
Phases == {"open", "credit", "contribute", "month", "value", "done"}
Years == 0 .. Horizon - 1
\* The January of a plan year.
FirstMonth(k) == MonthsPerYear * k
LastMonth == FirstMonth(Horizon)

ASSUME PlanAssumption ==
  /\ Horizon \in Nat \ {0} /\ MonthsPerYear \in Nat \ {0, 1}
  /\ DrawingYears \in Nat \ {0} /\ Growths \subseteq Nat
  /\ PensionAnnual \in 0 .. PensionLaw.annualLimit
  /\ IsaBudget \in 0 .. IsaLaw.annualLimit
ASSUME ArmsAssumption ==
  /\ Arms \subseteq [mode : Modes, cycle : Nat]
  /\ \A a \in Arms : a.mode \in RollModes => a.cycle >= IsaLaw.minYears
ASSUME ProfilesAssumption ==
  Profiles \subseteq [initialClass : Classes,
                      years : [Years -> [income : Nat, national : Nat, local : Nat]]]

VARIABLES
  arm, profile,
  year,        \* the plan year
  month,       \* months simulated so far
  phase,       \* what the year does next
  isa, pension, side,   \* balances
  sideBasis,   \* what was paid into the side account
  isaOpen,     \* plan year in which the ISA was opened
  isaClass,    \* its allowance class
  principal,   \* what was paid into it
  transfer,    \* what a matured ISA released: to the pension, to the side
  credited,    \* pension principal that earned a credit
  uncredited,  \* pension principal that did not
  refunds,     \* credits of each tax year that were not paid out yet
  pending,     \* credits still owed at valuation
  credits,     \* all credits booked
  taxes,       \* taxes paid
  transfers,   \* all that moved from the ISA to the pension
  gain,        \* what growth added so far; only the properties read it
  net          \* the household's wealth after tax, once valued

vars == <<arm, profile, year, month, phase, isa, pension, side, sideBasis, isaOpen, isaClass,
          principal, transfer, credited, uncredited, refunds, pending, credits, taxes, transfers,
          gain, net>>

plan == <<arm, profile>>
account == <<isaOpen, isaClass, principal>>
basis == <<credited, uncredited>>
refunding == <<refunds, pending, credits>>

NoTransfer == [toPension |-> 0, toSide |-> 0]
ThisYear == profile.years[year]
Ordinary == OrdinaryCredit(PensionAnnual, ThisYear)
NoCredit == [national |-> 0, local |-> 0, principal |-> 0]
Extra == IF transfer.toPension > 0 THEN TransferCredit(transfer.toPension, Ordinary, ThisYear) ELSE NoCredit

-----------------------------------------------------------------------------

Init ==
  /\ arm \in Arms /\ profile \in Profiles
  /\ year = 0 /\ month = 0 /\ phase = "open"
  /\ isa = 0 /\ pension = 0 /\ side = 0 /\ sideBasis = 0
  /\ isaOpen = 0 /\ isaClass = profile.initialClass /\ principal = 0
  /\ transfer = NoTransfer
  /\ credited = 0 /\ uncredited = 0
  /\ refunds = [k \in Years |-> 0] /\ pending = 0 /\ credits = 0
  /\ taxes = 0 /\ transfers = 0 /\ gain = 0 /\ net = 0

Matured == arm.mode \in RollModes /\ year > 0 /\ year - isaOpen = arm.cycle

KeepOpen ==
  /\ phase = "open" /\ ~Matured
  /\ phase' = "credit"
  /\ UNCHANGED <<plan, year, month, isa, pension, side, sideBasis, account, transfer, basis,
                 refunding, taxes, transfers, gain, net>>

\* Where the proceeds of a matured ISA go.
Routed(proceeds) ==
  CASE arm.mode = "roll_to_side"        -> 0
    [] arm.mode = "roll_to_pension_all" -> proceeds
    [] OTHER                            -> Lesser(proceeds, FullCreditTransfer)

\* The ISA is closed after tax and a new one opened, whose class follows from
\* the income of the year before.
CloseAndReopen ==
  LET tax      == ClosureTax(isaClass, isa, principal)
      proceeds == isa - tax
  IN /\ phase = "open" /\ Matured
     /\ phase' = "credit"
     /\ isa' = 0 /\ taxes' = taxes + tax
     /\ transfer' = [toPension |-> Routed(proceeds), toSide |-> proceeds - Routed(proceeds)]
     /\ transfers' = transfers + Routed(proceeds)
     /\ isaOpen' = year /\ principal' = 0
     /\ isaClass' = ClassFor(profile.years[year - 1].income)
     /\ UNCHANGED <<plan, year, month, pension, side, sideBasis, basis, refunding, gain, net>>

\* The year's credits are booked; they are paid in February of the next year,
\* or owed at valuation when that lies beyond the horizon.
BookCredits ==
  LET refund == Ordinary.national + Ordinary.local + Extra.national + Extra.local
      later  == FirstMonth(year + 1) + 1 < LastMonth
  IN /\ phase = "credit"
     /\ phase' = "contribute"
     /\ credits' = credits + refund
     /\ refunds' = [refunds EXCEPT ![year] = IF later THEN refund ELSE 0]
     /\ pending' = pending + IF later THEN 0 ELSE refund
     /\ credited' = credited + Ordinary.principal + Extra.principal
     /\ uncredited' = uncredited + (PensionAnnual - Ordinary.principal)
                                 + (transfer.toPension - Extra.principal)
     /\ UNCHANGED <<plan, year, month, isa, pension, side, sideBasis, account, transfer, taxes,
                    transfers, gain, net>>

\* Mutant: cash the ISA has no room for is lost.
ContributeWithinRoom ==
  LET paid    == IF arm.mode = "no_isa" THEN 0 ELSE Lesser(IsaBudget, Room(year - isaOpen, principal))
  IN /\ phase = "contribute"
     /\ phase' = "month"
     /\ principal' = principal + paid
     /\ isa' = isa + paid
     /\ pension' = pension + PensionAnnual + transfer.toPension
     /\ side' = side + transfer.toSide
     /\ sideBasis' = sideBasis + transfer.toSide
     /\ transfer' = NoTransfer
     /\ UNCHANGED <<plan, year, month, isaOpen, isaClass, basis, refunding, taxes, transfers, gain, net>>

\* The pension takes its contribution and the transfer, the ISA what it has
\* room for, the side account the rest.
Contribute ==
  LET paid    == IF arm.mode = "no_isa" THEN 0 ELSE Lesser(IsaBudget, Room(year - isaOpen, principal))
      deposit == IsaBudget - paid + transfer.toSide
  IN /\ phase = "contribute"
     /\ phase' = "month"
     /\ principal' = principal + paid
     /\ isa' = isa + paid
     /\ pension' = pension + PensionAnnual + transfer.toPension
     /\ side' = side + deposit
     /\ sideBasis' = sideBasis + deposit
     /\ transfer' = NoTransfer
     /\ UNCHANGED <<plan, year, month, isaOpen, isaClass, basis, refunding, taxes, transfers, gain, net>>

\* Mutant: the refund falls due a month late, in no month of a two-month year.
FebruaryMissed == year > 0 /\ month = FirstMonth(year) + 2

\* The month in which last year's credits are paid.
February == year > 0 /\ month = FirstMonth(year) + 1

\* A month: last year's refund arrives in February, then everything grows.
Month ==
  LET refund == IF February THEN refunds[year - 1] ELSE 0
      ends   == month + 1 = FirstMonth(year + 1)
  IN /\ phase = "month"
     /\ \E g \in Growths, h \in Growths :
          /\ isa' = Won(isa, g)
          /\ pension' = Won(pension, g)
          /\ side' = Won(side + refund, h)
     /\ gain' = gain + (isa' - isa) + (pension' - pension) + (side' - side - refund)
     /\ sideBasis' = sideBasis + refund
     /\ refunds' = IF February THEN [refunds EXCEPT ![year - 1] = 0] ELSE refunds
     /\ month' = month + 1
     /\ phase' = IF ~ends THEN "month" ELSE IF year + 1 = Horizon THEN "value" ELSE "open"
     /\ year' = IF ends /\ year + 1 < Horizon THEN year + 1 ELSE year
     /\ UNCHANGED <<plan, account, transfer, basis, pending, credits, taxes, transfers, net>>

\* Every account is left: the ISA is closed, the side account sold in one year
\* and the pension valued as an annuity; credits still owed are receivable.
Value ==
  LET tax == ClosureTax(isaClass, isa, principal) + SideTax(side - sideBasis)
               + AnnuityTax(pension, uncredited, DrawingYears)
  IN /\ phase = "value"
     /\ phase' = "done"
     /\ taxes' = taxes + tax
     /\ net' = isa + side + pension + pending - tax
     /\ UNCHANGED <<plan, year, month, isa, pension, side, sideBasis, account, transfer, basis,
                    refunding, transfers, gain>>

Next == KeepOpen \/ CloseAndReopen \/ BookCredits \/ Contribute \/ Month \/ Value

Spec == Init /\ [][Next]_vars

-----------------------------------------------------------------------------
(* Properties *)

\* Every variable of the simulation has its type: balances and tax bases are
\* never negative.
TypeOK ==
  /\ arm \in Arms /\ profile \in Profiles
  /\ year \in Years /\ month \in 0 .. LastMonth
  /\ phase \in Phases
  /\ {isa, pension, side, sideBasis, principal, credited, uncredited} \subseteq Nat
  /\ {pending, credits, taxes, transfers} \subseteq Nat
  /\ isaOpen \in Years /\ isaClass \in Classes
  /\ transfer \in [toPension : Nat, toSide : Nat]
  /\ refunds \in [Years -> Nat]
  /\ gain \in Int /\ net \in Int

Contributed == year + IF phase \in {"month", "value", "done"} THEN 1 ELSE 0
Booked == year + IF phase \in {"open", "credit"} THEN 0 ELSE 1
External == Contributed * (PensionAnnual + IsaBudget)

\* Credits booked and not yet paid: a credit waits for February of the next
\* year, so only this year's and last year's can.
Outstanding == refunds[year] + IF year > 0 THEN refunds[year - 1] ELSE 0

\* Every arm gets the same external cash: what the accounts hold, what is on
\* its way between them, the credits still owed and the taxes paid add up to
\* the cash of the years started, the credits booked and the growth.  At the
\* end the same holds of the wealth after tax (simulate_household).
CashConserved ==
  IF phase = "done"
  THEN net + taxes = External + credits + gain
  ELSE isa + pension + side + transfer.toPension + transfer.toSide + Outstanding + pending + taxes
         = External + credits + gain

\* The pension's tax basis accounts for every won of principal: contributions
\* booked and transfers out of the ISA are credited or uncredited, never both
\* and never neither (pension_credited_total, pension_uncredited).
PensionBasisSplits ==
  credited + uncredited + (IF phase = "credit" THEN transfer.toPension ELSE 0)
    = Booked * PensionAnnual + transfers

\* Over the years of one ISA the principal paid in stays within the lifetime
\* limit and within the annual limit of the years open, of which only a
\* bounded number carry forward (isa_contribution_room_krw).
RoomRespected ==
  /\ principal <= IsaLaw.lifetimeLimit
  /\ principal <= IsaLaw.annualLimit * (1 + Lesser(year - isaOpen, IsaLaw.carryoverYears))

\* The credits of a tax year, on the contribution and on a transfer together,
\* never exceed the tax that year has to reduce (quote_isa_transfer_credit is
\* paid only out of what the ordinary credit left).
CreditWithinCapacity == [][credits' - credits <= ThisYear.national + ThisYear.local]_vars

\* No won that later leaves the pension free of tax has earned a credit: the
\* principal booked as credited would alone earn the year's credits.
CreditBacked ==
  [][credits' - credits
       <= LET national == Won(credited' - credited, CreditRate(ThisYear.income))
          IN national + Won(national, PensionLaw.localRate)]_vars

\* A credit is outstanding until February of the year after and no longer, and
\* none is lost at the horizon: when the accounts are valued each credit was
\* paid into the side account or is pending (refund_schedule).
RefundsReachHousehold ==
  /\ \A k \in Years : refunds[k] # 0 => Booked > k /\ month <= FirstMonth(k + 1) + 1
  /\ phase \in {"value", "done"} => \A k \in Years : refunds[k] = 0

=============================================================================
