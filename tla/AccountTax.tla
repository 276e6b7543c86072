----------------------------- MODULE AccountTax -----------------------------
(***************************************************************************)
(* The tax rules of the ISA and of the pension account, in whole won: the  *)
(* contribution room and closure tax of an ISA, the credits on a pension   *)
(* contribution and on a transfer out of an ISA, and the tax on leaving    *)
(* the pension.  Rates are whole percentages.                              *)
(***************************************************************************)
EXTENDS Integers

CONSTANTS
  IsaLaw,       \* ISA parameters
  PensionLaw,   \* pension parameters for the household's income kind and age
  OverseasLaw   \* capital gains parameters of the side account

Classes == {"general", "preferential"}
Rates == 0 .. 99

IsaLaws ==
  [annualLimit : Nat \ {0}, lifetimeLimit : Nat \ {0}, carryoverYears : Nat, minYears : Nat \ {0},
   allowance : [Classes -> Nat], preferentialIncome : Nat, rate : Rates, localRate : Rates,
   transferRate : Rates, transferCap : Nat]
PensionLaws ==
  [annualLimit : Nat, creditLimit : Nat, lowIncome : Nat, lowRate : Rates, highRate : Rates,
   localRate : Rates, threshold : Nat, annuityRate : Rates, aboveRate : Rates]
OverseasLaws == [deduction : Nat, rate : Rates]

\* A cap on the transfer credit that no transfer reaches is refused where it
\* is used (credit_maximizing_transfer_krw).
CapReached(law) == law.transferCap > 0 => law.transferRate > 0

ASSUME IsaAssumption == IsaLaw \in IsaLaws /\ CapReached(IsaLaw)
ASSUME PensionAssumption == PensionLaw \in PensionLaws
ASSUME OverseasAssumption == OverseasLaw \in OverseasLaws

Lesser(a, b) == IF a <= b THEN a ELSE b
Greater(a, b) == IF a >= b THEN a ELSE b
RoundedUp(a, b) == (a + b - 1) \div b

\* A rate applied to an amount, floored to whole won.
Won(amount, rate) == (amount * rate) \div 100

-----------------------------------------------------------------------------
(* The ISA *)

\* Mutant: unused room carries forward for ever.
RoomUncapped(elapsed, paidIn) ==
  Greater(0, Lesser(IsaLaw.annualLimit * (1 + elapsed) - paidIn, IsaLaw.lifetimeLimit - paidIn))

\* isa_contribution_room_krw: unused annual room carries forward for a bounded
\* number of years; the lifetime limit always binds.
Room(elapsed, paidIn) ==
  LET grown == IsaLaw.annualLimit * (1 + Lesser(elapsed, IsaLaw.carryoverYears))
  IN Greater(0, Lesser(grown - paidIn, IsaLaw.lifetimeLimit - paidIn))

\* classify_isa_tax_class: no income is not a low income.
ClassFor(income) ==
  IF income # 0 /\ income <= IsaLaw.preferentialIncome THEN "preferential" ELSE "general"

\* quote_isa_closure: national and local tax on the income above the allowance.
ClosureTax(class, balance, principal) ==
  LET national == Won(Greater(0, balance - principal - IsaLaw.allowance[class]), IsaLaw.rate)
  IN national + Won(national, IsaLaw.localRate)

\* credit_maximizing_transfer_krw
FullCreditTransfer ==
  IF IsaLaw.transferCap = 0 THEN 0 ELSE RoundedUp(IsaLaw.transferCap * 100, IsaLaw.transferRate)

-----------------------------------------------------------------------------
(* Pension credits *)

CreditRate(income) == IF income <= PensionLaw.lowIncome THEN PensionLaw.lowRate ELSE PensionLaw.highRate

\* Mutant: the covered principal is rounded down.
CreditRoundedDown(eligible, rate, capacity) ==
  LET fullNational == Won(eligible, rate)
      fullLocal    == Won(fullNational, PensionLaw.localRate)
      national     == Lesser(fullNational, capacity.national)
      local        == Lesser(fullLocal, capacity.local)
  IN [national |-> national, local |-> local,
      principal |-> IF fullNational = 0 THEN 0
                    ELSE Greater((eligible * national) \div fullNational,
                                 IF fullLocal = 0 THEN 0 ELSE (eligible * local) \div fullLocal)]

\* The credit on an eligible amount, limited by the tax there is to reduce,
\* and the principal it covers: the larger of the two shares, rounded up.
Credit(eligible, rate, capacity) ==
  LET fullNational == Won(eligible, rate)
      fullLocal    == Won(fullNational, PensionLaw.localRate)
      national     == Lesser(fullNational, capacity.national)
      local        == Lesser(fullLocal, capacity.local)
  IN [national |-> national, local |-> local,
      principal |-> IF fullNational = 0 THEN 0
                    ELSE Greater(RoundedUp(eligible * national, fullNational),
                                 IF fullLocal = 0 THEN 0 ELSE RoundedUp(eligible * local, fullLocal))]

\* quote_annual_pension_credit of one year's contribution.
OrdinaryCredit(contributed, year) ==
  Credit(Lesser(contributed, PensionLaw.creditLimit), CreditRate(year.income), year)

\* Mutant: the transfer credit is offered the whole tax capacity again.
TransferCreditAgain(transferred, ordinary, year) ==
  Credit(Lesser(Won(transferred, IsaLaw.transferRate), IsaLaw.transferCap), CreditRate(year.income), year)

\* quote_isa_transfer_credit: paid out of the capacity the ordinary credit of
\* the same year left.
TransferCredit(transferred, ordinary, year) ==
  Credit(Lesser(Won(transferred, IsaLaw.transferRate), IsaLaw.transferCap), CreditRate(year.income),
         [national |-> Greater(0, year.national - ordinary.national),
          local    |-> Greater(0, year.local - ordinary.local)])

-----------------------------------------------------------------------------
(* Leaving *)

WithLocalUnder(law, national) == national + Won(national, law.localRate)
WithLocal(national) == WithLocalUnder(PensionLaw, national)

\* quote_threshold_annuity_exit: uncredited principal leaves free of tax, the
\* rest at the age rate up to the threshold of every drawing year.
AnnuityTaxUnder(law, balance, uncredited, years) ==
  LET taxable == balance - Lesser(balance, uncredited)
      low     == Lesser(taxable, law.threshold * years)
  IN WithLocalUnder(law, Won(low, law.annuityRate) + Won(taxable - low, law.aboveRate))
AnnuityTax(balance, uncredited, years) == AnnuityTaxUnder(PensionLaw, balance, uncredited, years)

\* annual_capital_gains_tax_krw, floored as the household values it.
SideTax(gain) == Won(Greater(0, gain - OverseasLaw.deduction), OverseasLaw.rate)

=============================================================================
