-------------------------- MODULE SimulatorsProofs --------------------------
(***************************************************************************)
(* Proofs about the simulators off the pension book, for any laws,         *)
(* policies, configurations, signals, markets and horizon.                 *)
(*                                                                         *)
(* IsaHousehold: cash is conserved, every refund reaches the household,    *)
(* the pension's tax basis is complete, the contribution room is respected *)
(* and the credits of a year stay within its tax.  TaxRegimes: what the    *)
(* loaders let through is a law these rules are stated for, and the ways   *)
(* out of a pension are priced in the order their rates promise.           *)
(*                                                                         *)
(* AllocationEngine: the modules that move money in time keep its sum, the *)
(* wealth of an account is explained by what happened to it, and the paper *)
(* book misses exactly what was settled.                                   *)
(***************************************************************************)
EXTENDS IsaHousehold, TaxRegimes, AllocationEngine, RecursionTheorems, SequenceTheorems, TLAPS

-----------------------------------------------------------------------------
(* Tax rules *)

\* Every rate of the laws is a natural number.
LEMMA RateFacts ==
  /\ Rates \subseteq Nat /\ Rates \subseteq Int
  /\ PensionLaw.localRate \in Nat /\ PensionLaw.annuityRate \in Int
  /\ PensionLaw.aboveRate \in Int /\ PensionLaw.localRate \in Int
  /\ IsaLaw.rate \in Int /\ IsaLaw.localRate \in Int /\ OverseasLaw.rate \in Int
<1>1. Rates \subseteq Nat /\ Rates \subseteq Int
  BY DEF Rates
<1>2. /\ {PensionLaw.localRate, PensionLaw.annuityRate, PensionLaw.aboveRate} \subseteq Rates
      /\ {IsaLaw.rate, IsaLaw.localRate, OverseasLaw.rate} \subseteq Rates
  BY PensionAssumption, IsaAssumption, OverseasAssumption DEF IsaLaws, PensionLaws, OverseasLaws
<1> QED BY <1>1, <1>2, Zenon

LEMMA WonInt ==
  ASSUME NEW amount \in Int, NEW rate \in Int
  PROVE  Won(amount, rate) \in Int
<1>1. amount * rate \in Int
  OBVIOUS
<1> QED BY <1>1 DEF Won

LEMMA WonNat ==
  ASSUME NEW amount \in Nat, NEW rate \in Nat
  PROVE  Won(amount, rate) \in Nat
<1>1. amount * rate \in Nat
  OBVIOUS
<1> QED BY <1>1 DEF Won

LEMMA RoundedUpInt ==
  ASSUME NEW a \in Int, NEW b \in Nat \ {0}
  PROVE  RoundedUp(a, b) \in Int
<1>1. a + b - 1 \in Int
  OBVIOUS
<1> QED BY <1>1 DEF RoundedUp

\* A credit is at most what was left of the year's tax, whatever it is on.
LEMMA CreditFacts ==
  ASSUME NEW eligible \in Nat, NEW rate \in Rates, NEW capacity,
         capacity.national \in Nat, capacity.local \in Nat
  PROVE  LET c == Credit(eligible, rate, capacity)
         IN /\ c.national \in Nat /\ c.national <= capacity.national
            /\ c.local \in Nat /\ c.local <= capacity.local
            /\ c.principal \in Int
<1> DEFINE fullNational == Won(eligible, rate)
           fullLocal    == Won(fullNational, PensionLaw.localRate)
           national     == Lesser(fullNational, capacity.national)
           local        == Lesser(fullLocal, capacity.local)
           shareN       == RoundedUp(eligible * national, fullNational)
           shareL       == IF fullLocal = 0 THEN 0 ELSE RoundedUp(eligible * local, fullLocal)
           principal_c  == IF fullNational = 0 THEN 0 ELSE Greater(shareN, shareL)
<1>1. fullNational \in Nat
  <2>1. rate \in Nat
    BY DEF Rates
  <2> QED BY <2>1, WonNat
<1>2. fullLocal \in Nat
  BY <1>1, WonNat, RateFacts, Zenon
<1>3. national \in Nat /\ national <= capacity.national
  BY <1>1 DEF Lesser
<1>4. local \in Nat /\ local <= capacity.local
  BY <1>2 DEF Lesser
<1>5. eligible * national \in Int /\ eligible * local \in Int
  BY <1>3, <1>4
<1>6. principal_c \in Int
  <2>1. CASE fullNational = 0
    BY <2>1
  <2>2. CASE fullNational # 0
    <3>1. shareN \in Int
      BY <1>1, <1>5, <2>2, RoundedUpInt
    <3>2. shareL \in Int
      BY <1>2, <1>5, RoundedUpInt
    <3> QED BY <2>2, <3>1, <3>2 DEF Greater
  <2> QED BY <2>1, <2>2
<1>7. Credit(eligible, rate, capacity)
        = [national |-> national, local |-> local, principal |-> principal_c]
  BY DEF Credit
<1> HIDE DEF national, local, principal_c
<1> QED BY <1>3, <1>4, <1>6, <1>7

LEMMA CreditRateFacts == \A income \in Nat : CreditRate(income) \in Rates
BY PensionAssumption DEF PensionLaws, CreditRate

LEMMA ClosureTaxInt ==
  ASSUME NEW class \in Classes, NEW balance \in Int, NEW paid \in Int
  PROVE  ClosureTax(class, balance, paid) \in Int
<1> DEFINE income   == Greater(0, balance - paid - IsaLaw.allowance[class])
           national == Won(income, IsaLaw.rate)
<1>1. income \in Int
  BY IsaAssumption DEF IsaLaws, Greater
<1>2. national \in Int
  BY <1>1, WonInt, RateFacts, Zenon
<1>3. Won(national, IsaLaw.localRate) \in Int
  BY <1>2, WonInt, RateFacts, Zenon
<1>4. ClosureTax(class, balance, paid) = national + Won(national, IsaLaw.localRate)
  BY DEF ClosureTax
<1> HIDE DEF national
<1> QED BY <1>2, <1>3, <1>4

LEMMA AnnuityTaxInt ==
  ASSUME NEW balance \in Int, NEW free \in Int, NEW years \in Nat
  PROVE  AnnuityTax(balance, free, years) \in Int
<1> DEFINE taxable  == balance - Lesser(balance, free)
           low      == Lesser(taxable, PensionLaw.threshold * years)
           national == Won(low, PensionLaw.annuityRate) + Won(taxable - low, PensionLaw.aboveRate)
<1>1. taxable \in Int
  BY DEF Lesser
<1>2. PensionLaw.threshold * years \in Int
  BY PensionAssumption DEF PensionLaws
<1>3. low \in Int
  BY <1>1, <1>2 DEF Lesser
<1>4. Won(low, PensionLaw.annuityRate) \in Int
  BY <1>3, WonInt, RateFacts, Zenon
<1>5. Won(taxable - low, PensionLaw.aboveRate) \in Int
  <2>1. taxable - low \in Int
    BY <1>1, <1>3
  <2> HIDE DEF taxable, low
  <2> QED BY <2>1, WonInt, RateFacts, Zenon
<1>6. national \in Int
  BY <1>4, <1>5
<1>7. Won(national, PensionLaw.localRate) \in Int
  BY <1>6, WonInt, RateFacts, Zenon
<1>8. AnnuityTax(balance, free, years) = national + Won(national, PensionLaw.localRate)
  BY DEF AnnuityTax, AnnuityTaxUnder, WithLocalUnder
<1> HIDE DEF national
<1> QED BY <1>6, <1>7, <1>8

LEMMA SideTaxInt == \A earned \in Int : SideTax(earned) \in Int
<1> TAKE earned \in Int
<1>1. Greater(0, earned - OverseasLaw.deduction) \in Int
  BY OverseasAssumption DEF OverseasLaws, Greater
<1> QED BY <1>1, WonInt, RateFacts, Zenon DEF SideTax

\* The room never lets the principal pass the grown annual limit or the
\* lifetime limit, and the grown limit only grows.
Grown(elapsed) == IsaLaw.annualLimit * (1 + Lesser(elapsed, IsaLaw.carryoverYears))

LEMMA GrownFacts ==
  ASSUME NEW elapsed \in Nat
  PROVE  /\ Grown(elapsed) \in Nat
         /\ Grown(elapsed) <= Grown(elapsed + 1)
<1> DEFINE a == Lesser(elapsed, IsaLaw.carryoverYears)
           b == Lesser(elapsed + 1, IsaLaw.carryoverYears)
<1>1. IsaLaw.annualLimit \in Nat /\ IsaLaw.carryoverYears \in Nat
  BY IsaAssumption DEF IsaLaws
<1>2. a \in Nat /\ b \in Nat /\ (b = a \/ b = a + 1)
  BY <1>1 DEF Lesser
<1>3. IsaLaw.annualLimit * (1 + (a + 1)) = IsaLaw.annualLimit * (1 + a) + IsaLaw.annualLimit
  BY <1>1, <1>2
<1>4. IsaLaw.annualLimit * (1 + a) \in Nat
  BY <1>1, <1>2
<1>5. Grown(elapsed) = IsaLaw.annualLimit * (1 + a) /\ Grown(elapsed + 1) = IsaLaw.annualLimit * (1 + b)
  BY DEF Grown
<1> HIDE DEF a, b
<1> QED BY <1>1, <1>2, <1>3, <1>4, <1>5

LEMMA RoomFacts ==
  ASSUME NEW elapsed \in Nat, NEW paidIn \in Int,
         paidIn <= IsaLaw.lifetimeLimit, paidIn <= Grown(elapsed)
  PROVE  /\ Room(elapsed, paidIn) \in Nat
         /\ paidIn + Room(elapsed, paidIn) <= IsaLaw.lifetimeLimit
         /\ paidIn + Room(elapsed, paidIn) <= Grown(elapsed)
<1>1. IsaLaw.lifetimeLimit \in Nat
  BY IsaAssumption DEF IsaLaws
<1>2. Room(elapsed, paidIn) = Greater(0, Lesser(Grown(elapsed) - paidIn, IsaLaw.lifetimeLimit - paidIn))
  BY DEF Room, Grown
<1>3. Grown(elapsed) \in Nat
  BY GrownFacts
<1> QED BY <1>1, <1>2, <1>3 DEF Greater, Lesser

\* The calendar: years of the same length, one after the other.
LEMMA FirstMonthFacts ==
  /\ MonthsPerYear \in Nat /\ MonthsPerYear >= 2
  /\ FirstMonth(0) = 0
  /\ \A k \in Nat : FirstMonth(k) \in Nat /\ FirstMonth(k + 1) = FirstMonth(k) + MonthsPerYear
  /\ \A j, k \in Nat : j < k => FirstMonth(j + 1) <= FirstMonth(k)
<1>1. MonthsPerYear \in Nat /\ MonthsPerYear >= 2
  BY PlanAssumption
<1>2. FirstMonth(0) = 0
  BY <1>1 DEF FirstMonth
<1>3. ASSUME NEW k \in Nat
      PROVE  FirstMonth(k) \in Nat /\ FirstMonth(k + 1) = FirstMonth(k) + MonthsPerYear
  BY <1>1 DEF FirstMonth
<1>4. ASSUME NEW j \in Nat, NEW k \in Nat, j < k
      PROVE  FirstMonth(j + 1) <= FirstMonth(k)
  <2>1. PICK d \in Nat : k = (j + 1) + d
    <3>1. k - (j + 1) \in Nat /\ k = (j + 1) + (k - (j + 1))
      BY <1>4
    <3> QED BY <3>1
  <2>2. MonthsPerYear * k = MonthsPerYear * (j + 1) + MonthsPerYear * d
    BY <1>1, <2>1
  <2>3. MonthsPerYear * d \in Nat /\ MonthsPerYear * (j + 1) \in Nat
    BY <1>1
  <2> QED BY <2>2, <2>3 DEF FirstMonth
<1> QED BY <1>1, <1>2, <1>3, <1>4

-----------------------------------------------------------------------------
(* The inductive invariant *)

Typed ==
  /\ arm \in Arms /\ profile \in Profiles
  /\ year \in Years /\ month \in Nat /\ phase \in Phases
  /\ isa \in Int /\ pension \in Int /\ side \in Int /\ sideBasis \in Int
  /\ isaOpen \in 0 .. year /\ isaClass \in Classes /\ principal \in Int
  /\ transfer \in [toPension : Int, toSide : Int]
  /\ credited \in Int /\ uncredited \in Int
  /\ refunds \in [Years -> Int] /\ pending \in Int /\ credits \in Int
  /\ taxes \in Int /\ transfers \in Int /\ gain \in Int /\ net \in Int

\* Where in the year each phase lies, and when nothing is on its way.
Timing ==
  /\ phase \in {"open", "credit", "contribute"} => month = FirstMonth(year)
  /\ phase = "month" => FirstMonth(year) <= month /\ month < FirstMonth(year + 1)
  /\ phase \in {"value", "done"} => year + 1 = Horizon /\ month = FirstMonth(year + 1)
  /\ phase \notin {"credit", "contribute"} => transfer = NoTransfer

\* A refund on the schedule was booked, is not overdue and falls due in time.
RefundsDue ==
  \A k \in Years : refunds[k] # 0 =>
    k < Booked /\ month <= FirstMonth(k + 1) + 1 /\ FirstMonth(k + 1) + 1 < LastMonth

IInv == Typed /\ Timing /\ RefundsDue /\ CashConserved /\ PensionBasisSplits /\ RoomRespected

\* What the year's quotes promise.
LEMMA QuoteFacts ==
  ASSUME Typed
  PROVE  /\ Ordinary.national \in Nat /\ Ordinary.local \in Nat /\ Ordinary.principal \in Int
         /\ Extra.national \in Nat /\ Extra.local \in Nat /\ Extra.principal \in Int
         /\ ThisYear.national \in Nat /\ ThisYear.local \in Nat
         /\ Ordinary.national + Extra.national <= ThisYear.national
         /\ Ordinary.local + Extra.local <= ThisYear.local
<1>1. profile.years \in [Years -> [income : Nat, national : Nat, local : Nat]]
  BY ProfilesAssumption DEF Typed
<1>2. ThisYear \in [income : Nat, national : Nat, local : Nat]
  BY <1>1 DEF ThisYear, Typed
<1>3. CreditRate(ThisYear.income) \in Rates
  BY <1>2, CreditRateFacts
<1>4. Lesser(PensionAnnual, PensionLaw.creditLimit) \in Nat
  BY PlanAssumption, PensionAssumption DEF PensionLaws, Lesser
<1>5. /\ Ordinary.national \in Nat /\ Ordinary.local \in Nat /\ Ordinary.principal \in Int
      /\ Ordinary.national <= ThisYear.national /\ Ordinary.local <= ThisYear.local
  <2>1. Ordinary = Credit(Lesser(PensionAnnual, PensionLaw.creditLimit),
                          CreditRate(ThisYear.income), ThisYear)
    BY DEF Ordinary, OrdinaryCredit
  <2>2. ThisYear.national \in Nat /\ ThisYear.local \in Nat
    BY <1>2
  <2> QED BY <1>3, <1>4, <2>1, <2>2, CreditFacts
<1>6. /\ Extra.national \in Nat /\ Extra.local \in Nat /\ Extra.principal \in Int
      /\ Extra.national <= ThisYear.national - Ordinary.national
      /\ Extra.local <= ThisYear.local - Ordinary.local
  <2>1. CASE ~ transfer.toPension > 0
    BY <1>2, <1>5, <2>1 DEF Extra, NoCredit
  <2>2. CASE transfer.toPension > 0
    <3> DEFINE amount == Lesser(Won(transfer.toPension, IsaLaw.transferRate), IsaLaw.transferCap)
               left   == [national |-> Greater(0, ThisYear.national - Ordinary.national),
                          local    |-> Greater(0, ThisYear.local - Ordinary.local)]
    <3>1. transfer.toPension \in Nat
      BY <2>2 DEF Typed
    <3>2. IsaLaw.transferRate \in Nat /\ IsaLaw.transferCap \in Nat
      BY IsaAssumption DEF IsaLaws, Rates
    <3>3. amount \in Nat
      <4>1. Won(transfer.toPension, IsaLaw.transferRate) \in Nat
        BY <3>1, <3>2, WonNat
      <4> QED BY <3>2, <4>1 DEF Lesser
    <3>4. /\ left.national = ThisYear.national - Ordinary.national /\ left.national \in Nat
          /\ left.local = ThisYear.local - Ordinary.local /\ left.local \in Nat
      BY <1>2, <1>5 DEF Greater
    <3>5. Extra = Credit(amount, CreditRate(ThisYear.income), left)
      BY <2>2 DEF Extra, TransferCredit
    <3> HIDE DEF amount, left
    <3> QED BY <1>3, <3>3, <3>4, <3>5, CreditFacts
  <2> QED BY <2>1, <2>2
<1> QED BY <1>2, <1>5, <1>6

LEMMA PlanFacts ==
  ASSUME Typed
  PROVE  /\ year \in Nat /\ year + 1 <= Horizon /\ Horizon \in Nat
         /\ PensionAnnual \in Nat /\ IsaBudget \in Nat
         /\ \A k \in Years : k \in Nat /\ k < Horizon
         /\ year > 0 => year - 1 \in Years
BY PlanAssumption, IsaAssumption, PensionAssumption, SMTT(40) DEF IsaLaws, PensionLaws, Typed, Years

LEMMA OutstandingInt == Typed => Outstanding \in Int
<1> HAVE Typed
<1>1. refunds[year] \in Int
  BY DEF Typed
<1>2. year > 0 => refunds[year - 1] \in Int
  BY PlanFacts DEF Typed
<1>3. CASE year > 0
  BY <1>1, <1>2, <1>3 DEF Outstanding
<1>4. CASE ~ year > 0
  BY <1>1, <1>4 DEF Outstanding
<1> QED BY <1>3, <1>4

LEMMA PaidInt == Typed => Booked * PensionAnnual \in Int /\ External \in Int
<1> HAVE Typed
<1>1. Booked \in Int /\ Contributed \in Int
  BY PlanFacts DEF Booked, Contributed
<1> QED BY <1>1, PlanFacts DEF External

LEMMA InitInvariant == Init => IInv
<1> HAVE Init
<1>1. year = 0 /\ year \in Years /\ Horizon \in Nat
  BY PlanAssumption DEF Init, Years
<1>2. profile \in Profiles /\ profile.initialClass \in Classes
  BY ProfilesAssumption DEF Init
<1>3. Typed
  BY <1>1, <1>2 DEF Init, Typed, Phases, NoTransfer
<1>4. Timing
  BY FirstMonthFacts DEF Init, Timing
<1>5. RefundsDue
  BY DEF Init, RefundsDue
<1>6. CashConserved
  <2>1. Outstanding = 0
    BY <1>1 DEF Init, Outstanding
  <2>2. External = 0
    BY <1>1, PlanAssumption, IsaAssumption, PensionAssumption DEF IsaLaws, PensionLaws, Init, External, Contributed
  <2> QED BY <2>1, <2>2 DEF Init, CashConserved, NoTransfer
<1>7. PensionBasisSplits
  BY <1>1, PlanAssumption, PensionAssumption DEF PensionLaws, Init, PensionBasisSplits, Booked
<1>8. RoomRespected
  <2>1. Grown(0) \in Nat
    BY GrownFacts
  <2> QED BY <2>1, IsaAssumption DEF IsaLaws, Init, RoomRespected, Grown
<1> QED BY <1>3, <1>4, <1>5, <1>6, <1>7, <1>8 DEF IInv

LEMMA KeepOpenPreserves == IInv /\ KeepOpen => IInv'
<1> HAVE IInv /\ KeepOpen
<1> USE DEF IInv, KeepOpen, plan, account, basis, refunding
<1>1. Typed'
  BY DEF Typed, Phases
<1>2. Timing'
  BY DEF Timing
<1>3. Booked' = Booked /\ Contributed' = Contributed
  BY DEF Booked, Contributed
<1>4. RefundsDue'
  BY <1>3 DEF RefundsDue
<1>5. CashConserved'
  <2>1. Outstanding' = Outstanding /\ External' = External
    BY <1>3 DEF Outstanding, External
  <2> QED BY <2>1 DEF CashConserved
<1>6. PensionBasisSplits'
  <2>1. transfer.toPension = 0
    BY DEF Timing, NoTransfer
  <2> QED BY <1>3, <2>1 DEF PensionBasisSplits, Typed
<1>7. RoomRespected'
  BY DEF RoomRespected
<1> QED BY <1>1, <1>2, <1>4, <1>5, <1>6, <1>7

LEMMA CloseAndReopenPreserves == IInv /\ CloseAndReopen => IInv'
<1> HAVE IInv /\ CloseAndReopen
<1> USE DEF IInv, plan, account, basis, refunding
<1> DEFINE tax      == ClosureTax(isaClass, isa, principal)
           proceeds == isa - tax
           routed   == Routed(proceeds)
<1>1. tax \in Int /\ proceeds \in Int
  <2>1. isaClass \in Classes /\ isa \in Int /\ principal \in Int
    BY DEF Typed
  <2>2. tax \in Int
    BY <2>1, ClosureTaxInt
  <2> HIDE DEF tax
  <2> QED BY <2>1, <2>2
<1>2. routed \in Int
  <2>1. FullCreditTransfer \in Int
    <3>1. IsaLaw.transferCap * 100 \in Int
          /\ (IsaLaw.transferCap # 0 => IsaLaw.transferRate \in Nat \ {0})
      BY IsaAssumption DEF IsaLaws, CapReached, Rates
    <3> QED BY <3>1, RoundedUpInt DEF FullCreditTransfer
  <2> HIDE DEF proceeds
  <2> QED BY <1>1, <2>1 DEF Routed, Lesser
<1>3. /\ phase = "open" /\ phase' = "credit" /\ isa' = 0 /\ taxes' = taxes + tax
      /\ transfer' = [toPension |-> routed, toSide |-> proceeds - routed]
      /\ transfers' = transfers + routed
      /\ isaOpen' = year /\ principal' = 0
      /\ isaClass' = ClassFor(profile.years[year - 1].income)
      /\ UNCHANGED <<plan, year, month, pension, side, sideBasis, basis, refunding, gain, net>>
  BY DEF CloseAndReopen
<1>4. isaClass' \in Classes
  BY <1>3 DEF ClassFor, Classes
<1>5. proceeds = isa - tax
  OBVIOUS
<1> HIDE DEF tax, proceeds, routed
<1>6. Typed'
  BY <1>1, <1>2, <1>3, <1>4, PlanFacts DEF Typed, Phases
<1>7. Timing'
  BY <1>3 DEF Timing
<1>8. Booked' = Booked /\ Contributed' = Contributed
  BY <1>3 DEF Booked, Contributed
<1>9. RefundsDue'
  BY <1>3, <1>8 DEF RefundsDue
<1>10. transfer = NoTransfer
  BY <1>3 DEF Timing
<1>11. CashConserved'
  <2>1. Outstanding' = Outstanding /\ External' = External
    BY <1>3, <1>8 DEF Outstanding, External
  <2>2. transfer'.toPension + transfer'.toSide = isa - tax
    BY <1>1, <1>2, <1>3, <1>5
  <2>3. transfer'.toPension \in Int /\ transfer'.toSide \in Int
    BY <1>1, <1>2, <1>3
  <2>4. isa + pension + side + Outstanding + pending + taxes = External + credits + gain
    <3>1. transfer.toPension = 0 /\ transfer.toSide = 0
      BY <1>10 DEF NoTransfer
    <3> QED BY <1>3, <3>1, OutstandingInt DEF CashConserved, Typed
  <2> QED BY <1>1, <1>3, <2>1, <2>2, <2>3, <2>4, OutstandingInt DEF CashConserved, Typed
<1>12. PensionBasisSplits'
  <2>1. credited + uncredited = Booked * PensionAnnual + transfers
    BY <1>3, <1>10 DEF PensionBasisSplits, Typed, NoTransfer
  <2>2. credited' = credited /\ uncredited' = uncredited /\ transfer'.toPension = routed
    BY <1>3 DEF basis
  <2> QED BY <1>2, <1>3, <1>8, <2>1, <2>2, PaidInt DEF PensionBasisSplits, Typed
<1>13. RoomRespected'
  <2>1. Grown(0) \in Nat /\ year' - isaOpen' = 0
    BY <1>3, GrownFacts, PlanFacts
  <2> QED BY <1>3, <2>1, IsaAssumption DEF IsaLaws, RoomRespected, Grown
<1> QED BY <1>6, <1>7, <1>9, <1>11, <1>12, <1>13

LEMMA BookCreditsPreserves == IInv /\ BookCredits => IInv'
<1> HAVE IInv /\ BookCredits
<1> USE DEF IInv, plan, account, basis, refunding
<1> DEFINE refund == Ordinary.national + Ordinary.local + Extra.national + Extra.local
           later  == FirstMonth(year + 1) + 1 < LastMonth
           kept   == IF later THEN refund ELSE 0
           owed   == IF later THEN 0 ELSE refund
           earned == Ordinary.principal + Extra.principal
           bare   == (PensionAnnual - Ordinary.principal) + (transfer.toPension - Extra.principal)
<1>1. refund \in Int /\ kept \in Int /\ owed \in Int /\ kept + owed = refund
  BY QuoteFacts
<1>2. earned \in Int /\ bare \in Int /\ earned + bare = PensionAnnual + transfer.toPension
  <2>1. /\ Ordinary.principal \in Int /\ Extra.principal \in Int
        /\ transfer.toPension \in Int /\ PensionAnnual \in Int
    BY QuoteFacts, PlanFacts DEF Typed
  <2>2. earned \in Int
    BY <2>1
  <2>3. PensionAnnual - Ordinary.principal \in Int /\ transfer.toPension - Extra.principal \in Int
    BY <2>1
  <2>4. bare \in Int
    BY <2>3
  <2>5. earned + bare = PensionAnnual + transfer.toPension
    BY <2>1, SMTT(30)
  <2> QED BY <2>2, <2>4, <2>5
<1>3. kept # 0 => FirstMonth(year + 1) + 1 < LastMonth
  OBVIOUS
<1>4. /\ phase = "credit" /\ phase' = "contribute" /\ credits' = credits + refund
      /\ refunds' = [refunds EXCEPT ![year] = kept]
      /\ pending' = pending + owed
      /\ credited' = credited + Ordinary.principal + Extra.principal
      /\ uncredited' = uncredited + (PensionAnnual - Ordinary.principal)
                                  + (transfer.toPension - Extra.principal)
      /\ UNCHANGED <<plan, year, month, isa, pension, side, sideBasis, account, transfer, taxes,
                     transfers, gain, net>>
  BY DEF BookCredits
<1>5. credited' = credited + earned /\ uncredited' = uncredited + bare
  <2>1. /\ Ordinary.principal \in Int /\ Extra.principal \in Int
        /\ transfer.toPension \in Int /\ PensionAnnual \in Int
        /\ credited \in Int /\ uncredited \in Int
    BY QuoteFacts, PlanFacts DEF Typed
  <2> QED BY <1>4, <2>1
<1> HIDE DEF refund, later, kept, owed, earned, bare
<1>6. Typed'
  <2>1. refunds' \in [Years -> Int]
    BY <1>1, <1>4 DEF Typed
  <2> QED BY <1>1, <1>2, <1>4, <1>5, <2>1 DEF Typed, Phases
<1>7. Timing'
  BY <1>4 DEF Timing
<1>8. Booked = year /\ Booked' = year + 1 /\ Contributed' = Contributed
  BY <1>4, PlanFacts DEF Booked, Contributed
<1>9. RefundsDue'
  <2> SUFFICES ASSUME NEW k \in Years, refunds'[k] # 0
               PROVE  /\ k < year + 1 /\ month <= FirstMonth(k + 1) + 1
                      /\ FirstMonth(k + 1) + 1 < LastMonth
    BY <1>4, <1>8 DEF RefundsDue
  <2>1. CASE k = year
    <3>1. kept # 0
      BY <1>4, <2>1 DEF Typed
    <3>2. month = FirstMonth(year) /\ FirstMonth(year + 1) = FirstMonth(year) + MonthsPerYear
      BY <1>4, PlanFacts, FirstMonthFacts DEF Timing
    <3> QED BY <1>3, <2>1, <3>1, <3>2, PlanFacts, FirstMonthFacts
  <2>2. CASE k # year
    <3>1. refunds[k] # 0
      BY <1>4, <2>2 DEF Typed
    <3> QED BY <1>8, <3>1, PlanFacts DEF RefundsDue
  <2> QED BY <2>1, <2>2
<1>10. refunds[year] = 0
  BY <1>8, PlanFacts DEF RefundsDue, Typed
<1>11. CashConserved'
  <2>1. Outstanding' = Outstanding + kept
    <3>1. refunds'[year] = kept
      BY <1>4 DEF Typed
    <3>2. CASE year > 0
      <4>1. year - 1 \in Years /\ year - 1 # year
        BY <3>2, PlanFacts
      <4>2. refunds'[year - 1] = refunds[year - 1] /\ refunds[year - 1] \in Int
        BY <1>4, <4>1 DEF Typed
      <4>3. Outstanding' = kept + refunds[year - 1] /\ Outstanding = 0 + refunds[year - 1]
        BY <1>4, <1>10, <3>1, <3>2, <4>2 DEF Outstanding
      <4> QED BY <1>1, <4>2, <4>3
    <3>3. CASE ~ year > 0
      BY <1>1, <1>4, <1>10, <3>1, <3>3 DEF Outstanding
    <3> QED BY <3>2, <3>3
  <2>2. External' = External
    BY <1>4, <1>8 DEF External
  <2>3. transfer.toPension \in Int /\ transfer.toSide \in Int
    BY DEF Typed
  <2> QED BY <1>1, <1>4, <2>1, <2>2, <2>3, OutstandingInt, PaidInt DEF CashConserved, Typed
<1>12. PensionBasisSplits'
  <2>1. Booked' * PensionAnnual = Booked * PensionAnnual + PensionAnnual
    BY <1>8, PlanFacts
  <2>2. transfer.toPension \in Int /\ PensionAnnual \in Int
    BY PlanFacts DEF Typed
  <2>3. credited + uncredited + transfer.toPension = Booked * PensionAnnual + transfers
    BY <1>4 DEF PensionBasisSplits
  <2>4. credited' + uncredited' = Booked' * PensionAnnual + transfers'
    BY <1>2, <1>4, <1>5, <2>1, <2>2, <2>3, PaidInt DEF Typed
  <2>5. Booked' * PensionAnnual \in Int /\ transfers' \in Int /\ credited' + uncredited' \in Int
    BY <1>6, <1>2, <1>5, <2>1, <2>2, PaidInt DEF Typed
  <2> QED BY <1>4, <2>4, <2>5 DEF PensionBasisSplits
<1>13. RoomRespected'
  BY <1>4 DEF RoomRespected
<1> QED BY <1>6, <1>7, <1>9, <1>11, <1>12, <1>13

LEMMA ContributePreserves == IInv /\ Contribute => IInv'
<1> HAVE IInv /\ Contribute
<1> USE DEF IInv, plan, account, basis, refunding
<1> DEFINE paid == IF arm.mode = "no_isa" THEN 0 ELSE Lesser(IsaBudget, Room(year - isaOpen, principal))
           deposit == IsaBudget - paid + transfer.toSide
<1>1. year - isaOpen \in Nat
  BY PlanFacts DEF Typed
<1>2. principal \in Int /\ principal <= IsaLaw.lifetimeLimit /\ principal <= Grown(year - isaOpen)
  BY DEF Typed, RoomRespected, Grown
<1>3. /\ paid \in Int
      /\ principal + paid <= IsaLaw.lifetimeLimit /\ principal + paid <= Grown(year - isaOpen)
  <2>1. /\ Room(year - isaOpen, principal) \in Nat
        /\ principal + Room(year - isaOpen, principal) <= IsaLaw.lifetimeLimit
        /\ principal + Room(year - isaOpen, principal) <= Grown(year - isaOpen)
    BY <1>1, <1>2, RoomFacts
  <2>2. IsaLaw.lifetimeLimit \in Nat /\ Grown(year - isaOpen) \in Nat
    BY <1>1, GrownFacts, IsaAssumption DEF IsaLaws
  <2> QED BY <1>2, <2>1, <2>2, PlanFacts DEF Lesser
<1>4. transfer.toPension \in Int /\ transfer.toSide \in Int
  BY DEF Typed
<1>5. deposit \in Int /\ deposit + paid = IsaBudget + transfer.toSide
  <2> HIDE DEF paid
  <2> QED BY <1>3, <1>4, PlanFacts
<1>6. /\ phase = "contribute" /\ phase' = "month" /\ principal' = principal + paid
      /\ isa' = isa + paid /\ pension' = pension + PensionAnnual + transfer.toPension
      /\ side' = side + deposit /\ sideBasis' = sideBasis + deposit /\ transfer' = NoTransfer
      /\ UNCHANGED <<plan, year, month, isaOpen, isaClass, basis, refunding, taxes, transfers,
                     gain, net>>
  BY DEF Contribute
<1> HIDE DEF paid, deposit
<1>7. Typed'
  BY <1>3, <1>4, <1>5, <1>6, PlanFacts DEF Typed, Phases, NoTransfer
<1>8. Timing'
  BY <1>6, PlanFacts, FirstMonthFacts DEF Timing
<1>9. Booked' = Booked /\ Contributed = year /\ Contributed' = year + 1
  BY <1>6, PlanFacts DEF Booked, Contributed
<1>10. RefundsDue'
  BY <1>6, <1>9 DEF RefundsDue
<1>11. CashConserved'
  <2>1. Outstanding' = Outstanding
    BY <1>6 DEF Outstanding
  <2>2. External' = External + PensionAnnual + IsaBudget
    BY <1>9, PlanFacts DEF External
  <2>3. transfer'.toPension = 0 /\ transfer'.toSide = 0
    BY <1>6 DEF NoTransfer
  <2>4. isa + pension + side + transfer.toPension + transfer.toSide + Outstanding + pending + taxes
          = External + credits + gain
    BY <1>6 DEF CashConserved
  <2>5. /\ isa' + pension' + side' = isa + pension + side + PensionAnnual + IsaBudget
                                       + transfer.toPension + transfer.toSide
        /\ isa' + pension' + side' \in Int
    BY <1>3, <1>4, <1>5, <1>6, PlanFacts DEF Typed
  <2>6. isa' + pension' + side' + 0 + 0 + Outstanding' + pending' + taxes' = External' + credits' + gain'
    BY <1>4, <1>6, <2>1, <2>2, <2>4, <2>5, OutstandingInt, PaidInt, PlanFacts DEF Typed
  <2> QED BY <1>6, <2>3, <2>6 DEF CashConserved
<1>12. PensionBasisSplits'
  BY <1>6, <1>9 DEF PensionBasisSplits
<1>13. RoomRespected'
  <2>1. principal' <= Grown(year - isaOpen)
    BY <1>3, <1>6
  <2> QED BY <1>3, <1>6, <2>1 DEF RoomRespected, Grown
<1> QED BY <1>7, <1>8, <1>10, <1>11, <1>12, <1>13

\* When the accounts are valued, every refund on the schedule has been paid.
LEMMA RefundsPaid ==
  ASSUME Typed, Timing, RefundsDue, phase \in {"value", "done"}
  PROVE  \A k \in Years : refunds[k] = 0
<1> SUFFICES ASSUME NEW k \in Years, refunds[k] # 0
             PROVE  FALSE
  OBVIOUS
<1>1. month = LastMonth
  BY DEF Timing, LastMonth
<1>2. month <= FirstMonth(k + 1) + 1 /\ FirstMonth(k + 1) + 1 < LastMonth
  BY DEF RefundsDue
<1>3. month \in Nat /\ FirstMonth(k + 1) \in Nat
  <2>1. k + 1 \in Nat
    BY PlanFacts
  <2> QED BY <2>1, FirstMonthFacts DEF Typed
<1> QED BY <1>1, <1>2, <1>3

LEMMA MonthPreserves == IInv /\ Month => IInv'
<1> HAVE IInv /\ Month
<1> USE DEF IInv, plan, account, basis
<1> DEFINE due  == IF February THEN refunds[year - 1] ELSE 0
           ends == month + 1 = FirstMonth(year + 1)
<1>1. February => year > 0 /\ year - 1 \in Years /\ month = FirstMonth(year) + 1
  BY PlanFacts DEF February
<1>2. due \in Int
  BY <1>1 DEF Typed
<1>3. /\ phase = "month" /\ gain' = gain + (isa' - isa) + (pension' - pension) + (side' - side - due)
      /\ sideBasis' = sideBasis + due
      /\ refunds' = IF February THEN [refunds EXCEPT ![year - 1] = 0] ELSE refunds
      /\ month' = month + 1
      /\ phase' = IF ~ends THEN "month" ELSE IF year + 1 = Horizon THEN "value" ELSE "open"
      /\ year' = IF ends /\ year + 1 < Horizon THEN year + 1 ELSE year
      /\ UNCHANGED <<plan, account, transfer, basis, pending, credits, taxes, transfers, net>>
  BY DEF Month
<1>4. isa' \in Int /\ pension' \in Int /\ side' \in Int
  <2>1. PICK g \in Growths, h \in Growths :
          isa' = Won(isa, g) /\ pension' = Won(pension, g) /\ side' = Won(side + due, h)
    BY DEF Month
  <2>2. g \in Int /\ h \in Int
    BY PlanAssumption
  <2>3. isa \in Int /\ pension \in Int /\ side + due \in Int
    BY <1>2 DEF Typed
  <2> HIDE DEF due
  <2> QED BY <2>1, <2>2, <2>3, WonInt
<1>5. /\ month \in Nat /\ FirstMonth(year) \in Nat /\ FirstMonth(year) <= month
      /\ month + 1 <= FirstMonth(year + 1)
      /\ FirstMonth(year + 1) = FirstMonth(year) + MonthsPerYear
      /\ MonthsPerYear \in Nat /\ MonthsPerYear >= 2
  BY <1>3, PlanFacts, FirstMonthFacts DEF Timing, Typed
<1>6. /\ year \in Nat /\ year + 1 <= Horizon /\ Horizon \in Nat /\ year' \in Years
      /\ Booked = year + 1 /\ Booked' = year + 1
      /\ Contributed = year + 1 /\ Contributed' = year + 1
  <2>1. year \in Nat /\ year + 1 <= Horizon /\ Horizon \in Nat
    BY PlanFacts
  <2>2. year' \in Years
    <3>1. CASE year' = year
      BY <3>1 DEF Typed
    <3>2. CASE year' # year
      <4>1. year' = year + 1 /\ year + 1 < Horizon
        BY <1>3, <3>2
      <4> QED BY <2>1, <4>1 DEF Years
    <3> QED BY <3>1, <3>2
  <2>3. Booked = year + 1 /\ Contributed = year + 1
    BY <1>3 DEF Booked, Contributed
  <2>4. CASE year' = year
    <3>1. phase' \in {"month", "value"}
      BY <1>3, <2>1, <2>4
    <3> QED BY <2>1, <2>2, <2>3, <2>4, <3>1 DEF Booked, Contributed
  <2>5. CASE year' # year
    <3>1. year' = year + 1 /\ phase' = "open"
      BY <1>3, <2>1, <2>5
    <3> QED BY <2>1, <2>2, <2>3, <3>1 DEF Booked, Contributed
  <2> QED BY <2>4, <2>5
<1>7. \A k \in Years : refunds'[k] = IF February /\ k = year - 1 THEN 0 ELSE refunds[k]
  BY <1>1, <1>3 DEF Typed
<1>8. ASSUME NEW k \in Years, refunds'[k] # 0
      PROVE  /\ k < year + 1 /\ month + 1 <= FirstMonth(k + 1) + 1
             /\ FirstMonth(k + 1) + 1 < LastMonth
  <2>1. refunds[k] # 0 /\ ~(February /\ k = year - 1)
    BY <1>7, <1>8
  <2>2. /\ k \in Nat /\ k < year + 1 /\ month <= FirstMonth(k + 1) + 1
        /\ FirstMonth(k + 1) + 1 < LastMonth
    BY <1>6, <2>1, PlanFacts DEF RefundsDue
  <2>3. month # FirstMonth(k + 1) + 1
    <3> SUFFICES ASSUME month = FirstMonth(k + 1) + 1
                 PROVE  FALSE
      OBVIOUS
    <3>1. CASE k = year
      BY <1>5, <3>1
    <3>2. CASE k = year - 1
      <4>1. k + 1 = year /\ year > 0
        BY <1>6, <2>2, <3>2
      <4> QED BY <2>1, <3>2, <4>1 DEF February
    <3>3. CASE k + 1 < year
      <4>1. FirstMonth((k + 1) + 1) <= FirstMonth(year)
        <5>1. k + 1 \in Nat /\ year \in Nat /\ k + 1 < year
          BY <1>6, <2>2, <3>3
        <5> QED BY <5>1, FirstMonthFacts, Zenon
      <4>2. FirstMonth((k + 1) + 1) = FirstMonth(k + 1) + MonthsPerYear /\ FirstMonth(k + 1) \in Nat
        <5>1. k + 1 \in Nat
          BY <2>2
        <5> QED BY <5>1, FirstMonthFacts
      <4> QED BY <1>5, <4>1, <4>2
    <3> QED BY <1>6, <2>2, <3>1, <3>2, <3>3
  <2>4. FirstMonth(k + 1) \in Nat
    BY <2>2, FirstMonthFacts
  <2> QED BY <1>5, <2>2, <2>3, <2>4
<1> HIDE DEF due
<1>9. Typed'
  <2>1. refunds' \in [Years -> Int]
    BY <1>1, <1>3 DEF Typed
  <2>2. isaOpen' \in 0 .. year'
    BY <1>3, <1>6 DEF Typed
  <2>3. phase' \in Phases
    BY <1>3 DEF Phases
  <2> QED BY <1>2, <1>3, <1>4, <1>6, <2>1, <2>2, <2>3 DEF Typed
<1>10. Timing'
  <2>1. transfer' = NoTransfer
    BY <1>3 DEF Timing
  <2>2. CASE ~ends
    BY <1>3, <1>5, <2>1, <2>2 DEF Timing
  <2>3. CASE ends
    BY <1>3, <1>6, <2>1, <2>3 DEF Timing
  <2> QED BY <2>2, <2>3
<1>11. RefundsDue'
  BY <1>3, <1>6, <1>8 DEF RefundsDue
<1>12. Outstanding' = Outstanding - due
  <2>1. refunds[year] \in Int /\ refunds'[year] = refunds[year]
    BY <1>6, <1>7, PlanFacts DEF Typed
  <2>2. CASE year = 0
    <3>1. due = 0 /\ ~February
      BY <1>1, <2>2 DEF due
    <3>2. year' = 0 \/ (year' = 1 /\ refunds'[1] = 0)
      <4>1. ASSUME year' = 1 PROVE refunds'[1] = 0
        <5> SUFFICES ASSUME refunds'[1] # 0 PROVE FALSE
          OBVIOUS
        <5> QED BY <1>6, <1>8, <2>2, <4>1
      <4> QED BY <1>3, <1>6, <2>2, <4>1
    <3>3. Outstanding = refunds[0] + 0
      BY <2>2 DEF Outstanding
    <3>4. Outstanding' = refunds'[0]
      BY <2>1, <2>2, <3>2 DEF Outstanding
    <3> QED BY <2>1, <2>2, <3>1, <3>3, <3>4
  <2>3. CASE year > 0
    <3>1. year - 1 \in Years /\ refunds[year - 1] \in Int
      BY <2>3, PlanFacts DEF Typed
    <3>2. refunds'[year - 1] = refunds[year - 1] - due
      BY <1>7, <3>1 DEF due
    <3>3. Outstanding = refunds[year] + refunds[year - 1]
      BY <2>3 DEF Outstanding
    <3>4. CASE year' = year
      <4>1. Outstanding' = refunds'[year] + refunds'[year - 1]
        BY <2>3, <3>4 DEF Outstanding
      <4> QED BY <1>2, <2>1, <3>1, <3>2, <3>3, <4>1
    <3>5. CASE year' # year
      <4>1. ends /\ year' = year + 1
        BY <1>3, <3>5
      <4>2. refunds'[year'] = 0
        <5> SUFFICES ASSUME refunds'[year'] # 0 PROVE FALSE
          OBVIOUS
        <5> QED BY <1>6, <1>8, <4>1
      <4>3. refunds'[year - 1] = 0
        <5> SUFFICES ASSUME refunds'[year - 1] # 0 PROVE FALSE
          OBVIOUS
        <5>1. month + 1 <= FirstMonth((year - 1) + 1) + 1
          BY <1>8, <3>1
        <5>2. (year - 1) + 1 = year
          BY <1>6
        <5> QED BY <1>5, <4>1, <5>1, <5>2
      <4>4. year' > 0 /\ year' - 1 = year
        BY <1>6, <4>1
      <4>5. Outstanding' = refunds'[year'] + refunds'[year' - 1]
        BY <4>4 DEF Outstanding
      <4>6. Outstanding' = refunds[year]
        BY <2>1, <4>2, <4>4, <4>5
      <4> QED BY <1>2, <2>1, <3>1, <3>2, <3>3, <4>3, <4>6
    <3> QED BY <3>4, <3>5
  <2> QED BY <1>6, <2>2, <2>3
<1>13. CashConserved'
  <2>1. External' = External
    BY <1>6 DEF External
  <2>2. transfer.toPension \in Int /\ transfer.toSide \in Int
    BY DEF Typed
  <2>3. isa + pension + side + transfer.toPension + transfer.toSide + Outstanding + pending + taxes
          = External + credits + gain
    BY <1>3 DEF CashConserved
  <2>4. phase' # "done"
    BY <1>3
  <2>5. isa' + pension' + side' = isa + pension + side + due + (gain' - gain) /\ gain' \in Int
    BY <1>2, <1>3, <1>4 DEF Typed
  <2>6. isa' + pension' + side' + transfer'.toPension + transfer'.toSide + Outstanding' + pending' + taxes'
          = External' + credits' + gain'
    BY <1>2, <1>3, <1>4, <1>12, <2>1, <2>2, <2>3, <2>5, OutstandingInt, PaidInt DEF Typed
  <2> QED BY <2>4, <2>6 DEF CashConserved
<1>14. PensionBasisSplits'
  BY <1>3, <1>6 DEF PensionBasisSplits
<1>15. RoomRespected'
  <2>1. /\ year - isaOpen \in Nat /\ Grown(year - isaOpen) \in Nat
        /\ Grown(year - isaOpen) <= Grown((year - isaOpen) + 1)
        /\ Grown((year - isaOpen) + 1) \in Nat
    BY <1>6, GrownFacts DEF Typed
  <2>2. principal' = principal /\ principal \in Int /\ principal <= Grown(year - isaOpen)
    BY <1>3 DEF RoomRespected, Grown, Typed
  <2>3. year' - isaOpen' = year - isaOpen \/ year' - isaOpen' = (year - isaOpen) + 1
    BY <1>3, <1>6 DEF Typed
  <2>4. principal' <= Grown(year' - isaOpen')
    BY <2>1, <2>2, <2>3
  <2> QED BY <2>2, <2>4 DEF RoomRespected, Grown
<1> QED BY <1>9, <1>10, <1>11, <1>13, <1>14, <1>15

LEMMA ValuePreserves == IInv /\ Value => IInv'
<1> HAVE IInv /\ Value
<1> USE DEF IInv, plan, account, basis, refunding
<1> DEFINE tax == ClosureTax(isaClass, isa, principal) + SideTax(side - sideBasis)
                    + AnnuityTax(pension, uncredited, DrawingYears)
<1>1. tax \in Int
  <2>1. ClosureTax(isaClass, isa, principal) \in Int
    BY ClosureTaxInt DEF Typed
  <2>2. SideTax(side - sideBasis) \in Int
    <3>1. side - sideBasis \in Int
      BY DEF Typed
    <3> QED BY <3>1, SideTaxInt
  <2>3. AnnuityTax(pension, uncredited, DrawingYears) \in Int
    BY AnnuityTaxInt, PlanAssumption DEF Typed
  <2> QED BY <2>1, <2>2, <2>3
<1>2. /\ phase = "value" /\ phase' = "done" /\ taxes' = taxes + tax
      /\ net' = isa + side + pension + pending - tax
      /\ UNCHANGED <<plan, year, month, isa, pension, side, sideBasis, account, transfer, basis,
                     refunding, transfers, gain>>
  BY DEF Value
<1> HIDE DEF tax
<1>3. Typed'
  BY <1>1, <1>2 DEF Typed, Phases
<1>4. Timing'
  BY <1>2 DEF Timing
<1>5. Booked' = Booked /\ Contributed' = Contributed
  BY <1>2 DEF Booked, Contributed
<1>6. RefundsDue'
  BY <1>2, <1>5 DEF RefundsDue
<1>7. CashConserved'
  <2>1. Outstanding = 0
    <3>1. \A k \in Years : refunds[k] = 0
      BY <1>2, RefundsPaid
    <3> QED BY <3>1, PlanFacts DEF Outstanding, Typed
  <2>2. transfer.toPension = 0 /\ transfer.toSide = 0
    BY <1>2 DEF Timing, NoTransfer
  <2>3. External' = External
    BY <1>5 DEF External
  <2>4. isa + pension + side + pending + taxes = External + credits + gain
    BY <1>2, <2>1, <2>2, PaidInt DEF CashConserved, Typed
  <2> QED BY <1>1, <1>2, <2>3, <2>4, PaidInt DEF CashConserved, Typed
<1>8. PensionBasisSplits'
  BY <1>2, <1>5 DEF PensionBasisSplits
<1>9. RoomRespected'
  BY <1>2 DEF RoomRespected
<1> QED BY <1>3, <1>4, <1>6, <1>7, <1>8, <1>9

LEMMA StepInvariant == IInv /\ [Next]_vars => IInv'
<1> HAVE IInv /\ [Next]_vars
<1>1. CASE UNCHANGED vars
  <2>1. UNCHANGED <<arm, profile, year, month, phase, isa, pension, side, sideBasis, isaOpen, isaClass,
                    principal, transfer, credited, uncredited, refunds, pending, credits, taxes,
                    transfers, gain, net>>
    BY <1>1 DEF vars
  <2>2. Booked' = Booked /\ Contributed' = Contributed
    BY <2>1 DEF Booked, Contributed
  <2>3. Typed' /\ Timing' /\ RoomRespected'
    BY <2>1 DEF IInv, Typed, Timing, RoomRespected
  <2>4. RefundsDue' /\ PensionBasisSplits'
    BY <2>1, <2>2 DEF IInv, RefundsDue, PensionBasisSplits
  <2>5. CashConserved'
    <3>1. Outstanding' = Outstanding /\ External' = External
      BY <2>1, <2>2 DEF Outstanding, External
    <3> QED BY <2>1, <3>1 DEF IInv, CashConserved
  <2> QED BY <2>3, <2>4, <2>5 DEF IInv
<1>2. CASE KeepOpen
  BY <1>2, KeepOpenPreserves
<1>3. CASE CloseAndReopen
  BY <1>3, CloseAndReopenPreserves
<1>4. CASE BookCredits
  BY <1>4, BookCreditsPreserves
<1>5. CASE Contribute
  BY <1>5, ContributePreserves
<1>6. CASE Month
  BY <1>6, MonthPreserves
<1>7. CASE Value
  BY <1>7, ValuePreserves
<1> QED BY <1>1, <1>2, <1>3, <1>4, <1>5, <1>6, <1>7 DEF Next

-----------------------------------------------------------------------------
(* Theorems *)

LEMMA Inductive == Spec => []IInv
BY InitInvariant, StepInvariant, PTL DEF Spec

\* Whatever the laws, the policy, the household and the growth, every won a
\* household started with, earned or was credited is in an account, on its
\* way, owed to it or paid as tax; at the end, net wealth and taxes add up to
\* it (simulate_household).
THEOREM CashIsConserved == Spec => []CashConserved
<1>1. IInv => CashConserved
  BY DEF IInv
<1> QED BY <1>1, Inductive, PTL

\* Every contribution and transfer is in the pension's tax basis, once.
THEOREM PensionBasisComplete == Spec => []PensionBasisSplits
<1>1. IInv => PensionBasisSplits
  BY DEF IInv
<1> QED BY <1>1, Inductive, PTL

\* No contribution passes the room of isa_contribution_room_krw, before or
\* after an ISA is closed and reopened.
THEOREM RoomIsRespected == Spec => []RoomRespected
<1>1. IInv => RoomRespected
  BY DEF IInv
<1> QED BY <1>1, Inductive, PTL

\* A booked credit is paid in the February after its year or is pending at
\* the end: none is overdue and none is lost (refund_schedule).
THEOREM RefundsReach == Spec => []RefundsReachHousehold
<1>1. IInv => RefundsReachHousehold
  <2> SUFFICES ASSUME IInv PROVE RefundsReachHousehold
    OBVIOUS
  <2>1. phase \in {"value", "done"} => \A k \in Years : refunds[k] = 0
    BY RefundsPaid DEF IInv
  <2>2. ASSUME NEW k \in Years, refunds[k] # 0
        PROVE  Booked > k /\ month <= FirstMonth(k + 1) + 1
    <3>1. Booked \in Int /\ k \in Int
      BY PlanFacts DEF IInv, Booked
    <3> QED BY <2>2, <3>1 DEF IInv, RefundsDue
  <2> QED BY <2>1, <2>2 DEF RefundsReachHousehold
<1> QED BY <1>1, Inductive, PTL

\* In no year do the credits booked exceed the tax the household has to
\* reduce, even when a transfer adds to the ordinary contribution.
THEOREM CreditsWithinCapacity == Spec => CreditWithinCapacity
<1>1. IInv /\ [Next]_vars => [credits' - credits <= ThisYear.national + ThisYear.local]_vars
  <2> SUFFICES ASSUME IInv, Next
               PROVE  credits' - credits <= ThisYear.national + ThisYear.local
    OBVIOUS
  <2>1. credits \in Int
    BY DEF IInv, Typed
  <2>2. ThisYear.national \in Nat /\ ThisYear.local \in Nat
    BY QuoteFacts DEF IInv
  <2>3. CASE BookCredits
    <3>1. credits' = credits + (Ordinary.national + Ordinary.local + Extra.national + Extra.local)
      BY <2>3 DEF BookCredits
    <3>2. /\ Ordinary.national \in Nat /\ Ordinary.local \in Nat
          /\ Extra.national \in Nat /\ Extra.local \in Nat
          /\ Ordinary.national + Extra.national <= ThisYear.national
          /\ Ordinary.local + Extra.local <= ThisYear.local
      BY QuoteFacts DEF IInv
    <3> QED BY <2>1, <2>2, <3>1, <3>2
  <2>4. CASE ~BookCredits
    <3>1. credits' = credits
      BY <2>4 DEF Next, KeepOpen, CloseAndReopen, Contribute, Month, Value, refunding
    <3> QED BY <2>1, <2>2, <3>1
  <2> QED BY <2>3, <2>4
<1> QED BY <1>1, Inductive, PTL DEF Spec, CreditWithinCapacity

-----------------------------------------------------------------------------
(* The law files: the bands of a pension *)

LEMMA BandFacts ==
  ASSUME NEW bands, BandsLoad(bands)
  PROVE  /\ Len(bands) \in Nat /\ DOMAIN bands = 1 .. Len(bands) /\ 1 \in DOMAIN bands
         /\ bands[1].from = 0
         /\ \A i \in DOMAIN bands : bands[i].from \in Nat /\ bands[i].rate \in Rates
<1> DEFINE Rung == [from : Nat, rate : Rates]
<1>1. bands \in Seq(Rung) /\ bands # <<>> /\ bands[1].from = 0
  BY DEF BandsLoad
<1>2. \A b \in Rung : b.from \in Nat /\ b.rate \in Rates
  OBVIOUS
<1> HIDE DEF Rung
<1>3. Len(bands) \in Nat /\ DOMAIN bands = 1 .. Len(bands) /\ \A i \in DOMAIN bands : bands[i] \in Rung
  BY <1>1
<1>4. Len(bands) # 0
  BY <1>1
<1> QED BY <1>1, <1>2, <1>3, <1>4

\* The band of an age is the last one it has reached, which starts highest.
LEMMA BandOfAge ==
  ASSUME NEW bands, BandsLoad(bands), NEW age \in Nat
  PROVE  \E i \in DOMAIN bands :
           /\ bands[i].from <= age /\ AgeRate(bands, age) = bands[i].rate
           /\ \A j \in DOMAIN bands : bands[j].from <= age => bands[j].from <= bands[i].from
<1> DEFINE reached == {i \in DOMAIN bands : age >= bands[i].from}
           top == CHOOSE i \in reached : \A j \in reached : j <= i
<1>1. /\ Len(bands) \in Nat /\ DOMAIN bands = 1 .. Len(bands) /\ 1 \in DOMAIN bands
      /\ bands[1].from = 0
      /\ \A i \in DOMAIN bands : bands[i].from \in Nat /\ bands[i].rate \in Rates
  BY BandFacts
<1>2. reached \subseteq 1 .. Len(bands) /\ 1 \in reached
  BY <1>1
<1>3. \E i \in reached : \A j \in reached : j <= i
  <2> HIDE DEF reached
  <2> QED BY <1>1, <1>2, GreatestIndex
<1>4. top \in reached /\ \A j \in reached : j <= top
  BY <1>3
<1>5. AgeRate(bands, age) = bands[top].rate
  BY <1>2 DEF AgeRate
<1> HIDE DEF top
<1>6. ASSUME NEW j \in DOMAIN bands, bands[j].from <= age PROVE bands[j].from <= bands[top].from
  <2>1. j \in reached /\ top \in DOMAIN bands
    BY <1>1, <1>4, <1>6
  <2>2. j <= top
    BY <1>4, <2>1
  <2>3. CASE j = top
    BY <1>1, <2>1, <2>3
  <2>4. CASE j < top
    BY <1>1, <2>1, <2>4 DEF BandsLoad
  <2> QED BY <1>1, <2>1, <2>2, <2>3, <2>4
<1> QED BY <1>1, <1>4, <1>5, <1>6

LEMMA AgeRateInRates ==
  ASSUME NEW bands, BandsLoad(bands), NEW age \in Nat
  PROVE  AgeRate(bands, age) \in Rates
<1>1. \A i \in DOMAIN bands : bands[i].rate \in Rates
  BY BandFacts
<1> QED BY <1>1, BandOfAge

-----------------------------------------------------------------------------
(* The law files: what loads is a law *)

LEMMA PensionLawFits ==
  ASSUME NEW f, PensionLoads(f), NEW kind, NEW age \in Nat
  PROVE  PensionLawOf(f, kind, age) \in PensionLaws
<1>1. AgeRate(f.bands, age) \in Rates
  BY AgeRateInRates DEF PensionLoads
<1>2. /\ f.annualLimit \in Nat /\ f.creditLimit \in Nat /\ f.wageThreshold \in Nat
      /\ f.comprehensiveThreshold \in Nat /\ f.threshold \in Nat
  BY DEF PensionLoads, PensionAmounts, Positive
<1>3. f.lowRate \in Rates /\ f.highRate \in Rates /\ f.localRate \in Rates /\ f.aboveRate \in Rates
  BY DEF PensionLoads, PensionRates
<1> QED BY <1>1, <1>2, <1>3 DEF PensionLawOf, PensionLaws

LEMMA IsaLawFits ==
  ASSUME NEW f, IsaLoads(f), NEW kind
  PROVE  IsaLawOf(f, kind) \in IsaLaws
<1>1. /\ f.annualLimit \in Nat \ {0} /\ f.lifetimeLimit \in Nat \ {0} /\ f.carryoverYears \in Nat
      /\ f.minYears \in Nat \ {0} /\ f.generalAllowance \in Nat /\ f.preferentialAllowance \in Nat
      /\ f.preferentialWage \in Nat /\ f.preferentialComprehensive \in Nat /\ f.transferCap \in Nat
  BY DEF IsaLoads, IsaAmounts
<1>2. f.rate \in Rates /\ f.localRate \in Rates /\ f.transferRate \in Rates
  BY DEF IsaLoads, IsaRates
<1>3. [c \in Classes |-> IF c = "general" THEN f.generalAllowance ELSE f.preferentialAllowance] \in [Classes -> Nat]
  BY <1>1
<1> QED BY <1>1, <1>2, <1>3 DEF IsaLawOf, IsaLaws

LEMMA OverseasLawFits ==
  ASSUME NEW f, OverseasLoads(f)
  PROVE  OverseasLawOf(f) \in OverseasLaws
BY DEF OverseasLoads, OverseasAmounts, OverseasRates, OverseasLawOf, OverseasLaws

-----------------------------------------------------------------------------
(* The law files: reading and valuing *)

\* The laws read are those the command asks for, in that order, and each of
\* them loads.
ReadInOrder ==
  /\ lawsRead \in Seq({"pension", "isa", "overseas"}) /\ Len(lawsRead) <= Len(Reads[command])
  /\ \A i \in DOMAIN lawsRead : lawsRead[i] = Reads[command][i] /\ Loads(lawsRead[i])

\* What was valued, was valued under laws that had all been read.
CampaignExits ==
  /\ command \in {"pensionCampaign", "householdView"} /\ AllRead
  /\ exits = [ways  |-> [way \in {"lumpSum", "annuityLow", "annuityHigh"} |-> Exit(way, saver.withheld)],
              years |-> YearsToDraw]
HouseholdExits ==
  /\ command = "isaHousehold" /\ AllRead /\ CapReached(IsaLawOf(files.isa, saver.kind))
  /\ exits = [ways |-> [threshold |-> Threshold, lumpSum |-> Exit("lumpSum", 0)], years |-> saver.drawing]

LawInv ==
  /\ saver \in Savers /\ command \in DOMAIN Reads
  /\ ReadInOrder
  /\ exits = NoExits \/ CampaignExits \/ HouseholdExits

LEMMA ReadsFacts ==
  ASSUME command \in DOMAIN Reads
  PROVE  /\ Reads[command] \in Seq({"pension", "isa", "overseas"})
         /\ command \in {"pensionCampaign", "householdView"} =>
              Reads[command][1] = "pension" /\ Len(Reads[command]) >= 1
         /\ command = "isaHousehold" =>
              Reads[command][1] = "isa" /\ Reads[command][2] = "pension" /\ Len(Reads[command]) = 3
<1>1. command \in {"afterTaxCampaign", "pensionSelection", "pensionCampaign", "householdView", "isaHousehold"}
  BY DEF Reads
<1>2. CASE command = "afterTaxCampaign"
  BY <1>2 DEF Reads
<1>3. CASE command = "pensionSelection"
  BY <1>3 DEF Reads
<1>4. CASE command = "pensionCampaign"
  BY <1>4 DEF Reads
<1>5. CASE command = "householdView"
  BY <1>5 DEF Reads
<1>6. CASE command = "isaHousehold"
  BY <1>6 DEF Reads
<1> QED BY <1>1, <1>2, <1>3, <1>4, <1>5, <1>6

LEMMA LawInitInvariant == LawInit => LawInv
<1> SUFFICES ASSUME LawInit PROVE LawInv
  OBVIOUS
<1>1. Reads[command] \in Seq({"pension", "isa", "overseas"})
  BY ReadsFacts DEF LawInit
<1>2. lawsRead = <<>> /\ Len(lawsRead) = 0 /\ Len(lawsRead) <= Len(Reads[command])
  BY <1>1 DEF LawInit
<1> QED BY <1>2 DEF LawInit, LawInv, ReadInOrder

LEMMA ReadLawPreserves == LawInv /\ ReadLaw => LawInv'
<1> SUFFICES ASSUME LawInv, ReadLaw PROVE LawInv'
  OBVIOUS
<1>1. UNCHANGED <<files, command, saver, exits>>
  BY DEF ReadLaw
<1>2. exits = NoExits \/ CampaignExits \/ HouseholdExits
  BY DEF LawInv
<1>3. lawsRead' # lawsRead => ~AllRead
  BY DEF ReadLaw
<1>4. CASE UNCHANGED lawsRead
  BY <1>1, <1>4 DEF LawInv, ReadInOrder, Loads, CampaignExits, HouseholdExits, AllRead, Exit, ExitRate, Taxable,
                    YearsToDraw, Threshold
<1>5. CASE lawsRead' # lawsRead
  <2> DEFINE name == Reads[command][Len(lawsRead) + 1]
             Names == {"pension", "isa", "overseas"}
  <2>1. lawsRead' = Append(lawsRead, name) /\ Loads(name)
    BY <1>5 DEF ReadLaw
  <2>2. Reads[command] \in Seq(Names) /\ lawsRead \in Seq(Names) /\ Len(lawsRead) < Len(Reads[command])
    <3>1. Reads[command] \in Seq(Names) /\ lawsRead \in Seq(Names) /\ Len(lawsRead) <= Len(Reads[command])
      BY ReadsFacts DEF LawInv, ReadInOrder
    <3>2. Len(lawsRead) # Len(Reads[command])
      BY <1>3, <1>5 DEF AllRead
    <3> QED BY <3>1, <3>2
  <2>3. name \in Names
    BY <2>2
  <2> HIDE DEF Names
  <2>4. lawsRead' \in Seq(Names) /\ Len(lawsRead') = Len(lawsRead) + 1
    BY <2>1, <2>2, <2>3
  <2>5. ASSUME NEW i \in DOMAIN lawsRead'
        PROVE  lawsRead'[i] = Reads[command][i] /\ Loads(lawsRead'[i])
    <3> HIDE DEF name
    <3>1. CASE i \in DOMAIN lawsRead
      <4>1. lawsRead'[i] = lawsRead[i]
        BY <2>1, <2>2, <3>1
      <4> QED BY <3>1, <4>1 DEF LawInv, ReadInOrder
    <3>2. CASE i = Len(lawsRead) + 1
      <4>1. lawsRead'[i] = name
        BY <2>1, <2>2, <3>2
      <4> QED BY <2>1, <3>2, <4>1 DEF name
    <3>3. i \in 1 .. Len(lawsRead) + 1 /\ DOMAIN lawsRead = 1 .. Len(lawsRead) /\ Len(lawsRead) \in Nat
      BY <2>2, <2>4
    <3> QED BY <3>1, <3>2, <3>3
  <2>6. ReadInOrder'
    <3>1. Len(lawsRead') <= Len(Reads[command])
      BY <2>2, <2>4
    <3>2. \A n : Loads(n)' = Loads(n)
      BY <1>1 DEF Loads
    <3> QED BY <1>1, <2>4, <2>5, <3>1, <3>2 DEF ReadInOrder, Names
  <2>7. exits = NoExits
    BY <1>2, <1>3, <1>5 DEF CampaignExits, HouseholdExits
  <2> QED BY <1>1, <2>6, <2>7 DEF LawInv
<1> QED BY <1>4, <1>5

LEMMA ValuePreservesLaws == LawInv /\ (ValueExits \/ ValueHousehold) => LawInv'
<1> SUFFICES ASSUME LawInv, ValueExits \/ ValueHousehold PROVE LawInv'
  OBVIOUS
<1>1. UNCHANGED <<files, command, saver, lawsRead>> /\ exits = NoExits /\ AllRead
  BY DEF ValueExits, ValueHousehold
<1>2. saver' \in Savers /\ command' \in DOMAIN Reads /\ ReadInOrder'
  BY <1>1 DEF LawInv, ReadInOrder, Loads
<1>3. CASE ValueExits
  <2>1. CampaignExits'
    BY <1>1, <1>3 DEF ValueExits, CampaignExits, AllRead, Exit, ExitRate, Taxable, YearsToDraw
  <2> QED BY <1>2, <2>1 DEF LawInv
<1>4. CASE ValueHousehold
  <2>1. CASE CapReached(IsaLawOf(files.isa, saver.kind))
    <3>1. HouseholdExits'
      BY <1>1, <1>4, <2>1 DEF ValueHousehold, HouseholdExits, AllRead, Exit, ExitRate, Taxable, Threshold
    <3> QED BY <1>2, <3>1 DEF LawInv
  <2>2. CASE ~CapReached(IsaLawOf(files.isa, saver.kind))
    BY <1>1, <1>2, <1>4, <2>2 DEF ValueHousehold, LawInv
  <2> QED BY <2>1, <2>2
<1> QED BY <1>3, <1>4

LEMMA LawInductive == LawSpec => []LawInv
<1>1. LawInv /\ [LawNext]_lawVars => LawInv'
  <2>1. LawInv /\ UNCHANGED lawVars => LawInv'
    BY DEF LawInv, lawVars, ReadInOrder, Loads, CampaignExits, HouseholdExits, AllRead, Exit, ExitRate, Taxable,
           YearsToDraw, Threshold
  <2> QED BY <2>1, ReadLawPreserves, ValuePreservesLaws DEF LawNext
<1> QED BY <1>1, LawInitInvariant, PTL DEF LawSpec

-----------------------------------------------------------------------------
(* The law files: what the ways out cost *)

LEMMA WonGrows ==
  ASSUME NEW a \in Nat, NEW b \in Nat, a <= b, NEW r \in Nat, NEW s \in Nat, r <= s
  PROVE  Won(a, r) <= Won(b, s)
<1>1. a * r \in Nat /\ b * r \in Nat /\ b * s \in Nat
  OBVIOUS
<1>2. PICK d \in Nat : b = a + d
  <2>1. b - a \in Nat
    OBVIOUS
  <2> QED BY <2>1
<1>3. PICK e \in Nat : s = r + e
  <2>1. s - r \in Nat
    OBVIOUS
  <2> QED BY <2>1
<1>4. a * r <= b * r
  <2>1. b * r = a * r + d * r /\ d * r \in Nat
    BY <1>2
  <2> QED BY <1>1, <2>1
<1>5. b * r <= b * s
  <2>1. b * s = b * r + b * e /\ b * e \in Nat
    BY <1>3
  <2> QED BY <1>1, <2>1
<1> DEFINE x == a * r
           y == b * s
<1>6. x \in Nat /\ y \in Nat /\ x <= y
  BY <1>1, <1>4, <1>5
<1> HIDE DEF x, y
<1>7. x \div 100 <= y \div 100
  BY <1>6
<1> QED BY <1>7 DEF x, y, Won

LEMMA WithLocalGrows ==
  ASSUME NEW law, law.localRate \in Nat, NEW a \in Nat, NEW b \in Nat, a <= b
  PROVE  /\ WithLocalUnder(law, a) \in Nat /\ WithLocalUnder(law, b) \in Nat
         /\ WithLocalUnder(law, a) <= WithLocalUnder(law, b)
<1>1. Won(a, law.localRate) \in Nat /\ Won(b, law.localRate) \in Nat
  BY WonNat
<1>2. Won(a, law.localRate) <= Won(b, law.localRate)
  BY WonGrows
<1> QED BY <1>1, <1>2 DEF WithLocalUnder

\* As many shares as it takes, and not one more.
LEMMA RoundedUpFits ==
  ASSUME NEW a \in Nat, NEW b \in Nat \ {0}
  PROVE  /\ RoundedUp(a, b) \in Nat /\ a <= b * RoundedUp(a, b)
         /\ b * (RoundedUp(a, b) - 1) < a
<1> DEFINE n == a + b - 1
           q == n \div b
<1>1. n \in Nat /\ b > 0
  OBVIOUS
<1>2. q \in Nat
  BY <1>1
<1>3. n = b * q + (n % b) /\ n % b \in 0 .. b - 1
  <2> HIDE DEF n
  <2> QED BY <1>1
<1>4. b * q \in Nat /\ b * (q - 1) = b * q - b
  <2> HIDE DEF q
  <2> QED BY <1>2
<1>5. RoundedUp(a, b) = q
  BY DEF RoundedUp
<1>6. a <= b * q /\ b * q - b < a
  <2> DEFINE product == b * q
             rest == n % b
  <2>1. product \in Nat /\ rest \in 0 .. b - 1 /\ a + b - 1 = product + rest
    BY <1>3, <1>4
  <2> HIDE DEF product, rest
  <2>2. a <= product /\ product - b < a
    BY <2>1
  <2> QED BY <2>2 DEF product
<1> QED BY <1>2, <1>4, <1>5, <1>6

LEMMA SaverFacts ==
  ASSUME saver \in Savers
  PROVE  /\ saver.balance \in Nat /\ saver.uncredited \in Nat /\ saver.withheld \in Nat
         /\ saver.age \in Nat /\ saver.drawing \in Nat \ {0}
         /\ Taxable \in Nat /\ Taxable <= saver.balance
<1>1. saver \in [balance : Nat, uncredited : Nat, withheld : Nat, age : Nat,
                 kind : {"wage", "comprehensive"}, drawing : Nat \ {0}]
  BY SaversAssumption
<1>2. /\ saver.balance \in Nat /\ saver.uncredited \in Nat /\ saver.withheld \in Nat
      /\ saver.age \in Nat /\ saver.drawing \in Nat \ {0}
  BY <1>1
<1> QED BY <1>2 DEF Taxable, Lesser

LEMMA PensionFacts ==
  ASSUME PensionLoads(files.pension), saver \in Savers
  PROVE  LET law == files.pension
         IN /\ law.threshold \in Nat \ {0} /\ law.minimumAge \in Nat
            /\ law.localRate \in Nat /\ law.aboveRate \in Nat /\ law.nonPensionRate \in Nat
            /\ law.foreignCreditRate \in Nat
            /\ AgeRate(law.bands, saver.age) \in Nat
            /\ \A way \in {"lumpSum", "annuityLow", "annuityHigh"} : ExitRate(way) \in Nat
<1> DEFINE law == files.pension
<1>1. law.threshold \in Nat \ {0} /\ law.minimumAge \in Nat
  BY DEF PensionLoads, PensionAmounts, Positive
<1>2. /\ law.localRate \in Rates /\ law.aboveRate \in Rates /\ law.nonPensionRate \in Rates
      /\ law.foreignCreditRate \in Rates
  BY DEF PensionLoads, PensionRates
<1>3. BandsLoad(law.bands) /\ saver.age \in Nat
  BY SaverFacts DEF PensionLoads
<1>4. Greater(saver.age, law.minimumAge) \in Nat
  BY <1>1, <1>3 DEF Greater
<1>5. AgeRate(law.bands, saver.age) \in Rates /\ AgeRate(law.bands, Greater(saver.age, law.minimumAge)) \in Rates
  BY <1>3, <1>4, AgeRateInRates
<1>6. Rates \subseteq Nat
  BY DEF Rates
<1>7. \A way \in {"lumpSum", "annuityLow", "annuityHigh"} : ExitRate(way) \in Rates
  BY <1>2, <1>5 DEF ExitRate
<1> QED BY <1>1, <1>2, <1>5, <1>6, <1>7

\* A way out costs no more than it is taxed, and of two the one at the higher
\* rate leaves less.
LEMMA ExitFacts ==
  ASSUME PensionLoads(files.pension), saver \in Savers, NEW withheld \in Nat,
         NEW low \in {"lumpSum", "annuityLow", "annuityHigh"},
         NEW high \in {"lumpSum", "annuityLow", "annuityHigh"},
         ExitRate(low) <= ExitRate(high)
  PROVE  /\ Exit(low, withheld).net <= saver.balance
         /\ Exit(high, withheld).net <= Exit(low, withheld).net
<1> DEFINE law == files.pension
           tax(way) == WithLocalUnder(law, Won(Taxable, ExitRate(way)))
           cap == Won(withheld, law.foreignCreditRate)
<1>1. /\ Taxable \in Nat /\ saver.balance \in Nat /\ law.localRate \in Nat
      /\ law.foreignCreditRate \in Nat /\ ExitRate(low) \in Nat /\ ExitRate(high) \in Nat
  BY SaverFacts, PensionFacts
<1>2. Won(Taxable, ExitRate(low)) \in Nat /\ Won(Taxable, ExitRate(high)) \in Nat /\ cap \in Nat
  BY <1>1, WonNat
<1>3. Won(Taxable, ExitRate(low)) <= Won(Taxable, ExitRate(high))
  BY <1>1, WonGrows
<1>4. tax(low) \in Nat /\ tax(high) \in Nat /\ tax(low) <= tax(high)
  BY <1>1, <1>2, <1>3, WithLocalGrows
<1>5. \A way : Exit(way, withheld).net = saver.balance - tax(way) + Lesser(tax(way), cap)
  BY DEF Exit
<1> HIDE DEF tax, cap
<1> QED BY <1>1, <1>2, <1>4, <1>5 DEF Lesser

LEMMA ThresholdFacts ==
  ASSUME PensionLoads(files.pension), saver \in Savers
  PROVE  /\ Threshold.net <= saver.balance
         /\ Taxable <= files.pension.threshold * saver.drawing =>
              Threshold.tax = WithLocalUnder(files.pension, Won(Taxable, AgeRate(files.pension.bands, saver.age)))
<1> DEFINE law  == files.pension
           rate == AgeRate(law.bands, saver.age)
           room == law.threshold * saver.drawing
           low  == Lesser(Taxable, room)
<1>1. /\ Taxable \in Nat /\ saver.balance \in Nat /\ law.localRate \in Nat /\ law.aboveRate \in Nat /\ rate \in Nat
      /\ law.threshold \in Nat /\ saver.drawing \in Nat
  BY SaverFacts, PensionFacts
<1>2. room \in Nat
  BY <1>1
<1>3. Threshold.tax = WithLocalUnder(law, Won(low, rate) + Won(Taxable - low, law.aboveRate))
  BY DEF Threshold, AnnuityTaxUnder, PensionLawOf, Taxable, WithLocalUnder
<1>4. Threshold.net = saver.balance - Threshold.tax
  BY DEF Threshold
<1> HIDE DEF room, rate
<1>5. low \in Nat /\ Taxable - low \in Nat
  BY <1>1, <1>2 DEF Lesser
<1>6. Won(low, rate) \in Nat /\ Won(Taxable - low, law.aboveRate) \in Nat
  <2> HIDE DEF low
  <2> QED BY <1>1, <1>5, WonNat
<1>7. Threshold.tax \in Nat
  <2>1. Won(low, rate) + Won(Taxable - low, law.aboveRate) \in Nat
    <3> HIDE DEF low
    <3> QED BY <1>6
  <2> QED BY <1>1, <1>3, <2>1, WithLocalGrows
<1>8. ASSUME Taxable <= room PROVE Threshold.tax = WithLocalUnder(law, Won(Taxable, rate))
  <2>1. low = Taxable
    BY <1>8 DEF Lesser
  <2>2. Won(Taxable - low, law.aboveRate) = 0
    <3>1. (Taxable - low) * law.aboveRate = 0
      BY <1>1, <2>1
    <3> QED BY <3>1 DEF Won
  <2>3. Won(low, rate) + Won(Taxable - low, law.aboveRate) = Won(Taxable, rate)
    <3>1. Won(Taxable, rate) \in Nat
      BY <1>1, WonNat
    <3> HIDE DEF low
    <3> QED BY <2>1, <2>2, <3>1
  <2> QED BY <1>3, <2>3
<1> QED BY <1>1, <1>4, <1>7, <1>8 DEF room, rate

-----------------------------------------------------------------------------
(* The law files: theorems *)

LEMMA WasReadLoads == LawInv => \A name : WasRead(name) => Loads(name)
BY DEF LawInv, ReadInOrder, WasRead

LEMMA ValuedFacts ==
  ASSUME LawInv, Valued
  PROVE  /\ PensionLoads(files.pension) /\ saver \in Savers
         /\ (CampaignExits /\ command # "isaHousehold") \/ (HouseholdExits /\ command = "isaHousehold")
<1>1. CampaignExits \/ HouseholdExits
  BY DEF LawInv, Valued
<1>2. command \in DOMAIN Reads /\ saver \in Savers /\ AllRead
  BY <1>1 DEF LawInv, CampaignExits, HouseholdExits
<1>3. \E i \in DOMAIN lawsRead : Reads[command][i] = "pension"
  <2>1. DOMAIN lawsRead = 1 .. Len(Reads[command]) /\ Len(Reads[command]) \in Nat
    BY <1>2, ReadsFacts DEF LawInv, ReadInOrder, AllRead
  <2>2. CASE CampaignExits
    <3>1. Reads[command][1] = "pension" /\ Len(Reads[command]) >= 1
      BY <1>2, <2>2, ReadsFacts DEF CampaignExits
    <3>2. 1 \in DOMAIN lawsRead
      BY <2>1, <3>1
    <3> QED BY <3>1, <3>2
  <2>3. CASE HouseholdExits
    <3>1. Reads[command][2] = "pension" /\ Len(Reads[command]) = 3
      BY <1>2, <2>3, ReadsFacts DEF HouseholdExits
    <3>2. 2 \in DOMAIN lawsRead
      BY <2>1, <3>1
    <3> QED BY <3>1, <3>2
  <2> QED BY <1>1, <2>2, <2>3
<1>4. Loads("pension")
  BY <1>3 DEF LawInv, ReadInOrder
<1>5. PensionLoads(files.pension)
  BY <1>4 DEF Loads
<1>6. CampaignExits => command # "isaHousehold"
  <2>1. CampaignExits => command \in {"pensionCampaign", "householdView"}
    BY DEF CampaignExits
  <2> QED BY <2>1
<1>7. HouseholdExits => command = "isaHousehold"
  BY DEF HouseholdExits
<1>8. (CampaignExits /\ command # "isaHousehold") \/ (HouseholdExits /\ command = "isaHousehold")
  BY <1>1, <1>6, <1>7, Zenon
<1> QED BY <1>2, <1>5, <1>8, Zenon

\* Whatever the files, a law that a command goes on with is one the rules of
\* AccountTax are stated for, and a household that is valued has a transfer
\* that earns the full credit (load_*_tax_regime).
THEOREM LoadedLawsFit == LawSpec => []LawsFit
<1>1. LawInv => LawsFit
  <2> SUFFICES ASSUME LawInv PROVE LawsFit
    OBVIOUS
  <2>1. saver \in Savers /\ saver.age \in Nat
    BY SaverFacts DEF LawInv
  <2>2. WasRead("pension") => PensionLawOf(files.pension, saver.kind, saver.age) \in PensionLaws
    BY <2>1, WasReadLoads, PensionLawFits DEF Loads
  <2>3. WasRead("isa") => IsaLawOf(files.isa, saver.kind) \in IsaLaws
    BY WasReadLoads, IsaLawFits DEF Loads
  <2>4. WasRead("overseas") => OverseasLawOf(files.overseas) \in OverseasLaws
    BY WasReadLoads, OverseasLawFits DEF Loads
  <2>5. Valued /\ command = "isaHousehold" => CapReached(IsaLawOf(files.isa, saver.kind))
    BY ValuedFacts DEF HouseholdExits
  <2> QED BY <2>2, <2>3, <2>4, <2>5 DEF LawsFit
<1> QED BY <1>1, LawInductive, PTL

\* For any bands that load, the last one the loop keeps is the highest that
\* has been reached (_age_rate).
THEOREM RateIsOfBand == LawSpec => []RateOfBand
<1>1. LawInv => RateOfBand
  <2> SUFFICES ASSUME LawInv, WasRead("pension") PROVE RateOfBand
    BY DEF RateOfBand
  <2>1. saver.age \in Nat
    BY SaverFacts DEF LawInv
  <2>2. BandsLoad(files.pension.bands)
    BY WasReadLoads DEF Loads, PensionLoads
  <2>3. \E i \in DOMAIN files.pension.bands :
          /\ files.pension.bands[i].from <= saver.age
          /\ AgeRate(files.pension.bands, saver.age) = files.pension.bands[i].rate
          /\ \A j \in DOMAIN files.pension.bands : files.pension.bands[j].from <= saver.age
               => files.pension.bands[j].from <= files.pension.bands[i].from
    BY <2>1, <2>2, BandOfAge
  <2> QED BY <2>3 DEF RateOfBand
<1> QED BY <1>1, LawInductive, PTL

\* The years quoted keep every payment within the threshold, and a year less
\* would not (years_to_draw_at_threshold).
THEOREM DrawsWithinThreshold == LawSpec => []DrawWithinThreshold
<1>1. LawInv => DrawWithinThreshold
  <2> SUFFICES ASSUME LawInv, Valued, command # "isaHousehold"
               PROVE  /\ Taxable <= files.pension.threshold * exits.years
                      /\ Taxable > 0 => files.pension.threshold * (exits.years - 1) < Taxable
    BY DEF DrawWithinThreshold
  <2>1. exits.years = YearsToDraw
    BY ValuedFacts DEF CampaignExits
  <2>2. Taxable \in Nat /\ files.pension.threshold \in Nat \ {0}
    BY ValuedFacts, SaverFacts, PensionFacts
  <2>3. CASE Taxable = 0
    <3>1. files.pension.threshold * exits.years = 0
      BY <2>1, <2>2, <2>3 DEF YearsToDraw
    <3> QED BY <2>3, <3>1
  <2>4. CASE Taxable # 0
    <3>1. exits.years = RoundedUp(Taxable, files.pension.threshold)
      BY <2>1, <2>4 DEF YearsToDraw
    <3> QED BY <2>2, <3>1, RoundedUpFits
  <2> QED BY <2>3, <2>4
<1> QED BY <1>1, LawInductive, PTL

\* Under any law that loads, drawing over the years quoted or more is taxed
\* as the low annuity is (quote_threshold_annuity_exit, quote_pension_exit).
THEOREM AnnuitiesAlwaysAgree == LawSpec => []AnnuitiesAgree
<1>1. LawInv => AnnuitiesAgree
  <2> DEFINE law == files.pension
  <2> SUFFICES ASSUME LawInv, Valued, command = "isaHousehold", YearsToDraw <= saver.drawing,
                      law.minimumAge <= saver.age
               PROVE  exits.ways.threshold.tax = Exit("annuityLow", 0).tax
    BY DEF AnnuitiesAgree
  <2>1. PensionLoads(files.pension) /\ saver \in Savers
    BY ValuedFacts
  <2>2. /\ Taxable \in Nat /\ law.threshold \in Nat \ {0} /\ saver.drawing \in Nat
        /\ law.minimumAge \in Nat /\ saver.age \in Nat
    BY <2>1, SaverFacts, PensionFacts
  <2>3. Taxable <= law.threshold * saver.drawing
    <3>1. CASE Taxable = 0
      <4>1. law.threshold * saver.drawing \in Nat
        BY <2>2
      <4> QED BY <3>1, <4>1
    <3>2. CASE Taxable # 0
      <4> DEFINE years == RoundedUp(Taxable, law.threshold)
      <4>1. years \in Nat /\ Taxable <= law.threshold * years
        BY <2>2, RoundedUpFits
      <4>2. years <= saver.drawing
        BY <3>2 DEF YearsToDraw
      <4> HIDE DEF years
      <4>3. law.threshold * years <= law.threshold * saver.drawing
        BY <2>2, <4>1, <4>2, ProductIsMonotone
      <4>4. law.threshold * years \in Nat /\ law.threshold * saver.drawing \in Nat
        BY <2>2, <4>1
      <4> QED BY <2>2, <4>1, <4>3, <4>4
    <3> QED BY <3>1, <3>2
  <2>4. exits.ways.threshold.tax = WithLocalUnder(law, Won(Taxable, AgeRate(law.bands, saver.age)))
    BY <2>1, <2>3, ThresholdFacts, ValuedFacts DEF HouseholdExits
  <2>5. Greater(saver.age, law.minimumAge) = saver.age
    BY <2>2 DEF Greater
  <2>6. Exit("annuityLow", 0).tax = WithLocalUnder(law, Won(Taxable, AgeRate(law.bands, saver.age)))
    BY <2>5 DEF Exit, ExitRate
  <2> QED BY <2>4, <2>6
<1> QED BY <1>1, LawInductive, PTL

\* No way out of a pension returns more than the balance, and the three
\* amounts are in the order of their rates (quote_pension_exit).
THEOREM WaysAreInOrder == LawSpec => []WaysInOrder
<1>1. LawInv => WaysInOrder
  <2> SUFFICES ASSUME LawInv, Valued PROVE WaysInOrder
    BY DEF WaysInOrder
  <2>1. PensionLoads(files.pension) /\ saver \in Savers /\ saver.withheld \in Nat
    BY ValuedFacts, SaverFacts
  <2>2. \A way \in {"lumpSum", "annuityLow", "annuityHigh"} : ExitRate(way) <= ExitRate(way)
    <3>1. \A way \in {"lumpSum", "annuityLow", "annuityHigh"} : ExitRate(way) \in Nat
      BY <2>1, PensionFacts
    <3> QED BY <3>1
  <2>3. CASE command # "isaHousehold"
    <3>1. exits.ways = [way \in {"lumpSum", "annuityLow", "annuityHigh"} |-> Exit(way, saver.withheld)]
      BY <2>3, ValuedFacts DEF CampaignExits
    <3>2. \A way \in DOMAIN exits.ways : exits.ways[way].net <= saver.balance
      BY <2>1, <2>2, <3>1, ExitFacts
    <3>3. ExitRate("annuityHigh") = files.pension.aboveRate /\ ExitRate("lumpSum") = files.pension.nonPensionRate
      BY DEF ExitRate
    <3>4. ExitRate("annuityLow") <= ExitRate("annuityHigh")
            => Exit("annuityHigh", saver.withheld).net <= Exit("annuityLow", saver.withheld).net
      BY <2>1, ExitFacts
    <3>5. ExitRate("annuityHigh") <= ExitRate("lumpSum")
            => Exit("lumpSum", saver.withheld).net <= Exit("annuityHigh", saver.withheld).net
      BY <2>1, ExitFacts
    <3>6. /\ exits.ways.lumpSum = Exit("lumpSum", saver.withheld)
          /\ exits.ways.annuityLow = Exit("annuityLow", saver.withheld)
          /\ exits.ways.annuityHigh = Exit("annuityHigh", saver.withheld)
      BY <3>1
    <3> QED BY <3>2, <3>3, <3>4, <3>5, <3>6 DEF WaysInOrder
  <2>4. CASE command = "isaHousehold"
    <3>1. exits.ways = [threshold |-> Threshold, lumpSum |-> Exit("lumpSum", 0)]
      BY <2>4, ValuedFacts DEF HouseholdExits
    <3>2. Threshold.net <= saver.balance /\ Exit("lumpSum", 0).net <= saver.balance
      BY <2>1, <2>2, ThresholdFacts, ExitFacts
    <3>3. \A way \in DOMAIN exits.ways : exits.ways[way].net <= saver.balance
      BY <3>1, <3>2
    <3> QED BY <2>4, <3>3 DEF WaysInOrder
  <2> QED BY <2>3, <2>4
<1> QED BY <1>1, LawInductive, PTL

\* Together: what the run checks of the law files under a preflight.
THEOREM LawsAreSound == LawSpec => []LawsSound
BY LoadedLawsFit, RateIsOfBand, DrawsWithinThreshold, AnnuitiesAlwaysAgree, WaysAreInOrder, PTL DEF LawsSound

-----------------------------------------------------------------------------
(* Credits and the principal that earns them *)

\* A common factor cancels out.
LEMMA FactorCancels ==
  ASSUME NEW f \in Nat \ {0}, NEW a \in Int, NEW b \in Int, f * a =< f * b
  PROVE  a =< b
<1>1. f * a \in Int /\ f * b \in Int
  OBVIOUS
<1>2. (f * a) \div f = a /\ (f * b) \div f = b
  BY QuotientOfProduct
<1> QED BY <1>1, <1>2, QuotientIsMonotone

\* Principal that earns an amount before rounding earns it after, too.
LEMMA WonReaches ==
  ASSUME NEW x \in Nat, NEW a \in Nat, NEW rate \in Nat, 100 * x =< a * rate
  PROVE  x =< Won(a, rate)
<1>1. PICK m \in Nat : m = a * rate
  BY ProductIsNat
<1>2. x =< m \div 100
  BY <1>1
<1> QED BY <1>1, <1>2 DEF Won

\* Two amounts earn together what they earn apart.
LEMMA WonTogether ==
  ASSUME NEW a \in Nat, NEW b \in Nat, NEW rate \in Nat
  PROVE  Won(a, rate) + Won(b, rate) =< Won(a + b, rate)
<1>1. PICK m \in Nat : m = a * rate
  BY ProductIsNat
<1>2. PICK n \in Nat : n = b * rate
  BY ProductIsNat
<1>3. (a + b) * rate = m + n
  BY <1>1, <1>2
<1>4. (m \div 100) + (n \div 100) =< (m + n) \div 100
  OBVIOUS
<1> QED BY <1>1, <1>2, <1>3, <1>4 DEF Won

\* A share x of f, out of e that is worth f at the rate, is earned by any
\* principal p that is that share of e.
LEMMA ShareReaches ==
  ASSUME NEW e \in Nat, NEW r \in Nat, NEW f \in Nat \ {0}, NEW x \in Nat, NEW p \in Nat, NEW y \in Nat,
         e * x =< f * p, f * y =< (e * r) * x
  PROVE  y =< p * r
<1>1. PICK a \in Nat : a = e * x
  BY ProductIsNat
<1>2. PICK b \in Nat : b = f * p
  BY ProductIsNat
<1>3. a * r =< b * r
  BY <1>1, <1>2, ProductIsMonotone
<1>4. a * r = (e * r) * x
  BY <1>1
<1>5. b * r = f * (p * r)
  BY <1>2
<1>6. f * y =< f * (p * r)
  <2>1. f * y \in Nat /\ a * r \in Nat /\ b * r \in Nat
    BY ProductIsNat
  <2>2. f * y =< a * r
    BY <1>4
  <2>3. f * y =< b * r
    BY <1>3, <2>1, <2>2
  <2> QED BY <1>5, <2>3
<1>7. p * r \in Int
  OBVIOUS
<1> QED BY <1>6, <1>7, FactorCancels

\* A local rate of which a hundred is a multiple, such as a tenth.
WholeShares(k) == k \in Nat \ {0} /\ k * PensionLaw.localRate = 100

LEMMA CreditIsBacked ==
  ASSUME NEW eligible \in Nat, NEW rate \in Rates, NEW capacity,
         capacity.national \in Nat, capacity.local \in Nat,
         NEW k, WholeShares(k), NEW c, c = Credit(eligible, rate, capacity)
  PROVE  /\ c.national \in Nat /\ c.local \in Nat /\ c.principal \in Nat
         /\ c.national =< Won(c.principal, rate)
         /\ c.local =< Won(Won(c.principal, rate), PensionLaw.localRate)
<1>0. rate \in Nat /\ PensionLaw.localRate \in Nat /\ k \in Nat \ {0} /\ k * PensionLaw.localRate = 100
  BY RateFacts DEF Rates, WholeShares
<1>1. PICK L \in Nat \ {0} : L = PensionLaw.localRate /\ k * L = 100
  BY <1>0
<1>2. PICK F \in Nat : F = Won(eligible, rate)
  BY <1>0, WonNat
<1>3. PICK G \in Nat : G = Won(F, L)
  BY <1>1, WonNat, ZenonT(60)
<1>4. PICK n \in Nat : n = Lesser(F, capacity.national) /\ n =< F
  BY DEF Lesser
<1>5. PICK l \in Nat : l = Lesser(G, capacity.local) /\ l =< G
  BY DEF Lesser
<1>6. c.national = n /\ c.local = l
      /\ c.principal = IF F = 0 THEN 0
                       ELSE Greater(RoundedUp(eligible * n, F),
                                    IF G = 0 THEN 0 ELSE RoundedUp(eligible * l, G))
  BY <1>1, <1>2, <1>3, <1>4, <1>5 DEF Credit
<1>7. CASE F = 0
  <2>1. G = 0
    BY <1>3, <1>7 DEF Won
  <2>2. n = 0 /\ l = 0 /\ c.principal = 0
    BY <1>4, <1>5, <1>6, <1>7, <2>1
  <2>3. Won(0, rate) \in Nat
    BY <1>0, WonNat
  <2>4. Won(Won(0, rate), PensionLaw.localRate) \in Nat
    BY <1>0, <2>3, WonNat, ZenonT(60)
  <2> QED BY <1>6, <2>2, <2>3, <2>4
<1>8. CASE F # 0
  <2>1. PICK q \in Nat : q = RoundedUp(eligible * n, F) /\ eligible * n =< F * q
    BY <1>8, ProductIsNat, RoundedUpFits
  <2>2. PICK s \in Nat : s = (IF G = 0 THEN 0 ELSE RoundedUp(eligible * l, G)) /\ eligible * l =< G * s
    <3>1. CASE G = 0
      <4>1. l = 0
        BY <1>5, <3>1
      <4>2. eligible * l = 0
        BY <4>1
      <4> QED BY <3>1, <4>2
    <3>2. CASE G # 0
      BY <3>2, ProductIsNat, RoundedUpFits
    <3> QED BY <3>1, <3>2
  <2>3. PICK p \in Nat : p = c.principal /\ q =< p /\ s =< p
    BY <1>6, <1>8, <2>1, <2>2 DEF Greater
  <2>4. PICK m \in Nat : m = eligible * rate /\ 100 * F =< m
    <3>1. PICK m \in Nat : m = eligible * rate
      BY <1>0, ProductIsNat
    <3>2. F = m \div 100
      BY <1>2, <3>1 DEF Won
    <3> QED BY <3>1, <3>2
  <2>5. eligible * n =< F * p /\ eligible * l =< G * p
    <3>1. F * q =< F * p /\ G * s =< G * p
      BY <2>3, ProductIsMonotone
    <3>2. eligible * n \in Nat /\ eligible * l \in Nat /\ F * q \in Nat /\ F * p \in Nat /\ G * s \in Nat /\ G * p \in Nat
      BY ProductIsNat
    <3> QED BY <2>1, <2>2, <3>1, <3>2
  <2>6. 100 * n =< p * rate
    <3>1. (100 * F) * n =< m * n
      BY <2>4, ProductIsMonotone
    <3>2. (100 * F) * n = F * (100 * n) /\ 100 * n \in Nat
      OBVIOUS
    <3>3. F * (100 * n) =< (eligible * rate) * n
      BY <2>4, <3>1, <3>2
    <3> QED BY <1>0, <1>8, <2>5, <3>2, <3>3, ShareReaches
  <2>7. PICK W \in Nat : W = Won(p, rate)
    BY <1>0, WonNat
  <2>8. n =< W
    BY <1>0, <2>6, <2>7, WonReaches
  <2>9. k * l =< W
    <3>1. CASE G = 0
      <4>1. l = 0
        BY <1>5, <3>1
      <4> QED BY <1>0, <4>1
    <3>2. CASE G # 0
      <4>1. k * G =< F
        <5>1. PICK j \in Nat : j = F * L
          BY ProductIsNat
        <5>2. 100 * G =< j
          BY <1>3, <5>1 DEF Won
        <5>3. L * (k * G) = (k * L) * G
          BY <1>0
        <5>4. L * F = j
          BY <5>1
        <5>5. L * (k * G) =< L * F
          BY <1>1, <5>2, <5>3, <5>4
        <5>6. k * G \in Int
          BY <1>0
        <5> QED BY <5>5, <5>6, FactorCancels
      <4>2. PICK x \in Nat : x = k * l
        BY <1>0, ProductIsNat
      <4>3. G * x =< F * l
        <5>1. (k * G) * l =< F * l
          <6>1. k * G \in Int
            BY <1>0
          <6> QED BY <4>1, <6>1, ProductIsMonotone
        <5>2. (k * G) * l = G * (k * l)
          BY <1>0
        <5> QED BY <4>2, <5>1, <5>2
      <4>4. G * (100 * x) =< (eligible * rate) * l
        <5>1. PICK u \in Nat : u = G * x
          BY ProductIsNat
        <5>2. PICK v \in Nat : v = F * l
          BY ProductIsNat
        <5>3. 100 * u =< 100 * v
          BY <4>3, <5>1, <5>2
        <5>4. (100 * F) * l =< m * l
          BY <2>4, ProductIsMonotone
        <5>5. G * (100 * x) = 100 * u
          BY <5>1
        <5>6. (100 * F) * l = 100 * v
          BY <5>2
        <5>7. m * l \in Nat
          BY ProductIsNat
        <5>8. G * (100 * x) =< m * l
          BY <5>3, <5>4, <5>5, <5>6, <5>7
        <5> QED BY <2>4, <5>8
      <4>5. 100 * x \in Nat
        OBVIOUS
      <4>6. 100 * x =< p * rate
        BY <1>0, <2>5, <3>2, <4>4, <4>5, ShareReaches
      <4>7. x =< W
        BY <1>0, <2>7, <4>6, WonReaches
      <4> QED BY <4>2, <4>7
    <3> QED BY <3>1, <3>2
  <2>10. l =< Won(W, L)
    <3>1. PICK x \in Nat : x = k * l /\ x =< W
      BY <1>0, <2>9, ProductIsNat
    <3>2. x * L =< W * L
      BY <3>1, ProductIsMonotone
    <3>3. x * L = (k * L) * l
      BY <1>0, <3>1
    <3>4. 100 * l =< W * L
      BY <1>1, <3>2, <3>3
    <3> QED BY <3>4, WonReaches
  <2> QED BY <1>1, <1>6, <2>3, <2>7, <2>8, <2>10
<1> QED BY <1>7, <1>8

LEMMA NoCreditIsBacked ==
  ASSUME NEW rate \in Rates
  PROVE  /\ NoCredit.national = 0 /\ NoCredit.local = 0 /\ NoCredit.principal = 0
         /\ Won(0, rate) \in Nat /\ Won(Won(0, rate), PensionLaw.localRate) \in Nat
<1>1. rate \in Nat /\ PensionLaw.localRate \in Nat
  BY RateFacts DEF Rates
<1>2. Won(0, rate) \in Nat
  BY <1>1, WonNat
<1> QED BY <1>1, <1>2, WonNat DEF NoCredit

\* Both credits of a year, each with the principal that backs it.
BackedBy(c, rate) ==
  /\ c.national \in Nat /\ c.local \in Nat /\ c.principal \in Nat
  /\ c.national =< Won(c.principal, rate)
  /\ c.local =< Won(Won(c.principal, rate), PensionLaw.localRate)

LEMMA QuotesAreBacked ==
  ASSUME IInv, NEW k, WholeShares(k)
  PROVE  LET rate == CreditRate(ThisYear.income)
         IN  rate \in Rates /\ BackedBy(Ordinary, rate) /\ BackedBy(Extra, rate)
<1>1. PICK y : y = ThisYear /\ y.income \in Nat /\ y.national \in Nat /\ y.local \in Nat
  <2>1. profile.years \in [Years -> [income : Nat, national : Nat, local : Nat]]
    BY ProfilesAssumption DEF IInv, Typed
  <2>2. ThisYear \in [income : Nat, national : Nat, local : Nat]
    BY <2>1 DEF ThisYear, IInv, Typed
  <2> QED BY <2>2
<1>2. PICK rate \in Rates : rate = CreditRate(y.income)
  BY <1>1, CreditRateFacts
<1>3. BackedBy(Ordinary, rate)
  <2>1. PICK e \in Nat : e = Lesser(PensionAnnual, PensionLaw.creditLimit)
    BY PlanAssumption, PensionAssumption DEF PensionLaws, Lesser
  <2>2. Ordinary = Credit(e, rate, y)
    BY <1>1, <1>2, <2>1 DEF Ordinary, OrdinaryCredit
  <2> QED BY <1>1, <2>2, CreditIsBacked DEF BackedBy
<1>4. BackedBy(Extra, rate)
  <2>1. CASE transfer.toPension > 0
    <3>1. PICK moved \in Nat : moved = transfer.toPension
      BY <2>1 DEF IInv, Typed
    <3>2. IsaLaw.transferRate \in Nat /\ IsaLaw.transferCap \in Nat
      BY IsaAssumption DEF IsaLaws, Rates
    <3>3. PICK e \in Nat : e = Lesser(Won(moved, IsaLaw.transferRate), IsaLaw.transferCap)
      <4>1. Won(moved, IsaLaw.transferRate) \in Nat
        BY <3>2, WonNat
      <4> QED BY <3>2, <4>1 DEF Lesser
    <3>4. PICK room : room = [national |-> Greater(0, y.national - Ordinary.national),
                              local    |-> Greater(0, y.local - Ordinary.local)]
      OBVIOUS
    <3>5. room.national \in Nat /\ room.local \in Nat
      BY <1>1, <1>3, <3>4 DEF Greater, BackedBy
    <3>6. Extra = TransferCredit(moved, Ordinary, y)
      BY <1>1, <2>1, <3>1 DEF Extra
    <3>7. Extra = Credit(e, rate, room)
      BY <1>2, <3>3, <3>4, <3>6 DEF TransferCredit
    <3> QED BY <3>5, <3>7, CreditIsBacked DEF BackedBy
  <2>2. CASE ~(transfer.toPension > 0)
    <3>1. Extra = NoCredit
      BY <2>2 DEF Extra
    <3> QED BY <3>1, NoCreditIsBacked DEF BackedBy
  <2> QED BY <2>1, <2>2
<1> QED BY <1>1, <1>2, <1>3, <1>4

\* Where a hundred is a multiple of the local rate, which the tenth of the law
\* files is, the principal booked as credited would alone earn all the credits of
\* its year, though both rates round down and the principal of either credit is
\* the larger of two shares (simulate_household, quote_isa_transfer_credit).
THEOREM CreditsAreBacked ==
  ASSUME NEW k, WholeShares(k)
  PROVE  Spec => CreditBacked
<1> DEFINE Backed ==
      credits' - credits
        <= LET national == Won(credited' - credited, CreditRate(ThisYear.income))
           IN national + Won(national, PensionLaw.localRate)
<1>1. IInv /\ [Next]_vars => [Backed]_vars
  <2> SUFFICES ASSUME IInv, Next
               PROVE  Backed
    OBVIOUS
  <2>1. credits \in Int /\ credited \in Int
    BY DEF IInv, Typed
  <2>2. PICK rate \in Rates : rate = CreditRate(ThisYear.income) /\ BackedBy(Ordinary, rate) /\ BackedBy(Extra, rate)
    BY QuotesAreBacked
  <2>3. PICK L \in Nat : L = PensionLaw.localRate
    BY RateFacts
  <2>4. rate \in Nat
    BY DEF Rates
  <2>5. CASE BookCredits
    <3>1. /\ credits' = credits + (Ordinary.national + Ordinary.local + Extra.national + Extra.local)
          /\ credited' = credited + Ordinary.principal + Extra.principal
      BY <2>5 DEF BookCredits
    <3>2. PICK p \in Nat : p = Ordinary.principal
      BY <2>2 DEF BackedBy
    <3>3. PICK q \in Nat : q = Extra.principal
      BY <2>2 DEF BackedBy
    <3>4. PICK v \in Nat : v = Won(p, rate)
      BY <2>4, WonNat
    <3>5. PICK w \in Nat : w = Won(q, rate)
      BY <2>4, WonNat
    <3>6. PICK x \in Nat : x = Won(p + q, rate)
      BY <2>4, WonNat
    <3>7. v + w =< x
      BY <2>4, <3>4, <3>5, <3>6, WonTogether
    <3>8. PICK s \in Nat : s = v + w
      OBVIOUS
    <3>9. Won(v, L) \in Nat /\ Won(w, L) \in Nat /\ Won(s, L) \in Nat /\ Won(x, L) \in Nat
      BY WonNat, Zenon
    <3>a. Won(v, L) + Won(w, L) =< Won(s, L)
      BY <3>8, WonTogether
    <3>b. Won(s, L) =< Won(x, L)
      <4>1. s =< x /\ L =< L
        BY <3>7, <3>8
      <4> QED BY <4>1, WonGrows, Zenon
    <3>10. /\ Ordinary.national \in Nat /\ Ordinary.national =< v
           /\ Ordinary.local \in Nat /\ Ordinary.local =< Won(v, L)
      BY <2>2, <2>3, <3>2, <3>4 DEF BackedBy
    <3>11. /\ Extra.national \in Nat /\ Extra.national =< w
           /\ Extra.local \in Nat /\ Extra.local =< Won(w, L)
      BY <2>2, <2>3, <3>3, <3>5 DEF BackedBy
    <3>12. credits' - credits =< x + Won(x, L)
      BY <2>1, <3>1, <3>7, <3>9, <3>10, <3>11, <3>a, <3>b
    <3>13. credited' - credited = p + q
      BY <2>1, <3>1, <3>2, <3>3
    <3>14. Won(credited' - credited, CreditRate(ThisYear.income)) = x
      BY <2>2, <3>6, <3>13
    <3> QED BY <2>3, <3>12, <3>14
  <2>6. CASE ~BookCredits
    <3>1. credits' = credits /\ credited' = credited
      BY <2>6 DEF Next, KeepOpen, CloseAndReopen, Contribute, Month, Value, refunding, basis
    <3>2. credits' - credits = 0 /\ credited' - credited = 0
      BY <2>1, <3>1
    <3> QED BY <2>2, <3>2, NoCreditIsBacked
  <2> QED BY <2>5, <2>6
<1>2. CreditBacked <=> [][Backed]_vars
  BY DEF CreditBacked
<1> HIDE DEF Backed
<1>3. Spec => [][Backed]_vars
  BY <1>1, Inductive, PTL DEF Spec
<1> QED BY <1>2, <1>3

-----------------------------------------------------------------------------
(* Percentages *)

LEMMA PercentFacts ==
  ASSUME NEW x \in Nat, NEW p \in Nat
  PROVE  /\ Percent(x, p) \in Nat
         /\ p =< 100 => Percent(x, p) =< x
         /\ p >= 100 => Percent(x, p) >= x
<1>1. x * p \in Nat /\ x * 100 \in Nat
  OBVIOUS
<1>2. (x * 100) \div 100 = x
  BY QuotientOfProduct
<1>3. Percent(x, p) \in Nat
  BY <1>1, Quotient DEF Percent
<1>4. ASSUME p =< 100 PROVE Percent(x, p) =< x
  <2>1. x * p =< x * 100
    BY <1>4, ProductIsMonotone
  <2> QED BY <1>1, <1>2, <2>1, QuotientIsMonotone DEF Percent
<1>5. ASSUME p >= 100 PROVE Percent(x, p) >= x
  <2>1. x * 100 =< x * p
    BY <1>5, ProductIsMonotone
  <2>2. (x * 100) \div 100 =< (x * p) \div 100
    BY <1>1, <2>1, QuotientIsMonotone
  <2> QED BY <1>2, <1>3, <2>2 DEF Percent
<1> QED BY <1>3, <1>4, <1>5

LEMMA PercentGrows ==
  ASSUME NEW x \in Nat, NEW p \in Nat, NEW q \in Nat, p =< q
  PROVE  Percent(x, p) =< Percent(x, q)
<1>1. x * p \in Nat /\ x * q \in Nat /\ x * p =< x * q
  BY ProductIsMonotone
<1> QED BY <1>1, QuotientIsMonotone DEF Percent

\* Two shares that make a whole, each rounded down.
LEMMA PercentParts ==
  ASSUME NEW x \in Nat, NEW p \in 0 .. 100
  PROVE  Percent(x, p) + Percent(x, 100 - p) =< x
<1>1. PICK y \in Nat : y = x * p
  OBVIOUS
<1>2. x * (100 - p) = 100 * x - y
  BY <1>1
<1>3. PICK z \in Int : z = 100 * x - y
  <2> SUFFICES 100 * x - y \in Int
    OBVIOUS
  <2> QED OBVIOUS
<1>4. 100 * (y \div 100) =< y /\ y \div 100 \in Int
  BY Quotient
<1>5. 100 * (z \div 100) =< z /\ z \div 100 \in Int
  BY Quotient
<1>6. Percent(x, p) = y \div 100 /\ Percent(x, 100 - p) = z \div 100
  BY <1>1, <1>2, <1>3 DEF Percent
<1> QED BY <1>3, <1>4, <1>5, <1>6

\* What exceeds the whole is added to it.
LEMMA PercentAbove ==
  ASSUME NEW x \in Nat, NEW p \in Nat, p >= 100
  PROVE  Percent(x, p) = x + Percent(x, p - 100)
<1> DEFINE y == x * (p - 100)
<1>1. y \in Int /\ x * p = 100 * x + y
  OBVIOUS
<1> HIDE DEF y
<1>2. (100 * x + y) \div 100 = x + (y \div 100)
  BY <1>1
<1> QED BY <1>1, <1>2 DEF Percent, y

-----------------------------------------------------------------------------
(* The shaping corridor *)

SaveDown == Percent(Base, 100 - ShapeLaw.min)
CatchUp == Percent(Base, ShapeLaw.max - 100)
Least == Percent(Base, ShapeLaw.min)
Most == Percent(Base, ShapeLaw.max)

LEMMA ShapeParameters ==
  /\ Base \in Nat /\ ShapeLaw.min \in 1 .. 99 /\ ShapeLaw.max \in 101 .. 200 /\ ShapeLaw.window \in 3 .. 24
  /\ SaveDown \in Nat /\ CatchUp \in Nat /\ Least \in Nat /\ Most \in Nat
  /\ Least + SaveDown =< Base /\ Most = Base + CatchUp
<1>1. Base \in Nat /\ ShapeLaw.min \in 1 .. 99 /\ ShapeLaw.max \in 101 .. 200 /\ ShapeLaw.window \in 3 .. 24
  BY Parameters, PolicyConfigs DEF ShapeConfigOK
<1>2. /\ ShapeLaw.min \in Nat /\ 100 - ShapeLaw.min \in Nat /\ ShapeLaw.min \in 0 .. 100
      /\ ShapeLaw.max \in Nat /\ ShapeLaw.max - 100 \in Nat /\ ShapeLaw.max >= 100
  BY <1>1
<1>3. SaveDown \in Nat /\ CatchUp \in Nat /\ Least \in Nat /\ Most \in Nat
  BY <1>1, <1>2, PercentFacts DEF SaveDown, CatchUp, Least, Most
<1>4. Least + SaveDown =< Base
  BY <1>1, <1>2, PercentParts DEF Least, SaveDown
<1>5. Most = Base + CatchUp
  BY <1>1, <1>2, PercentAbove DEF Most, CatchUp
<1> QED BY <1>1, <1>3, <1>4, <1>5

LEMMA Clipping ==
  ASSUME NEW x \in Int, NEW y \in Int
  PROVE  /\ SmallerOf(x, y) \in {x, y} /\ SmallerOf(x, y) =< x /\ SmallerOf(x, y) =< y /\ SmallerOf(x, y) \in Int
         /\ LargerOf(x, y) \in {x, y} /\ LargerOf(x, y) >= x /\ LargerOf(x, y) >= y /\ LargerOf(x, y) \in Int
  BY DEF SmallerOf, LargerOf

LEMMA ShapedWithin ==
  ASSUME NEW score \in 0 .. 100, NEW lower \in Int, NEW upper \in Int, lower =< upper, Least =< lower, upper =< Most
  PROVE  LET credit == ShapedCredit(Base, score, [lower |-> lower, upper |-> upper])
         IN  credit \in Int /\ lower =< credit /\ credit =< upper
<1> DEFINE raw == Percent(Base, ShapeLaw.min + Percent(ShapeLaw.max - ShapeLaw.min, 100 - score))
           clipped == SmallerOf(LargerOf(raw, lower), upper)
<1>1. raw \in Int
  <2>1. /\ ShapeLaw.max - ShapeLaw.min \in Nat /\ 100 - score \in Nat /\ ShapeLaw.min \in Nat /\ Base \in Nat
    BY ShapeParameters, SMTT(40)
  <2>2. Percent(ShapeLaw.max - ShapeLaw.min, 100 - score) \in Nat
    BY <2>1, PercentFacts
  <2>3. ShapeLaw.min + Percent(ShapeLaw.max - ShapeLaw.min, 100 - score) \in Nat
    BY <2>1, <2>2
  <2> QED BY <2>1, <2>3, PercentFacts
<1> HIDE DEF raw
<1>2. clipped \in Int /\ lower =< clipped /\ clipped =< upper
  BY <1>1 DEF SmallerOf, LargerOf
<1>3. ShapedCredit(Base, score, [lower |-> lower, upper |-> upper]) = SmallerOf(LargerOf(clipped, Least), Most)
  BY DEF ShapedCredit, Least, Most, raw
<1> HIDE DEF clipped
<1>4. Least \in Int /\ Most \in Int
  BY ShapeParameters
<1>5. SmallerOf(LargerOf(clipped, Least), Most) = clipped
  BY <1>2, <1>4 DEF SmallerOf, LargerOf
<1> QED BY <1>2, <1>3, <1>5

\* What the months left can still save down, and what they can catch up.
Reserve(left) == SmallerOf(left, ShapeLaw.window - 1) * SaveDown
Debt(left) == left * CatchUp

\* A corridor is never empty, and its credits keep the horizon's sum reachable.
LEMMA CorridorOpen ==
  ASSUME NEW drifted \in Int, NEW left \in Nat \ {0}, drifted =< Reserve(left), -Debt(left) =< drifted, NEW score \in 0 .. 100
  PROVE  LET corridor == ShapeCorridor(Base, drifted, left)
             credit == ShapedCredit(Base, score, corridor)
         IN  /\ corridor.lower =< corridor.upper
             /\ credit \in Least .. Most
             /\ drifted + credit - Base =< Reserve(left - 1)
             /\ -Debt(left - 1) =< drifted + credit - Base
<1> DEFINE v == SmallerOf(left - 1, ShapeLaw.window - 1)
           saved == v * SaveDown
           caught == (left - 1) * CatchUp
           lower == LargerOf(Least, Base - drifted - caught)
           upper == SmallerOf(Most, Base - drifted + saved)
<1>1. v \in Nat /\ SmallerOf(left, ShapeLaw.window - 1) \in Nat /\ SmallerOf(left, ShapeLaw.window - 1) =< v + 1
  BY ShapeParameters DEF SmallerOf
<1>2. saved \in Nat /\ caught \in Nat
  <2>1. left - 1 \in Nat
    OBVIOUS
  <2> HIDE DEF v
  <2> QED BY <1>1, <2>1, ShapeParameters, ProductIsNat
<1>3. Reserve(left - 1) = saved /\ Debt(left - 1) = caught
  BY DEF Reserve, Debt
<1>4. Reserve(left) =< saved + SaveDown
  <2>1. Reserve(left) =< (v + 1) * SaveDown
    <3> HIDE DEF v
    <3> QED BY <1>1, ShapeParameters, ProductIsMonotone DEF Reserve
  <2>2. (v + 1) * SaveDown = saved + SaveDown
    <3> HIDE DEF v
    <3> QED BY <1>1, ShapeParameters
  <2> QED BY <2>1, <2>2
<1>5. Debt(left) = caught + CatchUp
  BY ShapeParameters DEF Debt
<1>6. ShapeCorridor(Base, drifted, left) = [lower |-> lower, upper |-> upper]
  <2>1. SmallerOf(left - 1, SmallerOf(ShapeLaw.window, left) - 1) = v
    BY ShapeParameters DEF SmallerOf
  <2> QED BY <2>1 DEF ShapeCorridor, Least, Most, CatchUp, SaveDown
<1> HIDE DEF v, saved, caught
<1>7. Reserve(left) \in Int /\ Debt(left) \in Int
  <2>1. Reserve(left) \in Nat
    BY <1>1, ShapeParameters, ProductIsNat DEF Reserve
  <2>2. Debt(left) \in Nat
    BY ShapeParameters, ProductIsNat DEF Debt
  <2> QED BY <2>1, <2>2
<1>8. lower \in Int /\ upper \in Int /\ lower =< upper /\ Least =< lower /\ upper =< Most
  BY <1>2, <1>4, <1>5, <1>7, ShapeParameters DEF LargerOf, SmallerOf
<1>9. Base - drifted - caught =< lower /\ upper =< Base - drifted + saved
  BY <1>2, ShapeParameters DEF LargerOf, SmallerOf
<1> DEFINE credit == ShapedCredit(Base, score, [lower |-> lower, upper |-> upper])
<1> HIDE DEF lower, upper
<1>10. credit \in Int /\ lower =< credit /\ credit =< upper
  BY <1>8, ShapedWithin
<1> HIDE DEF credit
<1>11. credit \in Least .. Most
  BY <1>8, <1>10, ShapeParameters
<1>12. drifted + credit - Base =< saved /\ -caught =< drifted + credit - Base
  BY <1>2, <1>8, <1>9, <1>10, ShapeParameters
<1>13. ShapedCredit(Base, score, ShapeCorridor(Base, drifted, left)) = credit
  BY <1>6 DEF credit
<1>14. ShapeCorridor(Base, drifted, left).lower = lower /\ ShapeCorridor(Base, drifted, left).upper = upper
  BY <1>6
<1> QED BY <1>3, <1>8, <1>11, <1>12, <1>13, <1>14

-----------------------------------------------------------------------------
(* The schedule *)

Below(S, d) == {e \in S : e < d}
Rank(S, d) == Cardinality(Below(S, d))

\* A session's rank grows with the session, from 0 on.
LEMMA Ranking ==
  ASSUME NEW S, IsFiniteSet(S), S \subseteq Int
  PROVE  /\ Cardinality(S) \in Nat
         /\ \A d \in S : Rank(S, d) \in Nat /\ Rank(S, d) < Cardinality(S)
         /\ \A d, e \in S : d < e => Rank(S, d) < Rank(S, e)
<1>1. ASSUME NEW d \in S
      PROVE  IsFiniteSet(Below(S, d)) /\ Cardinality(Below(S, d)) \in Nat
  <2>1. Below(S, d) \in SUBSET S
    BY DEF Below
  <2>2. IsFiniteSet(Below(S, d))
    BY <2>1, FS_Subset
  <2> QED BY <2>2, FS_CardinalityType
<1>2. ASSUME NEW T, IsFiniteSet(T), NEW d \in T, NEW U, U \subseteq T, d \notin U
      PROVE  IsFiniteSet(U) /\ Cardinality(U) < Cardinality(T)
  <2>1. U \in SUBSET T
    BY <1>2
  <2>2. IsFiniteSet(U) /\ Cardinality(U) =< Cardinality(T) /\ (Cardinality(T) = Cardinality(U) => T = U)
    BY <1>2, <2>1, FS_Subset
  <2>3. T # U
    BY <1>2
  <2>4. Cardinality(U) \in Nat /\ Cardinality(T) \in Nat
    BY <1>2, <2>2, FS_CardinalityType
  <2> QED BY <2>2, <2>3, <2>4
<1>3. ASSUME NEW d \in S PROVE Rank(S, d) \in Nat /\ Rank(S, d) < Cardinality(S)
  <2>1. Below(S, d) \subseteq S /\ d \notin Below(S, d)
    BY DEF Below
  <2>2. Cardinality(Below(S, d)) < Cardinality(S)
    BY <1>2, <2>1
  <2> QED BY <1>1, <2>2 DEF Rank
<1>4. ASSUME NEW d \in S, NEW e \in S, d < e PROVE Rank(S, d) < Rank(S, e)
  <2>0. d \in Int /\ e \in Int
    OBVIOUS
  <2>1. Below(S, d) \subseteq Below(S, e)
    <3> SUFFICES ASSUME NEW x \in Below(S, d) PROVE x \in Below(S, e)
      OBVIOUS
    <3>1. x \in S /\ x < d /\ x \in Int
      BY DEF Below
    <3> QED BY <1>4, <2>0, <3>1 DEF Below
  <2>2. d \in Below(S, e) /\ d \notin Below(S, d)
    BY <1>4, <2>0 DEF Below
  <2>3. IsFiniteSet(Below(S, e))
    BY <1>1
  <2> QED BY <1>2, <2>1, <2>2, <2>3 DEF Rank
<1>5. Cardinality(S) \in Nat
  BY FS_CardinalityType
<1> QED BY <1>3, <1>4, <1>5

\* Every rank is taken.
LEMMA Ranked ==
  ASSUME NEW S, IsFiniteSet(S), S \subseteq Int, NEW k \in 1 .. Cardinality(S)
  PROVE  \E d \in S : Rank(S, d) = k - 1
<1>1. PICK n \in Nat : n = Cardinality(S)
  BY Ranking
<1>2. PICK r : r = [d \in S |-> Rank(S, d) + 1]
  OBVIOUS
<1>3. ASSUME NEW d \in S PROVE r[d] \in 1 .. n
  <2>1. PICK x \in Nat : x = Rank(S, d) /\ x < n
    BY <1>1, Ranking
  <2> QED BY <1>2, <2>1
<1>4. ASSUME NEW d \in S, NEW e \in S, d < e PROVE r[d] # r[e]
  <2>1. PICK x \in Nat : x = Rank(S, d)
    BY Ranking
  <2>2. PICK y \in Nat : y = Rank(S, e)
    BY Ranking
  <2>3. x < y
    BY <1>4, <2>1, <2>2, Ranking
  <2> QED BY <1>2, <2>1, <2>2, <2>3
<1>5. ASSUME NEW d \in S, NEW e \in S, d # e PROVE r[d] # r[e]
  <2>1. d < e \/ e < d
    BY <1>5
  <2> QED BY <1>4, <2>1
<1>6. r \in Injection(S, 1 .. n)
  BY <1>2, <1>3, <1>5 DEF Injection, IsInjective
<1>7. IsFiniteSet(1 .. n) /\ Cardinality(1 .. n) = n
  <2>1. 1 \in Int /\ n \in Int
    OBVIOUS
  <2>2. IsFiniteSet(1 .. n) /\ Cardinality(1 .. n) = IF 1 > n THEN 0 ELSE n - 1 + 1
    BY <2>1, FS_Interval
  <2> QED BY <2>2
<1>8. r \in Surjection(S, 1 .. n)
  BY <1>1, <1>6, <1>7, FS_Injection
<1>9. PICK d \in S : r[d] = k
  BY <1>1, <1>8 DEF Surjection
<1>10. PICK x \in Nat : x = Rank(S, d)
  BY Ranking
<1>11. x + 1 = k
  BY <1>2, <1>9, <1>10
<1>12. x = k - 1
  BY <1>11
<1> QED BY <1>10, <1>12

\* A list of sessions by rank holds each once, in order.
Lists(f, n, S) ==
  /\ IsFiniteSet(S) /\ S \subseteq Int /\ n \in Nat /\ n = Cardinality(S)
  /\ \A k \in 1 .. n : f[k] \in S /\ Rank(S, f[k]) = k - 1
LEMMA Listing ==
  ASSUME NEW S, NEW n, NEW f, Lists(f, n, S)
  PROVE  /\ \A d \in S : \E k \in 1 .. n : f[k] = d
         /\ \A j, k \in 1 .. n : j < k => f[j] < f[k]
<1> USE DEF Lists
<1>1. ASSUME NEW d \in S, NEW e \in S, Rank(S, d) = Rank(S, e) PROVE d = e
  <2>1. ~ (d < e) /\ ~ (e < d)
    <3>1. Rank(S, d) \in Nat /\ Rank(S, e) \in Nat
      BY Ranking
    <3>2. ~ (Rank(S, d) < Rank(S, e)) /\ ~ (Rank(S, e) < Rank(S, d))
      BY <1>1, <3>1
    <3> QED BY <3>2, Ranking
  <2>2. d \in Int /\ e \in Int
    OBVIOUS
  <2> QED BY <2>1, <2>2
<1>2. ASSUME NEW d \in S PROVE \E k \in 1 .. n : f[k] = d
  <2>1. PICK x \in Nat : x = Rank(S, d) /\ x < n
    BY Ranking
  <2>2. x + 1 \in 1 .. n /\ x + 1 - 1 = x
    BY <2>1
  <2>3. f[x + 1] \in S /\ Rank(S, f[x + 1]) = x
    BY <2>2
  <2>4. f[x + 1] = d
    BY <1>1, <2>1, <2>3
  <2> QED BY <2>2, <2>4
<1>3. ASSUME NEW j \in 1 .. n, NEW k \in 1 .. n, j < k PROVE f[j] < f[k]
  <2>1. PICK x \in S : x = f[j]
    OBVIOUS
  <2>2. PICK y \in S : y = f[k]
    OBVIOUS
  <2>3. Rank(S, x) = j - 1 /\ Rank(S, y) = k - 1
    BY <2>1, <2>2
  <2>4. j - 1 < k - 1 /\ ~ (k - 1 < j - 1)
    BY <1>3
  <2>5. ~ (y < x) /\ x # y
    BY <2>3, <2>4, Ranking
  <2>6. x \in Int /\ y \in Int
    OBVIOUS
  <2>7. x < y
    BY <2>5, <2>6
  <2> QED BY <2>1, <2>2, <2>7
<1> QED BY <1>2, <1>3

LEMMA MonthGrows ==
  ASSUME NEW d \in Int, NEW e \in Int, d =< e
  PROVE  MonthOf(d) \in Int /\ MonthOf(e) \in Int /\ MonthOf(d) =< MonthOf(e)
<1>1. MonthLength \in Nat \ {0} /\ d - 1 \in Int /\ e - 1 \in Int /\ d - 1 =< e - 1
  BY ScheduleAssumption
<1>2. (d - 1) \div MonthLength =< (e - 1) \div MonthLength
  BY <1>1, QuotientIsMonotone
<1>3. (d - 1) \div MonthLength \in Int /\ (e - 1) \div MonthLength \in Int
  BY <1>1, Quotient
<1> QED BY <1>2, <1>3 DEF MonthOf

\* A month has one end and one beginning in a range.
LEMMA OneEnd ==
  ASSUME NEW a \in Int, NEW b \in Int
  PROVE  /\ \A d, e \in MonthEndSessions(a, b) : MonthOf(d) = MonthOf(e) => d = e
         /\ \A d, e \in MonthStartSessions(a, b) : MonthOf(d) = MonthOf(e) => d = e
<1>1. ASSUME NEW d \in a .. b, NEW e \in a .. b, d < e, MonthOf(d) = MonthOf(e)
      PROVE  d \notin MonthEndSessions(a, b) /\ e \notin MonthStartSessions(a, b)
  <2>1. MonthOf(d) =< MonthOf(d + 1) /\ MonthOf(d + 1) =< MonthOf(e) /\ MonthOf(d) \in Int /\ MonthOf(d + 1) \in Int
    BY <1>1, MonthGrows
  <2>2. MonthOf(d) =< MonthOf(e - 1) /\ MonthOf(e - 1) =< MonthOf(e) /\ MonthOf(e) \in Int /\ MonthOf(e - 1) \in Int
    BY <1>1, MonthGrows
  <2>3. MonthOf(d + 1) = MonthOf(d) /\ MonthOf(e - 1) = MonthOf(e) /\ d # b /\ e # a
    BY <1>1, <2>1, <2>2
  <2> QED BY <2>3 DEF MonthEndSessions, MonthStartSessions
<1>2. MonthEndSessions(a, b) \subseteq a .. b /\ MonthStartSessions(a, b) \subseteq a .. b
  BY DEF MonthEndSessions, MonthStartSessions
<1>3. ASSUME NEW d \in MonthEndSessions(a, b), NEW e \in MonthEndSessions(a, b), MonthOf(d) = MonthOf(e) PROVE d = e
  <2>1. d \in a .. b /\ e \in a .. b
    BY <1>2
  <2>2. ~(d < e) /\ ~(e < d)
    BY <1>1, <1>3, <2>1
  <2> QED BY <2>1, <2>2
<1>4. ASSUME NEW d \in MonthStartSessions(a, b), NEW e \in MonthStartSessions(a, b), MonthOf(d) = MonthOf(e) PROVE d = e
  <2>1. d \in a .. b /\ e \in a .. b
    BY <1>2
  <2>2. ~(d < e) /\ ~(e < d)
    BY <1>1, <1>4, <2>1
  <2> QED BY <2>1, <2>2
<1> QED BY <1>3, <1>4

\* Every month of a range ends and begins in it.
LEMMA SomeEnd ==
  ASSUME NEW a \in Int, NEW b \in Int, NEW d \in a .. b
  PROVE  /\ \E e \in MonthEndSessions(a, b) : MonthOf(e) = MonthOf(d)
         /\ \E e \in MonthStartSessions(a, b) : MonthOf(e) = MonthOf(d)
<1>1. \E e \in MonthEndSessions(a, b) : MonthOf(e) = MonthOf(d)
  <2> DEFINE T == {x \in Nat : b - x \in a .. b /\ MonthOf(b - x) = MonthOf(d)}
  <2>1. b - d \in T
    <3>1. b - d \in Nat /\ b - (b - d) = d
      OBVIOUS
    <3> QED BY <3>1
  <2>2. PICK x \in T : \A y \in T : x =< y
    BY <2>1, LeastNatural
  <2>3. ASSUME b - x # b, MonthOf(b - x + 1) = MonthOf(b - x) PROVE FALSE
    <3>1. x - 1 \in Nat /\ b - (x - 1) = b - x + 1 /\ b - (x - 1) \in a .. b
      BY <2>2, <2>3
    <3>2. x - 1 \in T
      BY <2>2, <2>3, <3>1
    <3> QED BY <2>2, <3>1, <3>2
  <2>4. b - x \in MonthEndSessions(a, b) /\ MonthOf(b - x) = MonthOf(d)
    BY <2>2, <2>3 DEF MonthEndSessions
  <2> QED BY <2>4
<1>2. \E e \in MonthStartSessions(a, b) : MonthOf(e) = MonthOf(d)
  <2> DEFINE T == {x \in Nat : a + x \in a .. b /\ MonthOf(a + x) = MonthOf(d)}
  <2>1. d - a \in T
    <3>1. d - a \in Nat /\ a + (d - a) = d
      OBVIOUS
    <3> QED BY <3>1
  <2>2. PICK x \in T : \A y \in T : x =< y
    BY <2>1, LeastNatural
  <2>3. ASSUME a + x # a, MonthOf(a + x - 1) = MonthOf(a + x) PROVE FALSE
    <3>1. x - 1 \in Nat /\ a + (x - 1) = a + x - 1 /\ a + (x - 1) \in a .. b
      BY <2>2, <2>3
    <3>2. x - 1 \in T
      BY <2>2, <2>3, <3>1
    <3> QED BY <2>2, <3>1, <3>2
  <2>4. a + x \in MonthStartSessions(a, b) /\ MonthOf(a + x) = MonthOf(d)
    BY <2>2, <2>3 DEF MonthStartSessions
  <2> QED BY <2>4
<1> QED BY <1>1, <1>2

\* A configuration as the caller may pass it.
WellConfigured(c) ==
  /\ c.first \in Int /\ c.last \in Int /\ c.first =< c.last
  /\ c.cadence \in {"monthly", "month_open", "twice_monthly"}
  /\ c.modules \subseteq Sizing \cup {"reserve", "currency", "overlay", "mapping"}
  /\ c.targeting \subseteq {"riskBudget", "override", "tilt"}
  /\ c.schedule \in ReserveSchedules \cup {"off"} /\ (c.schedule # "off" <=> "reserve" \in c.modules)
  /\ c.policy \in {"fixed", "inverseVol", "operational"}

LEMMA LockedFacts == ASSUME NEW c \in Configs PROVE WellConfigured(Locked(c))
<1>1. c \in [first : Int, last : Int, policy : {"fixed", "inverseVol", "operational"},
        modules : SUBSET (Sizing \cup {"reserve", "currency", "overlay", "mapping"}),
        targeting : SUBSET {"riskBudget", "override", "tilt"},
        cadence : {"monthly", "month_open", "twice_monthly"}, schedule : ReserveSchedules \cup {"off"},
        banded : BOOLEAN, membership : BOOLEAN]
  BY ConfigsAssumption
<1>2. c.first =< c.last /\ (c.schedule # "off" <=> "reserve" \in c.modules)
  BY ConfigsAssumption
<1>3. WellConfigured(c)
  BY <1>1, <1>2 DEF WellConfigured
<1>4. CASE Locked(c) = c
  BY <1>3, <1>4
<1>5. CASE Locked(c) = [c EXCEPT !.targeting = @ \cup {"override"}]
  BY <1>1, <1>2, <1>5 DEF WellConfigured
<1> QED BY <1>4, <1>5 DEF Locked

\* The decision points are the signal sessions in order.
LEMMA PointsFacts ==
  ASSUME WellConfigured(config)
  PROVE  /\ Len(Points) \in Nat \ {0} /\ DOMAIN Points = 1 .. Len(Points)
         /\ \A k \in 1 .. Len(Points) : Points[k] \in config.first .. config.last /\ Points[k] \in Int
         /\ \A j, k \in 1 .. Len(Points) : j < k => Points[j] < Points[k]
         /\ \A k \in 1 .. Len(Points) : Points[k] \in SignalSessions(config.cadence)
         /\ \A d \in SignalSessions(config.cadence) : \E k \in 1 .. Len(Points) : Points[k] = d
<1> DEFINE S == SignalSessions(config.cadence)
<1>1. config.first \in Int /\ config.last \in Int /\ config.first =< config.last
  BY DEF WellConfigured
<1>2. MonthEnds \subseteq config.first .. config.last /\ MonthStarts \subseteq config.first .. config.last
  BY DEF MonthEnds, MonthStarts, MonthEndSessions, MonthStartSessions
<1>3. config.last \in MonthEnds /\ config.first \in MonthStarts
  BY <1>1 DEF MonthEnds, MonthStarts, MonthEndSessions, MonthStartSessions
<1>4. S \subseteq config.first .. config.last /\ S # {}
  <2>1. S = MonthEnds \/ S = MonthStarts \/ S = MonthStarts \cup MonthEnds
    BY DEF WellConfigured, SignalSessions
  <2> QED BY <1>2, <1>3, <2>1
<1>5. IsFiniteSet(S) /\ S \subseteq Int
  <2>1. IsFiniteSet(config.first .. config.last)
    BY <1>1, FS_Interval
  <2>2. S \in SUBSET (config.first .. config.last)
    BY <1>4
  <2>3. IsFiniteSet(S)
    BY <2>1, <2>2, FS_Subset
  <2> QED BY <1>1, <1>4, <2>3
<1> HIDE DEF S
<1>6. PICK n \in Nat : n = Cardinality(S)
  BY <1>5, Ranking
<1>7. /\ Len(Points) = n /\ DOMAIN Points = 1 .. n /\ \A k \in 1 .. n : Points[k] \in S
      /\ \A d \in S : \E k \in 1 .. n : Points[k] = d
      /\ \A j, k \in 1 .. n : j < k => Points[j] < Points[k]
  <2>1. PICK p : p = Points
    OBVIOUS
  <2>2. p = [k \in 1 .. n |-> CHOOSE d \in S : Rank(S, d) = k - 1]
    BY <1>6, <2>1 DEF Points, Schedule, S, Rank, Below
  <2>3. ASSUME NEW k \in 1 .. n PROVE p[k] \in S /\ Rank(S, p[k]) = k - 1
    <3>1. \E d \in S : Rank(S, d) = k - 1
      BY <1>5, <1>6, Ranked
    <3>2. p[k] = CHOOSE d \in S : Rank(S, d) = k - 1
      BY <2>2
    <3> QED BY <3>1, <3>2
  <2>4. /\ \A d \in S : \E k \in 1 .. n : p[k] = d
        /\ \A j, k \in 1 .. n : j < k => p[j] < p[k]
    <3>1. IsFiniteSet(S) /\ S \subseteq Int /\ n = Cardinality(S)
      BY <1>5, <1>6
    <3>2. Lists(p, n, S)
      BY <2>3, <3>1 DEF Lists
    <3> QED BY <3>2, Listing
  <2>5. DOMAIN p = 1 .. n /\ p \in [1 .. n -> S]
    BY <2>2, <2>3
  <2>6. p \in Seq(S) /\ Len(p) = n
    BY <2>5
  <2> QED BY <2>1, <2>3, <2>4, <2>5, <2>6
<1>8. n # 0
  BY <1>4, <1>5, <1>6, FS_EmptySet
<1> QED BY <1>1, <1>4, <1>5, <1>7, <1>8 DEF S

\* The points of a month: one, or two of them.
OfMonth(m) == {k \in DOMAIN Points : MonthOf(Points[k]) = m}
LEMMA OfMonthFacts ==
  ASSUME WellConfigured(config), NEW m
  PROVE  /\ IsFiniteSet(OfMonth(m)) /\ OfMonth(m) \subseteq 1 .. Len(Points)
         /\ Cardinality(OfMonth(m)) \in 0 .. 2
         /\ \A d \in config.first .. config.last : MonthOf(d) = m => OfMonth(m) # {} /\ Cardinality(OfMonth(m)) \in 1 .. 2
<1> DEFINE K == OfMonth(m)
<1>1. K \subseteq 1 .. Len(Points) /\ \A k \in K : MonthOf(Points[k]) = m
  BY PointsFacts DEF OfMonth
<1>2. \A k \in K : Points[k] \in MonthEnds \/ Points[k] \in MonthStarts
  BY <1>1, PointsFacts DEF SignalSessions, WellConfigured
<1>3. \A j, k \in K : Points[j] = Points[k] => j = k
  BY <1>1, PointsFacts
<1>4. config.first \in Int /\ config.last \in Int
  BY DEF WellConfigured
<1>5. \E k1 : \A k \in K : Points[k] \in MonthEnds => k = k1
  <2>1. \A j, k \in K : Points[j] \in MonthEnds /\ Points[k] \in MonthEnds => j = k
    BY <1>1, <1>3, <1>4, OneEnd DEF MonthEnds
  <2>2. CASE \E j \in K : Points[j] \in MonthEnds
    BY <2>1, <2>2
  <2> QED BY <2>2
<1>6. \E k2 : \A k \in K : Points[k] \in MonthStarts => k = k2
  <2>1. \A j, k \in K : Points[j] \in MonthStarts /\ Points[k] \in MonthStarts => j = k
    BY <1>1, <1>3, <1>4, OneEnd DEF MonthStarts
  <2>2. CASE \E j \in K : Points[j] \in MonthStarts
    BY <2>1, <2>2
  <2> QED BY <2>2
<1>7. PICK k1 : \A k \in K : Points[k] \in MonthEnds => k = k1
  BY <1>5
<1>8. PICK k2 : \A k \in K : Points[k] \in MonthStarts => k = k2
  BY <1>6
<1>9. K \in SUBSET ({k1} \cup {k2})
  BY <1>2, <1>7, <1>8
<1>10. IsFiniteSet({k1} \cup {k2}) /\ Cardinality({k1} \cup {k2}) \in 1 .. 2
  <2>1. IsFiniteSet({k1}) /\ Cardinality({k1}) = 1
    BY FS_Singleton
  <2> QED BY <2>1, FS_AddElement
<1>11. IsFiniteSet(K) /\ Cardinality(K) =< Cardinality({k1} \cup {k2}) /\ Cardinality(K) \in Nat
  <2>1. IsFiniteSet(K) /\ Cardinality(K) =< Cardinality({k1} \cup {k2})
    BY <1>9, <1>10, FS_Subset
  <2> QED BY <2>1, FS_CardinalityType
<1>12. Cardinality(K) \in 0 .. 2
  BY <1>10, <1>11
<1>13. ASSUME NEW d \in config.first .. config.last, MonthOf(d) = m PROVE K # {} /\ Cardinality(K) \in 1 .. 2
  <2>1. PICK e \in SignalSessions(config.cadence) : MonthOf(e) = m
    <3>0. config.first \in Int /\ config.last \in Int /\ d \in config.first .. config.last /\ MonthOf(d) = m
      BY <1>4, <1>13
    <3>1. PICK x \in MonthEnds : MonthOf(x) = m
      <4>1. \E x \in MonthEndSessions(config.first, config.last) : MonthOf(x) = MonthOf(d)
        BY <3>0, SomeEnd
      <4> QED BY <3>0, <4>1, Zenon DEF MonthEnds
    <3>2. PICK y \in MonthStarts : MonthOf(y) = m
      <4>1. \E y \in MonthStartSessions(config.first, config.last) : MonthOf(y) = MonthOf(d)
        BY <3>0, SomeEnd, ZenonT(60)
      <4> QED BY <3>0, <4>1, Zenon DEF MonthStarts
    <3> QED BY <3>1, <3>2 DEF SignalSessions, WellConfigured
  <2>2. PICK k \in 1 .. Len(Points) : Points[k] = e
    BY PointsFacts
  <2>3. k \in K
    BY <2>1, <2>2, PointsFacts DEF OfMonth
  <2>4. Cardinality(K) # 0
    BY <1>11, <2>3, FS_EmptySet
  <2> QED BY <1>12, <2>3, <2>4
<1> QED BY <1>1, <1>11, <1>12, <1>13

-----------------------------------------------------------------------------
(* Target mixes *)

\* Parts per ticker, and a mix that promises no more than its whole.
Parts(f) == \E d \in SUBSET Tickers : f \in [d -> Nat]
MixOK(m) == Parts(m.parts) /\ m.whole \in Nat \ {0} /\ PartsSum(m.parts) =< m.whole

LEMMA SomeTickers == ASSUME NEW T, T \subseteq Tickers PROVE IsFiniteSet(T)
<1>1. IsFiniteSet(Tickers) /\ T \in SUBSET Tickers
  BY MarketsAssumption
<1> QED BY <1>1, FS_Subset

LEMMA PartsAreSummed == ASSUME NEW f PROVE PartsSum(f) = SumFunctionOnSet(f, DOMAIN f)
BY DEF PartsSum, FoldFunction, SumFunctionOnSet

LEMMA PartsFacts ==
  ASSUME NEW f, Parts(f)
  PROVE  /\ DOMAIN f \subseteq Tickers /\ IsFiniteSet(DOMAIN f) /\ \A t \in DOMAIN f : f[t] \in Nat
         /\ PartsSum(f) \in Nat /\ \A t \in DOMAIN f : f[t] =< PartsSum(f)
<1>1. PICK d \in SUBSET Tickers : f \in [d -> Nat]
  BY DEF Parts
<1>2. DOMAIN f = d /\ \A t \in d : f[t] \in Nat
  BY <1>1
<1>3. IsFiniteSet(d)
  BY SomeTickers
<1>4. PartsSum(f) = SumFunctionOnSet(f, d)
  BY <1>2, PartsAreSummed
<1>5. SumFunctionOnSet(f, d) \in Nat
  BY <1>2, <1>3, SumIsNat
<1>6. \A t \in d : f[t] =< SumFunctionOnSet(f, d)
  BY <1>2, <1>3, SumBoundsTerms
<1> QED BY <1>2, <1>3, <1>4, <1>5, <1>6

LEMMA PartsOf ==
  ASSUME NEW d, d \subseteq Tickers, NEW f, DOMAIN f = d, f = [t \in d |-> f[t]], \A t \in d : f[t] \in Nat
  PROVE  Parts(f)
<1>1. f \in [d -> Nat]
  OBVIOUS
<1> QED BY <1>1 DEF Parts

LEMMA NormalisedIsMix ==
  ASSUME NEW f, Parts(f), PartsSum(f) # 0
  PROVE  MixOK(Normalised(f)) /\ Normalised(f).parts = f
<1>1. PICK s \in Nat : s = PartsSum(f)
  BY PartsFacts
<1>2. Normalised(f) = [parts |-> f, whole |-> s]
  BY <1>1 DEF Normalised, Mix
<1>3. PICK m : m = [parts |-> f, whole |-> s]
  OBVIOUS
<1>4. m.parts = f /\ m.whole = s
  BY <1>3
<1>5. MixOK(m)
  BY <1>1, <1>4 DEF MixOK
<1> QED BY <1>2, <1>3, <1>4, <1>5

LEMMA WeightsAreMix == ASSUME NEW m, Weights(m) PROVE MixOK(m)
<1>1. Parts(m.parts) /\ m.whole \in Nat \ {0} /\ PartsSum(m.parts) = m.whole
  BY DEF Weights, Parts, Simplex
<1> QED BY <1>1 DEF MixOK

LEMMA NoMixIsMix == MixOK(NoMix) /\ NoMix.parts = <<>>
<1>1. NoMix.parts = <<>> /\ NoMix.whole = 1
  BY DEF NoMix, Mix
<1>2. DOMAIN <<>> = {} /\ <<>> = [t \in {} |-> 0]
  OBVIOUS
<1>3. Parts(<<>>)
  <2>1. <<>> \in [{} -> Nat]
    BY <1>2
  <2> QED BY <2>1 DEF Parts
<1>4. PartsSum(<<>>) = 0
  BY <1>2, PartsAreSummed, SumOfNone
<1> QED BY <1>1, <1>3, <1>4 DEF MixOK

\* Weights inverse to volatility.
LEMMA InverseVolIsMix ==
  ASSUME NEW s \in Signals
  PROVE  MixOK(InverseVolMix(s.vol)) /\ DOMAIN InverseVolMix(s.vol).parts = DOMAIN s.vol
<1>1. PICK d : d = DOMAIN s.vol
  OBVIOUS
<1>2. d \subseteq Tickers /\ d # {} /\ \A t \in d : s.vol[t] \in 1 .. 1000
  <2>1. DOMAIN s.vol \in (SUBSET Tickers) \ {{}} /\ s.vol \in [DOMAIN s.vol -> 1 .. 1000]
    BY SignalsAssumption, ZenonT(60)
  <2>2. d \in (SUBSET Tickers) \ {{}} /\ s.vol \in [d -> 1 .. 1000]
    BY <1>1, <2>1, Zenon
  <2> QED BY <2>2
<1>3. PICK f : f = [t \in d |-> 1000 \div s.vol[t]]
  OBVIOUS
<1>4. ASSUME NEW t \in d PROVE f[t] \in Nat /\ f[t] >= 1
  <2>0. s.vol[t] \in 1 .. 1000
    BY <1>2
  <2>1. PICK v \in Nat \ {0} : v = s.vol[t] /\ v =< 1000
    BY <2>0, SMTT(40)
  <2>2. 1000 \div v \in Nat
    BY <2>1, Quotient
  <2>3. v * 1 =< 1000
    BY <2>1
  <2>4. 1 =< 1000 \div v
    BY <2>3, QuotientIsGreatest
  <2> QED BY <1>3, <2>1, <2>2, <2>4
<1>5. Parts(f)
  BY <1>2, <1>3, <1>4, PartsOf
<1>6. PartsSum(f) # 0
  <2>1. PICK t \in d : TRUE
    BY <1>2
  <2>2. f[t] =< PartsSum(f) /\ PartsSum(f) \in Nat /\ f[t] \in Nat /\ f[t] >= 1
    BY <1>3, <1>4, <1>5, PartsFacts
  <2> QED BY <2>2
<1>7. InverseVolMix(s.vol) = Normalised(f)
  BY <1>1, <1>3 DEF InverseVolMix
<1> QED BY <1>1, <1>3, <1>5, <1>6, <1>7, NormalisedIsMix

\* The satellite's share and the core's.
LEMMA RiskBudgetIsMix ==
  ASSUME NEW s \in Signals
  PROVE  LET m == RiskBudgetMix(s.core, s.satellite, s.score, 0, 15)
         IN  MixOK(m) /\ DOMAIN m.parts = {s.core, s.satellite}
<1>1. PICK core \in Tickers : core = s.core
  BY SignalsAssumption
<1>2. PICK sat \in Tickers : sat = s.satellite /\ sat # core
  BY <1>1, SignalsAssumption
<1>3. PICK share \in 0 .. 15 : share = SmallerOf(15, LargerOf(0, s.score))
  <2>1. s.score \in 0 .. 100
    BY SignalsAssumption
  <2> QED BY <2>1 DEF SmallerOf, LargerOf
<1>4. PICK f : f = [t \in {core, sat} |-> IF t = sat THEN share ELSE 100 - share]
  OBVIOUS
<1>5. f[core] = 100 - share /\ f[sat] = share /\ DOMAIN f = {core, sat}
  BY <1>2, <1>4
<1>6. \A t \in {core, sat} : f[t] \in Nat
  BY <1>5
<1>7. Parts(f)
  BY <1>4, <1>5, <1>6, PartsOf
<1>8. PartsSum(f) = 100
  <2>1. IsFiniteSet({core, sat}) /\ \A t \in {core, sat} : f[t] \in Int
    BY <1>6, SomeTickers
  <2>2. SumFunctionOnSet(f, {core, sat}) = f[core] + SumFunctionOnSet(f, {core, sat} \ {core})
    BY <2>1, SumWithout
  <2>3. IsFiniteSet({sat}) /\ f[sat] \in Int /\ sat \in {sat} /\ {sat} \ {sat} = {} /\ {core, sat} \ {core} = {sat}
    BY <1>2, <2>1, SomeTickers
  <2>4. SumFunctionOnSet(f, {sat}) = f[sat] + SumFunctionOnSet(f, {})
    BY <2>3, SumWithout
  <2>5. SumFunctionOnSet(f, {}) = 0
    BY SumOfNone
  <2> QED BY <1>5, <2>2, <2>3, <2>4, <2>5, PartsAreSummed
<1>9. RiskBudgetMix(s.core, s.satellite, s.score, 0, 15) = [parts |-> f, whole |-> 100]
  BY <1>1, <1>2, <1>3, <1>4 DEF RiskBudgetMix, Mix
<1>10. PICK m : m = [parts |-> f, whole |-> 100]
  OBVIOUS
<1>11. m.parts = f /\ m.whole = 100
  BY <1>10
<1>12. MixOK(m)
  BY <1>7, <1>8, <1>11 DEF MixOK
<1> QED BY <1>1, <1>2, <1>5, <1>9, <1>10, <1>11, <1>12

\* A tilt keeps the tickers of the mix.
LEMMA TiltIsMix ==
  ASSUME NEW m, MixOK(m), NEW s \in Signals, Tiltable(m, s)
  PROVE  MixOK(TiltedMix(m, s.loading, 25)) /\ DOMAIN TiltedMix(m, s.loading, 25).parts = DOMAIN m.parts
<1>1. PICK z : z = s.loading
  OBVIOUS
<1>2. IsFiniteSet(DOMAIN z) /\ (\A t \in DOMAIN z : z[t] \in Int) /\ \A t \in DOMAIN m.parts : z[t] \in Int
  BY <1>1, SignalsAssumption DEF Tiltable
<1>3. PICK spread \in Int : spread = PartsSum([t \in DOMAIN z |-> LargerOf(z[t], -z[t])])
  <2> DEFINE a == [t \in DOMAIN z |-> LargerOf(z[t], -z[t])]
  <2>1. \A t \in DOMAIN z : a[t] \in Int
    BY <1>2 DEF LargerOf
  <2>2. DOMAIN a = DOMAIN z
    OBVIOUS
  <2> HIDE DEF a
  <2>3. PartsSum(a) \in Int
    BY <1>2, <2>1, <2>2, PartsAreSummed, SumIsInt
  <2> QED BY <2>3 DEF a
<1>4. PICK f : f = [t \in DOMAIN m.parts |-> LargerOf(0, 100 * m.parts[t] * spread + 25 * m.whole * z[t])]
  OBVIOUS
<1>5. ASSUME NEW t \in DOMAIN m.parts PROVE f[t] \in Nat
  <2>1. PICK x \in Nat : x = m.parts[t]
    BY PartsFacts DEF MixOK
  <2>2. PICK w \in Nat : w = m.whole
    BY DEF MixOK
  <2>3. PICK y \in Int : y = z[t]
    BY <1>2
  <2>4. 100 * x * spread + 25 * w * y \in Int
    OBVIOUS
  <2>5. f[t] = LargerOf(0, 100 * x * spread + 25 * w * y)
    BY <1>4, <2>1, <2>2, <2>3
  <2>6. PICK v \in Int : v = 100 * x * spread + 25 * w * y
    BY <2>4
  <2> QED BY <2>5, <2>6 DEF LargerOf
<1>6. Parts(f)
  <2>1. DOMAIN m.parts \subseteq Tickers
    BY PartsFacts DEF MixOK
  <2>2. DOMAIN f = DOMAIN m.parts /\ f = [t \in DOMAIN m.parts |-> f[t]]
    BY <1>4
  <2> QED BY <1>5, <2>1, <2>2, PartsOf
<1>7. TiltedMix(m, s.loading, 25) = Normalised(f)
  BY <1>1, <1>3, <1>4 DEF TiltedMix
<1>8. PartsSum(f) # 0
  <2>1. Normalised(f).whole > 0
    BY <1>7 DEF Tiltable
  <2>2. Normalised(f).whole = PartsSum(f)
    BY DEF Normalised, Mix
  <2> QED BY <2>1, <2>2
<1>9. DOMAIN f = DOMAIN m.parts
  BY <1>4
<1> QED BY <1>6, <1>7, <1>8, <1>9, NormalisedIsMix

\* An overlay never promises more than the whole.
LEMMA OverlayIsMix ==
  ASSUME NEW m, MixOK(m), NEW signs, NEW alarm, \A q \in DOMAIN m.parts : signs[q].trend \in Int
  PROVE  MixOK(BoundedOverlay(m, signs, alarm)) /\ DOMAIN BoundedOverlay(m, signs, alarm).parts = DOMAIN m.parts
<1>1. PICK f : f = [t \in DOMAIN m.parts |->
                      LargerOf(0, m.parts[t] * (400 + OverlayLaw.maxShift * OverlayScore(signs[t], alarm)))]
  OBVIOUS
<1>2. PICK w \in Nat : w = m.whole /\ w # 0
  BY DEF MixOK
<1>3. ASSUME NEW q \in DOMAIN m.parts PROVE OverlayScore(signs[q], alarm) \in Int
  <2>1. PICK trend \in Int : trend = signs[q].trend
    OBVIOUS
  <2> DEFINE clip(x) == SmallerOf(4, LargerOf(-4, x))
             raw == 2 * trend - (IF signs[q].volatile THEN 1 ELSE 0) - (IF signs[q].fallen THEN 1 ELSE 0)
  <2>2. \A x \in Int : clip(x) \in Int
    BY DEF SmallerOf, LargerOf
  <2>3. raw \in Int
    OBVIOUS
  <2>4. OverlayScore(signs[q], alarm) = IF OverlayLaw.gate /\ alarm THEN clip(clip(raw) - 4) ELSE clip(raw)
    BY <2>1 DEF OverlayScore
  <2> HIDE DEF clip, raw
  <2>5. clip(raw) \in Int
    BY <2>2, <2>3
  <2>6. clip(clip(raw) - 4) \in Int
    <3>1. PICK x \in Int : x = clip(raw)
      BY <2>5
    <3>2. x - 4 \in Int
      OBVIOUS
    <3> QED BY <2>2, <3>1, <3>2
  <2> QED BY <2>4, <2>5, <2>6
<1>4. ASSUME NEW t \in DOMAIN m.parts PROVE f[t] \in Nat
  <2>1. PICK x \in Nat : x = m.parts[t]
    BY PartsFacts DEF MixOK
  <2>2. PICK y \in Int : y = OverlayScore(signs[t], alarm)
    BY <1>3
  <2>3. PICK h \in Int : h = OverlayLaw.maxShift
    BY PolicyConfigs
  <2>4. PICK v \in Int : v = x * (400 + h * y)
    <3>1. x * (400 + h * y) \in Int
      OBVIOUS
    <3> QED BY <3>1
  <2>5. f[t] = LargerOf(0, v)
    BY <1>1, <2>1, <2>2, <2>3, <2>4
  <2> QED BY <2>5 DEF LargerOf
<1>5. DOMAIN f = DOMAIN m.parts
  BY <1>1
<1>6. Parts(f)
  <2>1. DOMAIN m.parts \subseteq Tickers
    BY PartsFacts DEF MixOK
  <2>2. f = [t \in DOMAIN m.parts |-> f[t]]
    BY <1>1
  <2> QED BY <1>4, <1>5, <2>1, <2>2, PartsOf
<1>7. PICK s \in Nat : s = PartsSum(f)
  BY <1>6, PartsFacts
<1>8. PICK v \in Nat : v = LargerOf(400 * w, s) /\ v # 0 /\ s =< v
  BY <1>2 DEF LargerOf
<1>9. BoundedOverlay(m, signs, alarm) = [parts |-> f, whole |-> v]
  BY <1>1, <1>2, <1>7, <1>8 DEF BoundedOverlay, Mix
<1>10. PICK o : o = [parts |-> f, whole |-> v]
  OBVIOUS
<1>11. o.parts = f /\ o.whole = v
  BY <1>10
<1>12. MixOK(o)
  BY <1>6, <1>7, <1>8, <1>11 DEF MixOK
<1> QED BY <1>5, <1>9, <1>10, <1>11, <1>12

\* The choice among scored candidates is one of them.
LEMMA ArgmaxIsScored ==
  ASSUME NEW order \in Seq(Tickers), NEW scores, DOMAIN scores \subseteq ToSet(order), DOMAIN scores # {},
         \A x \in DOMAIN scores : scores[x] \in Int
  PROVE  Argmax(order, scores) \in DOMAIN scores
<1> DEFINE best == {i \in DOMAIN order : order[i] \in DOMAIN scores
                 /\ \A t \in DOMAIN scores : scores[t] =< scores[order[i]]}
<1>1. ToSet(order) \subseteq Tickers /\ DOMAIN order \subseteq Nat
  BY DEF ToSet
<1>2. IsFiniteSet(DOMAIN scores)
  BY <1>1, SomeTickers
<1>3. PICK x \in DOMAIN scores : \A t \in DOMAIN scores : scores[t] =< scores[x]
  BY <1>2, GreatestPlace
<1>4. PICK i \in DOMAIN order : order[i] = x
  BY DEF ToSet
<1>5. i \in best
  BY <1>3, <1>4
<1>6. best \subseteq Nat
  BY <1>1
<1>7. \E j \in best : \A k \in best : j =< k
  <2> HIDE DEF best
  <2> QED BY <1>5, <1>6, LeastNatural
<1>8. PICK c : c = CHOOSE j \in best : \A k \in best : j =< k
  OBVIOUS
<1>9. c \in best
  BY <1>7, <1>8
<1>10. Argmax(order, scores) = order[c]
  BY <1>8 DEF Argmax
<1> QED BY <1>9, <1>10

LEMMA ImplementationTrades ==
  ASSUME NEW q, NEW scores, NEW held, MappingLaw.candidates[q] \in Seq(Tickers),
         DOMAIN scores \subseteq ToSet(MappingLaw.candidates[q]), DOMAIN scores # {},
         \A x \in DOMAIN scores : scores[x] \in Int
  PROVE  Implementation(q, scores, held) \in Tickers
<1>1. PICK order \in Seq(Tickers) : order = MappingLaw.candidates[q]
  OBVIOUS
<1>2. ToSet(order) \subseteq Tickers
  BY DEF ToSet
<1>3. PICK others : others = Restrict(scores, DOMAIN scores \ {held[q]})
  OBVIOUS
<1>4. others = [x \in DOMAIN scores \ {held[q]} |-> scores[x]]
  BY <1>3 DEF Restrict
<1>5. Argmax(order, scores) \in Tickers
  BY <1>1, <1>2, ArgmaxIsScored
<1>6. ASSUME others # <<>> PROVE Argmax(order, others) \in Tickers
  <2>1. DOMAIN others = DOMAIN scores \ {held[q]} /\ \A x \in DOMAIN others : others[x] = scores[x]
    BY <1>4
  <2>2. DOMAIN others # {}
    <3> SUFFICES ASSUME DOMAIN others = {} PROVE FALSE
      OBVIOUS
    <3>1. others = [x \in {} |-> scores[x]]
      BY <1>4, <2>1
    <3>2. <<>> = [x \in {} |-> scores[x]]
      OBVIOUS
    <3> QED BY <1>6, <3>1, <3>2
  <2>3. Argmax(order, others) \in DOMAIN others
    BY <1>1, <2>1, <2>2, ArgmaxIsScored
  <2> QED BY <1>1, <1>2, <2>1, <2>3
<1>7. ASSUME q \in DOMAIN held /\ held[q] \in DOMAIN scores PROVE held[q] \in Tickers
  BY <1>1, <1>2, <1>7
<1> DEFINE mine == q \in DOMAIN held /\ held[q] \in DOMAIN scores
           beaten == scores[Argmax(order, others)] >= scores[held[q]] + MappingLaw.minImprovement
<1>8. Implementation(q, scores, held) =
        CASE ~mine -> Argmax(order, scores)
          [] mine /\ others # <<>> /\ beaten -> Argmax(order, others)
          [] OTHER -> held[q]
  BY <1>1, <1>3, Zenon DEF Implementation
<1> HIDE DEF beaten
<1>9. CASE ~mine
  BY <1>5, <1>8, <1>9
<1>10. CASE mine /\ others # <<>> /\ beaten
  BY <1>6, <1>8, <1>10
<1>11. CASE mine /\ ~ (others # <<>> /\ beaten)
  BY <1>7, <1>8, <1>11
<1> QED BY <1>9, <1>10, <1>11

\* The sums over the fibres of a map add up to the sum.
LEMMA SumOverFibres ==
  ASSUME NEW D, IsFiniteSet(D), NEW f, \A x \in D : f[x] \in Int, NEW choice, NEW T, IsFiniteSet(T), NEW g,
         \A t \in T : g[t] = SumFunctionOnSet(f, {q \in D : choice[q] = t})
  PROVE  SumFunctionOnSet(g, T) = SumFunctionOnSet(f, {q \in D : choice[q] \in T})
<1> DEFINE Over(U) == {q \in D : choice[q] \in U}
           Q == {U \in SUBSET T : SumFunctionOnSet(g, U) = SumFunctionOnSet(f, Over(U))}
<1>1. ASSUME NEW U \in SUBSET T, \A x \in U : U \ {x} \in Q PROVE U \in Q
  <2>1. CASE U = {}
    <3>1. Over(U) = {}
      BY <2>1
    <3> QED BY <2>1, <3>1, SumOfNone
  <2>2. CASE U # {}
    <3>1. PICK t \in U : TRUE
      BY <2>2
    <3>2. SumFunctionOnSet(g, U \ {t}) = SumFunctionOnSet(f, Over(U \ {t}))
      BY <1>1
    <3>3. IsFiniteSet(U) /\ \A x \in U : g[x] \in Int
      <4>1. IsFiniteSet(U)
        BY FS_Subset
      <4>2. ASSUME NEW x \in U PROVE g[x] \in Int
        <5>1. {q \in D : choice[q] = x} \in SUBSET D
          OBVIOUS
        <5>2. IsFiniteSet({q \in D : choice[q] = x})
          BY <5>1, FS_Subset
        <5>3. SumFunctionOnSet(f, {q \in D : choice[q] = x}) \in Int
          BY <5>2, SumIsInt
        <5> QED BY <5>3
      <4> QED BY <4>1, <4>2
    <3>4. SumFunctionOnSet(g, U) = g[t] + SumFunctionOnSet(g, U \ {t})
      BY <3>3, SumWithout
    <3> DEFINE A == {q \in D : choice[q] = t}
               B == Over(U \ {t})
    <3>5. A \cup B = Over(U) /\ A \cap B = {} /\ A \in SUBSET D /\ B \in SUBSET D
      OBVIOUS
    <3> HIDE DEF B
    <3>6. IsFiniteSet(A) /\ IsFiniteSet(B) /\ \A x \in A \cup B : f[x] \in Int
      BY <3>5, FS_Subset
    <3>7. SumFunctionOnSet(f, A \cup B) = SumFunctionOnSet(f, A) + SumFunctionOnSet(f, B)
      BY <3>5, <3>6, SumOfUnion
    <3>8. g[t] = SumFunctionOnSet(f, A)
      OBVIOUS
    <3>9. SumFunctionOnSet(g, U) = SumFunctionOnSet(f, Over(U))
      BY <3>2, <3>4, <3>5, <3>7, <3>8 DEF B
    <3> QED BY <3>9
  <2> QED BY <2>1, <2>2
<1> HIDE DEF Q
<1>2. T \in Q
  BY <1>1, SubsetInduction
<1> QED BY <1>2 DEF Q

\* The mapping moves parts between tickers and loses none.
LEMMA MappingIsMix ==
  ASSUME NEW m, MixOK(m), NEW choice, \A q \in DOMAIN m.parts : choice[q] \in Tickers
  PROVE  MixOK(MappedMix(m, choice))
<1>1. PICK D : D = DOMAIN m.parts
  OBVIOUS
<1>2. PICK f : f = m.parts
  OBVIOUS
<1>3. D \subseteq Tickers /\ IsFiniteSet(D) /\ (\A q \in D : f[q] \in Nat) /\ PartsSum(f) =< m.whole
  BY <1>1, <1>2, PartsFacts DEF MixOK
<1>4. PICK w \in Nat \ {0} : w = m.whole
  BY DEF MixOK
<1>5. PICK T : T = {choice[s] : s \in D}
  OBVIOUS
<1>6. T \subseteq Tickers /\ IsFiniteSet(T)
  <2>1. T \subseteq Tickers
    BY <1>1, <1>5
  <2> QED BY <2>1, SomeTickers
<1>7. PICK g : g = [t \in T |-> PartsSum([s \in {q \in D : choice[q] = t} |-> f[s]])]
  OBVIOUS
<1>8. ASSUME NEW t \in T PROVE g[t] = SumFunctionOnSet(f, {q \in D : choice[q] = t}) /\ g[t] \in Nat
  <2> DEFINE A == {q \in D : choice[q] = t}
             h == [s \in A |-> f[s]]
  <2>1. A \subseteq D /\ A \subseteq Tickers
    BY <1>3
  <2>2. DOMAIN h = A /\ (\A s \in A : h[s] = f[s]) /\ \A s \in A : f[s] \in Nat
    BY <1>3, <2>1
  <2>3. g[t] = PartsSum(h)
    BY <1>7
  <2> HIDE DEF h, A
  <2>4. IsFiniteSet(A)
    BY <2>1, SomeTickers
  <2>5. PartsSum(h) = SumFunctionOnSet(h, A)
    BY <2>2, PartsAreSummed
  <2>6. SumFunctionOnSet(h, A) = SumFunctionOnSet(f, A)
    BY <2>2, <2>4, SumOfEqual
  <2>7. SumFunctionOnSet(f, A) \in Nat
    BY <2>2, <2>4, SumIsNat
  <2> QED BY <2>3, <2>5, <2>6, <2>7 DEF A
<1>9. Parts(g)
  <2>1. DOMAIN g = T /\ g = [t \in T |-> g[t]]
    BY <1>7
  <2> QED BY <1>6, <1>8, <2>1, PartsOf
<1>10. PartsSum(g) = PartsSum(f)
  <2>1. SumFunctionOnSet(g, T) = SumFunctionOnSet(f, {q \in D : choice[q] \in T})
    BY <1>3, <1>6, <1>8, SumOverFibres
  <2>2. {q \in D : choice[q] \in T} = D /\ DOMAIN g = T
    BY <1>5, <1>7
  <2> QED BY <1>1, <1>2, <2>1, <2>2, PartsAreSummed
<1>11. MappedMix(m, choice) = [parts |-> g, whole |-> w]
  BY <1>1, <1>2, <1>4, <1>5, <1>7 DEF MappedMix, Mix
<1>12. PICK o : o = [parts |-> g, whole |-> w]
  OBVIOUS
<1>13. o.parts = g /\ o.whole = w
  BY <1>12
<1>14. MixOK(o)
  BY <1>3, <1>4, <1>9, <1>10, <1>13 DEF MixOK
<1> QED BY <1>11, <1>12, <1>14

\* A restriction of the mix to some tickers, scaled to one.
LEMMA EligibleIsMix == ASSUME NEW m, MixOK(m), NEW trading PROVE MixOK(EligibleMix(m, trading))
<1>1. PICK f : f = m.parts
  OBVIOUS
<1>2. PICK funded : funded = {t \in DOMAIN f : t \in trading /\ f[t] > 0}
  OBVIOUS
<1>3. DOMAIN f \subseteq Tickers /\ \A t \in DOMAIN f : f[t] \in Nat
  BY <1>1, PartsFacts DEF MixOK
<1>4. EligibleMix(m, trading) = IF funded = {} THEN NoMix ELSE Normalised(Restrict(f, funded))
  BY <1>1, <1>2 DEF EligibleMix
<1>5. CASE funded = {}
  BY <1>4, <1>5, NoMixIsMix
<1>6. CASE funded # {}
  <2>1. PICK g : g = [t \in funded |-> f[t]]
    OBVIOUS
  <2>2. funded \subseteq Tickers /\ \A t \in funded : f[t] \in Nat /\ f[t] > 0
    BY <1>2, <1>3
  <2>3. DOMAIN g = funded /\ (\A t \in funded : g[t] = f[t]) /\ g = [t \in funded |-> g[t]]
    BY <2>1
  <2>4. Parts(g)
    BY <2>2, <2>3, PartsOf
  <2>5. PICK t \in funded : TRUE
    BY <1>6
  <2>6. g[t] \in Nat /\ g[t] > 0 /\ g[t] =< PartsSum(g) /\ PartsSum(g) \in Nat
    BY <2>2, <2>3, <2>4, PartsFacts
  <2>7. PartsSum(g) # 0
    BY <2>6
  <2>8. Restrict(f, funded) = g
    BY <2>1 DEF Restrict
  <2> QED BY <1>4, <1>6, <2>4, <2>7, <2>8, NormalisedIsMix
<1> QED BY <1>5, <1>6

LEMMA EligibleTrades ==
  ASSUME NEW m, MixOK(m), NEW trading
  PROVE  DOMAIN EligibleMix(m, trading).parts \subseteq trading
<1>1. PICK funded : funded = {t \in DOMAIN m.parts : t \in trading /\ m.parts[t] > 0}
  OBVIOUS
<1>2. EligibleMix(m, trading) = IF funded = {} THEN NoMix ELSE Normalised(Restrict(m.parts, funded))
  BY <1>1 DEF EligibleMix
<1>3. DOMAIN NoMix.parts = {}
  BY NoMixIsMix
<1>4. DOMAIN Normalised(Restrict(m.parts, funded)).parts = funded
  BY DEF Normalised, Mix, Restrict
<1> QED BY <1>1, <1>2, <1>3, <1>4

\* New money for what lacks it.
LEMMA BandedIsMix ==
  ASSUME NEW m, MixOK(m), NEW marks, \A t \in DOMAIN m.parts : marks[t] \in Int, NEW nav \in Nat, NEW band \in Nat
  PROVE  MixOK(BandedMix(m, marks, nav, band)) /\ DOMAIN BandedMix(m, marks, nav, band).parts = DOMAIN m.parts
<1>1. PICK D : D = DOMAIN m.parts
  OBVIOUS
<1>2. PICK w \in Nat \ {0} : w = m.whole
  BY DEF MixOK
<1>3. PICK lack : lack = [t \in D |-> m.parts[t] * nav - marks[t] * w]
  OBVIOUS
<1>4. ASSUME NEW t \in D PROVE lack[t] \in Int
  <2>1. PICK x \in Nat : x = m.parts[t]
    BY <1>1, PartsFacts DEF MixOK
  <2>2. PICK y \in Int : y = marks[t]
    BY <1>1
  <2>3. lack[t] = x * nav - y * w
    BY <1>3, <2>1, <2>2
  <2>4. x * nav - y * w \in Int
    OBVIOUS
  <2> QED BY <2>3, <2>4
<1>5. PICK wide : wide = {t \in D : 100 * lack[t] > band * nav * w}
  OBVIOUS
<1>6. PICK under : under = {t \in D : lack[t] > 0}
  OBVIOUS
<1>7. PICK chosen : chosen = IF wide # {} THEN wide ELSE under
  OBVIOUS
<1>8. ASSUME NEW t \in chosen PROVE t \in D /\ lack[t] \in Nat /\ lack[t] > 0
  <2>1. t \in wide \/ t \in under
    BY <1>7
  <2>2. PICK b \in Nat : b = band * nav * w
    <3>1. band * nav \in Nat
      BY ProductIsNat
    <3>2. (band * nav) * w \in Nat
      BY <3>1, ProductIsNat
    <3> QED BY <3>2
  <2>3. t \in D /\ (100 * lack[t] > b \/ lack[t] > 0)
    BY <1>5, <1>6, <2>1, <2>2
  <2>4. PICK x \in Int : x = lack[t]
    BY <1>4, <2>3
  <2> QED BY <2>3, <2>4
<1>9. PICK g : g = [t \in D |-> IF t \in chosen THEN lack[t] ELSE 0]
  OBVIOUS
<1>10. Parts(g) /\ DOMAIN g = D
  <2>1. \A t \in D : g[t] \in Nat
    BY <1>8, <1>9
  <2>2. D \subseteq Tickers
    BY <1>1, PartsFacts DEF MixOK
  <2>3. DOMAIN g = D /\ g = [t \in D |-> g[t]]
    BY <1>9
  <2> QED BY <2>1, <2>2, <2>3, PartsOf
<1>11. BandedMix(m, marks, nav, band) = IF chosen = {} THEN m ELSE Normalised(g)
  <2> DEFINE L(t) == m.parts[t] * nav - marks[t] * m.whole
  <2>1. \A t \in D : L(t) = lack[t]
    BY <1>2, <1>3
  <2>2. wide = {t \in D : 100 * L(t) > band * nav * m.whole}
    BY <1>2, <1>5, <2>1
  <2>3. under = {t \in D : L(t) > 0}
    BY <1>6, <2>1
  <2>4. g = [t \in D |-> IF t \in chosen THEN L(t) ELSE 0]
    BY <1>9, <2>1
  <2> QED BY <1>1, <1>7, <2>2, <2>3, <2>4 DEF BandedMix
<1>12. CASE chosen = {}
  BY <1>1, <1>11, <1>12
<1>13. CASE chosen # {}
  <2>1. PICK t \in chosen : TRUE
    BY <1>13
  <2>2. t \in D /\ lack[t] \in Nat /\ lack[t] > 0
    BY <1>8
  <2>3. g[t] = lack[t] /\ g[t] =< PartsSum(g) /\ PartsSum(g) \in Nat
    BY <1>9, <1>10, <2>1, <2>2, PartsFacts
  <2>4. PartsSum(g) # 0
    BY <2>2, <2>3
  <2> QED BY <1>1, <1>10, <1>11, <1>13, <2>4, NormalisedIsMix
<1> QED BY <1>12, <1>13

\* The mix of every configured source, and the sleeves it may name.
LEMMA BaseIsMix ==
  ASSUME NEW s \in Signals
  PROVE  MixOK(BaseMix(s)) /\ DOMAIN BaseMix(s).parts \subseteq SleevesOf(s)
<1> DEFINE own == IF config.policy = "inverseVol" THEN InverseVolMix(s.vol) ELSE PolicyMix
<1>1. MixOK(PolicyMix) /\ MixOK(OverrideMix)
  BY SignalsAssumption, WeightsAreMix
<1>2. MixOK(own) /\ DOMAIN own.parts \subseteq SleevesOf(s) /\ Tiltable(own, s)
  <2>1. CASE config.policy = "inverseVol"
    <3>1. own = InverseVolMix(s.vol)
      BY <2>1
    <3>2. Tiltable(InverseVolMix(s.vol), s)
      BY SignalsAssumption
    <3>3. DOMAIN s.vol \subseteq SleevesOf(s)
      BY DEF SleevesOf
    <3> HIDE DEF own
    <3> QED BY <3>1, <3>2, <3>3, InverseVolIsMix
  <2>2. CASE config.policy # "inverseVol"
    <3>1. own = PolicyMix
      BY <2>2
    <3>2. Tiltable(PolicyMix, s)
      BY SignalsAssumption
    <3>3. DOMAIN PolicyMix.parts \subseteq SleevesOf(s)
      BY DEF SleevesOf
    <3> HIDE DEF own
    <3> QED BY <1>1, <3>1, <3>2, <3>3
  <2> QED BY <2>1, <2>2
<1>3. BaseMix(s) =
        CASE config.targeting = {"riskBudget"} -> RiskBudgetMix(s.core, s.satellite, s.score, 0, 15)
          [] config.targeting = {"override"} -> OverrideMix
          [] config.targeting = {"tilt"} -> TiltedMix(own, s.loading, 25)
          [] OTHER -> own
  BY DEF BaseMix
<1> HIDE DEF own
<1>4. CASE config.targeting = {"riskBudget"}
  <2>1. BaseMix(s) = RiskBudgetMix(s.core, s.satellite, s.score, 0, 15)
    BY <1>3, <1>4
  <2>2. {s.core, s.satellite} \subseteq SleevesOf(s)
    BY DEF SleevesOf
  <2> QED BY <2>1, <2>2, RiskBudgetIsMix
<1>5. CASE config.targeting = {"override"}
  <2>1. BaseMix(s) = OverrideMix
    BY <1>3, <1>5
  <2>2. DOMAIN OverrideMix.parts \subseteq SleevesOf(s)
    BY DEF SleevesOf
  <2> QED BY <1>1, <2>1, <2>2
<1>6. CASE config.targeting = {"tilt"}
  <2>1. BaseMix(s) = TiltedMix(own, s.loading, 25)
    BY <1>3, <1>6
  <2> QED BY <1>2, <2>1, TiltIsMix
<1>7. CASE config.targeting \notin {{"riskBudget"}, {"override"}, {"tilt"}}
  <2>1. BaseMix(s) = own
    BY <1>3, <1>7
  <2> QED BY <1>2, <2>1
<1> QED BY <1>4, <1>5, <1>6, <1>7

LEMMA SleeveFacts ==
  ASSUME NEW s \in Signals, NEW q \in SleevesOf(s), NEW held
  PROVE  s.signs[q].trend \in Int /\ Implementation(q, s.passing[q], held) \in Tickers
<1>1. /\ s.signs[q].trend \in Int
      /\ MappingLaw.candidates[q] \in Seq(Tickers)
      /\ DOMAIN s.passing[q] \in (SUBSET ToSet(MappingLaw.candidates[q])) \ {{}}
      /\ s.passing[q] \in [DOMAIN s.passing[q] -> Int]
  BY SignalsAssumption, SMTT(40)
<1>2. PICK scores : scores = s.passing[q]
  OBVIOUS
<1>3. DOMAIN scores \subseteq ToSet(MappingLaw.candidates[q]) /\ DOMAIN scores # {}
  BY <1>1, <1>2
<1>4. \A x \in DOMAIN scores : scores[x] \in Int
  <2>1. scores \in [DOMAIN scores -> Int]
    BY <1>1, <1>2
  <2> QED BY <2>1
<1>5. Implementation(q, scores, held) \in Tickers
  BY <1>1, <1>3, <1>4, ImplementationTrades
<1> QED BY <1>1, <1>2, <1>5

-----------------------------------------------------------------------------
(* The split of a month's money *)

LEMMA ReserveParameters ==
  /\ ReserveLaw.maxWithhold \in 1 .. 10 /\ ReserveLaw.minInvest \in 1 .. 99 /\ ReserveLaw.maxInvest \in 101 .. 300
  /\ ReserveLaw.months \in 1 .. 6 /\ ReserveLaw.trigger \in Int /\ ReserveLaw.vix \in Nat \ {0}
BY PolicyConfigs DEF ReserveConfigOK

\* Every multiplier is a percentage of the contribution.
LEMMA MultiplierFacts ==
  ASSUME NEW s \in Signals, NEW schedule \in {"v2", "v3", "v4"}
  PROVE  InvestMultiplier(schedule, s) \in Nat
<1>1. PICK depth \in Int : depth = s.depth
  BY SignalsAssumption
<1>2. PICK trend \in Int : trend = s.trend
  BY SignalsAssumption
<1>3. PICK vix \in Nat : vix = s.vix
  BY SignalsAssumption
<1>4. ReserveLaw.minInvest \in Nat /\ ReserveLaw.maxInvest \in Nat /\ ReserveLaw.maxInvest >= 101
  BY ReserveParameters
<1>5. PiecewiseMultiplier(depth, trend) \in Nat
  <2>1. CASE depth < 10
    BY <1>4, <2>1 DEF PiecewiseMultiplier
  <2>2. CASE depth \in 10 .. 19
    <3>1. PICK x \in Nat : x = 25 * (depth - 10)
      BY <2>2
    <3>2. x \div 10 \in Nat
      BY Quotient
    <3>3. PiecewiseMultiplier(depth, trend) = 125 + (x \div 10)
      BY <2>2, <3>1 DEF PiecewiseMultiplier
    <3> QED BY <3>2, <3>3
  <2>3. CASE depth \in 20 .. 29
    <3>1. PICK x \in Nat : x = 50 * (depth - 20)
      BY <2>3
    <3>2. x \div 10 \in Nat
      BY Quotient
    <3>3. PiecewiseMultiplier(depth, trend) = 150 + (x \div 10)
      BY <2>3, <3>1 DEF PiecewiseMultiplier
    <3> QED BY <3>2, <3>3
  <2>4. CASE depth >= 30
    BY <1>4, <2>4 DEF PiecewiseMultiplier
  <2> QED BY <2>1, <2>2, <2>3, <2>4
<1>6. ErpMultiplier(depth, vix) \in Nat
  <2>1. PICK limit \in Nat \ {0} : limit = ReserveLaw.vix
    BY ReserveParameters
  <2> DEFINE deep == SmallerOf(100, (100 * LargerOf(0, depth)) \div 30)
             alarm == SmallerOf(100, LargerOf(0, ((100 * vix) \div limit) - 100))
             scaled == LargerOf(deep, alarm)
             stress == IF scaled = 0 THEN 66 ELSE scaled
  <2>2. deep \in Int
    <3>1. PICK x \in Int : x = 100 * LargerOf(0, depth)
      BY DEF LargerOf
    <3>2. PICK y \in Int : y = x \div 30
      BY Quotient
    <3> QED BY <3>1, <3>2 DEF SmallerOf
  <2>3. alarm \in Nat
    <3>1. PICK y \in Int : y = (100 * vix) \div limit
      BY <2>1, Quotient
    <3> QED BY <3>1 DEF SmallerOf, LargerOf
  <2> HIDE DEF deep, alarm
  <2>4. scaled \in Nat
    BY <2>2, <2>3 DEF LargerOf
  <2>5. stress \in Nat
    BY <2>4
  <2> HIDE DEF scaled
  <2>6. ErpMultiplier(depth, vix) = IF depth < 10 /\ vix < limit THEN ReserveLaw.minInvest
                                    ELSE IF depth >= 20 \/ vix >= limit
                                         THEN 100 + Percent(ReserveLaw.maxInvest - 100, stress) ELSE 100
    BY <2>1 DEF ErpMultiplier, deep, alarm, scaled
  <2> HIDE DEF stress
  <2>7. Percent(ReserveLaw.maxInvest - 100, stress) \in Nat
    <3>1. ReserveLaw.maxInvest - 100 \in Nat
      BY <1>4
    <3> QED BY <2>5, <3>1, PercentFacts
  <2> QED BY <1>4, <2>6, <2>7
<1>7. ErpPreservingMultiplier(depth, trend) \in Nat
  BY <1>4 DEF ErpPreservingMultiplier
<1> QED BY <1>1, <1>2, <1>3, <1>5, <1>6, <1>7 DEF InvestMultiplier

\* A split loses nothing and invents nothing.
Conserves(d, stock) == d.investable \in Nat /\ d.reserve \in Nat /\ d.investable + d.reserve = stock

LEMMA Splitting ==
  ASSUME NEW x \in Nat, NEW y \in Nat
  PROVE  Split(x, y).investable = x /\ Split(x, y).reserve = y /\ Conserves(Split(x, y), x + y)
<1>1. PICK d : d = Split(x, y)
  OBVIOUS
<1>2. d.investable = x /\ d.reserve = y
  BY <1>1 DEF Split
<1> QED BY <1>1, <1>2 DEF Conserves

LEMMA StockConserves ==
  ASSUME NEW schedule \in {"v2", "v3", "v4"}, NEW c \in Nat, NEW r \in Nat, NEW s \in Signals
  PROVE  LET d == StockSchedule(schedule, c, r, s)
         IN  Conserves(d, c + r) /\ d.reserve =< ReserveLaw.months * c
<1>1. PICK x \in Nat : x = Percent(c, InvestMultiplier(schedule, s))
  BY MultiplierFacts, PercentFacts
<1>2. PICK z \in Nat : z = ReserveLaw.months * c
  BY ReserveParameters, ProductIsNat
<1>3. PICK inv \in Nat : inv = SmallerOf(x, c + r) /\ inv =< c + r
  BY DEF SmallerOf
<1>4. PICK kept \in Nat : kept = SmallerOf(c + r - inv, z) /\ kept =< z /\ kept =< c + r - inv
  BY <1>3 DEF SmallerOf
<1>5. StockSchedule(schedule, c, r, s) = Split(c + r - kept, kept)
  BY <1>1, <1>2, <1>3, <1>4 DEF StockSchedule
<1>6. PICK y \in Nat : y = c + r - kept
  BY <1>3, <1>4
<1>7. y + kept = c + r
  BY <1>6
<1>8. Conserves(Split(y, kept), c + r) /\ Split(y, kept).reserve = kept
  BY <1>7, Splitting
<1>9. StockSchedule(schedule, c, r, s) = Split(y, kept)
  BY <1>5, <1>6
<1> QED BY <1>2, <1>4, <1>8, <1>9

LEMMA BinaryConserves ==
  ASSUME NEW c \in Nat, NEW r \in Nat, NEW s \in Signals
  PROVE  Conserves(BinarySchedule(c, r, s), c + r)
<1>1. PICK cap \in Nat : cap = Percent(c, ReserveLaw.maxWithhold) /\ cap =< c
  <2>1. ReserveLaw.maxWithhold \in Nat /\ ReserveLaw.maxWithhold =< 100
    BY ReserveParameters
  <2> QED BY <2>1, PercentFacts
<1>2. PICK deploy \in Nat : deploy = SmallerOf(r, cap) /\ deploy =< r
  BY DEF SmallerOf
<1>3. s.depth \in Int /\ ReserveLaw.trigger \in Int
  BY SignalsAssumption, ReserveParameters
<1>4. BinarySchedule(c, r, s) \in {Split(c + deploy, r - deploy), Split(c - cap, r + cap), Split(c, r)}
  BY <1>1, <1>2, <1>3 DEF BinarySchedule
<1>5. Conserves(Split(c + deploy, r - deploy), c + r)
  <2>1. PICK x \in Nat : x = c + deploy
    OBVIOUS
  <2>2. PICK y \in Nat : y = r - deploy
    BY <1>2
  <2>3. x + y = c + r
    BY <2>1, <2>2
  <2> QED BY <2>1, <2>2, <2>3, Splitting
<1>6. Conserves(Split(c - cap, r + cap), c + r)
  <2>1. PICK x \in Nat : x = c - cap
    BY <1>1
  <2>2. PICK y \in Nat : y = r + cap
    OBVIOUS
  <2>3. x + y = c + r
    BY <2>1, <2>2
  <2> QED BY <2>1, <2>2, <2>3, Splitting
<1> QED BY <1>4, <1>5, <1>6, Splitting, ZenonT(60)

LEMMA KafiConserves ==
  ASSUME NEW c \in Nat, NEW r \in Nat, NEW score \in 0 .. 100
  PROVE  Conserves(KafiDeployment(c, r, score), c + r)
<1>1. KafiLaw.min \in Nat /\ KafiLaw.max - KafiLaw.min \in Nat
  BY PolicyConfigs DEF KafiConfigOK
<1>2. PICK p \in Nat : p = KafiLaw.min + Percent(KafiLaw.max - KafiLaw.min, score)
  <2>1. Percent(KafiLaw.max - KafiLaw.min, score) \in Nat
    <3>1. score \in Nat
      OBVIOUS
    <3> QED BY <1>1, <3>1, PercentFacts
  <2> QED BY <1>1, <2>1
<1>3. PICK x \in Nat : x = Percent(c, p)
  BY PercentFacts
<1>4. PICK inv \in Nat : inv = SmallerOf(x, c + r) /\ inv =< c + r
  BY DEF SmallerOf
<1>5. PICK y \in Nat : y = c + r - inv
  BY <1>4
<1>6. KafiDeployment(c, r, score) = Split(inv, y)
  BY <1>2, <1>3, <1>4, <1>5 DEF KafiDeployment
<1>7. inv + y = c + r
  BY <1>5
<1> QED BY <1>6, <1>7, Splitting, ZenonT(60)

\* Whatever the modules, the reserve and what is invested are the contribution
\* and the reserve before, and v2 to v4 keep the stock below its cap.
LEMMA DeploymentConserves ==
  ASSUME WellConfigured(config), Admitted(config), NEW c \in Nat, reserve \in Nat, NEW s \in Signals
  PROVE  /\ Conserves(Deployed(c, s), c + reserve)
         /\ "kafi" \notin config.modules /\ config.schedule \in {"v2", "v3", "v4"} =>
              Deployed(c, s).reserve =< ReserveLaw.months * c
<1>1. PICK r \in Nat : r = reserve
  OBVIOUS
<1>2. CASE "kafi" \in config.modules
  <2>0. "reserve" \notin config.modules
    <3>1. config.modules = {"kafi"}
      BY <1>2 DEF Admitted, Sizing
    <3> QED BY <3>1
  <2>1. Deployed(c, s) = KafiDeployment(c, r, s.score)
    BY <1>1, <1>2, <2>0 DEF Deployed
  <2>2. s.score \in 0 .. 100
    BY SignalsAssumption
  <2> QED BY <1>1, <1>2, <2>1, <2>2, KafiConserves
<1>3. CASE "kafi" \notin config.modules /\ "reserve" \in config.modules
  <2>1. Deployed(c, s) = ReserveSchedule(config.schedule, c, r, s)
    BY <1>1, <1>3 DEF Deployed
  <2>2. config.schedule \in ReserveSchedules
    BY <1>3 DEF WellConfigured
  <2>3. CASE config.schedule = "v1"
    <3>1. Deployed(c, s) = BinarySchedule(c, r, s)
      BY <2>1, <2>3 DEF ReserveSchedule
    <3>2. Conserves(Deployed(c, s), c + reserve)
      BY <1>1, <3>1, BinaryConserves
    <3> QED BY <2>3, <3>2
  <2>4. CASE config.schedule \in {"v2", "v3", "v4"}
    <3>1. Deployed(c, s) = StockSchedule(config.schedule, c, r, s)
      BY <2>1, <2>4 DEF ReserveSchedule
    <3> QED BY <1>1, <2>4, <3>1, StockConserves
  <2> QED BY <2>2, <2>3, <2>4 DEF ReserveSchedules
<1>4. CASE "kafi" \notin config.modules /\ "reserve" \notin config.modules
  <2>1. Deployed(c, s) = Split(c, r)
    BY <1>1, <1>4 DEF Deployed
  <2>2. config.schedule = "off"
    BY <1>4 DEF WellConfigured
  <2> QED BY <1>1, <2>1, <2>2, Splitting
<1> QED BY <1>2, <1>3, <1>4

LEMMA AdaptiveIsNat == ASSUME NEW score \in 0 .. 100 PROVE AdaptiveCredit(Base, score) \in Nat
<1>1. /\ AdaptiveLaw.min \in 0 .. 99 /\ AdaptiveLaw.max \in 101 .. 200 /\ AdaptiveLaw.deadband \in Nat
      /\ AdaptiveLaw.downside \in [0 .. 100 -> 0 .. 100] /\ AdaptiveLaw.upside \in [0 .. 100 -> 0 .. 100]
  BY PolicyConfigs DEF AdaptiveConfigOK
<1>2. Base \in Nat
  BY Parameters
<1>3. PICK min \in Nat : min = AdaptiveLaw.min /\ 100 - min \in Nat
  <2>1. PICK k \in 0 .. 99 : k = AdaptiveLaw.min
    BY <1>1, Zenon
  <2>2. k \in Nat /\ 100 - k \in Nat
    OBVIOUS
  <2> QED BY <2>1, <2>2, Zenon
<1>4. PICK max \in Nat : max = AdaptiveLaw.max /\ max - 100 \in Nat
  <2>1. PICK k \in 101 .. 200 : k = AdaptiveLaw.max
    BY <1>1, Zenon
  <2>2. k \in Nat /\ k - 100 \in Nat
    OBVIOUS
  <2> QED BY <2>1, <2>2, Zenon
<1>5. PICK distance \in -50 .. 50 : distance = score - 50
  OBVIOUS
<1> DEFINE neutral == distance \in -AdaptiveLaw.deadband .. AdaptiveLaw.deadband
           multiplier == CASE neutral -> 100 + Percent(AdaptiveLaw.max - 100, AdaptiveLaw.upside[0])
                           [] ~neutral /\ distance < 0 ->
                                100 - Percent(100 - AdaptiveLaw.min, AdaptiveLaw.downside[-2 * distance])
                           [] OTHER -> 100 + Percent(AdaptiveLaw.max - 100, AdaptiveLaw.upside[2 * distance])
<1>6. ASSUME NEW i \in 0 .. 100
      PROVE  /\ Percent(AdaptiveLaw.max - 100, AdaptiveLaw.upside[i]) \in Nat
             /\ Percent(100 - AdaptiveLaw.min, AdaptiveLaw.downside[i]) \in Nat
  <2>1. AdaptiveLaw.upside[i] \in 0 .. 100 /\ AdaptiveLaw.downside[i] \in 0 .. 100
    BY <1>1, ZenonT(60)
  <2>2. PICK u \in Nat : u = AdaptiveLaw.upside[i]
    BY <2>1
  <2>3. PICK d \in Nat : d = AdaptiveLaw.downside[i]
    BY <2>1
  <2> QED BY <1>3, <1>4, <2>2, <2>3, PercentFacts
<1>7. multiplier \in Int
  <2>1. CASE neutral
    <3>1. multiplier = 100 + Percent(AdaptiveLaw.max - 100, AdaptiveLaw.upside[0])
      BY <2>1
    <3> QED BY <1>6, <3>1
  <2>2. CASE ~neutral /\ distance < 0
    <3>1. multiplier = 100 - Percent(100 - AdaptiveLaw.min, AdaptiveLaw.downside[-2 * distance])
      BY <2>2
    <3>2. -2 * distance \in 0 .. 100
      BY <1>5, <2>2
    <3>3. PICK y \in Nat : y = Percent(100 - AdaptiveLaw.min, AdaptiveLaw.downside[-2 * distance])
      BY <1>6, <3>2
    <3> QED BY <3>1, <3>3
  <2>3. CASE ~neutral /\ distance >= 0
    <3>1. multiplier = 100 + Percent(AdaptiveLaw.max - 100, AdaptiveLaw.upside[2 * distance])
      BY <2>3
    <3>2. 2 * distance \in 0 .. 100
      BY <1>5, <2>3
    <3>3. PICK y \in Nat : y = Percent(AdaptiveLaw.max - 100, AdaptiveLaw.upside[2 * distance])
      BY <1>6, <3>2
    <3> QED BY <3>1, <3>3
  <2>4. distance < 0 \/ distance >= 0
    BY <1>5
  <2> QED BY <2>1, <2>2, <2>3, <2>4
<1>8. AdaptiveCredit(Base, score) =
        SmallerOf(LargerOf(Percent(Base, multiplier), Percent(Base, AdaptiveLaw.min)), Percent(Base, AdaptiveLaw.max))
  BY <1>5, Zenon DEF AdaptiveCredit
<1> HIDE DEF multiplier
<1>9. PICK x \in Int : x = Percent(Base, multiplier)
  <2>1. PICK p \in Int : p = multiplier
    BY <1>7
  <2>2. PICK y \in Int : y = Base * p
    BY <1>2
  <2>3. y \div 100 \in Int
    BY Quotient
  <2> QED BY <2>1, <2>2, <2>3 DEF Percent
<1>10. PICK y \in Nat : y = Percent(Base, AdaptiveLaw.min)
  BY <1>2, <1>3, PercentFacts
<1>11. PICK z \in Nat : z = Percent(Base, AdaptiveLaw.max)
  BY <1>2, <1>4, PercentFacts
<1>12. SmallerOf(LargerOf(x, y), z) \in Nat
  BY DEF SmallerOf, LargerOf
<1> QED BY <1>8, <1>9, <1>10, <1>11, <1>12

\* The equal parts of a month's points add up to the month's contribution.
LEMMA SplitFacts ==
  ASSUME WellConfigured(config), NEW k \in 1 .. Len(Points)
  PROVE  LET n == Cardinality(OfMonth(MonthOf(Points[k])))
         IN  n \in 1 .. 2 /\ SplitCredit(k) = Base \div n /\ SplitCredit(k) \in Nat /\ n * SplitCredit(k) = Base
<1>1. PICK n : n = Cardinality(OfMonth(MonthOf(Points[k])))
  OBVIOUS
<1>2. n \in 1 .. 2
  BY <1>1, OfMonthFacts, PointsFacts
<1>3. SplitCredit(k) = Base \div n
  BY <1>1 DEF SplitCredit, OfMonth
<1>4. Base \in Nat /\ Base % 2 = 0
  BY Parameters
<1>5. CASE n = 1
  BY <1>1, <1>3, <1>4, <1>5
<1>6. CASE n = 2
  BY <1>1, <1>3, <1>4, <1>6
<1> QED BY <1>2, <1>5, <1>6

LEMMA ConversionFacts == ASSUME NEW p \in 0 .. 100 PROVE ConversionFraction(p) \in 0 .. 100
<1>1. PICK most \in 1 .. 100 : most = CurrencyLaw.maxDefer
  BY PolicyConfigs DEF CurrencyConfigOK
<1>2. PICK e \in 1 .. 99 : e = CurrencyLaw.expensive
  BY PolicyConfigs DEF CurrencyConfigOK
<1>3. ConversionFraction(p) = IF p =< e THEN 100 ELSE 100 - ((most * (p - e)) \div (100 - e))
  BY <1>1, <1>2 DEF ConversionFraction
<1>4. CASE p =< e
  BY <1>3, <1>4
<1>5. CASE p > e
  <2>1. PICK a \in Nat : a = p - e /\ a =< 100 - e
    BY <1>5
  <2>2. PICK b \in Nat \ {0} : b = 100 - e
    OBVIOUS
  <2>3. most \in Nat /\ most * a =< most * b /\ most * a \in Nat
    <3>1. most \in Nat /\ a =< b
      BY <2>1, <2>2
    <3> QED BY <3>1, ProductIsMonotone, ProductIsNat
  <2>4. most * b \in Int /\ (most * b) \div b = most
    BY <2>3, QuotientOfProduct
  <2>5. (most * a) \div b =< most
    BY <2>3, <2>4, QuotientIsMonotone
  <2>6. (most * a) \div b \in Nat
    BY <2>3, Quotient
  <2>7. PICK q \in 0 .. 100 : q = (most * a) \div b
    BY <2>5, <2>6
  <2> QED BY <1>3, <1>5, <2>1, <2>2, <2>7
<1> QED BY <1>4, <1>5

\* A share of a mix's promise is within the money it is a share of.
LEMMA BudgetFacts ==
  ASSUME NEW money \in Nat, NEW m, MixOK(m)
  PROVE  /\ (money * PartsSum(m.parts)) \div m.whole \in Nat
         /\ (money * PartsSum(m.parts)) \div m.whole =< money
<1>1. PICK s \in Nat : s = PartsSum(m.parts)
  BY PartsFacts DEF MixOK
<1>2. PICK w \in Nat \ {0} : w = m.whole /\ s =< w
  BY <1>1 DEF MixOK
<1>3. money * s \in Nat /\ money * w \in Nat /\ money * s =< money * w
  BY <1>2, ProductIsNat, ProductIsMonotone
<1>4. (money * w) \div w = money
  BY QuotientOfProduct
<1>5. (money * s) \div w \in Nat /\ (money * s) \div w =< (money * w) \div w
  BY <1>3, Quotient, QuotientIsMonotone
<1> QED BY <1>1, <1>2, <1>4, <1>5

-----------------------------------------------------------------------------
(* The inductive invariant *)

Holdings == UNION {[d -> Nat] : d \in SUBSET Tickers}
Quotes == [rate : Nat \ {0}, close : [Tickers -> Nat \ {0}]]
Recorded == [contribution : Nat, shares : Holdings, cashKrw : Nat, cashUsd : Nat, reserve : Nat, market : Quotes]
Running == {"settle", "target", "credit", "buy"}
Idle == {"check", "shape", "settle", "finish", "done"}
Stages == Idle \cup Running \cup {"failed"}

AllocTyped ==
  /\ WellConfigured(config) /\ lives \in [Tickers -> [first : Int, last : Int]]
  /\ stage \in Stages /\ point \in Nat \ {0} /\ signal \in Signals /\ market \in Quotes /\ MixOK(mix)
  /\ contribution \in Nat /\ investable \in Nat /\ cashKrw \in Nat /\ cashUsd \in Nat /\ reserve \in Nat
  /\ shares \in Holdings /\ snapshots \in Seq(Recorded)

\* One snapshot per point that is over.
Progress ==
  /\ Len(snapshots) = point - 1 /\ point =< Len(Points) + 1
  /\ stage \in Running => point =< Len(Points)
  /\ stage \in {"check", "shape"} => point = 1
  /\ stage \notin {"check", "failed"} => Admitted(config)

\* The drift is within what the months left can still save down or catch up.
Left == Len(Points) - Len(shapedCredits)
Shaped ==
  /\ shapedCredits \in Seq(Least .. Most) /\ drift \in Int /\ Left \in Nat
  /\ drift =< Reserve(Left) /\ -Debt(Left) =< drift
  /\ SumFunctionOnSet(shapedCredits, 1 .. Len(shapedCredits)) = drift + Len(shapedCredits) * Base
  /\ stage = "check" => shapedCredits = <<>>
  /\ stage = "shape" => Left # 0
  /\ stage \in Running /\ "shape" \in config.modules => Left = 0

\* Between two points the books are those of the last snapshot; at a point, what
\* ended is settled, and then the month's money is credited.
Ending == {t \in DOMAIN Prior(point).shares : config.membership /\ Ended(t)}
Proceeds == Cost(Restrict(Prior(point).shares, Ending), market.close)
Ledger ==
  /\ stage \in Idle \cup {"target", "credit"} => cashKrw = Prior(point).cashKrw /\ reserve = Prior(point).reserve
  /\ stage \in Idle => cashUsd = Prior(point).cashUsd /\ shares = Prior(point).shares
  /\ stage \in {"target", "credit", "buy"} =>
       /\ shares = Restrict(Prior(point).shares, DOMAIN Prior(point).shares \ Ending)
       /\ cashUsd = Prior(point).cashUsd + Proceeds - Percent(Proceeds, Commission)
  /\ stage \in {"credit", "buy"} /\ config.membership => \A t \in DOMAIN mix.parts : Trades(t, Execution(point))
  /\ stage = "buy" =>
       /\ cashKrw = Prior(point).cashKrw + contribution + Prior(point).reserve - reserve
       /\ Prior(point).cashKrw + investable =< cashKrw
       /\ config.modules \cap {"shape", "adaptive"} = {} => contribution = SplitCredit(point)

\* What the snapshot of a point keeps, adds and drops of the one before.
Explained(k) ==
  LET s       == snapshots[k]
      at      == s.market
      gross   == Cost(Restrict(Prior(k).shares, GoneFrom(k)), at.close)
      usd     == (100 * Converted(k)) \div (at.rate * (100 + Spread))
      settled == gross - Percent(gross, Commission)
      fee     == IF Converted(k) = 0 THEN 0
                 ELSE Percent(Prior(k).cashUsd + settled + usd, Commission)
  IN /\ Converted(k) >= 0
     /\ Worth(s, at) = Worth(Prior(k), at) + s.contribution
                         - (Converted(k) - usd * at.rate)
                         - (Percent(gross, Commission) + fee) * at.rate
Carried(k) ==
  \A t \in DOMAIN Prior(k).shares :
    IF t \in DOMAIN snapshots[k].shares THEN Prior(k).shares[t] =< snapshots[k].shares[t]
    ELSE config.membership /\ lives[t].last < Execution(k)
Opened(k) ==
  config.membership =>
    /\ \A t \in DOMAIN snapshots[k].shares : lives[t].first =< Execution(k)
    /\ \A t \in DOMAIN snapshots[k].shares \ DOMAIN Prior(k).shares : Execution(k) =< lives[t].last
Funded(k) ==
  /\ Prior(k).cashKrw =< snapshots[k].cashKrw
  /\ config.modules \cap {"shape", "adaptive"} = {} => snapshots[k].contribution = SplitCredit(k)
Entry(k) == Explained(k) /\ Carried(k) /\ Opened(k) /\ Funded(k)
History == \A k \in 1 .. Len(snapshots) : Entry(k)

StockCapped == config.schedule \in {"v2", "v3", "v4"} => reserve =< ReserveLaw.months * contribution
Dust ==
  stage \in {"settle", "finish", "done"} /\ snapshots # <<>> /\ Converted(Len(snapshots)) > 0 =>
    cashUsd < MapThenSumSet(LAMBDA t : market.close[t], DOMAIN mix.parts)
Sold == \E k \in DOMAIN snapshots : \E t \in GoneFrom(k) : Prior(k).shares[t] > 0
Replayed ==
  /\ replay # "none" => stage = "done" /\ replay = IF Sold THEN "mismatch" ELSE "reconciled"

AllocInv == AllocTyped /\ Progress /\ Shaped /\ Ledger /\ History /\ StockCapped /\ Dust /\ Replayed

LEMMA HoldingsAreParts == ASSUME NEW f PROVE f \in Holdings <=> Parts(f)
BY DEF Holdings, Parts

LEMMA RecordedFacts ==
  ASSUME NEW r \in Recorded
  PROVE  /\ r.contribution \in Nat /\ Parts(r.shares) /\ r.cashKrw \in Nat /\ r.cashUsd \in Nat
         /\ r.reserve \in Nat /\ r.market \in Quotes
<1>1. r.shares \in Holdings
  BY DEF Recorded
<1>2. Parts(r.shares)
  BY <1>1, HoldingsAreParts
<1>3. r.contribution \in Nat /\ r.cashKrw \in Nat /\ r.cashUsd \in Nat /\ r.reserve \in Nat /\ r.market \in Quotes
  BY DEF Recorded
<1> QED BY <1>2, <1>3

LEMMA MarketFacts ==
  ASSUME NEW m \in Quotes
  PROVE  m.rate \in Nat \ {0} /\ m.close \in [Tickers -> Nat \ {0}]
BY DEF Quotes

LEMMA NoParts == Parts(<<>>)
BY NoMixIsMix DEF MixOK

\* The state of the books before the point.
LEMMA PriorFacts ==
  ASSUME AllocTyped, Progress, NEW k \in 1 .. Len(snapshots) + 1
  PROVE  /\ Prior(k).cashKrw \in Nat /\ Prior(k).cashUsd \in Nat /\ Prior(k).reserve \in Nat
         /\ Parts(Prior(k).shares)
<1>1. CASE k = 1
  <2>1. PICK r : r = [shares |-> <<>>, cashKrw |-> 0, cashUsd |-> 0, reserve |-> 0]
    OBVIOUS
  <2>2. r.shares = <<>> /\ r.cashKrw = 0 /\ r.cashUsd = 0 /\ r.reserve = 0
    BY <2>1
  <2>3. Prior(k) = r
    BY <1>1, <2>1 DEF Prior
  <2> QED BY <2>2, <2>3, NoParts
<1>2. CASE k # 1
  <2>1. Len(snapshots) \in Nat /\ k - 1 \in 1 .. Len(snapshots)
    BY <1>2 DEF AllocTyped
  <2>2. snapshots[k - 1] \in Recorded
    BY <2>1 DEF AllocTyped
  <2>3. Prior(k) = snapshots[k - 1]
    BY <1>2 DEF Prior
  <2> QED BY <2>2, <2>3, RecordedFacts
<1> QED BY <1>1, <1>2

-----------------------------------------------------------------------------
(* What lots cost *)

LEMMA CostIsSum ==
  ASSUME NEW f, NEW prices, NEW g, g = [t \in DOMAIN f |-> f[t] * prices[t]]
  PROVE  Cost(f, prices) = SumFunctionOnSet(g, DOMAIN f)
<1>1. DOMAIN g = DOMAIN f
  OBVIOUS
<1>2. Cost(f, prices) = SumFunctionOnSet(g, DOMAIN g)
  BY DEF Cost, FoldFunction, SumFunctionOnSet
<1> QED BY <1>1, <1>2

LEMMA CostFacts ==
  ASSUME NEW f, Parts(f), NEW prices \in [Tickers -> Nat \ {0}]
  PROVE  Cost(f, prices) \in Nat
<1>1. PICK g : g = [t \in DOMAIN f |-> f[t] * prices[t]]
  OBVIOUS
<1>2. DOMAIN f \subseteq Tickers /\ IsFiniteSet(DOMAIN f) /\ \A t \in DOMAIN f : f[t] \in Nat
  BY PartsFacts
<1>3. ASSUME NEW t \in DOMAIN f PROVE g[t] \in Nat
  <2>1. f[t] \in Nat /\ prices[t] \in Nat
    BY <1>2
  <2>2. f[t] * prices[t] \in Nat
    BY <2>1, ProductIsNat
  <2> QED BY <1>1, <2>2
<1>4. SumFunctionOnSet(g, DOMAIN f) \in Nat
  BY <1>2, <1>3, SumIsNat
<1> QED BY <1>1, <1>4, CostIsSum

LEMMA RestrictFacts ==
  ASSUME NEW f, Parts(f), NEW D, D \subseteq DOMAIN f
  PROVE  /\ Parts(Restrict(f, D)) /\ DOMAIN Restrict(f, D) = D /\ \A t \in D : Restrict(f, D)[t] = f[t]
<1>1. PICK g : g = Restrict(f, D)
  OBVIOUS
<1>2. g = [t \in D |-> f[t]]
  BY <1>1 DEF Restrict
<1>3. DOMAIN g = D /\ \A t \in D : g[t] = f[t]
  BY <1>2
<1>4. D \subseteq Tickers /\ \A t \in D : g[t] \in Nat
  BY <1>3, PartsFacts
<1>5. g = [t \in D |-> g[t]]
  BY <1>2, <1>3
<1>6. Parts(g)
  BY <1>3, <1>4, <1>5, PartsOf
<1> QED BY <1>1, <1>3, <1>6

\* Selling some of the holdings and keeping the others.
LEMMA CostSplits ==
  ASSUME NEW f, Parts(f), NEW D, D \subseteq DOMAIN f, NEW prices \in [Tickers -> Nat \ {0}]
  PROVE  Cost(f, prices) = Cost(Restrict(f, D), prices) + Cost(Restrict(f, DOMAIN f \ D), prices)
<1>1. PICK g : g = [t \in DOMAIN f |-> f[t] * prices[t]]
  OBVIOUS
<1>2. DOMAIN f \subseteq Tickers /\ IsFiniteSet(DOMAIN f) /\ \A t \in DOMAIN f : f[t] \in Nat
  BY PartsFacts
<1>3. \A t \in DOMAIN f : g[t] \in Int
  <2> SUFFICES ASSUME NEW t \in DOMAIN f PROVE g[t] \in Int
    OBVIOUS
  <2>1. f[t] \in Nat /\ prices[t] \in Nat
    BY <1>2
  <2>2. f[t] * prices[t] \in Int
    BY <2>1
  <2> QED BY <1>1, <2>2
<1>4. ASSUME NEW E, E \subseteq DOMAIN f
      PROVE  Cost(Restrict(f, E), prices) = SumFunctionOnSet(g, E) /\ IsFiniteSet(E)
  <2>1. PICK r : r = Restrict(f, E)
    OBVIOUS
  <2>2. DOMAIN r = E /\ \A t \in E : r[t] = f[t]
    BY <1>4, <2>1, RestrictFacts
  <2>3. PICK h : h = [t \in DOMAIN r |-> r[t] * prices[t]]
    OBVIOUS
  <2>4. IsFiniteSet(E)
    BY <1>2, <1>4, SomeTickers
  <2>5. \A t \in E : h[t] = g[t]
    BY <1>1, <1>4, <2>2, <2>3
  <2>6. Cost(r, prices) = SumFunctionOnSet(h, E)
    BY <2>2, <2>3, CostIsSum
  <2>7. SumFunctionOnSet(h, E) = SumFunctionOnSet(g, E)
    BY <2>4, <2>5, SumOfEqual
  <2> QED BY <2>1, <2>4, <2>6, <2>7
<1>5. PICK E : E = DOMAIN f \ D
  OBVIOUS
<1>6. E \subseteq DOMAIN f /\ D \cap E = {} /\ D \cup E = DOMAIN f
  BY <1>5
<1>7. IsFiniteSet(D) /\ IsFiniteSet(E) /\ \A t \in D \cup E : g[t] \in Int
  BY <1>3, <1>4, <1>6
<1>8. SumFunctionOnSet(g, D \cup E) = SumFunctionOnSet(g, D) + SumFunctionOnSet(g, E)
  BY <1>6, <1>7, SumOfUnion
<1>9. Cost(f, prices) = SumFunctionOnSet(g, DOMAIN f)
  BY <1>1, CostIsSum
<1>10. Cost(Restrict(f, D), prices) = SumFunctionOnSet(g, D) /\ Cost(Restrict(f, E), prices) = SumFunctionOnSet(g, E)
  BY <1>4, <1>6
<1> QED BY <1>5, <1>6, <1>8, <1>9, <1>10

\* Terms of nought add nothing.
LEMMA SumExtended ==
  ASSUME NEW U, IsFiniteSet(U), NEW S, S \subseteq U, NEW g, \A t \in U : g[t] \in Int, \A t \in U \ S : g[t] = 0
  PROVE  SumFunctionOnSet(g, U) = SumFunctionOnSet(g, S)
<1>1. PICK R : R = U \ S
  OBVIOUS
<1>2. R \in SUBSET U /\ S \in SUBSET U /\ S \cap R = {} /\ S \cup R = U
  BY <1>1
<1>3. IsFiniteSet(R) /\ IsFiniteSet(S) /\ \A t \in S \cup R : g[t] \in Int
  BY <1>2, FS_Subset
<1>4. SumFunctionOnSet(g, S \cup R) = SumFunctionOnSet(g, S) + SumFunctionOnSet(g, R)
  BY <1>2, <1>3, SumOfUnion
<1>5. SumFunctionOnSet(g, R) = 0
  BY <1>1, <1>3, SumOfZeros
<1>6. PICK x \in Int : x = SumFunctionOnSet(g, S)
  BY <1>2, <1>3, SumIsInt
<1>7. SumFunctionOnSet(g, S \cup R) = x
  BY <1>4, <1>5, <1>6
<1>8. S \cup R = U
  BY <1>2
<1> QED BY <1>6, <1>7, <1>8, Zenon

Amount(f, t) == IF t \in DOMAIN f THEN f[t] ELSE 0

\* Lots bought join the lots held.
LEMMA CostAdds ==
  ASSUME NEW f, Parts(f), NEW l, Parts(l), NEW h, h = [t \in DOMAIN f \cup DOMAIN l |-> Amount(f, t) + Amount(l, t)],
         NEW prices \in [Tickers -> Nat \ {0}]
  PROVE  Parts(h) /\ Cost(h, prices) = Cost(f, prices) + Cost(l, prices)
<1>1. PICK U : U = DOMAIN f \cup DOMAIN l
  OBVIOUS
<1>2. U \subseteq Tickers /\ IsFiniteSet(U) /\ DOMAIN h = U
  <2>1. U \subseteq Tickers
    BY <1>1, PartsFacts
  <2> QED BY <1>1, <2>1, SomeTickers
<1>3. \A t \in U : Amount(f, t) \in Nat /\ Amount(l, t) \in Nat
  BY PartsFacts DEF Amount
<1>4. Parts(h)
  <2>1. \A t \in U : h[t] \in Nat
    BY <1>1, <1>3
  <2>2. h = [t \in U |-> h[t]]
    BY <1>1
  <2> QED BY <1>2, <2>1, <2>2, PartsOf
<1>5. PICK a : a = [t \in U |-> Amount(f, t) * prices[t]]
  OBVIOUS
<1>6. PICK b : b = [t \in U |-> Amount(l, t) * prices[t]]
  OBVIOUS
<1>7. PICK c : c = [t \in DOMAIN h |-> h[t] * prices[t]]
  OBVIOUS
<1>8. ASSUME NEW t \in U PROVE a[t] \in Int /\ b[t] \in Int /\ c[t] = a[t] + b[t]
  <2>1. PICK x \in Nat : x = Amount(f, t)
    BY <1>3
  <2>2. PICK y \in Nat : y = Amount(l, t)
    BY <1>3
  <2>3. PICK p \in Nat : p = prices[t]
    BY <1>2
  <2>4. a[t] = x * p /\ b[t] = y * p
    BY <1>5, <1>6, <2>1, <2>2, <2>3
  <2>5. h[t] = x + y
    BY <1>1, <2>1, <2>2
  <2>6. c[t] = (x + y) * p
    BY <1>2, <1>7, <2>3, <2>5
  <2>7. (x + y) * p = x * p + y * p /\ x * p \in Int /\ y * p \in Int
    OBVIOUS
  <2> QED BY <2>4, <2>6, <2>7
<1>9. SumFunctionOnSet(c, U) = SumFunctionOnSet(a, U) + SumFunctionOnSet(b, U)
  BY <1>2, <1>8, SumAdds
<1>10. ASSUME NEW k, Parts(k), DOMAIN k \subseteq U, NEW d, d = [t \in U |-> Amount(k, t) * prices[t]],
              \A t \in U : d[t] \in Int
       PROVE  SumFunctionOnSet(d, U) = Cost(k, prices)
  <2>1. PICK e : e = [t \in DOMAIN k |-> k[t] * prices[t]]
    OBVIOUS
  <2>2. \A t \in DOMAIN k : e[t] = d[t]
    BY <1>10, <2>1 DEF Amount
  <2>3. \A t \in U \ DOMAIN k : d[t] = 0
    <3> SUFFICES ASSUME NEW t \in U \ DOMAIN k PROVE d[t] = 0
      OBVIOUS
    <3>1. Amount(k, t) = 0 /\ prices[t] \in Nat
      BY <1>2 DEF Amount
    <3>2. d[t] = 0 * prices[t]
      BY <1>10, <3>1
    <3> QED BY <3>1, <3>2
  <2>4. SumFunctionOnSet(d, U) = SumFunctionOnSet(d, DOMAIN k)
    BY <1>2, <1>10, <2>3, SumExtended
  <2>5. IsFiniteSet(DOMAIN k)
    BY <1>10, PartsFacts
  <2>6. SumFunctionOnSet(e, DOMAIN k) = SumFunctionOnSet(d, DOMAIN k)
    BY <2>2, <2>5, SumOfEqual
  <2>7. Cost(k, prices) = SumFunctionOnSet(e, DOMAIN k)
    BY <2>1, CostIsSum
  <2> QED BY <2>4, <2>6, <2>7
<1>11. SumFunctionOnSet(a, U) = Cost(f, prices)
  BY <1>1, <1>5, <1>8, <1>10
<1>12. SumFunctionOnSet(b, U) = Cost(l, prices)
  BY <1>1, <1>6, <1>8, <1>10
<1>13. SumFunctionOnSet(c, U) = Cost(h, prices)
  BY <1>2, <1>7, CostIsSum, ZenonT(60)
<1> QED BY <1>4, <1>9, <1>11, <1>12, <1>13

-----------------------------------------------------------------------------
(* What a step leaves alone *)

LEMMA ScheduleStands == ASSUME config' = config PROVE Points' = Points
BY DEF Points, Schedule, SignalSessions, MonthEnds, MonthStarts

LEMMA SplitStands == ASSUME config' = config, NEW k PROVE SplitCredit(k)' = SplitCredit(k) /\ Execution(k)' = Execution(k)
<1>1. Points' = Points
  BY ScheduleStands
<1> QED BY <1>1 DEF SplitCredit, Execution

LEMMA PriorStands == ASSUME UNCHANGED snapshots, NEW k PROVE Prior(k)' = Prior(k)
BY DEF Prior

\* A recorded entry depends on its snapshot and the one before.
LEMMA EntryStands ==
  ASSUME NEW k, Entry(k), UNCHANGED <<config, lives>>, snapshots'[k] = snapshots[k], Prior(k)' = Prior(k)
  PROVE  Entry(k)'
<1>1. GoneFrom(k)' = GoneFrom(k) /\ Converted(k)' = Converted(k)
  BY DEF GoneFrom, Converted
<1>2. SplitCredit(k)' = SplitCredit(k) /\ Execution(k)' = Execution(k)
  BY SplitStands
<1>3. Explained(k)'
  <2>1. Explained(k)
    BY DEF Entry
  <2> QED BY <1>1, <2>1 DEF Explained, Worth
<1>4. Carried(k)'
  <2>1. Carried(k)
    BY DEF Entry
  <2> QED BY <1>2, <2>1 DEF Carried
<1>5. Opened(k)'
  <2>1. Opened(k)
    BY DEF Entry
  <2> QED BY <1>2, <2>1 DEF Opened
<1>6. Funded(k)'
  <2>1. Funded(k)
    BY DEF Entry
  <2> QED BY <1>2, <2>1 DEF Funded
<1> QED BY <1>3, <1>4, <1>5, <1>6 DEF Entry

LEMMA HistoryStands ==
  ASSUME History, UNCHANGED <<config, lives, snapshots>>
  PROVE  History'
<1> SUFFICES ASSUME NEW k \in 1 .. Len(snapshots) PROVE Entry(k)'
  BY DEF History
<1>1. Entry(k)
  BY DEF History
<1>2. snapshots'[k] = snapshots[k] /\ Prior(k)' = Prior(k)
  BY PriorStands
<1> QED BY <1>1, <1>2, EntryStands

LEMMA TypedStands ==
  ASSUME AllocTyped, stage' \in Stages,
         UNCHANGED <<config, lives, point, market, signal, mix, contribution, investable, books>>
  PROVE  AllocTyped'
BY DEF AllocTyped, books, WellConfigured, MixOK

LEMMA ProgressStands ==
  ASSUME Progress, UNCHANGED <<config, point, snapshots>>, stage' \notin {"check", "shape"},
         stage' \in Running => stage \in Running, stage' = "failed" \/ stage \notin {"check", "failed"}
  PROVE  Progress'
<1>1. Points' = Points
  BY ScheduleStands
<1> QED BY <1>1 DEF Progress, Admitted

LEMMA ShapedStands ==
  ASSUME Shaped, UNCHANGED <<config, shapedCredits, drift>>, stage' \notin {"check", "shape"},
         stage' \in Running => stage \in Running
  PROVE  Shaped'
<1>1. Points' = Points
  BY ScheduleStands
<1>2. Left' = Left
  BY <1>1 DEF Left
<1> QED BY <1>2 DEF Shaped, Reserve, Debt

LEMMA LedgerStands ==
  ASSUME Ledger, UNCHANGED <<point, books>>, (stage \in Idle /\ stage' \in Idle) \/ stage' = "failed"
  PROVE  Ledger'
<1>1. Prior(point)' = Prior(point)
  BY PriorStands DEF books
<1> QED BY <1>1 DEF Ledger, Idle, books

LEMMA StockStands ==
  ASSUME StockCapped, UNCHANGED <<config, reserve, contribution>>
  PROVE  StockCapped'
BY DEF StockCapped

LEMMA DustStands ==
  ASSUME Dust, UNCHANGED <<snapshots, cashUsd, market, mix>>,
         stage' \in {"settle", "finish", "done"} => stage \in {"settle", "finish", "done"} \/ snapshots = <<>>
  PROVE  Dust'
<1>1. Converted(Len(snapshots))' = Converted(Len(snapshots))
  <2>1. Prior(Len(snapshots))' = Prior(Len(snapshots))
    BY DEF Prior
  <2> QED BY <2>1 DEF Converted
<1>2. CASE stage' \notin {"settle", "finish", "done"}
  BY <1>2 DEF Dust
<1>3. CASE snapshots = <<>>
  BY <1>3 DEF Dust
<1>4. CASE stage \in {"settle", "finish", "done"} /\ stage' \in {"settle", "finish", "done"}
  BY <1>1, <1>4 DEF Dust, MapThenSumSet, MapThenFoldSet
<1> QED BY <1>2, <1>3, <1>4

LEMMA ReplayStands ==
  ASSUME Replayed, stage # "done", replay' = replay
  PROVE  Replayed'
BY DEF Replayed

\* A run may fail at any point.
LEMMA Failing ==
  ASSUME AllocInv, stage # "done", stage' = "failed",
         UNCHANGED <<config, lives, point, shapedCredits, drift, market, signal, mix, incumbents,
                     contribution, investable, books, replay>>
  PROVE  AllocInv'
<1> USE DEF AllocInv
<1>0. UNCHANGED <<config, lives, point, shapedCredits, drift, market, signal, mix, contribution, investable, books, replay>>
  OBVIOUS
<1>1. UNCHANGED <<config, lives, snapshots>> /\ UNCHANGED <<config, point, snapshots>>
      /\ UNCHANGED <<config, shapedCredits, drift>> /\ UNCHANGED <<point, books>>
      /\ UNCHANGED <<config, reserve, contribution>> /\ UNCHANGED <<snapshots, cashUsd, market, mix>>
  BY <1>0 DEF books
<1>2. stage' \in Stages /\ stage' \notin Running
  BY DEF Stages, Idle, Running
<1>3. AllocTyped'
  BY <1>0, <1>2, TypedStands
<1>4. Progress' /\ Shaped'
  BY <1>1, <1>2, ProgressStands, ShapedStands
<1>5. Ledger' /\ History'
  BY <1>1, LedgerStands, HistoryStands
<1>6. StockCapped' /\ Dust'
  BY <1>1, StockStands, DustStands
<1>7. Replayed'
  BY ReplayStands
<1> QED BY <1>3, <1>4, <1>5, <1>6, <1>7

-----------------------------------------------------------------------------
(* The steps *)

\* One more entry of a list of numbers.
LEMMA SumAppended ==
  ASSUME NEW S, S \subseteq Int, NEW s \in Seq(S), NEW e \in S
  PROVE  /\ Append(s, e) \in Seq(S) /\ Len(Append(s, e)) = Len(s) + 1 /\ Len(s) \in Nat
         /\ SumFunctionOnSet(Append(s, e), 1 .. Len(s) + 1) = SumFunctionOnSet(s, 1 .. Len(s)) + e
<1>1. PICK n \in Nat : n = Len(s)
  OBVIOUS
<1>2. PICK a : a = Append(s, e)
  OBVIOUS
<1>3. a \in Seq(S) /\ Len(a) = n + 1 /\ a[n + 1] = e /\ \A k \in 1 .. n : a[k] = s[k]
  BY <1>1, <1>2
<1>4. \A k \in 1 .. n : s[k] \in Int
  <2>1. \A k \in 1 .. n : s[k] \in S
    BY <1>1
  <2> QED BY <2>1
<1>5. IsFiniteSet(1 .. n) /\ n + 1 \notin 1 .. n /\ (1 .. n) \cup {n + 1} = 1 .. n + 1
  <2>1. 1 \in Int /\ n \in Int
    OBVIOUS
  <2>2. IsFiniteSet(1 .. n)
    BY <2>1, FS_Interval
  <2> QED BY <2>2
<1>6. \A k \in (1 .. n) \cup {n + 1} : a[k] \in Int
  BY <1>3, <1>4
<1>7. SumFunctionOnSet(a, (1 .. n) \cup {n + 1}) = SumFunctionOnSet(a, 1 .. n) + a[n + 1]
  BY <1>5, <1>6, SumOfMore, ZenonT(60)
<1>8. SumFunctionOnSet(a, 1 .. n) = SumFunctionOnSet(s, 1 .. n)
  BY <1>3, <1>5, SumOfEqual
<1>9. SumFunctionOnSet(a, 1 .. n + 1) = SumFunctionOnSet(s, 1 .. n) + e
  BY <1>3, <1>5, <1>7, <1>8
<1> QED BY <1>1, <1>2, <1>3, <1>9

LEMMA MarketIsQuote == ASSUME NEW m \in Markets PROVE m \in Quotes
BY MarketsAssumption DEF Quotes

LEMMA ReachFacts ==
  ASSUME NEW left \in Nat
  PROVE  Reserve(left) \in Nat /\ Debt(left) \in Nat /\ (left = 0 => Reserve(left) = 0 /\ Debt(left) = 0)
<1>1. PICK v \in Nat : v = SmallerOf(left, ShapeLaw.window - 1) /\ (left = 0 => v = 0)
  BY ShapeParameters DEF SmallerOf
<1>2. PICK d \in Nat : d = SaveDown
  BY ShapeParameters
<1>3. PICK c \in Nat : c = CatchUp
  BY ShapeParameters
<1>4. v * d \in Nat /\ left * c \in Nat
  BY ProductIsNat
<1>5. left = 0 => v * d = 0 /\ left * c = 0
  BY <1>1
<1> QED BY <1>1, <1>2, <1>3, <1>4, <1>5 DEF Reserve, Debt

LEMMA AllocInitial == AllocationInit => AllocInv
<1> SUFFICES ASSUME AllocationInit PROVE AllocInv
  OBVIOUS
<1> USE DEF AllocationInit
<1>1. WellConfigured(config)
  BY LockedFacts
<1>2. Len(Points) \in Nat \ {0}
  BY <1>1, PointsFacts
<1>3. signal \in Signals
  BY SignalsAssumption
<1>4. market \in Quotes
  <2>1. market \in Markets
    BY MarketsAssumption
  <2> QED BY <2>1, MarketIsQuote
<1>5. shares \in Holdings /\ snapshots \in Seq(Recorded) /\ Len(snapshots) = 0
  BY NoParts, HoldingsAreParts
<1>6. AllocTyped
  <2>1. stage \in Stages
    BY DEF Stages, Idle
  <2>2. lives \in [Tickers -> [first : Int, last : Int]]
    BY MarketsAssumption
  <2> QED BY <1>1, <1>3, <1>4, <1>5, <2>1, <2>2, NoMixIsMix DEF AllocTyped
<1>7. Progress
  BY <1>2, <1>5 DEF Progress, Running
<1>8. Shaped
  <2>1. shapedCredits \in Seq(Least .. Most) /\ Len(shapedCredits) = 0
    OBVIOUS
  <2>2. Left \in Nat /\ Left = Len(Points)
    BY <1>2, <2>1 DEF Left
  <2>3. Reserve(Left) \in Nat /\ Debt(Left) \in Nat
    BY <2>2, ReachFacts
  <2>4. 1 .. 0 = {}
    OBVIOUS
  <2>5. SumFunctionOnSet(shapedCredits, 1 .. 0) = 0
    BY <2>4, SumOfNone
  <2>6. Base \in Nat
    BY Parameters
  <2> QED BY <2>1, <2>2, <2>3, <2>5, <2>6 DEF Shaped, Running
<1>9. Ledger
  <2>1. PICK r : r = [shares |-> <<>>, cashKrw |-> 0, cashUsd |-> 0, reserve |-> 0]
    OBVIOUS
  <2>2. r.shares = <<>> /\ r.cashKrw = 0 /\ r.cashUsd = 0 /\ r.reserve = 0
    BY <2>1
  <2>3. Prior(point) = r
    BY <2>1 DEF Prior
  <2> QED BY <2>2, <2>3 DEF Ledger
<1>10. History
  BY <1>5 DEF History
<1>11. StockCapped
  BY ReserveParameters DEF StockCapped
<1>12. Dust /\ Replayed
  BY DEF Dust, Replayed
<1> QED BY <1>6, <1>7, <1>8, <1>9, <1>10, <1>11, <1>12 DEF AllocInv

LEMMA AllocCheckConfig == ASSUME AllocInv, CheckConfig PROVE AllocInv'
<1> USE DEF AllocInv
<1>1. stage = "check" /\ UNCHANGED <<config, lives, point, shapedCredits, drift, market, signal, mix, incumbents,
                                    contribution, investable, books, replay>>
  BY DEF CheckConfig
<1>2. CASE ~Admitted(config)
  <2>1. stage' = "failed" /\ stage # "done"
    BY <1>1, <1>2 DEF CheckConfig
  <2> QED BY <1>1, <2>1, Failing
<1>3. CASE Admitted(config)
  <2>1. stage' = IF "shape" \in config.modules THEN "shape" ELSE "settle"
    BY <1>3 DEF CheckConfig
  <2>2. UNCHANGED <<config, lives, point, market, signal, mix, contribution, investable, books>>
        /\ UNCHANGED <<config, lives, snapshots>> /\ UNCHANGED <<config, point, snapshots>>
        /\ UNCHANGED <<config, shapedCredits, drift>> /\ UNCHANGED <<point, books>>
        /\ UNCHANGED <<config, reserve, contribution>> /\ UNCHANGED <<snapshots, cashUsd, market, mix>> /\ replay' = replay
    BY <1>1 DEF books
  <2>3. stage' \in Stages /\ stage' \in Idle
    BY <2>1 DEF Stages, Idle
  <2>4. AllocTyped'
    BY <2>2, <2>3, TypedStands
  <2>5. point = 1 /\ snapshots = <<>> /\ Len(Points) \in Nat \ {0}
    BY <1>1, PointsFacts DEF Progress, AllocTyped
  <2>6. Progress'
    <3>1. Points' = Points
      BY <2>2, ScheduleStands
    <3> QED BY <1>3, <2>2, <2>5, <3>1 DEF Progress, Admitted
  <2>7. Shaped'
    <3>1. Points' = Points
      BY <2>2, ScheduleStands
    <3>2. Left' = Left /\ shapedCredits = <<>>
      BY <1>1, <2>2, <3>1 DEF Left, Shaped
    <3>3. Left # 0
      BY <2>5, <3>2 DEF Left
    <3> QED BY <2>1, <2>2, <3>2, <3>3 DEF Shaped, Reserve, Debt, Running
  <2>8. Ledger' /\ History'
    <3>1. stage \in Idle
      BY <1>1 DEF Idle
    <3> QED BY <2>2, <2>3, <3>1, LedgerStands, HistoryStands
  <2>9. StockCapped' /\ Dust'
    BY <2>2, <2>5, StockStands, DustStands
  <2>10. Replayed'
    BY <1>1, <2>2, ReplayStands
  <2> QED BY <2>4, <2>6, <2>7, <2>8, <2>9, <2>10
<1> QED BY <1>2, <1>3

LEMMA AllocShapeCredit == ASSUME AllocInv, ShapeCredit PROVE AllocInv'
<1> USE DEF AllocInv
<1>1. stage = "shape" /\ UNCHANGED <<config, lives, point, market, signal, mix, contribution, investable, books>>
      /\ replay' = replay
  BY DEF ShapeCredit
<1>2. UNCHANGED <<config, lives, snapshots>> /\ UNCHANGED <<config, point, snapshots>> /\ UNCHANGED <<point, books>>
      /\ UNCHANGED <<config, reserve, contribution>> /\ UNCHANGED <<snapshots, cashUsd, market, mix>>
  BY <1>1 DEF books
<1>3. PICK left \in Nat \ {0} : left = Left
  BY <1>1 DEF Shaped
<1>4. PICK n \in Nat : n = Len(shapedCredits)
  BY DEF Shaped
<1>5. Len(Points) = n + left
  <2>1. Len(Points) \in Nat
    BY PointsFacts DEF AllocTyped
  <2> QED BY <1>3, <1>4, <2>1 DEF Left
<1>6. PICK s \in Signals :
        LET corridor == ShapeCorridor(Base, drift, left)
            credit   == ShapedCredit(Base, s.score, corridor)
        IN IF corridor.lower > corridor.upper
           THEN stage' = "infeasible" /\ UNCHANGED <<shapedCredits, drift>>
           ELSE /\ shapedCredits' = Append(shapedCredits, credit)
                /\ drift' = drift + credit - Base
                /\ stage' = IF left = 1 THEN "settle" ELSE "shape"
  BY <1>3 DEF ShapeCredit, Left
<1>7. PICK corridor : corridor = ShapeCorridor(Base, drift, left)
  OBVIOUS
<1>8. PICK credit : credit = ShapedCredit(Base, s.score, corridor)
  OBVIOUS
<1>9. /\ corridor.lower =< corridor.upper /\ credit \in Least .. Most
      /\ drift + credit - Base =< Reserve(left - 1) /\ -Debt(left - 1) =< drift + credit - Base
  <2>1. s.score \in 0 .. 100
    BY SignalsAssumption
  <2>2. drift \in Int /\ drift =< Reserve(left) /\ -Debt(left) =< drift
    BY <1>3 DEF Shaped
  <2> QED BY <1>7, <1>8, <2>1, <2>2, CorridorOpen
<1>10. ~ (corridor.lower > corridor.upper)
  <2>1. corridor.lower \in Int /\ corridor.upper \in Int
    <3>1. LargerOf(Percent(Base, ShapeLaw.min), Base - drift - (left - 1) * Percent(Base, ShapeLaw.max - 100)) \in Int
      <4>1. PICK a \in Int : a = Percent(Base, ShapeLaw.min)
        BY ShapeParameters DEF Least
      <4>2. PICK b \in Int : b = Percent(Base, ShapeLaw.max - 100)
        BY ShapeParameters DEF CatchUp
      <4>3. PICK d \in Int : d = drift
        BY DEF Shaped
      <4>4. Base \in Int
        BY ShapeParameters
      <4>5. PICK x \in Int : x = Base - d - (left - 1) * b
        BY <4>4
      <4> QED BY <4>1, <4>2, <4>3, <4>5 DEF LargerOf
    <3>2. SmallerOf(Percent(Base, ShapeLaw.max),
                    Base - drift + SmallerOf(left - 1, SmallerOf(ShapeLaw.window, left) - 1) * Percent(Base, 100 - ShapeLaw.min)) \in Int
      <4>1. PICK a \in Int : a = Percent(Base, ShapeLaw.max)
        BY ShapeParameters DEF Most
      <4>2. PICK b \in Int : b = Percent(Base, 100 - ShapeLaw.min)
        BY ShapeParameters DEF SaveDown
      <4>3. PICK d \in Int : d = drift
        BY DEF Shaped
      <4>4. Base \in Int
        BY ShapeParameters
      <4>5. PICK v \in Int : v = SmallerOf(left - 1, SmallerOf(ShapeLaw.window, left) - 1)
        BY ShapeParameters DEF SmallerOf
      <4>6. PICK x \in Int : x = Base - d + v * b
        <5>1. Base - d + v * b \in Int
          BY <4>4
        <5> QED BY <5>1
      <4> QED BY <4>1, <4>2, <4>3, <4>5, <4>6 DEF SmallerOf
    <3> QED BY <1>7, <3>1, <3>2 DEF ShapeCorridor
  <2> QED BY <1>9, <2>1
<1>11. shapedCredits' = Append(shapedCredits, credit) /\ drift' = drift + credit - Base
       /\ stage' = IF left = 1 THEN "settle" ELSE "shape"
  BY <1>6, <1>7, <1>8, <1>10
<1>12. stage' \in Stages /\ stage' \in Idle /\ stage \in Idle
  BY <1>1, <1>11 DEF Stages, Idle
<1>13. AllocTyped'
  BY <1>1, <1>12, TypedStands
<1>14. Points' = Points
  BY <1>1, ScheduleStands
<1>15. point = 1 /\ snapshots = <<>> /\ Len(Points) \in Nat \ {0}
  BY <1>1, PointsFacts DEF Progress, AllocTyped
<1>16. Progress'
  BY <1>1, <1>2, <1>11, <1>14, <1>15 DEF Progress, Admitted
<1>17. Shaped'
  <2>1. Least .. Most \subseteq Int /\ shapedCredits \in Seq(Least .. Most)
    BY DEF Shaped
  <2>2. /\ shapedCredits' \in Seq(Least .. Most) /\ Len(shapedCredits') = n + 1
        /\ SumFunctionOnSet(shapedCredits', 1 .. n + 1) = SumFunctionOnSet(shapedCredits, 1 .. n) + credit
    BY <1>4, <1>9, <1>11, <2>1, SumAppended
  <2>3. Left' = left - 1 /\ left - 1 \in Nat
    BY <1>5, <1>14, <2>2 DEF Left
  <2>4. PICK b \in Nat : b = Base
    BY ShapeParameters
  <2>5. PICK c \in Int : c = credit
    BY <1>9
  <2>6. drift \in Int /\ SumFunctionOnSet(shapedCredits, 1 .. n) = drift + n * b
    BY <1>4, <2>4 DEF Shaped
  <2>7. SumFunctionOnSet(shapedCredits', 1 .. n + 1) = drift' + (n + 1) * b /\ drift' \in Int
    <3>1. drift' = drift + c - b
      BY <1>11, <2>4, <2>5
    <3>2. (n + 1) * b = n * b + b /\ n * b \in Int
      OBVIOUS
    <3> QED BY <2>2, <2>5, <2>6, <3>1, <3>2
  <2>8. drift' =< Reserve(Left)' /\ -(Debt(Left)') =< drift'
    BY <1>9, <1>11, <2>3 DEF Reserve, Debt
  <2>9. stage' # "check" /\ (stage' = "shape" => Left' # 0) /\ (stage' \in Running => Left' = 0)
    BY <1>11, <2>3 DEF Running
  <2> QED BY <2>2, <2>3, <2>4, <2>7, <2>8, <2>9 DEF Shaped
<1>18. Ledger' /\ History'
  BY <1>2, <1>12, LedgerStands, HistoryStands
<1>19. StockCapped' /\ Dust'
  BY <1>2, <1>15, StockStands, DustStands
<1>20. Replayed'
  BY <1>1, ReplayStands
<1> QED BY <1>13, <1>16, <1>17, <1>18, <1>19, <1>20

LEMMA PointStands ==
  ASSUME UNCHANGED <<config, lives, point, snapshots>>
  PROVE  Prior(point)' = Prior(point) /\ Execution(point)' = Execution(point) /\ Ending' = Ending
<1>1. Prior(point)' = Prior(point)
  BY DEF Prior
<1>2. Execution(point)' = Execution(point)
  BY ScheduleStands DEF Execution
<1> QED BY <1>1, <1>2 DEF Ending, Ended

\* A close is the session's, or one that an earlier session saw.
LEMMA QuotedIsQuote == ASSUME AllocTyped, NEW m \in Markets PROVE Quoted(m) \in Quotes
<1>1. m \in Quotes
  BY MarketIsQuote
<1>2. ASSUME NEW t \in Tickers, NEW k \in DOMAIN snapshots
      PROVE  snapshots[k].market.close[t] \in Nat \ {0}
  <2>1. snapshots[k] \in Recorded
    BY DEF AllocTyped
  <2>2. snapshots[k].market \in Quotes
    BY <2>1, RecordedFacts
  <2>3. snapshots[k].market.close \in [Tickers -> Nat \ {0}]
    BY <2>2, MarketFacts
  <2> QED BY <2>3
<1> DEFINE seen(t) == {k \in DOMAIN snapshots : Execution(k) = lives[t].last}
           last(t) == CHOOSE k \in seen(t) : TRUE
<1>3. PICK f : f = [t \in Tickers |-> IF Ended(t) /\ seen(t) # {}
                                       THEN snapshots[last(t)].market.close[t] ELSE m.close[t]]
  OBVIOUS
<1>4. ASSUME NEW t \in Tickers PROVE f[t] \in Nat \ {0}
  <2>1. CASE Ended(t) /\ seen(t) # {}
    <3>1. last(t) \in DOMAIN snapshots
      BY <2>1
    <3> HIDE DEF last
    <3>2. f[t] = snapshots[last(t)].market.close[t]
      BY <1>3, <2>1
    <3> QED BY <1>2, <3>1, <3>2
  <2>2. CASE ~ (Ended(t) /\ seen(t) # {})
    <3>1. f[t] = m.close[t]
      BY <1>3, <2>2
    <3> QED BY <1>1, <3>1, MarketFacts
  <2> QED BY <2>1, <2>2
<1>5. f \in [Tickers -> Nat \ {0}]
  <2>1. f = [t \in Tickers |-> f[t]]
    BY <1>3
  <2> QED BY <1>4, <2>1
<1>6. Quoted(m) = [m EXCEPT !.close = f]
  BY <1>3, Zenon DEF Quoted
<1>7. [m EXCEPT !.close = f] \in Quotes
  BY <1>1, <1>5 DEF Quotes
<1> QED BY <1>6, <1>7

LEMMA AllocSettleDelisted == ASSUME AllocInv, SettleDelisted PROVE AllocInv'
<1> USE DEF AllocInv
<1>1. stage = "settle" /\ stage' = "target"
      /\ UNCHANGED <<config, lives, point, shapedCredits, drift, mix, incumbents, contribution,
                     investable, cashKrw, reserve, snapshots, replay>>
  BY DEF SettleDelisted
<1>2. PICK m \in Markets, s \in Readable :
        LET quoted  == Quoted(m)
            settled == {t \in DOMAIN shares : config.membership /\ Ended(t)}
            gross   == Cost(Restrict(shares, settled), quoted.close)
        IN /\ market' = quoted /\ signal' = s
           /\ shares' = Restrict(shares, DOMAIN shares \ settled)
           /\ cashUsd' = cashUsd + gross - Percent(gross, Commission)
  BY DEF SettleDelisted
<1>3. s \in Signals
  BY DEF Readable, AllocTyped
<1>4. PICK quoted \in Quotes : quoted = Quoted(m)
  BY QuotedIsQuote
<1>5. shares = Prior(point).shares /\ cashUsd = Prior(point).cashUsd
      /\ cashKrw = Prior(point).cashKrw /\ reserve = Prior(point).reserve
  BY <1>1 DEF Ledger, Idle
<1>6. Prior(point)' = Prior(point) /\ Execution(point)' = Execution(point) /\ Ending' = Ending
  BY <1>1, PointStands
<1>7. PICK gross : gross = Cost(Restrict(shares, Ending), quoted.close)
  OBVIOUS
<1>8. /\ market' = quoted /\ signal' = s /\ shares' = Restrict(shares, DOMAIN shares \ Ending)
      /\ cashUsd' = cashUsd + gross - Percent(gross, Commission)
  BY <1>2, <1>4, <1>5, <1>7 DEF Ending
<1>9. Proceeds' = gross
  BY <1>5, <1>6, <1>7, <1>8 DEF Proceeds
<1>10. Parts(shares) /\ Ending \subseteq DOMAIN shares
  <2>1. Parts(shares)
    BY HoldingsAreParts DEF AllocTyped
  <2> QED BY <1>5, <2>1 DEF Ending
<1>11. shares' \in Holdings /\ gross \in Nat
  <2>1. Parts(Restrict(shares, Ending)) /\ Parts(Restrict(shares, DOMAIN shares \ Ending))
    <3>1. DOMAIN shares \ Ending \subseteq DOMAIN shares
      OBVIOUS
    <3> QED BY <1>10, <3>1, RestrictFacts
  <2>2. quoted.close \in [Tickers -> Nat \ {0}]
    BY MarketFacts
  <2> QED BY <1>7, <1>8, <2>1, <2>2, CostFacts, HoldingsAreParts
<1>12. cashUsd' \in Nat
  <2>1. Commission \in Nat /\ Commission =< 100
    BY Parameters
  <2>2. PICK fee \in Nat : fee = Percent(gross, Commission) /\ fee =< gross
    BY <1>11, <2>1, PercentFacts
  <2>3. cashUsd \in Nat
    BY DEF AllocTyped
  <2> QED BY <1>8, <1>11, <2>2, <2>3
<1>13. AllocTyped'
  BY <1>1, <1>3, <1>8, <1>11, <1>12 DEF AllocTyped, WellConfigured, MixOK, Stages, Running
<1>14. Progress' /\ Shaped'
  BY <1>1, ProgressStands, ShapedStands DEF Running
<1>15. Ledger'
  BY <1>1, <1>5, <1>6, <1>8, <1>9 DEF Ledger, Idle
<1>16. History'
  BY <1>1, HistoryStands
<1>17. StockCapped'
  BY <1>1, StockStands
<1>18. Dust' /\ Replayed'
  BY <1>1, ReplayStands DEF Dust
<1> QED BY <1>13, <1>14, <1>15, <1>16, <1>17, <1>18

LEMMA AllocResolveTargets == ASSUME AllocInv, ResolveTargets PROVE AllocInv'
<1> USE DEF AllocInv
<1>1. stage = "target" /\ stage' = "credit"
      /\ UNCHANGED <<config, lives, point, shapedCredits, drift, market, signal, contribution, investable,
                     books, replay>>
  BY DEF ResolveTargets
<1>2. UNCHANGED <<cashKrw, cashUsd, reserve, shares, snapshots>>
  BY <1>1 DEF books
<1>3. signal \in Signals
  BY DEF AllocTyped
<1>4. PICK base : base = BaseMix(signal)
  OBVIOUS
<1>5. MixOK(base) /\ DOMAIN base.parts \subseteq SleevesOf(signal)
  BY <1>3, <1>4, BaseIsMix
<1>6. PICK shifted : shifted = IF "overlay" \in config.modules
                                THEN BoundedOverlay(base, signal.signs, signal.alarm) ELSE base
  OBVIOUS
<1>7. MixOK(shifted) /\ DOMAIN shifted.parts \subseteq SleevesOf(signal)
  <2>1. \A q \in DOMAIN base.parts : signal.signs[q].trend \in Int
    BY <1>3, <1>5, SleeveFacts
  <2>2. /\ MixOK(BoundedOverlay(base, signal.signs, signal.alarm))
        /\ DOMAIN BoundedOverlay(base, signal.signs, signal.alarm).parts = DOMAIN base.parts
    BY <1>5, <2>1, OverlayIsMix
  <2> QED BY <1>5, <1>6, <2>2
<1>8. PICK choice : choice = [q \in DOMAIN shifted.parts |-> Implementation(q, signal.passing[q], incumbents)]
  OBVIOUS
<1>9. MixOK(MappedMix(shifted, choice))
  <2>1. \A q \in DOMAIN shifted.parts : choice[q] \in Tickers
    BY <1>3, <1>7, <1>8, SleeveFacts
  <2> QED BY <1>7, <2>1, MappingIsMix
<1>10. PICK mapped : mapped = IF "mapping" \in config.modules THEN MappedMix(shifted, choice) ELSE shifted
  OBVIOUS
<1>11. MixOK(mapped)
  BY <1>7, <1>9, <1>10
<1>12. PICK trading : trading = {t \in Tickers : Trades(t, Execution(point))}
  OBVIOUS
<1>13. mix' = IF config.membership THEN EligibleMix(mapped, trading) ELSE mapped
  BY <1>1, <1>4, <1>6, <1>8, <1>10, <1>12 DEF ResolveTargets
<1>14. MixOK(mix')
  BY <1>11, <1>13, EligibleIsMix
<1>15. config.membership => \A t \in DOMAIN mix'.parts : Trades(t, Execution(point))
  <2> SUFFICES ASSUME config.membership, NEW t \in DOMAIN mix'.parts PROVE Trades(t, Execution(point))
    OBVIOUS
  <2>1. mix' = EligibleMix(mapped, trading)
    BY <1>13
  <2>2. DOMAIN EligibleMix(mapped, trading).parts \subseteq trading
    BY <1>11, EligibleTrades
  <2> QED BY <1>12, <2>1, <2>2
<1>16. Prior(point)' = Prior(point) /\ Execution(point)' = Execution(point) /\ Ending' = Ending
  BY <1>1, <1>2, PointStands
<1>17. AllocTyped'
  BY <1>1, <1>2, <1>14 DEF AllocTyped, WellConfigured, MixOK, Stages, Running
<1>18. Progress' /\ Shaped'
  BY <1>1, <1>2, ProgressStands, ShapedStands DEF Running
<1>19. Ledger'
  <2>1. Proceeds' = Proceeds
    BY <1>1, <1>16 DEF Proceeds
  <2>2. \A t : Trades(t, Execution(point))' = Trades(t, Execution(point))
    BY <1>1, <1>16 DEF Trades
  <2> QED BY <1>1, <1>2, <1>15, <1>16, <2>1, <2>2 DEF Ledger, Idle
<1>20. History'
  BY <1>1, <1>2, HistoryStands
<1>21. StockCapped'
  BY <1>1, <1>2, StockStands
<1>22. Dust' /\ Replayed'
  BY <1>1, ReplayStands DEF Dust
<1> QED BY <1>17, <1>18, <1>19, <1>20, <1>21, <1>22

LEMMA ElementOf == ASSUME NEW S, NEW s \in Seq(S), NEW k \in 1 .. Len(s) PROVE s[k] \in S
OBVIOUS

LEMMA CreditIsNat ==
  ASSUME AllocInv, stage = "credit"
  PROVE  /\ CreditOf(signal) \in Nat
         /\ config.modules \cap {"shape", "adaptive"} = {} => CreditOf(signal) = SplitCredit(point)
<1> USE DEF AllocInv
<1>1. Admitted(config) /\ point \in 1 .. Len(Points)
  BY DEF Progress, AllocTyped, Running
<1>2. CASE "adaptive" \in config.modules
  <2>1. config.modules = {"adaptive"}
    BY <1>1, <1>2 DEF Admitted, Sizing
  <2>2. CreditOf(signal) = AdaptiveCredit(Base, signal.score)
    BY <1>2, <2>1 DEF CreditOf
  <2>3. signal.score \in 0 .. 100
    BY SignalsAssumption DEF AllocTyped
  <2> QED BY <1>2, <2>2, <2>3, AdaptiveIsNat
<1>3. CASE "adaptive" \notin config.modules /\ "shape" \in config.modules
  <2>1. CreditOf(signal) = shapedCredits[point]
    BY <1>3 DEF CreditOf
  <2>2. Left = 0 /\ shapedCredits \in Seq(Least .. Most)
    BY <1>3 DEF Shaped, Running
  <2>3. Len(Points) \in Nat /\ Len(shapedCredits) \in Nat
    BY <2>2, PointsFacts DEF AllocTyped
  <2>4. point \in 1 .. Len(shapedCredits)
    BY <1>1, <2>2, <2>3 DEF Left
  <2>5. shapedCredits[point] \in Least .. Most
    BY <2>2, <2>4, ElementOf
  <2>6. shapedCredits[point] \in Nat
    BY <2>5, ShapeParameters
  <2> QED BY <1>3, <2>1, <2>6
<1>4. CASE "adaptive" \notin config.modules /\ "shape" \notin config.modules
  <2>1. CreditOf(signal) = SplitCredit(point)
    BY <1>4 DEF CreditOf
  <2>2. WellConfigured(config)
    BY DEF AllocTyped
  <2> QED BY <1>1, <2>1, <2>2, SplitFacts
<1> QED BY <1>2, <1>3, <1>4

LEMMA AllocCreditContribution == ASSUME AllocInv, CreditContribution PROVE AllocInv'
<1> USE DEF AllocInv
<1>1. stage = "credit" /\ stage' = "buy"
      /\ UNCHANGED <<config, lives, point, shapedCredits, drift, market, signal, mix, incumbents, cashUsd,
                     shares, snapshots, replay>>
  BY DEF CreditContribution
<1>2. PICK c \in Nat : c = CreditOf(signal)
  BY <1>1, CreditIsNat
<1>3. PICK decision : decision = Deployed(c, signal)
  OBVIOUS
<1>4. PICK fraction : fraction = IF "currency" \in config.modules THEN ConversionFraction(signal.score) ELSE 100
  OBVIOUS
<1>5. /\ contribution' = c /\ cashKrw' = cashKrw + decision.investable /\ reserve' = decision.reserve
      /\ investable' = Percent(SmallerOf(cashKrw + decision.investable, decision.investable), fraction)
  BY <1>2, <1>3, <1>4 DEF CreditContribution
<1>6. /\ decision.investable \in Nat /\ decision.reserve \in Nat
      /\ decision.investable + decision.reserve = c + reserve
      /\ "kafi" \notin config.modules /\ config.schedule \in {"v2", "v3", "v4"} =>
           decision.reserve =< ReserveLaw.months * c
  <2>1. WellConfigured(config) /\ Admitted(config) /\ reserve \in Nat /\ signal \in Signals
    BY <1>1 DEF AllocTyped, Progress
  <2> QED BY <1>3, <2>1, DeploymentConserves DEF Conserves
<1>7. PICK inv \in Nat : inv = decision.investable
  BY <1>6
<1>8. cashKrw \in Nat /\ cashKrw = Prior(point).cashKrw /\ reserve = Prior(point).reserve /\ reserve \in Nat
  BY <1>1 DEF AllocTyped, Ledger
<1>9. investable' \in Nat /\ investable' =< inv
  <2>1. SmallerOf(cashKrw + inv, inv) = inv
    BY <1>8 DEF SmallerOf
  <2>2. fraction \in 0 .. 100
    <3>1. signal.score \in 0 .. 100
      BY SignalsAssumption DEF AllocTyped
    <3> QED BY <1>4, <3>1, ConversionFacts
  <2>3. PICK f \in Nat : f = fraction /\ f =< 100
    BY <2>2
  <2>4. Percent(inv, f) \in Nat /\ Percent(inv, f) =< inv
    BY <2>3, PercentFacts
  <2> QED BY <1>5, <1>7, <2>1, <2>3, <2>4
<1>10. Prior(point)' = Prior(point) /\ Execution(point)' = Execution(point) /\ Ending' = Ending
  BY <1>1, PointStands
<1>11. AllocTyped'
  <2>1. cashKrw' \in Nat /\ contribution' \in Nat /\ reserve' \in Nat
    BY <1>5, <1>6, <1>8
  <2> QED BY <1>1, <1>9, <2>1 DEF AllocTyped, WellConfigured, MixOK, Stages, Running
<1>12. Progress' /\ Shaped'
  BY <1>1, ProgressStands, ShapedStands DEF Running
<1>13. Ledger'
  <2>1. Proceeds' = Proceeds
    BY <1>1, <1>10 DEF Proceeds
  <2>2. \A t : Trades(t, Execution(point))' = Trades(t, Execution(point))
    BY <1>1, <1>10 DEF Trades
  <2>3. cashKrw' = Prior(point).cashKrw + contribution' + Prior(point).reserve - reserve'
    BY <1>5, <1>6, <1>8
  <2>4. Prior(point).cashKrw + investable' =< cashKrw'
    BY <1>5, <1>7, <1>8, <1>9
  <2>5. SplitCredit(point)' = SplitCredit(point)
    BY <1>1, ScheduleStands DEF SplitCredit
  <2>6. config.modules \cap {"shape", "adaptive"} = {} => contribution' = SplitCredit(point)
    BY <1>1, <1>2, <1>5, CreditIsNat
  <2> QED BY <1>1, <1>10, <2>1, <2>2, <2>3, <2>4, <2>5, <2>6 DEF Ledger, Idle
<1>14. History'
  BY <1>1, HistoryStands
<1>15. StockCapped'
  <2> SUFFICES ASSUME config.schedule \in {"v2", "v3", "v4"} PROVE reserve' =< ReserveLaw.months * c
    BY <1>1, <1>5 DEF StockCapped
  <2>1. "kafi" \notin config.modules
    <3>1. "reserve" \in config.modules
      BY DEF AllocTyped, WellConfigured
    <3>2. Admitted(config)
      BY <1>1 DEF Progress
    <3>3. "kafi" \in config.modules => config.modules = {"kafi"}
      BY <3>2 DEF Admitted, Sizing
    <3> QED BY <3>1, <3>3
  <2> QED BY <1>5, <1>6, <2>1
<1>16. Dust' /\ Replayed'
  BY <1>1, ReplayStands DEF Dust
<1> QED BY <1>11, <1>12, <1>13, <1>14, <1>15, <1>16

LEMMA AllocFailPoint == ASSUME AllocInv, FailPoint PROVE AllocInv'
BY Failing DEF FailPoint

LEMMA AllocAbort == ASSUME AllocInv, Abort PROVE AllocInv'
BY Failing DEF Abort

LEMMA AllocFinish == ASSUME AllocInv, Finish PROVE AllocInv'
<1>1. /\ stage = "finish" /\ stage' \in {"failed", "done"}
      /\ UNCHANGED <<config, lives, point, shapedCredits, drift, market, signal, mix, incumbents,
                     contribution, investable, books, replay>>
  BY DEF Finish
<1>2. CASE stage' = "failed"
  BY <1>1, <1>2, Failing
<1>3. CASE stage' = "done"
  <2> USE DEF AllocInv
  <2>1. UNCHANGED <<config, lives, snapshots>> /\ UNCHANGED <<config, point, snapshots>>
        /\ UNCHANGED <<config, shapedCredits, drift>> /\ UNCHANGED <<point, books>>
        /\ UNCHANGED <<config, reserve, contribution>> /\ UNCHANGED <<snapshots, cashUsd, market, mix>>
    BY <1>1 DEF books
  <2>2. stage' \in Stages /\ stage' \notin Running /\ stage \in Idle /\ stage' \in Idle
    BY <1>1, <1>3 DEF Stages, Idle, Running
  <2>3. AllocTyped'
    BY <1>1, <2>2, TypedStands
  <2>4. Progress' /\ Shaped'
    BY <1>1, <1>3, <2>1, <2>2, ProgressStands, ShapedStands
  <2>5. Ledger' /\ History'
    BY <2>1, <2>2, LedgerStands, HistoryStands
  <2>6. StockCapped' /\ Dust'
    BY <1>1, <2>1, StockStands, DustStands
  <2>7. Replayed'
    BY <1>1, ReplayStands
  <2> QED BY <2>3, <2>4, <2>5, <2>6, <2>7
<1> QED BY <1>1, <1>2, <1>3

LEMMA AllocStutter == ASSUME AllocInv, UNCHANGED allocationVars PROVE AllocInv'
<1> USE DEF AllocInv
<1>1. UNCHANGED <<config, lives, snapshots>> /\ UNCHANGED <<config, point, snapshots>>
      /\ UNCHANGED <<config, shapedCredits, drift>> /\ UNCHANGED <<config, reserve, contribution>>
      /\ UNCHANGED <<snapshots, cashUsd, market, mix>> /\ UNCHANGED <<stage, replay, point, lives, shares, cashKrw, investable>>
      /\ UNCHANGED <<config, lives, point, market, signal, mix, contribution, investable, books>>
  BY DEF allocationVars, books
<1>2. stage' \in Stages
  BY <1>1 DEF AllocTyped
<1>3. AllocTyped'
  BY <1>1, <1>2, TypedStands
<1>4. Points' = Points
  BY <1>1, ScheduleStands
<1>5. Progress'
  BY <1>1, <1>4 DEF Progress, Admitted
<1>6. Shaped'
  <2>1. Left' = Left
    BY <1>1, <1>4 DEF Left
  <2> QED BY <1>1, <2>1 DEF Shaped, Reserve, Debt
<1>7. Prior(point)' = Prior(point) /\ Execution(point)' = Execution(point) /\ Ending' = Ending
  BY <1>1, PointStands
<1>8. Ledger'
  <2>1. Proceeds' = Proceeds
    BY <1>1, <1>7 DEF Proceeds
  <2>2. \A t : Trades(t, Execution(point))' = Trades(t, Execution(point))
    BY <1>1, <1>7 DEF Trades
  <2>3. SplitCredit(point)' = SplitCredit(point)
    BY <1>1, SplitStands
  <2> QED BY <1>1, <1>7, <2>1, <2>2, <2>3 DEF Ledger
<1>9. History' /\ StockCapped' /\ Dust'
  BY <1>1, HistoryStands, StockStands, DustStands
<1>10. Replayed'
  <2>1. Sold' = Sold
    <3>1. \A k : Prior(k)' = Prior(k) /\ snapshots' = snapshots
      BY <1>1, PriorStands
    <3> QED BY <3>1 DEF Sold, GoneFrom
  <2> QED BY <1>1, <2>1 DEF Replayed
<1> QED BY <1>3, <1>5, <1>6, <1>8, <1>9, <1>10

LEMMA Accounting ==
  ASSUME NEW rate \in Int, NEW krw \in Int, NEW res \in Int, NEW usd \in Int, NEW cost \in Int,
         NEW pk \in Int, NEW pr \in Int, NEW pu \in Int, NEW whole \in Int, NEW kept \in Int, NEW gross \in Int,
         NEW c \in Int, NEW conv \in Int, NEW bought \in Int, NEW levy \in Int, NEW fee \in Int,
         conv = c + pr - res + pk - krw, whole = gross + kept,
         usd + cost = pu + (gross - levy) + bought - fee + kept
  PROVE  krw + res + usd * rate + cost * rate
           = pk + pr + pu * rate + whole * rate + c - (conv - bought * rate) - (levy + fee) * rate
<1>1. krw + res = pk + pr + c - conv
  OBVIOUS
<1>2. PICK x \in Int : x = usd + cost
  OBVIOUS
<1>3. x * rate = usd * rate + cost * rate
  BY <1>2
<1>4. x = pu + whole + bought - levy - fee
  BY <1>2
<1>5. x * rate = pu * rate + whole * rate + bought * rate - (levy + fee) * rate
  BY <1>4
<1>6. /\ usd * rate \in Int /\ cost * rate \in Int /\ pu * rate \in Int /\ whole * rate \in Int
      /\ bought * rate \in Int /\ (levy + fee) * rate \in Int
  OBVIOUS
<1>7. PICK a \in Int : a = usd * rate
  BY <1>6
<1>8. PICK b \in Int : b = cost * rate
  BY <1>6
<1>9. PICK d \in Int : d = pu * rate
  BY <1>6
<1>10. PICK e \in Int : e = whole * rate
  BY <1>6
<1>11. PICK f \in Int : f = bought * rate
  BY <1>6
<1>12. PICK g \in Int : g = (levy + fee) * rate
  BY <1>6
<1>13. a + b = d + e + f - g
  BY <1>3, <1>5, <1>7, <1>8, <1>9, <1>10, <1>11, <1>12
<1>14. krw + res + a + b = pk + pr + d + e + c - (conv - f) - g
  BY <1>1, <1>13
<1> QED BY <1>7, <1>8, <1>9, <1>10, <1>11, <1>12, <1>14

\* A number that is added up over a set.
LEMMA CloseSum ==
  ASSUME NEW f, NEW S
  PROVE  MapThenSumSet(LAMBDA t : f[t], S) = SumFunctionOnSet(f, S)
BY DEF SumFunctionOnSet, MapThenSumSet, FoldFunctionOnSet, MapThenFoldSet

\* Whole lots of every share of the net proceeds: what is left is less than one
\* lot of each.
LEMMA LotsFacts ==
  ASSUME NEW p, Parts(p), NEW sum \in Nat \ {0}, sum = PartsSum(p), NEW traded \in Nat,
         NEW prices \in [Tickers -> Nat \ {0}], NEW lots, lots = Lots(Mix(p, sum), traded, prices)
  PROVE  /\ Parts(lots) /\ DOMAIN lots = DOMAIN p
         /\ Cost(lots, prices) \in Nat /\ Cost(lots, prices) =< traded
         /\ SumFunctionOnSet(prices, DOMAIN p) \in Nat
         /\ traded - Cost(lots, prices) < SumFunctionOnSet(prices, DOMAIN p)
<1>1. PICK D : D = DOMAIN p
  OBVIOUS
<1>2. D \subseteq Tickers /\ IsFiniteSet(D) /\ \A t \in D : p[t] \in Nat /\ prices[t] \in Nat \ {0}
  BY <1>1, PartsFacts
<1>3. lots = [t \in D |-> (traded * p[t]) \div (sum * prices[t])]
  BY <1>1 DEF Lots, Mix
<1>4. PICK h : h = [t \in D |-> traded * p[t]]
  OBVIOUS
<1>5. PICK g : g = [t \in D |-> lots[t] * prices[t]]
  OBVIOUS
<1>6. PICK k : k = [t \in D |-> sum * (g[t] + prices[t])]
  OBVIOUS
<1>7. PICK j : j = [t \in D |-> sum * g[t]]
  OBVIOUS
<1>8. ASSUME NEW t \in D
      PROVE  /\ lots[t] \in Nat /\ g[t] \in Nat /\ h[t] \in Nat /\ j[t] \in Nat /\ k[t] \in Nat
             /\ j[t] =< h[t] /\ h[t] + 1 =< k[t]
  <2>1. PICK x \in Nat : x = p[t]
    BY <1>2
  <2>2. PICK y \in Nat \ {0} : y = prices[t]
    BY <1>2
  <2>3. PICK a \in Nat : a = traded * x
    BY ProductIsNat
  <2>4. PICK b \in Nat \ {0} : b = sum * y
    <3>1. sum * y \in Nat /\ sum * y # 0
      OBVIOUS
    <3> QED BY <3>1
  <2>5. PICK q \in Nat : q = a \div b
    BY Quotient
  <2>6. b * q =< a /\ a < b * q + b
    BY <2>5, Quotient
  <2>7. lots[t] = q
    BY <1>3, <2>1, <2>2, <2>3, <2>4, <2>5
  <2>8. PICK z \in Nat : z = q * y
    BY ProductIsNat
  <2>9. g[t] = z /\ h[t] = a
    BY <1>4, <1>5, <2>1, <2>2, <2>3, <2>7, <2>8
  <2>10. sum * z = b * q /\ sum * (z + y) = b * q + b
    BY <2>4, <2>8
  <2>11. j[t] = sum * z /\ k[t] = sum * (z + y)
    BY <1>6, <1>7, <2>2, <2>9
  <2>12. PICK m \in Nat : m = b * q
    BY ProductIsNat
  <2> QED BY <2>6, <2>7, <2>9, <2>10, <2>11, <2>12
<1>9. Parts(lots) /\ DOMAIN lots = D
  <2>1. DOMAIN lots = D /\ lots = [t \in D |-> lots[t]]
    BY <1>3
  <2>2. \A t \in D : lots[t] \in Nat
    BY <1>8
  <2> QED BY <1>2, <2>1, <2>2, PartsOf
<1>10. PICK G \in Nat : G = Cost(lots, prices) /\ G = SumFunctionOnSet(g, D)
  <2>1. Cost(lots, prices) \in Nat
    BY <1>9, CostFacts
  <2>2. Cost(lots, prices) = SumFunctionOnSet(g, D)
    BY <1>5, <1>9, CostIsSum
  <2> QED BY <2>1, <2>2
<1>11. PICK P \in Nat : P = SumFunctionOnSet(prices, D)
  <2>1. \A t \in D : prices[t] \in Nat
    BY <1>2
  <2> QED BY <1>2, <2>1, SumIsNat
<1>12. sum = SumFunctionOnSet(p, D)
  BY <1>1, PartsAreSummed
<1>13. SumFunctionOnSet(h, D) = traded * sum
  <2>1. \A t \in D : p[t] \in Int /\ h[t] = traded * p[t]
    BY <1>2, <1>4
  <2>2. traded \in Int
    OBVIOUS
  <2>3. SumFunctionOnSet(h, D) = traded * SumFunctionOnSet(p, D)
    BY <1>2, <2>1, <2>2, SumScaled
  <2> QED BY <1>12, <2>3
<1>14. SumFunctionOnSet(j, D) = sum * G
  <2>1. \A t \in D : g[t] \in Int /\ j[t] = sum * g[t]
    BY <1>7, <1>8
  <2> QED BY <1>2, <1>10, <2>1, SumScaled
<1>15. SumFunctionOnSet(k, D) = sum * (G + P)
  <2>1. PICK e : e = [t \in D |-> g[t] + prices[t]]
    OBVIOUS
  <2>2. \A t \in D : g[t] \in Int /\ prices[t] \in Int /\ e[t] = g[t] + prices[t]
    BY <1>2, <1>8, <2>1
  <2>3. SumFunctionOnSet(e, D) = G + P
    BY <1>2, <1>10, <1>11, <2>2, SumAdds
  <2>4. \A t \in D : e[t] \in Int /\ k[t] = sum * e[t]
    BY <1>6, <2>2
  <2>5. SumFunctionOnSet(k, D) = sum * SumFunctionOnSet(e, D)
    BY <1>2, <2>4, SumScaled
  <2> QED BY <2>3, <2>5
<1>16. G =< traded
  <2>1. \A t \in D : j[t] \in Int /\ h[t] \in Int /\ j[t] =< h[t]
    BY <1>8
  <2>2. SumFunctionOnSet(j, D) =< SumFunctionOnSet(h, D)
    BY <1>2, <2>1, SumIsMonotone
  <2>3. sum * G =< traded * sum
    BY <1>13, <1>14, <2>2
  <2>4. (sum * G) \div sum = G /\ (traded * sum) \div sum = traded
    BY QuotientOfProduct
  <2>5. sum * G \in Int /\ traded * sum \in Int
    OBVIOUS
  <2> QED BY <2>3, <2>4, <2>5, QuotientIsMonotone
<1>17. traded < G + P
  <2>1. PICK t \in D : TRUE
    <3>1. D # {}
      BY <1>12, SumOfNone
    <3> QED BY <3>1
  <2>2. PICK f : f = [x \in D |-> IF x = t THEN h[x] + 1 ELSE h[x]]
    OBVIOUS
  <2>3. \A x \in D : f[x] \in Int /\ h[x] \in Int /\ k[x] \in Int /\ f[x] =< k[x]
    BY <1>8, <2>2
  <2>4. f[t] = h[t] + 1 /\ \A x \in D : x # t => f[x] = h[x]
    BY <2>2
  <2>5. SumFunctionOnSet(f, D) = SumFunctionOnSet(h, D) - h[t] + f[t]
    <3>1. /\ IsFiniteSet(D) /\ t \in D
          /\ \A x \in D : h[x] \in Int /\ f[x] \in Int
          /\ \A x \in D : x # t => f[x] = h[x]
      BY <1>2, <2>1, <2>3, <2>4
    <3> QED BY <3>1, SumOfChanged, SMTT(60)
  <2>6. PICK n \in Int : n = traded * sum
    OBVIOUS
  <2>7. SumFunctionOnSet(f, D) = n + 1
    BY <1>13, <2>3, <2>4, <2>5, <2>6
  <2>8. SumFunctionOnSet(f, D) =< SumFunctionOnSet(k, D)
    BY <1>2, <2>3, SumIsMonotone
  <2>9. n + 1 =< sum * (G + P)
    BY <1>15, <2>7, <2>8
  <2>10. ASSUME G + P =< traded PROVE FALSE
    <3>1. G + P \in Int /\ traded \in Int /\ sum \in Nat
      OBVIOUS
    <3>2. sum * (G + P) =< sum * traded
      BY <2>10, <3>1, ProductIsMonotone
    <3>3. sum * traded = n /\ sum * (G + P) \in Int
      BY <2>6
    <3> QED BY <2>9, <3>2, <3>3
  <2> QED BY <2>10
<1> QED BY <1>1, <1>9, <1>10, <1>11, <1>16, <1>17

\* A step that ends a point with these books, holdings that only grew, and money
\* that is accounted for.
Records(held, krw, usd) ==
  /\ stage = "buy" /\ Advance
  /\ UNCHANGED <<config, lives, shapedCredits, drift, market, signal, mix, incumbents, contribution,
                 investable, reserve, replay>>
  /\ shares' = held /\ cashKrw' = krw /\ cashUsd' = usd
  /\ snapshots' = Append(snapshots, Snapshot(held, krw, usd))
Grows(held) ==
  /\ Parts(held) /\ DOMAIN shares \subseteq DOMAIN held
  /\ DOMAIN held \subseteq DOMAIN shares \cup DOMAIN mix.parts
  /\ \A t \in DOMAIN shares : shares[t] =< held[t]
Accounted(held, krw, usd, conv, bought, fee) ==
  /\ Prior(point).cashKrw =< krw
  /\ conv = contribution + Prior(point).reserve - reserve + Prior(point).cashKrw - krw
  /\ bought = (100 * conv) \div (market.rate * (100 + Spread))
  /\ fee = IF conv = 0 THEN 0
           ELSE Percent(Prior(point).cashUsd + (Proceeds - Percent(Proceeds, Commission)) + bought, Commission)
  /\ usd + Cost(held, market.close)
       = Prior(point).cashUsd + (Proceeds - Percent(Proceeds, Commission)) + bought - fee + Cost(shares, market.close)
  /\ conv > 0 => usd < SumFunctionOnSet(market.close, DOMAIN mix.parts)

\* Later points are filled later.
LEMMA ExecutionGrows ==
  ASSUME WellConfigured(config), NEW k \in 1 .. Len(Points)
  PROVE  Execution(k) \in Int /\ \A j \in 1 .. Len(Points) : j < k => Execution(j) < Execution(k)
<1>1. Delay \in Int /\ \A j \in 1 .. Len(Points) : Points[j] \in Int
  BY PointsFacts, ScheduleAssumption
<1>2. \A j \in 1 .. Len(Points) : j < k => Points[j] < Points[k]
  BY PointsFacts
<1> QED BY <1>1, <1>2 DEF Execution, Fill

\* What is held has been listed.
LEMMA HeldIsListed ==
  ASSUME AllocInv, point \in 1 .. Len(Points), config.membership, NEW t \in DOMAIN Prior(point).shares
  PROVE  lives[t].first =< Execution(point) /\ lives[t].first \in Int /\ lives[t].last \in Int
<1>0. AllocTyped /\ Progress /\ History
  BY DEF AllocInv
<1>1. PICK n \in Nat : n = Len(snapshots) /\ point = n + 1
  <2>1. Len(snapshots) \in Nat /\ point \in Nat
    BY <1>0 DEF AllocTyped
  <2> QED BY <1>0, <2>1 DEF Progress
<1>2. t \in Tickers
  BY <1>0, <1>1, PriorFacts, PartsFacts
<1>3. lives[t].first \in Int /\ lives[t].last \in Int
  BY <1>0, <1>2 DEF AllocTyped
<1>4. point # 1
  <2>1. ASSUME point = 1 PROVE FALSE
    <3>1. PICK r : r = [shares |-> <<>>, cashKrw |-> 0, cashUsd |-> 0, reserve |-> 0]
      OBVIOUS
    <3>2. Prior(point) = r /\ r.shares = <<>>
      BY <2>1, <3>1 DEF Prior
    <3> QED BY <3>2
  <2> QED BY <2>1
<1>5. Prior(point) = snapshots[n] /\ n \in 1 .. Len(snapshots)
  BY <1>1, <1>4 DEF Prior
<1>6. Opened(n)
  BY <1>0, <1>5 DEF History, Entry
<1>7. lives[t].first =< Execution(n)
  BY <1>5, <1>6 DEF Opened
<1>8. n \in 1 .. Len(Points) /\ n < point
  <2>1. Len(Points) \in Nat
    BY <1>0, PointsFacts DEF AllocTyped
  <2> QED BY <1>1, <1>5, <2>1
<1>9. Execution(n) < Execution(point) /\ Execution(n) \in Int /\ Execution(point) \in Int
  BY <1>0, <1>8, ExecutionGrows DEF AllocTyped
<1> QED BY <1>3, <1>7, <1>9

\* The record of a point: what every step that ends a point has in common.
LEMMA Recording ==
  ASSUME AllocInv, NEW held, NEW krw \in Nat, NEW usd \in Nat, NEW conv \in Nat, NEW bought \in Int, NEW fee \in Int,
         Records(held, krw, usd), Grows(held), Accounted(held, krw, usd, conv, bought, fee)
  PROVE  AllocInv'
<1>0. AllocTyped /\ Progress /\ Shaped /\ Ledger /\ History /\ StockCapped /\ Dust /\ Replayed
  BY DEF AllocInv
<1>1. /\ UNCHANGED <<config, lives, market, mix, contribution, investable, reserve, replay, signal>>
      /\ UNCHANGED <<config, lives>> /\ UNCHANGED <<config, shapedCredits, drift>> /\ UNCHANGED <<config, reserve, contribution>>
  BY DEF Records
<1>2. PICK n \in Nat : n = Len(snapshots) /\ point = n + 1 /\ point =< Len(Points) /\ Len(Points) \in Nat
  <2>1. Len(snapshots) \in Nat /\ point \in Nat /\ Len(Points) \in Nat
    BY <1>0, PointsFacts DEF AllocTyped
  <2>2. stage = "buy"
    BY DEF Records
  <2> QED BY <1>0, <2>1, <2>2 DEF Progress, Running
<1>3. point' = n + 2 /\ stage' \in {"settle", "finish"} /\ (stage' = "settle" => point # Len(Points))
  BY <1>2 DEF Advance, Records
<1>4. PICK snap : snap = Snapshot(held, krw, usd)
  OBVIOUS
<1>5. /\ snap.contribution = contribution /\ snap.shares = held /\ snap.cashKrw = krw /\ snap.cashUsd = usd
      /\ snap.reserve = reserve /\ snap.market = market
  BY <1>4 DEF Snapshot
<1>6. snap \in Recorded
  <2>1. held \in Holdings
    BY HoldingsAreParts DEF Grows
  <2>2. contribution \in Nat /\ reserve \in Nat /\ market \in Quotes
    BY <1>0 DEF AllocTyped
  <2> QED BY <1>4, <2>1, <2>2 DEF Snapshot, Recorded
<1>7. /\ snapshots' \in Seq(Recorded) /\ Len(snapshots') = n + 1 /\ snapshots'[n + 1] = snap
      /\ \A k \in 1 .. n : snapshots'[k] = snapshots[k]
  <2>1. snapshots \in Seq(Recorded) /\ snapshots' = Append(snapshots, snap)
    BY <1>0, <1>4 DEF AllocTyped, Records
  <2> QED BY <1>2, <1>6, <2>1
<1>8. AllocTyped'
  <2>1. shares' \in Holdings /\ cashKrw' \in Nat /\ cashUsd' \in Nat
    BY HoldingsAreParts DEF Grows, Records
  <2>2. point' \in Nat \ {0} /\ stage' \in Stages
    BY <1>3 DEF Stages, Running, Idle
  <2> QED BY <1>0, <1>1, <1>7, <2>1, <2>2 DEF AllocTyped, WellConfigured, MixOK
<1>9. Points' = Points
  BY <1>1, ScheduleStands
<1>10. Progress'
  <2>1. Admitted(config)
    BY <1>0 DEF Progress, Records
  <2> QED BY <1>1, <1>2, <1>3, <1>7, <1>9, <2>1 DEF Progress, Running, Admitted
<1>11. Shaped'
  <2>1. stage \in Running
    BY DEF Records, Running
  <2> QED BY <1>0, <1>1, <1>3, <2>1, ShapedStands DEF Running
<1>12. \A k \in 1 .. n + 1 : Prior(k)' = Prior(k)
  <2> SUFFICES ASSUME NEW k \in 1 .. n + 1 PROVE Prior(k)' = Prior(k)
    OBVIOUS
  <2>1. CASE k = 1
    BY <2>1 DEF Prior
  <2>2. CASE k # 1
    <3>1. k - 1 \in 1 .. n
      BY <2>2
    <3>2. snapshots'[k - 1] = snapshots[k - 1]
      BY <1>7, <3>1
    <3> QED BY <2>2, <3>2 DEF Prior
  <2> QED BY <2>1, <2>2
<1>13. Ledger'
  <2>1. Prior(point)' = snap
    <3>1. point' # 1 /\ point' - 1 = n + 1
      BY <1>3
    <3> QED BY <1>7, <3>1 DEF Prior
  <2>2. stage' \in Idle /\ stage' \notin {"target", "credit", "buy"}
    BY <1>3 DEF Idle
  <2>3. shares' = held /\ cashKrw' = krw /\ cashUsd' = usd
    BY DEF Records
  <2> QED BY <1>1, <1>5, <2>1, <2>2, <2>3 DEF Ledger
<1>14. Converted(n + 1)' = conv
  <2>1. Prior(n + 1)' = Prior(point)
    BY <1>2, <1>12
  <2>2. Converted(n + 1)' = snap.contribution + Prior(point).reserve - snap.reserve + Prior(point).cashKrw - snap.cashKrw
    BY <1>7, <2>1 DEF Converted
  <2> QED BY <1>5, <2>2 DEF Accounted
<1>15. History'
  <2> SUFFICES ASSUME NEW k \in 1 .. n + 1 PROVE Entry(k)'
    BY <1>7 DEF History
  <2>1. CASE k \in 1 .. n
    <3>1. Entry(k)
      BY <1>0, <1>2, <2>1 DEF History
    <3>2. snapshots'[k] = snapshots[k] /\ Prior(k)' = Prior(k)
      BY <1>7, <1>12, <2>1
    <3> QED BY <1>1, <3>1, <3>2, EntryStands
  <2>2. CASE k = n + 1
    <3>1. snapshots'[k] = snap /\ Prior(k)' = Prior(point) /\ Converted(k)' = conv /\ k = point
      BY <1>2, <1>7, <1>12, <1>14, <2>2
    <3>2. PICK P : P = Prior(point)
      OBVIOUS
    <3>3. P.cashKrw \in Nat /\ P.cashUsd \in Nat /\ P.reserve \in Nat /\ Parts(P.shares)
      BY <1>0, <1>2, <3>2, PriorFacts
    <3>4. stage = "buy" /\ config' = config /\ lives' = lives
      BY DEF Records
    <3>5. Ending \subseteq DOMAIN P.shares /\ shares = Restrict(P.shares, DOMAIN P.shares \ Ending)
      BY <1>0, <3>2, <3>4 DEF Ending, Ledger
    <3>6. DOMAIN shares = DOMAIN P.shares \ Ending /\ \A t \in DOMAIN shares : shares[t] = P.shares[t]
      <4>1. DOMAIN P.shares \ Ending \subseteq DOMAIN P.shares
        OBVIOUS
      <4> QED BY <3>3, <3>5, <4>1, RestrictFacts
    <3>7. \A t \in Ending : config.membership /\ lives[t].last < Execution(point) /\ t \notin DOMAIN mix.parts
      <4> SUFFICES ASSUME NEW t \in Ending
                   PROVE  config.membership /\ lives[t].last < Execution(point) /\ t \notin DOMAIN mix.parts
        OBVIOUS
      <4>1. config.membership /\ lives[t].last < Execution(point)
        BY DEF Ending, Ended
      <4>2. PICK e \in Int : e = Execution(point)
        <5>1. Points[point] \in Int /\ Delay \in Int
          BY <1>0, <1>2, PointsFacts, ScheduleAssumption DEF AllocTyped
        <5> QED BY <5>1 DEF Execution, Fill
      <4>3. ASSUME t \in DOMAIN mix.parts PROVE FALSE
        <5>1. Trades(t, e)
          BY <1>0, <3>4, <4>1, <4>2, <4>3 DEF Ledger
        <5>2. t \in Tickers
          BY <3>3, <3>5, PartsFacts
        <5>3. lives[t].last \in Int /\ lives[t].first \in Int
          BY <1>0, <5>2 DEF AllocTyped
        <5> QED BY <4>1, <4>2, <5>1, <5>3 DEF Trades
      <4> QED BY <4>1, <4>3
    <3>8. DOMAIN held \cap DOMAIN P.shares = DOMAIN shares /\ DOMAIN P.shares \ DOMAIN held = Ending
      BY <3>5, <3>6, <3>7 DEF Grows
    <3>9. Explained(k)'
      <4>1. GoneFrom(k)' = Ending
        BY <1>5, <3>1, <3>2, <3>8 DEF GoneFrom
      <4>2. PICK gross \in Nat : gross = Proceeds /\ gross = Cost(Restrict(P.shares, Ending), market.close)
        <5>1. market.close \in [Tickers -> Nat \ {0}]
          BY <1>0, MarketFacts DEF AllocTyped
        <5>2. Parts(Restrict(P.shares, Ending))
          BY <3>3, <3>5, RestrictFacts
        <5>3. Cost(Restrict(P.shares, Ending), market.close) \in Nat
          BY <5>1, <5>2, CostFacts
        <5> QED BY <3>2, <5>3 DEF Proceeds
      <4>3. PICK levy \in Nat : levy = Percent(gross, Commission)
        <5>1. Commission \in Nat
          BY Parameters
        <5> QED BY <5>1, PercentFacts
      <4>4. PICK rate \in Nat \ {0} : rate = market.rate
        BY <1>0, MarketFacts DEF AllocTyped
      <4>5. market.close \in [Tickers -> Nat \ {0}]
        BY <1>0, MarketFacts DEF AllocTyped
      <4>6. PICK cost \in Nat : cost = Cost(held, market.close)
        BY <4>5, CostFacts DEF Grows
      <4>7. PICK kept \in Nat : kept = Cost(shares, market.close)
        <5>1. Parts(shares)
          BY <1>0, HoldingsAreParts DEF AllocTyped
        <5> QED BY <4>5, <5>1, CostFacts
      <4>8. PICK whole \in Nat : whole = Cost(P.shares, market.close)
        BY <3>3, <4>5, CostFacts
      <4>9. whole = gross + kept
        BY <3>3, <3>5, <4>2, <4>5, <4>7, <4>8, CostSplits
      <4>10. usd + cost = P.cashUsd + (gross - levy) + bought - fee + kept
        BY <3>2, <4>2, <4>3, <4>6, <4>7 DEF Accounted
      <4>11. conv = contribution + P.reserve - reserve + P.cashKrw - krw
        BY <3>2 DEF Accounted
      <4>12. contribution \in Int /\ reserve \in Int
        BY <1>0 DEF AllocTyped
      <4>13. krw + reserve + usd * rate + cost * rate
               = P.cashKrw + P.reserve + P.cashUsd * rate + whole * rate + contribution - (conv - bought * rate)
                   - (levy + fee) * rate
        <5>1. PICK pk \in Int : pk = P.cashKrw
          BY <3>3
        <5>2. PICK pr \in Int : pr = P.reserve
          BY <3>3
        <5>3. PICK pu \in Int : pu = P.cashUsd
          BY <3>3
        <5>4. PICK c \in Int : c = contribution
          BY <4>12
        <5>5. PICK res \in Int : res = reserve
          BY <4>12
        <5>6. conv = c + pr - res + pk - krw /\ usd + cost = pu + (gross - levy) + bought - fee + kept
          BY <4>10, <4>11, <5>1, <5>2, <5>3, <5>4, <5>5
        <5>7. /\ rate \in Int /\ krw \in Int /\ usd \in Int /\ cost \in Int /\ whole \in Int /\ kept \in Int
              /\ gross \in Int /\ conv \in Int /\ levy \in Int /\ fee \in Int /\ bought \in Int
          OBVIOUS
        <5>8. krw + res + usd * rate + cost * rate
                = pk + pr + pu * rate + whole * rate + c - (conv - bought * rate) - (levy + fee) * rate
          BY <4>9, <5>6, <5>7, Accounting
        <5> QED BY <5>1, <5>2, <5>3, <5>4, <5>5, <5>8
      <4>14. Worth(snap, market) = krw + reserve + usd * rate + cost * rate
        BY <1>5, <4>4, <4>6 DEF Worth
      <4>15. Worth(P, market) = P.cashKrw + P.reserve + P.cashUsd * rate + whole * rate
        BY <4>4, <4>8 DEF Worth
      <4>16. bought = (100 * conv) \div (rate * (100 + Spread))
        BY <4>4 DEF Accounted
      <4>17. fee = IF conv = 0 THEN 0 ELSE Percent(P.cashUsd + (gross - levy) + bought, Commission)
        BY <3>2, <4>2, <4>3 DEF Accounted
      <4>18. Worth(snap, market) = Worth(P, market) + contribution - (conv - bought * rate) - (levy + fee) * rate
        BY <4>13, <4>14, <4>15
      <4> QED BY <1>5, <3>1, <3>2, <4>1, <4>2, <4>3, <4>4, <4>16, <4>17, <4>18 DEF Explained, Worth
    <3>10. Carried(k)'
      <4>1. Execution(k)' = Execution(k)
        BY <3>4, SplitStands
      <4>2. \A t \in DOMAIN P.shares : IF t \in DOMAIN held THEN P.shares[t] =< held[t]
                                      ELSE config.membership /\ lives[t].last < Execution(k)
        BY <3>1, <3>6, <3>7, <3>8 DEF Grows
      <4> QED BY <1>5, <3>1, <3>2, <3>4, <4>1, <4>2 DEF Carried
    <3>11. Opened(k)'
      <4>1. Execution(k)' = Execution(k)
        BY <3>4, SplitStands
      <4> SUFFICES ASSUME config.membership
                   PROVE  /\ \A t \in DOMAIN held : lives[t].first =< Execution(k)
                          /\ \A t \in DOMAIN held \ DOMAIN P.shares : Execution(k) =< lives[t].last
        BY <1>5, <3>1, <3>2, <3>4, <4>1 DEF Opened
      <4>2. \A t \in DOMAIN mix.parts : lives[t].first =< Execution(k) /\ Execution(k) =< lives[t].last
        <5> SUFFICES ASSUME NEW t \in DOMAIN mix.parts
                     PROVE  lives[t].first =< Execution(k) /\ Execution(k) =< lives[t].last
          OBVIOUS
        <5>1. Trades(t, Execution(k))
          BY <1>0, <3>1, <3>4 DEF Ledger
        <5>2. t \in Tickers
          BY <1>0, PartsFacts DEF AllocTyped, MixOK
        <5>3. lives[t].last \in Int /\ lives[t].first \in Int
          BY <1>0, <5>2 DEF AllocTyped
        <5> QED BY <5>1, <5>3 DEF Trades
      <4>3. \A t \in DOMAIN P.shares : lives[t].first =< Execution(k)
        <5>1. point \in 1 .. Len(Points)
          BY <1>2
        <5> QED BY <3>1, <3>2, <5>1, HeldIsListed
      <4> QED BY <3>6, <3>8, <4>2, <4>3 DEF Grows
    <3>12. Funded(k)'
      <4>1. SplitCredit(k)' = SplitCredit(k)
        BY <3>4, SplitStands
      <4>2. P.cashKrw =< krw
        BY <3>2 DEF Accounted
      <4>3. config.modules \cap {"shape", "adaptive"} = {} => contribution = SplitCredit(k)
        BY <1>0, <3>1, <3>4 DEF Ledger
      <4> QED BY <1>5, <3>1, <3>2, <3>4, <4>1, <4>2, <4>3 DEF Funded
    <3> QED BY <3>9, <3>10, <3>11, <3>12 DEF Entry
  <2> QED BY <2>1, <2>2
<1>16. StockCapped'
  BY <1>0, <1>1, StockStands
<1>17. Dust'
  <2>1. cashUsd' = usd /\ Len(snapshots') = n + 1
    BY <1>7 DEF Records
  <2>2. MapThenSumSet(LAMBDA t : market.close[t], DOMAIN mix.parts) = SumFunctionOnSet(market.close, DOMAIN mix.parts)
    BY CloseSum
  <2>3. conv > 0 => usd < SumFunctionOnSet(market.close, DOMAIN mix.parts)
    BY DEF Accounted
  <2>4. MapThenSumSet(LAMBDA t : market.close[t], DOMAIN mix.parts)' = MapThenSumSet(LAMBDA t : market.close[t], DOMAIN mix.parts)
    BY <1>1 DEF MapThenSumSet, MapThenFoldSet
  <2>5. Converted(Len(snapshots))' = conv
    BY <1>14, <2>1
  <2> QED BY <2>1, <2>2, <2>3, <2>4, <2>5 DEF Dust
<1>18. Replayed'
  <2>1. stage # "done" /\ replay' = replay
    BY DEF Records
  <2> QED BY <1>0, <2>1, ReplayStands
<1> QED BY <1>8, <1>10, <1>11, <1>13, <1>15, <1>16, <1>17, <1>18 DEF AllocInv

LEMMA HeldIsNat == ASSUME AllocTyped, NEW t PROVE Held(t) \in Nat
<1>1. Parts(shares)
  BY HoldingsAreParts DEF AllocTyped
<1> QED BY <1>1, PartsFacts DEF Held

\* What is spent is spent on the mix.
LEMMA SpendFacts ==
  ASSUME AllocInv, Mixable
  PROVE  MixOK(SpendMix) /\ DOMAIN SpendMix.parts = DOMAIN mix.parts
<1>0. AllocTyped
  BY DEF AllocInv
<1>1. MixOK(mix)
  BY <1>0 DEF AllocTyped
<1>2. CASE mix.parts = <<>> \/ ~config.banded
  BY <1>1, <1>2 DEF SpendMix
<1>3. CASE ~(mix.parts = <<>> \/ ~config.banded)
  <2>1. Nav > 0
    BY <1>3 DEF Mixable
  <2>2. market.rate \in Nat /\ market.close \in [Tickers -> Nat \ {0}]
    BY <1>0, MarketFacts DEF AllocTyped
  <2>3. ASSUME NEW t \in Tickers PROVE Held(t) * market.close[t] * market.rate \in Nat
    <3>1. Held(t) \in Nat /\ market.close[t] \in Nat
      BY <1>0, <2>2, HeldIsNat
    <3>2. Held(t) * market.close[t] \in Nat
      BY <3>1, ProductIsNat
    <3> QED BY <2>2, <3>2, ProductIsNat
  <2>4. Marked \subseteq Tickers /\ DOMAIN mix.parts \subseteq Tickers
    <3>1. Parts(shares)
      BY <1>0, HoldingsAreParts DEF AllocTyped
    <3> QED BY <1>1, <3>1, PartsFacts DEF Marked, MixOK
  <2>5. PICK f : f = [t \in Marked |-> Held(t) * market.close[t] * market.rate]
    OBVIOUS
  <2>6. Parts(f)
    <3>1. DOMAIN f = Marked /\ f = [t \in Marked |-> f[t]]
      BY <2>5
    <3>2. \A t \in Marked : f[t] \in Nat
      BY <2>3, <2>4, <2>5
    <3> QED BY <2>4, <3>1, <3>2, PartsOf
  <2>7. Nav \in Nat
    <3>1. PICK s \in Nat : s = PartsSum(f)
      BY <2>6, PartsFacts
    <3>2. Nav = cashKrw + cashUsd * market.rate + s
      BY <2>5, <3>1 DEF Nav
    <3>3. cashKrw \in Nat /\ cashUsd \in Nat
      BY <1>0 DEF AllocTyped
    <3>4. cashUsd * market.rate \in Nat
      BY <2>2, <3>3, ProductIsNat
    <3> QED BY <3>2, <3>3, <3>4
  <2>8. PICK marks : marks = [t \in DOMAIN mix.parts |-> Held(t) * market.close[t] * market.rate]
    OBVIOUS
  <2>9. \A t \in DOMAIN mix.parts : marks[t] \in Int
    BY <2>3, <2>4, <2>8
  <2>10. Band \in Nat
    BY Parameters
  <2>11. SpendMix = BandedMix(mix, marks, Nav, Band)
    BY <1>3, <2>8 DEF SpendMix
  <2> QED BY <1>1, <2>7, <2>9, <2>10, <2>11, BandedIsMix
<1> QED BY <1>2, <1>3

\* The money of a point before it is spent.
LEMMA BuyFacts ==
  ASSUME AllocInv, stage = "buy"
  PROVE  /\ AllocTyped /\ point \in 1 .. Len(Points)
         /\ Prior(point).cashKrw \in Nat /\ Prior(point).cashUsd \in Nat /\ Prior(point).reserve \in Nat
         /\ Proceeds \in Nat /\ Percent(Proceeds, Commission) \in Nat /\ Percent(Proceeds, Commission) =< Proceeds
         /\ Parts(shares) /\ cashUsd = Prior(point).cashUsd + Proceeds - Percent(Proceeds, Commission)
         /\ cashKrw = Prior(point).cashKrw + contribution + Prior(point).reserve - reserve
         /\ Prior(point).cashKrw + investable =< cashKrw
<1>0. AllocTyped /\ Progress /\ Ledger
  BY DEF AllocInv
<1>1. PICK n \in Nat : n = Len(snapshots) /\ point = n + 1 /\ point \in 1 .. Len(Points)
  <2>1. Len(snapshots) \in Nat /\ point \in Nat /\ Len(Points) \in Nat
    BY <1>0, PointsFacts DEF AllocTyped
  <2> QED BY <1>0, <2>1 DEF Progress, Running
<1>2. /\ Prior(point).cashKrw \in Nat /\ Prior(point).cashUsd \in Nat /\ Prior(point).reserve \in Nat
      /\ Parts(Prior(point).shares)
  BY <1>0, <1>1, PriorFacts
<1>3. Proceeds \in Nat
  <2>1. Parts(Restrict(Prior(point).shares, Ending))
    <3>1. Ending \subseteq DOMAIN Prior(point).shares
      BY DEF Ending
    <3> QED BY <1>2, <3>1, RestrictFacts
  <2>2. market.close \in [Tickers -> Nat \ {0}]
    BY <1>0, MarketFacts DEF AllocTyped
  <2> QED BY <2>1, <2>2, CostFacts DEF Proceeds
<1>4. Percent(Proceeds, Commission) \in Nat /\ Percent(Proceeds, Commission) =< Proceeds
  <2>1. Commission \in Nat /\ Commission =< 100
    BY Parameters
  <2> QED BY <1>3, <2>1, PercentFacts
<1>5. Parts(shares)
  BY <1>0, HoldingsAreParts DEF AllocTyped
<1>6. /\ cashUsd = Prior(point).cashUsd + Proceeds - Percent(Proceeds, Commission)
      /\ cashKrw = Prior(point).cashKrw + contribution + Prior(point).reserve - reserve
      /\ Prior(point).cashKrw + investable =< cashKrw
  BY <1>0 DEF Ledger
<1> QED BY <1>0, <1>1, <1>2, <1>3, <1>4, <1>5, <1>6

LEMMA AllocSkipBuying == ASSUME AllocInv, SkipBuying PROVE AllocInv'
<1>1. stage = "buy"
  BY DEF SkipBuying
<1>2. PICK pk \in Nat : pk = Prior(point).cashKrw
  BY <1>1, BuyFacts
<1>3. PICK pu \in Nat : pu = Prior(point).cashUsd
  BY <1>1, BuyFacts
<1>4. PICK gross \in Nat : gross = Proceeds
  BY <1>1, BuyFacts
<1>5. PICK levy \in Nat : levy = Percent(gross, Commission) /\ levy =< gross
  BY <1>1, <1>4, BuyFacts
<1>6. /\ contribution \in Nat /\ reserve \in Nat /\ cashKrw \in Nat /\ cashUsd \in Nat /\ investable \in Nat
      /\ Prior(point).reserve \in Nat /\ Parts(shares)
  BY <1>1, BuyFacts DEF AllocTyped
<1>7. cashUsd = pu + gross - levy /\ pk =< cashKrw
      /\ cashKrw = pk + contribution + Prior(point).reserve - reserve
  BY <1>1, <1>2, <1>3, <1>4, <1>5, <1>6, BuyFacts, SMTT(40)
<1>8. Records(shares, cashKrw, cashUsd)
  BY DEF SkipBuying, Records, Advance
<1>9. Grows(shares)
  <2>1. \A t \in DOMAIN shares : shares[t] =< shares[t]
    BY <1>6, PartsFacts
  <2> QED BY <1>6, <2>1 DEF Grows
<1>10. Accounted(shares, cashKrw, cashUsd, 0, 0, 0)
  <2>1. contribution + Prior(point).reserve - reserve + Prior(point).cashKrw - cashKrw = 0
    BY <1>2, <1>6, <1>7
  <2>2. (100 * 0) \div (market.rate * (100 + Spread)) = 0
    <3>1. PICK d \in Nat \ {0} : d = market.rate * (100 + Spread)
      <4>1. Spread \in Nat /\ market.rate \in Nat \ {0}
        BY <1>1, BuyFacts, MarketFacts, Parameters DEF AllocTyped
      <4>2. PICK w \in Nat \ {0} : w = 100 + Spread
        BY <4>1
      <4>3. market.rate * w \in Nat /\ market.rate * w # 0
        BY <4>1
      <4> QED BY <4>2, <4>3
    <3>2. 0 \div d = 0
      OBVIOUS
    <3> QED BY <3>1, <3>2
  <2>3. PICK c \in Nat : c = Cost(shares, market.close)
    <3>1. market.close \in [Tickers -> Nat \ {0}]
      BY <1>1, BuyFacts, MarketFacts DEF AllocTyped
    <3> QED BY <1>6, <3>1, CostFacts
  <2>4. cashUsd + c = pu + (gross - levy) + 0 - 0 + c
    BY <1>6, <1>7
  <2> QED BY <1>2, <1>3, <1>4, <1>5, <1>7, <2>1, <2>2, <2>3, <2>4 DEF Accounted
<1> QED BY <1>6, <1>8, <1>9, <1>10, Recording

LEMMA AllocBuyLots == ASSUME AllocInv, BuyLots PROVE AllocInv'
<1>1. stage = "buy" /\ Mixable
  BY DEF BuyLots
<1>2. PICK spend : spend = SpendMix
  OBVIOUS
<1>3. MixOK(spend) /\ DOMAIN spend.parts = DOMAIN mix.parts
  BY <1>1, <1>2, SpendFacts
<1>4. PICK sum \in Nat : sum = PartsSum(spend.parts)
  BY <1>3, PartsFacts DEF MixOK
<1>5. /\ contribution \in Nat /\ reserve \in Nat /\ cashKrw \in Nat /\ cashUsd \in Nat /\ investable \in Nat
      /\ Prior(point).reserve \in Nat /\ Parts(shares)
      /\ market.rate \in Nat \ {0} /\ market.close \in [Tickers -> Nat \ {0}]
  BY <1>1, BuyFacts, MarketFacts DEF AllocTyped
<1>6. PICK budget \in Nat : budget = (investable * sum) \div spend.whole /\ budget =< investable
  BY <1>3, <1>4, <1>5, BudgetFacts
<1>7. PICK bought \in Nat : bought = (100 * budget) \div (market.rate * (100 + Spread))
  <2>1. PICK d \in Nat \ {0} : d = market.rate * (100 + Spread)
    <3>1. PICK w \in Nat \ {0} : w = 100 + Spread
      BY Parameters
    <3>2. market.rate * w \in Nat /\ market.rate * w # 0
      BY <1>5
    <3> QED BY <3>1, <3>2
  <2>2. PICK x \in Nat : x = 100 * budget
    OBVIOUS
  <2>3. x \div d \in Nat
    BY Quotient
  <2> QED BY <2>1, <2>2, <2>3
<1>8. PICK trade \in Nat : trade = cashUsd + bought
  BY <1>5
<1>9. PICK fee \in Nat : fee = Percent(trade, Commission) /\ fee =< trade
  <2>1. Commission \in Nat /\ Commission =< 100
    BY Parameters
  <2> QED BY <2>1, PercentFacts
<1>10. PICK traded \in Nat : traded = trade - fee
  BY <1>9
<1>11. PICK lots : lots = Lots(Mix(spend.parts, sum), traded, market.close)
  OBVIOUS
<1>12. PICK filled : filled = [t \in DOMAIN shares \cup DOMAIN lots |->
                               Held(t) + IF t \in DOMAIN lots THEN lots[t] ELSE 0]
  OBVIOUS
<1>13. /\ budget > 0 /\ shares' = filled /\ cashUsd' = traded - Cost(lots, market.close) /\ cashKrw' = cashKrw - budget
       /\ snapshots' = Append(snapshots, Snapshot(filled, cashKrw - budget, traded - Cost(lots, market.close)))
  <2> DEFINE spend0 == SpendMix
             sum0 == PartsSum(spend0.parts)
             budget0 == (investable * sum0) \div spend0.whole
             bought0 == (100 * budget0) \div (market.rate * (100 + Spread))
             trade0 == cashUsd + bought0
             net0 == trade0 - Percent(trade0, Commission)
             lots0 == Lots(Mix(spend0.parts, sum0), net0, market.close)
             cost0 == Cost(lots0, market.close)
             filled0 == [t \in DOMAIN shares \cup DOMAIN lots0 |->
                           Held(t) + IF t \in DOMAIN lots0 THEN lots0[t] ELSE 0]
  <2>1. /\ budget0 > 0 /\ shares' = filled0 /\ cashUsd' = net0 - cost0 /\ cashKrw' = cashKrw - budget0
        /\ snapshots' = Append(snapshots, Snapshot(filled0, cashKrw - budget0, net0 - cost0))
    BY Zenon DEF BuyLots
  <2>2. spend0 = spend
    BY <1>2
  <2>3. sum0 = sum
    BY <1>4, <2>2
  <2>4. budget0 = budget
    BY <1>6, <2>2, <2>3
  <2>5. bought0 = bought
    BY <1>7, <2>4
  <2>6. trade0 = trade
    BY <1>8, <2>5
  <2>7. net0 = traded
    BY <1>9, <1>10, <2>6
  <2>8. lots0 = lots
    BY <1>11, <2>2, <2>3, <2>7
  <2> HIDE DEF lots0
  <2>9. filled0 = filled
    BY <1>12, <2>8
  <2> HIDE DEF spend0, sum0, budget0, bought0, trade0, net0, filled0
  <2> QED BY <2>1, <2>4, <2>7, <2>8, <2>9
<1>14. sum # 0
  <2>1. ASSUME sum = 0 PROVE FALSE
    <3>1. PICK w \in Nat \ {0} : w = spend.whole
      BY <1>3 DEF MixOK
    <3>2. investable * 0 = 0 /\ 0 \div w = 0
      BY <1>5
    <3> QED BY <1>6, <1>13, <2>1, <3>1, <3>2
  <2> QED BY <2>1
<1>15. /\ Parts(lots) /\ DOMAIN lots = DOMAIN mix.parts
       /\ Cost(lots, market.close) \in Nat /\ Cost(lots, market.close) =< traded
       /\ traded - Cost(lots, market.close) < SumFunctionOnSet(market.close, DOMAIN mix.parts)
  <2>1. Parts(spend.parts) /\ sum \in Nat \ {0}
    BY <1>3, <1>14 DEF MixOK
  <2> QED BY <1>3, <1>4, <1>5, <1>11, <2>1, LotsFacts
<1>16. PICK cost \in Nat : cost = Cost(lots, market.close) /\ cost =< traded
  BY <1>15
<1>17. PICK usd \in Nat : usd = traded - cost
  BY <1>16
<1>18. PICK pk \in Nat : pk = Prior(point).cashKrw
  BY <1>1, BuyFacts
<1>19. PICK pu \in Nat : pu = Prior(point).cashUsd
  BY <1>1, BuyFacts
<1>20. PICK gross \in Nat : gross = Proceeds
  BY <1>1, BuyFacts
<1>21. PICK levy \in Nat : levy = Percent(gross, Commission) /\ levy =< gross
  BY <1>1, <1>20, BuyFacts
<1>22. /\ cashUsd = pu + gross - levy /\ cashKrw = pk + contribution + Prior(point).reserve - reserve
       /\ pk + investable =< cashKrw
  BY <1>1, <1>18, <1>19, <1>20, <1>21, BuyFacts
<1>23. PICK krw \in Nat : krw = cashKrw - budget /\ pk =< krw
  BY <1>5, <1>6, <1>22
<1>24. Records(filled, krw, usd)
  <2>1. shares' = filled /\ cashUsd' = usd /\ cashKrw' = krw /\ snapshots' = Append(snapshots, Snapshot(filled, krw, usd))
    BY <1>13, <1>16, <1>17, <1>23
  <2> QED BY <2>1 DEF BuyLots, Records
<1>25. filled = [t \in DOMAIN shares \cup DOMAIN lots |-> Amount(shares, t) + Amount(lots, t)]
  BY <1>12 DEF Held, Amount
<1>26. Parts(filled) /\ Cost(filled, market.close) = Cost(shares, market.close) + cost
  BY <1>5, <1>15, <1>16, <1>25, CostAdds
<1>27. Grows(filled)
  <2>1. \A t \in DOMAIN shares : shares[t] \in Nat /\ Amount(lots, t) \in Nat
    BY <1>5, <1>15, PartsFacts DEF Amount
  <2>2. \A t \in DOMAIN shares : filled[t] = shares[t] + Amount(lots, t)
    BY <1>25 DEF Amount
  <2>3. \A t \in DOMAIN shares : shares[t] =< filled[t]
    BY <2>1, <2>2
  <2>4. DOMAIN filled = DOMAIN shares \cup DOMAIN mix.parts
    BY <1>12, <1>15
  <2> QED BY <1>26, <2>3, <2>4 DEF Grows
<1>28. Accounted(filled, krw, usd, budget, bought, fee)
  <2>1. budget = contribution + Prior(point).reserve - reserve + Prior(point).cashKrw - krw
    BY <1>5, <1>18, <1>22, <1>23
  <2>2. trade = Prior(point).cashUsd + (Proceeds - Percent(Proceeds, Commission)) + bought
    BY <1>8, <1>19, <1>20, <1>21, <1>22
  <2>3. fee = IF budget = 0 THEN 0
              ELSE Percent(Prior(point).cashUsd + (Proceeds - Percent(Proceeds, Commission)) + bought, Commission)
    BY <1>9, <1>13, <2>2
  <2>4. PICK kept \in Nat : kept = Cost(shares, market.close)
    BY <1>5, CostFacts
  <2>5. usd + (kept + cost) = trade - fee + kept
    BY <1>10, <1>17
  <2>6. trade = pu + (gross - levy) + bought
    BY <1>8, <1>22
  <2>7. usd + (kept + cost) = pu + (gross - levy) + bought - fee + kept
    BY <2>5, <2>6
  <2>8. usd + Cost(filled, market.close)
          = Prior(point).cashUsd + (Proceeds - Percent(Proceeds, Commission)) + bought - fee + Cost(shares, market.close)
    BY <1>19, <1>20, <1>21, <1>26, <2>4, <2>7
  <2>9. usd < SumFunctionOnSet(market.close, DOMAIN mix.parts)
    BY <1>15, <1>16, <1>17
  <2> QED BY <1>7, <1>18, <1>23, <2>1, <2>3, <2>8, <2>9 DEF Accounted
<1> QED BY <1>24, <1>27, <1>28, Recording

-----------------------------------------------------------------------------
(* The paper book *)

\* What is in the set and later is not leaves it at some number.
LEMMA LeavesAt ==
  ASSUME NEW P, NEW j \in Int, NEW k \in Int, j < k, j \in P, k \notin P
  PROVE  \E i \in j + 1 .. k : i - 1 \in P /\ i \notin P
<1>1. PICK T : T = {x \in Nat : j + x \notin P /\ j + x =< k}
  OBVIOUS
<1>2. k - j \in T /\ 0 \notin T /\ T \subseteq Nat
  BY <1>1
<1>3. PICK x \in T : \A y \in T : x =< y
  <2>1. T # {}
    BY <1>2
  <2> QED BY <1>2, <2>1, LeastNatural
<1>4. x \in Nat /\ x # 0 /\ j + x \notin P /\ j + x =< k
  BY <1>1, <1>2, <1>3
<1>5. j + (x - 1) \in P
  <2>1. x - 1 \in Nat /\ x - 1 \notin T /\ j + (x - 1) =< k
    BY <1>2, <1>3, <1>4
  <2> QED BY <1>1, <2>1
<1>6. (j + x) - 1 \in P /\ j + x \in j + 1 .. k
  BY <1>4, <1>5
<1> QED BY <1>4, <1>6

\* The snapshots a ticker is in.
SeenAt(t) == {k \in 1 .. Len(snapshots) : t \in DOMAIN snapshots[k].shares}

LEMMA SnapshotFacts ==
  ASSUME AllocInv, NEW k \in 1 .. Len(snapshots)
  PROVE  /\ Len(snapshots) \in Nat /\ Parts(snapshots[k].shares) /\ Carried(k) /\ Opened(k)
         /\ k \in 1 .. Len(Points) /\ Execution(k) \in Int
         /\ \A j \in 1 .. Len(snapshots) : j < k => Execution(j) < Execution(k)
         /\ k = 1 => DOMAIN Prior(k).shares = {}
         /\ k # 1 => Prior(k).shares = snapshots[k - 1].shares /\ k - 1 \in 1 .. Len(snapshots)
<1>0. AllocTyped /\ Progress /\ History
  BY DEF AllocInv
<1>1. PICK n \in Nat : n = Len(snapshots)
  BY <1>0 DEF AllocTyped
<1>2. snapshots[k] \in Recorded
  BY <1>0 DEF AllocTyped
<1>3. Parts(snapshots[k].shares)
  BY <1>2, RecordedFacts
<1>4. Carried(k) /\ Opened(k)
  BY <1>0 DEF History, Entry
<1>5. 1 .. n \subseteq 1 .. Len(Points)
  <2>1. Len(Points) \in Nat /\ point \in Nat
    BY <1>0, PointsFacts DEF AllocTyped
  <2>2. n =< Len(Points)
    BY <1>0, <1>1, <2>1 DEF Progress
  <2> QED BY <2>1, <2>2
<1>6. Execution(k) \in Int /\ \A j \in 1 .. Len(snapshots) : j < k => Execution(j) < Execution(k)
  <2>1. k \in 1 .. Len(Points)
    BY <1>1, <1>5
  <2> QED BY <1>0, <1>1, <1>5, <2>1, ExecutionGrows DEF AllocTyped
<1>7. ASSUME k = 1 PROVE DOMAIN Prior(k).shares = {}
  <2>1. PICK r : r = [shares |-> <<>>, cashKrw |-> 0, cashUsd |-> 0, reserve |-> 0]
    OBVIOUS
  <2>2. Prior(k) = r /\ r.shares = <<>>
    BY <1>7, <2>1 DEF Prior
  <2> QED BY <2>2
<1>8. ASSUME k # 1 PROVE Prior(k).shares = snapshots[k - 1].shares /\ k - 1 \in 1 .. Len(snapshots)
  BY <1>1, <1>8 DEF Prior
<1> QED BY <1>1, <1>3, <1>4, <1>5, <1>6, <1>7, <1>8

\* A ticker that left was delisted, and never returns.
LEMMA NeverReturns ==
  ASSUME AllocInv, NEW t, NEW j \in SeenAt(t), NEW k \in 1 .. Len(snapshots), k \notin SeenAt(t), j < k,
         NEW m \in 1 .. Len(snapshots), k < m
  PROVE  m \notin SeenAt(t)
<1> SUFFICES ASSUME m \in SeenAt(t) PROVE FALSE
  OBVIOUS
<1>0. j \in Int /\ k \in Int /\ m \in Int /\ j \in 1 .. Len(snapshots)
  BY DEF SeenAt
<1>1. PICK a \in j + 1 .. k : a - 1 \in SeenAt(t) /\ a \notin SeenAt(t)
  BY <1>0, LeavesAt
<1>2. PICK Q : Q = Int \ SeenAt(t)
  OBVIOUS
<1>3. PICK b \in k + 1 .. m : b - 1 \in Q /\ b \notin Q
  <2>1. k \in Q /\ m \notin Q
    BY <1>0, <1>2
  <2> QED BY <1>0, <2>1, LeavesAt
<1>4. Len(snapshots) \in Nat
  BY SnapshotFacts
<1>5. a \in 1 .. Len(snapshots) /\ b \in 1 .. Len(snapshots) /\ a # 1 /\ b # 1 /\ a < b /\ a \in Int /\ b \in Int
  BY <1>0, <1>1, <1>3, <1>4
<1>6. b \in SeenAt(t) /\ b - 1 \notin SeenAt(t)
  BY <1>2, <1>3, <1>5
<1>7. t \in DOMAIN Prior(a).shares /\ t \notin DOMAIN snapshots[a].shares
  BY <1>1, <1>5, SnapshotFacts DEF SeenAt
<1>8. config.membership /\ lives[t].last < Execution(a)
  BY <1>5, <1>7, SnapshotFacts DEF Carried
<1>9. t \in DOMAIN snapshots[b].shares /\ t \notin DOMAIN Prior(b).shares
  BY <1>5, <1>6, SnapshotFacts DEF SeenAt
<1>10. Execution(b) =< lives[t].last
  BY <1>5, <1>8, <1>9, SnapshotFacts DEF Opened
<1>11. Execution(a) < Execution(b) /\ Execution(a) \in Int /\ Execution(b) \in Int
  BY <1>5, SnapshotFacts
<1>12. lives[t].last \in Int
  <2>1. t \in Tickers
    BY <1>5, <1>9, SnapshotFacts, PartsFacts
  <2> QED BY <2>1 DEF AllocInv, AllocTyped
<1> QED BY <1>8, <1>10, <1>11, <1>12

\* The last lot before a snapshot: nought where none was seen, and the one just
\* before where the ticker was in it.
LEMMA PriorLotFacts ==
  ASSUME AllocInv, NEW t, NEW k \in 1 .. Len(snapshots) + 1
  PROVE  /\ (SeenAt(t) \cap 1 .. k - 1 = {} => PriorLot(k, t) = 0)
         /\ \A j \in SeenAt(t) : j < k /\ SeenAt(t) \cap j + 1 .. k - 1 = {} => PriorLot(k, t) = snapshots[j].shares[t]
<1>0. Len(snapshots) \in Nat
  BY DEF AllocInv, AllocTyped
<1>1. PICK seen : seen = {j \in 1 .. k - 1 : t \in DOMAIN snapshots[j].shares}
  OBVIOUS
<1>2. seen = SeenAt(t) \cap 1 .. k - 1
  BY <1>0, <1>1 DEF SeenAt
<1>3. PriorLot(k, t) = IF seen = {} THEN 0 ELSE snapshots[Max(seen)].shares[t]
  BY <1>1 DEF PriorLot
<1>4. ASSUME NEW j \in SeenAt(t), j < k, SeenAt(t) \cap j + 1 .. k - 1 = {}
      PROVE  PriorLot(k, t) = snapshots[j].shares[t]
  <2>1. j \in seen /\ seen \subseteq Int
    BY <1>0, <1>1, <1>4 DEF SeenAt
  <2>2. \A x \in seen : j >= x
    <3> SUFFICES ASSUME NEW x \in seen, ~(j >= x) PROVE FALSE
      OBVIOUS
    <3>1. x \in SeenAt(t) \cap j + 1 .. k - 1
      BY <1>2, <2>1
    <3> QED BY <1>4, <3>1
  <2>3. Max(seen) = j
    BY <2>1, <2>2, MaxIs
  <2> QED BY <1>3, <2>1, <2>3
<1> QED BY <1>2, <1>3, <1>4

LEMMA PriorLotStands ==
  ASSUME AllocInv, NEW t, NEW j \in 1 .. Len(snapshots) + 1, NEW k \in 1 .. Len(snapshots) + 1,
         SeenAt(t) \cap 1 .. k - 1 = SeenAt(t) \cap 1 .. j - 1
  PROVE  PriorLot(k, t) = PriorLot(j, t)
<1>0. Len(snapshots) \in Nat
  BY DEF AllocInv, AllocTyped
<1>1. ASSUME NEW i \in 1 .. Len(snapshots) + 1
      PROVE  {e \in 1 .. i - 1 : t \in DOMAIN snapshots[e].shares} = SeenAt(t) \cap 1 .. i - 1
  BY <1>0 DEF SeenAt
<1>2. {e \in 1 .. k - 1 : t \in DOMAIN snapshots[e].shares} = {e \in 1 .. j - 1 : t \in DOMAIN snapshots[e].shares}
  BY <1>1
<1> QED BY <1>2, Zenon DEF PriorLot

\* No snapshot sells.
LEMMA OrderIsNat ==
  ASSUME AllocInv, NEW t, NEW k \in SeenAt(t)
  PROVE  PriorLot(k, t) \in Nat /\ snapshots[k].shares[t] \in Nat /\ OrderOf(k, t) \in Nat
<1>0. Len(snapshots) \in Nat /\ k \in 1 .. Len(snapshots)
  BY SnapshotFacts DEF SeenAt
<1>1. PICK x \in Nat : x = snapshots[k].shares[t]
  BY <1>0, SnapshotFacts, PartsFacts DEF SeenAt
<1>2. k \in 1 .. Len(snapshots) + 1
  BY <1>0
<1>3. CASE SeenAt(t) \cap 1 .. k - 1 = {}
  <2>1. PriorLot(k, t) = 0
    BY <1>2, <1>3, PriorLotFacts
  <2> QED BY <1>1, <2>1 DEF OrderOf
<1>4. CASE SeenAt(t) \cap 1 .. k - 1 # {}
  <2>1. PICK j \in SeenAt(t) : j \in 1 .. k - 1
    BY <1>4
  <2>2. k - 1 \in SeenAt(t)
    <3>1. ASSUME k - 1 \notin SeenAt(t) PROVE FALSE
      <4>1. j < k - 1 /\ k - 1 \in 1 .. Len(snapshots) /\ k - 1 < k
        BY <1>0, <2>1, <3>1
      <4> QED BY <1>0, <3>1, <4>1, NeverReturns
    <3> QED BY <3>1
  <2>3. PriorLot(k, t) = snapshots[k - 1].shares[t]
    <3>1. SeenAt(t) \cap (k - 1) + 1 .. k - 1 = {} /\ k - 1 < k
      BY <1>0
    <3> QED BY <1>2, <2>2, <3>1, PriorLotFacts
  <2>4. k # 1 /\ k - 1 \in 1 .. Len(snapshots)
    BY <1>0, <2>1
  <2>5. t \in DOMAIN Prior(k).shares /\ Prior(k).shares[t] = PriorLot(k, t)
    BY <1>0, <2>2, <2>3, <2>4, SnapshotFacts DEF SeenAt
  <2>6. Prior(k).shares[t] =< snapshots[k].shares[t]
    <3>1. t \in DOMAIN snapshots[k].shares
      BY DEF SeenAt
    <3> QED BY <1>0, <2>5, <3>1, SnapshotFacts DEF Carried
  <2>7. PriorLot(k, t) \in Nat
    <3>1. PICK f : f = snapshots[k - 1].shares
      OBVIOUS
    <3>2. Parts(f)
      BY <2>4, <3>1, SnapshotFacts
    <3>3. t \in DOMAIN f
      BY <2>2, <3>1 DEF SeenAt
    <3>4. f[t] \in Nat
      BY <3>2, <3>3, PartsFacts
    <3> QED BY <2>3, <3>1, <3>4
  <2>8. PICK y \in Nat : y = PriorLot(k, t)
    BY <2>7
  <2> QED BY <1>1, <2>5, <2>6, <2>8 DEF OrderOf
<1> QED BY <1>3, <1>4

\* The buys of a ticker up to a snapshot are the last lot seen of it.
LEMMA BookTelescopes ==
  ASSUME AllocInv, NEW t, NEW f, f = [k \in 1 .. Len(snapshots) |-> IF k \in SeenAt(t) THEN OrderOf(k, t) ELSE 0],
         NEW m \in Nat, m =< Len(snapshots)
  PROVE  SumFunctionOnSet(f, 1 .. m) = PriorLot(m + 1, t)
<1>1. PICK n \in Nat : n = Len(snapshots)
  BY DEF AllocInv, AllocTyped
<1>2. \A k \in 1 .. n : f[k] \in Nat
  BY <1>1, OrderIsNat
<1>3. PICK Q : Q = {k \in Nat : k =< n => SumFunctionOnSet(f, 1 .. k) = PriorLot(k + 1, t)}
  OBVIOUS
<1>4. 0 \in Q
  <2>1. 1 .. 0 = {} /\ 0 + 1 \in 1 .. Len(snapshots) + 1
    BY <1>1
  <2>2. PriorLot(0 + 1, t) = 0
    <3>1. SeenAt(t) \cap 1 .. (0 + 1) - 1 = {}
      OBVIOUS
    <3> QED BY <2>1, <3>1, PriorLotFacts
  <2>3. SumFunctionOnSet(f, {}) = 0
    BY SumOfNone
  <2> QED BY <1>3, <2>1, <2>2, <2>3
<1>5. ASSUME NEW k \in Nat, k \in Q PROVE k + 1 \in Q
  <2> SUFFICES ASSUME k + 1 =< n PROVE SumFunctionOnSet(f, 1 .. k + 1) = PriorLot((k + 1) + 1, t)
    BY <1>3
  <2>1. SumFunctionOnSet(f, 1 .. k) = PriorLot(k + 1, t)
    BY <1>1, <1>3, <1>5
  <2>2. k + 1 \in 1 .. n /\ (k + 1) + 1 \in 1 .. Len(snapshots) + 1 /\ k + 1 \in 1 .. Len(snapshots) + 1
    BY <1>1
  <2>3. SumFunctionOnSet(f, 1 .. k + 1) = SumFunctionOnSet(f, 1 .. k) + f[k + 1]
    <3>1. 1 \in Int /\ k \in Int
      OBVIOUS
    <3>2. IsFiniteSet(1 .. k) /\ k + 1 \notin 1 .. k /\ (1 .. k) \cup {k + 1} = 1 .. k + 1
      <4>1. IsFiniteSet(1 .. k)
        BY <3>1, FS_Interval
      <4> QED BY <4>1
    <3>3. \A x \in (1 .. k) \cup {k + 1} : f[x] \in Int
      <4> SUFFICES ASSUME NEW x \in (1 .. k) \cup {k + 1} PROVE f[x] \in Int
        OBVIOUS
      <4>1. x \in 1 .. n
        OBVIOUS
      <4> QED BY <1>2, <4>1
    <3>4. SumFunctionOnSet(f, (1 .. k) \cup {k + 1}) = SumFunctionOnSet(f, 1 .. k) + f[k + 1]
      BY <3>2, <3>3, SumOfMore
    <3> QED BY <3>2, <3>4
  <2>4. CASE k + 1 \in SeenAt(t)
    <3>1. PriorLot((k + 1) + 1, t) = snapshots[k + 1].shares[t]
      <4>1. k + 1 < (k + 1) + 1 /\ SeenAt(t) \cap (k + 1) + 1 .. ((k + 1) + 1) - 1 = {}
        OBVIOUS
      <4> QED BY <2>2, <2>4, <4>1, PriorLotFacts
    <3>2. f[k + 1] = OrderOf(k + 1, t)
      BY <1>1, <2>2, <2>4
    <3>3. PICK x \in Nat : x = PriorLot(k + 1, t)
      BY <2>4, OrderIsNat
    <3>4. PICK y \in Nat : y = snapshots[k + 1].shares[t]
      BY <2>4, OrderIsNat
    <3>5. f[k + 1] = y - x
      BY <3>2, <3>3, <3>4 DEF OrderOf
    <3> QED BY <2>1, <2>3, <3>1, <3>3, <3>4, <3>5
  <2>5. CASE k + 1 \notin SeenAt(t)
    <3>1. f[k + 1] = 0
      BY <1>1, <2>2, <2>5
    <3>2. PriorLot((k + 1) + 1, t) = PriorLot(k + 1, t)
      <4>1. SeenAt(t) \cap 1 .. ((k + 1) + 1) - 1 = SeenAt(t) \cap 1 .. (k + 1) - 1
        <5>1. 1 .. ((k + 1) + 1) - 1 = (1 .. (k + 1) - 1) \cup {k + 1}
          OBVIOUS
        <5> QED BY <2>5, <5>1
      <4> QED BY <2>2, <4>1, PriorLotStands
    <3>3. SumFunctionOnSet(f, 1 .. k) \in Int
      <4>1. 1 \in Int /\ k \in Int
        OBVIOUS
      <4>2. IsFiniteSet(1 .. k)
        BY <4>1, FS_Interval
      <4>3. \A x \in 1 .. k : f[x] \in Int
        <5>1. \A x \in 1 .. k : x \in 1 .. n
          BY <1>1
        <5> QED BY <1>2, <5>1
      <4> QED BY <4>2, <4>3, SumIsInt
    <3>4. PICK z \in Int : z = SumFunctionOnSet(f, 1 .. k)
      BY <3>3
    <3> QED BY <2>1, <2>3, <3>1, <3>2, <3>4
  <2> QED BY <2>4, <2>5
<1>6. \A k \in Nat : k \in Q
  BY <1>4, <1>5, CountsUp
<1> QED BY <1>1, <1>3, <1>6

\* The book of a ticker is the last lot a snapshot holds of it.
LEMMA BookIsLast ==
  ASSUME AllocInv, NEW t
  PROVE  BookOf(t) = PriorLot(Len(snapshots) + 1, t)
<1>1. PICK n \in Nat : n = Len(snapshots) /\ DOMAIN snapshots = 1 .. n
  BY DEF AllocInv, AllocTyped
<1>2. PICK f : f = [k \in 1 .. n |-> IF k \in SeenAt(t) THEN OrderOf(k, t) ELSE 0]
  OBVIOUS
<1>3. PICK g : g = [k \in SeenAt(t) |-> LargerOf(0, OrderOf(k, t))]
  OBVIOUS
<1>4. BookOf(t) = SumFunctionOnSet(g, SeenAt(t))
  <2>1. {k \in DOMAIN snapshots : t \in DOMAIN snapshots[k].shares} = SeenAt(t)
    BY <1>1 DEF SeenAt
  <2>2. BookOf(t) = MapThenSumSet(LAMBDA k : LargerOf(0, OrderOf(k, t)), SeenAt(t))
    BY <2>1, Zenon DEF BookOf
  <2>3. MapThenSumSet(LAMBDA k : LargerOf(0, OrderOf(k, t)), SeenAt(t)) = SumFunctionOnSet(g, SeenAt(t))
    <3> HIDE DEF SeenAt
    <3> QED BY <1>3 DEF SumFunctionOnSet, MapThenSumSet, FoldFunctionOnSet, MapThenFoldSet
  <2> QED BY <2>2, <2>3
<1>5. \A k \in SeenAt(t) : g[k] = f[k]
  <2> SUFFICES ASSUME NEW k \in SeenAt(t) PROVE g[k] = f[k]
    OBVIOUS
  <2>1. PICK x \in Nat : x = OrderOf(k, t)
    BY OrderIsNat
  <2>2. LargerOf(0, x) = x
    BY DEF LargerOf
  <2>3. k \in 1 .. n
    BY <1>1 DEF SeenAt
  <2> QED BY <1>2, <1>3, <2>1, <2>2, <2>3
<1>6. IsFiniteSet(1 .. n) /\ SeenAt(t) \subseteq 1 .. n
  <2>1. 1 \in Int /\ n \in Int
    OBVIOUS
  <2> QED BY <1>1, <2>1, FS_Interval DEF SeenAt
<1>7. SumFunctionOnSet(g, SeenAt(t)) = SumFunctionOnSet(f, SeenAt(t))
  <2>1. IsFiniteSet(SeenAt(t))
    <3>1. SeenAt(t) \in SUBSET (1 .. n)
      BY <1>6
    <3> QED BY <1>6, <3>1, FS_Subset
  <2> QED BY <1>5, <2>1, SumOfEqual
<1>8. SumFunctionOnSet(f, 1 .. n) = SumFunctionOnSet(f, SeenAt(t))
  <2>1. \A k \in 1 .. n : f[k] \in Int
    BY <1>2, OrderIsNat
  <2>2. \A k \in (1 .. n) \ SeenAt(t) : f[k] = 0
    BY <1>2
  <2> QED BY <1>6, <2>1, <2>2, SumExtended
<1>9. SumFunctionOnSet(f, 1 .. n) = PriorLot(n + 1, t)
  <2>1. f = [k \in 1 .. Len(snapshots) |-> IF k \in SeenAt(t) THEN OrderOf(k, t) ELSE 0]
    BY <1>1, <1>2
  <2> QED BY <1>1, <2>1, BookTelescopes
<1> QED BY <1>1, <1>4, <1>7, <1>8, <1>9

LEMMA HeldIsLast ==
  ASSUME AllocInv, stage = "done", NEW t
  PROVE  LET n == Len(snapshots)
         IN  Held(t) = IF n \in SeenAt(t) THEN snapshots[n].shares[t] ELSE 0
<1>0. AllocTyped /\ Progress /\ Ledger
  BY DEF AllocInv
<1>1. PICK n \in Nat : n = Len(snapshots) /\ point = n + 1
  <2>1. Len(snapshots) \in Nat /\ point \in Nat
    BY <1>0 DEF AllocTyped
  <2> QED BY <1>0, <2>1 DEF Progress
<1>2. shares = Prior(point).shares
  BY <1>0 DEF Ledger, Idle
<1>3. CASE n = 0
  <2>1. PICK r : r = [shares |-> <<>>, cashKrw |-> 0, cashUsd |-> 0, reserve |-> 0]
    OBVIOUS
  <2>2. Prior(point) = r /\ r.shares = <<>>
    BY <1>1, <1>3, <2>1 DEF Prior
  <2>3. DOMAIN shares = {}
    BY <1>2, <2>2
  <2>4. n \notin SeenAt(t)
    BY <1>3 DEF SeenAt
  <2> QED BY <1>1, <2>3, <2>4 DEF Held
<1>4. CASE n # 0
  <2>1. shares = snapshots[n].shares
    BY <1>1, <1>2, <1>4 DEF Prior
  <2>2. n \in SeenAt(t) <=> t \in DOMAIN shares
    BY <1>1, <1>4, <2>1 DEF SeenAt
  <2> QED BY <1>1, <2>1, <2>2 DEF Held
<1> QED BY <1>3, <1>4

\* The replay misses exactly what was settled.
LEMMA AllocReplayPaper == ASSUME AllocInv, ReplayPaper PROVE AllocInv'
<1>0. /\ AllocTyped /\ Progress /\ Shaped /\ Ledger /\ History /\ StockCapped /\ Dust /\ Replayed /\ stage = "done"
      /\ UNCHANGED <<config, lives, stage, point, shapedCredits, drift, market, signal, mix, incumbents,
                     contribution, investable, books>>
  BY DEF AllocInv, ReplayPaper
<1>1. PICK n \in Nat : n = Len(snapshots) /\ DOMAIN snapshots = 1 .. n
  BY <1>0 DEF AllocTyped
<1>2. ~ \E k \in DOMAIN snapshots : \E t \in DOMAIN snapshots[k].shares : OrderOf(k, t) < 0
  <2> SUFFICES ASSUME NEW k \in DOMAIN snapshots, NEW t \in DOMAIN snapshots[k].shares PROVE ~(OrderOf(k, t) < 0)
    OBVIOUS
  <2>1. k \in SeenAt(t)
    BY <1>1 DEF SeenAt
  <2>2. PICK x \in Nat : x = OrderOf(k, t)
    BY <2>1, OrderIsNat
  <2> QED BY <2>2
<1>3. ASSUME Sold PROVE \E t \in Tickers : BookOf(t) # Held(t)
  <2>1. PICK k \in 1 .. n : \E t \in GoneFrom(k) : Prior(k).shares[t] > 0
    BY <1>1, <1>3 DEF Sold
  <2>2. PICK t \in GoneFrom(k) : Prior(k).shares[t] > 0
    BY <2>1
  <2>3. t \in DOMAIN Prior(k).shares /\ t \notin DOMAIN snapshots[k].shares
    BY <2>2 DEF GoneFrom
  <2>4. k # 1 /\ Prior(k).shares = snapshots[k - 1].shares /\ k - 1 \in 1 .. n
    BY <1>1, <2>3, SnapshotFacts
  <2>5. k - 1 \in SeenAt(t) /\ k \notin SeenAt(t)
    BY <1>1, <2>3, <2>4 DEF SeenAt
  <2>6. SeenAt(t) \cap (k - 1) + 1 .. (n + 1) - 1 = {}
    <3> SUFFICES ASSUME NEW m \in SeenAt(t), m \in k .. n PROVE FALSE
      OBVIOUS
    <3>1. m # k
      BY <2>5
    <3>2. k < m /\ m \in 1 .. n /\ k - 1 < k
      BY <3>1
    <3> QED BY <1>1, <2>5, <3>2, NeverReturns
  <2>7. PriorLot(n + 1, t) = snapshots[k - 1].shares[t]
    <3>1. n + 1 \in 1 .. Len(snapshots) + 1 /\ k - 1 < n + 1
      BY <1>1
    <3> QED BY <2>5, <2>6, <3>1, PriorLotFacts
  <2>8. BookOf(t) = Prior(k).shares[t]
    BY <1>1, <2>4, <2>7, BookIsLast
  <2>9. Held(t) = 0
    <3>1. n \notin SeenAt(t)
      BY <2>6
    <3> QED BY <1>0, <1>1, <3>1, HeldIsLast
  <2>10. PICK f : f = snapshots[k - 1].shares
    OBVIOUS
  <2>11. Parts(f) /\ t \in DOMAIN f
    BY <1>1, <2>3, <2>4, <2>10, SnapshotFacts
  <2>12. t \in Tickers /\ f[t] \in Nat
    BY <2>11, PartsFacts
  <2>13. BookOf(t) # Held(t)
    BY <2>2, <2>4, <2>8, <2>9, <2>10, <2>12
  <2> QED BY <2>12, <2>13
<1>4. ASSUME NEW t \in Tickers, BookOf(t) # Held(t) PROVE Sold
  <2>1. BookOf(t) = PriorLot(n + 1, t)
    BY <1>1, BookIsLast
  <2>2. n + 1 \in 1 .. Len(snapshots) + 1
    BY <1>1
  <2>3. n \notin SeenAt(t)
    <3>1. ASSUME n \in SeenAt(t) PROVE FALSE
      <4>1. n < n + 1 /\ SeenAt(t) \cap n + 1 .. (n + 1) - 1 = {}
        OBVIOUS
      <4>2. PriorLot(n + 1, t) = snapshots[n].shares[t]
        BY <2>2, <3>1, <4>1, PriorLotFacts
      <4>3. Held(t) = snapshots[n].shares[t]
        BY <1>0, <1>1, <3>1, HeldIsLast
      <4> QED BY <1>4, <2>1, <4>2, <4>3
    <3> QED BY <3>1
  <2>4. Held(t) = 0
    BY <1>0, <1>1, <2>3, HeldIsLast
  <2>5. SeenAt(t) # {}
    <3>1. ASSUME SeenAt(t) = {} PROVE FALSE
      <4>1. SeenAt(t) \cap 1 .. (n + 1) - 1 = {}
        BY <3>1
      <4>2. PriorLot(n + 1, t) = 0
        BY <2>2, <4>1, PriorLotFacts
      <4> QED BY <1>4, <2>1, <2>4, <4>2
    <3> QED BY <3>1
  <2>6. PICK j \in SeenAt(t) : j \in 1 .. n /\ j < n
    <3>1. PICK j \in SeenAt(t) : TRUE
      BY <2>5
    <3>2. j \in 1 .. n /\ j # n
      BY <1>1, <2>3, <3>1 DEF SeenAt
    <3> QED BY <3>1, <3>2
  <2>7. PICK a \in j + 1 .. n : a - 1 \in SeenAt(t) /\ a \notin SeenAt(t)
    <3>1. j \in Int /\ n \in Int
      BY <2>6
    <3> QED BY <2>3, <2>6, <3>1, LeavesAt
  <2>8. a \in 1 .. n /\ a # 1 /\ a - 1 < a
    BY <2>6, <2>7
  <2>9. t \in GoneFrom(a) /\ Prior(a).shares = snapshots[a - 1].shares
    BY <1>1, <2>7, <2>8, SnapshotFacts DEF SeenAt, GoneFrom
  <2>10. SeenAt(t) \cap (a - 1) + 1 .. (n + 1) - 1 = {}
    <3> SUFFICES ASSUME NEW m \in SeenAt(t), m \in a .. n PROVE FALSE
      BY <2>8
    <3>1. m # a
      BY <2>7
    <3>2. a < m /\ m \in 1 .. n
      BY <2>8, <3>1
    <3> QED BY <1>1, <2>7, <2>8, <3>2, NeverReturns
  <2>11. PriorLot(n + 1, t) = snapshots[a - 1].shares[t]
    <3>1. a - 1 < n + 1
      BY <2>8
    <3> QED BY <2>2, <2>7, <2>10, <3>1, PriorLotFacts
  <2>12. PICK f : f = snapshots[a - 1].shares
    OBVIOUS
  <2>13. Parts(f) /\ t \in DOMAIN f
    BY <1>1, <2>7, <2>8, <2>12, SnapshotFacts DEF SeenAt
  <2>14. f[t] \in Nat /\ f[t] # 0
    BY <1>4, <2>1, <2>4, <2>11, <2>12, <2>13, PartsFacts
  <2>15. Prior(a).shares[t] > 0
    BY <2>9, <2>12, <2>14
  <2> QED BY <1>1, <2>8, <2>9, <2>15 DEF Sold
<1>5. replay' = IF Sold THEN "mismatch" ELSE "reconciled"
  BY <1>2, <1>3, <1>4, Zenon DEF ReplayPaper
<1>6. UNCHANGED <<config, lives, snapshots>> /\ UNCHANGED <<config, point, snapshots>>
      /\ UNCHANGED <<config, shapedCredits, drift>> /\ UNCHANGED <<point, books>>
      /\ UNCHANGED <<config, reserve, contribution>> /\ UNCHANGED <<snapshots, cashUsd, market, mix>>
      /\ UNCHANGED <<config, lives, point, market, signal, mix, contribution, investable, books>>
  BY <1>0 DEF books
<1>7. stage' = stage /\ stage' \in Stages /\ stage' \in Idle /\ stage' \notin Running
  BY <1>0 DEF Stages, Idle, Running
<1>8. AllocTyped'
  BY <1>0, <1>6, <1>7, TypedStands
<1>9. Progress' /\ Shaped'
  BY <1>0, <1>6, <1>7, ProgressStands, ShapedStands
<1>10. Ledger' /\ History' /\ StockCapped' /\ Dust'
  BY <1>0, <1>6, <1>7, LedgerStands, HistoryStands, StockStands, DustStands
<1>11. Replayed'
  <2>1. \A k : Prior(k)' = Prior(k) /\ snapshots' = snapshots
    BY <1>6, PriorStands
  <2>2. Sold' = Sold
    BY <2>1 DEF Sold, GoneFrom
  <2> QED BY <1>0, <1>5, <1>7, <2>2 DEF Replayed
<1> QED BY <1>8, <1>9, <1>10, <1>11 DEF AllocInv

LEMMA AllocSteps == AllocInv /\ [AllocationNext]_allocationVars => AllocInv'
<1> SUFFICES ASSUME AllocInv, [AllocationNext]_allocationVars PROVE AllocInv'
  OBVIOUS
<1>1. CASE CheckConfig
  BY <1>1, AllocCheckConfig
<1>2. CASE ShapeCredit
  BY <1>2, AllocShapeCredit
<1>3. CASE SettleDelisted
  BY <1>3, AllocSettleDelisted
<1>4. CASE ResolveTargets
  BY <1>4, AllocResolveTargets
<1>5. CASE CreditContribution
  BY <1>5, AllocCreditContribution
<1>6. CASE FailPoint
  BY <1>6, AllocFailPoint
<1>7. CASE BuyLots
  BY <1>7, AllocBuyLots
<1>8. CASE SkipBuying
  BY <1>8, AllocSkipBuying
<1>9. CASE Abort
  BY <1>9, AllocAbort
<1>10. CASE Finish
  BY <1>10, AllocFinish
<1>11. CASE ReplayPaper
  BY <1>11, AllocReplayPaper
<1>12. CASE UNCHANGED allocationVars
  BY <1>12, AllocStutter
<1> QED
  BY <1>1, <1>2, <1>3, <1>4, <1>5, <1>6, <1>7, <1>8, <1>9, <1>10, <1>11, <1>12 DEF AllocationNext

-----------------------------------------------------------------------------
(* What the engine promises *)

\* Equal parts for the one or two points of a month.
Share(f, S, c) == IsFiniteSet(S) /\ Cardinality(S) \in 1 .. 2 /\ c \in Nat /\ \A k \in S : f[k] = c
LEMMA SumOfShares ==
  ASSUME NEW f, NEW S, NEW c, Share(f, S, c)
  PROVE  SumFunctionOnSet(f, S) = Cardinality(S) * c
<1>0. PICK n \in 1 .. 2 : n = Cardinality(S) /\ IsFiniteSet(S) /\ c \in Nat /\ \A k \in S : f[k] = c
  BY DEF Share
<1>1. \A k \in S : f[k] \in Int
  BY <1>0
<1>2. S # {}
  BY <1>0, FS_EmptySet
<1>3. PICK a \in S : TRUE
  BY <1>2
<1>4. PICK R : R = S \ {a}
  OBVIOUS
<1>5. IsFiniteSet(R) /\ Cardinality(R) = n - 1 /\ SumFunctionOnSet(f, S) = c + SumFunctionOnSet(f, R)
  <2>1. IsFiniteSet(R) /\ Cardinality(R) = n - 1
    BY <1>0, <1>3, <1>4, FS_RemoveElement
  <2>2. SumFunctionOnSet(f, S) = f[a] + SumFunctionOnSet(f, R)
    BY <1>0, <1>1, <1>3, <1>4, SumWithout
  <2>3. f[a] = c
    BY <1>0, <1>3
  <2> QED BY <2>1, <2>2, <2>3
<1>6. CASE n = 1
  <2>1. R = {}
    BY <1>0, <1>5, <1>6, FS_EmptySet
  <2>2. SumFunctionOnSet(f, R) = 0
    BY <2>1, SumOfNone
  <2> QED BY <1>0, <1>5, <1>6, <2>2
<1>7. CASE n = 2
  <2>1. R # {}
    <3>1. Cardinality(R) # 0
      BY <1>5, <1>7
    <3> QED BY <3>1, FS_EmptySet
  <2>2. PICK b \in R : TRUE
    BY <2>1
  <2>3. PICK T : T = R \ {b}
    OBVIOUS
  <2>4. \A k \in R : f[k] \in Int
    BY <1>1, <1>4
  <2>5. IsFiniteSet(T) /\ Cardinality(T) = Cardinality(R) - 1
    BY <1>5, <2>2, <2>3, FS_RemoveElement
  <2>6. SumFunctionOnSet(f, R) = f[b] + SumFunctionOnSet(f, T)
    BY <1>5, <2>2, <2>3, <2>4, SumWithout
  <2>7. T = {}
    <3>1. PICK r \in Int : r = Cardinality(R) /\ r = 1
      BY <1>5, <1>7
    <3>2. Cardinality(T) = r - 1
      BY <2>5, <3>1
    <3>3. Cardinality(T) = 0
      BY <3>1, <3>2
    <3> QED BY <2>5, <3>3, FS_EmptySet
  <2>8. SumFunctionOnSet(f, T) = 0 /\ f[b] = c
    <3>1. SumFunctionOnSet(f, T) = 0
      BY <2>7, SumOfNone
    <3>2. b \in S
      BY <1>4, <2>2
    <3> QED BY <1>0, <3>1, <3>2
  <2> QED BY <1>0, <1>5, <1>7, <2>6, <2>8
<1> QED BY <1>0, <1>6, <1>7

LEMMA MonthKeepsBudget ==
  ASSUME AllocInv, config.modules \cap {"shape", "adaptive"} = {}, NEW d \in config.first .. config.last,
         OfMonth(MonthOf(d)) \subseteq DOMAIN snapshots
  PROVE  MapThenSumSet(LAMBDA k : snapshots[k].contribution, OfMonth(MonthOf(d))) = Base
<1>0. AllocTyped /\ History /\ WellConfigured(config)
  BY DEF AllocInv, AllocTyped
<1>1. PICK S : S = OfMonth(MonthOf(d))
  OBVIOUS
<1>2. PICK n \in 1 .. 2 : n = Cardinality(S) /\ IsFiniteSet(S) /\ S # {} /\ S \subseteq 1 .. Len(Points)
  BY <1>0, <1>1, OfMonthFacts
<1>3. PICK f : f = [k \in S |-> snapshots[k].contribution]
  OBVIOUS
<1>4. ASSUME NEW k \in S PROVE f[k] = Base \div n /\ n * (Base \div n) = Base /\ Base \div n \in Nat
  <2>1. k \in 1 .. Len(snapshots) /\ k \in 1 .. Len(Points)
    <3>1. DOMAIN snapshots = 1 .. Len(snapshots)
      BY <1>0 DEF AllocTyped
    <3> QED BY <1>1, <1>2, <3>1
  <2>2. f[k] = SplitCredit(k)
    BY <1>0, <1>3, <2>1 DEF History, Entry, Funded
  <2>3. MonthOf(Points[k]) = MonthOf(d)
    BY <1>1 DEF OfMonth
  <2>4. SplitCredit(k) = Base \div n /\ SplitCredit(k) \in Nat /\ n * SplitCredit(k) = Base
    BY <1>0, <1>1, <1>2, <2>1, <2>3, SplitFacts
  <2> QED BY <2>2, <2>4
<1>5. PICK c \in Nat : c = Base \div n /\ n * c = Base
  BY <1>2, <1>4
<1>6. SumFunctionOnSet(f, S) = n * c
  <2>1. Share(f, S, c)
    BY <1>2, <1>4, <1>5 DEF Share
  <2> QED BY <1>2, <2>1, SumOfShares
<1>7. MapThenSumSet(LAMBDA k : snapshots[k].contribution, S) = SumFunctionOnSet(f, S)
  BY <1>3, ZenonT(60) DEF SumFunctionOnSet, MapThenSumSet, FoldFunctionOnSet, MapThenFoldSet
<1> QED BY <1>1, <1>5, <1>6, <1>7

LEMMA BudgetKept == AllocInv => CreditsKeepBudget
<1> SUFFICES ASSUME AllocInv PROVE CreditsKeepBudget
  OBVIOUS
<1>0. AllocTyped /\ Shaped /\ History /\ StockCapped
  BY DEF AllocInv
<1>1. stage # "infeasible"
  BY <1>0 DEF AllocTyped, Stages, Idle, Running
<1>2. \A i \in DOMAIN shapedCredits :
        shapedCredits[i] \in Percent(Base, ShapeLaw.min) .. Percent(Base, ShapeLaw.max)
  <2>1. shapedCredits \in Seq(Least .. Most)
    BY <1>0 DEF Shaped
  <2>2. DOMAIN shapedCredits = 1 .. Len(shapedCredits)
    BY <2>1
  <2>3. \A i \in 1 .. Len(shapedCredits) : shapedCredits[i] \in Least .. Most
    BY <2>1, ElementOf, Zenon
  <2> QED BY <2>2, <2>3 DEF Least, Most
<1>3. PICK left \in Nat : left = Left /\ drift =< Reserve(left) /\ -Debt(left) =< drift /\ drift \in Int
  BY <1>0 DEF Shaped
<1>4. drift =< (ShapeLaw.window - 1) * Percent(Base, 100 - ShapeLaw.min)
  <2>1. PICK w \in Nat : w = ShapeLaw.window - 1
    BY ShapeParameters
  <2>2. PICK v \in Nat : v = SmallerOf(left, w) /\ v =< w
    BY DEF SmallerOf
  <2>3. PICK s \in Nat : s = SaveDown
    BY ShapeParameters
  <2>4. v * s =< w * s /\ v * s \in Nat /\ w * s \in Nat
    BY <2>2, ProductIsMonotone, ProductIsNat
  <2>5. drift =< v * s
    BY <1>3, <2>1, <2>2, <2>3 DEF Reserve
  <2>6. drift =< w * s
    BY <1>3, <2>4, <2>5
  <2> QED BY <2>1, <2>3, <2>6 DEF SaveDown
<1>5. Len(shapedCredits) = Len(Points) => FoldSeq(+, 0, shapedCredits) = Len(Points) * Base
  <2> SUFFICES ASSUME Len(shapedCredits) = Len(Points) PROVE FoldSeq(+, 0, shapedCredits) = Len(Points) * Base
    OBVIOUS
  <2>1. PICK n \in Nat : n = Len(shapedCredits) /\ DOMAIN shapedCredits = 1 .. n
    BY <1>0 DEF Shaped
  <2>2. left = 0
    BY <1>3, <2>1 DEF Left
  <2>3. drift = 0
    <3>1. Reserve(left) = 0 /\ Debt(left) = 0
      BY <2>2, ReachFacts
    <3> QED BY <1>3, <3>1
  <2>4. n * Base \in Int
    BY ShapeParameters
  <2>5. SumFunctionOnSet(shapedCredits, 1 .. n) = n * Base
    BY <1>0, <2>1, <2>3, <2>4 DEF Shaped
  <2>6. FoldSeq(+, 0, shapedCredits) = SumFunctionOnSet(shapedCredits, DOMAIN shapedCredits)
    BY DEF FoldSeq, FoldFunction, SumFunctionOnSet
  <2> QED BY <2>1, <2>5, <2>6
<1>6. reserve >= 0 /\ (config.schedule \in {"v2", "v3", "v4"} => reserve =< ReserveLaw.months * contribution)
  BY <1>0 DEF AllocTyped, StockCapped
<1>7. \A k \in DOMAIN snapshots : snapshots[k].cashKrw >= Prior(k).cashKrw
  <2> SUFFICES ASSUME NEW k \in DOMAIN snapshots PROVE snapshots[k].cashKrw >= Prior(k).cashKrw
    OBVIOUS
  <2>1. k \in 1 .. Len(snapshots)
    BY <1>0 DEF AllocTyped
  <2>2. Funded(k)
    BY <1>0, <2>1 DEF History, Entry
  <2> QED BY <2>2 DEF Funded
<1>8. config.modules \cap {"shape", "adaptive"} = {} =>
        \A d \in config.first .. config.last :
          LET ofMonth == {k \in DOMAIN Points : MonthOf(Points[k]) = MonthOf(d)}
          IN ofMonth \subseteq DOMAIN snapshots =>
               MapThenSumSet(LAMBDA k : snapshots[k].contribution, ofMonth) = Base
  BY MonthKeepsBudget DEF OfMonth
<1> QED BY <1>1, <1>2, <1>4, <1>5, <1>6, <1>7, <1>8 DEF CreditsKeepBudget

LEMMA AccountsAreSound == AllocInv => AllocationSound
<1> SUFFICES ASSUME AllocInv PROVE AllocationSound
  OBVIOUS
<1>0. AllocTyped /\ Progress /\ Ledger /\ History /\ Dust /\ Replayed
  BY DEF AllocInv
<1>1. WealthExplained
  <2>1. \A k \in DOMAIN snapshots : Explained(k)
    <3>1. DOMAIN snapshots = 1 .. Len(snapshots)
      BY <1>0 DEF AllocTyped
    <3> QED BY <1>0, <3>1 DEF History, Entry
  <2> QED BY <2>1, Zenon DEF Explained, WealthExplained
<1>2. stage = "buy" /\ config.membership => Priceable
  <2> SUFFICES ASSUME stage = "buy", config.membership, NEW t \in Marked PROVE Trades(t, Execution(point))
    BY DEF Priceable
  <2>1. point \in 1 .. Len(Points)
    BY BuyFacts
  <2>2. CASE t \in DOMAIN mix.parts
    BY <1>0, <2>2 DEF Ledger
  <2>3. CASE t \in DOMAIN shares
    <3>1. shares = Restrict(Prior(point).shares, DOMAIN Prior(point).shares \ Ending)
      BY <1>0 DEF Ledger
    <3>2. t \in DOMAIN Prior(point).shares /\ t \notin Ending
      BY <2>3, <3>1 DEF Restrict
    <3>3. ~(lives[t].last < Execution(point))
      BY <3>2 DEF Ending, Ended
    <3>4. lives[t].first =< Execution(point) /\ lives[t].first \in Int /\ lives[t].last \in Int
      BY <2>1, <3>2, HeldIsListed
    <3>5. Execution(point) \in Int
      BY <1>0, <2>1, ExecutionGrows DEF AllocTyped
    <3> QED BY <3>3, <3>4, <3>5 DEF Trades
  <2> QED BY <2>2, <2>3 DEF Marked
<1>3. HoldingsSound
  BY <1>0, <1>2, Zenon DEF HoldingsSound, Dust, Replayed, Sold
<1> QED BY <1>1, <1>3 DEF AllocationSound

\* Whatever the signals, the markets and the delistings, the modules of the engine
\* that move money in time keep its sum: a month's points share one contribution,
\* shaped credits never run out of their corridor and add up to the flat plan, and
\* a reserve stays below its cap (run_allocation).
THEOREM CreditsAreKept == AllocationSpec => []CreditsKeepBudget
<1>1. AllocationSpec => []AllocInv
  BY AllocInitial, AllocSteps, PTL DEF AllocationSpec
<1> QED BY <1>1, BudgetKept, PTL

\* The wealth of an account changes by markets, contributions, spread and commission
\* alone, with a membership no point needs the close of a ticker that does not
\* trade, a fill leaves less than a lot of every ticker, and the paper book differs
\* from the path exactly where a holding was settled (run_allocation, PaperBroker).
THEOREM WealthIsExplained == AllocationSpec => []AllocationSound
<1>1. AllocationSpec => []AllocInv
  BY AllocInitial, AllocSteps, PTL DEF AllocationSpec
<1> QED BY <1>1, AccountsAreSound, PTL
=============================================================================
