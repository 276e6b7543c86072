---------------------------- MODULE PensionLedger ----------------------------
(***************************************************************************)
(* The personal pension account of the backtest engine in its Korean-fund  *)
(* mode: cash that becomes available on dated events is contributed up to  *)
(* the credit it can earn, bought into whole units on execution sessions,  *)
(* and paid out from the year the pension starts.  The contribution plan   *)
(* is made before the first session, from the whole calendar year; what a  *)
(* session may do depends on the dates.                                    *)
(*                                                                         *)
(* The target sleeves count as one.  Money is whole won, units are held in *)
(* parts of UnitScale, which every price divides, so that a sale of any    *)
(* amount is exact.  The years of the tax rules are the plan years here.   *)
(***************************************************************************)
EXTENDS AccountTax, FiniteSets, FiniteSetsExt, Sequences, Functions

CONSTANTS
  LastYear,         \* the plan years are 1 .. LastYear
  SessionsPerYear,  \* sessions of a year, one per month
  Plans,            \* records [available, dates, withdrawals]
  Holders,          \* records [opened, eligible, started, years, other]
  Prices,           \* unit prices
  Distribution,     \* what one unit distributes
  DistributionDays, \* sessions on which it may
  PayLag,           \* sessions until a distribution is paid
  SplitDays,        \* sessions on which units may double
  CostRate,         \* spread and commission, in percent
  UnitScale,
  LimitMultiplier,  \* of the annual pension limit, in percent
  LimitFinalYear    \* the last pension year with a limit

Years == 1 .. LastYear
Days == 1 .. LastYear * SessionsPerYear
YearOf(d) == 1 + (d - 1) \div SessionsPerYear
FirstDay(y) == (y - 1) * SessionsPerYear + 1
LastDay(y) == y * SessionsPerYear
PayDays == 1 .. LastYear * SessionsPerYear + PayLag
Never == 0

ASSUME CalendarAssumption == LastYear \in Nat \ {0} /\ SessionsPerYear \in Nat \ {0}
ASSUME PlansAssumption ==
  /\ Plans \subseteq [available : [Days -> Nat], dates : [Years -> SUBSET Days], withdrawals : [Years -> Nat]]
  /\ \A p \in Plans, y \in Years : \A d \in p.dates[y] : YearOf(d) = y
ASSUME HoldersAssumption ==
  Holders \subseteq [opened : Days, eligible : Days, started : Days \cup {Never},
                     years : [Years -> [income : Nat, national : Nat, local : Nat]], other : [Years -> Nat]]
ASSUME MarketAssumption ==
  /\ UnitScale \in Nat \ {0} /\ Distribution \in Nat /\ Distribution % UnitScale = 0 /\ PayLag \in Nat
  /\ CostRate \in Nat /\ \A p \in Prices : p \in Nat \ {0} /\ UnitScale % p = 0 /\ (p * CostRate) % 100 = 0
  /\ LimitMultiplier \in Nat /\ LimitMultiplier >= 100 /\ LimitFinalYear \in Nat

VARIABLES
  plan, holder,
  phase,        \* what the session does next
  day,
  events,       \* planned contributions by day
  cash, units, price,
  receivables,  \* distributions by the day they are paid
  contributed, credited, uncredited,
  fees,
  opening,      \* the value a year's limit is measured on, -1 when unset
  navs,         \* account value of every snapshot
  payouts,      \* records of the pension payments
  shortfalls,   \* what the account could not pay, by day
  attempted,    \* scheduled payouts that were due and eligible
  gain          \* what prices, splits and distributions added, in parts of UnitScale

vars == <<plan, holder, phase, day, events, cash, units, price, receivables, contributed, credited,
          uncredited, fees, opening, navs, payouts, shortfalls, attempted, gain>>
config == <<plan, holder, events>>
basis == <<contributed, credited, uncredited>>
paid == <<payouts, shortfalls, attempted>>

Total(f) == FoldFunction(+, 0, f)
TotalUpTo(f, d) == Total([e \in 1 .. d |-> f[e]])
TotalIn(f, y) == Total([e \in FirstDay(y) .. LastDay(y) |-> f[e]])

-----------------------------------------------------------------------------
(* The contribution plan *)

QuoteFor(y, amount) == OrdinaryCredit(amount, holder.years[y])
SameCredit(a, b) == a.national = b.national /\ a.local = b.local

\* Mutant: the upper half is kept although its midpoint is too much.
SearchOneMore(y, budget) ==
  LET narrow[window \in (0 .. budget) \X (0 .. budget)] ==
        LET lower == window[1]
            upper == window[2]
            midpoint == (lower + upper) \div 2
        IN IF lower >= upper THEN lower
           ELSE IF SameCredit(QuoteFor(y, midpoint), QuoteFor(y, budget)) /\ midpoint > lower
                THEN narrow[<<lower, midpoint>>] ELSE narrow[<<midpoint + 1, upper>>]
  IN narrow[<<0, budget>>]

\* The smallest contribution that earns what the whole budget would, found by
\* halving.
Search(y, budget) ==
  LET narrow[window \in (0 .. budget) \X (0 .. budget)] ==
        LET lower == window[1]
            upper == window[2]
            midpoint == (lower + upper) \div 2
        IN IF lower >= upper THEN lower
           ELSE IF SameCredit(QuoteFor(y, midpoint), QuoteFor(y, budget))
                THEN narrow[<<lower, midpoint>>] ELSE narrow[<<midpoint + 1, upper>>]
  IN narrow[<<0, budget>>]

Budget(y, unspent) == Lesser(unspent + TotalIn(plan.available, y), PensionLaw.creditLimit)

\* Cash a year does not contribute is kept for the next.
Planned ==
  LET upTo[y \in 0 .. LastYear] ==
        IF y = 0 THEN [unspent |-> 0, total |-> 0]
        ELSE LET before == upTo[y - 1].unspent
                 total == IF plan.dates[y] = {} THEN 0 ELSE Search(y, Budget(y, before))
             IN [unspent |-> before + TotalIn(plan.available, y) - total, total |-> total]
  IN upTo

\* A year's total in equal parts, the odd won on its first dates.
Part(d) ==
  LET dates == plan.dates[YearOf(d)]
      total == Planned[YearOf(d)].total
      index == Cardinality({e \in dates : e < d})
  IN IF d \notin dates THEN 0
     ELSE total \div Cardinality(dates) + (IF index < total % Cardinality(dates) THEN 1 ELSE 0)

\* Mutant: whether the cash is there by the date is not checked.
AllowedUnfunded ==
  \A d \in Days : Part(d) > 0 => /\ d >= holder.opened
                                 /\ holder.started # Never => d < holder.started

\* The plan is refused when a part precedes the account, follows the start of
\* the pension or exceeds the cash available by its date.
Allowed ==
  \A d \in Days :
    /\ Part(d) > 0 => d >= holder.opened /\ (holder.started # Never => d < holder.started)
    /\ Part(d) > 0 => Total([e \in 1 .. d |-> Part(e)]) <= TotalUpTo(plan.available, d)

Init ==
  /\ plan \in Plans /\ holder \in Holders
  /\ phase = "plan" /\ day = 1
  /\ events = [d \in Days |-> 0]
  /\ cash = 0 /\ units = 0 /\ price \in Prices
  /\ receivables = [d \in PayDays |-> 0]
  /\ contributed = 0 /\ credited = 0 /\ uncredited = 0 /\ fees = 0
  /\ opening = [y \in Years |-> -1]
  /\ navs = <<>> /\ payouts = {} /\ shortfalls = [d \in Days |-> 0] /\ attempted = 0
  /\ gain = 0

PlanContributions ==
  /\ phase = "plan" /\ Allowed
  /\ phase' = "market"
  /\ events' = [d \in Days |-> Part(d)]
  /\ UNCHANGED <<plan, holder, day, cash, units, price, receivables, basis, fees, opening, navs, paid, gain>>

RejectPlan ==
  /\ phase = "plan" /\ ~Allowed
  /\ phase' = "stopped"
  /\ UNCHANGED <<config, day, cash, units, price, receivables, basis, fees, opening, navs, paid, gain>>

Quote(y) == QuoteFor(y, TotalIn(events, y))

\* What part of a contribution counts as credited: the difference of the
\* floored shares of the year's running total.
CreditedPart(d) ==
  LET y == YearOf(d)
      year == TotalIn(events, y)
      before == Total([e \in FirstDay(y) .. d - 1 |-> events[e]])
      share(amount) == (amount * Quote(y).principal) \div year
  IN IF year = 0 THEN 0 ELSE share(before + events[d]) - share(before)

-----------------------------------------------------------------------------
(* A session *)

Receivable == Total(receivables)
Scaled(amount) == amount * UnitScale
Nav == (Scaled(cash + Receivable) + units * price) \div UnitScale

\* Mutant: a paid distribution stays on the list.
AfterPayingNone(promised) == promised
AfterPaying(promised) == [promised EXCEPT ![day] = 0]

\* A split first, then the distribution on the units after it, then what is
\* due today.
Market ==
  /\ phase = "market"
  /\ \E p \in Prices, factor \in IF day \in SplitDays THEN {1, 2} ELSE {1},
        perUnit \in IF day \in DistributionDays THEN {0, Distribution} ELSE {0} :
       LET held == units * factor
           owed == (held * perUnit) \div UnitScale
           promised == [receivables EXCEPT ![day + PayLag] = @ + owed]
       IN /\ price' = p
          /\ units' = held
          /\ receivables' = AfterPaying(promised)
          /\ cash' = cash + promised[day]
          /\ gain' = gain + held * p - units * price + Scaled(owed)
  /\ phase' = "contribute"
  /\ UNCHANGED <<config, day, basis, fees, opening, navs, paid>>

Contribute ==
  /\ phase = "contribute"
  /\ cash' = cash + events[day]
  /\ contributed' = contributed + events[day]
  /\ credited' = credited + CreditedPart(day)
  /\ uncredited' = uncredited + events[day] - CreditedPart(day)
  /\ phase' = "execute"
  /\ UNCHANGED <<config, day, units, price, receivables, fees, opening, navs, paid, gain>>

\* The first session after a month's decision: every session but the first.
Executes(d) == d > 1

UnitCost == price + (price * CostRate) \div 100

\* Mutant: the fee is left out of what a unit costs.
BoughtAtPrice == cash \div price
Bought == cash \div UnitCost

Execute ==
  /\ phase = "execute"
  /\ IF Executes(day)
     THEN /\ units' = units + Scaled(Bought)
          /\ cash' = cash - Bought * UnitCost
          /\ fees' = fees + Bought * (UnitCost - price)
     ELSE UNCHANGED <<units, cash, fees>>
  /\ phase' = "open"
  /\ UNCHANGED <<config, day, price, receivables, basis, opening, navs, paid, gain>>

LastNav == IF navs = <<>> THEN 0 ELSE navs[Len(navs)]
StartsThisYear == holder.started # Never /\ YearOf(holder.started) = YearOf(day)

\* Mutant: the value of the session itself, contributions and all.
OpeningValueNow == Nav
OpeningValue == IF StartsThisYear /\ day = holder.started THEN Nav ELSE LastNav

\* A year's limit is measured on the last value before it; in the year the
\* pension starts, on the value at the start.
OpenYear ==
  /\ phase = "open"
  /\ opening' = IF opening[YearOf(day)] = -1 /\ (StartsThisYear => day >= holder.started)
                THEN [opening EXCEPT ![YearOf(day)] = OpeningValue] ELSE opening
  /\ phase' = "payout"
  /\ UNCHANGED <<config, day, cash, units, price, receivables, basis, fees, navs, paid, gain>>

-----------------------------------------------------------------------------
(* Payout *)

\* The payout session of a year is its last execution.
PayoutDay(d) == /\ plan.withdrawals[YearOf(d)] > 0
                /\ Executes(d) /\ d = LastDay(YearOf(d))
Eligible(d) == holder.started # Never /\ holder.started <= d /\ holder.eligible <= d

Requested == plan.withdrawals[YearOf(day)]
\* Receivables are not payable.
Payable == Lesser(Requested, cash + (units * price) \div UnitScale)

PensionYear == 1 + YearOf(day) - YearOf(holder.eligible)
AnnualLimit == (Greater(0, opening[YearOf(day)]) * LimitMultiplier)
               \div (100 * (LimitFinalYear + 1 - PensionYear))

\* quote_annual_pension_withdrawal refuses a start before eligibility and a
\* payment above the year's limit.
Lawful == /\ holder.started >= holder.eligible
          /\ PensionYear <= LimitFinalYear => Payable <= AnnualLimit

TaxFree(amount) == Lesser(amount, uncredited)

PayoutTax(taxable) ==
  WithLocal(Won(taxable, IF taxable + holder.other[YearOf(day)] <= PensionLaw.threshold
                         THEN PensionLaw.annuityRate ELSE PensionLaw.aboveRate))

Due == PayoutDay(day) /\ Eligible(day)

\* The account pays what it can, selling across its sleeves what cash lacks,
\* without cost; a shortfall is recorded.
Payout ==
  /\ phase = "payout" /\ Due /\ (Payable > 0 => Lawful)
  /\ attempted' = attempted + 1
  /\ shortfalls' = [shortfalls EXCEPT ![day] = Requested - Payable]
  /\ LET free == TaxFree(Payable)
         taxable == Payable - free
         sale == Greater(0, Payable - cash)
     IN /\ payouts' = IF Payable = 0 THEN payouts
                      ELSE payouts \cup {[day |-> day, gross |-> Payable, free |-> free,
                                          tax |-> PayoutTax(taxable)]}
        /\ uncredited' = uncredited - free
        /\ credited' = credited - Lesser(taxable, credited)
        /\ units' = units - Scaled(sale) \div price
        /\ cash' = cash + sale - Payable
  /\ phase' = "snapshot"
  /\ UNCHANGED <<config, day, price, receivables, contributed, fees, opening, navs, gain>>

NoPayout ==
  /\ phase = "payout" /\ ~Due
  /\ phase' = "snapshot"
  /\ UNCHANGED <<config, day, cash, units, price, receivables, basis, fees, opening, navs, paid, gain>>

RefusePayout ==
  /\ phase = "payout" /\ Due /\ Payable > 0 /\ ~Lawful
  /\ phase' = "stopped"
  /\ UNCHANGED <<config, day, cash, units, price, receivables, basis, fees, opening, navs, paid, gain>>

Snapshot ==
  /\ phase = "snapshot"
  /\ navs' = Append(navs, Nav)
  /\ IF day + 1 \in Days THEN day' = day + 1 /\ phase' = "market"
                         ELSE day' = day /\ phase' = "done"
  /\ UNCHANGED <<config, cash, units, price, receivables, basis, fees, opening, paid, gain>>

Next == PlanContributions \/ RejectPlan \/ Market \/ Contribute \/ Execute \/ OpenYear
        \/ Payout \/ NoPayout \/ RefusePayout \/ Snapshot

Spec == Init /\ [][Next]_vars

-----------------------------------------------------------------------------
(* The result *)

\* Mutant: a payout cut short counts as complete.
RetirementTerminalCut == attempted > 0 /\ attempted = Cardinality({y \in Years : plan.withdrawals[y] > 0})
                         /\ LastNav = 0
RetirementTerminal ==
  /\ attempted > 0 /\ attempted = Cardinality({y \in Years : plan.withdrawals[y] > 0})
  /\ \A d \in Days : shortfalls[d] = 0
  /\ LastNav = 0

-----------------------------------------------------------------------------
(* Properties *)

Running == phase \notin {"plan", "stopped"}
Gross(p) == p.gross
PaidOut == MapThenSumSet(Gross, payouts)

\* Amounts never turn negative: the engine's tripwire at pension_engine.py:379.
TypeOK ==
  /\ plan \in Plans /\ holder \in Holders
  /\ phase \in {"plan", "market", "contribute", "execute", "open", "payout", "snapshot", "done", "stopped"}
  /\ day \in Days /\ events \in [Days -> Nat] /\ price \in Prices
  /\ cash \in Nat /\ units \in Nat /\ receivables \in [PayDays -> Nat]
  /\ contributed \in Nat /\ credited \in Nat /\ uncredited \in Nat /\ fees \in Nat
  /\ opening \in [Years -> Nat \cup {-1}] /\ Len(navs) <= LastYear * SessionsPerYear
  /\ \A p \in payouts : p.day \in Days /\ p.gross \in Nat /\ p.free \in 0 .. p.gross /\ p.tax \in 0 .. 2 * p.gross
  /\ shortfalls \in [Days -> Nat] /\ attempted \in 0 .. LastYear /\ gain \in Int

\* The halving search plans the least contribution of the year that still
\* earns the whole credit the cash at hand could earn, and never more than
\* cash and credit limit allow (pension_engine.py:249).
LeastContribution ==
  phase = "market" /\ day = 1 =>
    \A y \in Years : plan.dates[y] # {} =>
      LET unspent == TotalUpTo(plan.available, FirstDay(y) - 1) - TotalUpTo(events, FirstDay(y) - 1)
          total == TotalIn(events, y)
          most == QuoteFor(y, Budget(y, unspent))
      IN /\ total <= Budget(y, unspent)
         /\ SameCredit(QuoteFor(y, total), most)
         /\ \A less \in 0 .. total - 1 : ~SameCredit(QuoteFor(y, less), most)

\* No session has contributed more than had become available by then, although
\* a year is planned from cash that may arrive after its first dates
\* (pension_engine.py:245 and 281).
ContributionsFunded == contributed <= TotalUpTo(plan.available, day)

\* Because the plan looks for the least contribution that earns the credit, no
\* planned won is left without one, whatever the tax capacity and the rounding
\* of the year's shares: uncredited principal stays nil and every contribution
\* is in the credited basis until payouts release it (pension_engine.py:298 and
\* 361).
PlanFullyCredited ==
  /\ uncredited = 0
  /\ credited >= contributed - PaidOut /\ credited <= contributed

\* Contributions and market gains are accounted for by cash, distributions on
\* their way, units, fees and payments, whatever splits, distributions, sales
\* and shortfalls a path meets.
AccountConserved ==
  Scaled(cash + Receivable + fees + PaidOut) + units * price = Scaled(contributed) + gain

\* A payment respects the limit measured on the account value before its year
\* began, or on the value with which the pension started in that year, however
\* the market and the year's own contributions moved it since
\* (pension_engine.py:381).
PayoutsLawful ==
  \A p \in payouts :
    LET y == YearOf(p.day)
        pensionYear == 1 + y - YearOf(holder.eligible)
        paidAtStart == MapThenSumSet(Gross, {q \in payouts : q.day = holder.started})
        value == IF y = YearOf(holder.started) THEN navs[holder.started] + paidAtStart ELSE navs[FirstDay(y) - 1]
    IN p.day <= Len(navs) /\ pensionYear <= LimitFinalYear =>
         p.gross * 100 * (LimitFinalYear + 1 - pensionYear) <= value * LimitMultiplier

\* A path is called complete only when every scheduled payment was made in
\* full and the account is empty, distributions on their way included
\* (pension_engine.py:449).
TerminalPaidInFull ==
  phase = "done" /\ RetirementTerminal =>
    /\ PaidOut = Total(plan.withdrawals)
    /\ cash = 0 /\ Receivable = 0 /\ units * price < UnitScale

\* A plan is the least that earns the credit, is paid from what has arrived,
\* and every won of it is credited.
PlanSound == LeastContribution /\ ContributionsFunded /\ PlanFullyCredited

\* No path creates or loses money, nor brings an amount below zero.
BooksBalance == TypeOK /\ AccountConserved

\* Payments respect the law's limit, and a path is called complete only when
\* they were all made in full.
PayoutsSound == PayoutsLawful /\ TerminalPaidInFull
=============================================================================
