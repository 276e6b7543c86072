--------------------------- MODULE AfterTaxEngine ---------------------------
(***************************************************************************)
(* The general-account ledger: one monthly execution session of            *)
(* _EngineState.step is a fixed sequence of phases over USD earmarks per   *)
(* sleeve, FIFO tax lots, KRW gains per settlement year and the taxes      *)
(* assessed from them.  The program is sequential; what varies is the      *)
(* market, the calendar and the order in which events of different years   *)
(* reach the ledger.                                                       *)
(*                                                                         *)
(* Floating-point money becomes integers: a quotient is rounded down and   *)
(* what the rounding of a KRW to USD conversion loses counts as spread.    *)
(***************************************************************************)
EXTENDS Integers, Sequences, SequencesExt, FiniteSetsExt, Functions, TLC

CONSTANTS
  Tickers,        \* traded sleeves
  Cash,           \* the CASH sleeve
  Deposit,        \* monthly contribution, KRW
  Quotes,         \* market days: records [price, fx, settleFx]
  Targets,        \* weights a rule may return: functions on Sleeves
  Modes,          \* execution modes: a subset of {"buy_only", "rebalance_band"}
  BandPercent,    \* drift that triggers a rebalance
  HarvestGains,   \* whether December gains are harvested
  RatePercent,    \* capital gains rate
  Deduction,      \* annual deduction, KRW
  Commission,     \* USD per traded share
  Dividends,      \* net USD dividends per share
  Interests,      \* net USD credits of one month on the CASH sleeve
  SplitFactors,   \* k of the k:1 and 1:k splits
  MonthsPerYear,  \* sessions in a year, the last one its December
  PaymentMonth,   \* session of the next year in which a tax falls due
  Horizon,        \* bound: number of sessions
  MaxEvents       \* bound: corporate actions and delistings in a run

ASSUME CalendarAssumption ==
  /\ MonthsPerYear \in Nat \ {0} /\ Horizon \in Nat \ {0}
  /\ PaymentMonth \in 1 .. MonthsPerYear
ASSUME MoneyAssumption ==
  /\ {Deposit, Deduction, Commission, BandPercent, MaxEvents} \subseteq Nat
  /\ RatePercent \in 0 .. 99
  /\ SplitFactors \subseteq Nat \ {0, 1}
  /\ Dividends \subseteq Nat /\ Interests \subseteq Nat
  /\ HarvestGains \in BOOLEAN
ASSUME SleeveAssumption ==
  /\ Cash \notin Tickers /\ IsFiniteSet(Tickers)
  /\ Modes \subseteq {"buy_only", "rebalance_band"}
  /\ Quotes \subseteq [price : [Tickers -> Nat], fx : Nat \ {0}, settleFx : Nat \ {0}]
  /\ \A q \in Quotes, t \in Tickers : q.price[t] > Commission
  /\ Targets \subseteq [Tickers \cup {Cash} -> Nat]

Sleeves == Tickers \cup {Cash}
YearOf(m) == (m - 1) \div MonthsPerYear + 1
InDecember(m) == m % MonthsPerYear = 0
Years == 1 .. YearOf(Horizon) + 1
DueMonth(y) == y * MonthsPerYear + PaymentMonth

VARIABLES
  mode,        \* execution mode of the run
  month,       \* the execution session being processed
  phase,       \* what the session does next
  quote,       \* its market: prices, rates and the settlement year
  listed,      \* tickers still trading
  events,      \* corporate actions and delistings so far
  earmark,     \* USD waiting in each sleeve
  cash,        \* KRW not yet converted
  lots,        \* the lot book of each ticker
  net,         \* realized KRW gain of every settlement year that has a disposal
  assessed,    \* years whose tax was computed
  pending,     \* unpaid tax by assessed year
  taxPayable,  \* the engine's running total of it
  taxesPaid,
  flow,        \* the session's conservation record: before, in, out
  weights,     \* the session's target weights
  harvest      \* the harvest loop: budget, realized, sleeves to visit

vars == <<mode, month, phase, quote, listed, events, earmark, cash, lots, net, assessed,
          pending, taxPayable, taxesPaid, flow, weights, harvest>>

market == <<mode, month, quote, listed>>
taxes == <<assessed, pending, taxPayable, taxesPaid>>

NoQuote == [price |-> [t \in Tickers |-> 0], fx |-> 0, settleFx |-> 0, settleYear |-> 0]
NoWeights == [s \in Sleeves |-> 0]
NoFlow == [before |-> 0, in |-> 0, out |-> 0]
NoHarvest == [budget |-> 0, realized |-> 0, todo |-> {}]

Cost(t) == quote.price[t] + Commission
NetPrice(t) == quote.price[t] - Commission
Held == {t \in Tickers : lots[t] # <<>>}

\* annual_capital_gains_tax_krw: a loss is discarded.
Tax(gain) == (RatePercent * Max({0, gain - Deduction})) \div 100

NetOf(y) == IF y \in DOMAIN net THEN net[y] ELSE 0

\* The books after a disposal of `quantity` shares settling in year y.
Realized(y, quantity, gain) ==
  IF quantity = 0 THEN net
  ELSE [z \in DOMAIN net \cup {y} |-> NetOf(z) + IF z = y THEN gain ELSE 0]

\* A float amount shared out in proportion to non-negative shares, in whole
\* units: every part is its exact value rounded down or up.
Splits(amount, share) ==
  LET total   == SumFunction(share)
      part    == [s \in DOMAIN share |-> (amount * share[s]) \div total]
      rounded == {s \in DOMAIN share : (amount * share[s]) % total # 0}
  IN IF total = 0 THEN {share}
     ELSE {[s \in DOMAIN share |-> part[s] + IF s \in up THEN 1 ELSE 0] :
             up \in kSubset(amount - SumFunction(part), rounded)}

-----------------------------------------------------------------------------
(* The lot book of one ticker, first in first out: a sequence of lots,      *)
(* oldest first, each holding whole shares at one KRW cost per share.  The  *)
(* pooled lot of BasisMethod.MOVING_AVERAGE is not modelled.                *)

Lot == [qty : Nat \ {0}, cost : Nat]

\* The lots that still hold shares.
Positive(book) ==
  LET kept[n \in 0 .. Len(book)] ==
        IF n = 0 THEN <<>>
        ELSE IF book[n].qty > 0 THEN Append(kept[n - 1], book[n]) ELSE kept[n - 1]
  IN kept[Len(book)]

Quantity(book) == MapThenSumSet(LAMBDA n : book[n].qty, 1 .. Len(book))
BasisKrw(book) == MapThenSumSet(LAMBDA n : book[n].qty * book[n].cost, 1 .. Len(book))

Buy(book, quantity, cost) ==
  IF quantity = 0 THEN book ELSE Append(book, [qty |-> quantity, cost |-> cost])

\* Shares a disposal of `quantity` takes from lot n: older lots go first.
Taken(book, quantity, n) ==
  LET older == MapThenSumSet(LAMBDA m : book[m].qty, 1 .. n - 1)
  IN Max({0, Min({book[n].qty, quantity - older})})

DisposedBasis(book, quantity) ==
  MapThenSumSet(LAMBDA n : Taken(book, quantity, n) * book[n].cost, 1 .. Len(book))

Sell(book, quantity) ==
  Positive([n \in DOMAIN book |-> [book[n] EXCEPT !.qty = @ - Taken(book, quantity, n)]])

\* apply_split with ratio k : 1; the model's costs must divide by k.
SplitForward(book, k) == [n \in DOMAIN book |-> [qty |-> book[n].qty * k, cost |-> book[n].cost \div k]]
Divides(book, k) == \A n \in DOMAIN book : book[n].cost % k = 0

\* apply_split with ratio 1 : k.  Every lot is floored on its own and the
\* cut-off pieces, counted in k-ths of a new share, are paid out in cash.
SplitReverse(book, k) ==
  Positive([n \in DOMAIN book |-> [qty |-> book[n].qty \div k, cost |-> book[n].cost * k]])
Remainder(book, k) == MapThenSumSet(LAMBDA n : book[n].qty % k, 1 .. Len(book))

\* Mutant: the walk skips a lot without a gain instead of stopping at it.
HarvestableSkipping(book, netKrw, budget) ==
  LET walk[n \in 0 .. Len(book)] ==
        IF n = 0 THEN [qty |-> 0, gain |-> 0]
        ELSE LET before == walk[n - 1]
                 gain   == netKrw - book[n].cost
                 take   == Min({book[n].qty, (budget - before.gain) \div gain})
             IN IF gain <= 0 \/ before.gain >= budget THEN before
                  ELSE [qty |-> before.qty + take, gain |-> before.gain + take * gain]
  IN walk[Len(book)].qty

\* harvestable_quantity, rounded down to whole shares: the oldest-first walk
\* that stops at the first lot without a gain or when the budget runs out.
HarvestableQuantity(book, netKrw, budget) ==
  LET walk[n \in 0 .. Len(book)] ==
        IF n = 0 THEN [qty |-> 0, gain |-> 0, open |-> budget > 0]
        ELSE LET before == walk[n - 1]
                 gain   == netKrw - book[n].cost
                 take   == Min({book[n].qty, (budget - before.gain) \div gain})
             IN IF ~before.open \/ gain <= 0
                  THEN [before EXCEPT !.open = FALSE]
                  ELSE [qty  |-> before.qty + take,
                        gain |-> before.gain + take * gain,
                        open |-> take = book[n].qty /\ before.gain + take * gain < budget]
  IN walk[Len(book)].qty

\* What harvestable_quantity promises: the largest disposal out of the leading
\* lots that gain whose total gain stays within the budget.
LeadingGain(book, netKrw) ==
  {n \in DOMAIN book : \A m \in 1 .. n : book[m].cost < netKrw}
LargestWithin(book, netKrw, budget) ==
  LET reach == MapThenSumSet(LAMBDA n : book[n].qty, LeadingGain(book, netKrw))
  IN Max({0} \cup {q \in 0 .. reach : q * netKrw - DisposedBasis(book, q) <= budget})

-----------------------------------------------------------------------------
(* Opening a session and the events since the previous one *)

Init ==
  /\ mode \in Modes
  /\ month = 0 /\ phase = "idle" /\ quote = NoQuote
  /\ listed = Tickers /\ events = 0
  /\ earmark = [s \in Sleeves |-> 0] /\ cash = 0
  /\ lots = [t \in Tickers |-> <<>>]
  /\ net = <<>> /\ assessed = {} /\ pending = [y \in Years |-> 0]
  /\ taxPayable = 0 /\ taxesPaid = 0
  /\ flow = NoFlow /\ weights = NoWeights /\ harvest = NoHarvest

\* A December session may settle in the next year.
OpenSession ==
  /\ phase = "idle" /\ month < Horizon
  /\ \E q \in Quotes, late \in BOOLEAN :
       /\ late => InDecember(month + 1)
       /\ quote' = [price |-> q.price, fx |-> q.fx, settleFx |-> q.settleFx,
                    settleYear |-> YearOf(month + 1) + (IF late THEN 1 ELSE 0)]
  /\ month' = month + 1 /\ phase' = "actions"
  /\ flow' = [NoFlow EXCEPT !.before = SumFunction(earmark)]
  /\ UNCHANGED <<mode, listed, events, earmark, cash, lots, net, taxes, weights, harvest>>

\* A ticker's last trading date falls between two sessions.
Delist(t) ==
  /\ phase = "idle" /\ 0 < month /\ month < Horizon
  /\ events < MaxEvents /\ t \in listed
  /\ listed' = listed \ {t} /\ events' = events + 1
  /\ UNCHANGED <<mode, month, phase, quote, earmark, cash, lots, net, taxes, flow, weights, harvest>>

\* Calendar years of the days since the previous session.
EventYears == YearOf(Max({1, month - 1})) .. YearOf(month)

\* Mutant: a credit the conservation record does not see.
CreditUncounted(sleeve, usd) ==
  earmark' = [earmark EXCEPT ![sleeve] = @ + usd] /\ UNCHANGED flow

Credit(sleeve, usd) ==
  /\ earmark' = [earmark EXCEPT ![sleeve] = @ + usd]
  /\ flow' = [flow EXCEPT !.in = @ + usd]

CorporateAction ==
  /\ phase = "actions" /\ events < MaxEvents
  /\ events' = events + 1
  /\ UNCHANGED <<phase, market, cash, taxes, weights, harvest>>

PayDividend(t) ==
  /\ CorporateAction
  /\ t \in Held
  /\ \E usd \in Dividends : Credit(t, Quantity(lots[t]) * usd)
  /\ UNCHANGED <<lots, net>>

ForwardSplit(t) ==
  /\ CorporateAction
  /\ t \in Held
  /\ \E k \in SplitFactors :
       /\ Divides(lots[t], k)
       /\ lots' = [lots EXCEPT ![t] = SplitForward(@, k)]
  /\ UNCHANGED <<earmark, flow, net>>

\* Cash in lieu of the cut-off pieces, taxed in the ex-date's year.
ReverseSplit(t) ==
  /\ CorporateAction
  /\ t \in Held
  /\ \E k \in SplitFactors, q \in Quotes, y \in EventYears :
       LET cut     == Remainder(lots[t], k)
           usd     == (cut * q.price[t]) \div k
           after   == SplitReverse(lots[t], k)
           removed == BasisKrw(lots[t]) - BasisKrw(after)
       IN /\ lots' = [lots EXCEPT ![t] = after]
          /\ Credit(t, usd)
          /\ net' = Realized(y, cut, usd * q.fx - removed)

\* Interest on the CASH sleeve since the previous session.
Accrue ==
  /\ phase = "actions" /\ phase' = "settle"
  /\ \E usd \in IF earmark[Cash] = 0 \/ month = 1 THEN {0} ELSE Interests : Credit(Cash, usd)
  /\ UNCHANGED <<market, events, cash, lots, net, taxes, weights, harvest>>
-----------------------------------------------------------------------------
(* Delisted holdings and the tax calendar *)

\* Every delisted holding is sold at its last close; the proceeds and the
\* sleeve's unspent dollars move to CASH.
SettleDelisted ==
  LET gone == Held \ listed
  IN /\ phase = "settle" /\ phase' = "assess"
     /\ \E q \in Quotes, y \in EventYears :
          LET usd(t)   == Quantity(lots[t]) * (q.price[t] - Commission)
              proceeds == MapThenSumSet(usd, gone)
              stranded == MapThenSumSet(LAMBDA t : earmark[t], gone)
              gain(t)  == usd(t) * q.settleFx - BasisKrw(lots[t])
          IN /\ earmark' = [s \in Sleeves |->
                  IF s \in gone THEN 0
                  ELSE IF s = Cash THEN earmark[s] + proceeds + stranded ELSE earmark[s]]
             /\ net' = Realized(y, Cardinality(gone), MapThenSumSet(gain, gone))
             /\ flow' = [flow EXCEPT !.in = @ + proceeds]
     /\ lots' = [t \in Tickers |-> IF t \in gone THEN <<>> ELSE lots[t]]
     /\ UNCHANGED <<market, events, cash, taxes, weights, harvest>>

\* Mutant: the running year is assessed as well.
AssessableEarly == {y \in DOMAIN net : y <= YearOf(month)} \ assessed

Assessable == {y \in DOMAIN net : y < YearOf(month)} \ assessed

AssessYears ==
  LET bill == [y \in Years |-> IF y \in Assessable THEN Tax(net[y]) ELSE 0]
  IN /\ phase = "assess" /\ phase' = "pay"
     /\ assessed' = assessed \cup Assessable
     /\ pending' = [y \in Years |-> pending[y] + bill[y]]
     /\ taxPayable' = taxPayable + SumFunction(bill)
     /\ UNCHANGED <<market, events, earmark, cash, lots, net, taxesPaid, flow, weights, harvest>>

\* Mutant: a bill is due as soon as its year is over.
DueEarly == {y \in Years : y < YearOf(month)}

Due == {y \in Years : DueMonth(y) <= month}

DueNow == SumFunctionOnSet(pending, Due)

\* Mutant: a partly paid bill is dropped.
SettledInFull(paid, y) == IF y \in Due /\ paid > 0 THEN pending[y] ELSE 0

\* What a payment of `paid` takes from year y's bill: older bills first.
Settled(paid, y) ==
  LET older == SumFunctionOnSet(pending, {z \in Due : z < y})
  IN IF y \in Due THEN Max({0, Min({pending[y], paid - older})}) ELSE 0

DepositAndPay ==
  LET paid == Min({DueNow, cash + Deposit})
  IN /\ phase = "pay" /\ phase' = "convert"
     /\ cash' = cash + Deposit - paid
     /\ taxesPaid' = taxesPaid + paid
     /\ taxPayable' = taxPayable - paid
     /\ pending' = [y \in Years |-> pending[y] - Settled(paid, y)]
     /\ UNCHANGED <<market, events, earmark, lots, net, assessed, flow, weights, harvest>>
-----------------------------------------------------------------------------
(* Conversion, rebalancing, harvesting and fills *)

\* _eligible_execution_weights: delisted tickers drop out, cash if none is left.
EligibleWeights(w) ==
  LET kept == [s \in Sleeves |-> IF s = Cash \/ s \in listed THEN w[s] ELSE 0]
  IN IF \A s \in Sleeves : kept[s] = 0 THEN [NoWeights EXCEPT ![Cash] = 1] ELSE kept

Convert ==
  LET usd == cash \div quote.fx
  IN /\ phase = "convert" /\ phase' = "rebalance"
     /\ \E w \in Targets :
          /\ weights' = EligibleWeights(w)
          /\ \E part \in Splits(usd, EligibleWeights(w)) :
               earmark' = [s \in Sleeves |-> earmark[s] + part[s]]
     /\ cash' = 0
     /\ flow' = [flow EXCEPT !.in = @ + usd]
     /\ UNCHANGED <<market, events, lots, net, taxes, harvest>>

SleeveValue(s, book, usd) ==
  usd[s] * quote.fx + (IF s = Cash THEN 0 ELSE Quantity(book[s]) * quote.price[s] * quote.fx)
TotalValue(book, usd) == MapThenSumSet(LAMBDA s : SleeveValue(s, book, usd), Sleeves)

\* Distance of a sleeve above its target, times the sum of the weights.
Excess(s, book, usd, total) ==
  SleeveValue(s, book, usd) * SumFunction(weights) - weights[s] * total

Drifted ==
  LET total == TotalValue(lots, earmark)
  IN \E s \in Sleeves : LET e == Excess(s, lots, earmark, total)
                        IN 100 * Max({e, -e}) > BandPercent * total * SumFunction(weights)

\* Mutant: more than the sleeve's unspent dollars is taken back.
TakenBackUncapped(s) ==
  LET e == Excess(s, lots, earmark, TotalValue(lots, earmark))
  IN IF e <= 0 THEN 0 ELSE e \div (quote.fx * SumFunction(weights))

\* Dollars taken back from an overweight sleeve before any share is sold.
TakenBack(s) ==
  LET e == Excess(s, lots, earmark, TotalValue(lots, earmark))
  IN IF e <= 0 THEN 0 ELSE Min({e \div (quote.fx * SumFunction(weights)), earmark[s]})

\* Mutant: the unspent dollars are drained but still sold for in shares.
OverweightTwice(t) ==
  LET e == Excess(t, lots, earmark, TotalValue(lots, earmark))
  IN IF e <= 0 THEN 0 ELSE e \div (quote.price[t] * quote.fx * SumFunction(weights))

\* Whole shares sold for the excess that remains, never more than held.
Overweight(t) ==
  LET unit == quote.fx * SumFunction(weights)
      rest == Excess(t, lots, earmark, TotalValue(lots, earmark)) - TakenBack(t) * unit
  IN IF rest <= 0 THEN 0 ELSE Min({rest \div (quote.price[t] * unit), Quantity(lots[t])})

Stranded == \E t \in Tickers \ listed : earmark[t] > 0

Rebalance ==
  LET drained  == [s \in Sleeves |-> earmark[s] - TakenBack(s)]
      trimmed  == [t \in Tickers |-> Sell(lots[t], Overweight(t))]
      proceeds == MapThenSumSet(LAMBDA t : Overweight(t) * NetPrice(t), Tickers)
      cashTake == MapThenSumSet(TakenBack, Sleeves)
      pool     == proceeds + cashTake
      routed   == TotalValue(trimmed, drained) + pool * quote.fx
      deficit  == [s \in Sleeves |-> Max({0, -Excess(s, trimmed, drained, routed)})]
      gain(t)  == Overweight(t) * NetPrice(t) * quote.settleFx
                    - DisposedBasis(lots[t], Overweight(t))
  IN /\ phase = "rebalance" /\ mode = "rebalance_band" /\ ~Stranded
     /\ Drifted
     /\ \E part \in Splits(pool, deficit) :
          earmark' = [s \in Sleeves |-> drained[s] + part[s]]
     /\ lots' = trimmed
     /\ net' = Realized(quote.settleYear, MapThenSumSet(Overweight, Tickers), MapThenSumSet(gain, Tickers))
     /\ flow' = [flow EXCEPT !.in = @ + pool - cashTake]
     /\ phase' = "harvest"
     /\ UNCHANGED <<market, events, cash, taxes, weights, harvest>>

SkipRebalance ==
  /\ phase = "rebalance"
  /\ mode = "buy_only" \/ (~Stranded /\ ~Drifted)
  /\ phase' = "harvest"
  /\ UNCHANGED <<market, events, earmark, cash, lots, net, taxes, flow, weights, harvest>>

HarvestSeason == HarvestGains /\ InDecember(month) /\ quote.settleYear = YearOf(month)
HarvestBudget == Deduction - NetOf(YearOf(month))

StartHarvest ==
  /\ phase = "harvest"
  /\ IF HarvestSeason /\ HarvestBudget > 0
       THEN /\ phase' = "harvesting"
            /\ harvest' = [budget |-> HarvestBudget, realized |-> 0,
                           todo |-> {t \in Held : weights[t] > 0}]
       ELSE phase' = "fill" /\ UNCHANGED harvest
  /\ UNCHANGED <<market, events, earmark, cash, lots, net, taxes, flow, weights>>

\* Candidates in decreasing order of their value when the harvest began.
Largest(todo) ==
  {t \in todo : \A u \in todo :
     Quantity(lots[t]) * quote.price[t] >= Quantity(lots[u]) * quote.price[u]}

\* Mutant: every sleeve gets the whole budget.
HarvestLotsPerSleeve(t) ==
  HarvestableQuantity(lots[t], NetPrice(t) * quote.fx, harvest.budget)

HarvestLots(t) ==
  HarvestableQuantity(lots[t], NetPrice(t) * quote.fx, harvest.budget - harvest.realized)

\* One sleeve: sell the gain that fits the deduction and buy it back at once.
HarvestSleeve(t) ==
  LET sold     == HarvestLots(t)
      proceeds == sold * NetPrice(t)
      rebuy    == Min({proceeds \div Cost(t), sold})
      gain     == proceeds * quote.settleFx - DisposedBasis(lots[t], sold)
      realized == harvest.realized + gain
  IN /\ phase = "harvesting" /\ t \in Largest(harvest.todo)
     /\ lots' = [lots EXCEPT ![t] = Buy(Sell(@, sold), rebuy, Cost(t) * quote.settleFx)]
     /\ net' = Realized(quote.settleYear, sold, gain)
     /\ earmark' = [earmark EXCEPT ![t] = @ + proceeds - rebuy * Cost(t)]
     /\ flow' = [flow EXCEPT !.in = @ + proceeds, !.out = @ + rebuy * Cost(t)]
     /\ harvest' = [harvest EXCEPT !.realized = realized,
                                   !.todo = IF sold > 0 /\ realized >= harvest.budget THEN {} ELSE @ \ {t}]
     /\ UNCHANGED <<phase, market, events, cash, taxes, weights>>

EndHarvest ==
  /\ phase = "harvesting" /\ harvest.todo = {}
  /\ phase' = "fill" /\ harvest' = NoHarvest
  /\ UNCHANGED <<market, events, earmark, cash, lots, net, taxes, flow, weights>>

\* Every sleeve with dollars buys the whole shares they pay for.
Fill ==
  LET shares == [t \in Tickers |-> IF earmark[t] > 0 THEN earmark[t] \div Cost(t) ELSE 0]
  IN /\ phase = "fill" /\ ~Stranded
     /\ lots' = [t \in Tickers |-> Buy(lots[t], shares[t], Cost(t) * quote.settleFx)]
     /\ earmark' = [s \in Sleeves |-> IF s = Cash THEN earmark[s] ELSE earmark[s] - shares[s] * Cost(s)]
     /\ flow' = [flow EXCEPT !.out = @ + MapThenSumSet(LAMBDA t : shares[t] * Cost(t), Tickers)]
     /\ phase' = "verify"
     /\ UNCHANGED <<market, events, cash, net, taxes, weights, harvest>>

\* A missing price, a stale rate or a liquidity breach ends the run; a
\* delisted sleeve with unspent dollars has no price on the session.
Abort ==
  /\ phase \in {"actions", "settle", "rebalance", "harvesting", "fill"}
  /\ phase' = "aborted"
  /\ UNCHANGED <<market, events, earmark, cash, lots, net, taxes, flow, weights, harvest>>

\* The conservation check passed and the session's snapshot is taken.
CloseSession ==
  /\ phase = "verify" /\ phase' = "idle"
  /\ SumFunction(earmark) = flow.before + flow.in - flow.out
  /\ quote' = NoQuote /\ weights' = NoWeights /\ flow' = NoFlow
  /\ UNCHANGED <<mode, month, listed, events, earmark, cash, lots, net, taxes, harvest>>

Next ==
  \/ OpenSession \/ Accrue \/ SettleDelisted \/ AssessYears \/ DepositAndPay
  \/ Convert \/ Rebalance \/ SkipRebalance \/ StartHarvest \/ EndHarvest
  \/ Fill \/ CloseSession \/ Abort
  \/ \E t \in Tickers : \/ Delist(t) \/ PayDividend(t) \/ ForwardSplit(t) \/ ReverseSplit(t)
                        \/ HarvestSleeve(t)

Spec == Init /\ [][Next]_vars
-----------------------------------------------------------------------------
(* Properties *)

\* Shares, earmarks, cash, bills and the paid taxes never go negative, and every
\* gain and bill belongs to a year the run can reach.
TypeOK ==
  /\ mode \in Modes /\ month \in 0 .. Horizon
  /\ phase \in {"idle", "actions", "settle", "assess", "pay", "convert", "rebalance",
                "harvest", "harvesting", "fill", "verify", "aborted"}
  /\ listed \subseteq Tickers /\ events \in 0 .. MaxEvents
  /\ earmark \in [Sleeves -> Nat] /\ cash \in Nat
  /\ \A t \in Tickers : lots[t] \in Seq(Lot)
  /\ DOMAIN net \subseteq Years /\ \A y \in DOMAIN net : net[y] \in Int
  /\ assessed \subseteq Years /\ pending \in [Years -> Nat]
  /\ taxPayable \in Nat /\ taxesPaid \in Nat
  /\ flow \in [before : Nat, in : Nat, out : Nat]
  /\ weights \in [Sleeves -> Nat]
  /\ harvest.todo \subseteq Tickers

\* The engine's own assertion never trips: whatever mix of corporate actions,
\* settlements, rebalancing, harvesting and fills a session made, the change
\* of the earmarks is what the session counted in minus what it counted out.
FlowsReconcile ==
  phase = "verify" => SumFunction(earmark) = flow.before + flow.in - flow.out

\* Once a session has assessed, the tax of every earlier year, on all the
\* gains that ever settle in it, is either paid or payable, exactly once: no
\* late settlement, cash in lieu or cross-year sale escapes or is billed twice.
GainsBilledOnce ==
  phase \in {"pay", "convert", "rebalance", "harvest", "harvesting", "fill", "verify", "idle"}
    => taxPayable + taxesPaid
         = MapThenSumSet(LAMBDA y : Tax(net[y]), {y \in DOMAIN net : y < YearOf(month)})

\* The running total the NAV subtracts is the sum of the unpaid bills.
PayableReconciles == taxPayable = SumFunction(pending)

\* Contributions are converted to dollars only after every tax that is due has
\* been paid, and no tax is paid before its due session.
TaxClaimsFirst ==
  [][/\ cash > 0 /\ cash' = 0 => \A y \in Years : DueMonth(y) <= month => pending[y] = 0
     /\ taxesPaid' # taxesPaid => \A y \in Years : DueMonth(y) > month => pending'[y] = pending[y]]_vars

\* Wealth at the session's marks, in USD.
Wealth == SumFunction(earmark) + SumFunction([t \in Tickers |-> Quantity(lots[t]) * quote.price[t]])
TradedAtMost == SumFunction([t \in Tickers |-> Quantity(lots[t]) + Quantity(lots[t])'])

\* Rebalancing, harvesting and filling at one close move wealth between cash
\* and shares; they never create any and lose only commissions.
TradesKeepWealth ==
  [][(phase \in {"rebalance", "harvesting", "fill"})
       => (Wealth - Wealth') \in 0 .. (Commission * TradedAtMost)]_vars

\* When the settlement rate is not above the session's, a harvest leaves the
\* year's net gain within the annual deduction. At a higher settlement rate it
\* may not: the quantity is sized at the session's rate (fx_day) and booked at
\* the settlement rate (settle_fx).
HarvestWithinDeduction ==
  [][phase = "harvesting" /\ quote.settleFx <= quote.fx => NetOf(YearOf(month))' <= Deduction]_vars

\* harvestable_quantity returns what its docstring promises of every lot book a
\* run brings to the harvest.
HarvestableIsLargest ==
  phase = "harvest" => \A t \in Tickers, q \in Quotes, budget \in 0 .. Deduction :
    LET krw == (q.price[t] - Commission) * q.fx
    IN HarvestableQuantity(lots[t], krw, budget) = LargestWithin(lots[t], krw, budget)

\* At any point of a session the books balance: nothing is negative, the
\* session's flows reconcile, the bills sum up and every gain is billed once.
BooksBalance == TypeOK /\ FlowsReconcile /\ PayableReconciles /\ GainsBilledOnce

\* What a step of a session may never do: buy dollars before the due tax is
\* paid, pay a tax early, or make or lose wealth by trading.
SessionSteps == TaxClaimsFirst /\ TradesKeepWealth
=============================================================================
