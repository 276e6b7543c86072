-------------------------- MODULE AllocationEngine --------------------------
(***************************************************************************)
(* The buy-only allocation engine, src/src/sim/allocation.py, and the      *)
(* paper book that replays its path, src/src/execution.  One behaviour is  *)
(* one call of run_allocation: the modules of the configuration are        *)
(* checked against each other, shaped credits are drawn up for the whole   *)
(* schedule, and every decision point then settles delisted holdings,      *)
(* resolves the targets, credits the contribution and buys whole lots.     *)
(*                                                                         *)
(* Sessions are numbered consecutively, money is whole won and dollars     *)
(* (what a quotient loses is a cost), and the market, the signals and the  *)
(* lives of the tickers are chosen by the environment.                     *)
(***************************************************************************)
EXTENDS ContributionPolicies, DecisionSchedule, SequencesExt

CONSTANTS Tickers,       \* implementation tickers
          PolicyMix,     \* the fixed weights of a policy
          OverrideMix,   \* OPERATIONAL_TARGETS_OVERRIDE
          Signals,       \* market signals a decision may see
          Markets,       \* USD/KRW rate and closing prices of a session
          Base,          \* monthly_contribution_krw
          Spread, Commission, Band,  \* percentages
          Configs,       \* configurations a caller may pass
          Lives          \* first and last session of every ticker

VARIABLES config, lives, stage, point, shapedCredits, drift, market, signal, mix, incumbents,
          contribution, investable, cashKrw, cashUsd, reserve, shares, snapshots, replay

allocationVars ==
  <<config, lives, stage, point, shapedCredits, drift, market, signal, mix, incumbents,
    contribution, investable, cashKrw, cashUsd, reserve, shares, snapshots, replay>>
books == <<cashKrw, cashUsd, reserve, shares, snapshots>>

\* in whole won, of which the points of a month get equal parts
ASSUME Parameters ==
  /\ Base \in Nat \ {0} /\ Base % 2 = 0
  /\ Spread \in Nat /\ Commission \in 0..99 /\ Band \in 0..99

Sizing == {"shape", "kafi", "adaptive"}
ReserveSchedules == {"v1", "v2", "v3", "v4"}

\* a reserve schedule belongs to the reserve module
ASSUME ConfigsAssumption ==
  /\ Configs \subseteq
       [first : Int, last : Int, policy : {"fixed", "inverseVol", "operational"},
        modules : SUBSET (Sizing \cup {"reserve", "currency", "overlay", "mapping"}),
        targeting : SUBSET {"riskBudget", "override", "tilt"},
        cadence : {"monthly", "month_open", "twice_monthly"}, schedule : ReserveSchedules \cup {"off"},
        banded : BOOLEAN, membership : BOOLEAN]
  /\ \A c \in Configs : c.first <= c.last /\ (c.schedule # "off" <=> "reserve" \in c.modules)
ASSUME MarketsAssumption ==
  /\ IsFiniteSet(Tickers) /\ Markets # {}
  /\ Markets \subseteq [rate : Nat \ {0}, close : [Tickers -> Nat \ {0}]]
  /\ Lives \subseteq [Tickers -> [first : Int, last : Int]]

\* weights that sum to one, and signals the modules can read: a volatility that
\* rises above nought, loadings that differ (apply_fixed_tilt raises otherwise),
\* a score for some candidate of every sleeve
Weights(m) ==
  /\ \E d \in SUBSET Tickers : m.parts \in [d -> Nat]
  /\ m.whole \in Nat \ {0} /\ Simplex(m)
SleevesOf(s) ==
  DOMAIN PolicyMix.parts \cup DOMAIN OverrideMix.parts \cup DOMAIN s.vol \cup {s.core, s.satellite}
Tiltable(m, s) ==
  /\ \A t \in DOMAIN m.parts : s.loading[t] \in Int
  /\ TiltedMix(m, s.loading, 25).whole > 0
ASSUME SignalsAssumption ==
  /\ Signals # {} /\ Weights(PolicyMix) /\ Weights(OverrideMix)
  /\ \A s \in Signals :
       /\ s.score \in 0..100 /\ s.depth \in Int /\ s.trend \in Int /\ s.vix \in Nat
       /\ s.core \in Tickers /\ s.satellite \in Tickers \ {s.core}
       /\ DOMAIN s.vol \in (SUBSET Tickers) \ {{}} /\ s.vol \in [DOMAIN s.vol -> 1..1000]
       /\ IsFiniteSet(DOMAIN s.loading) /\ \A t \in DOMAIN s.loading : s.loading[t] \in Int
       /\ Tiltable(PolicyMix, s) /\ Tiltable(InverseVolMix(s.vol), s)
       /\ \A q \in SleevesOf(s) :
            /\ s.signs[q].trend \in Int
            /\ MappingLaw.candidates[q] \in Seq(Tickers)
            /\ DOMAIN s.passing[q] \in (SUBSET ToSet(MappingLaw.candidates[q])) \ {{}}
            /\ s.passing[q] \in [DOMAIN s.passing[q] -> Int]
-----------------------------------------------------------------------------
(* The decision schedule *)

MonthEnds == MonthEndSessions(config.first, config.last)
MonthStarts == MonthStartSessions(config.first, config.last)

\* build_decision_schedule: the signal sessions of a cadence, in order.
SignalSessions(cadence) ==
  CASE cadence = "monthly" -> MonthEnds
    [] cadence = "month_open" -> MonthStarts
    [] cadence = "twice_monthly" -> MonthStarts \cup MonthEnds
Schedule(cadence) ==
  LET sessions == SignalSessions(cadence)
  IN [k \in 1 .. Cardinality(sessions) |->
        CHOOSE d \in sessions : Cardinality({e \in sessions : e < d}) = k - 1]
Points == Schedule(config.cadence)
Execution(k) == Fill(Points[k])

\* Mutant: every point gets the whole month's contribution.
SplitCreditWhole(k) == Base

\* contribution_krw_for_point: a month's credit is split over its points.
SplitCredit(k) ==
  Base \div Cardinality({j \in DOMAIN Points : MonthOf(Points[j]) = MonthOf(Points[k])})
-----------------------------------------------------------------------------
(* The configuration *)

\* The checks at the top of run_allocation: modules that exclude each other.
Admitted(c) ==
  /\ Cardinality(c.targeting) <= 1
  /\ ~("overlay" \in c.modules /\ "reserve" \in c.modules)
  /\ \A s \in Sizing \cap c.modules : c.modules = {s} /\ c.cadence = "monthly"

\* apply_operational_contribution_lock: the operational policy without modules
\* gets the locked targets; a tilt stays, and is refused beside them.
Locked(c) ==
  IF c.policy = "operational" /\ c.cadence = "monthly" /\ c.modules = {}
       /\ "riskBudget" \notin c.targeting
  THEN [c EXCEPT !.targeting = @ \cup {"override"}] ELSE c

AllocationInit ==
  /\ config \in {Locked(c) : c \in Configs}
  /\ lives \in Lives
  /\ stage = "check"
  /\ point = 1 /\ shapedCredits = <<>> /\ drift = 0
  /\ market = CHOOSE m \in Markets : TRUE
  /\ signal = CHOOSE s \in Signals : TRUE
  /\ mix = NoMix /\ incumbents = <<>>
  /\ contribution = 0 /\ investable = 0
  /\ cashKrw = 0 /\ cashUsd = 0 /\ reserve = 0 /\ shares = <<>>
  /\ snapshots = <<>>
  /\ replay = "none"

CheckConfig ==
  /\ stage = "check"
  /\ stage' = IF ~Admitted(config) THEN "failed"
              ELSE IF "shape" \in config.modules THEN "shape" ELSE "settle"
  /\ UNCHANGED <<config, lives, point, shapedCredits, drift, market, signal, mix, incumbents,
                 contribution, investable, books, replay>>

\* The shaping pass before the loop: one credit per point, or a failed run when
\* the corridor is empty.
ShapeCredit ==
  /\ stage = "shape"
  /\ \E s \in Signals :
       LET remaining == Len(Points) - Len(shapedCredits)
           corridor  == ShapeCorridor(Base, drift, remaining)
           credit    == ShapedCredit(Base, s.score, corridor)
       IN IF corridor.lower > corridor.upper
          THEN stage' = "infeasible" /\ UNCHANGED <<shapedCredits, drift>>
          ELSE /\ shapedCredits' = Append(shapedCredits, credit)
               /\ drift' = drift + credit - Base
               /\ stage' = IF remaining = 1 THEN "settle" ELSE "shape"
  /\ UNCHANGED <<config, lives, point, market, signal, mix, incumbents, contribution,
                 investable, books, replay>>
-----------------------------------------------------------------------------
(* One decision point *)

Trades(t, session) == session \in lives[t].first .. lives[t].last
Ended(t) == lives[t].last < Execution(point)

\* Mutant: a holding whose last trading day is the session itself is settled.
EndedEarly(t) == lives[t].last <= Execution(point)

\* A shaped run has read its scores already.
Readable == IF "shape" \in config.modules THEN {signal} ELSE Signals

\* visible_close on the last trading date: the session's market where it still
\* trades, and else its last close, which an earlier session may have seen.
Quoted(m) ==
  LET seen(t) == {k \in DOMAIN snapshots : Execution(k) = lives[t].last}
  IN [m EXCEPT !.close = [t \in Tickers |->
        IF Ended(t) /\ seen(t) # {}
        THEN snapshots[CHOOSE k \in seen(t) : TRUE].market.close[t] ELSE m.close[t]]]

\* The session's market is read and, with a membership, what no longer trades is
\* settled at its last close: its lots leave the book, its dollars join the cash.
SettleDelisted ==
  /\ stage = "settle"
  /\ \E m \in Markets, s \in Readable :
       LET quoted  == Quoted(m)
           settled == {t \in DOMAIN shares : config.membership /\ Ended(t)}
           gross   == Cost(Restrict(shares, settled), quoted.close)
       IN /\ market' = quoted /\ signal' = s
          /\ shares' = Restrict(shares, DOMAIN shares \ settled)
          /\ cashUsd' = cashUsd + gross - Percent(gross, Commission)
  /\ stage' = "target"
  /\ UNCHANGED <<config, lives, point, shapedCredits, drift, mix, incumbents, contribution,
                 investable, cashKrw, reserve, snapshots, replay>>

\* The mix of the configured source, before any module.
BaseMix(s) ==
  LET ofPolicy == IF config.policy = "inverseVol" THEN InverseVolMix(s.vol) ELSE PolicyMix
  IN CASE config.targeting = {"riskBudget"} -> RiskBudgetMix(s.core, s.satellite, s.score, 0, 15)
       [] config.targeting = {"override"} -> OverrideMix
       [] config.targeting = {"tilt"} -> TiltedMix(ofPolicy, s.loading, 25)
       [] OTHER -> ofPolicy

\* Overlay, mapping onto implementations, and the tickers that trade.
ResolveTargets ==
  /\ stage = "target"
  /\ LET base    == BaseMix(signal)
         shifted == IF "overlay" \in config.modules
                    THEN BoundedOverlay(base, signal.signs, signal.alarm) ELSE base
         choice  == [q \in DOMAIN shifted.parts |->
                       Implementation(q, signal.passing[q], incumbents)]
         mapped  == IF "mapping" \in config.modules THEN MappedMix(shifted, choice) ELSE shifted
     IN /\ incumbents' = IF "mapping" \in config.modules THEN choice @@ incumbents
                                                         ELSE incumbents
        /\ mix' = IF config.membership
                  THEN EligibleMix(mapped, {t \in Tickers : Trades(t, Execution(point))})
                  ELSE mapped
  /\ stage' = "credit"
  /\ UNCHANGED <<config, lives, point, shapedCredits, drift, market, signal, contribution, investable,
                 books, replay>>

\* The month's external money.
CreditOf(s) ==
  CASE "adaptive" \in config.modules -> AdaptiveCredit(Base, s.score)
    [] "shape" \in config.modules -> shapedCredits[point]
    [] OTHER -> SplitCredit(point)

\* What of it is invested now, and what the reserve keeps.
Deployed(c, s) ==
  CASE "kafi" \in config.modules -> KafiDeployment(c, reserve, s.score)
    [] "reserve" \in config.modules -> ReserveSchedule(config.schedule, c, reserve, s)
    [] OTHER -> Split(c, reserve)

\* The contribution is credited, split with the reserve, and converted in part
\* when the dollar is expensive.
CreditContribution ==
  /\ stage = "credit"
  /\ LET c        == CreditOf(signal)
         decision == Deployed(c, signal)
         fraction == IF "currency" \in config.modules
                     THEN ConversionFraction(signal.score) ELSE 100
         cash     == cashKrw + decision.investable
     IN /\ contribution' = c
        /\ cashKrw' = cash
        /\ reserve' = decision.reserve
        /\ investable' = Percent(SmallerOf(cash, decision.investable), fraction)
  /\ stage' = "buy"
  /\ UNCHANGED <<config, lives, point, shapedCredits, drift, market, signal, mix, incumbents, cashUsd,
                 shares, snapshots, replay>>

Held(t) == IF t \in DOMAIN shares THEN shares[t] ELSE 0
Marked == DOMAIN shares \cup DOMAIN mix.parts

\* Every held or targeted ticker has a close of the session.
Priceable == \A t \in Marked : Trades(t, Execution(point))

\* A mark, the mixer or the fill fails closed: no close for a marked ticker, a
\* band without wealth or over a mix that is no simplex.
Nav == cashKrw + cashUsd * market.rate
         + PartsSum([t \in Marked |-> Held(t) * market.close[t] * market.rate])
Mixable == mix.parts # <<>> /\ config.banded => Nav > 0 /\ Simplex(mix)

FailPoint ==
  /\ stage = "buy"
  /\ ~Priceable \/ ~Mixable
  /\ stage' = "failed"
  /\ UNCHANGED <<config, lives, point, shapedCredits, drift, market, signal, mix, incumbents,
                 contribution, investable, books, replay>>

SpendMix ==
  IF mix.parts = <<>> \/ ~config.banded THEN mix
  ELSE BandedMix(mix, [t \in DOMAIN mix.parts |-> Held(t) * market.close[t] * market.rate],
                 Nav, Band)

Snapshot(held, krw, usd) ==
  [contribution |-> contribution, shares |-> held, cashKrw |-> krw, cashUsd |-> usd,
   reserve |-> reserve, market |-> market]
Advance == /\ stage' = IF point = Len(Points) THEN "finish" ELSE "settle"
           /\ point' = point + 1

\* Mutant: the whole investable money is taken from the cash, not what the mix
\* spends.
BuyLotsOverdrawn ==
  /\ stage = "buy"
  /\ Priceable /\ Mixable
  /\ LET spend  == SpendMix
         sum    == PartsSum(spend.parts)
         budget == (investable * sum) \div spend.whole
         bought == (100 * budget) \div (market.rate * (100 + Spread))
         trade  == cashUsd + bought
         net    == trade - Percent(trade, Commission)
         lots   == Lots(Mix(spend.parts, sum), net, market.close)
         cost   == Cost(lots, market.close)
         filled == [t \in DOMAIN shares \cup DOMAIN lots |->
                      Held(t) + IF t \in DOMAIN lots THEN lots[t] ELSE 0]
     IN /\ budget > 0
        /\ shares' = filled
        /\ cashUsd' = net - cost
        /\ cashKrw' = cashKrw - investable
        /\ snapshots' = Append(snapshots, Snapshot(filled, cashKrw - investable, net - cost))
  /\ Advance
  /\ UNCHANGED <<config, lives, shapedCredits, drift, market, signal, mix, incumbents, contribution,
                 investable, reserve, replay>>

\* fill_integer_buys on the recycled dollars and the converted budget; the lots
\* join the book and the session is recorded.
BuyLots ==
  /\ stage = "buy"
  /\ Priceable /\ Mixable
  /\ LET spend  == SpendMix
         sum    == PartsSum(spend.parts)
         budget == (investable * sum) \div spend.whole
         bought == (100 * budget) \div (market.rate * (100 + Spread))
         trade  == cashUsd + bought
         net    == trade - Percent(trade, Commission)
         lots   == Lots(Mix(spend.parts, sum), net, market.close)
         cost   == Cost(lots, market.close)
         filled == [t \in DOMAIN shares \cup DOMAIN lots |->
                      Held(t) + IF t \in DOMAIN lots THEN lots[t] ELSE 0]
     IN /\ budget > 0
        /\ shares' = filled
        /\ cashUsd' = net - cost
        /\ cashKrw' = cashKrw - budget
        /\ snapshots' = Append(snapshots, Snapshot(filled, cashKrw - budget, net - cost))
  /\ Advance
  /\ UNCHANGED <<config, lives, shapedCredits, drift, market, signal, mix, incumbents, contribution,
                 investable, reserve, replay>>

\* Nothing to spend: no eligible ticker or an empty budget.
SkipBuying ==
  /\ stage = "buy"
  /\ Priceable /\ Mixable
  /\ (investable * PartsSum(SpendMix.parts)) \div SpendMix.whole = 0
  /\ snapshots' = Append(snapshots, Snapshot(shares, cashKrw, cashUsd))
  /\ Advance
  /\ UNCHANGED <<config, lives, shapedCredits, drift, market, signal, mix, incumbents, contribution,
                 investable, cashKrw, cashUsd, reserve, shares, replay>>

\* A missing rate, CPI level or metadata row, or a breach of liquidity.
Abort ==
  /\ stage \in {"settle", "target", "credit", "buy"}
  /\ stage' = "failed"
  /\ UNCHANGED <<config, lives, point, shapedCredits, drift, market, signal, mix, incumbents,
                 contribution, investable, books, replay>>

\* An adaptive path that never credited anything fails.
Finish ==
  /\ stage = "finish"
  /\ stage' = IF "adaptive" \in config.modules
                   /\ \A k \in DOMAIN snapshots : snapshots[k].contribution = 0
              THEN "failed" ELSE "done"
  /\ UNCHANGED <<config, lives, point, shapedCredits, drift, market, signal, mix, incumbents,
                 contribution, investable, books, replay>>
-----------------------------------------------------------------------------
(* Paper execution *)

\* orders_from_snapshots: the last lot seen of a ticker before a snapshot.
PriorLot(k, t) ==
  LET seen == {j \in 1 .. k - 1 : t \in DOMAIN snapshots[j].shares}
  IN IF seen = {} THEN 0 ELSE snapshots[Max(seen)].shares[t]
OrderOf(k, t) == snapshots[k].shares[t] - PriorLot(k, t)

\* PaperBroker: the sum of all buys of a ticker.
BookOf(t) ==
  MapThenSumSet(LAMBDA k : LargerOf(0, OrderOf(k, t)),
                {k \in DOMAIN snapshots : t \in DOMAIN snapshots[k].shares})

\* replay_paper: derive the orders, fill the book and compare it with the last
\* snapshot.
ReplayPaper ==
  /\ stage = "done" /\ replay = "none"
  /\ replay' = IF \E k \in DOMAIN snapshots : \E t \in DOMAIN snapshots[k].shares :
                    OrderOf(k, t) < 0
               THEN "sell detected"
               ELSE IF \E t \in Tickers : BookOf(t) # Held(t) THEN "mismatch" ELSE "reconciled"
  /\ UNCHANGED <<config, lives, stage, point, shapedCredits, drift, market, signal, mix, incumbents,
                 contribution, investable, books>>

AllocationNext == \/ CheckConfig \/ ShapeCredit \/ SettleDelisted \/ ResolveTargets
        \/ CreditContribution \/ FailPoint \/ BuyLots \/ SkipBuying \/ Abort \/ Finish
        \/ ReplayPaper
AllocationSpec == AllocationInit /\ [][AllocationNext]_allocationVars
-----------------------------------------------------------------------------
(* Properties *)

Prior(k) == IF k = 1 THEN [shares |-> <<>>, cashKrw |-> 0, cashUsd |-> 0, reserve |-> 0]
                     ELSE snapshots[k - 1]
Worth(s, at) == s.cashKrw + s.reserve + s.cashUsd * at.rate + Cost(s.shares, at.close) * at.rate
Converted(k) == snapshots[k].contribution + Prior(k).reserve - snapshots[k].reserve
                  + Prior(k).cashKrw - snapshots[k].cashKrw
GoneFrom(k) == DOMAIN Prior(k).shares \ DOMAIN snapshots[k].shares

\* From one snapshot to the next wealth changes by the market, the contribution,
\* and what spread and commission took, and by nothing else: cash in two
\* currencies, reserve, lots and settled holdings together (run_allocation's
\* "ledger is the SSOT for the path").
WealthExplained ==
  \A k \in DOMAIN snapshots :
    LET s       == snapshots[k]
        at      == s.market
        gross   == Cost(Restrict(Prior(k).shares, GoneFrom(k)), at.close)
        usd     == (100 * Converted(k)) \div (at.rate * (100 + Spread))
        settled == gross - Percent(gross, Commission)
        fee     == IF Converted(k) = 0 THEN 0
                   ELSE Percent(Prior(k).cashUsd + settled + usd, Commission)
    IN /\ Converted(k) >= 0
       /\ Worth(s, at) = Worth(Prior(k), at) + s.contribution
                           - (Converted(k) - usd * at.rate)
                           - (Percent(gross, Commission) + fee) * at.rate

\* Whatever the signals, the modules that move money in time keep its sum.  A
\* month's points share one contribution; shaped credits stay in their band, are
\* never impossible, never ahead of the plan by more than a window can save, and
\* add up to the flat plan over the horizon; a reserve is never negative and, in v2 to v4, within its stock cap; and no point converts
\* won that an earlier one left in cash.
CreditsKeepBudget ==
  /\ stage # "infeasible"
  /\ \A i \in DOMAIN shapedCredits : shapedCredits[i] \in Percent(Base, ShapeLaw.min) .. Percent(Base, ShapeLaw.max)
  /\ drift <= (ShapeLaw.window - 1) * Percent(Base, 100 - ShapeLaw.min)
  /\ Len(shapedCredits) = Len(Points) => FoldSeq(+, 0, shapedCredits) = Len(Points) * Base
  /\ reserve >= 0
  /\ config.schedule \in {"v2", "v3", "v4"} => reserve <= ReserveLaw.months * contribution
  /\ \A k \in DOMAIN snapshots : snapshots[k].cashKrw >= Prior(k).cashKrw
  /\ config.modules \cap {"shape", "adaptive"} = {} =>
       \A d \in config.first .. config.last :
         LET ofMonth == {k \in DOMAIN Points : MonthOf(Points[k]) = MonthOf(d)}
         IN ofMonth \subseteq DOMAIN snapshots =>
              MapThenSumSet(LAMBDA k : snapshots[k].contribution, ofMonth) = Base

\* With the universe's membership no point ever needs the close of a ticker that
\* does not trade; a fill leaves less than one share of each bought ticker as
\* dust; and the paper book replays the path exactly, unless a held ticker was
\* settled, which a buy-only book cannot follow.
HoldingsSound ==
  /\ stage = "buy" /\ config.membership => Priceable
  /\ stage \in {"settle", "finish", "done"} /\ snapshots # <<>>
       /\ Converted(Len(snapshots)) > 0 =>
         cashUsd < MapThenSumSet(LAMBDA t : market.close[t], DOMAIN mix.parts)
  /\ replay # "none" =>
       LET sold == \E k \in DOMAIN snapshots : \E t \in GoneFrom(k) : Prior(k).shares[t] > 0
       IN replay = IF sold THEN "mismatch" ELSE "reconciled"

\* The wealth of an account is explained and its holdings are the ones it bought.
AllocationSound == WealthExplained /\ HoldingsSound
=============================================================================
