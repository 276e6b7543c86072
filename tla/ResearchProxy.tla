--------------------------- MODULE ResearchProxy ---------------------------
(***************************************************************************)
(* The research proxy and the two stress audits that use it where no ETF   *)
(* has a history: a monthly plan bought in units of an index made of daily *)
(* research returns.  The history audit tries start after start until one  *)
(* window runs; the mix audit runs a base series and a blend of series     *)
(* over one window and compares them.                                      *)
(*                                                                         *)
(* A return is its gross factor, a session with 0 has no row; the CPI is   *)
(* left out and USD/KRW stands at one won wherever it is quoted.           *)
(***************************************************************************)
EXTENDS DecisionSchedule, Sequences, SequencesExt, FiniteSets, FiniteSetsExt

CONSTANTS Tapes,       \* [gross : series -> session -> Nat, fx : sessions]
          Errands,     \* [kind : {"history", "mix"}, start, asOf, fallbacks : Seq of starts]
          BaseSeries,  \* of the mix audit
          MixWeights, MixScale,  \* weights of the blend, in parts of MixScale
          Pot          \* the monthly contribution

VARIABLES tape, errand,
          queue,       \* candidate starts not tried yet
          proxyStage,       \* pick, cap, base, mix, done
          window,      \* [start, end] under examination
          filled,      \* the last fill made
          level, units, \* of the index, and held of it
          verdict      \* [status, window, wealth, baseline]

proxyVars == <<tape, errand, queue, proxyStage, window, filled, level, units, verdict>>

Series == DOMAIN tape.gross
SessionsOf(s) == {d \in DOMAIN tape.gross[s] : tape.gross[s][d] > 0}
CatalogMin == Min(UNION {SessionsOf(s) : s \in Series})

\* the candidate starts of audit_pre_history_proxy_stress, in order
Candidates ==
  LET first == <<errand.start, CatalogMin>>
  IN  first \o SelectSeq(errand.fallbacks, LAMBDA d : d \notin ToSet(first))

ProxyInit ==
  /\ tape \in Tapes /\ errand \in Errands
  /\ queue = IF errand.kind = "history" THEN Candidates ELSE <<errand.start>>
  /\ proxyStage = "pick" /\ window = [start |-> 0, end |-> 0]
  /\ filled = 0 /\ level = 1 /\ units = 0
  /\ verdict = [status |-> "none", window |-> window, wealth |-> 0, baseline |-> 0]

-----------------------------------------------------------------------------
(* The window of an attempt *)

ProxySchedule(w) == MonthEndSessions(w.start, w.end)
LastProxyFill(w) == Fill(Max(ProxySchedule(w)))

Give(status, wealth) ==
  /\ verdict' = [verdict EXCEPT !.status = status, !.window = window, !.wealth = wealth]
  /\ proxyStage' = "done"

TryStart ==
  /\ proxyStage = "pick" /\ queue # <<>>
  /\ queue' = Tail(queue)
  /\ IF Head(queue) > errand.asOf
     THEN UNCHANGED <<proxyStage, window>>
     ELSE /\ proxyStage' = "cap" /\ window' = [start |-> Head(queue), end |-> errand.asOf]
  /\ UNCHANGED <<tape, errand, filled, level, units, verdict>>

GiveUp ==
  /\ proxyStage = "pick" /\ queue = <<>> /\ Give("unavailable", 0)
  /\ UNCHANGED <<tape, errand, queue, window, filled, level, units>>

\* Mutant: a whole month is dropped where the last session would do.
CappedMonth(w) ==
  LET last == Max(ProxySchedule(w)) IN
  IF last - MonthLength >= w.start THEN last - MonthLength ELSE w.start
\* one round of _allocation_end_within_as_of
Capped(w) == LET last == Max(ProxySchedule(w)) IN IF last = w.start THEN w.start ELSE last - 1

Settles(w) == LastProxyFill(w) <= errand.asOf \/ Capped(w) = w.end
CapEnd ==
  /\ proxyStage = "cap"
  /\ IF Settles(window)
     THEN /\ proxyStage' = "base" /\ UNCHANGED window
     ELSE /\ window' = [window EXCEPT !.end = Capped(window)] /\ UNCHANGED proxyStage
  /\ filled' = 0 /\ level' = 1 /\ units' = 0
  /\ UNCHANGED <<tape, errand, queue, verdict>>

-----------------------------------------------------------------------------
(* The simulation *)

\* Mutant: the parts of the blend are added up whole.
MixedUnscaled(d) ==
  LET present == {s \in DOMAIN MixWeights : d \in SessionsOf(s)}
  IN  IF present = {} THEN 0
      ELSE 1 + MapThenSumSet(LAMBDA s : MixWeights[s] * (tape.gross[s][d] - 1), present)
\* synthesize_proxy_mix_returns: what a series without a row would earn is zero.
Mixed(d) ==
  LET present == {s \in DOMAIN MixWeights : d \in SessionsOf(s)}
  IN  IF present = {} THEN 0
      ELSE 1 + (MapThenSumSet(LAMBDA s : MixWeights[s] * (tape.gross[s][d] - 1), present) \div MixScale)

\* Of the series visible at the last fill: the history audit takes the one there
\* is, the mix audit needs all it names.
VisibleSeries(w) == {s \in Series : \E d \in SessionsOf(s) : d <= LastProxyFill(w)}
Identified(w) ==
  IF errand.kind = "history" THEN Cardinality(VisibleSeries(w)) = 1
  ELSE {BaseSeries} \cup DOMAIN MixWeights \subseteq VisibleSeries(w)
Gross(leg, w, d) ==
  IF leg = "mix" THEN Mixed(d)
  ELSE tape.gross[IF errand.kind = "history" THEN CHOOSE s \in VisibleSeries(w) : TRUE ELSE BaseSeries][d]

NextFill == Min({Fill(t) : t \in {u \in ProxySchedule(window) : Fill(u) > filled}})
Fillable(leg, w, d) == Identified(w) /\ d \in tape.fx /\ Gross(leg, w, d) > 0

\* Mutant: bought before the session's return.
BoughtBefore(gross) == units + (Pot \div level)
\* bought at the close, after the session's return
Bought(gross) == units + (Pot \div (level * gross))

RunFill ==
  /\ proxyStage \in {"base", "mix"} /\ filled < LastProxyFill(window)
  /\ Fillable(proxyStage, window, NextFill)
  /\ LET gross == Gross(proxyStage, window, NextFill)
     IN  level' = level * gross /\ units' = Bought(gross)
  /\ filled' = NextFill
  /\ UNCHANGED <<tape, errand, queue, proxyStage, window, verdict>>

\* A fill without its mark ends the attempt.
FailFill ==
  /\ proxyStage \in {"base", "mix"} /\ filled < LastProxyFill(window)
  /\ ~Fillable(proxyStage, window, NextFill)
  /\ IF errand.kind = "history" THEN proxyStage' = "pick" /\ UNCHANGED verdict ELSE Give("unavailable", 0)
  /\ UNCHANGED <<tape, errand, queue, window, filled, level, units>>

FinishLeg ==
  /\ proxyStage \in {"base", "mix"} /\ filled = LastProxyFill(window)
  /\ IF errand.kind = "mix" /\ proxyStage = "base"
     THEN /\ verdict' = [verdict EXCEPT !.baseline = units * level]
          /\ proxyStage' = "mix" /\ filled' = 0 /\ level' = 1 /\ units' = 0
     ELSE Give("available", units * level) /\ UNCHANGED <<filled, level, units>>
  /\ UNCHANGED <<tape, errand, queue, window>>

ProxyNext == TryStart \/ GiveUp \/ CapEnd \/ RunFill \/ FailFill \/ FinishLeg
ProxySpec == ProxyInit /\ [][ProxyNext]_proxyVars

-----------------------------------------------------------------------------
(* Properties *)

Available == verdict.status = "available"
FillsOf(w) == {Fill(t) : t \in ProxySchedule(w)}

\* No fill lies after the observation date, and no window that ends later could
\* say so; a start without room for a single fill is returned as it is
\* (_allocation_end_within_as_of).
WindowHonest == Available /\ Fill(verdict.window.start) <= errand.asOf =>
  /\ LastProxyFill(verdict.window) <= errand.asOf
  /\ \A e \in verdict.window.end + 1 .. errand.asOf :
       LastProxyFill([verdict.window EXCEPT !.end = e]) > errand.asOf

\* The history audit reports the first candidate whose window runs, and gives up
\* only when none does.
CappedEnd(start) ==
  Max({start} \cup {e \in start .. errand.asOf : LastProxyFill([start |-> start, end |-> e]) <= errand.asOf})
Works(start) ==
  /\ start <= errand.asOf
  /\ LET w == [start |-> start, end |-> CappedEnd(start)]
     IN  \A d \in FillsOf(w) : Fillable("base", w, d)
FirstThatWorks == errand.kind = "history" =>
  /\ Available => \E k \in DOMAIN Candidates :
       /\ Candidates[k] = verdict.window.start /\ \A j \in 1 .. k - 1 : ~Works(Candidates[j])
  /\ verdict.status = "unavailable" => \A k \in DOMAIN Candidates : ~Works(Candidates[k])

Product(f(_), S) == MapThenFoldSet(LAMBDA a, b : a * b, 1, f, LAMBDA T : CHOOSE x \in T : TRUE, S)
\* What the contributions of a window are worth at the end of it, each from its
\* own fill on, over the sessions that count.
WindowWorth(gross(_), w, counted) ==
  MapThenSumSet(LAMBDA d : Pot * Product(gross, {e \in counted : e > d}), FillsOf(w))

\* A contribution earns the return of every later fill and not of its own.
FillsCompound == Available =>
  verdict.wealth = WindowWorth(LAMBDA d : Gross(IF errand.kind = "mix" THEN "mix" ELSE "base", verdict.window, d),
                         verdict.window, FillsOf(verdict.window))

\* A blend of complete series ends between the best and the worst of them.
BlendBetween == Available /\ errand.kind = "mix" =>
  LET w == verdict.window
      alone == {WindowWorth(LAMBDA d : tape.gross[s][d], w, FillsOf(w)) : s \in DOMAIN MixWeights}
      \* one series beats the others on every fill
      ordered == \E s \in DOMAIN MixWeights : \A d \in FillsOf(w), q \in DOMAIN MixWeights :
                   tape.gross[s][d] >= tape.gross[q][d]
  IN  (\A s \in DOMAIN MixWeights : FillsOf(w) \subseteq SessionsOf(s)) /\ ordered
        => Min(alone) <= verdict.wealth /\ verdict.wealth <= Max(alone)

ProxySound == WindowHonest /\ FirstThatWorks /\ FillsCompound /\ BlendBetween

\* The index compounds the daily returns: with a row for every session of the
\* window, a contribution earns every one after its fill (run_research_proxy).
IndexCompoundsDailyReturns ==
  LET w == verdict.window
      days == Min(FillsOf(w)) .. LastProxyFill(w)
  IN  Available /\ errand.kind = "history" /\ (\A d \in days : Gross("base", w, d) > 0) =>
        verdict.wealth = WindowWorth(LAMBDA d : Gross("base", w, d), w, days)
=============================================================================
