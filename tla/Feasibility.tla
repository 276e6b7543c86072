----------------------------- MODULE Feasibility -----------------------------
(***************************************************************************)
(* The preflight of a buy-only run, and the run it lets through: whether   *)
(* the first and the last fill have their marks, whether the first signal  *)
(* has its history, where a safe start would be and from when to ingest.   *)
(* Beside it the audit of a static plan, which asks less of more windows.  *)
(*                                                                         *)
(* The sleeve whose history the modules read is followed close by close,   *)
(* the other marks only by the sessions they trade.  The dry run of the    *)
(* ETF mapping is left out.                                                *)
(***************************************************************************)
EXTENDS DecisionSchedule, Sequences, FiniteSets, FiniteSetsExt

CONSTANTS
  Worlds,       \* [close : session -> close or 0, mark, fx : sessions, cpi, vix : instants]
  Setups,       \* [modules : subset of {"overlay", "reserve", "currency"}, gate : BOOLEAN]
  AskedWindows, \* <<start, end>>
  TrendWindow, VolWindow, DrawdownWindow, PercentileWindow,
  CohortMonths, CohortStep,
  NoDate

ASSUME FeasibilityAssumption ==
  /\ VolWindow >= 2
  /\ \A w \in AskedWindows : w[1] <= w[2]

VARIABLES
  world, setup,   \* given
  asked,          \* the window under examination
  report,         \* of the preflight, NoDate before
  retried,        \* the window is the one the report suggested
  progress,       \* [point, failed] of the run
  audited         \* [earliest, latest, cohorts], NoDate before

feasVars == <<world, setup, asked, report, retried, progress, audited>>

Calendar == DOMAIN world.close
LastFill(w) == Fill(Max(MonthEndSessions(w[1], w[2])))

FeasInit ==
  /\ world \in Worlds /\ setup \in Setups /\ asked \in AskedWindows
  /\ report = NoDate /\ retried = FALSE /\ audited = NoDate
  /\ progress = [point |-> 0, failed |-> {}]

-----------------------------------------------------------------------------
(* Features: only bars visible at the signal, windows never shortened *)

ClosesBy(t) == {s \in Calendar : s <= t /\ world.close[s] > 0}
\* the last n sessions with a close, ascending
RecentIn(t, n) == {s \in ClosesBy(t) : Cardinality({q \in ClosesBy(t) : q >= s}) <= n}
PriorBar(s) == Max(ClosesBy(s - 1))
SessionReturn(s) == <<world.close[s], world.close[PriorBar(s)]>>
SameReturn(a, b) == a[1] * b[2] = b[1] * a[2]

TrailingCompoundReturn(t) == Cardinality(ClosesBy(t)) > TrendWindow
TrailingSimpleVol(t) ==
  /\ Cardinality(ClosesBy(t)) > VolWindow
  /\ \E a, b \in RecentIn(t, VolWindow) : ~SameReturn(SessionReturn(a), SessionReturn(b))
TrailingPriceDrawdown(t) == Cardinality(ClosesBy(t)) >= DrawdownWindow
TrailingFxPercentile(t) == Cardinality({s \in world.fx : s <= t}) >= PercentileWindow

OverlayReads(t) == TrailingCompoundReturn(t) /\ TrailingSimpleVol(t) /\ TrailingPriceDrawdown(t)
VisibleMacroLevel(t) == \E at \in world.vix : at <= t
ReserveReads(t) ==
  TrailingCompoundReturn(t) /\ TrailingPriceDrawdown(t) /\ (setup.gate => VisibleMacroLevel(t))
CpiVisible(t) == \E at \in world.cpi : at <= t

-----------------------------------------------------------------------------
(* The preflight *)

Configured(m) == m \in setup.modules
MarkViolations(s) ==
  (IF s \notin world.fx THEN {<<"fx", s>>} ELSE {})
  \cup (IF world.close[s] = 0 \/ s \notin world.mark THEN {<<"price", s>>} ELSE {})

\* What the first signal must have, and its fill (_point_passes).
HistoryViolations(t) ==
  (IF CpiVisible(Fill(t)) THEN {} ELSE {"cpi"})
  \cup (IF Configured("overlay") /\ ~OverlayReads(t) THEN {"overlay_warmup"} ELSE {})
  \cup (IF Configured("reserve") /\ ~ReserveReads(t) THEN {"reserve_warmup"} ELSE {})
  \cup (IF setup.gate /\ ~VisibleMacroLevel(t) THEN {"vix"} ELSE {})

WarmupOf(profileModules) ==
  Max({0} \cup (IF "overlay" \in profileModules THEN {TrendWindow, VolWindow, DrawdownWindow} ELSE {})
          \cup (IF "reserve" \in profileModules THEN {TrendWindow, DrawdownWindow} ELSE {})
          \cup (IF "currency" \in profileModules THEN {PercentileWindow} ELSE {}))

SessionsBeforeShort(s, count) == Max({1, s - count + 1})
SessionsBefore(s, count) == Max({1, s - count})

\* scanned from the first date of prices, whatever start was asked for
PriceDates(w) == {s \in Calendar : s <= LastFill(w) /\ (world.close[s] > 0 \/ s \in world.mark)}
EarliestSafeStartWarm(w) ==
  LET safe == {t \in MonthEndSessions(1, w[2]) : HistoryViolations(t) \subseteq {"cpi"}}
  IN  IF safe = {} THEN NoDate ELSE Min(safe)
EarliestSafeStart(w) ==
  LET lower == IF PriceDates(w) = {} THEN w[1] ELSE Min(PriceDates(w))
      safe == {t \in MonthEndSessions(lower, w[2]) : HistoryViolations(t) = {}}
  IN  IF safe = {} THEN NoDate ELSE Min(safe)

MarkedFills(w) == {Fill(Min(MonthEndSessions(w[1], w[2]))), LastFill(w)}
MarkedFillsFirst(w) == {Fill(Min(MonthEndSessions(w[1], w[2])))}

ResolveFeasibility(w) ==
  LET signals == MonthEndSessions(w[1], w[2])
      first == Min(signals)
  IN  IF signals = {}
      THEN [codes |-> {"empty_schedule"}, marks |-> {}, earliest |-> NoDate, recommended |-> NoDate]
      ELSE [codes |-> HistoryViolations(first)
                      \cup (IF Configured("currency") /\ ~TrailingFxPercentile(first) THEN {"currency_warmup"} ELSE {}),
            marks |-> UNION {MarkViolations(s) : s \in MarkedFills(w)},
            earliest |-> EarliestSafeStart(w),
            recommended |-> IF Configured("overlay") \/ Configured("reserve")
                            THEN SessionsBefore(first, WarmupOf(setup.modules)) ELSE Fill(first)]

Preflight ==
  /\ report = NoDate
  /\ report' = ResolveFeasibility(asked)
  /\ UNCHANGED <<world, setup, asked, retried, progress, audited>>

Passed == report # NoDate /\ report.codes = {} /\ report.marks = {}

\* A refused window is asked again from the start the report suggests.
RetrySuggested ==
  /\ report # NoDate /\ ~Passed /\ ~retried /\ report.earliest # NoDate
  /\ asked' = <<report.earliest, asked[2]>>
  /\ report' = NoDate /\ retried' = TRUE /\ audited' = NoDate
  /\ UNCHANGED <<world, setup, progress>>

-----------------------------------------------------------------------------
(* The run: what the allocation engine reads at each point *)

RunPoints == MonthEndSessions(asked[1], asked[2])
NextPoint == Min({t \in RunPoints : t > progress.point})
Lacking(t) ==
  MarkViolations(Fill(t))
  \cup (IF CpiVisible(Fill(t)) THEN {} ELSE {<<"cpi", t>>})
  \cup (IF Configured("overlay") /\ ~OverlayReads(t) THEN {<<"overlay", t>>} ELSE {})
  \cup (IF Configured("overlay") /\ setup.gate /\ ~VisibleMacroLevel(t) THEN {<<"vix", t>>} ELSE {})
  \cup (IF Configured("reserve") /\ ~ReserveReads(t) THEN {<<"reserve", t>>} ELSE {})
  \cup (IF Configured("currency") /\ ~TrailingFxPercentile(t) THEN {<<"currency", t>>} ELSE {})

RunPoint ==
  /\ Passed /\ progress.failed = {} /\ progress.point < Max(RunPoints)
  /\ progress' = [point |-> NextPoint, failed |-> Lacking(NextPoint)]
  /\ UNCHANGED <<world, setup, asked, report, retried, audited>>

-----------------------------------------------------------------------------
(* The audit of a static plan *)

\* A missing row is forgiven if any earlier one is visible.
BoundaryPasses(first, last) == \A s \in {first, last} :
  /\ CpiVisible(s)
  /\ \E q \in world.fx : q <= s
  /\ ClosesBy(s) # {}
  /\ \E q \in world.mark : q <= s

Cohorts(earliest, latest) ==
  Cardinality({k \in 0 .. latest : earliest + (k * CohortStep + CohortMonths) * MonthLength - 1 <= latest})

LatestEnd(start, ends) ==
  {e \in ends : BoundaryPasses(Fill(Min(MonthEndSessions(start, e))), Fill(e))}
LatestEndOnly(start, ends) == {e \in ends : BoundaryPasses(Fill(e), Fill(e))}

Audit ==
  /\ audited = NoDate /\ setup.modules = {} /\ MonthEndSessions(asked[1], asked[2]) # {}
  /\ LET ends == MonthEndSessions(asked[1], asked[2])
         starts == {t \in ends : BoundaryPasses(Fill(t), Fill(Max(ends)))}
         latest == LatestEnd(asked[1], ends)
     IN  audited' = [earliest |-> IF starts = {} THEN NoDate ELSE Min(starts),
                     latest |-> IF latest = {} THEN NoDate ELSE Max(latest),
                     cohorts |-> IF starts = {} \/ latest = {} THEN 0 ELSE Cohorts(Min(starts), Max(latest))]
  /\ UNCHANGED <<world, setup, asked, report, retried, progress>>

FeasNext == Preflight \/ RetrySuggested \/ RunPoint \/ Audit
FeasSpec == FeasInit /\ [][FeasNext]_feasVars

-----------------------------------------------------------------------------
(* Properties *)

\* A run that was let through can only break inside: on a mark missing between
\* its first and its last fill, or on a sleeve that later stops moving.  What
\* the first signal had, every later one has (resolve_feasibility checks the
\* first signal and the two outer fills only).
BreaksOnlyInside == \A f \in progress.failed :
  \/ f[1] \in {"fx", "price"} /\ Fill(Min(RunPoints)) < f[2] /\ f[2] < LastFill(asked)
  \/ /\ f[1] = "overlay" /\ f[2] > Min(RunPoints)
     /\ \A a, b \in RecentIn(f[2], VolWindow) : SameReturn(SessionReturn(a), SessionReturn(b))

\* The suggested start clears what it was suggested for; it is never later than
\* the first signal of a window that passes, and no earlier signal would do.
SuggestionClears == report # NoDate =>
  /\ retried => report.codes \subseteq {"currency_warmup"}
  /\ Passed => report.earliest # NoDate /\ report.earliest <= Min(RunPoints)
  /\ retried => report.earliest = asked[1]

\* Ingesting from the recommended date gives the first signal its history: with
\* a close on every session from there on, only a sleeve that stands still or a
\* missing VIX can refuse it.
RecommendationSuffices == report # NoDate /\ report.recommended # NoDate =>
  LET first == Min(RunPoints) IN
  /\ WarmupOf(setup.modules) < first
  /\ \A s \in report.recommended .. first : world.close[s] > 0
  => /\ "reserve_warmup" \in report.codes => setup.gate /\ "vix" \in report.codes
     /\ "overlay_warmup" \in report.codes =>
          \A a, b \in RecentIn(first, VolWindow) : SameReturn(SessionReturn(a), SessionReturn(b))

\* The cohorts the audit counts lie in a window whose outer fills both pass, and
\* what the preflight lets through the audit finds feasible end to end.
AuditAgrees == audited # NoDate =>
  LET signals == MonthEndSessions(asked[1], asked[2]) IN
  /\ audited.earliest # NoDate /\ audited.latest # NoDate =>
       BoundaryPasses(Fill(audited.earliest), Fill(audited.latest))
  /\ audited.cohorts > 0 => audited.earliest = Min(signals) /\ audited.latest = Max(signals)
  /\ Passed => audited.earliest = Min(signals) /\ audited.latest = Max(signals)

FeasibilitySound == BreaksOnlyInside /\ SuggestionClears /\ RecommendationSuffices /\ AuditAgrees
=============================================================================
