----------------------------- MODULE IngestPanel -----------------------------
(***************************************************************************)
(* The ingest commands as the datasets they publish one after the other,   *)
(* and the thesis commands that resolve an as-of from what is published,   *)
(* gate it on freshness and run, while the calendar and the ingest go on.  *)
(*                                                                         *)
(* A dataset is the set of days from which its rows are visible, PRICES    *)
(* per ticker.  How one dataset is fetched and stored is the subject of    *)
(* PriceFetch, MacroVintages and SilverStore.                              *)
(***************************************************************************)
EXTENDS Integers, FiniteSets, Sequences, SequencesExt

CONSTANTS
  PanelTickers,    \* THESIS_PANEL_TICKERS
  PanelDays,       \* days, from 0
  Closed,          \* days that are not sessions
  DaysPerMonth,    \* days of a month
  MaxLag,          \* MAX_PANEL_LAG_DAYS
  FirstDates,      \* days the observation of the commands may start at
  AckThrough,      \* the panel date the hard-stop file acknowledges
  SmallPanel,      \* rows below which a panel may be replaced by any other
  RequestsExtend,  \* TRUE when no request replaces the panel by a lesser one
  AsOfs,           \* dates an operator names
  Breakable,       \* datasets that may be damaged
  MaxIngests,      \* bound: ingest commands
  MaxBreaks        \* bound: damaged datasets

VARIABLES
  date,      \* today
  prices,    \* sessions stored of each ticker
  macroOf,   \* FX and CPI: days from which rows are visible
  broken,    \* datasets whose newest partition is damaged
  ingest,    \* the ingest command in progress
  exits,     \* how many ingest commands ended, and how the last did
  wave       \* the thesis command in progress or ended

panelVars == <<date, prices, macroOf, broken, ingest, exits, wave>>

PanelSession == PanelDays \ Closed
Month(d) == d \div DaysPerMonth

-----------------------------------------------------------------------------
(* Ingest commands *)

\* The datasets of each command in order, those inspected before, those that
\* merge with their newest partition, and those that may fail without failing it.
Command(plan, preflight, merges, optional) ==
  [begun |-> TRUE, at |-> 1, failed |-> {}, end |-> 0,
   plan |-> plan, preflight |-> preflight, merges |-> merges, optional |-> optional]

History == <<"fx", "prices", "cpi", "fx_krw_base", "rates", "factors", "macro", "research_returns", "etf_metadata">>
Commands ==
  {Command(<<"fx", "prices", "cpi">>, {"prices", "fx"}, {}, {"cpi"}),                    \* smoke
   Command(<<"prices", "fx", "cpi">>, {"prices", "fx", "cpi"}, {"prices"}, {}),          \* static-dca
   Command(History, ToSet(History), {"prices", "rates"}, {}),
   Command(<<"prices", "fx", "cpi", "etf_holdings">>, {}, {"prices", "etf_holdings"},
           {"etf_holdings"}),                                                            \* thesis-panel
   Command(<<"macro">>, {}, {"macro"}, {}), Command(<<"prices">>, {}, {}, {})}           \* one dataset

Resting == [begun |-> FALSE]
NoWave == [phase |-> "none"]

SoFar(days, d) == {s \in days : s < d}

\* Earlier commands left every dataset stored up to now, or not at all.
PanelInit ==
  /\ date \in FirstDates
  /\ prices \in [PanelTickers -> {SoFar(PanelSession, d) : d \in {0, date}}]
  /\ macroOf \in [{"fx", "cpi"} -> {SoFar(PanelDays, d) : d \in {0, date}}]
  /\ broken = {}
  /\ ingest = Resting
  /\ exits = [count |-> 0, code |-> 1, lacks |-> {}]
  /\ wave = NoWave

NextDay ==
  /\ date + 1 \in PanelDays
  /\ date' = date + 1
  /\ UNCHANGED <<prices, macroOf, broken, ingest, exits, wave>>

Break(d) ==
  /\ Cardinality(broken) < MaxBreaks
  /\ broken' = broken \cup {d}
  /\ UNCHANGED <<date, prices, macroOf, ingest, exits, wave>>

Ends(code, c) ==
  /\ ingest' = Resting
  /\ exits' = [count |-> exits.count + 1, code |-> code, lacks |-> c.failed \ c.optional]

\* _preflight_relevant_silver: a damaged dataset of the plan ends the command
\* before its first request.
BeginIngest(c, end) ==
  /\ ~ingest.begun /\ exits.count < MaxIngests
  /\ IF c.preflight \cap broken = {}
     THEN ingest' = [c EXCEPT !.end = end] /\ UNCHANGED exits
     ELSE Ends(1, c)
  /\ UNCHANGED <<date, prices, macroOf, broken, wave>>

\* The price partition a command leaves: what it fetched, and what it merges with.
PricesAfter(asked) ==
  [t \in PanelTickers |-> (IF t \in asked THEN SoFar(PanelSession, ingest.end) ELSE {})
                           \cup (IF "prices" \in ingest.merges THEN prices[t] ELSE {})]

Grows(new) == \A t \in PanelTickers : prices[t] \subseteq new[t]
Rows(panel) == FoldSet(LAMBDA t, n : n + Cardinality(panel[t]), 0, PanelTickers)

\* assert_safe_partition_replacement for a command that does not merge; the
\* operator's discipline is to replace a panel only by one that extends it.
PricesAccepted(new) ==
  IF RequestsExtend THEN Grows(new)
  ELSE "prices" \in ingest.merges \/ "prices" \in broken \/ Rows(prices) < SmallPanel \/ 2 * Rows(new) >= Rows(prices)

\* Publication of the next dataset; one that merges needs its newest partition
\* intact.  Requests for FX and CPI start where the stored rows do.
PublishNext ==
  /\ ingest.begun /\ ingest.at =< Len(ingest.plan)
  /\ LET d == ingest.plan[ingest.at]
     IN  /\ d \in ingest.merges => d \notin broken
         /\ IF d = "prices"
            THEN \E asked \in (SUBSET PanelTickers) \ {{}} :
                   PricesAccepted(PricesAfter(asked)) /\ prices' = PricesAfter(asked)
            ELSE UNCHANGED prices
         /\ IF d \in {"fx", "cpi"}
            THEN macroOf' = [macroOf EXCEPT ![d] = @ \cup SoFar(PanelDays, ingest.end)]
            ELSE UNCHANGED macroOf
         /\ broken' = broken \ {d}
         /\ ingest' = [ingest EXCEPT !.at = @ + 1]
  /\ UNCHANGED <<date, exits, wave>>

\* Mutant: whatever fails after the first dataset is only logged.
FailNextTolerant ==
  /\ ingest.begun /\ ingest.at =< Len(ingest.plan)
  /\ IF ingest.at > 1
     THEN ingest' = [ingest EXCEPT !.at = @ + 1, !.failed = @ \cup {ingest.plan[ingest.at]}] /\ UNCHANGED exits
     ELSE Ends(1, ingest)
  /\ UNCHANGED <<date, prices, macroOf, broken, wave>>

\* A provider, a guard or an untrusted prior stops the dataset, and with it
\* the command unless the dataset is optional.
FailNext ==
  /\ ingest.begun /\ ingest.at =< Len(ingest.plan)
  /\ IF ingest.plan[ingest.at] \in ingest.optional
     THEN ingest' = [ingest EXCEPT !.at = @ + 1, !.failed = @ \cup {ingest.plan[ingest.at]}] /\ UNCHANGED exits
     ELSE Ends(1, ingest)
  /\ UNCHANGED <<date, prices, macroOf, broken, wave>>

FinishIngest ==
  /\ ingest.begun /\ ingest.at > Len(ingest.plan)
  /\ Ends(0, ingest)
  /\ UNCHANGED <<date, prices, macroOf, broken, wave>>

-----------------------------------------------------------------------------
(* Freshness of the panel *)

StoredSessions == UNION {prices[t] : t \in PanelTickers}

\* month_end_sessions between the first stored session and the earlier of
\* the last one and the reference.
Candidates(reference) ==
  LET span == {d \in PanelSession : Min(StoredSessions) =< d /\ d =< Max(StoredSessions) /\ d =< reference}
  IN  {d \in span : \A e \in span : Month(e) = Month(d) => e =< d}

\* Mutant: every ticker needs a bar on the session itself.
SessionPassesExact(d) ==
  /\ \A t \in PanelTickers : d \in prices[t]
  /\ \A m \in {"fx", "cpi"} : \E e \in macroOf[m] : e =< d

\* _session_passes: every ticker, the exchange rate and the price index have
\* a row that is visible at the close of the session.
SessionPasses(d) ==
  /\ \A t \in PanelTickers : \E e \in prices[t] : e =< d
  /\ \A m \in {"fx", "cpi"} : \E e \in macroOf[m] : e =< d

\* _insufficient_report: its as-of is the reference itself.
NoPanel(reference) == [status |-> "INSUFFICIENT_DATA", asOf |-> reference]

\* resolve_catalog_panel_as_of
Panel(reference) ==
  IF \E t \in PanelTickers : prices[t] = {} THEN NoPanel(reference)
  ELSE LET passing == {d \in Candidates(reference) : SessionPasses(d)}
       IN  IF passing = {} THEN NoPanel(reference)
           ELSE [asOf |-> Max(passing),
                 status |-> IF reference - Max(passing) =< MaxLag THEN "FRESH" ELSE "STALE"]

\* Mutant: the acknowledgement covers every later panel too.
ApplyHardStopAlways(report) ==
  IF report.status = "STALE" /\ AckThrough >= 0 THEN [report EXCEPT !.status = "HARD_STOP_ACK"] ELSE report

\* apply_hard_stop: a stale panel is acknowledged up to the date in the file.
ApplyHardStop(report) ==
  IF report.status = "STALE" /\ report.asOf =< AckThrough THEN [report EXCEPT !.status = "HARD_STOP_ACK"] ELSE report

-----------------------------------------------------------------------------
(* A thesis command *)

Wave(phase, asOf, chosen, allowed, panel) ==
  [phase |-> phase, asOf |-> asOf, chosen |-> chosen, allowed |-> allowed, panel |-> panel]

Damaged == broken \cap {"prices", "fx", "cpi"} # {}

\* The as-of of the operator, not after the last stored price unless the
\* catalog cannot be read, or the panel's.
ChooseAsOf(allowStale) ==
  /\ wave.phase = "none"
  /\ \/ \E asOf \in AsOfs :
          /\ IF Damaged \/ StoredSessions = {} THEN TRUE ELSE asOf =< Max(StoredSessions)
          /\ wave' = Wave("gate", asOf, "explicit", allowStale, NoPanel(date))
     \/ /\ ~Damaged
        /\ wave' = Wave("gate", Panel(date).asOf, Panel(date).status, allowStale, NoPanel(date))
  /\ UNCHANGED <<date, prices, macroOf, broken, ingest, exits>>

\* The gate reads the catalog once more; the wave runs on the as-of chosen
\* before and reports the gate's panel.
Gate ==
  /\ wave.phase = "gate"
  /\ LET report == ApplyHardStop(Panel(date))
         refused == \/ Damaged
                    \/ report.status = "INSUFFICIENT_DATA"
                    \/ report.status = "STALE" /\ ~wave.allowed
     IN  wave' = IF refused THEN NoWave ELSE [wave EXCEPT !.phase = "ran", !.panel = report]
  /\ UNCHANGED <<date, prices, macroOf, broken, ingest, exits>>

PanelNext ==
  \/ NextDay
  \/ \E d \in Breakable : Break(d)
  \/ \E c \in Commands : \E end \in PanelDays : end =< date /\ BeginIngest(c, end)
  \/ PublishNext
  \/ FailNext
  \/ FinishIngest
  \/ \E allowStale \in BOOLEAN : ChooseAsOf(allowStale)
  \/ Gate

-----------------------------------------------------------------------------
(* Properties *)

\* A command that exits 0 has published every dataset it requires, even when
\* partial failures were tolerated on the way (ingest.py: zero only after all
\* required dataset updates publish).
ExitTellsTruth == exits.code = 0 => exits.lacks = {}

\* A thesis command that ran on the panel's own as-of found every ticker, the
\* exchange rate and the price index visible at it, on an as-of not after the
\* gate's panel nor after today; and a stale panel ran only when the operator
\* allowed it or the hard-stop file covers its date (run_thesis_wave_command).
WaveBacked ==
  wave.phase = "ran" =>
    /\ wave.panel.asOf =< date
    /\ wave.panel.status = "STALE" => wave.allowed
    /\ wave.panel.status = "HARD_STOP_ACK" => wave.panel.asOf =< AckThrough
    /\ wave.chosen \in {"FRESH", "STALE"} => wave.asOf =< wave.panel.asOf /\ SessionPasses(wave.asOf)

\* Publications that extend their datasets never move the panel of a reference
\* back, and a later reference never resolves an earlier panel.
PanelAdvances ==
  [][Panel(date).status # "INSUFFICIENT_DATA" =>
       /\ Panel(date)'.status # "INSUFFICIENT_DATA"
       /\ Panel(date).asOf =< Panel(date)'.asOf]_<<date, prices, macroOf>>
=============================================================================
