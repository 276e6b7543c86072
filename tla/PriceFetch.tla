----------------------------- MODULE PriceFetch -----------------------------
(***************************************************************************)
(* A price ingest of one process: which window each ticker still needs,    *)
(* the pacing gate in front of every request, the retries of a request,    *)
(* the tickers a rate limit skips and the partition that is published.     *)
(*                                                                         *)
(* Time runs in units, UnitsPerDay of them a UTC day; the vendor serves    *)
(* the sessions before today from a ticker's listing on.  What one         *)
(* publication is made of on disk is the subject of SilverStore.           *)
(***************************************************************************)
EXTENDS Integers, FiniteSets, Sequences, SequencesExt

CONSTANTS
  Tickers,             \* the vendor's tickers
  Requests,            \* sequences of them a command is asked for
  Listed,              \* the first session the vendor has of each
  LastDay,             \* bound: the last day
  Holidays,            \* days that are not sessions
  UnitsPerDay,         \* time units of a day
  MinInterval,         \* VendorQuota.min_interval_s
  RequestsPerDay,      \* VendorQuota.requests_per_day
  MaxAttempts,         \* attempts of get_json at one document
  CorrectionSessions,  \* sessions of overlap fetched again
  RequestsMeet,        \* TRUE when every request meets what is stored
  MaxPriceCommands     \* bound: commands

Day == 0 .. LastDay
Sessions == Day \ Holidays

ASSUME PriceAssumption ==
  /\ UnitsPerDay > 0 /\ MinInterval > 0 /\ RequestsPerDay > 0 /\ MaxAttempts > 0 /\ CorrectionSessions > 0
  /\ Listed \in [Tickers -> Day]
  /\ \A asked \in Requests : asked # <<>> /\ ToSet(asked) \subseteq Tickers

VARIABLES
  now,        \* time
  bars,       \* sessions of each ticker in the newest PRICES partition
  gate,       \* PacingGate: last admission, day it counts for, admissions of it
  fetch,      \* the command in progress
  admitted,   \* every admission of the command in progress
  commands    \* commands begun

priceVars == <<now, bars, gate, fetch, admitted, commands>>

DayOf(t) == t \div UnitsPerDay
Never == -1
NewGate == [last |-> Never, today |-> Never, used |-> 0]
Idle == [phase |-> "idle"]
Published == [phase |-> "published"]

-----------------------------------------------------------------------------
(* Windows *)

NoWindow == <<LastDay + 1, Never>>
Within(w) == {d \in Sessions : w[1] =< d /\ d =< w[2]}

\* The session a number of sessions before one; days before the first are sessions.
RECURSIVE SessionsBefore(_, _)
SessionsBefore(d, n) ==
  IF n = 0 THEN d
  ELSE SessionsBefore(IF \E s \in Sessions : s < d THEN Max({s \in Sessions : s < d}) ELSE d - 1, n - 1)

\* Mutant: what lies before the stored bars is never asked for.
WindowForwardOnly(ticker, start, end) ==
  IF bars[ticker] = {} THEN <<start, end>>
  ELSE IF Max(bars[ticker]) >= end THEN NoWindow
  ELSE LET overlap == SessionsBefore(Max(bars[ticker]), CorrectionSessions - 1)
       IN  <<IF overlap > start THEN overlap ELSE start, end>>

\* resolve_price_http_window
Window(ticker, start, end) ==
  IF bars[ticker] = {} \/ start < Min(bars[ticker]) THEN <<start, end>>
  ELSE IF Max(bars[ticker]) >= end THEN NoWindow
  ELSE LET overlap == SessionsBefore(Max(bars[ticker]), CorrectionSessions - 1)
       IN  <<IF overlap > start THEN overlap ELSE start, end>>

\* What the vendor serves of a window today.
Serves(ticker, w) == {d \in Within(w) : Listed[ticker] =< d /\ d < DayOf(now)}

\* The operator's discipline: a request leaves no gap to what is stored.
Meets(ticker, start, end) ==
  bars[ticker] # {} => \A d \in Sessions : /\ d >= start \/ d =< Max(bars[ticker])
                                           /\ d =< end \/ d >= Min(bars[ticker])

-----------------------------------------------------------------------------
(* The command *)

PriceInit ==
  /\ now = 0
  /\ bars = [t \in Tickers |-> {}]
  /\ gate = NewGate
  /\ fetch = Idle
  /\ admitted = <<>>
  /\ commands = 0

Tick ==
  /\ now < (LastDay + 1) * UnitsPerDay - 1
  /\ now' = now + 1
  /\ UNCHANGED <<bars, gate, fetch, admitted, commands>>

\* A new gate, the prior partition and the windows of all its tickers; one
\* without a window takes no part.  The plain command asks for all of them.
BeginPrices(asked, start, end, incremental) ==
  /\ fetch.phase \in {"idle", "published"} /\ commands < MaxPriceCommands
  /\ IF RequestsMeet THEN \A t \in ToSet(asked) : Meets(t, start, end) ELSE TRUE
  /\ LET window == [t \in ToSet(asked) |-> IF incremental THEN Window(t, start, end) ELSE <<start, end>>]
     IN  fetch' = [phase |-> "next", asked |-> asked, start |-> start, end |-> end,
                   incremental |-> incremental, window |-> window, day |-> DayOf(now),
                   todo |-> SelectSeq(asked, LAMBDA t : window[t] # NoWindow),
                   got |-> [t \in Tickers |-> {}], skipped |-> {}, throttled |-> 0, attempt |-> 1]
  /\ gate' = NewGate
  /\ admitted' = <<>>
  /\ commands' = commands + 1
  /\ UNCHANGED <<now, bars>>

Stop == fetch' = Idle

\* The day turns: its admissions start from none.
GateToday == IF gate.today # DayOf(now) THEN [gate EXCEPT !.today = DayOf(now), !.used = 0] ELSE gate

Admit(g) ==
  /\ gate' = [g EXCEPT !.used = @ + 1, !.last = now]
  /\ admitted' = Append(admitted, now)
  /\ fetch' = [fetch EXCEPT !.phase = "get"]

\* Mutant: the interval is not waited for on a new day.
AcquireHasty ==
  /\ fetch.phase = "next" /\ fetch.todo # <<>>
  /\ LET g == GateToday
     IN  IF g.used >= RequestsPerDay
         THEN Stop /\ UNCHANGED <<gate, admitted>>
         ELSE IF g.used > 0 /\ now - g.last < MinInterval
         THEN fetch' = [fetch EXCEPT !.phase = "asleep"] /\ gate' = g /\ UNCHANGED admitted
         ELSE Admit(g)
  /\ UNCHANGED <<now, bars, commands>>

\* acquire: the day's budget, then the interval since the last admission.
Acquire ==
  /\ fetch.phase = "next" /\ fetch.todo # <<>>
  /\ LET g == GateToday
     IN  IF g.used >= RequestsPerDay
         THEN Stop /\ UNCHANGED <<gate, admitted>>
         ELSE IF g.last # Never /\ now - g.last < MinInterval
         THEN fetch' = [fetch EXCEPT !.phase = "asleep"] /\ gate' = g /\ UNCHANGED admitted
         ELSE Admit(g)
  /\ UNCHANGED <<now, bars, commands>>

\* The sleep is over, perhaps late and perhaps on another day.
Wake ==
  /\ fetch.phase = "asleep"
  /\ now - gate.last >= MinInterval
  /\ Admit(GateToday)
  /\ UNCHANGED <<now, bars, commands>>

\* get_json: a 5xx answer is asked again without the gate.
ServerError ==
  /\ fetch.phase = "get"
  /\ IF fetch.attempt < MaxAttempts THEN fetch' = [fetch EXCEPT !.attempt = @ + 1] ELSE Stop
  /\ UNCHANGED <<now, bars, gate, admitted, commands>>

\* 429: once more through the gate; twice skips the ticker of an incremental
\* command and ends any other.
RateLimited ==
  /\ fetch.phase = "get"
  /\ IF fetch.throttled = 0
     THEN fetch' = [fetch EXCEPT !.phase = "next", !.throttled = 1, !.attempt = 1]
     ELSE IF fetch.incremental
     THEN fetch' = [fetch EXCEPT !.phase = "next", !.todo = Tail(@), !.throttled = 0, !.attempt = 1,
                                 !.skipped = @ \cup {Head(fetch.todo)}]
     ELSE Stop
  /\ UNCHANGED <<now, bars, gate, admitted, commands>>

\* The bars of the window; none at all is an error.
Answered ==
  /\ fetch.phase = "get"
  /\ LET t == Head(fetch.todo)
         served == Serves(t, fetch.window[t])
     IN  IF served = {} THEN Stop
         ELSE fetch' = [fetch EXCEPT !.phase = "next", !.todo = Tail(@), !.throttled = 0, !.attempt = 1,
                                     !.got[t] = served]
  /\ UNCHANGED <<now, bars, gate, admitted, commands>>

\* Nothing was fetched although some ticker has a window.
NothingFetched(f) == (\A t \in Tickers : f.got[t] = {}) /\ \E t \in DOMAIN f.window : f.window[t] # NoWindow

\* Mutant: the merge keeps a prior ticker only when it was not fetched.
PublishReplacingTickers ==
  /\ fetch.phase = "next" /\ fetch.todo = <<>>
  /\ bars' = [t \in Tickers |-> IF fetch.incremental /\ fetch.got[t] = {} THEN bars[t] ELSE fetch.got[t]]
  /\ fetch' = Published
  /\ UNCHANGED <<now, gate, admitted, commands>>

\* The fetched rows merged with the prior partition, or the prior again when
\* every window was covered; the plain command replaces the partition.
Publish ==
  /\ fetch.phase = "next" /\ fetch.todo = <<>> /\ ~NothingFetched(fetch)
  /\ bars' = [t \in Tickers |-> IF fetch.incremental THEN bars[t] \cup fetch.got[t] ELSE fetch.got[t]]
  /\ fetch' = Published
  /\ UNCHANGED <<now, gate, admitted, commands>>

\* Nothing to publish, a transport failure, a malformed bar, a bar outside
\* the ticker's lifetime, a refusing guard, or a death.
PriceFails ==
  /\ fetch.phase \notin {"idle", "published"}
  /\ Stop
  /\ UNCHANGED <<now, bars, gate, admitted, commands>>

PriceNext ==
  \/ Tick
  \/ \E asked \in Requests, start \in Day, end \in Day, incremental \in BOOLEAN :
       start =< end /\ BeginPrices(asked, start, end, incremental)
  \/ Acquire
  \/ Wake
  \/ ServerError
  \/ RateLimited
  \/ Answered
  \/ Publish
  \/ PriceFails

-----------------------------------------------------------------------------
(* Properties *)

\* The admissions of one command keep the vendor's interval, and its daily
\* budget in every day of the clock, whichever side of midnight they fall on
\* (quota.py: enforce min interval and daily budget).
GateKeepsPace ==
  /\ \A i \in 2 .. Len(admitted) : admitted[i] - admitted[i - 1] >= MinInterval
  /\ \A i \in 1 .. Len(admitted) :
       Cardinality({j \in 1 .. Len(admitted) : DayOf(admitted[j]) = DayOf(admitted[i])}) =< RequestsPerDay

\* What a command publishes covers its request, for every ticker it did not
\* skip, with all the sessions the vendor had when it began; and an incremental
\* command takes away no bar of any ticker.
PublishCovers ==
  [][fetch.phase # "published" /\ fetch' = Published =>
       /\ \A t \in ToSet(fetch.asked) \ fetch.skipped :
            {d \in Within(<<fetch.start, fetch.end>>) : Listed[t] =< d /\ d < fetch.day} \subseteq bars'[t]
       /\ fetch.incremental => \A t \in Tickers : bars[t] \subseteq bars'[t]]_priceVars
=============================================================================
