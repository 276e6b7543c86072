---------------------------- MODULE MacroVintages ----------------------------
(***************************************************************************)
(* The MACRO dataset: a vintage archive that is read in chunks of its      *)
(* realtime axis, a backfill of series that are never revised, and the     *)
(* point-in-time view a decision takes of the rows.                        *)
(*                                                                         *)
(* The archive is external: each observation has the days its values were  *)
(* published, a value is current until the next, and the archive knows it  *)
(* from ArchiveStart on.  A value is identified with its publication day.  *)
(***************************************************************************)
EXTENDS Integers, FiniteSets, FiniteSetsExt

CONSTANTS
  Series,        \* FRED series
  ReleaseLag,    \* the allowlist: sessions until an unrevised value is released
  MacroDay,      \* days, from 0
  MacroHoliday,  \* days that are not sessions
  ArchiveStart,  \* the first day the vintage archive covers
  ChunkDays,     \* _VINTAGE_CHUNK_DAYS
  Archives,      \* what may have been published: [Series -> [day -> set of days]]
  MaxRefreshes   \* bound: commands

VARIABLES
  archive,   \* the truth: publication days of each observation of each series
  macro,     \* rows of the newest MACRO partition
  today,
  refreshes

macroVars == <<archive, macro, today, refreshes>>

Listing == DOMAIN ReleaseLag
MacroSession == MacroDay \ MacroHoliday
Row(s, obs, release, value) == [series |-> s, obs |-> obs, release |-> release, value |-> value]

-----------------------------------------------------------------------------
(* The archive *)

Horizon == Max(MacroDay) + 1
\* The last day a value is the current one.
Until(s, obs, p) ==
  LET later == {q \in archive[s][obs] : q > p} IN IF later = {} THEN Horizon ELSE Min(later) - 1
Knows(p) == IF p < ArchiveStart THEN ArchiveStart ELSE p

\* What a request with a realtime window answers, clipped to that window.
Answer(s, start, end, from, to) ==
  {Row(s, obs, Min({Until(s, obs, p), to}), p) :
     <<obs, p>> \in {<<o, p>> \in (start .. end) \X MacroDay :
        /\ o \in DOMAIN archive[s] /\ p \in archive[s][o]
        /\ Knows(p) =< Min({Until(s, o, p), to}) /\ Until(s, o, p) >= from}}

-----------------------------------------------------------------------------
(* Vintages *)

\* The chunks of the realtime window [start, end].
Chunks(start, end) ==
  {<<a, Min({a + ChunkDays, end})>> : a \in {d \in start .. end : (d - start) % (ChunkDays + 1) = 0}}

\* Mutant: a value counts as released on the day it was observed.
VintagesAtObservation(s, start, end) ==
  {[r EXCEPT !.release = r.obs] : r \in UNION {Answer(s, start, end, c[1], c[2]) : c \in Chunks(start, end)}}

\* fetch_macro_vintages: the release of a row is the end of its realtime.
Vintages(s, start, end) == UNION {Answer(s, start, end, c[1], c[2]) : c \in Chunks(start, end)}

\* A chunk without an observation fails the whole series.
Answers(s, start, end) == \A c \in Chunks(start, end) : Answer(s, start, end, c[1], c[2]) # {}

MacroInit ==
  /\ archive \in Archives
  /\ macro = {}
  /\ today \in MacroDay
  /\ refreshes = 0

Midnight ==
  /\ today + 1 \in MacroDay
  /\ today' = today + 1
  /\ UNCHANGED <<archive, macro, refreshes>>

\* fetch_and_persist_macro: the history command replaces the dataset, the
\* dataset command retains the series it did not ask for.
RefreshMacro(ids, start, end, retain) ==
  /\ refreshes < MaxRefreshes
  /\ start =< end /\ end =< today
  /\ \A s \in ids : Answers(s, start, end)
  /\ macro' = UNION {Vintages(s, start, end) : s \in ids}
              \cup {r \in macro : retain /\ r.series \notin ids}
  /\ refreshes' = refreshes + 1
  /\ UNCHANGED <<archive, today>>

-----------------------------------------------------------------------------
(* Backfill *)

StoredObs(s) == {r.obs : r \in {q \in macro : q.series = s}}

\* Mutant: the cutoff is the last stored observation, not the first.
CutoffLast(s) == Max(StoredObs(s))

\* _cutoff: the first stored observation of a series that is stored.
Cutoff(s) == Min(StoredObs(s))

\* Mutant: a print dated on a holiday is released as if the day before it were a session.
ReleaseCloseEarly(obs, lag) ==
  CHOOSE d \in MacroSession : Cardinality({e \in MacroSession : obs =< e /\ e < d}) = lag - 1

\* _release_close: lag sessions after the observation's own or next session.
ReleaseClose(obs, lag) ==
  CHOOSE d \in MacroSession : Cardinality({e \in MacroSession : obs =< e /\ e < d}) = lag

\* fetch_latest_observations and _backfill_rows: the values current today,
\* strictly before the cutoff.
BackfillRows(s, start) ==
  {Row(s, obs, ReleaseClose(obs, ReleaseLag[s]), Max(archive[s][obs])) :
     obs \in {o \in DOMAIN archive[s] : start =< o /\ o < Cutoff(s) /\ archive[s][o] # {}}}

\* fetch_and_persist_macro_backfill.  Sessions are counted up to the lag past
\* the cutoff, which the calendar must reach.
BackfillMacro(ids, start) ==
  /\ refreshes < MaxRefreshes
  /\ ids \subseteq Listing
  /\ \A s \in ids :
       /\ StoredObs(s) # {} /\ start < Cutoff(s)
       /\ \E o \in DOMAIN archive[s] : start =< o /\ o =< Cutoff(s)
       /\ Cardinality({d \in MacroSession : Cutoff(s) =< d}) > ReleaseLag[s]
  /\ macro' = macro \cup UNION {BackfillRows(s, start) : s \in ids}
  /\ refreshes' = refreshes + 1
  /\ UNCHANGED <<archive, today>>

MacroNext ==
  \/ Midnight
  \/ \E ids \in (SUBSET Series) \ {{}}, start \in MacroDay :
       \/ BackfillMacro(ids, start)
       \/ \E end \in MacroDay, retain \in BOOLEAN : RefreshMacro(ids, start, end, retain)

-----------------------------------------------------------------------------
(* The view of a decision *)

Visible(s, obs, day) == {r \in macro : r.series = s /\ r.obs = obs /\ r.release =< day}

\* as_of: the latest visible publication of an observation; two at one
\* instant are ambiguous and refused.
AsOf(s, obs, day) ==
  LET seen == Visible(s, obs, day)
  IN  {r.value : r \in {q \in seen : \A o \in seen : o.release =< q.release}}

\* Whatever was refreshed, retained and backfilled, no decision sees a value
\* before it was published, none meets two values of one observation at one
\* instant, and a later decision never goes back to an earlier value (pit.py:
\* only rows public by the decision instant, resolving each observation).
MacroPointInTime ==
  /\ \A r \in macro : r.release >= r.value
  /\ \A s \in Series : \A obs \in StoredObs(s) : \A day \in MacroDay :
       /\ Cardinality(AsOf(s, obs, day)) =< 1
       /\ \A later \in MacroDay : later > day =>
            \A v \in AsOf(s, obs, day), w \in AsOf(s, obs, later) : v =< w

\* A backfill extends: it leaves every stored row and adds only observations
\* before the first stored one of their series, so its rows never overlap the
\* vintages (macro_backfill.py: rows never overlap vintage rows).
BackfillExtends ==
  [][\A ids \in (SUBSET Series) \ {{}}, start \in MacroDay : BackfillMacro(ids, start) =>
       /\ macro \subseteq macro'
       /\ \A new \in macro' \ macro, old \in macro : new.series = old.series => new.obs < old.obs]_macroVars
=============================================================================
