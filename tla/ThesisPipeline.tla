--------------------------- MODULE ThesisPipeline ---------------------------
(***************************************************************************)
(* The thesis commands: a report on one thesis, the incremental portfolio  *)
(* of a thesis's vehicle beside the core, and the pipeline that runs a     *)
(* wave of reports, the portfolio and the exit assessment.  Every panel,   *)
(* every proxy history and every run of the allocation reads the catalog   *)
(* that is current when it is read, and ingests publish meanwhile.         *)
(*                                                                         *)
(* Windows are of whole years; a ratio is in percent.  What a catalog      *)
(* holds is what the commands read of it: the panel's date and status, the *)
(* first session of each vehicle, the slots it can compute, and what runs  *)
(* over a window earn.                                                     *)
(***************************************************************************)
EXTENDS Integers, Sequences, SequencesExt

CONSTANTS
  Theses,                \* in the order of a wave
  Vehicle,               \* the first historical proxy of each
  MinYears, TargetYears, \* the horizon each declares
  MappedWindow,          \* the window of the experiment each is mapped to
  Worlds,                \* catalogs in the order they are published
  ThesisCases,           \* a world, what an operator asks in it, what may fail
  AcknowledgedTo,        \* the panel date the hard-stop file acknowledges
  Ratios                 \* what runs may earn, in percent of the baseline

Missing == -1
NoCohorts == [years |-> 0, end |-> 0, count |-> 0, median |-> Missing, ce |-> Missing]
NoArm == [median |-> Missing, tail |-> Missing, ok |-> FALSE]
HorizonSurface == {5, 7, 8, 10}
SatelliteWeights == <<5, 10, 15>>
TrackF == {"structural", "valuation", "crowding"}
StudyFloor == 2012      \* no cohort of the portfolio starts before
ReportSince == 2007     \* where a report without an experiment starts
ReportUntil == 2025     \* and where it ends if its as-of is not after that
PanelStatuses == {"FRESH", "STALE", "INSUFFICIENT_DATA", "unreadable"}

ASSUME ThesesAssumption ==
  /\ Theses \in Seq(ToSet(Theses)) /\ Theses # <<>>
  /\ \A i, j \in DOMAIN Theses : Theses[i] = Theses[j] => i = j
  /\ MinYears \in [ToSet(Theses) -> Nat \ {0}] /\ TargetYears \in [ToSet(Theses) -> Nat \ {0}]
  /\ \A t \in ToSet(Theses) : MappedWindow[t] \in [start : Nat, end : Nat]
ASSUME WorldsAssumption ==
  /\ Ratios \subseteq Nat
  /\ \A w \in DOMAIN Worlds :
       /\ Worlds[w] # <<>> /\ Worlds[w] \in Seq(ToSet(Worlds[w]))
       /\ \A c \in ToSet(Worlds[w]) :
            /\ c.since \in Nat /\ c.last \in Nat /\ c.panel \in [asOf : Nat, status : PanelStatuses]
            /\ \A t \in ToSet(Theses) : c.first[Vehicle[t]] \in Nat \cup {Missing}
            /\ \A t \in ToSet(Theses) : c.slots[t] \subseteq TrackF /\ c.terminal[t] \in Ratios
ASSUME CasesAssumption ==
  \A k \in ThesisCases :
    /\ k.world \in DOMAIN Worlds /\ k.mayFail \in Nat
    /\ k.command \in {"report", "incremental", "pipeline"}
    /\ k.asOf \in Nat \cup {Missing} /\ k.allowStale \in BOOLEAN /\ k.experiment \in BOOLEAN

VARIABLES
  request,          \* the case
  published,        \* how many of its world's catalogs are out
  step,             \* what the command does next, or "ended"
  asOf,             \* the as-of it works at
  gate,             \* the panel that let it run
  begun,            \* the catalog a run began with, 0 between runs
  draft,            \* the report in hand
  entries, failures,\* the wave so far
  study,            \* the incremental portfolio so far
  files,            \* what has been written
  faults,           \* failed reads and writes, as many as the case allows
  code              \* the exit code
thesisVars == <<request, published, step, asOf, gate, begun, draft, entries, failures, study,
                files, faults, code>>
worldVars == <<request, published>>
waveVars == <<draft, entries, failures>>

CatalogOf(i) == Worlds[request.world][i]
Now == CatalogOf(published)
Pipeline == request.command = "pipeline"
Larger(x, y) == IF x < y THEN y ELSE x
Span(w) == w.end - w.start
CohortCount(w, years) == IF Span(w) < years THEN 0 ELSE Span(w) - years + 1

NoPanelYet == [asOf |-> 0, status |-> "none"]
EmptyDraft ==
  [historical |-> Missing, slots |-> {}, terminal |-> Missing, horizon |-> 0, surface |-> FALSE,
   long |-> NoCohorts, span |-> 0, eligible |-> FALSE, seen |-> {}, clean |-> TRUE]
NoStudy == [start |-> 0, end |-> 0, years |-> 0, pinned |-> 0, arms |-> <<>>, seen |-> {}, clean |-> TRUE]

ThesisInit ==
  /\ request \in ThesisCases /\ published = 1
  /\ step = "asked" /\ asOf = 0 /\ gate = NoPanelYet /\ begun = 0
  /\ draft = EmptyDraft /\ entries = <<>> /\ failures = <<>>
  /\ study = NoStudy /\ files = {} /\ faults = 0 /\ code = Missing

\* Another process publishes the next catalog.
PublishCatalog ==
  /\ step # "ended" /\ published < Len(Worlds[request.world])
  /\ published' = published + 1
  /\ UNCHANGED <<request, step, asOf, gate, begun, waveVars, study, files, faults, code>>

Exit(c) == step' = "ended" /\ code' = c /\ begun' = 0
GoTo(s) == step' = s /\ begun' = 0 /\ UNCHANGED code
Fault == faults < request.mayFail /\ faults' = faults + 1
NoFault == UNCHANGED faults

\* A run reads its catalogs one snapshot after another: it starts, and ends
\* when the last of them has been read.  What it finds is what the one catalog
\* holds, or anything if another was published between.
LongStages == {"evidence", "terminal", "cohorts", "arm"}
BeginRun ==
  /\ step \in LongStages /\ begun = 0
  /\ begun' = published
  /\ UNCHANGED <<worldVars, step, asOf, gate, waveVars, study, files, faults, code>>
Found(value, any) == IF begun = published THEN {value} ELSE any

-----------------------------------------------------------------------------
(* The gate. *)

\* The incremental command resolves the thesis only after the gate.
AskThesis ==
  /\ step = "asked"
  /\ IF request.command # "incremental" /\ request.thesis \notin ToSet(Theses)
     THEN Exit(2)
     ELSE GoTo(IF Pipeline THEN "gate" ELSE "as_of")
  /\ UNCHANGED <<worldVars, asOf, gate, waveVars, study, files, faults>>

\* An explicit as-of after the last price session is refused, unless the
\* catalog cannot be read; without one the panel's date is taken.
ChooseAsOf ==
  /\ step = "as_of"
  /\ \/ /\ request.asOf # Missing
        /\ \/ request.asOf > Now.last /\ NoFault /\ Exit(1) /\ UNCHANGED asOf
           \/ Fault /\ Exit(1) /\ UNCHANGED asOf
           \/ /\ \/ request.asOf =< Now.last /\ NoFault
                 \/ Fault
              /\ asOf' = request.asOf
              /\ GoTo(IF request.command = "incremental" THEN "gate" ELSE "evidence")
     \/ /\ request.asOf = Missing /\ NoFault
        /\ IF ~Pipeline /\ Now.panel.status = "unreadable"
           THEN Exit(1) /\ UNCHANGED asOf
           ELSE /\ asOf' = IF Pipeline THEN gate.asOf ELSE Now.panel.asOf
                /\ GoTo(IF request.command = "incremental" THEN "gate" ELSE "evidence")
  /\ UNCHANGED <<worldVars, gate, waveVars, study, files>>

\* A stale panel needs the operator's leave or the acknowledgement of its date.
AcknowledgedOnce(p) == p.status = "STALE"    \* without its date
Acknowledged(p) == p.status = "STALE" /\ p.asOf =< AcknowledgedTo
Refuses(p) ==
  \/ p.status \in {"unreadable", "INSUFFICIENT_DATA"}
  \/ p.status = "STALE" /\ ~Acknowledged(p) /\ ~request.allowStale
PassGate ==
  /\ step = "gate"
  /\ LET p == Now.panel
     IN  IF Refuses(p)
         THEN Exit(1) /\ UNCHANGED gate
         ELSE /\ gate' = [p EXCEPT !.status = IF Acknowledged(p) THEN "HARD_STOP_ACK" ELSE @]
              /\ IF Pipeline THEN GoTo("as_of")
                 ELSE IF request.thesis \notin ToSet(Theses) THEN Exit(2) ELSE GoTo("start")
  /\ UNCHANGED <<worldVars, asOf, waveVars, study, files, faults>>

-----------------------------------------------------------------------------
(* A report. *)

InHand == IF Pipeline THEN Theses[Len(entries) + Len(failures) + 1] ELSE request.thesis
ByExperiment == Pipeline \/ request.experiment

\* The sessions of a thesis's vehicle that are visible at the as-of.
Listed(c, v) == c.first[v] # Missing /\ c.first[v] =< asOf
ProxyWindow(c, t) ==
  [start |-> c.first[Vehicle[t]], end |-> IF c.last < asOf THEN c.last ELSE asOf]

\* The experiment's window is cut at the as-of for the cohorts, not for the
\* historical slot.
OwnWindow == [start |-> ReportSince, end |-> IF asOf > ReportSince THEN asOf ELSE ReportUntil]
HistoryWindow(t) == IF ByExperiment THEN MappedWindow[t] ELSE OwnWindow
EvidenceWindowUncut(t) == HistoryWindow(t)
EvidenceWindow(t) ==
  IF ByExperiment
  THEN [MappedWindow[t] EXCEPT !.end = IF asOf < @ THEN asOf ELSE @]
  ELSE OwnWindow

TargetFits(t, w) == Span(w) >= MinYears[t] /\ CohortCount(w, TargetYears[t]) >= 1
HasTarget(c, t, w) ==
  \/ ~ByExperiment /\ Listed(c, Vehicle[t]) /\ TargetFits(t, ProxyWindow(c, t))
  \/ TargetFits(t, w)

\* Without a target cohort: the longest horizon of the surface that has one.
SurfaceWindow(c, t) ==
  IF ~ByExperiment /\ Listed(c, Vehicle[t]) THEN ProxyWindow(c, t) ELSE EvidenceWindow(t)
SurfaceOf(t, w) == IF Span(w) < 0 THEN {} ELSE {h \in HorizonSurface : MinYears[t] =< h /\ h =< TargetYears[t]}
Feasible(t, w) == {h \in SurfaceOf(t, w) : Span(w) >= MinYears[t] /\ CohortCount(w, h) >= 1}
Longest(S) == IF S = {} THEN 0 ELSE CHOOSE h \in S : \A k \in S : k =< h

Covers(c, v, w) == c.first[v] # Missing /\ c.first[v] =< w.start /\ w.end =< c.last
CohortsRun(c, t, w, years) ==
  IF years > 0 /\ CohortCount(w, years) >= 1 /\ Covers(c, Vehicle[t], w)
  THEN [years |-> years, end |-> w.end, count |-> CohortCount(w, years),
        median |-> c.cohorts[t, years, w.end].median, ce |-> c.cohorts[t, years, w.end].ce]
  ELSE NoCohorts

\* Every report of a thesis that could not be built is a failure of the wave
\* and the end of a single report.
NextThesis == IF Len(entries') + Len(failures') = Len(Theses) THEN "wave" ELSE "evidence"
Seen(record) == [record EXCEPT !.seen = @ \cup ((IF begun = 0 THEN published ELSE begun) .. published)]
Unclean(record) == [Seen(record) EXCEPT !.clean = FALSE]

HistoricalMedian(c, t) ==
  CohortsRun(c, t, HistoryWindow(t), IF HasTarget(c, t, HistoryWindow(t)) THEN TargetYears[t] ELSE 0).median
SlotsBetween(c, d) == {slots \in SUBSET (c \cup d) : c \cap d \subseteq slots}
EvidenceEnds ==
  /\ step = "evidence" /\ begun # 0
  /\ LET slots == Now.slots[InHand]
     IN  \/ /\ NoFault
            /\ \E median \in Found(HistoricalMedian(Now, InHand), Ratios \cup {Missing}),
                  found \in SlotsBetween(CatalogOf(begun).slots[InHand], slots) :
                 draft' = Seen([EmptyDraft EXCEPT !.historical = median, !.slots = found])
         \/ /\ Fault
            /\ \/ draft' = Unclean([EmptyDraft EXCEPT !.slots = slots])
               \/ \E lost \in slots :
                    draft' = Unclean([EmptyDraft EXCEPT !.historical = HistoricalMedian(Now, InHand),
                                                        !.slots = slots \ {lost}])
  /\ GoTo("terminal")
  /\ UNCHANGED <<worldVars, asOf, gate, entries, failures, study, files>>

\* The ratio of two runs over the whole window; a run that cannot be made
\* leaves it out, one that breaks ends the report.
TerminalRatio(c, t) == IF Covers(c, Vehicle[t], EvidenceWindow(t)) THEN c.terminal[t] ELSE Missing
TerminalEnds ==
  /\ step = "terminal" /\ begun # 0
  /\ \/ /\ NoFault
        /\ \E ratio \in Found(TerminalRatio(Now, InHand), Ratios \cup {Missing}) :
             draft' = Seen([draft EXCEPT !.terminal = ratio])
        /\ GoTo("cohorts") /\ UNCHANGED failures
     \/ Fault /\ draft' = Unclean(draft) /\ GoTo("cohorts") /\ UNCHANGED failures
     \/ /\ Fault
        /\ UNCHANGED <<draft, entries>>
        /\ IF Pipeline
           THEN failures' = Append(failures, InHand) /\ GoTo(NextThesis)
           ELSE Exit(1) /\ UNCHANGED failures
  /\ UNCHANGED <<worldVars, asOf, gate, entries, study, files>>

\* The cohorts of the target horizon, or of the longest the surface allows.
MixedRuns(w, years) ==
  {NoCohorts} \cup
  (IF CohortCount(w, years) >= 1
   THEN {[years |-> years, end |-> w.end, count |-> CohortCount(w, years), median |-> m, ce |-> e] :
           m, e \in Ratios}
   ELSE {})
CohortsEnd ==
  /\ step = "cohorts" /\ begun # 0
  /\ \E c \in {CatalogOf(i) : i \in begun .. published} :
       LET t == InHand
           w == EvidenceWindow(t)
           target == HasTarget(c, t, w)
           years == IF target THEN TargetYears[t] ELSE Longest(Feasible(t, SurfaceWindow(c, t)))
           planned == [draft EXCEPT !.horizon = IF target THEN years ELSE 0,
                                    !.surface = SurfaceOf(t, SurfaceWindow(c, t)) # {}]
       IN  \/ /\ NoFault
              /\ \E run \in Found(CohortsRun(c, t, w, years), MixedRuns(w, years)) :
                   draft' = Seen([planned EXCEPT !.long = run])
           \/ Fault /\ draft' = Unclean(planned)
  /\ GoTo("proxy")
  /\ UNCHANGED <<worldVars, asOf, gate, entries, failures, study, files>>

\* A history that cannot be read counts as none, and is not called eligible.
ReadProxy ==
  /\ step = "proxy"
  /\ LET t == InHand
         span == Span(ProxyWindow(Now, t))
     IN  \/ /\ NoFault
            /\ draft' = IF Listed(Now, Vehicle[t])
                        THEN Seen([draft EXCEPT !.span = span, !.eligible = span < MinYears[t]])
                        ELSE Seen(draft)
         \/ Fault /\ draft' = Unclean(draft)
  /\ GoTo("write")
  /\ UNCHANGED <<worldVars, asOf, gate, entries, failures, study, files>>

\* The decision and what it rests on.  The historical slot's median goes
\* before that of the cohorts, and theirs before the ratio of the whole window.
Emitted(r) == r.surface \/ (r.long # NoCohorts /\ r.terminal # Missing)
MedianOf(r) ==
  IF r.historical # Missing THEN r.historical
  ELSE IF r.long # NoCohorts THEN r.long.median
  ELSE IF Emitted(r) THEN r.terminal ELSE Missing
EquivalentOf(r) == IF Emitted(r) THEN r.long.ce ELSE Missing
Sufficient(r) == Emitted(r) /\ r.horizon > 0 /\ r.long.count >= 1
Short(t, r) == r.span < MinYears[t]
RejectedProxy(median, ce) ==
  /\ median # Missing /\ median < 100
  /\ IF ce # Missing THEN ce < 98 ELSE median < 98
JudgementRetrospective(t, r) ==    \* of any history, however short
  IF RejectedProxy(MedianOf(r), EquivalentOf(r)) THEN "reject" ELSE "continue_research"
Judgement(t, r) ==
  LET median == MedianOf(r)
      ce == EquivalentOf(r)
  IN  IF r.eligible \/ Short(t, r) THEN "prospective"
      ELSE IF RejectedProxy(median, ce) THEN "reject"
      ELSE IF median # Missing /\ ce # Missing /\ median >= 100 /\ ce < 102 THEN "watch"
      ELSE "continue_research"
Quality(t, r) ==
  IF Short(t, r) THEN "prospective_only" ELSE IF Sufficient(r) THEN "target_thin" ELSE "partial_history"
Entry(t, r) == [thesis |-> t, decision |-> Judgement(t, r), quality |-> Quality(t, r), report |-> r]

WriteReport ==
  /\ step = "write"
  /\ \/ /\ NoFault
        /\ files' = files \cup {<<"report", InHand>>}
        /\ entries' = Append(entries, Entry(InHand, draft))
        /\ UNCHANGED failures
        /\ IF Pipeline THEN GoTo(NextThesis) ELSE Exit(0)
     \/ Fault /\ Exit(1) /\ UNCHANGED <<files, entries, failures>>
  /\ draft' = EmptyDraft
  /\ UNCHANGED <<worldVars, asOf, gate, study>>

WriteWave ==
  /\ step = "wave"
  /\ \/ NoFault /\ files' = files \cup {<<"wave">>} /\ GoTo("start")
     \/ Fault /\ Exit(1) /\ UNCHANGED files
  /\ UNCHANGED <<worldVars, asOf, gate, waveVars, study>>

-----------------------------------------------------------------------------
(* The incremental portfolio. *)

\* The pipeline names neither thesis nor vehicle: its portfolio is always that
\* of the first thesis.  It runs to the panel's date, whatever the as-of.
StudyVehicle == Vehicle[IF Pipeline THEN Head(Theses) ELSE request.thesis]
OpenStudy(start, clean) ==
  IF start > gate.asOf
  THEN Exit(1) /\ UNCHANGED study
  ELSE /\ study' = Seen([NoStudy EXCEPT !.start = start, !.end = gate.asOf, !.clean = clean])
       /\ GoTo("clip")
ReadStart ==
  /\ step = "start"
  /\ \/ NoFault /\ OpenStudy(Larger(Now.since, StudyFloor), TRUE)
     \/ Fault /\ OpenStudy(StudyFloor, FALSE)
  /\ UNCHANGED <<worldVars, asOf, gate, waveVars, files>>

\* The cohorts start where the vehicle does; the longest horizon that has one
\* is taken.
ClipStart ==
  /\ step = "clip"
  /\ LET first == Now.first[StudyVehicle]
         clipped == [study EXCEPT !.start = Larger(@, first)]
         years == Longest({h \in HorizonSurface : CohortCount(clipped, h) >= 1})
     IN  \/ /\ NoFault
            /\ IF Listed(Now, StudyVehicle) /\ years > 0
               THEN study' = Seen([clipped EXCEPT !.years = years]) /\ GoTo("pin")
               ELSE Exit(1) /\ UNCHANGED study
         \/ Fault /\ Exit(1) /\ UNCHANGED study
  /\ UNCHANGED <<worldVars, asOf, gate, waveVars, files>>

\* The prices the attribution reads are pinned once.
PinPrices ==
  /\ step = "pin"
  /\ \/ NoFault /\ study' = Seen([study EXCEPT !.pinned = Now.last]) /\ GoTo("arm")
     \/ Fault /\ Exit(1) /\ UNCHANGED study
  /\ UNCHANGED <<worldVars, asOf, gate, waveVars, files>>

\* One arm: the runs of its cohorts, the two of the last window, attribution
\* and bootstrap.  Whatever breaks ends the command.
Arm(c, n) == c.arms[StudyVehicle, SatelliteWeights[n], study.end]
ArmRun(c, n) == IF Covers(c, StudyVehicle, study) /\ study.end =< study.pinned THEN Arm(c, n) ELSE NoArm
MixedArms == {NoArm} \cup [median : Ratios, tail : Ratios, ok : BOOLEAN]
ArmEnds ==
  /\ step = "arm" /\ begun # 0
  /\ LET n == Len(study.arms) + 1
     IN  \/ /\ NoFault
            /\ \E arm \in Found(ArmRun(Now, n), MixedArms) :
                 IF arm = NoArm
                 THEN Exit(1) /\ UNCHANGED study
                 ELSE /\ study' = Seen([study EXCEPT !.arms = Append(@, arm)])
                      /\ GoTo(IF n < Len(SatelliteWeights) THEN "arm" ELSE IF Pipeline THEN "save" ELSE "json")
         \/ Fault /\ Exit(1) /\ UNCHANGED study
  /\ UNCHANGED <<worldVars, asOf, gate, waveVars, files>>

ArmPasses(arm) == arm.median >= 101 /\ arm.tail >= 100 /\ arm.ok
Promising == \E i \in DOMAIN study.arms : ArmPasses(study.arms[i])

-----------------------------------------------------------------------------
(* The exit assessment and what is kept. *)

Assessed == {e \in ToSet(entries) : e.thesis = request.thesis}
Computed == UNION {e.report.slots : e \in Assessed}
TenCohortsAnyLength == study.arms # <<>>
TenCohorts == study.arms # <<>> /\ CohortCount(study, study.years) >= 10
ReferenceReady == Computed = TrackF /\ Promising /\ TenCohorts
OperationalReady == ReferenceReady /\ gate.status = "FRESH"
Blockers ==
  (TrackF \ Computed)
    \cup (IF Promising THEN {} ELSE {"portfolio_status"})
    \cup (IF TenCohorts THEN {} ELSE {"cohort_count"})
    \cup (IF ReferenceReady /\ gate.status # "FRESH" THEN {"freshness_status"} ELSE {})

\* A thesis the wave could not report on has no exit.  The page is written
\* first, then the result, then the ledger row; the first fault ends it.
KeepResult(from, file, next) ==
  /\ step = from
  /\ \/ NoFault /\ files' = files \cup {file} /\ next
     \/ Fault /\ Exit(1) /\ UNCHANGED files
  /\ UNCHANGED <<worldVars, asOf, gate, waveVars, study>>
NoEntry ==
  /\ step = "save" /\ Assessed = {}
  /\ NoFault /\ Exit(1)
  /\ UNCHANGED <<worldVars, asOf, gate, waveVars, study, files>>
WritePage == Assessed # {} /\ KeepResult("save", <<"page">>, GoTo("json"))
WriteJson == KeepResult("json", <<"json">>, GoTo("record"))
RecordRun == KeepResult("record", <<"row">>, Exit(0))

ThesisNext ==
  \/ PublishCatalog \/ BeginRun
  \/ AskThesis \/ ChooseAsOf \/ PassGate
  \/ EvidenceEnds \/ TerminalEnds \/ CohortsEnd \/ ReadProxy \/ WriteReport \/ WriteWave
  \/ ReadStart \/ ClipStart \/ PinPrices \/ ArmEnds
  \/ NoEntry \/ WritePage \/ WriteJson \/ RecordRun
ThesisSpec == ThesisInit /\ [][ThesisNext]_thesisVars

-----------------------------------------------------------------------------
\* Nothing is kept of a command whose panel the gate refused: it was fresh, or
\* stale with the operator's leave or the acknowledgement of its date.
GateHeld == files # {} /\ request.command # "report" =>
  \/ gate.status = "FRESH"
  \/ gate.status = "STALE" /\ request.allowStale
  \/ gate.status = "HARD_STOP_ACK" /\ gate.asOf =< AcknowledgedTo

\* A wave reports every thesis once, or counts it as failed; what it reports
\* has been written, and the wave itself only when it is whole.
Attempted == {e.thesis : e \in ToSet(entries)} \cup ToSet(failures)
WaveWhole == Pipeline =>
  /\ Attempted = {Theses[i] : i \in 1 .. Len(entries) + Len(failures)}
  /\ \A e \in ToSet(entries) : <<"report", e.thesis>> \in files /\ e.thesis \notin ToSet(failures)
  /\ <<"wave">> \in files => Attempted = ToSet(Theses)

\* A thesis is rejected or watched only on a history as long as it asks for;
\* evidence is sufficient only if cohorts of the whole target horizon ran and
\* ended by the as-of.
DecisionsGrounded == \A e \in ToSet(entries) :
  /\ e.decision \in {"reject", "watch"} =>
       \E i \in e.report.seen :
         LET c == CatalogOf(i)
         IN  Listed(c, Vehicle[e.thesis]) /\ Span(ProxyWindow(c, e.thesis)) >= MinYears[e.thesis]
  /\ e.quality = "target_thin" =>
       /\ e.report.long.years = TargetYears[e.thesis] /\ e.report.long.count >= 1
       /\ ByExperiment \/ asOf > ReportSince => e.report.long.end =< asOf

\* If nothing was published or failed while a report was built and its as-of
\* cuts nothing off, its median and its certainty equivalent are those of the
\* same cohorts.
OneSource == \A e \in ToSet(entries) :
  LET r == e.report
  IN  \A i \in r.seen :
        /\ r.clean /\ r.seen = {i} /\ HistoryWindow(e.thesis) = EvidenceWindow(e.thesis)
        /\ r.historical # Missing
        => r.horizon > 0 /\ r.historical = r.long.median

\* If nothing was published or failed while the arms ran, the portfolio is
\* promising just when that catalog holds an arm that passes.
PromisingOfOne ==
  \A i \in study.seen :
    study.clean /\ study.seen = {i} /\ Len(study.arms) = Len(SatelliteWeights) =>
      (Promising <=> \E n \in DOMAIN SatelliteWeights : ArmPasses(Arm(CatalogOf(i), n)))

\* A kept exit is of the thesis asked for, whatever else failed; no blocker is
\* left just when it is ready for operation, on a fresh panel, and ten yearly
\* cohorts cannot have been had before 2031.  The row is the last to be kept.
ExitEarned ==
  /\ <<"page">> \in files =>
       /\ request.thesis \in {e.thesis : e \in ToSet(entries)} \ ToSet(failures)
       /\ Blockers = {} <=> OperationalReady
       /\ OperationalReady => gate.asOf >= 2031
  /\ <<"row">> \in files => <<"json">> \in files /\ (Pipeline => {<<"wave">>, <<"page">>} \subseteq files)
  /\ code = 0 <=> (<<"row">> \in files \/ (request.command = "report" /\ files # {}))

\* The thesis commands keep their word, whatever is published meanwhile.
ThesisSound ==
  GateHeld /\ WaveWhole /\ DecisionsGrounded /\ OneSource /\ PromisingOfOne /\ ExitEarned

=============================================================================
