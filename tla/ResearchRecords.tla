-------------------------- MODULE ResearchRecords --------------------------
(***************************************************************************)
(* The research commands of src/cli_commands: how a run reads its          *)
(* configuration and the published datasets, what it notes about them, and *)
(* which files it leaves, a report in the result store and possibly a      *)
(* frozen decision record.  One command runs at a time; ingest processes   *)
(* publish new vintages of the datasets whenever they like.                *)
(*                                                                         *)
(* A command is a program: the order in which its handler and the runner   *)
(* it calls load, resolve, read, note, evaluate, write and freeze.  What   *)
(* is computed is left out: the evidence of a vintage, under the files     *)
(* read with it, favours what `outcome` says, which every run finds again. *)
(* Datasets only some configurations read (factors, macro, metadata) are   *)
(* left out.                                                               *)
(***************************************************************************)
EXTENDS Naturals, Sequences, FiniteSets

CONSTANTS
  Starts,            \* [agenda: the commands an operator sets out to run, data: the
                     \*  datasets published by then, version: of configuration
                     \*  and code, outcome: what the evidence says]
  MaxVintage,        \* bound on the publications of a dataset
  MaxVersions,       \* bound on the versions of configuration, companions and code
  MaxDeaths,
  Publishable,       \* datasets an ingest may publish meanwhile
  IdentityOf,        \* version of a configuration -> what make_experiment hashes of it
  EditsDuringRuns    \* may those three change while a command runs

ASSUME RecordsAssumption ==
  /\ {MaxVersions, MaxDeaths} \subseteq Nat /\ MaxVintage \in Nat \ {0}
  /\ EditsDuringRuns \in BOOLEAN

Datasets == {"prices", "fx", "fx_krw_base", "cpi", "rates", "kr_etf_prices",
             "research_monthly", "research_returns"}
ASSUME DataAssumption == Publishable \subseteq Datasets

Benchmark == "benchmark"
DecisionStatuses == {"ADOPT_CANDIDATE", "KEEP_BENCHMARK", "KEEP_INCUMBENT", "NO_DECISION"}
IsaStatuses == {"ADOPT_ARM", "KEEP_BASELINE", "NO_DECISION"}

----------------------------------------------------------------------------
(* Programs.  A step is what to do and with which datasets.                *)

Do(what) == [do |-> what, data |-> {}, optional |-> {}]
Use(what, data) == [do |-> what, data |-> data, optional |-> {}]
UseIfThere(what, data) == [do |-> what, data |-> {}, optional |-> data]

\* What a run from the store resolves for itself, each time it is called.
AllocationData == {"prices", "fx", "cpi"}
ProxyData == {"research_returns", "fx", "cpi"}

\* make_experiment notes the PRICES manifest that is newest when it is called,
\* after the runs it speaks of.
NoteAndWrite == <<Use("noteCatalog", {"prices"}), Do("head"), Do("write")>>

\* The feasibility check and every arm resolve their inputs afresh.
AblationProgramNotingFirst ==
  <<Do("load"), Use("noteCatalog", {"prices"}), Use("runs", AllocationData), Do("head"), Do("write")>>
AblationProgram ==
  <<Do("load"), Use("runs", AllocationData)>> \o NoteAndWrite
WalkForwardProgram ==
  <<Do("load"), Use("runs", AllocationData)>> \o NoteAndWrite
WalkForwardCostsProgram ==
  <<Do("load"), Use("runs", AllocationData)>> \o NoteAndWrite
WalkForwardProxyProgram ==
  <<Do("load"), Use("runs", AllocationData), Use("runs", ProxyData)>> \o NoteAndWrite
CadenceProgram ==
  <<Do("load"), Use("runs", AllocationData)>> \o NoteAndWrite
CohortProgram ==
  <<Do("load"), Use("runs", AllocationData)>> \o NoteAndWrite
\* Only the selection resolves one snapshot for all its arms.
SelectionContext == <<Use("pin", AllocationData), Use("read", AllocationData)>>
StrategySelectionProgram ==
  <<Do("load"), Use("runs", AllocationData)>> \o SelectionContext \o NoteAndWrite
\* The manifests named in the report are resolved between the arms and the
\* pre-history audits, which read RESEARCH_RETURNS again.
FinalHistoricalRuns ==
  <<Use("runs", AllocationData), UseIfThere("noteCatalog", {"prices", "research_returns"}),
    UseIfThere("runs", ProxyData)>>
FinalHistoricalProgram == <<Do("load")>> \o FinalHistoricalRuns \o NoteAndWrite
\* Four loads, each of what is newest then; the configuration is read again.
AfterTaxProgram ==
  <<Do("load"), Use("own", {"prices"}), Use("own", {"cpi"}), Use("own", {"fx_krw_base"}),
    Use("own", {"rates"}), Use("noteCatalog", {"prices"}), Do("bytes"), Do("head"), Do("write")>>

\* The pension campaigns read only what they pinned, and note the pins.
PensionCampaignUs ==
  <<Use("pin", {"prices", "fx_krw_base"}), Use("read", {"prices", "fx_krw_base"}),
    UseIfThere("pin", {"fx"}), UseIfThere("read", {"fx"}),
    UseIfThere("pin", {"cpi"}), UseIfThere("read", {"cpi"}),
    Use("notePins", {"prices", "fx_krw_base", "fx", "cpi"})>>
PensionCampaignKr ==
  <<Use("pin", {"kr_etf_prices"}), Use("read", {"kr_etf_prices"}),
    UseIfThere("pin", {"cpi"}), UseIfThere("read", {"cpi"}),
    Use("notePins", {"kr_etf_prices", "cpi"})>>
PensionCampaignProgram(campaign) ==
  <<Do("load"), Do("bytes")>> \o campaign \o <<Do("head"), Do("write")>>
\* The historical campaigns of a selection pin for themselves; only the
\* selection's own pins are noted.
PensionSelectionReads ==
  <<Use("pin", {"prices", "fx_krw_base"}), Use("read", {"prices", "fx_krw_base"}),
    UseIfThere("pin", {"fx"}), UseIfThere("read", {"fx"}), UseIfThere("pin", {"cpi"}),
    Use("notePins", {"prices", "fx_krw_base", "fx", "cpi"})>>
HistoricalWorstRatios == <<Use("runs", {"prices", "fx_krw_base"})>>
PensionSelectionProgram ==
  <<Do("load"), Do("bytes")>> \o PensionSelectionReads \o HistoricalWorstRatios \o <<Do("head"), Do("write")>>
\* So does the campaign that cross-checks a decision.
PensionDecisionProgram ==
  <<Do("load"), Do("bytes"), Do("incumbent"), Use("pin", {"prices", "research_monthly"}),
    Use("read", {"prices", "research_monthly"}), Do("decide"),
    Use("notePins", {"prices", "research_monthly"}), Use("runs", {"prices", "fx_krw_base"}),
    Do("crossCheck"), Do("head"), Do("write"), Do("freeze"), Do("fill")>>
\* The household command also reads the decision config and three tax regimes.
IsaHouseholdProgram ==
  <<Do("load"), Do("bytes"), Do("pensionRecord"), Do("companions"), Use("pin", {"prices", "research_monthly"}),
    Use("read", {"prices", "research_monthly"}), Do("decideIsa"),
    Use("notePins", {"prices", "research_monthly"}), Do("head"), Do("write"), Do("freeze"), Do("fill")>>
\* The review reads and reports; it leaves no file.
PensionReviewProgram ==
  <<Do("pensionRecord"), Use("pin", {"prices"}), Use("read", {"prices"})>>

\* The prospective monitor and the backup; their steps are in the modules that
\* extend this one.
MonitorProgram == <<Do("bundle"), Do("head"), Do("admit"), Use("observe", AllocationData), Do("append")>>
PushProgramManifestsFirst == <<Do("pushManifests"), Do("pushNormalized"), Do("pushFrozen"), Do("pushRegistry"), Do("moveRaw")>>
PushProgramRawFirst == <<Do("moveRaw"), Do("pushNormalized"), Do("pushManifests"), Do("pushFrozen"), Do("pushRegistry")>>
PushProgram == <<Do("pushNormalized"), Do("pushManifests"), Do("pushFrozen"), Do("pushRegistry"), Do("moveRaw")>>
PullProgram == <<Do("pullNormalized"), Do("pullManifests"), Do("pullFrozen"), Do("pullRegistry")>>

Programs ==
  [ablation |-> AblationProgram,
   walk_forward |-> WalkForwardProgram,
   walk_forward_costs |-> WalkForwardCostsProgram,
   walk_forward_proxy |-> WalkForwardProxyProgram,
   cadence_robustness |-> CadenceProgram,
   accumulation_cohort |-> CohortProgram,
   strategy_selection |-> StrategySelectionProgram,
   final_historical |-> FinalHistoricalProgram,
   after_tax_campaign |-> AfterTaxProgram,
   pension_campaign |-> PensionCampaignProgram(PensionCampaignUs),
   pension_campaign_kr |-> PensionCampaignProgram(PensionCampaignKr),
   pension_selection |-> PensionSelectionProgram,
   pension_decision |-> PensionDecisionProgram,
   isa_household |-> IsaHouseholdProgram,
   pension_review |-> PensionReviewProgram,
   prospective_monitor |-> MonitorProgram,
   backup_push |-> PushProgram,
   backup_pull |-> PullProgram]
Commands == DOMAIN Programs
Program(cmd) == Programs[cmd]

\* What the evidence of every vintage may favour.
Outcomes == [decision : [1 .. MaxVintage -> [selection : STRING, equals : SUBSET STRING]],
             isa : [(1 .. MaxVersions) \X (1 .. MaxVersions) \X (1 .. MaxVintage) -> IsaStatuses]]
ASSUME StartsAssumption ==
  Starts \subseteq [agenda : Seq(Commands), data : SUBSET Datasets, version : 1 .. MaxVersions, outcome : Outcomes]

----------------------------------------------------------------------------
VARIABLES
  parquet,    \* Silver files on disk: pairs of a dataset and a vintage
  manifests,  \* their manifests
  published,  \* number of vintages of each dataset ever published
  config,     \* version of the configuration file, and of what is hashed with it
  companions, \* version of the files the household command reads and does not
              \* hash: the pension decision config and its three tax regimes
  head,       \* version of the code, the git commit
  outcome,    \* what the evidence favours: decision, vintage -> [selection,
              \* equals]; isa, <<config, companions, vintage>> -> IsaStatuses
  run,        \* the command in progress
  reports,    \* result store: key -> report
  records,    \* frozen records: id -> record, Torn while half written
  agenda,     \* commands still to run
  deaths
researchVars == <<parquet, manifests, published, config, companions, head, outcome, run, reports, records, agenda, deaths>>
files == <<reports, records>>
silver == <<parquet, manifests, published>>
world == <<silver, config, companions, head, outcome>>
plans == <<agenda, deaths>>

None == [kind |-> "none"]
Torn == [kind |-> "torn"]
Held(id) == [kind |-> "held", id |-> id]
Unnoted == [d \in Datasets |-> 0]
NoRun == [cmd |-> "none"]
Started(cmd, freeze) ==
  [cmd |-> cmd, at |-> 1, freeze |-> freeze, spec |-> 0, bytes |-> 0, companions |-> 0, commit |-> 0,
   basis |-> None, held |-> None, pins |-> Unnoted, used |-> {}, noted |-> Unnoted,
   status |-> "none", selected |-> "none", file |-> None, asOf |-> 0, block |-> <<>>]

Init ==
  /\ \E s \in Starts :
       /\ manifests = s.data \X {1}
       /\ published = [d \in Datasets |-> IF d \in s.data THEN 1 ELSE 0]
       /\ config = s.version /\ companions = s.version /\ head = s.version
       /\ outcome = s.outcome
       /\ agenda = s.agenda
  /\ parquet = manifests
  /\ run = NoRun
  /\ reports = <<>> /\ records = <<>>
  /\ deaths = 0

Running == run.cmd # "none"
Now == Program(run.cmd)[run.at]
At(what) == Running /\ run.at <= Len(Program(run.cmd)) /\ Now.do = what
\* A directory with one file written, over an earlier one of its name.
Put(dir, name, content) == [n \in DOMAIN dir \union {name} |-> IF n = name THEN content ELSE dir[n]]
\* The step is done and leaves the run like this.
Done(next) == run' = [next EXCEPT !.at = @ + 1]
\* The newest vintage whose manifest is on disk, 0 if there is none.
Vintages(d) == {v \in 1 .. MaxVintage : <<d, v>> \in manifests}
Newest(d) == IF Vintages(d) = {} THEN 0 ELSE CHOOSE v \in Vintages(d) : \A w \in Vintages(d) : w <= v
Available(d) == <<d, Newest(d)>> \in parquet
Quiet == EditsDuringRuns \/ ~Running
\* The world moves only while a command is in progress or ahead that could tell.
Ahead == {agenda[i] : i \in DOMAIN agenda} \union (IF Running THEN {run.cmd} ELSE {})
Steps(cmd) == {Program(cmd)[i] : i \in DOMAIN Program(cmd)}
Reads(cmd) == UNION {step.data \union step.optional : step \in Steps(cmd)}
Does(cmd, what) == \E step \in Steps(cmd) : step.do = what

----------------------------------------------------------------------------
(* Steps.                                                                  *)

\* The operator starts the next command, with or without --freeze.
Begin ==
  /\ ~Running /\ agenda # <<>>
  /\ \E freeze \in BOOLEAN :
       /\ freeze => Head(agenda) \in {"pension_decision", "isa_household"}
       /\ run' = Started(Head(agenda), freeze)
  /\ agenda' = Tail(agenda)
  /\ UNCHANGED <<world, files, deaths>>

Load ==
  /\ At("load") /\ Done([run EXCEPT !.spec = config])
  /\ UNCHANGED <<world, files, plans>>
\* The file is read a second time to be hashed.
ReadBytes ==
  /\ At("bytes") /\ Done([run EXCEPT !.bytes = config])
  /\ UNCHANGED <<world, files, plans>>
LoadCompanions ==
  /\ At("companions") /\ Done([run EXCEPT !.companions = companions])
  /\ UNCHANGED <<world, files, plans>>

\* Datasets a step needs, and those it takes when they were ever published.
Wanted == Now.data \union {d \in Now.optional : Newest(d) > 0}
Resolvable == \A d \in Wanted : Available(d)
NewestData == {<<d, Newest(d)>> : d \in Wanted}

\* resolve_snapshot
Pin ==
  /\ At("pin") /\ Resolvable
  /\ Done([run EXCEPT !.pins = [d \in Datasets |-> IF d \in Wanted THEN Newest(d) ELSE @[d]]])
  /\ UNCHANGED <<world, files, plans>>
\* load_snapshot_visible reads what was pinned, whatever was published since.
ReadPinned ==
  /\ At("read")
  /\ Done([run EXCEPT !.used = @ \union
              {<<d, run.pins[d]>> : d \in {e \in Now.data \union Now.optional : run.pins[e] > 0}}])
  /\ UNCHANGED <<world, files, plans>>
\* load_visible, or the snapshot a runner resolves for itself.
ReadNewest ==
  /\ At("own") /\ Resolvable
  /\ Done([run EXCEPT !.used = @ \union NewestData])
  /\ UNCHANGED <<world, files, plans>>
\* One run of an arm, a fold or a campaign; more may follow.
RunOnce ==
  /\ At("runs") /\ Resolvable
  /\ \E more \in BOOLEAN :
       run' = [run EXCEPT !.used = @ \union NewestData, !.at = IF more THEN @ ELSE @ + 1]
  /\ UNCHANGED <<world, files, plans>>

NoteCatalog ==
  /\ At("noteCatalog") /\ Resolvable
  /\ Done([run EXCEPT !.noted = [d \in Datasets |-> IF d \in Wanted THEN Newest(d) ELSE @[d]]])
  /\ UNCHANGED <<world, files, plans>>
NotePinsFromCatalog ==
  /\ At("notePins") /\ Resolvable
  /\ Done([run EXCEPT !.noted = [d \in Datasets |-> IF d \in Wanted THEN Newest(d) ELSE @[d]]])
  /\ UNCHANGED <<world, files, plans>>
NotePins ==
  /\ At("notePins")
  /\ Done([run EXCEPT !.noted = [d \in Datasets |-> IF d \in Now.data THEN run.pins[d] ELSE @[d]]])
  /\ UNCHANGED <<world, files, plans>>
ResolveCommit ==
  /\ At("head") /\ Done([run EXCEPT !.commit = head])
  /\ UNCHANGED <<world, files, plans>>

\* The frozen decisions on disk, by the path the operator names.
PensionRecords == {id \in DOMAIN records : id.cmd = "pension_decision"}
\* _read_incumbent_id: the operator may name no record; a half-written one
\* stops the command.
ReadIncumbent ==
  /\ At("incumbent")
  /\ \/ Done([run EXCEPT !.held = None])
     \/ \E id \in PensionRecords :
          records[id] # Torn /\ Done([run EXCEPT !.basis = id, !.held = Held(records[id].incumbent)])
  /\ UNCHANGED <<world, files, plans>>
\* load_pension_decision_record
ReadPensionRecordTorn ==
  /\ At("pensionRecord")
  /\ \E id \in PensionRecords :
       Done([run EXCEPT !.basis = id, !.held = Held(IF records[id] = Torn THEN Benchmark ELSE records[id].incumbent)])
  /\ UNCHANGED <<world, files, plans>>
ReadPensionRecord ==
  /\ At("pensionRecord")
  /\ \E id \in PensionRecords :
       records[id] # Torn /\ Done([run EXCEPT !.basis = id, !.held = Held(records[id].incumbent)])
  /\ UNCHANGED <<world, files, plans>>

----------------------------------------------------------------------------
(* Verdicts.                                                               *)

\* A selection that is too sharp or too weak is none; the benchmark is kept
\* whatever was held; an incumbent equivalent to the selection stays.
VerdictOfSelection(evidence, held) ==
  [status |-> IF evidence.selection = Benchmark THEN "KEEP_BENCHMARK"
              ELSE IF held # None /\ held.id \in evidence.equals THEN "KEEP_INCUMBENT" ELSE "ADOPT_CANDIDATE",
   selected |-> evidence.selection]
Verdict(evidence, held) ==
  IF evidence.selection = "none" THEN [status |-> "NO_DECISION", selected |-> "none"]
  ELSE IF evidence.selection = Benchmark THEN [status |-> "KEEP_BENCHMARK", selected |-> Benchmark]
  ELSE IF held # None /\ held.id \in evidence.equals THEN [status |-> "KEEP_INCUMBENT", selected |-> held.id]
  ELSE [status |-> "ADOPT_CANDIDATE", selected |-> evidence.selection]
Decide ==
  /\ At("decide")
  /\ LET verdict == Verdict(outcome.decision[run.pins["prices"]], run.held)
     IN  Done([run EXCEPT !.status = verdict.status, !.selected = verdict.selected])
  /\ UNCHANGED <<world, files, plans>>
\* assert_tax_rank_neutrality: the campaign may disagree, which voids the verdict.
CrossCheck ==
  /\ At("crossCheck")
  /\ \/ Done(run)
     \/ Done([run EXCEPT !.status = "NO_DECISION", !.selected = "none"])
  /\ UNCHANGED <<world, files, plans>>
DecideIsa ==
  /\ At("decideIsa")
  /\ Done([run EXCEPT !.status = outcome.isa[<<run.spec, run.companions, run.pins["prices"]>>],
                      !.selected = run.held.id])
  /\ UNCHANGED <<world, files, plans>>

----------------------------------------------------------------------------
(* Files.                                                                  *)

\* Result ids.  make_experiment hashes a part of the configuration and the
\* PRICES manifest; the pension commands hash the whole file, the campaigns
\* their regime files with it, and every manifest, and the household command
\* also the pension record, but none of its companions.
MakeExperiment(r) == <<IdentityOf[r.spec], r.noted["prices"], r.commit>>
AfterTaxDigest(r) == <<r.bytes, r.commit, r.noted["prices"]>>
CampaignDigestWithoutManifests(r) == <<r.bytes, r.commit>>
CampaignDigest(r) == <<r.bytes, r.commit, r.noted>>
HouseholdDigestWithoutManifests(r) == <<r.bytes, r.commit, r.basis, records[r.basis]>>
HouseholdDigest(r) == <<r.bytes, r.commit, r.noted, r.basis, records[r.basis]>>
RunId(r) ==
  IF r.cmd \in {"pension_campaign", "pension_campaign_kr", "pension_selection", "pension_decision"} THEN CampaignDigest(r)
  ELSE IF r.cmd = "isa_household" THEN HouseholdDigest(r)
  ELSE IF r.cmd = "after_tax_campaign" THEN AfterTaxDigest(r)
  ELSE MakeExperiment(r)

Report(r) ==
  [spec |-> r.spec, companions |-> r.companions, commit |-> r.commit, used |-> r.used, noted |-> r.noted, basis |-> r.basis,
   status |-> r.status, selected |-> r.selected]
\* write_result replaces a report of the same id.
Write ==
  /\ At("write")
  /\ reports' = Put(reports, <<run.cmd, RunId(run)>>, Report(run))
  /\ Done(run)
  /\ UNCHANGED <<world, records, plans>>

Freezable(r) == r.freeze /\ r.status # "NO_DECISION"
RecordId(r) == [cmd |-> r.cmd, bytes |-> r.bytes]
\* The commands left to run stand for the clock of frozen_at.  A decision record
\* names its manifests, a household record its run.  `read` is history: what a
\* household record rests on beyond that run, of which the file says nothing.
RecordOf(r) ==
  [kind |-> "record", id |-> RecordId(r), at |-> Len(agenda), status |-> r.status, incumbent |-> r.selected,
   noted |-> IF r.cmd = "pension_decision" THEN r.noted ELSE Unnoted, commit |-> r.commit,
   run |-> IF r.cmd = "isa_household" THEN RunId(r) ELSE <<>>, read |-> r.companions,
   previous |-> IF r.basis = None THEN None ELSE records[r.basis].id]
\* path.exists, then write_text, which empties the file before it fills it.
OpenRecordUnchecked ==
  /\ At("freeze") /\ Freezable(run)
  /\ records' = Put(records, RecordId(run), Torn)
  /\ Done(run)
  /\ UNCHANGED <<world, reports, plans>>
OpenRecord ==
  /\ At("freeze") /\ Freezable(run) /\ RecordId(run) \notin DOMAIN records
  /\ records' = Put(records, RecordId(run), Torn)
  /\ Done(run)
  /\ UNCHANGED <<world, reports, plans>>
FillRecord ==
  /\ At("fill")
  /\ records' = [records EXCEPT ![RecordId(run)] = RecordOf(run)]
  /\ run' = NoRun
  /\ UNCHANGED <<world, reports, plans>>

\* The command returns: at the end of its program, or before the freeze.
Return ==
  /\ Running
  /\ \/ run.at > Len(Program(run.cmd))
     \/ At("freeze") /\ ~Freezable(run)
  /\ run' = NoRun
  /\ UNCHANGED <<world, files, plans>>
\* It fails closed: something required was never published, no usable record is
\* there, or the record to freeze exists.
Refuse ==
  /\ \/ At("pin") /\ ~Resolvable
     \/ At("own") /\ ~Resolvable
     \/ At("runs") /\ ~Resolvable
     \/ At("noteCatalog") /\ ~Resolvable
     \/ At("incumbent") /\ \E id \in PensionRecords : records[id] = Torn
     \/ At("pensionRecord") /\ \A id \in PensionRecords : records[id] = Torn
     \/ At("freeze") /\ Freezable(run) /\ RecordId(run) \in DOMAIN records
  /\ run' = NoRun
  /\ UNCHANGED <<world, files, plans>>
\* Its process dies.
Die ==
  /\ Running /\ deaths < MaxDeaths
  /\ run' = NoRun /\ deaths' = deaths + 1
  /\ UNCHANGED <<world, files, agenda>>

----------------------------------------------------------------------------
(* The rest of the world.                                                  *)

Publish(d) ==
  /\ \E cmd \in Ahead : d \in Reads(cmd)
  /\ published[d] < MaxVintage
  /\ published' = [published EXCEPT ![d] = @ + 1]
  /\ parquet' = parquet \union {<<d, published[d] + 1>>}
  /\ manifests' = manifests \union {<<d, published[d] + 1>>}
  /\ UNCHANGED <<config, companions, head, outcome, run, files, plans>>
EditConfigUnbounded ==
  /\ \E cmd \in Ahead : Does(cmd, "load")
  /\ Quiet /\ config' = config + 1 /\ config <= MaxVersions
  /\ UNCHANGED <<silver, companions, head, outcome, run, files, plans>>
EditConfig ==
  /\ \E cmd \in Ahead : Does(cmd, "load")
  /\ Quiet /\ config < MaxVersions
  /\ config' = config + 1
  /\ UNCHANGED <<silver, companions, head, outcome, run, files, plans>>
EditCompanions ==
  /\ \E cmd \in Ahead : Does(cmd, "companions")
  /\ Quiet /\ companions < MaxVersions
  /\ companions' = companions + 1
  /\ UNCHANGED <<silver, config, head, outcome, run, files, plans>>
Commit ==
  /\ \E cmd \in Ahead : Does(cmd, "head")
  /\ Quiet /\ head < MaxVersions
  /\ head' = head + 1
  /\ UNCHANGED <<silver, config, companions, outcome, run, files, plans>>

Step ==
  \/ Load \/ ReadBytes \/ LoadCompanions \/ Pin \/ ReadPinned \/ ReadNewest \/ RunOnce \/ NoteCatalog \/ NotePins
  \/ ResolveCommit \/ ReadIncumbent \/ ReadPensionRecord \/ Decide \/ CrossCheck \/ DecideIsa
  \/ Write \/ OpenRecord \/ FillRecord \/ Return \/ Refuse \/ Die
ResearchNext ==
  \/ Begin
  \/ Step
  \/ \E d \in Publishable : Publish(d)
  \/ EditConfig \/ EditCompanions \/ Commit

----------------------------------------------------------------------------
(* Properties.                                                             *)

Pairs == Datasets \X (1 .. MaxVintage)
TypeOK ==
  /\ parquet \subseteq Pairs /\ manifests \subseteq Pairs
  /\ published \in [Datasets -> 0 .. MaxVintage]
  /\ {config, companions, head} \subseteq 1 .. MaxVersions
  /\ Running => /\ run.at \in 1 .. Len(Program(run.cmd)) + 1
                /\ {run.spec, run.bytes, run.companions, run.commit} \subseteq 0 .. MaxVersions
                /\ run.used \subseteq Pairs
                /\ run.status \in DecisionStatuses \union IsaStatuses \union {"none"}
  /\ \A id \in DOMAIN records : records[id] = Torn \/ records[id].id = id
  /\ deaths \in 0 .. MaxDeaths

\* A pension campaign or household report names the vintage of everything that
\* was read for it and of nothing else, whatever was published meanwhile
\* (manifest_hashes are "the manifests the run pinned").
PinnedRunsNameTheirData ==
  \A key \in DOMAIN reports : key[1] \in {"pension_campaign", "pension_campaign_kr", "isa_household"} =>
    reports[key].used = {<<d, reports[key].noted[d]>> : d \in {e \in Datasets : reports[key].noted[e] > 0}}

\* The commands that note the PRICES manifest from the catalog never name one
\* older than prices some arm was run on: a report can be newer than its
\* manifest's data, but not credited to data that no longer is the newest.
NotedNotBeforeUsed ==
  \A key \in DOMAIN reports : key[1] \notin {"pension_selection", "pension_decision"} =>
    \A v \in 1 .. MaxVintage :
      <<"prices", v>> \in reports[key].used => v <= reports[key].noted["prices"]

\* The run id identifies the evidence.  A campaign's report is only ever replaced
\* by itself.  A household report is replaced by one from the same configuration,
\* code, data and pension record, holding the same incumbent; its verdict differs
\* only when its companions, which the id leaves out, were edited in between.
SameEvidence(before, after) ==
  /\ after = [before EXCEPT !.companions = after.companions, !.status = after.status]
  /\ after.companions = before.companions => after.status = before.status
SameIdSameEvidence ==
  [][\A key \in DOMAIN reports \intersect DOMAIN reports' :
       /\ key[1] \in {"pension_campaign", "pension_campaign_kr"} => reports'[key] = reports[key]
       /\ key[1] = "isa_household" => SameEvidence(reports[key], reports'[key])]_researchVars

\* A complete record that is on disk is never changed ("refuse to overwrite an
\* existing record"), by no rerun, later configuration or restore.
RecordsImmutable ==
  [][\A id \in DOMAIN records \intersect DOMAIN records' :
       records[id] # Torn => records'[id] = records[id]]_researchVars

\* A frozen household policy names a run whose report, while it is on disk, is
\* of the same code and holds the same incumbent, as does the pension decision
\* before it; and that report still gives the frozen verdict unless it was
\* written over with other companions than the policy was frozen on.
RecordBackedByRun ==
  \A id \in DOMAIN records : id.cmd = "isa_household" /\ records[id] # Torn =>
    LET record == records[id]
        key == <<"isa_household", record.run>>
    IN /\ record.status # "NO_DECISION"
       /\ key \in DOMAIN reports =>
            /\ reports[key].commit = record.commit /\ reports[key].selected = record.incumbent
            /\ reports[key].companions = record.read => reports[key].status = record.status
       /\ record.previous \in DOMAIN records =>
            records[record.previous] # Torn /\ records[record.previous].incumbent = record.incumbent

\* A decision that keeps the incumbent continues a complete earlier record with
\* that incumbent.
ChainSound ==
  \A id \in DOMAIN records : id.cmd = "pension_decision" /\ records[id] # Torn =>
    /\ records[id].status = "KEEP_INCUMBENT" => records[id].previous # None
    /\ records[id].previous \in DOMAIN records =>
         LET before == records[records[id].previous]
         IN before # Torn /\ (records[id].status = "KEEP_INCUMBENT" => before.incumbent = records[id].incumbent)

\* Whatever is published, edited or dies meanwhile, a report names the data it
\* rests on.
ReportsNameTheirData == TypeOK /\ PinnedRunsNameTheirData /\ NotedNotBeforeUsed

\* What is frozen rests on reports and earlier records that say the same.
RecordsChain == RecordBackedByRun /\ ChainSound

\* Neither a frozen record nor the evidence under a run id ever changes.
RecordsFinal == RecordsImmutable /\ SameIdSameEvidence
=============================================================================
