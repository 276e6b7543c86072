-------------------------- MODULE SilverMaintenance --------------------------
(***************************************************************************)
(* Maintenance of the Silver store: history recovery, the data doctor and  *)
(* retention pruning, sharing the data root with ingest runs and with an   *)
(* analysis that pins a partition and records it as evidence.  Each of     *)
(* these commands first plans from what it reads and then applies the plan *)
(* file by file, so the other processes, a crash or a lost file can come   *)
(* between any two of its steps.                                           *)
(***************************************************************************)
EXTENDS SilverStore

CONSTANTS
  OneCommand,      \* TRUE when the operator runs one command at a time
  CanCrash,        \* TRUE when a maintenance command may die between steps
  BronzeAnswers,   \* answers of the Bronze fetcher: subset of FetcherAnswers
  MaxFaults        \* bound: number of files that rot or vanish

FetcherAnswers == {"none", "match", "mismatch"}

ASSUME MaintenanceAssumption == /\ OneCommand \in BOOLEAN
                                /\ CanCrash \in BOOLEAN
                                /\ BronzeAnswers \subseteq FetcherAnswers
                                /\ MaxFaults \in Nat

VARIABLES
  op,         \* the maintenance command in progress
  snapshot,   \* the partition a running analysis resolved, or NoManifest
  evidence,   \* stamps of partitions recorded in results, frozen or research
  faults      \* files that rotted or vanished so far

mvars == <<op, snapshot, evidence, faults>>
allVars == <<vars, mvars>>

IdleOp == [phase |-> "idle"]

Trusted == {m \in manifests : Readable(m)}

\* Mutant: the newest trusted partition instead of the union of all.
HistoryNewestOnly == Newest(Trusted).frame

\* The union of the trusted history, the newest row of every key winning.
HistoryKeys == UNION {DOMAIN m.frame : m \in Trusted}
HistoryFrame ==
  [k \in HistoryKeys |-> Newest({m \in Trusted : k \in DOMAIN m.frame}).frame[k]]

\* plan_history_recovery returns a plan: two trusted partitions at least, and
\* the newest of them lacks keys of the union.
RecoveryAvailable ==
  Cardinality(Trusted) >= 2 /\ ~(HistoryKeys \subseteq DOMAIN Newest(Trusted).frame)

\* Nothing else is running, as far as the operator's discipline goes.
Quiet == OneCommand => snapshot = NoManifest /\ \A i \in Ingesters : run[i].phase = "idle"

-----------------------------------------------------------------------------
(* maintain recover *)

PlanRecovery ==
  /\ op.phase = "idle" /\ Quiet
  /\ RecoveryAvailable
  /\ op' = [phase |-> "recover", latest |-> Newest(Trusted).at, frame |-> HistoryFrame]
  /\ UNCHANGED <<vars, snapshot, evidence, faults>>

\* Mutant: the recovered partition is not stamped.
ApplyRecoveryUnstamped ==
  /\ op.phase = "recover"
  /\ Readable(Latest) /\ Latest.at = op.latest
  /\ DOMAIN Latest.frame \subseteq DOMAIN op.frame
  /\ clock < MaxClock
  /\ clock' = clock + 1
  /\ op' = [phase |-> "publish", damaged |-> NoManifest, sources |-> {},
            manifest |-> [at |-> 0, frame |-> op.frame, raw |-> Latest.raw,
                          refreshed |-> {}, prior |-> Latest.at]]
  /\ UNCHANGED <<raw, parquet, damaged, manifests, run, snapshot, evidence, faults>>

\* apply_history_recovery: the newest manifest still verifies and is the one
\* planned from; its keys are covered; the new lineage record is stamped.
ApplyRecovery ==
  /\ op.phase = "recover"
  /\ Readable(Latest) /\ Latest.at = op.latest
  /\ DOMAIN Latest.frame \subseteq DOMAIN op.frame
  /\ clock < MaxClock
  /\ clock' = clock + 1
  /\ op' = [phase |-> "publish", damaged |-> NoManifest, sources |-> {},
            manifest |-> [at |-> clock + 1, frame |-> op.frame, raw |-> Latest.raw,
                          refreshed |-> {}, prior |-> Latest.at]]
  /\ UNCHANGED <<raw, parquet, damaged, manifests, run, snapshot, evidence, faults>>

\* The checks fail, or the model has no stamp left.
RejectRecovery ==
  /\ op.phase = "recover"
  /\ \/ ~(Readable(Latest) /\ Latest.at = op.latest /\ DOMAIN Latest.frame \subseteq DOMAIN op.frame)
     \/ clock = MaxClock
  /\ op' = IdleOp
  /\ UNCHANGED <<vars, snapshot, evidence, faults>>

-----------------------------------------------------------------------------
(* write_normalized on behalf of recovery or of the doctor *)

PublishParquet ==
  /\ op.phase = "publish"
  /\ op.manifest.frame \notin damaged
  /\ parquet' = parquet \cup {op.manifest.frame}
  /\ op' = [op EXCEPT !.phase = "publish_manifest"]
  /\ UNCHANGED <<raw, damaged, manifests, clock, run, snapshot, evidence, faults>>

RejectPublish ==
  /\ op.phase = "publish"
  /\ op.manifest.frame \in damaged
  /\ op' = IdleOp
  /\ UNCHANGED <<vars, snapshot, evidence, faults>>

PublishManifest ==
  /\ op.phase = "publish_manifest"
  /\ manifests' = manifests \cup {op.manifest}
  /\ op' = IF op.damaged = NoManifest
           THEN IdleOp
           ELSE [phase |-> "unlink_manifest", damaged |-> op.damaged, sources |-> op.sources]
  /\ UNCHANGED <<raw, parquet, damaged, clock, run, snapshot, evidence, faults>>

-----------------------------------------------------------------------------
(* maintain data --apply *)

\* inspect_data of the newest partition.
Condition ==
  IF Readable(Latest)
  THEN IF Latest.raw \in raw THEN "healthy" ELSE "missing_bronze"
  ELSE IF Trusted # {} THEN "damaged_silver" ELSE "unrecoverable"

\* plan_data_maintenance: an unrecoverable partition ends the command here.
PlanDoctor ==
  /\ op.phase = "idle" /\ Quiet
  /\ manifests # {}
  /\ Condition # "unrecoverable"
  /\ op' = [phase |-> "doctor", repair |-> Condition, target |-> Latest, stems |-> manifests]
  /\ UNCHANGED <<vars, snapshot, evidence, faults>>

Stale == manifests # op.stems

\* Nothing to repair: apply goes on to inspection and retention.
DoctorHealthy ==
  /\ op.phase = "doctor" /\ ~Stale
  /\ op.repair = "healthy"
  /\ op' = [phase |-> "inspect"]
  /\ UNCHANGED <<vars, snapshot, evidence, faults>>

\* _restore_bronze: only bytes matching the recorded hash are archived.
RestoreBronze ==
  /\ op.phase = "doctor" /\ ~Stale
  /\ op.repair = "missing_bronze"
  /\ "match" \in BronzeAnswers
  /\ raw' = raw \cup {op.target.raw}
  /\ op' = [phase |-> "inspect"]
  /\ UNCHANGED <<parquet, damaged, manifests, clock, run, snapshot, evidence, faults>>

\* Mutant: the payload of the newest trusted partition is recorded.
RebuildSilverOfTrusted ==
  /\ op.phase = "doctor" /\ ~Stale
  /\ op.repair = "damaged_silver"
  /\ RecoveryAvailable
  /\ clock < MaxClock
  /\ clock' = clock + 1
  /\ op' = [phase |-> "publish", damaged |-> op.target, sources |-> Trusted,
            manifest |-> [at |-> clock + 1, frame |-> HistoryFrame, raw |-> Newest(Trusted).raw,
                          refreshed |-> {}, prior |-> op.target.at]]
  /\ UNCHANGED <<raw, parquet, damaged, manifests, run, snapshot, evidence, faults>>

\* _rebuild_silver up to the stamped lineage record of the rebuilt partition.
RebuildSilver ==
  /\ op.phase = "doctor" /\ ~Stale
  /\ op.repair = "damaged_silver"
  /\ RecoveryAvailable
  /\ clock < MaxClock
  /\ clock' = clock + 1
  /\ op' = [phase |-> "publish", damaged |-> op.target, sources |-> Trusted,
            manifest |-> [at |-> clock + 1, frame |-> HistoryFrame, raw |-> op.target.raw,
                          refreshed |-> {}, prior |-> op.target.at]]
  /\ UNCHANGED <<raw, parquet, damaged, manifests, run, snapshot, evidence, faults>>

\* The command ends with an exception: the plan went stale, the fetcher has no
\* matching answer, no rebuild is possible from the trusted history, or the
\* model has no stamp left.
RejectDoctor ==
  /\ op.phase = "doctor"
  /\ \/ Stale
     \/ op.repair = "missing_bronze" /\ BronzeAnswers \cap {"none", "mismatch"} # {}
     \/ op.repair = "damaged_silver" /\ (~RecoveryAvailable \/ clock = MaxClock)
  /\ op' = IdleOp
  /\ UNCHANGED <<vars, snapshot, evidence, faults>>

\* The damaged lineage record goes first, then its Parquet unless a trusted
\* source of the rebuild shares that file.
UnlinkDamagedManifest ==
  /\ op.phase = "unlink_manifest"
  /\ manifests' = manifests \ {op.damaged}
  /\ op' = [op EXCEPT !.phase = "unlink_parquet"]
  /\ UNCHANGED <<raw, parquet, damaged, clock, run, snapshot, evidence, faults>>

UnlinkDamagedParquet ==
  /\ op.phase = "unlink_parquet"
  /\ LET shared == \E m \in op.sources : m.frame = op.damaged.frame IN
       /\ parquet' = IF shared THEN parquet ELSE parquet \ {op.damaged.frame}
       /\ damaged' = IF shared THEN damaged ELSE damaged \ {op.damaged.frame}
  /\ op' = [phase |-> "inspect"]
  /\ UNCHANGED <<raw, manifests, clock, run, snapshot, evidence, faults>>

-----------------------------------------------------------------------------
(* Retention: maintain prune --apply, and the tail of maintain data --apply *)

Pinned == {m \in manifests : m.at \in evidence}
\* Mutants: the pins are ignored; the newest partition is not retained.
RetainedLatestOnly == {Latest}
RetainedPinnedOnly == Pinned

\* What retention must never delete.
Retained == {Latest} \cup Pinned

\* Mutants: the newest Parquet is not kept; Bronze is never pruned.
PrunePlanDroppingLatest ==
  [phase |-> "prune", drop |-> manifests \ Retained,
   keep |-> {m.frame : m \in Retained \ {Latest}}, bronze |-> raw \ {Latest.raw}]
PrunePlanKeepingBronze ==
  [phase |-> "prune", drop |-> manifests \ Retained,
   keep |-> {m.frame : m \in Retained}, bronze |-> {}]

\* plan_prune: every manifest must verify; the newest and the recorded ones
\* stay with their Parquet, Bronze stays only for the newest.
PrunePlan ==
  [phase   |-> "prune",
   drop    |-> manifests \ Retained,
   keep    |-> {m.frame : m \in Retained},
   bronze  |-> raw \ {Latest.raw}]

PlanPrune ==
  /\ \/ op.phase = "idle" /\ Quiet
     \/ op.phase = "inspect"
  /\ manifests # {}
  /\ \A m \in manifests : Readable(m)
  /\ op' = PrunePlan
  /\ UNCHANGED <<vars, snapshot, evidence, faults>>

\* Mutant: only the newest partition is verified before retention is refused.
RejectPruneNewest ==
  /\ op.phase = "inspect"
  /\ ~Readable(Latest)
  /\ op' = IdleOp
  /\ UNCHANGED <<vars, snapshot, evidence, faults>>

\* One manifest that fails verification blocks planning for good.
RejectPrune ==
  /\ op.phase = "inspect"
  /\ \E m \in manifests : ~Readable(m)
  /\ op' = IdleOp
  /\ UNCHANGED <<vars, snapshot, evidence, faults>>

\* apply_prune, oldest dropped manifest first, each followed by its Parquet.
NextDropped == CHOOSE m \in op.drop : \A n \in op.drop : m.at =< n.at

DropManifest ==
  /\ op.phase = "prune" /\ op.drop # {}
  /\ manifests' = manifests \ {NextDropped}
  /\ op' = [op EXCEPT !.phase = "prune_parquet"]
  /\ UNCHANGED <<raw, parquet, damaged, clock, run, snapshot, evidence, faults>>

DropParquet ==
  /\ op.phase = "prune_parquet"
  /\ LET gone == {NextDropped.frame} \ op.keep IN
       parquet' = parquet \ gone /\ damaged' = damaged \ gone
  /\ op' = [op EXCEPT !.phase = "prune", !.drop = @ \ {NextDropped}]
  /\ UNCHANGED <<raw, manifests, clock, run, snapshot, evidence, faults>>

DropBronze ==
  /\ op.phase = "prune" /\ op.drop = {} /\ op.bronze # {}
  /\ \E p \in op.bronze : raw' = raw \ {p} /\ op' = [op EXCEPT !.bronze = @ \ {p}]
  /\ UNCHANGED <<parquet, damaged, manifests, clock, run, snapshot, evidence, faults>>

FinishPrune ==
  /\ op.phase = "prune" /\ op.drop = {} /\ op.bronze = {}
  /\ op' = IdleOp
  /\ UNCHANGED <<vars, snapshot, evidence, faults>>

Crash ==
  /\ CanCrash /\ op.phase # "idle"
  /\ op' = IdleOp
  /\ UNCHANGED <<vars, snapshot, evidence, faults>>

-----------------------------------------------------------------------------
(* Analyses and the environment *)

\* resolve_snapshot pins the newest verified partition for one run.
ResolveSnapshot ==
  /\ snapshot = NoManifest /\ manifests # {} /\ Readable(Latest)
  /\ OneCommand => (op.phase = "idle" /\ \A i \in Ingesters : run[i].phase = "idle")
  /\ snapshot' = Latest
  /\ UNCHANGED <<vars, op, evidence, faults>>

\* The run reads its pinned partition and records the hash in its result.
RecordEvidence ==
  /\ snapshot # NoManifest /\ snapshot \in manifests /\ Readable(snapshot)
  /\ evidence' = evidence \cup {snapshot.at}
  /\ snapshot' = NoManifest
  /\ UNCHANGED <<vars, op, faults>>

\* The run fails: nothing is recorded.
EndAnalysis ==
  /\ snapshot # NoManifest
  /\ snapshot' = NoManifest
  /\ UNCHANGED <<vars, op, evidence, faults>>

\* A Parquet file rots or vanishes, or a Bronze payload vanishes.
Fault ==
  /\ faults < MaxFaults
  /\ faults' = faults + 1
  /\ \/ \E f \in parquet \ damaged : damaged' = damaged \cup {f} /\ UNCHANGED <<raw, parquet>>
     \/ \E f \in parquet \ damaged : parquet' = parquet \ {f} /\ UNCHANGED <<raw, damaged>>
     \/ \E p \in raw : raw' = raw \ {p} /\ UNCHANGED <<parquet, damaged>>
  /\ UNCHANGED <<manifests, clock, run, op, snapshot, evidence>>

Ingest ==
  /\ OneCommand => op.phase = "idle" /\ snapshot = NoManifest
  /\ \/ \E i \in Ingesters, mode \in Modes : StartRun(i, mode)
     \/ \E i \in Ingesters : IngestStep(i) \/ Abort(i)
  /\ UNCHANGED mvars

Maintain ==
  \/ PlanRecovery \/ ApplyRecovery \/ RejectRecovery
  \/ PublishParquet \/ RejectPublish \/ PublishManifest
  \/ PlanDoctor \/ DoctorHealthy \/ RestoreBronze \/ RebuildSilver \/ RejectDoctor
  \/ UnlinkDamagedManifest \/ UnlinkDamagedParquet
  \/ PlanPrune \/ RejectPrune \/ DropManifest \/ DropParquet \/ DropBronze \/ FinishPrune

Analyse == ResolveSnapshot \/ RecordEvidence \/ EndAnalysis

MaintenanceInit ==
  /\ Init
  /\ op = IdleOp
  /\ snapshot = NoManifest
  /\ evidence = {}
  /\ faults = 0

MaintenanceNext == Ingest \/ Maintain \/ Crash \/ Analyse \/ Fault

MaintenanceSpec == MaintenanceInit /\ [][MaintenanceNext]_allVars

\* A command that was started takes its next step until it exits or dies.
\* Nobody has to start one, and no source has to answer.
MaintenanceFairness == WF_allVars(op.phase # "idle" /\ Maintain)

FairMaintenanceSpec == MaintenanceSpec /\ MaintenanceFairness

-----------------------------------------------------------------------------
(* Properties *)

OpPhases == {"idle", "recover", "publish", "publish_manifest", "unlink_manifest",
             "unlink_parquet", "doctor", "inspect", "prune", "prune_parquet"}

\* What maintenance and the analyses remember refers to this dataset.
MaintenanceTypeOK ==
  /\ TypeOK
  /\ op.phase \in OpPhases
  /\ snapshot \in Manifests \cup {NoManifest}
  /\ evidence \subseteq 1 .. MaxClock
  /\ faults \in 0 .. MaxFaults

\* Whatever maintenance deletes and wherever it dies, the partition
\* latest_artifact selects can be read (no file having rotted): prune keeps the
\* newest manifest together with its Parquet, recovery publishes data first.
NewestServable == manifests # {} => Readable(Latest)

\* A partition recorded as evidence by a finished run stays on disk and
\* readable, so the recorded result can be reproduced (plan_prune's pins).
EvidenceServable ==
  \A at \in evidence : \E m \in manifests : m.at = at /\ Readable(m)

\* What must stay readable does, and nothing maintenance remembers is of
\* another dataset.
RetainedServable == MaintenanceTypeOK /\ NewestServable /\ EvidenceServable

\* No maintenance step takes a key away from the newest view.
MaintenanceKeepsView == [][Maintain => Served(manifests) \subseteq Served(manifests')]_allVars

\* When recovery or the doctor publishes, the newest view serves every key any
\* trusted partition holds (plan_history_recovery's union, even though files
\* may have rotted since it was planned).
RecoveryServesHistory == [][PublishManifest => HistoryKeys \subseteq Served(manifests')]_allVars

\* After a prune ran to its end only the newest and the recorded partitions
\* are left, so a second prune finds nothing: apply_prune is idempotent.
PruneSettles ==
  [][FinishPrune => manifests \subseteq Retained /\ raw \subseteq {Latest.raw}]_allVars

\* Cleaning up after a rebuild leaves the rebuilt partition's Parquet in place.
RebuildStaysServable ==
  [][UnlinkDamagedParquet => Newest(manifests').frame \in parquet']_allVars

\* The payload of the newest partition is in the archive.
BronzeHeld == manifests # {} /\ Latest.raw \in raw

\* Whatever a command finds (a fetcher that does not answer, a plan gone stale,
\* files no rebuild is possible from, partitions retention refuses), it ends;
\* and no command takes the payload of the newest partition away: the rebuilt
\* partition names one that is archived, and retention, which deletes the
\* others, spares it (_rebuild_silver, plan_prune).
RepairsSettle ==
  /\ op.phase # "idle" ~> op.phase = "idle"
  /\ [][Maintain /\ BronzeHeld => BronzeHeld']_allVars

=============================================================================
