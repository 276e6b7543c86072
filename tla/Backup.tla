------------------------------- MODULE Backup -------------------------------
(***************************************************************************)
(* tools/devops/backup.py: the zones of the data root mirrored to a remote *)
(* by rclone, which never deletes there; Bronze payloads are moved.  The   *)
(* composition of the research commands, the prospective registry and the  *)
(* backup, with the loss of the local disk.                                *)
(*                                                                         *)
(* Files of the content-addressed zones are known by their pair of dataset *)
(* and vintage, so two of the same name are the same.  A failing transfer  *)
(* leaves what it had copied: nothing, the files of one vintage, or some   *)
(* of the frozen records.                                                  *)
(***************************************************************************)
EXTENDS ProspectiveRegistry

CONSTANTS
  MaxLosses,          \* bound on the losses of the disk
  PublishDuringPush,  \* may an ingest publish while a push runs
  RestoreFirst,       \* does the operator pull before monitoring on an empty disk
  PullsIntoExisting   \* may a pull be run where there are observations already

ASSUME BackupAssumption ==
  /\ MaxLosses \in Nat
  /\ {PublishDuringPush, RestoreFirst, PullsIntoExisting} \subseteq BOOLEAN

VARIABLES
  remote,   \* the mirrored zones
  raw,      \* Bronze payloads on the local disk
  losses
backupVars == <<remote, raw, losses>>
vars == <<researchVars, registryVars, backupVars>>

BackupInit ==
  /\ RegistryInit
  /\ remote = [parquet |-> {}, manifests |-> {}, frozen |-> <<>>, log |-> <<>>, raw |-> {}]
  /\ raw = parquet
  /\ losses = 0

----------------------------------------------------------------------------
(* push                                                                    *)

PartsOf(files_) == {{f \in files_ : f[2] = v} : v \in 0 .. MaxVintage}
Advance == Done(run)
Ends == run' = NoRun

\* One zone, copied whole, or in part and the push ends.
PushNormalized ==
  /\ At("pushNormalized")
  /\ \/ remote' = [remote EXCEPT !.parquet = @ \union parquet] /\ Advance
     \/ \E part \in PartsOf(parquet) : remote' = [remote EXCEPT !.parquet = @ \union part] /\ Ends
  /\ UNCHANGED <<world, files, plans, registryVars, raw, losses>>
PushManifests ==
  /\ At("pushManifests")
  /\ \/ remote' = [remote EXCEPT !.manifests = @ \union manifests] /\ Advance
     \/ \E part \in PartsOf(manifests) : remote' = [remote EXCEPT !.manifests = @ \union part] /\ Ends
  /\ UNCHANGED <<world, files, plans, registryVars, raw, losses>>

\* --immutable: a file that is there with another content stays, and the
\* transfer fails.
CopyOver(from, to) == [id \in DOMAIN from \union DOMAIN to |-> IF id \in DOMAIN from THEN from[id] ELSE to[id]]
CopyFrozen(from, to) == [id \in DOMAIN from \union DOMAIN to |-> IF id \in DOMAIN to THEN to[id] ELSE from[id]]
Some(from, ids) == [id \in ids |-> from[id]]
Conflict(from, to) == \E id \in DOMAIN from \intersect DOMAIN to : from[id] # to[id]
PushFrozen ==
  /\ At("pushFrozen")
  /\ \/ /\ remote' = [remote EXCEPT !.frozen = CopyFrozen(records, @)]
        /\ IF Conflict(records, remote.frozen) THEN Ends ELSE Advance
     \/ \E ids \in SUBSET DOMAIN records :
          remote' = [remote EXCEPT !.frozen = CopyFrozen(Some(records, ids), @)] /\ Ends
  /\ UNCHANGED <<world, files, plans, registryVars, raw, losses>>
\* A plain copy; no directory, nothing to copy.
PushRegistry ==
  /\ At("pushRegistry")
  /\ \/ remote' = [remote EXCEPT !.log = IF log = <<>> THEN @ ELSE log] /\ Advance
     \/ remote' = remote /\ Ends
  /\ UNCHANGED <<world, files, plans, registryVars, raw, losses>>
\* A payload is deleted when its copy is confirmed.
MoveRaw ==
  /\ At("moveRaw")
  /\ \/ remote' = [remote EXCEPT !.raw = @ \union raw] /\ raw' = {} /\ Advance
     \/ \E part \in PartsOf(raw) :
          remote' = [remote EXCEPT !.raw = @ \union part] /\ raw' = raw \ part /\ Ends
  /\ UNCHANGED <<world, files, plans, registryVars, losses>>

----------------------------------------------------------------------------
(* pull: a zone the remote never received is an error, which ends it.      *)

PullNormalized ==
  /\ At("pullNormalized")
  /\ \/ remote.parquet # {} /\ parquet' = parquet \union remote.parquet /\ Advance
     \/ \E part \in PartsOf(remote.parquet) : parquet' = parquet \union part /\ Ends
  /\ UNCHANGED <<manifests, published, config, companions, head, outcome, files, plans, registryVars, backupVars>>
PullManifests ==
  /\ At("pullManifests")
  /\ \/ remote.manifests # {} /\ manifests' = manifests \union remote.manifests /\ Advance
     \/ \E part \in PartsOf(remote.manifests) : manifests' = manifests \union part /\ Ends
  /\ UNCHANGED <<parquet, published, config, companions, head, outcome, files, plans, registryVars, backupVars>>
PullFrozen ==
  /\ At("pullFrozen")
  /\ \/ /\ DOMAIN remote.frozen # {}
        /\ records' = CopyFrozen(remote.frozen, records)
        /\ IF Conflict(remote.frozen, records) THEN Ends ELSE Advance
     \/ \E ids \in SUBSET DOMAIN remote.frozen :
          records' = CopyFrozen(Some(remote.frozen, ids), records) /\ Ends
  /\ UNCHANGED <<world, reports, plans, registryVars, backupVars>>
PullRegistry ==
  /\ At("pullRegistry")
  /\ \/ remote.log # <<>> /\ log' = remote.log /\ Advance
     \/ log' = log /\ Ends
  /\ UNCHANGED <<world, files, plans, bundle, edits, backupVars>>

----------------------------------------------------------------------------
(* Composition.                                                            *)

\* The local data root is gone; configuration and bundle are in git.
DiskLoss ==
  /\ losses < MaxLosses /\ Ahead \intersect {"backup_push", "backup_pull"} # {}
  /\ parquet' = {} /\ manifests' = {} /\ records' = <<>> /\ reports' = <<>> /\ log' = <<>> /\ raw' = {}
  /\ run' = NoRun
  /\ losses' = losses + 1
  /\ UNCHANGED <<published, config, companions, head, outcome, plans, bundle, edits, remote>>

\* An operator monitors on a restored log and pulls to restore.
Sensible(cmd) ==
  /\ cmd = "prospective_monitor" /\ RestoreFirst => IsPrefix(remote.log, log)
  /\ cmd = "backup_pull" /\ ~PullsIntoExisting => log = <<>>
BeginSensibly ==
  /\ Begin /\ Sensible(Head(agenda))
  /\ UNCHANGED <<registryVars, backupVars>>
Skip ==
  /\ ~Running /\ agenda # <<>> /\ ~Sensible(Head(agenda))
  /\ agenda' = Tail(agenda)
  /\ UNCHANGED <<world, files, deaths, run, registryVars, backupVars>>
Ingest(d) ==
  /\ PublishDuringPush \/ run.cmd # "backup_push"
  /\ Publish(d)
  /\ raw' = raw \union {<<d, published[d] + 1>>}
  /\ UNCHANGED <<registryVars, remote, losses>>

Transfer ==
  \/ PushNormalized \/ PushManifests \/ PushFrozen \/ PushRegistry \/ MoveRaw
  \/ PullNormalized \/ PullManifests \/ PullFrozen \/ PullRegistry
Next ==
  \/ BeginSensibly
  \/ Skip
  \/ (Step \/ EditConfig \/ EditCompanions \/ Commit) /\ UNCHANGED <<registryVars, backupVars>>
  \/ RegistryStep /\ UNCHANGED backupVars
  \/ Transfer
  \/ \E d \in Publishable : Ingest(d)
  \/ DiskLoss
Spec == BackupInit /\ [][Next]_vars

----------------------------------------------------------------------------
(* Properties.                                                             *)

\* Whatever transfer failed half-way and whatever was lost: no manifest is on
\* the disk or the mirror without the file it vouches for ("normalized,
\* manifests", in this order both ways).
MirrorServable ==
  /\ manifests \subseteq parquet
  /\ remote.manifests \subseteq remote.parquet

\* Bronze leaves the disk only when everything else is on the mirror.
RawLeavesLast ==
  [][losses' = losses /\ raw \ raw' # {} =>
       /\ raw \ raw' \subseteq remote'.raw
       /\ parquet \subseteq remote.parquet /\ manifests \subseteq remote.manifests
       /\ DOMAIN records \subseteq DOMAIN remote.frozen
       /\ log \in {<<>>, remote.log}]_vars

\* A frozen record that reached the mirror is never replaced there, even when
\* the decision was frozen anew on a disk that had lost it.
MirrorKeepsRecords ==
  [][\A id \in DOMAIN remote.frozen :
       id \in DOMAIN remote'.frozen /\ remote'.frozen[id] = remote.frozen[id]]_vars

\* Observations are appended and nothing else happens to the log: not on the
\* mirror, and on the disk only its loss.
ObservationsSurvive ==
  [][/\ IsPrefix(remote.log, remote'.log)
     /\ losses' = losses => IsPrefix(log, log')]_vars

\* Neither a half-way transfer nor the loss of the disk costs Bronze, frozen
\* records or observations that the mirror had.
NothingLost == RawLeavesLast /\ MirrorKeepsRecords /\ ObservationsSurvive

\* Every record a command filed can be traced: to the run that produced it, to the
\* decision it follows, and, for an observation, to the sealed plan it watches (the
\* record writers of the research commands and ProspectiveStore.append).
RecordsSound == RecordsChain /\ ObservationsAuthentic

\* Nothing filed is rewritten or lost: a record keeps its bytes and its identity its
\* evidence, whatever is filed, retried, pushed, pulled or dies in between (immutable
\* records, the observation log and the backup's mirror).
RecordsKept == RecordsFinal /\ NothingLost
=============================================================================
