----------------------------- MODULE SilverStore -----------------------------
(***************************************************************************)
(* The Silver partition store of one dataset: how an ingest run archives   *)
(* its source payload, merges it with the newest published partition and   *)
(* publishes the result as a Parquet file and a lineage manifest, with     *)
(* several ingest processes interleaving, crashing and refusing.           *)
(*                                                                         *)
(* Files are content addressed: a Parquet file is named by the hash of its *)
(* canonical rows and a payload by the hash of its bytes, so a file is     *)
(* identified with the frame or payload it is named after.  A manifest is  *)
(* named by the hash of its document; its `at` (retrieved_at) is unique in *)
(* this model because every stamp reads a strictly increasing clock.       *)
(***************************************************************************)
EXTENDS CatalogData, TLC

CONSTANTS
  Ingesters,      \* ingest processes sharing one data root
  Modes,          \* how this dataset is ingested: a subset of IngestModes
  ShrinkGuarded,  \* TRUE for the datasets the shrink guard covers
  MinPriorRows,   \* rows a partition needs before the shrink guard applies
  MaxDamage,      \* bound: number of corrupted Parquet files at any time
  NoManifest      \* the absent prior of a first ingest

IngestModes == {"incremental", "series", "full"}

ASSUME ModesAssumption == Modes \subseteq IngestModes
ASSUME BoundsAssumption == MaxDamage \in Nat /\ MinPriorRows \in Nat
ASSUME GuardAssumption == ShrinkGuarded \in BOOLEAN

VARIABLES
  raw,        \* payloads archived in Bronze
  parquet,    \* frames whose Parquet file exists at its content address
  damaged,    \* those of them whose bytes no longer match the address
  manifests,  \* manifest documents on disk
  clock,      \* the last retrieval stamp handed out
  run         \* the in-memory state of each ingest process

vars == <<raw, parquet, damaged, manifests, clock, run>>

-----------------------------------------------------------------------------
(* Data *)

ASSUME NoManifestAssumption == NoManifest \notin Manifests

Phases == {"idle", "load", "fetch", "archive", "check", "parquet", "manifest"}

Runs == [phase     : Phases,
         mode      : IngestModes,
         prior     : Manifests \cup {NoManifest},
         incoming  : PartialFrames,
         refreshed : SUBSET Keys,
         at        : 0 .. MaxClock]

IdleRun == [phase |-> "idle", mode |-> "full", prior |-> NoManifest,
            incoming |-> EmptyFrame, refreshed |-> {}, at |-> 0]

\* latest_artifact's choice; meaningful when some manifest exists.
Latest == Newest(manifests)

\* read_normalized: the Parquet file exists and hashes to its address.
Readable(m) == m.frame \in parquet /\ m.frame \notin damaged

\* The frame a run is about to publish.
Candidate(r) == IF r.prior = NoManifest
                THEN r.incoming
                ELSE MergeFrames(r.prior.frame, r.incoming, r.refreshed)

\* assert_key_coverage: no prior key outside the refreshed ones is missing.
CoversPrior(r) == (DOMAIN r.prior.frame \ r.refreshed) \subseteq DOMAIN Candidate(r)

\* Mutant: a quarter of the panel is enough.
SafeReplacementLoose(r) ==
  ShrinkGuarded /\ manifests # {} /\ Readable(Latest) =>
    LET rows == Cardinality(DOMAIN Latest.frame)
    IN  rows >= MinPriorRows => 4 * Cardinality(DOMAIN Candidate(r)) >= rows

\* assert_safe_partition_replacement: a panel may not collapse to a fragment.
\* An unreadable newest partition lets the replacement through.
SafeReplacement(r) ==
  ShrinkGuarded /\ manifests # {} /\ Readable(Latest) =>
    LET rows == Cardinality(DOMAIN Latest.frame)
    IN  rows >= MinPriorRows => 2 * Cardinality(DOMAIN Candidate(r)) >= rows

\* A run without a prior partition owes nothing but meets the shrink guard.
PassesGuards(r) == IF r.prior = NoManifest THEN SafeReplacement(r) ELSE CoversPrior(r)

\* Mutant: the manifest names the newest partition, not the one merged with.
ManifestOfNewest(r) == [at |-> r.at, frame |-> Candidate(r), raw |-> r.incoming,
                        refreshed |-> r.refreshed,
                        prior |-> IF r.prior = NoManifest THEN 0 ELSE Latest.at]

\* The lineage document write_normalized stores for a run.
ManifestOf(r) == [at |-> r.at, frame |-> Candidate(r), raw |-> r.incoming,
                  refreshed |-> r.refreshed,
                  prior |-> IF r.prior = NoManifest THEN 0 ELSE r.prior.at]

-----------------------------------------------------------------------------
(* Ingest steps *)

FirstPhase(mode) == IF mode = "incremental" THEN "load" ELSE "fetch"
AfterLoad(mode)  == IF mode = "incremental" THEN "fetch" ELSE "archive"
AfterFetch(mode) == IF mode = "series" THEN "load" ELSE "archive"

\* Keys a run replaces outright: whole series for a series refresh.
RefreshedBy(mode, incoming) ==
  IF mode = "series" THEN {R \in SUBSET Keys : DOMAIN incoming \subseteq R} ELSE {{}}

Init ==
  /\ raw = {}
  /\ parquet = {}
  /\ damaged = {}
  /\ manifests = {}
  /\ clock = 0
  /\ run = [i \in Ingesters |-> IdleRun]

StartRun(i, mode) ==
  /\ run[i].phase = "idle"
  /\ run' = [run EXCEPT ![i].phase = FirstPhase(mode), ![i].mode = mode]
  /\ UNCHANGED <<raw, parquet, damaged, manifests, clock>>

\* Mutant: the first manifest of the listing is loaded instead of the newest.
LoadPriorOldest(i) ==
  /\ run[i].phase = "load"
  /\ \/ /\ manifests = {}
        /\ run' = [run EXCEPT ![i].phase = AfterLoad(run[i].mode)]
     \/ \E oldest \in manifests :
          /\ \A n \in manifests : oldest.at =< n.at
          /\ Readable(oldest)
          /\ run' = [run EXCEPT ![i].phase = AfterLoad(run[i].mode), ![i].prior = oldest]
  /\ UNCHANGED <<raw, parquet, damaged, manifests, clock>>

\* load_prior_partition: nothing published yet, or the newest one verified.
LoadPrior(i) ==
  /\ run[i].phase = "load"
  /\ \/ /\ manifests = {}
        /\ run' = [run EXCEPT ![i].phase = AfterLoad(run[i].mode)]
     \/ /\ manifests # {}
        /\ Readable(Latest)
        /\ run' = [run EXCEPT ![i].phase = AfterLoad(run[i].mode), ![i].prior = Latest]
  /\ UNCHANGED <<raw, parquet, damaged, manifests, clock>>

\* Mutant: the stamp of the prior partition is reused for the new one.
FetchReusingStamp(i) ==
  /\ run[i].phase = "fetch"
  /\ clock < MaxClock
  /\ clock' = clock + 1
  /\ \E incoming \in Frames : \E refreshed \in RefreshedBy(run[i].mode, incoming) :
       run' = [run EXCEPT ![i] = [@ EXCEPT !.phase = AfterFetch(run[i].mode),
                                           !.incoming = incoming,
                                           !.refreshed = refreshed,
                                           !.at = IF run[i].prior = NoManifest
                                                  THEN clock + 1 ELSE run[i].prior.at]]
  /\ UNCHANGED <<raw, parquet, damaged, manifests>>

\* The provider answered with rows; retrieved_at is stamped.
Fetch(i) ==
  /\ run[i].phase = "fetch"
  /\ clock < MaxClock
  /\ clock' = clock + 1
  /\ \E incoming \in Frames : \E refreshed \in RefreshedBy(run[i].mode, incoming) :
       run' = [run EXCEPT ![i] = [@ EXCEPT !.phase = AfterFetch(run[i].mode),
                                           !.incoming = incoming,
                                           !.refreshed = refreshed,
                                           !.at = clock + 1]]
  /\ UNCHANGED <<raw, parquet, damaged, manifests>>

\* Every requested window is already covered: the prior frame is republished
\* under a fresh stamp and a placeholder payload.
FetchNothing(i) ==
  /\ run[i].phase = "fetch"
  /\ run[i].mode = "incremental"
  /\ run[i].prior # NoManifest
  /\ clock < MaxClock
  /\ clock' = clock + 1
  /\ run' = [run EXCEPT ![i] = [@ EXCEPT !.phase = "archive",
                                         !.incoming = EmptyFrame,
                                         !.at = clock + 1]]
  /\ UNCHANGED <<raw, parquet, damaged, manifests>>

\* store_raw: create-only archive of the payload, before any validation.
ArchiveRaw(i) ==
  /\ run[i].phase = "archive"
  /\ raw' = raw \cup {run[i].incoming}
  /\ run' = [run EXCEPT ![i].phase = "check"]
  /\ UNCHANGED <<parquet, damaged, manifests, clock>>

\* Mutant: the lineage record is written before the Parquet file.
CheckGuardsManifestFirst(i) ==
  /\ run[i].phase = "check"
  /\ PassesGuards(run[i])
  /\ run' = [run EXCEPT ![i].phase = "manifest"]
  /\ UNCHANGED <<raw, parquet, damaged, manifests, clock>>

\* Validation, then coverage of the loaded prior or the shrink guard.
CheckGuards(i) ==
  /\ run[i].phase = "check"
  /\ PassesGuards(run[i])
  /\ run' = [run EXCEPT ![i].phase = "parquet"]
  /\ UNCHANGED <<raw, parquet, damaged, manifests, clock>>

\* First half of write_normalized: an existing intact file is kept.
WriteParquet(i) ==
  /\ run[i].phase = "parquet"
  /\ Candidate(run[i]) \notin damaged
  /\ parquet' = parquet \cup {Candidate(run[i])}
  /\ run' = [run EXCEPT ![i].phase = "manifest"]
  /\ UNCHANGED <<raw, damaged, manifests, clock>>

\* Mutant: publishing overwrites the lineage record of the prior partition.
WriteManifestOverwriting(i) ==
  /\ run[i].phase = "manifest"
  /\ manifests' = (manifests \ {run[i].prior}) \cup {ManifestOf(run[i])}
  /\ run' = [run EXCEPT ![i] = IdleRun]
  /\ UNCHANGED <<raw, parquet, damaged, clock>>

\* Second half of write_normalized: the manifest makes the partition visible.
WriteManifest(i) ==
  /\ run[i].phase = "manifest"
  /\ manifests' = manifests \cup {ManifestOf(run[i])}
  /\ run' = [run EXCEPT ![i] = IdleRun]
  /\ UNCHANGED <<raw, parquet, damaged, clock>>

\* The checks that end a run with an exception, leaving what is on disk.
Refused(r) ==
  \/ r.phase = "load" /\ manifests # {} /\ ~Readable(Latest)
  \/ r.phase = "check" /\ ~PassesGuards(r)
  \/ r.phase = "parquet" /\ Candidate(r) \in damaged

Refuse(i) ==
  /\ Refused(run[i])
  /\ run' = [run EXCEPT ![i] = IdleRun]
  /\ UNCHANGED <<raw, parquet, damaged, manifests, clock>>

\* A process dies, the provider fails or validation rejects the frame.
Abort(i) ==
  /\ run[i].phase # "idle"
  /\ run' = [run EXCEPT ![i] = IdleRun]
  /\ UNCHANGED <<raw, parquet, damaged, manifests, clock>>

\* Bytes of a stored Parquet file rot.
Corrupt(f) ==
  /\ f \in parquet \ damaged
  /\ Cardinality(damaged) < MaxDamage
  /\ damaged' = damaged \cup {f}
  /\ UNCHANGED <<raw, parquet, manifests, clock, run>>

IngestStep(i) ==
  \/ LoadPrior(i)
  \/ Fetch(i)
  \/ FetchNothing(i)
  \/ ArchiveRaw(i)
  \/ CheckGuards(i)
  \/ WriteParquet(i)
  \/ WriteManifest(i)
  \/ Refuse(i)

Next ==
  \/ \E i \in Ingesters, mode \in Modes : StartRun(i, mode)
  \/ \E i \in Ingesters : IngestStep(i)
  \/ \E i \in Ingesters : Abort(i)
  \/ \E f \in Frames : Corrupt(f)

Spec == Init /\ [][Next]_vars

-----------------------------------------------------------------------------
(* Properties *)

\* Every variable stays in its domain: what is on disk and in memory is made
\* of frames, payloads and manifests of this dataset.
TypeOK ==
  /\ raw \subseteq PartialFrames
  /\ parquet \subseteq Frames
  /\ damaged \subseteq parquet
  /\ manifests \subseteq Manifests
  /\ clock \in 0 .. MaxClock
  /\ run \in [Ingesters -> Runs]

\* Files are published data first: whatever interleaving or crash, a manifest
\* on disk always refers to an existing Parquet file and an archived payload
\* (write_normalized creates the Parquet before the manifest, persist_ingest
\* archives before both).
NoDanglingManifest ==
  \A m \in manifests : m.frame \in parquet /\ m.raw \in raw

\* The lineage is truthful although the prior was loaded long before the
\* publication and other runs published in between: the named prior exists on
\* disk and the partition extends exactly that one (load_prior_partition,
\* merge_incremental and prior_manifest_sha256 agree).
LineageExtendsPrior ==
  \A m \in manifests : m.prior # 0 => \E p \in manifests : p.at = m.prior /\ ExtendsPartition(m, p)

\* The catalog order is total: no two manifests share a retrieval stamp, so
\* every reader of the same directory resolves the same newest partition.
StampsUnique == \A m, n \in manifests : m.at = n.at => m = n

\* A publication is never older than the partition it was merged with, so a
\* run that loaded its prior before fetching is the newest after it publishes.
PriorPrecedes == \A m \in manifests : m.prior < m.at

\* Run i publishes in this step.
Publishes(i) == run[i].phase = "manifest" /\ manifests' # manifests /\ run'[i].phase = "idle"

\* A run that merges never makes the newest view lose a key outside the series
\* it refreshed (fetch_and_persist_rates: rows of other series are retained).
ServedKeysKept ==
  [][\A i \in Ingesters : Publishes(i) /\ run[i].mode # "full" =>
       (Served(manifests) \ run[i].refreshed) \subseteq Served(manifests')]_vars

\* A full replacement never demotes a panel of MinPriorRows rows or more to
\* less than half of it (assert_safe_partition_replacement).
PanelNotDemoted ==
  [][\A i \in Ingesters : Publishes(i) /\ run[i].prior = NoManifest =>
       \/ Cardinality(Served(manifests)) < MinPriorRows
       \/ 2 * Cardinality(Served(manifests')) >= Cardinality(Served(manifests))]_vars

\* The store implements the abstract catalog: three file writes by several
\* interleaving, failing processes look like atomic publications of whole
\* partitions that are never altered.
Catalog == INSTANCE PublishedCatalog WITH published <- manifests

ImplementsCatalog == Catalog!Spec

\* Keys, payloads and processes are interchangeable.
Symmetry == Permutations(Keys) \cup Permutations(Values) \cup Permutations(Ingesters)

=============================================================================
