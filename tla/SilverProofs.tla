-------------------------------- MODULE SilverProofs --------------------------
(***************************************************************************)
(* Proofs about the Silver store, for any keys, values, ingest processes,  *)
(* modes and bounds.  The first part is about SilverStore: type            *)
(* correctness, no dangling manifest, truthful lineage, and the refinement *)
(* of PublishedCatalog.  The second is about SilverMaintenance, for any    *)
(* stamps and fetcher answers, crashes or not, under the discipline        *)
(* OneCommand: the operator runs one command at a time.                    *)
(***************************************************************************)
EXTENDS SilverMaintenance, RecursionTheorems

-----------------------------------------------------------------------------
(* Frames *)

\* A frame is a function from some of the keys to values.
LEMMA PartialFrameFacts ==
  ASSUME NEW f \in PartialFrames
  PROVE  /\ DOMAIN f \subseteq Keys
         /\ \A k \in DOMAIN f : f[k] \in Values
         /\ f = [k \in DOMAIN f |-> f[k]]
BY DEF PartialFrames

\* What merge_incremental returns: a frame that covers the incoming keys and
\* the prior ones outside the refreshed set, and no other.
LEMMA MergeFacts ==
  ASSUME NEW p \in PartialFrames, NEW q \in PartialFrames, NEW R
  PROVE  /\ MergeFrames(p, q, R) \in PartialFrames
         /\ DOMAIN MergeFrames(p, q, R) = (DOMAIN p \ R) \cup DOMAIN q
<1> DEFINE D == (DOMAIN p \ R) \cup DOMAIN q
           g(k) == IF k \in DOMAIN q THEN q[k] ELSE p[k]
<1>1. D \in SUBSET Keys /\ \A k \in D : g(k) \in Values
  BY PartialFrameFacts
<1>2. MergeFrames(p, q, R) = [k \in D |-> g(k)]
  BY DEF MergeFrames
<1>3. [k \in D |-> g(k)] \in [D -> Values]
  BY <1>1
<1>4. MergeFrames(p, q, R) \in PartialFrames
  BY <1>1, <1>2, <1>3 DEF PartialFrames
<1> QED BY <1>2, <1>4

\* A merge is not empty when something was fetched or nothing was refreshed.
LEMMA MergeNotEmpty ==
  ASSUME NEW p \in Frames, NEW q \in PartialFrames, NEW R,
         q \in Frames \/ R = {}
  PROVE  MergeFrames(p, q, R) \in Frames
<1>1. p \in PartialFrames /\ DOMAIN p # {}
  BY DEF Frames
<1>2. DOMAIN MergeFrames(p, q, R) = (DOMAIN p \ R) \cup DOMAIN q
  BY <1>1, MergeFacts
<1>3. (DOMAIN p \ R) \cup DOMAIN q # {}
  BY <1>1 DEF Frames
<1> QED BY <1>1, <1>2, <1>3, MergeFacts DEF Frames

-----------------------------------------------------------------------------
(* The inductive invariant *)

Fetched == {"archive", "check", "parquet", "manifest"}

\* What a run's memory owes to the disk: the prior it loaded is published,
\* and what it already wrote is still there.
RunOK(r) ==
  /\ r.phase = "idle" => r = IdleRun
  /\ r.prior # NoManifest => r.prior \in manifests
  /\ r.phase \in {"check", "parquet", "manifest"} => r.incoming \in raw
  /\ r.phase = "manifest" => Candidate(r) \in parquet
  /\ r.phase \in Fetched => Candidate(r) \in Frames /\ r.at # 0
  /\ r.phase = "load" => r.mode # "full"
  /\ r.phase = "load" /\ r.mode = "series" => r.incoming \in Frames /\ r.at # 0
  /\ r.phase = "load" /\ r.mode = "incremental" => r.refreshed = {}
  /\ r.phase = "fetch" => r.refreshed = {}

\* A stamp belongs to one manifest or to one run that may still publish it.
StampsFresh ==
  /\ \A m \in manifests : m.at =< clock
  /\ \A i \in Ingesters : run[i].at =< clock
  /\ \A i \in Ingesters, m \in manifests : run[i].at # m.at
  /\ \A i, j \in Ingesters : run[i].at # 0 /\ run[i].at = run[j].at => i = j

\* The catalog order has a newest partition as soon as it has any.
HasNewest == manifests # {} => \E m \in manifests : \A n \in manifests : n.at =< m.at

RunsOK == \A i \in Ingesters : RunOK(run[i])

IInv ==
  /\ TypeOK
  /\ HasNewest
  /\ StampsFresh
  /\ StampsUnique
  /\ RunsOK
  /\ NoDanglingManifest
  /\ LineageExtendsPrior

\* latest_artifact returns a manifest of the directory.
LEMMA LatestPublished ==
  ASSUME IInv, manifests # {}
  PROVE  Latest \in manifests /\ \A n \in manifests : n.at =< Latest.at
BY DEF IInv, HasNewest, Latest, Newest

\* Before the first ingest nothing is on disk and every process is idle.
LEMMA InitIInv == Init => IInv
<1> SUFFICES ASSUME Init PROVE IInv
  OBVIOUS
<1>1. IdleRun \in Runs
  BY MaxClockAssumption DEF EmptyFrame, PartialFrames, IdleRun, Runs, Phases, IngestModes
<1>2. TypeOK
  BY <1>1, MaxClockAssumption DEF Init, TypeOK
<1>3. RunsOK
  BY DEF Init, RunsOK, RunOK, IdleRun, Fetched
<1>4. StampsFresh
  BY DEF Init, StampsFresh, IdleRun
<1>5. HasNewest /\ StampsUnique /\ NoDanglingManifest /\ LineageExtendsPrior
  BY DEF Init, HasNewest, StampsUnique, NoDanglingManifest, LineageExtendsPrior
<1> QED BY <1>2, <1>3, <1>4, <1>5 DEF IInv

-----------------------------------------------------------------------------
(* Steps *)

\* A run whose memory is untouched stays sound while the disk only grows.
LEMMA RunKept ==
  ASSUME IInv, NEW j \in Ingesters, run'[j] = run[j],
         raw \subseteq raw', parquet \subseteq parquet', manifests \subseteq manifests'
  PROVE  RunOK(run[j])'
BY DEF IInv, RunsOK, RunOK, Candidate

\* A step that changes the memory of one run, keeps or drops its stamp, and at
\* most adds a payload or a Parquet file preserves the invariant.
LEMMA RunStep ==
  ASSUME IInv, NEW i \in Ingesters, NEW r \in Runs, run' = [run EXCEPT ![i] = r],
         UNCHANGED <<damaged, manifests, clock>>,
         raw \subseteq raw', raw' \subseteq PartialFrames,
         parquet \subseteq parquet', parquet' \subseteq Frames,
         r.at \in {0, run[i].at}, RunOK(run[i])'
  PROVE  IInv'
<1>1. TypeOK'
  BY DEF IInv, TypeOK
<1>2. run'[i] = r /\ \A j \in Ingesters \ {i} : run'[j] = run[j]
  BY DEF IInv, TypeOK
<1>3. RunsOK'
  <2> SUFFICES ASSUME NEW j \in Ingesters PROVE RunOK(run[j])'
    BY DEF RunsOK
  <2>1. CASE j = i
    BY <2>1
  <2>2. CASE j # i
    BY <1>2, <2>2, RunKept
  <2> QED BY <2>1, <2>2
<1>4. \A j \in Ingesters : run'[j].at \in {0, run[j].at}
  BY <1>2
<1>5. \A m \in manifests : m.at # 0
  BY DEF IInv, TypeOK, Manifests
<1>6. StampsFresh'
  BY <1>4, <1>5 DEF IInv, StampsFresh, TypeOK
<1>7. HasNewest' /\ StampsUnique'
  BY DEF IInv, HasNewest, StampsUnique
<1>8. NoDanglingManifest' /\ LineageExtendsPrior'
  BY DEF IInv, NoDanglingManifest, LineageExtendsPrior
<1> QED BY <1>1, <1>3, <1>6, <1>7, <1>8 DEF IInv

LEMMA IdleRunFacts == IdleRun \in Runs /\ IdleRun.at = 0
BY MaxClockAssumption DEF EmptyFrame, PartialFrames, IdleRun, Runs, Phases, IngestModes

LEMMA StepStartRun ==
  ASSUME IInv, NEW i \in Ingesters, NEW mode \in Modes, StartRun(i, mode)
  PROVE  IInv'
<1> DEFINE r == [run[i] EXCEPT !.phase = FirstPhase(mode), !.mode = mode]
<1>1. run[i] = IdleRun /\ run[i] \in Runs /\ mode \in IngestModes
  BY ModesAssumption DEF IInv, RunsOK, RunOK, StartRun, TypeOK
<1>2. r \in Runs /\ run' = [run EXCEPT ![i] = r]
  BY <1>1 DEF StartRun, Runs, Phases, FirstPhase, IInv, TypeOK
<1>3. r.phase \in {"load", "fetch"} /\ (r.phase = "load" => mode = "incremental")
  BY <1>1 DEF FirstPhase, Runs
<1>4. run'[i] = r /\ r.at = run[i].at
  BY <1>1, <1>2 DEF IInv, TypeOK, Runs
<1>5. RunOK(run[i])'
  BY <1>1, <1>3, <1>4 DEF RunOK, IdleRun, Fetched
<1>6. raw' \subseteq PartialFrames /\ parquet' \subseteq Frames
  BY DEF StartRun, IInv, TypeOK
<1> QED BY <1>2, <1>4, <1>5, <1>6, RunStep DEF StartRun

\* Ending a run, for whatever reason, forgets its memory and its stamp.
LEMMA StepEnd ==
  ASSUME IInv, NEW i \in Ingesters, Refuse(i) \/ Abort(i)
  PROVE  IInv'
<1>1. run' = [run EXCEPT ![i] = IdleRun] /\ UNCHANGED <<raw, parquet, damaged, manifests, clock>>
  BY DEF Refuse, Abort
<1>2. run'[i] = IdleRun
  BY <1>1 DEF IInv, TypeOK
<1>3. RunOK(run[i])'
  BY <1>2 DEF RunOK, IdleRun, Fetched
<1>4. raw' \subseteq PartialFrames /\ parquet' \subseteq Frames
  BY <1>1 DEF IInv, TypeOK
<1> QED BY <1>1, <1>3, <1>4, IdleRunFacts, RunStep

LEMMA StepCheckGuards ==
  ASSUME IInv, NEW i \in Ingesters, CheckGuards(i)
  PROVE  IInv'
<1> DEFINE r == [run[i] EXCEPT !.phase = "parquet"]
<1>1. run[i] \in Runs /\ run[i].phase = "check" /\ RunOK(run[i])
  BY DEF IInv, TypeOK, RunsOK, CheckGuards
<1>2. r \in Runs /\ run' = [run EXCEPT ![i] = r] /\ run'[i] = r
  BY <1>1 DEF CheckGuards, Runs, Phases, IInv, TypeOK
<1>3. Candidate(r) = Candidate(run[i])
  BY <1>1 DEF Candidate, Runs
<1>4. RunOK(run[i])'
  BY <1>1, <1>2, <1>3 DEF RunOK, Fetched, CheckGuards, Runs
<1>5. raw' \subseteq PartialFrames /\ parquet' \subseteq Frames
  BY DEF CheckGuards, IInv, TypeOK
<1> QED BY <1>1, <1>2, <1>4, <1>5, RunStep DEF CheckGuards, Runs

\* Merging with the partition just loaded yields a publishable frame.
LEMMA CandidateOfLoaded ==
  ASSUME NEW r \in Runs, r.incoming \in Frames \/ (r.refreshed = {} /\ r.prior # NoManifest)
  PROVE  Candidate(r) \in Frames
<1>1. CASE r.prior = NoManifest
  BY <1>1 DEF Candidate
<1>2. CASE r.prior # NoManifest
  <2>1. r.prior.frame \in Frames /\ r.incoming \in PartialFrames
    BY <1>2 DEF Runs, Manifests
  <2> QED BY <1>2, <2>1, MergeNotEmpty DEF Candidate
<1> QED BY <1>1, <1>2

LEMMA StepLoadPrior ==
  ASSUME IInv, NEW i \in Ingesters, LoadPrior(i)
  PROVE  IInv'
<1> DEFINE after == AfterLoad(run[i].mode)
<1>1. run[i] \in Runs /\ run[i].phase = "load" /\ RunOK(run[i])
  BY DEF IInv, TypeOK, RunsOK, LoadPrior
<1>2. \/ run[i].mode = "incremental" /\ after = "fetch"
      \/ run[i].mode = "series" /\ after = "archive"
  BY <1>1 DEF RunOK, AfterLoad, Runs, IngestModes
<1>3. PICK p \in manifests \cup {run[i].prior} :
        run' = [run EXCEPT ![i] = [run[i] EXCEPT !.phase = after, !.prior = p]]
  <2>1. CASE manifests = {}
    <3>1. [run[i] EXCEPT !.phase = after, !.prior = run[i].prior] = [run[i] EXCEPT !.phase = after]
      BY <1>1 DEF Runs
    <3> QED BY <2>1, <3>1 DEF LoadPrior
  <2>2. CASE manifests # {}
    BY <2>2, LatestPublished DEF LoadPrior
  <2> QED BY <2>1, <2>2
<1> DEFINE r == [run[i] EXCEPT !.phase = after, !.prior = p]
<1>4. p \in Manifests \cup {NoManifest} /\ (p # NoManifest => p \in manifests)
  BY <1>1, <1>3 DEF IInv, TypeOK, RunOK, Runs
<1>5. r \in Runs
  BY <1>1, <1>2, <1>4 DEF Runs, Phases
<1>6. run'[i] = r /\ r.at = run[i].at /\ r.incoming = run[i].incoming /\ r.refreshed = run[i].refreshed
       /\ r.phase = after /\ r.prior = p /\ r.mode = run[i].mode
  BY <1>1, <1>3 DEF IInv, TypeOK, Runs
<1>7. after = "archive" => Candidate(r) \in Frames /\ r.at # 0
  BY <1>1, <1>2, <1>5, <1>6, CandidateOfLoaded DEF RunOK
<1>8. UNCHANGED <<raw, parquet, damaged, manifests, clock>>
  BY DEF LoadPrior
<1>9. RunOK(run[i])'
  BY <1>1, <1>2, <1>4, <1>6, <1>7, <1>8 DEF RunOK, Fetched
<1>10. raw' \subseteq PartialFrames /\ parquet' \subseteq Frames
  BY <1>8 DEF IInv, TypeOK
<1> QED BY <1>3, <1>5, <1>6, <1>8, <1>9, <1>10, RunStep

LEMMA StepArchiveRaw ==
  ASSUME IInv, NEW i \in Ingesters, ArchiveRaw(i)
  PROVE  IInv'
<1> DEFINE r == [run[i] EXCEPT !.phase = "check"]
<1>1. run[i] \in Runs /\ run[i].phase = "archive" /\ RunOK(run[i])
  BY DEF IInv, TypeOK, RunsOK, ArchiveRaw
<1>2. r \in Runs /\ run' = [run EXCEPT ![i] = r] /\ run'[i] = r
  BY <1>1 DEF ArchiveRaw, Runs, Phases, IInv, TypeOK
<1>3. Candidate(r) = Candidate(run[i]) /\ r.at = run[i].at /\ r.incoming = run[i].incoming
       /\ r.prior = run[i].prior /\ r.phase = "check"
  BY <1>1 DEF Candidate, Runs
<1>4. RunOK(run[i])'
  BY <1>1, <1>2, <1>3 DEF RunOK, Fetched, ArchiveRaw
<1>5. raw' \subseteq PartialFrames /\ parquet' \subseteq Frames /\ raw \subseteq raw'
  BY <1>1 DEF ArchiveRaw, IInv, TypeOK, Runs
<1> QED BY <1>2, <1>3, <1>4, <1>5, RunStep DEF ArchiveRaw

LEMMA StepWriteParquet ==
  ASSUME IInv, NEW i \in Ingesters, WriteParquet(i)
  PROVE  IInv'
<1> DEFINE r == [run[i] EXCEPT !.phase = "manifest"]
<1>1. run[i] \in Runs /\ run[i].phase = "parquet" /\ RunOK(run[i])
  BY DEF IInv, TypeOK, RunsOK, WriteParquet
<1>2. r \in Runs /\ run' = [run EXCEPT ![i] = r] /\ run'[i] = r
  BY <1>1 DEF WriteParquet, Runs, Phases, IInv, TypeOK
<1>3. Candidate(r) = Candidate(run[i]) /\ r.at = run[i].at /\ r.incoming = run[i].incoming
       /\ r.prior = run[i].prior /\ r.phase = "manifest"
  BY <1>1 DEF Candidate, Runs
<1>4. Candidate(run[i]) \in Frames
  BY <1>1 DEF RunOK, Fetched
<1>5. RunOK(run[i])'
  BY <1>1, <1>2, <1>3, <1>4 DEF RunOK, Fetched, WriteParquet
<1>6. raw' \subseteq PartialFrames /\ parquet' \subseteq Frames /\ parquet \subseteq parquet'
  BY <1>4 DEF WriteParquet, IInv, TypeOK
<1> QED BY <1>2, <1>3, <1>5, <1>6, RunStep DEF WriteParquet

\* A run that takes the next stamp has a stamp nobody else has.
LEMMA StampStep ==
  ASSUME IInv, NEW i \in Ingesters, NEW r \in Runs, run' = [run EXCEPT ![i] = r],
         clock < MaxClock, clock' = clock + 1, r.at = clock + 1,
         UNCHANGED <<raw, parquet, damaged, manifests>>, RunOK(run[i])'
  PROVE  IInv'
<1>1. TypeOK'
  BY MaxClockAssumption DEF IInv, TypeOK
<1>2. run'[i] = r /\ \A j \in Ingesters \ {i} : run'[j] = run[j]
  BY DEF IInv, TypeOK
<1>3. RunsOK'
  <2> SUFFICES ASSUME NEW j \in Ingesters PROVE RunOK(run[j])'
    BY DEF RunsOK
  <2>1. CASE j = i
    BY <2>1
  <2>2. CASE j # i
    BY <1>2, <2>2, RunKept
  <2> QED BY <2>1, <2>2
<1>4. /\ clock \in Nat
      /\ \A m \in manifests : m.at \in Nat
      /\ \A j \in Ingesters : run[j].at \in Nat
  BY MaxClockAssumption DEF IInv, TypeOK, Manifests, Runs
<1>5. StampsFresh'
  BY <1>2, <1>4 DEF IInv, StampsFresh
<1>6. HasNewest' /\ StampsUnique'
  BY DEF IInv, HasNewest, StampsUnique
<1>7. NoDanglingManifest' /\ LineageExtendsPrior'
  BY DEF IInv, NoDanglingManifest, LineageExtendsPrior
<1> QED BY <1>1, <1>3, <1>5, <1>6, <1>7 DEF IInv

LEMMA StepFetch ==
  ASSUME IInv, NEW i \in Ingesters, Fetch(i)
  PROVE  IInv'
<1> DEFINE after == AfterFetch(run[i].mode)
<1>1. run[i] \in Runs /\ run[i].phase = "fetch" /\ RunOK(run[i])
  BY DEF IInv, TypeOK, RunsOK, Fetch
<1>2. PICK incoming \in Frames : \E refreshed \in RefreshedBy(run[i].mode, incoming) :
        run' = [run EXCEPT ![i] = [run[i] EXCEPT !.phase = after, !.incoming = incoming,
                                                 !.refreshed = refreshed, !.at = clock + 1]]
  BY DEF Fetch
<1>3. PICK refreshed \in RefreshedBy(run[i].mode, incoming) :
        run' = [run EXCEPT ![i] = [run[i] EXCEPT !.phase = after, !.incoming = incoming,
                                                 !.refreshed = refreshed, !.at = clock + 1]]
  BY <1>2
<1> DEFINE r == [run[i] EXCEPT !.phase = after, !.incoming = incoming,
                               !.refreshed = refreshed, !.at = clock + 1]
<1>4. incoming \in PartialFrames /\ refreshed \in SUBSET Keys
  BY DEF Frames, RefreshedBy
<1>5. after \in {"load", "archive"} /\ (after = "load" => run[i].mode = "series")
  BY DEF AfterFetch
<1>6. clock + 1 \in 0 .. MaxClock /\ clock < MaxClock /\ clock' = clock + 1
  BY MaxClockAssumption DEF Fetch, IInv, TypeOK
<1>7. r \in Runs
  BY <1>1, <1>4, <1>5, <1>6 DEF Runs, Phases
<1>8. run'[i] = r /\ r.at = clock + 1 /\ r.incoming = incoming /\ r.refreshed = refreshed
       /\ r.phase = after /\ r.prior = run[i].prior /\ r.mode = run[i].mode
  BY <1>1, <1>3 DEF IInv, TypeOK, Runs
<1>9. Candidate(r) \in Frames
  BY <1>7, <1>8, CandidateOfLoaded
<1>10. UNCHANGED <<raw, parquet, damaged, manifests>>
  BY DEF Fetch
<1>11. clock + 1 # 0
  BY MaxClockAssumption DEF IInv, TypeOK
<1>12. RunOK(run[i])'
  BY <1>1, <1>5, <1>8, <1>9, <1>10, <1>11 DEF RunOK, Fetched
<1> QED BY <1>3, <1>6, <1>7, <1>8, <1>10, <1>12, StampStep

LEMMA StepFetchNothing ==
  ASSUME IInv, NEW i \in Ingesters, FetchNothing(i)
  PROVE  IInv'
<1> DEFINE r == [run[i] EXCEPT !.phase = "archive", !.incoming = EmptyFrame, !.at = clock + 1]
<1>1. /\ run[i] \in Runs /\ run[i].phase = "fetch" /\ RunOK(run[i])
      /\ run[i].prior # NoManifest
      /\ run' = [run EXCEPT ![i] = r]
  BY DEF IInv, TypeOK, RunsOK, FetchNothing
<1>2. clock + 1 \in 0 .. MaxClock /\ clock < MaxClock /\ clock' = clock + 1
  BY MaxClockAssumption DEF FetchNothing, IInv, TypeOK
<1>3. EmptyFrame \in PartialFrames
  BY IdleRunFacts DEF IdleRun, Runs
<1>4. r \in Runs
  BY <1>1, <1>2, <1>3 DEF Runs, Phases
<1>5. run'[i] = r /\ r.at = clock + 1 /\ r.refreshed = run[i].refreshed
       /\ r.phase = "archive" /\ r.prior = run[i].prior
  BY <1>1 DEF IInv, TypeOK, Runs
<1>6. Candidate(r) \in Frames
  BY <1>1, <1>4, <1>5, CandidateOfLoaded DEF RunOK
<1>7. UNCHANGED <<raw, parquet, damaged, manifests>>
  BY DEF FetchNothing
<1>8. clock + 1 # 0
  BY MaxClockAssumption DEF IInv, TypeOK
<1>9. RunOK(run[i])'
  BY <1>1, <1>5, <1>6, <1>7, <1>8 DEF RunOK, Fetched
<1> QED BY <1>1, <1>2, <1>4, <1>5, <1>7, <1>9, StampStep

\* The partition a run publishes extends exactly the prior it names.
LEMMA ManifestExtendsPrior ==
  ASSUME NEW r \in Runs, r.prior # NoManifest
  PROVE  ExtendsPartition(ManifestOf(r), r.prior)
<1>1. PICK p \in PartialFrames : p = r.prior.frame
  BY DEF Runs, Manifests, Frames
<1>2. PICK q \in PartialFrames : q = r.incoming
  BY DEF Runs
<1>3. PICK R : R = r.refreshed
  OBVIOUS
<1> DEFINE merged == MergeFrames(p, q, R)
<1>4. /\ DOMAIN merged = (DOMAIN p \ R) \cup DOMAIN q
      /\ \A k \in DOMAIN q : merged[k] = q[k]
      /\ \A k \in DOMAIN p \ (R \cup DOMAIN q) : merged[k] = p[k]
  BY DEF MergeFrames
<1>5. /\ (DOMAIN p \ R) \subseteq DOMAIN merged
      /\ \A k \in DOMAIN q : k \in DOMAIN merged /\ merged[k] = q[k]
      /\ \A k \in DOMAIN merged \ DOMAIN q : k \in DOMAIN p /\ merged[k] = p[k]
  BY <1>4
<1>6. /\ ManifestOf(r).frame = merged
      /\ ManifestOf(r).raw = q
      /\ ManifestOf(r).refreshed = R
  BY <1>1, <1>2, <1>3 DEF ManifestOf, Candidate
<1> QED BY <1>1, <1>5, <1>6 DEF ExtendsPartition

LEMMA StepWriteManifest ==
  ASSUME IInv, NEW i \in Ingesters, WriteManifest(i)
  PROVE  IInv'
<1> DEFINE m == ManifestOf(run[i])
<1>1. /\ run[i] \in Runs /\ run[i].phase = "manifest" /\ RunOK(run[i])
      /\ manifests' = manifests \cup {m}
      /\ run' = [run EXCEPT ![i] = IdleRun]
      /\ UNCHANGED <<raw, parquet, damaged, clock>>
  BY DEF IInv, TypeOK, RunsOK, WriteManifest
<1>2. /\ run[i].prior # NoManifest => run[i].prior \in manifests
      /\ run[i].incoming \in raw
      /\ Candidate(run[i]) \in parquet
      /\ Candidate(run[i]) \in Frames /\ run[i].at # 0
  BY <1>1 DEF RunOK, Fetched
<1>3. run[i].at \in 1 .. MaxClock
  BY <1>1, <1>2, MaxClockAssumption DEF Runs
<1>4. m \in Manifests /\ m.at = run[i].at /\ m.frame \in parquet /\ m.raw \in raw
  <2>1. run[i].prior # NoManifest => run[i].prior.at \in 1 .. MaxClock
    BY <1>1 DEF Runs, Manifests
  <2>2. (IF run[i].prior = NoManifest THEN 0 ELSE run[i].prior.at) \in 0 .. MaxClock
    BY <2>1, MaxClockAssumption
  <2> QED BY <1>1, <1>2, <1>3, <2>2 DEF ManifestOf, Manifests, Runs
<1>5. TypeOK'
  BY <1>1, <1>4, IdleRunFacts DEF IInv, TypeOK
<1>6. run'[i] = IdleRun /\ \A j \in Ingesters \ {i} : run'[j] = run[j]
  BY <1>1 DEF IInv, TypeOK
<1>7. RunsOK'
  <2> SUFFICES ASSUME NEW j \in Ingesters PROVE RunOK(run[j])'
    BY DEF RunsOK
  <2>1. CASE j = i
    BY <1>6, <2>1 DEF RunOK, IdleRun, Fetched
  <2>2. CASE j # i
    BY <1>1, <1>6, <2>2, RunKept
  <2> QED BY <2>1, <2>2
<1>8. /\ clock \in Nat
      /\ \A n \in manifests : n.at \in 1 .. MaxClock
      /\ \A j \in Ingesters : run[j].at \in Nat
  BY MaxClockAssumption DEF IInv, TypeOK, Manifests, Runs
<1>9. StampsFresh'
  BY <1>1, <1>4, <1>6, <1>8, IdleRunFacts, <1>3 DEF IInv, StampsFresh
<1>10. StampsUnique'
  BY <1>1, <1>4 DEF IInv, StampsUnique, StampsFresh
<1>11. HasNewest'
  BY <1>1, <1>3, <1>4, <1>8 DEF IInv, HasNewest
<1>12. NoDanglingManifest'
  BY <1>1, <1>4 DEF IInv, NoDanglingManifest
<1>13. LineageExtendsPrior'
  <2>1. CASE run[i].prior = NoManifest
    <3>1. m.prior = 0
      BY <2>1 DEF ManifestOf
    <3> QED BY <1>1, <3>1 DEF IInv, LineageExtendsPrior
  <2>2. CASE run[i].prior # NoManifest
    <3>1. m.prior = run[i].prior.at /\ ExtendsPartition(m, run[i].prior)
      BY <1>1, <2>2, ManifestExtendsPrior DEF ManifestOf
    <3> QED BY <1>1, <1>2, <2>2, <3>1 DEF IInv, LineageExtendsPrior
  <2> QED BY <2>1, <2>2
<1> QED BY <1>5, <1>7, <1>9, <1>10, <1>11, <1>12, <1>13 DEF IInv

LEMMA StepCorrupt ==
  ASSUME IInv, NEW f \in Frames, Corrupt(f)
  PROVE  IInv'
<1>1. UNCHANGED <<raw, parquet, manifests, clock, run>> /\ damaged' \subseteq parquet
  BY DEF Corrupt, IInv, TypeOK
<1>2. TypeOK'
  BY <1>1 DEF IInv, TypeOK
<1>3. RunsOK'
  BY <1>1 DEF IInv, RunsOK, RunOK, Candidate
<1> QED BY <1>1, <1>2, <1>3 DEF IInv, HasNewest, StampsFresh, StampsUnique,
                                NoDanglingManifest, LineageExtendsPrior

-----------------------------------------------------------------------------
(* Theorems *)

\* Every step of every process, and every fault, preserves the invariant.
LEMMA NextIInv == IInv /\ [Next]_vars => IInv'
<1> SUFFICES ASSUME IInv, [Next]_vars PROVE IInv'
  OBVIOUS
<1>1. CASE UNCHANGED vars
  BY <1>1 DEF vars, IInv, TypeOK, HasNewest, StampsFresh, StampsUnique, RunsOK, RunOK,
              Candidate, NoDanglingManifest, LineageExtendsPrior
<1>2. ASSUME NEW i \in Ingesters, NEW mode \in Modes, StartRun(i, mode) PROVE IInv'
  BY <1>2, StepStartRun
<1>3. ASSUME NEW i \in Ingesters, IngestStep(i) PROVE IInv'
  BY <1>3, StepLoadPrior, StepFetch, StepFetchNothing, StepArchiveRaw, StepCheckGuards,
     StepWriteParquet, StepWriteManifest, StepEnd DEF IngestStep
<1>4. ASSUME NEW i \in Ingesters, Abort(i) PROVE IInv'
  BY <1>4, StepEnd
<1>5. ASSUME NEW f \in Frames, Corrupt(f) PROVE IInv'
  BY <1>5, StepCorrupt
<1> QED BY <1>1, <1>2, <1>3, <1>4, <1>5 DEF Next

\* The store's invariant holds of every reachable state.
THEOREM StoreInvariant == Spec => []IInv
BY InitIInv, NextIInv, PTL DEF Spec

\* Files, manifests and run memories stay in their domains.
THEOREM TypeCorrect == Spec => []TypeOK
<1>1. IInv => TypeOK
  BY DEF IInv
<1> QED BY <1>1, StoreInvariant, PTL

\* Whatever interleaving, crash or refusal, every manifest on disk refers to a
\* Parquet file and a Bronze payload that exist (write_normalized's order).
THEOREM NoManifestDangles == Spec => []NoDanglingManifest
<1>1. IInv => NoDanglingManifest
  BY DEF IInv
<1> QED BY <1>1, StoreInvariant, PTL

\* The lineage on disk is truthful for any number of concurrent ingest runs:
\* the prior each partition names exists and is the one it extends.
THEOREM LineageTruthful == Spec => []LineageExtendsPrior
<1>1. IInv => LineageExtendsPrior
  BY DEF IInv
<1> QED BY <1>1, StoreInvariant, PTL

\* A step of the store publishes one partition or leaves the catalog alone.
LEMMA StepSimulates == IInv /\ IInv' /\ [Next]_vars => [Catalog!Next]_manifests
<1> SUFFICES ASSUME IInv, IInv', [Next]_vars, manifests' # manifests
             PROVE  Catalog!Next
  OBVIOUS
<1>1. PICK i \in Ingesters : WriteManifest(i)
  BY DEF Next, vars, StartRun, IngestStep, LoadPrior, Fetch, FetchNothing, ArchiveRaw,
         CheckGuards, WriteParquet, Refuse, Abort, Corrupt
<1> DEFINE m == ManifestOf(run[i])
<1>2. /\ run[i] \in Runs /\ RunOK(run[i]) /\ run[i].phase = "manifest"
      /\ manifests' = manifests \cup {m}
      /\ m.at = run[i].at
  BY <1>1 DEF IInv, TypeOK, RunsOK, WriteManifest, ManifestOf
<1>3. m \in Manifests
  BY <1>2 DEF IInv, TypeOK
<1>4. \A n \in manifests : n.at # m.at
  BY <1>2 DEF IInv, StampsFresh
<1>5. Catalog!PriorHonoured(m)
  <2>1. CASE run[i].prior = NoManifest
    BY <2>1 DEF Catalog!PriorHonoured, ManifestOf
  <2>2. CASE run[i].prior # NoManifest
    <3>1. m.prior = run[i].prior.at /\ ExtendsPartition(m, run[i].prior)
      BY <1>2, <2>2, ManifestExtendsPrior DEF ManifestOf
    <3>2. run[i].prior \in manifests
      BY <1>2, <2>2 DEF RunOK
    <3>3. Catalog!ExtendsPartition(m, run[i].prior)
      BY <3>1 DEF ExtendsPartition, Catalog!ExtendsPartition
    <3> QED BY <3>1, <3>2, <3>3 DEF Catalog!PriorHonoured
  <2> QED BY <2>1, <2>2
<1>6. Catalog!Publish(m)
  BY <1>2, <1>4, <1>5 DEF Catalog!Publish
<1>7. m \in Catalog!Manifests
  BY <1>3 DEF Manifests, Frames, PartialFrames,
              Catalog!Manifests, Catalog!Frames, Catalog!PartialFrames
<1> QED BY <1>6, <1>7 DEF Catalog!Next

\* The store implements the abstract catalog for every number of processes,
\* keys, values and stamps.
THEOREM StoreImplementsCatalog == Spec => ImplementsCatalog
<1>1. Init => Catalog!Init
  BY DEF Init, Catalog!Init
<1>2. IInv /\ IInv' /\ [Next]_vars => [Catalog!Next]_manifests
  BY StepSimulates
<1> QED BY <1>1, <1>2, StoreInvariant, PTL DEF Spec, ImplementsCatalog, Catalog!Spec

-----------------------------------------------------------------------------
(* The order of stamps *)

\* No two partitions share a stamp, so all readers agree on the newest one.
THEOREM StampsAreUnique == Spec => []StampsUnique
<1>1. IInv => StampsUnique
  BY DEF IInv
<1> QED BY <1>1, StoreInvariant, PTL

\* Outside series refreshes the prior is loaded before the stamp is taken: a
\* stamped run is younger than the partition it remembers.
StampFollowsPrior ==
  \A i \in Ingesters :
    /\ run[i].mode # "series"
    /\ run[i].phase \in {"load", "fetch"} => run[i].at = 0
    /\ run[i].prior # NoManifest /\ run[i].at # 0 => run[i].prior.at < run[i].at

\* Only a step of its own process touches a run's memory.
LEMMA OwnStep ==
  ASSUME NEW i \in Ingesters,
         IngestStep(i) \/ Abort(i) \/ \E mode \in Modes : StartRun(i, mode),
         run \in [Ingesters -> Runs]
  PROVE  \A j \in Ingesters \ {i} : run'[j] = run[j]
BY DEF IngestStep, LoadPrior, Fetch, FetchNothing, ArchiveRaw, CheckGuards, WriteParquet,
       WriteManifest, Refuse, Abort, StartRun

LEMMA StampFollowsPriorStep ==
  ASSUME IInv, StampFollowsPrior, "series" \notin Modes, [Next]_vars
  PROVE  StampFollowsPrior'
<1> USE DEF StampFollowsPrior
<1>0. run \in [Ingesters -> Runs]
  BY DEF IInv, TypeOK
<1>1. CASE UNCHANGED vars
  BY <1>1 DEF vars
<1>2. ASSUME NEW i \in Ingesters, IngestStep(i) \/ Abort(i) \/ \E mode \in Modes : StartRun(i, mode)
      PROVE  StampFollowsPrior'
  <2>1. \A j \in Ingesters \ {i} : run'[j] = run[j]
    BY <1>0, <1>2, OwnStep
  <2>2. run[i] \in Runs /\ run[i].mode # "series"
    BY <1>0
  <2> SUFFICES /\ run'[i].mode # "series"
               /\ run'[i].phase \in {"load", "fetch"} => run'[i].at = 0
               /\ run'[i].prior # NoManifest /\ run'[i].at # 0 => run'[i].prior.at < run'[i].at
    BY <2>1
  <2>3. CASE Refuse(i) \/ Abort(i) \/ WriteManifest(i)
    BY <1>0, <2>3 DEF Refuse, Abort, WriteManifest, IdleRun
  <2>4. ASSUME NEW mode \in Modes, StartRun(i, mode)
        PROVE  run'[i].mode # "series" /\ run'[i].at = 0
    <3>1. run[i] = IdleRun
      BY <2>4 DEF IInv, RunsOK, RunOK, StartRun
    <3> QED BY <1>0, <2>2, <2>4, <3>1 DEF StartRun, IdleRun
  <2>5. CASE ArchiveRaw(i) \/ CheckGuards(i) \/ WriteParquet(i)
    BY <1>0, <2>2, <2>5 DEF ArchiveRaw, CheckGuards, WriteParquet, Runs
  <2>6. CASE LoadPrior(i)
    BY <1>0, <2>2, <2>6 DEF LoadPrior, Runs
  <2>7. CASE Fetch(i) \/ FetchNothing(i)
    <3>1. /\ run'[i].at = clock + 1 /\ run'[i].prior = run[i].prior /\ run'[i].mode = run[i].mode
          /\ run'[i].phase = "archive"
      <4>1. CASE Fetch(i)
        <5>1. PICK incoming \in Frames, refreshed \in SUBSET Keys :
                run' = [run EXCEPT ![i] = [run[i] EXCEPT !.phase = AfterFetch(run[i].mode),
                         !.incoming = incoming, !.refreshed = refreshed, !.at = clock + 1]]
          BY <4>1 DEF Fetch, RefreshedBy
        <5> QED BY <1>0, <2>2, <5>1 DEF AfterFetch, Runs
      <4>2. CASE FetchNothing(i)
        BY <1>0, <2>2, <4>2 DEF FetchNothing, Runs
      <4> QED BY <2>7, <4>1, <4>2
    <3>2. run[i].prior # NoManifest => run[i].prior.at < clock + 1
      BY MaxClockAssumption DEF IInv, RunsOK, RunOK, StampsFresh, TypeOK, Manifests
    <3> QED BY <2>2, <3>1, <3>2
  <2> QED BY <1>2, <2>3, <2>4, <2>5, <2>6, <2>7 DEF IngestStep
<1>3. ASSUME NEW f \in Frames, Corrupt(f) PROVE StampFollowsPrior'
  BY <1>3 DEF Corrupt
<1> QED BY <1>1, <1>2, <1>3 DEF Next

LEMMA PriorPrecedesStep ==
  ASSUME IInv, StampFollowsPrior, PriorPrecedes, [Next]_vars
  PROVE  PriorPrecedes'
<1>1. CASE manifests' = manifests
  BY <1>1 DEF PriorPrecedes
<1>2. ASSUME NEW i \in Ingesters, WriteManifest(i) PROVE PriorPrecedes'
  <2>1. run[i] \in Runs /\ run[i].at # 0
    BY <1>2 DEF IInv, TypeOK, RunsOK, RunOK, WriteManifest, Fetched
  <2>2. ManifestOf(run[i]).prior < ManifestOf(run[i]).at
    BY <2>1, MaxClockAssumption DEF ManifestOf, StampFollowsPrior, Runs
  <2> QED BY <1>2, <2>2 DEF WriteManifest, PriorPrecedes
<1> QED BY <1>1, <1>2 DEF Next, vars, StartRun, IngestStep, LoadPrior, Fetch, FetchNothing,
           ArchiveRaw, CheckGuards, WriteParquet, Refuse, Abort, Corrupt

\* Where no series is refreshed, a publication is younger than the partition it
\* was merged with, however many processes publish in between.
THEOREM PriorIsOlder == ASSUME "series" \notin Modes PROVE Spec => []PriorPrecedes
<1>1. Init => StampFollowsPrior /\ PriorPrecedes
  BY DEF Init, StampFollowsPrior, PriorPrecedes, IdleRun
<1>2. IInv /\ StampFollowsPrior /\ PriorPrecedes /\ [Next]_vars => (StampFollowsPrior /\ PriorPrecedes)'
  BY StampFollowsPriorStep, PriorPrecedesStep
<1> QED BY <1>1, <1>2, StoreInvariant, PTL DEF Spec

-----------------------------------------------------------------------------
(* One ingest process: nothing is published between its read and its write *)

\* The prior a merging run has loaded, or knows to be missing.
Merging(r) == r.mode # "full" /\ (r.phase \in Fetched \/ (r.phase = "fetch" /\ r.mode = "incremental"))

LoneRunOK(r) ==
  /\ r.at # 0 => \A m \in manifests : m.at < r.at
  /\ r.mode = "full" => r.prior = NoManifest
  /\ Merging(r) => r.prior = IF manifests = {} THEN NoManifest ELSE Latest
  /\ r.phase \in {"parquet", "manifest"} /\ r.prior = NoManifest => SafeReplacement(r)

LoneInv == \A i \in Ingesters : LoneRunOK(run[i])

\* Where there is one process, every publication is its own.
LEMMA LoneStep ==
  ASSUME IInv, LoneInv, \A i, j \in Ingesters : i = j, [Next]_vars
  PROVE  LoneInv'
<1> USE DEF LoneInv
<1>0. run \in [Ingesters -> Runs]
  BY DEF IInv, TypeOK
<1>1. CASE UNCHANGED vars
  BY <1>1 DEF vars, LoneRunOK, SafeReplacement, Readable, Latest, Candidate
<1>2. ASSUME NEW i \in Ingesters, IngestStep(i) \/ Abort(i) \/ \E mode \in Modes : StartRun(i, mode)
      PROVE  LoneInv'
  <2> SUFFICES LoneRunOK(run[i])'
    OBVIOUS
  <2>0. run[i] \in Runs /\ RunOK(run[i]) /\ LoneRunOK(run[i])
    BY <1>0 DEF IInv, RunsOK
  <2>1. CASE Refuse(i) \/ Abort(i) \/ WriteManifest(i)
    <3>1. run'[i] = IdleRun
      BY <1>0, <2>1 DEF Refuse, Abort, WriteManifest
    <3> QED BY <3>1 DEF LoneRunOK, IdleRun, Merging, Fetched
  <2>2. ASSUME NEW mode \in Modes, StartRun(i, mode) PROVE LoneRunOK(run[i])'
    <3>1. run[i] = IdleRun /\ mode \in IngestModes
      BY <2>0, <2>2, ModesAssumption DEF RunOK, StartRun
    <3>2. /\ run'[i].at = 0 /\ run'[i].prior = NoManifest /\ run'[i].phase \in {"load", "fetch"}
          /\ run'[i].mode = mode /\ (run'[i].phase = "fetch" => mode # "incremental")
      BY <1>0, <2>0, <2>2, <3>1 DEF StartRun, IdleRun, FirstPhase, Runs
    <3> QED BY <3>2 DEF LoneRunOK, Merging, Fetched
  <2>3. CASE LoadPrior(i)
    <3>1. /\ run'[i].at = run[i].at /\ run'[i].mode = run[i].mode
          /\ run'[i].phase = AfterLoad(run[i].mode)
          /\ run'[i].prior = IF manifests = {} THEN run[i].prior ELSE Latest
          /\ UNCHANGED manifests
      BY <1>0, <2>0, <2>3 DEF LoadPrior, Runs
    <3>2. run[i].mode # "full" /\ run'[i].phase \in {"fetch", "archive"}
      BY <2>0, <2>3, <3>1 DEF RunOK, LoadPrior, AfterLoad
    <3>3. manifests = {} => run[i].prior = NoManifest
      BY <2>0 DEF RunOK
    <3> QED BY <2>0, <3>1, <3>2, <3>3 DEF LoneRunOK, Latest
  <2>4. CASE Fetch(i)
    <3>1. PICK incoming \in Frames, refreshed \in SUBSET Keys :
            run' = [run EXCEPT ![i] = [run[i] EXCEPT !.phase = AfterFetch(run[i].mode),
                     !.incoming = incoming, !.refreshed = refreshed, !.at = clock + 1]]
      BY <2>4 DEF Fetch, RefreshedBy
    <3>2. /\ run'[i].at = clock + 1 /\ run'[i].prior = run[i].prior /\ run'[i].mode = run[i].mode
          /\ run'[i].phase = AfterFetch(run[i].mode) /\ run[i].phase = "fetch"
          /\ UNCHANGED manifests
      BY <1>0, <2>0, <2>4, <3>1 DEF Fetch, Runs
    <3>3. \A m \in manifests : m.at < clock + 1
      BY MaxClockAssumption DEF IInv, StampsFresh, TypeOK, Manifests
    <3>4. run'[i].phase \in {"load", "archive"}
          /\ (run[i].mode # "full" /\ run'[i].phase = "archive" => run[i].mode = "incremental")
      BY <2>0, <3>2 DEF AfterFetch, Runs, IngestModes
    <3> QED BY <2>0, <3>2, <3>3, <3>4 DEF LoneRunOK, Merging, Fetched, Latest
  <2>5. CASE FetchNothing(i)
    <3>1. /\ run'[i].at = clock + 1 /\ run'[i].prior = run[i].prior /\ run'[i].mode = run[i].mode
          /\ run'[i].phase = "archive" /\ run[i].phase = "fetch" /\ run[i].mode = "incremental"
          /\ UNCHANGED manifests
      BY <1>0, <2>0, <2>5 DEF FetchNothing, Runs
    <3>2. \A m \in manifests : m.at < clock + 1
      BY MaxClockAssumption DEF IInv, StampsFresh, TypeOK, Manifests
    <3> QED BY <2>0, <3>1, <3>2 DEF LoneRunOK, Merging, Latest
  <2>6. CASE ArchiveRaw(i) \/ CheckGuards(i) \/ WriteParquet(i)
    <3>1. /\ run'[i].at = run[i].at /\ run'[i].prior = run[i].prior /\ run'[i].mode = run[i].mode
          /\ run'[i].incoming = run[i].incoming /\ run'[i].refreshed = run[i].refreshed
          /\ run[i].phase \in Fetched /\ run'[i].phase \in Fetched /\ UNCHANGED <<manifests, damaged>>
      BY <1>0, <2>0, <2>6 DEF ArchiveRaw, CheckGuards, WriteParquet, Runs, Fetched
    <3>2. manifests # {} => Latest \in manifests /\ Latest.frame \in parquet
      BY LatestPublished DEF IInv, NoDanglingManifest
    <3>3. Candidate(run'[i]) = Candidate(run[i]) /\ Candidate(run[i])' = Candidate(run'[i])
      BY <3>1 DEF Candidate
    <3>4. run'[i].phase \in {"parquet", "manifest"} /\ run'[i].prior = NoManifest => SafeReplacement(run[i])
      BY <1>0, <2>0, <2>6, <3>1 DEF ArchiveRaw, CheckGuards, WriteParquet, LoneRunOK, PassesGuards, Runs
    <3>5. SafeReplacement(run[i]) => SafeReplacement(run[i])'
      BY <3>1, <3>2, <3>3 DEF SafeReplacement, Readable, Latest
    <3> QED BY <2>0, <3>1, <3>4, <3>5 DEF LoneRunOK, Merging, Latest
  <2> QED BY <1>2, <2>1, <2>2, <2>3, <2>4, <2>5, <2>6 DEF IngestStep
<1>3. ASSUME NEW f \in Frames, Corrupt(f) PROVE LoneInv'
  BY <1>3 DEF Corrupt, LoneRunOK, SafeReplacement, Readable, Latest, Candidate
<1> QED BY <1>1, <1>2, <1>3 DEF Next

LEMMA LoneInvariant == ASSUME \A i, j \in Ingesters : i = j PROVE Spec => []LoneInv
<1>1. Init => LoneInv
  BY DEF Init, LoneInv, LoneRunOK, IdleRun, Merging, Fetched
<1>2. IInv /\ LoneInv /\ [Next]_vars => LoneInv'
  BY LoneStep
<1> QED BY <1>1, <1>2, StoreInvariant, PTL DEF Spec

\* A lone run that publishes becomes the newest partition.
LEMMA PublishedIsServed ==
  ASSUME IInv, LoneInv, [Next]_vars, NEW i \in Ingesters, Publishes(i), \A j \in Ingesters : j = i
  PROVE  /\ run[i] \in Runs /\ run[i].phase = "manifest" /\ LoneRunOK(run[i])
         /\ Served(manifests') = DOMAIN Candidate(run[i])
<1> DEFINE m == ManifestOf(run[i])
<1>1. WriteManifest(i)
  BY DEF Publishes, Next, vars, StartRun, IngestStep, LoadPrior, Fetch, FetchNothing,
         ArchiveRaw, CheckGuards, WriteParquet, Refuse, Abort, Corrupt
<1>2. /\ run[i] \in Runs /\ run[i].phase = "manifest" /\ LoneRunOK(run[i])
      /\ manifests' = manifests \cup {m}
      /\ m.at = run[i].at /\ m.frame = Candidate(run[i]) /\ run[i].at # 0
  BY <1>1 DEF IInv, TypeOK, LoneInv, RunsOK, RunOK, Fetched, WriteManifest, ManifestOf
<1>3. /\ \A n \in manifests : n.at \in Nat /\ n.at < m.at
      /\ m.at \in Nat
  BY <1>2, MaxClockAssumption DEF LoneRunOK, IInv, TypeOK, Manifests, Runs
<1>4. \A x \in manifests' : (\A n \in manifests' : n.at =< x.at) <=> x = m
  BY <1>2, <1>3
<1>5. Newest(manifests') = m
  BY <1>2, <1>4 DEF Newest
<1> QED BY <1>2, <1>5 DEF Served

\* With one ingest process, a merging run never costs the served view a key
\* outside the series it refreshed.
THEOREM LoneRunsKeepKeys == ASSUME \A i, j \in Ingesters : i = j PROVE Spec => ServedKeysKept
<1> DEFINE Kept == \A i \in Ingesters : Publishes(i) /\ run[i].mode # "full" =>
                     (Served(manifests) \ run[i].refreshed) \subseteq Served(manifests')
<1>1. IInv /\ LoneInv /\ [Next]_vars => Kept
  <2> SUFFICES ASSUME IInv, LoneInv, [Next]_vars, NEW i \in Ingesters, Publishes(i), run[i].mode # "full"
               PROVE  (Served(manifests) \ run[i].refreshed) \subseteq Served(manifests')
    OBVIOUS
  <2>0. /\ run[i] \in Runs /\ run[i].phase = "manifest" /\ LoneRunOK(run[i])
        /\ Served(manifests') = DOMAIN Candidate(run[i])
    BY PublishedIsServed
  <2>1. Merging(run[i])
    BY <2>0 DEF Merging, Fetched
  <2>2. CASE manifests = {}
    BY <2>2 DEF Served
  <2>3. CASE manifests # {}
    <3>1. run[i].prior = Latest /\ run[i].prior \in manifests
      BY <2>0, <2>1, <2>3, LatestPublished DEF LoneRunOK
    <3>2. run[i].prior # NoManifest /\ run[i].prior.frame \in PartialFrames /\ run[i].incoming \in PartialFrames
      BY <2>0, <3>1, NoManifestAssumption DEF IInv, TypeOK, Runs, Manifests, Frames
    <3>3. DOMAIN Candidate(run[i]) = (DOMAIN run[i].prior.frame \ run[i].refreshed) \cup DOMAIN run[i].incoming
      BY <3>2, MergeFacts DEF Candidate
    <3> QED BY <2>0, <2>3, <3>1, <3>3 DEF Served, Latest
  <2> QED BY <2>2, <2>3
<1>2. [][Kept]_vars => ServedKeysKept
  BY PTL DEF ServedKeysKept
<1>3. IInv /\ LoneInv /\ [Next]_vars => [Kept]_vars
  BY <1>1
<1> QED BY <1>2, <1>3, StoreInvariant, LoneInvariant, PTL DEF Spec

\* Without damaged files, a lone full replacement the shrink guard covers never
\* leaves a panel of MinPriorRows rows with less than half of them.
THEOREM LoneRunsKeepPanel ==
  ASSUME \A i, j \in Ingesters : i = j, ShrinkGuarded, MaxDamage = 0, IsFiniteSet(Keys)
  PROVE  Spec => PanelNotDemoted
<1> DEFINE Undemoted == \A i \in Ingesters : Publishes(i) /\ run[i].prior = NoManifest =>
             \/ Cardinality(Served(manifests)) < MinPriorRows
             \/ 2 * Cardinality(Served(manifests')) >= Cardinality(Served(manifests))
<1>1. Init => damaged = {}
  BY DEF Init
<1>2. damaged = {} /\ [Next]_vars => (damaged = {})'
  <2>1. \A f \in Frames : damaged = {} => ~Corrupt(f)
    BY FS_EmptySet DEF Corrupt
  <2> QED BY <2>1 DEF Next, vars, StartRun, IngestStep, LoadPrior, Fetch, FetchNothing, ArchiveRaw,
                      CheckGuards, WriteParquet, WriteManifest, Refuse, Abort
<1>3. IInv /\ LoneInv /\ damaged = {} /\ [Next]_vars => Undemoted
  <2> SUFFICES ASSUME IInv, LoneInv, damaged = {}, [Next]_vars, NEW i \in Ingesters,
                      Publishes(i), run[i].prior = NoManifest
               PROVE  \/ Cardinality(Served(manifests)) < MinPriorRows
                      \/ 2 * Cardinality(Served(manifests')) >= Cardinality(Served(manifests))
    OBVIOUS
  <2>1. /\ run[i] \in Runs /\ run[i].phase = "manifest" /\ LoneRunOK(run[i])
        /\ Served(manifests') = DOMAIN Candidate(run[i])
    BY PublishedIsServed
  <2>2. Candidate(run[i]) \in PartialFrames
    BY <2>1 DEF Candidate, Runs
  <2>3. Cardinality(Served(manifests')) \in Nat
    BY <2>1, <2>2, PartialFrameFacts, FS_Subset, FS_CardinalityType
  <2>4. CASE manifests = {}
    BY <2>3, <2>4, FS_EmptySet DEF Served
  <2>5. CASE manifests # {}
    <3>1. Latest \in manifests /\ Readable(Latest) /\ Latest.frame \in PartialFrames
      BY <2>5, LatestPublished DEF IInv, NoDanglingManifest, Readable, TypeOK, Manifests, Frames
    <3>2. IsFiniteSet(Served(manifests)) /\ Served(manifests) = DOMAIN Latest.frame
      BY <2>5, <3>1, PartialFrameFacts, FS_Subset DEF Served, Latest
    <3>3. Cardinality(Served(manifests)) \in Nat
      BY <3>2, FS_CardinalityType
    <3>4. SafeReplacement(run[i])
      BY <2>1 DEF LoneRunOK
    <3>5. Cardinality(Served(manifests)) >= MinPriorRows
            => 2 * Cardinality(DOMAIN Candidate(run[i])) >= Cardinality(Served(manifests))
      BY <2>5, <3>1, <3>2, <3>4 DEF SafeReplacement
    <3> QED BY <2>1, <3>3, <3>5, BoundsAssumption
  <2> QED BY <2>4, <2>5
<1>4. IInv /\ LoneInv /\ damaged = {} /\ [Next]_vars => [Undemoted]_vars
  BY <1>3
<1>5. [][Undemoted]_vars => PanelNotDemoted
  BY PTL DEF PanelNotDemoted
<1> QED BY <1>1, <1>2, <1>4, <1>5, StoreInvariant, LoneInvariant, PTL DEF Spec

-----------------------------------------------------------------------------
(* The catalog order *)

\* latest_artifact finds a newest manifest in every nonempty directory.
LEMMA NewestIs ==
  ASSUME NEW S, S \subseteq Manifests, S # {}
  PROVE  Newest(S) \in S /\ \A n \in S : n.at =< Newest(S).at
<1> DEFINE T == {MaxClock - m.at : m \in S}
<1>1. \A m \in S : m.at \in 1 .. MaxClock
  BY DEF Manifests
<1>2. T \subseteq Nat /\ T # {}
  BY <1>1, MaxClockAssumption
<1>3. PICK x \in T : \A y \in T : x =< y
  <2> HIDE DEF T
  <2> QED BY <1>2, LeastNatural
<1>4. PICK m \in S : x = MaxClock - m.at
  BY <1>3
<1>5. ASSUME NEW n \in S PROVE n.at =< m.at
  <2>1. MaxClock - m.at =< MaxClock - n.at
    BY <1>3, <1>4
  <2>2. m.at \in Nat /\ n.at \in Nat
    BY <1>1
  <2> QED BY <2>1, <2>2, MaxClockAssumption
<1> QED BY <1>5 DEF Newest

\* apply_prune finds an oldest manifest in every nonempty plan.
LEMMA OldestIs ==
  ASSUME NEW S, S \subseteq Manifests, S # {}
  PROVE  \E m \in S : \A n \in S : m.at =< n.at
<1> DEFINE T == {m.at : m \in S}
<1>1. T \subseteq Nat /\ T # {}
  BY DEF Manifests
<1>2. PICK x \in T : \A y \in T : x =< y
  <2> HIDE DEF T
  <2> QED BY <1>1, LeastNatural
<1> QED BY <1>2

\* The newest stays the newest while others are removed.
LEMMA NewestStays ==
  ASSUME NEW S, S \subseteq Manifests, \A m, n \in S : m.at = n.at => m = n,
         NEW T, T \subseteq S, Newest(S) \in T
  PROVE  Newest(T) = Newest(S)
BY NewestIs DEF Manifests

\* A publication stamped after all others is the newest.
LEMMA NewestAdded ==
  ASSUME NEW S, S \subseteq Manifests, NEW m \in Manifests, \A n \in S : n.at < m.at
  PROVE  Newest(S \cup {m}) = m
BY NewestIs DEF Manifests

-----------------------------------------------------------------------------
(* The inductive invariant *)

\* The maintenance command in progress and its plan.
Commands ==
  {IdleOp}
  \cup [phase : {"recover"}, latest : 1 .. MaxClock, frame : Frames]
  \cup [phase : {"publish", "publish_manifest"}, damaged : Manifests \cup {NoManifest},
        sources : SUBSET Manifests, manifest : Manifests]
  \cup [phase : {"unlink_manifest", "unlink_parquet"}, damaged : Manifests, sources : SUBSET Manifests]
  \cup [phase : {"doctor"}, repair : {"healthy", "missing_bronze", "damaged_silver"},
        target : Manifests, stems : SUBSET Manifests]
  \cup [phase : {"inspect"}]
  \cup [phase : {"prune", "prune_parquet"}, drop : SUBSET Manifests, keep : SUBSET Frames,
        bronze : SUBSET PartialFrames]

Typed ==
  /\ TypeOK
  /\ op \in Commands
  /\ snapshot \in Manifests \cup {NoManifest}
  /\ evidence \subseteq 1 .. MaxClock
  /\ faults \in 0 .. MaxFaults

NoRuns == \A i \in Ingesters : run[i].phase = "idle"

\* The discipline: a maintenance command, an analysis and ingest exclude one another.
Alone ==
  /\ op.phase # "idle" => snapshot = NoManifest /\ NoRuns
  /\ snapshot # NoManifest => NoRuns

\* What a run's memory owes to itself, whatever became of the files.
Remembers(r) ==
  /\ r.phase = "idle" => r = IdleRun
  /\ r.phase \in Fetched => Candidate(r) \in Frames /\ r.at # 0
  /\ r.phase = "load" => r.mode # "full"
  /\ r.phase = "load" /\ r.mode = "series" => r.incoming \in Frames /\ r.at # 0
  /\ r.phase = "load" /\ r.mode = "incremental" => r.refreshed = {}
  /\ r.phase = "fetch" => r.refreshed = {}
Remembering == \A i \in Ingesters : Remembers(run[i])

\* What a prune has still to drop.
Left == IF op.phase = "prune" THEN op.drop ELSE op.drop \ {NextDropped}

\* The plan a command applies still fits the directory it planned from.
Planned ==
  /\ op.phase = "recover" => manifests # {} /\ HistoryKeys \subseteq DOMAIN op.frame
  /\ op.phase \in {"publish", "publish_manifest"} =>
       /\ op.manifest.at = clock /\ \A m \in manifests : m.at < clock
       /\ HistoryKeys \subseteq DOMAIN op.manifest.frame
  /\ op.phase \in {"prune", "prune_parquet"} =>
       /\ manifests # {}
       /\ Left \subseteq manifests /\ Left \cap Retained = {}
       /\ manifests \subseteq Retained \cup Left
       /\ raw \subseteq {Latest.raw} \cup op.bronze
       /\ \A m \in Retained : m.frame \in op.keep
  /\ op.phase = "prune_parquet" => op.drop # {}

Ordered == Typed /\ Alone /\ StampsFresh /\ StampsUnique /\ Remembering /\ Planned

\* Where no file rots or vanishes: what must be readable is, a run that is about
\* to publish has written its data, and no command has a partition to rebuild.
Intact ==
  /\ damaged = {}
  /\ NewestServable
  /\ EvidenceServable
  /\ \A i \in Ingesters : run[i].phase = "manifest" => Candidate(run[i]) \in parquet
  /\ op.phase = "doctor" => op.repair # "damaged_silver"
  /\ op.phase \in {"publish", "publish_manifest"} =>
       op.damaged = NoManifest /\ Served(manifests) \subseteq DOMAIN op.manifest.frame
  /\ op.phase = "publish_manifest" => op.manifest.frame \in parquet
  /\ op.phase \notin {"unlink_manifest", "unlink_parquet"}

-----------------------------------------------------------------------------
(* Ingest *)

\* A run's memory stays in order, whatever it does next.
LEMMA MemoryStep ==
  ASSUME TypeOK, Remembering, NEW i \in Ingesters,
         IngestStep(i) \/ Abort(i) \/ \E mode \in Modes : StartRun(i, mode)
  PROVE  /\ run' \in [Ingesters -> Runs] /\ Remembers(run[i])'
         /\ \A j \in Ingesters \ {i} : run'[j] = run[j]
<1>0. run \in [Ingesters -> Runs] /\ run[i] \in Runs /\ Remembers(run[i]) /\ clock \in 0 .. MaxClock
  BY DEF TypeOK, Remembering
<1>1. \A j \in Ingesters \ {i} : run'[j] = run[j]
  BY <1>0, OwnStep
<1>2. SUFFICES \E r \in Runs : run' = [run EXCEPT ![i] = r] /\ Remembers(r)
  BY <1>0, <1>1 DEF Remembers, Candidate
<1>3. CASE Refuse(i) \/ Abort(i) \/ WriteManifest(i)
  BY <1>3, IdleRunFacts DEF Refuse, Abort, WriteManifest, Remembers, IdleRun, Fetched
<1>4. ASSUME NEW mode \in Modes, StartRun(i, mode)
      PROVE  \E r \in Runs : run' = [run EXCEPT ![i] = r] /\ Remembers(r)
  <2> DEFINE r == [run[i] EXCEPT !.phase = FirstPhase(mode), !.mode = mode]
  <2>1. run[i] = IdleRun /\ mode \in IngestModes
    BY <1>0, <1>4, ModesAssumption DEF Remembers, StartRun
  <2>2. r \in Runs /\ run' = [run EXCEPT ![i] = r]
    BY <1>0, <1>4, <2>1 DEF StartRun, Runs, Phases, FirstPhase
  <2>3. r.phase \in {"load", "fetch"} /\ (r.phase = "load" => r.mode = "incremental") /\ r.refreshed = {}
    BY <2>1 DEF FirstPhase, IdleRun
  <2>4. Remembers(r)
    <3> HIDE DEF r
    <3> QED BY <2>3 DEF Remembers, Fetched
  <2> QED BY <2>2, <2>4
<1>5. CASE LoadPrior(i)
  <2> DEFINE after == AfterLoad(run[i].mode)
  <2>1. run[i].phase = "load"
    BY <1>5 DEF LoadPrior
  <2>2. \/ run[i].mode = "incremental" /\ after = "fetch"
        \/ run[i].mode = "series" /\ after = "archive"
    BY <1>0, <2>1 DEF Remembers, AfterLoad, Runs, IngestModes
  <2>3. PICK p \in Manifests \cup {NoManifest} :
          run' = [run EXCEPT ![i] = [run[i] EXCEPT !.phase = after, !.prior = p]]
    <3>1. CASE manifests = {}
      <4>1. [run[i] EXCEPT !.phase = after, !.prior = run[i].prior] = [run[i] EXCEPT !.phase = after]
        BY <1>0 DEF Runs
      <4>2. run[i].prior \in Manifests \cup {NoManifest}
        BY <1>0 DEF Runs
      <4> QED BY <1>5, <3>1, <4>1, <4>2 DEF LoadPrior
    <3>2. CASE manifests # {}
      <4>1. Latest \in Manifests
        BY <3>2, NewestIs DEF Latest, TypeOK
      <4> QED BY <1>5, <3>2, <4>1 DEF LoadPrior
    <3> QED BY <3>1, <3>2
  <2> DEFINE r == [run[i] EXCEPT !.phase = after, !.prior = p]
  <2>4. r \in Runs
    BY <1>0, <2>2, <2>3 DEF Runs, Phases
  <2>5. /\ r.phase = after /\ r.mode = run[i].mode /\ r.at = run[i].at
        /\ r.incoming = run[i].incoming /\ r.refreshed = run[i].refreshed
    BY <1>0 DEF Runs
  <2>6. after = "archive" => Candidate(r) \in Frames /\ r.at # 0
    BY <1>0, <2>1, <2>2, <2>4, <2>5, CandidateOfLoaded DEF Remembers
  <2>7. Remembers(r)
    <3> HIDE DEF r, after
    <3> QED BY <1>0, <2>1, <2>2, <2>5, <2>6 DEF Remembers, Fetched
  <2> QED BY <2>3, <2>4, <2>7
<1>6. CASE Fetch(i)
  <2> DEFINE after == AfterFetch(run[i].mode)
  <2>1. PICK incoming \in Frames, refreshed \in SUBSET Keys :
          /\ refreshed \in RefreshedBy(run[i].mode, incoming)
          /\ run' = [run EXCEPT ![i] = [run[i] EXCEPT !.phase = after, !.incoming = incoming,
                                                      !.refreshed = refreshed, !.at = clock + 1]]
    BY <1>6 DEF Fetch, RefreshedBy
  <2> DEFINE r == [run[i] EXCEPT !.phase = after, !.incoming = incoming,
                                 !.refreshed = refreshed, !.at = clock + 1]
  <2>2. incoming \in PartialFrames
    BY DEF Frames
  <2>3. after \in {"load", "archive"} /\ (after = "load" => run[i].mode = "series")
    BY DEF AfterFetch
  <2>4. clock + 1 \in 0 .. MaxClock /\ clock + 1 # 0
    BY <1>0, <1>6, MaxClockAssumption DEF Fetch
  <2>5. r \in Runs
    BY <1>0, <2>2, <2>3, <2>4 DEF Runs, Phases
  <2>6. /\ r.phase = after /\ r.mode = run[i].mode /\ r.at # 0
        /\ r.incoming = incoming /\ r.refreshed = refreshed
    BY <1>0, <2>4 DEF Runs
  <2>7. Candidate(r) \in Frames
    BY <2>5, <2>6, CandidateOfLoaded
  <2>8. Remembers(r)
    <3> HIDE DEF r, after
    <3> QED BY <2>3, <2>6, <2>7 DEF Remembers, Fetched
  <2> QED BY <2>1, <2>5, <2>8
<1>7. CASE FetchNothing(i)
  <2> DEFINE r == [run[i] EXCEPT !.phase = "archive", !.incoming = EmptyFrame, !.at = clock + 1]
  <2>1. run[i].phase = "fetch" /\ run[i].prior # NoManifest /\ run' = [run EXCEPT ![i] = r]
    BY <1>7 DEF FetchNothing
  <2>2. clock + 1 \in 0 .. MaxClock /\ clock + 1 # 0
    BY <1>0, <1>7, MaxClockAssumption DEF FetchNothing
  <2>3. EmptyFrame \in PartialFrames
    BY IdleRunFacts DEF IdleRun, Runs
  <2>4. r \in Runs
    BY <1>0, <2>2, <2>3 DEF Runs, Phases
  <2>5. r.phase = "archive" /\ r.at # 0 /\ r.refreshed = run[i].refreshed /\ r.prior = run[i].prior
    BY <1>0, <2>2 DEF Runs
  <2>6. Candidate(r) \in Frames
    BY <1>0, <2>1, <2>4, <2>5, CandidateOfLoaded DEF Remembers
  <2>7. Remembers(r)
    <3> HIDE DEF r
    <3> QED BY <2>5, <2>6 DEF Remembers, Fetched
  <2> QED BY <2>1, <2>4, <2>7
<1>8. CASE ArchiveRaw(i) \/ CheckGuards(i) \/ WriteParquet(i)
  <2>1. PICK to \in {"check", "parquet", "manifest"} : run' = [run EXCEPT ![i] = [run[i] EXCEPT !.phase = to]]
    BY <1>8 DEF ArchiveRaw, CheckGuards, WriteParquet
  <2> DEFINE r == [run[i] EXCEPT !.phase = to]
  <2>2. r \in Runs /\ r.phase = to /\ r.at = run[i].at /\ run[i].phase \in Fetched
    BY <1>0, <1>8 DEF Runs, Phases, ArchiveRaw, CheckGuards, WriteParquet, Fetched
  <2>3. Candidate(r) = Candidate(run[i])
    BY <1>0 DEF Candidate, Runs
  <2>4. Remembers(r)
    <3> HIDE DEF r
    <3> QED BY <1>0, <2>2, <2>3 DEF Remembers
  <2> QED BY <2>1, <2>2, <2>4
<1> QED BY <1>3, <1>4, <1>5, <1>6, <1>7, <1>8 DEF IngestStep

\* What a step of a run leaves on the disk and of the clock.
LEMMA IngestKinds ==
  ASSUME TypeOK, Remembering, NEW i \in Ingesters,
         IngestStep(i) \/ Abort(i) \/ \E mode \in Modes : StartRun(i, mode)
  PROVE  /\ raw' \subseteq PartialFrames
         /\ parquet \subseteq parquet' /\ parquet' \subseteq Frames /\ damaged' = damaged
         /\ \/ manifests' = manifests /\ clock' = clock /\ run'[i].at \in {0, run[i].at}
            \/ /\ manifests' = manifests /\ clock < MaxClock /\ clock' = clock + 1 /\ run'[i].at = clock + 1
               /\ run'[i].phase # "manifest"
            \/ /\ run[i].phase = "manifest" /\ ManifestOf(run[i]) \in Manifests /\ ManifestOf(run[i]).at = run[i].at
               /\ manifests' = manifests \cup {ManifestOf(run[i])} /\ parquet' = parquet /\ clock' = clock
               /\ run'[i] = IdleRun
         /\ run'[i].phase = "manifest" => Candidate(run'[i]) \in parquet'
<1>0. run \in [Ingesters -> Runs] /\ run[i] \in Runs /\ Remembers(run[i]) /\ clock \in 0 .. MaxClock
      /\ raw \subseteq PartialFrames /\ parquet \subseteq Frames
  BY DEF TypeOK, Remembering
<1>1. CASE Refuse(i) \/ Abort(i)
  <2>1. run'[i] = IdleRun /\ UNCHANGED <<raw, parquet, damaged, manifests, clock>>
    BY <1>0, <1>1 DEF Refuse, Abort
  <2> QED BY <1>0, <2>1 DEF IdleRun
<1>2. CASE WriteManifest(i)
  <2>1. /\ run'[i] = IdleRun /\ UNCHANGED <<raw, parquet, damaged, clock>>
        /\ run[i].phase = "manifest" /\ manifests' = manifests \cup {ManifestOf(run[i])}
    BY <1>0, <1>2 DEF WriteManifest
  <2>2. Candidate(run[i]) \in Frames /\ run[i].at \in 1 .. MaxClock
    BY <1>0, <2>1, MaxClockAssumption DEF Remembers, Fetched, Runs
  <2>3. (IF run[i].prior = NoManifest THEN 0 ELSE run[i].prior.at) \in 0 .. MaxClock
    BY <1>0, MaxClockAssumption DEF Runs, Manifests
  <2>4. ManifestOf(run[i]) \in Manifests /\ ManifestOf(run[i]).at = run[i].at
    BY <1>0, <2>2, <2>3 DEF ManifestOf, Manifests, Runs
  <2> QED BY <1>0, <2>1, <2>4 DEF IdleRun
<1>3. ASSUME NEW mode \in Modes, StartRun(i, mode)
      PROVE  /\ UNCHANGED <<raw, parquet, damaged, manifests, clock>>
             /\ run'[i].at = run[i].at /\ run'[i].phase # "manifest"
  BY <1>0, <1>3 DEF StartRun, FirstPhase, Runs
<1>4. CASE LoadPrior(i)
  BY <1>0, <1>4 DEF LoadPrior, AfterLoad, Runs
<1>5. CASE Fetch(i) \/ FetchNothing(i)
  <2>1. PICK to \in {"load", "archive"}, incoming \in PartialFrames, refreshed \in SUBSET Keys :
          run' = [run EXCEPT ![i] = [run[i] EXCEPT !.phase = to, !.incoming = incoming,
                                                   !.refreshed = refreshed, !.at = clock + 1]]
    <3>1. CASE Fetch(i)
      BY <3>1 DEF Fetch, RefreshedBy, AfterFetch, Frames
    <3>2. CASE FetchNothing(i)
      <4>1. EmptyFrame \in PartialFrames
        BY IdleRunFacts DEF IdleRun, Runs
      <4>2. run' = [run EXCEPT ![i] = [run[i] EXCEPT !.phase = "archive", !.incoming = EmptyFrame,
                                                     !.refreshed = run[i].refreshed, !.at = clock + 1]]
        BY <1>0, <3>2 DEF FetchNothing, Runs
      <4> QED BY <1>0, <4>1, <4>2 DEF Runs
    <3> QED BY <1>5, <3>1, <3>2
  <2>2. run'[i].at = clock + 1 /\ run'[i].phase # "manifest"
    BY <1>0, <2>1 DEF Runs
  <2>3. clock < MaxClock /\ clock' = clock + 1 /\ UNCHANGED <<raw, parquet, damaged, manifests>>
    BY <1>5 DEF Fetch, FetchNothing
  <2> QED BY <1>0, <2>2, <2>3
<1>6. CASE ArchiveRaw(i) \/ CheckGuards(i)
  BY <1>0, <1>6 DEF ArchiveRaw, CheckGuards, Runs
<1>7. CASE WriteParquet(i)
  <2>1. /\ UNCHANGED <<raw, damaged, manifests, clock>> /\ parquet' = parquet \cup {Candidate(run[i])}
        /\ run'[i] = [run[i] EXCEPT !.phase = "manifest"] /\ run[i].phase = "parquet"
    BY <1>0, <1>7 DEF WriteParquet
  <2>2. run'[i].at = run[i].at /\ Candidate(run'[i]) = Candidate(run[i]) /\ Candidate(run[i]) \in Frames
    BY <1>0, <2>1 DEF Candidate, Runs, Remembers, Fetched
  <2> QED BY <1>0, <2>1, <2>2
<1> QED BY <1>0, <1>1, <1>2, <1>3, <1>4, <1>5, <1>6, <1>7 DEF IngestStep

\* Stamps stay unique to a manifest or a run.
LEMMA StampsStep ==
  ASSUME Typed, StampsFresh, StampsUnique, Remembering, NEW i \in Ingesters,
         IngestStep(i) \/ Abort(i) \/ \E mode \in Modes : StartRun(i, mode)
  PROVE  StampsFresh' /\ StampsUnique'
<1>0. /\ run' \in [Ingesters -> Runs] /\ \A j \in Ingesters \ {i} : run'[j] = run[j]
      /\ run[i].phase = "manifest" => run[i].at # 0
  BY MemoryStep DEF Typed, Remembering, Remembers, Fetched
<1>1. /\ clock \in Nat /\ \A m \in manifests : m.at \in Nat /\ m.at # 0
      /\ \A j \in Ingesters : run[j].at \in Nat
  BY MaxClockAssumption DEF Typed, TypeOK, Manifests, Runs
<1>2. CASE manifests' = manifests /\ clock' = clock /\ run'[i].at \in {0, run[i].at}
  <2>1. \A j \in Ingesters : run'[j].at \in {0, run[j].at}
    BY <1>0, <1>2
  <2> QED BY <1>1, <1>2, <2>1 DEF StampsFresh, StampsUnique
<1>3. CASE manifests' = manifests /\ clock < MaxClock /\ clock' = clock + 1 /\ run'[i].at = clock + 1
  <2>1. \A j \in Ingesters \ {i} : run'[j].at =< clock /\ run'[j].at \in Nat /\ run'[j].at = run[j].at
    BY <1>0, <1>1 DEF StampsFresh
  <2> QED BY <1>0, <1>1, <1>3, <2>1 DEF StampsFresh, StampsUnique
<1>4. ASSUME run[i].phase = "manifest", NEW m \in Manifests, m.at = run[i].at,
             manifests' = manifests \cup {m}, clock' = clock, run'[i] = IdleRun
      PROVE  StampsFresh' /\ StampsUnique'
  <2>1. run'[i].at = 0 /\ m.at # 0 /\ m.at \in Nat
    BY <1>0, <1>1, <1>4, IdleRunFacts
  <2>2. \A n \in manifests : n.at # m.at
    BY <1>4 DEF StampsFresh
  <2>3. StampsUnique'
    BY <1>4, <2>2 DEF StampsUnique
  <2>4. \A n \in manifests' : n.at =< clock'
    BY <1>4 DEF StampsFresh
  <2>5. \A j \in Ingesters : run'[j].at =< clock' /\ run'[j].at \in {0, run[j].at}
    BY <1>0, <1>1, <1>4, <2>1 DEF StampsFresh
  <2>6. ASSUME NEW j \in Ingesters, NEW n \in manifests' PROVE run'[j].at # n.at
    <3>1. CASE j = i
      BY <1>1, <1>4, <2>1, <3>1
    <3>2. CASE j # i
      BY <1>0, <3>2, <1>4, <2>1 DEF StampsFresh
    <3> QED BY <3>1, <3>2
  <2>7. \A j, k \in Ingesters : run'[j].at # 0 /\ run'[j].at = run'[k].at => j = k
    BY <2>5 DEF StampsFresh
  <2> QED BY <2>3, <2>4, <2>5, <2>6, <2>7 DEF StampsFresh
<1> QED BY <1>2, <1>3, <1>4, IngestKinds DEF Typed

\* Who starts, steps or ends an ingest run, with no other command about.
LEMMA WhoIngests ==
  ASSUME OneCommand = TRUE, Ingest
  PROVE  /\ op.phase = "idle" /\ snapshot = NoManifest /\ UNCHANGED mvars
         /\ \E i \in Ingesters : IngestStep(i) \/ Abort(i) \/ \E mode \in Modes : StartRun(i, mode)
BY DEF Ingest

LEMMA IngestOrdered ==
  ASSUME Ordered, OneCommand = TRUE, Ingest
  PROVE  Ordered'
<1>1. op.phase = "idle" /\ snapshot = NoManifest /\ UNCHANGED <<op, snapshot, evidence, faults>>
  BY WhoIngests DEF mvars
<1>2. PICK i \in Ingesters : IngestStep(i) \/ Abort(i) \/ \E mode \in Modes : StartRun(i, mode)
  BY WhoIngests
<1>3. /\ run' \in [Ingesters -> Runs] /\ Remembers(run[i])'
      /\ \A j \in Ingesters \ {i} : run'[j] = run[j]
  BY <1>2, MemoryStep DEF Ordered, Typed
<1>4. StampsFresh' /\ StampsUnique'
  BY <1>2, StampsStep DEF Ordered
<1>5. /\ raw' \subseteq PartialFrames /\ damaged' \subseteq parquet' /\ parquet' \subseteq Frames
      /\ manifests' \subseteq Manifests /\ clock' \in 0 .. MaxClock
  <2>1. TypeOK /\ Remembering
    BY DEF Ordered, Typed
  <2>2. /\ raw' \subseteq PartialFrames
        /\ parquet \subseteq parquet' /\ parquet' \subseteq Frames /\ damaged' = damaged
        /\ clock' = clock \/ (clock < MaxClock /\ clock' = clock + 1)
        /\ manifests' \subseteq manifests \cup Manifests
    BY <1>2, <2>1, IngestKinds
  <2> QED BY <2>1, <2>2, MaxClockAssumption DEF TypeOK
<1>6. Typed'
  BY <1>1, <1>3, <1>5 DEF Ordered, Typed, TypeOK
<1>7. Alone' /\ Planned'
  BY <1>1 DEF Alone, Planned
<1>8. Remembering'
  BY <1>3 DEF Ordered, Remembering, Remembers, Candidate
<1> QED BY <1>4, <1>6, <1>7, <1>8 DEF Ordered

\* A publication stamped while others were made is the newest or leaves the
\* newest as it was.
LEMMA NewestAfter ==
  ASSUME NEW S, S \subseteq Manifests, NEW m \in Manifests,
         \A n, k \in S \cup {m} : n.at = k.at => n = k
  PROVE  Newest(S \cup {m}) = m \/ (S # {} /\ Newest(S \cup {m}) = Newest(S))
<1> DEFINE T == S \cup {m}
<1>1. T \subseteq Manifests /\ T # {} /\ S \subseteq T /\ \A n, k \in T : n.at = k.at => n = k
  OBVIOUS
<1>2. Newest(T) \in S \/ Newest(T) = m
  <2>1. Newest(T) \in T
    <3> HIDE DEF T
    <3> QED BY <1>1, NewestIs
  <2> QED BY <2>1
<1>3. CASE Newest(T) \in S
  <2>1. Newest(S) = Newest(T)
    <3> HIDE DEF T
    <3> QED BY <1>1, <1>3, NewestStays
  <2> QED BY <1>3, <2>1
<1> QED BY <1>2, <1>3

LEMMA IngestIntact ==
  ASSUME Ordered, Ordered', Intact, OneCommand = TRUE, Ingest
  PROVE  Intact'
<1>1. op.phase = "idle" /\ UNCHANGED <<op, snapshot, evidence, faults>>
  BY WhoIngests DEF mvars
<1>2. PICK i \in Ingesters : IngestStep(i) \/ Abort(i) \/ \E mode \in Modes : StartRun(i, mode)
  BY WhoIngests
<1>3. TypeOK /\ Remembering /\ manifests \subseteq Manifests
  BY DEF Ordered, Typed, TypeOK
<1>4. \A j \in Ingesters \ {i} : run'[j] = run[j]
  BY <1>2, <1>3, MemoryStep
<1>5. /\ parquet \subseteq parquet' /\ damaged' = {}
      /\ \/ manifests' = manifests
         \/ /\ run[i].phase = "manifest" /\ ManifestOf(run[i]) \in Manifests
            /\ manifests' = manifests \cup {ManifestOf(run[i])}
      /\ run'[i].phase = "manifest" => Candidate(run'[i]) \in parquet'
  BY <1>2, <1>3, IngestKinds DEF Intact
<1>6. manifests \subseteq manifests' /\ \A m \in manifests : Readable(m) => Readable(m)'
  BY <1>5 DEF Readable
<1>7. EvidenceServable'
  BY <1>1, <1>6 DEF Intact, EvidenceServable
<1>8. NewestServable'
  <2>1. CASE manifests' = manifests
    <3>1. manifests # {} => Latest \in manifests /\ Latest' = Latest
      BY <1>3, <2>1, NewestIs DEF Latest
    <3> QED BY <1>6, <2>1, <3>1 DEF Intact, NewestServable, Readable
  <2>2. CASE run[i].phase = "manifest" /\ manifests' = manifests \cup {ManifestOf(run[i])}
    <3> DEFINE m == ManifestOf(run[i])
    <3>1. m \in Manifests /\ m.frame \in parquet'
      BY <2>2, <1>3, <1>5 DEF Intact, ManifestOf
    <3>2. Latest' = m \/ (manifests # {} /\ Latest' = Latest)
      <4>1. manifests' = manifests \cup {m} /\ m \in Manifests
        BY <2>2, <3>1
      <4>2. \A n, k \in manifests' : n.at = k.at => n = k
        BY DEF Ordered, StampsUnique
      <4>3. Newest(manifests \cup {m}) = m \/ (manifests # {} /\ Newest(manifests \cup {m}) = Newest(manifests))
        <5> HIDE DEF m
        <5> QED BY <1>3, <4>1, <4>2, NewestAfter
      <4> QED BY <4>1, <4>3 DEF Latest
    <3>3. CASE Latest' = m
      BY <1>5, <3>1, <3>3 DEF NewestServable, Readable
    <3>4. CASE manifests # {} /\ Latest' = Latest
      BY <1>5, <3>4 DEF Intact, NewestServable, Readable
    <3> QED BY <3>2, <3>3, <3>4
  <2> QED BY <1>5, <2>1, <2>2
<1>9. \A j \in Ingesters : run'[j].phase = "manifest" => Candidate(run'[j]) \in parquet'
  BY <1>4, <1>5 DEF Intact
<1>10. (\A j \in Ingesters : run[j].phase = "manifest" => Candidate(run[j]) \in parquet)'
  BY <1>9 DEF Candidate
<1> QED BY <1>1, <1>5, <1>7, <1>8, <1>10 DEF Intact

-----------------------------------------------------------------------------
(* Maintenance *)

\* A maintenance command runs with nothing else.
LEMMA MaintainsAlone ==
  ASSUME Ordered, OneCommand = TRUE, Maintain
  PROVE  snapshot = NoManifest /\ NoRuns /\ UNCHANGED <<run, snapshot, evidence, faults>>
<1>1. UNCHANGED <<run, snapshot, evidence, faults>>
  BY DEF Maintain, vars, PlanRecovery, ApplyRecovery, RejectRecovery, PublishParquet, RejectPublish,
         PublishManifest, PlanDoctor, DoctorHealthy, RestoreBronze, RebuildSilver, RejectDoctor,
         UnlinkDamagedManifest, UnlinkDamagedParquet, PlanPrune, RejectPrune, DropManifest, DropParquet,
         DropBronze, FinishPrune
<1>2. op.phase # "idle" \/ Quiet
  BY DEF Maintain, PlanRecovery, ApplyRecovery, RejectRecovery, PublishParquet, RejectPublish,
         PublishManifest, PlanDoctor, DoctorHealthy, RestoreBronze, RebuildSilver, RejectDoctor,
         UnlinkDamagedManifest, UnlinkDamagedParquet, PlanPrune, RejectPrune, DropManifest, DropParquet,
         DropBronze, FinishPrune
<1> QED BY <1>1, <1>2 DEF Ordered, Alone, Quiet, NoRuns

\* What such a step has to see to.
LEMMA QuietStep ==
  ASSUME Ordered, snapshot = NoManifest, NoRuns, UNCHANGED <<run, snapshot, evidence, faults>>,
         op' \in Commands, raw' \subseteq PartialFrames, parquet' \subseteq Frames, damaged' \subseteq parquet',
         manifests' \subseteq Manifests, clock' \in 0 .. MaxClock, \A m \in manifests' : m.at =< clock',
         StampsUnique', Planned'
  PROVE  Ordered'
<1>1. Typed'
  BY DEF Ordered, Typed, TypeOK
<1>2. \A i \in Ingesters : run[i] = IdleRun /\ run[i].at = 0
  BY IdleRunFacts DEF Ordered, Remembering, Remembers, NoRuns
<1>3. clock' \in Nat /\ \A m \in manifests' : m.at # 0
  BY MaxClockAssumption DEF Manifests
<1>4. StampsFresh'
  BY <1>2, <1>3 DEF StampsFresh
<1>5. Alone' /\ Remembering'
  BY DEF Ordered, Alone, NoRuns, Remembering, Remembers, Candidate
<1> QED BY <1>1, <1>4, <1>5 DEF Ordered

\* The union of the trusted history is a frame.
LEMMA HistoryFacts ==
  ASSUME manifests \subseteq Manifests, Trusted # {}
  PROVE  HistoryFrame \in Frames /\ DOMAIN HistoryFrame = HistoryKeys
<1>1. Trusted \subseteq Manifests /\ \A m \in Trusted : m.frame \in PartialFrames /\ DOMAIN m.frame # {}
  BY DEF Trusted, Manifests, Frames
<1>2. HistoryKeys \subseteq Keys /\ HistoryKeys # {}
  BY <1>1, PartialFrameFacts DEF HistoryKeys
<1> DEFINE g(k) == Newest({m \in Trusted : k \in DOMAIN m.frame}).frame[k]
<1>3. ASSUME NEW k \in HistoryKeys PROVE g(k) \in Values
  <2> DEFINE S == {m \in Trusted : k \in DOMAIN m.frame}
  <2>1. S \subseteq Manifests /\ S # {}
    BY <1>1 DEF HistoryKeys
  <2>2. Newest(S) \in S
    <3> HIDE DEF S
    <3> QED BY <2>1, NewestIs
  <2>3. Newest(S).frame \in PartialFrames /\ k \in DOMAIN Newest(S).frame
    BY <1>1, <2>2
  <2>4. Newest(S).frame[k] \in Values
    <3> HIDE DEF S
    <3> QED BY <2>3, PartialFrameFacts
  <2> QED BY <2>4
<1>4. HistoryFrame = [k \in HistoryKeys |-> g(k)]
  BY DEF HistoryFrame
<1>5. HistoryFrame \in [HistoryKeys -> Values]
  <2> HIDE DEF g
  <2> QED BY <1>3, <1>4
<1>6. HistoryFrame \in PartialFrames
  BY <1>2, <1>5 DEF PartialFrames
<1> QED BY <1>2, <1>4, <1>6 DEF Frames

LEMMA RecoverySources ==
  ASSUME RecoveryAvailable
  PROVE  Trusted # {} /\ manifests # {}
BY FS_EmptySet DEF RecoveryAvailable, Trusted

LEMMA RecoverySteps ==
  ASSUME Ordered, snapshot = NoManifest, NoRuns,
         PlanRecovery \/ ApplyRecovery \/ RejectRecovery
  PROVE  Ordered'
<1> USE DEF Planned
<1>0. /\ raw \subseteq PartialFrames /\ parquet \subseteq Frames /\ damaged \subseteq parquet
      /\ manifests \subseteq Manifests /\ clock \in 0 .. MaxClock /\ op \in Commands
      /\ \A m \in manifests : m.at =< clock
      /\ StampsUnique /\ Planned
  BY DEF Ordered, Typed, TypeOK, StampsFresh
<1>1. UNCHANGED <<raw, parquet, damaged, manifests, run, snapshot, evidence, faults>> /\ StampsUnique'
  BY <1>0 DEF PlanRecovery, ApplyRecovery, RejectRecovery, vars, StampsUnique
<1>2. HistoryKeys' = HistoryKeys
  BY <1>1 DEF HistoryKeys, Trusted, Readable
<1>3. CASE PlanRecovery
  <2>1. /\ op' = [phase |-> "recover", latest |-> Newest(Trusted).at, frame |-> HistoryFrame]
        /\ clock' = clock /\ Trusted # {} /\ manifests # {}
    BY <1>3, RecoverySources DEF PlanRecovery, vars
  <2>2. HistoryFrame \in Frames /\ DOMAIN HistoryFrame = HistoryKeys
    BY <1>0, <2>1, HistoryFacts
  <2>3. Newest(Trusted).at \in 1 .. MaxClock
    <3>1. Trusted \subseteq Manifests
      BY <1>0 DEF Trusted
    <3> QED BY <2>1, <3>1, NewestIs DEF Manifests
  <2>4. op' \in Commands
    BY <2>1, <2>2, <2>3 DEF Commands
  <2>5. Planned'
    BY <1>1, <1>2, <2>1, <2>2
  <2> QED BY <1>0, <1>1, <2>1, <2>4, <2>5, QuietStep
<1>4. CASE ApplyRecovery
  <2>1. /\ op.phase = "recover" /\ manifests # {} /\ HistoryKeys \subseteq DOMAIN op.frame
        /\ clock < MaxClock /\ clock' = clock + 1
        /\ op' = [phase |-> "publish", damaged |-> NoManifest, sources |-> {},
                  manifest |-> [at |-> clock + 1, frame |-> op.frame, raw |-> Latest.raw,
                                refreshed |-> {}, prior |-> Latest.at]]
    BY <1>0, <1>4 DEF ApplyRecovery
  <2>2. Latest \in Manifests /\ op.frame \in Frames
    BY <1>0, <2>1, NewestIs DEF Latest, Commands, IdleOp
  <2>3. op'.manifest \in Manifests
    BY <1>0, <2>1, <2>2, MaxClockAssumption DEF Manifests
  <2>4. op' \in Commands
    BY <2>1, <2>3 DEF Commands
  <2>5. /\ clock' \in 0 .. MaxClock /\ op'.manifest.at = clock' /\ op'.manifest.frame = op.frame
        /\ \A m \in manifests : m.at < clock' /\ m.at =< clock'
    BY <1>0, <2>1, MaxClockAssumption DEF Manifests
  <2>6. Planned'
    BY <1>1, <1>2, <2>1, <2>5
  <2> QED BY <1>0, <1>1, <2>4, <2>5, <2>6, QuietStep
<1>5. CASE RejectRecovery
  <2>1. op' = IdleOp /\ clock' = clock
    BY <1>5 DEF RejectRecovery, vars
  <2> QED BY <1>0, <1>1, <2>1, QuietStep DEF Commands, IdleOp
<1> QED BY <1>3, <1>4, <1>5

LEMMA PublishSteps ==
  ASSUME Ordered, snapshot = NoManifest, NoRuns,
         PublishParquet \/ RejectPublish \/ PublishManifest
  PROVE  Ordered'
<1> USE DEF Planned
<1>0. /\ raw \subseteq PartialFrames /\ parquet \subseteq Frames /\ damaged \subseteq parquet
      /\ manifests \subseteq Manifests /\ clock \in 0 .. MaxClock /\ op \in Commands
      /\ \A m \in manifests : m.at =< clock
      /\ StampsUnique /\ Planned
  BY DEF Ordered, Typed, TypeOK, StampsFresh
<1>1. UNCHANGED <<raw, damaged, clock, run, snapshot, evidence, faults>>
  BY DEF PublishParquet, RejectPublish, PublishManifest, vars
<1>2. /\ op.phase \in {"publish", "publish_manifest"}
      /\ op.manifest \in Manifests /\ op.damaged \in Manifests \cup {NoManifest} /\ op.sources \subseteq Manifests
      /\ op.manifest.at = clock /\ \A m \in manifests : m.at < clock
      /\ HistoryKeys \subseteq DOMAIN op.manifest.frame
  <2>1. op.phase \in {"publish", "publish_manifest"}
    BY DEF PublishParquet, RejectPublish, PublishManifest
  <2> QED BY <1>0, <2>1 DEF Commands, IdleOp
<1>3. CASE PublishParquet
  <2>1. /\ op' = [op EXCEPT !.phase = "publish_manifest"] /\ manifests' = manifests
        /\ parquet' = parquet \cup {op.manifest.frame} /\ op.phase = "publish"
    BY <1>3 DEF PublishParquet
  <2>2. op \in [phase : {"publish", "publish_manifest"}, damaged : Manifests \cup {NoManifest},
                sources : SUBSET Manifests, manifest : Manifests]
    BY <1>0, <2>1 DEF Commands, IdleOp
  <2>3. op' \in Commands /\ op'.phase = "publish_manifest" /\ op'.manifest = op.manifest
    BY <2>1, <2>2 DEF Commands
  <2>4. HistoryKeys' \subseteq DOMAIN op.manifest.frame
    <3>1. \A m \in Trusted' : m \in Trusted \/ m.frame = op.manifest.frame
      BY <1>1, <2>1 DEF Trusted, Readable
    <3> QED BY <1>2, <3>1 DEF HistoryKeys
  <2>5. Planned'
    BY <1>1, <1>2, <2>1, <2>3, <2>4
  <2>6. parquet' \subseteq Frames /\ damaged' \subseteq parquet' /\ StampsUnique'
    BY <1>0, <1>1, <1>2, <2>1 DEF Manifests, StampsUnique
  <2> QED BY <1>0, <1>1, <2>1, <2>3, <2>5, <2>6, QuietStep
<1>4. CASE RejectPublish
  <2>1. op' = IdleOp /\ UNCHANGED <<parquet, manifests>> /\ StampsUnique'
    BY <1>0, <1>4 DEF RejectPublish, vars, StampsUnique
  <2> QED BY <1>0, <1>1, <2>1, QuietStep DEF Commands, IdleOp
<1>5. CASE PublishManifest
  <2>1. /\ manifests' = manifests \cup {op.manifest} /\ parquet' = parquet
        /\ op' = IF op.damaged = NoManifest
                 THEN IdleOp
                 ELSE [phase |-> "unlink_manifest", damaged |-> op.damaged, sources |-> op.sources]
    BY <1>5 DEF PublishManifest
  <2>2. op' \in Commands
    BY <1>2, <2>1 DEF Commands
  <2>3. op'.phase \in {"idle", "unlink_manifest"}
    BY <2>1 DEF IdleOp
  <2>4. Planned'
    BY <2>3
  <2>5. StampsUnique' /\ manifests' \subseteq Manifests /\ \A m \in manifests' : m.at =< clock'
    BY <1>0, <1>1, <1>2, <2>1, MaxClockAssumption DEF StampsUnique, Manifests
  <2> QED BY <1>0, <1>1, <2>1, <2>2, <2>4, <2>5, QuietStep
<1> QED BY <1>3, <1>4, <1>5

LEMMA DoctorSteps ==
  ASSUME Ordered, snapshot = NoManifest, NoRuns,
         \/ PlanDoctor \/ DoctorHealthy \/ RestoreBronze \/ RebuildSilver \/ RejectDoctor
         \/ UnlinkDamagedManifest \/ UnlinkDamagedParquet
  PROVE  Ordered'
<1>0. /\ raw \subseteq PartialFrames /\ parquet \subseteq Frames /\ damaged \subseteq parquet
      /\ manifests \subseteq Manifests /\ clock \in 0 .. MaxClock /\ op \in Commands
      /\ \A m \in manifests : m.at =< clock
      /\ StampsUnique
  BY DEF Ordered, Typed, TypeOK, StampsFresh
<1>1. UNCHANGED <<run, snapshot, evidence, faults>>
  BY DEF PlanDoctor, DoctorHealthy, RestoreBronze, RebuildSilver, RejectDoctor,
         UnlinkDamagedManifest, UnlinkDamagedParquet, vars
<1>2. IdleOp \in Commands /\ [phase |-> "inspect"] \in Commands
  BY DEF Commands, IdleOp
<1>3. ASSUME manifests' \subseteq manifests PROVE StampsUnique'
  BY <1>0, <1>3 DEF StampsUnique
<1>4. ASSUME op'.phase \in {"idle", "inspect", "doctor", "unlink_parquet"} PROVE Planned'
  BY <1>4 DEF Planned
<1>5. op.phase = "doctor" => op \in [phase : {"doctor"}, repair : {"healthy", "missing_bronze", "damaged_silver"},
                                     target : Manifests, stems : SUBSET Manifests]
  BY <1>0 DEF Commands, IdleOp
<1>6. op.phase \in {"unlink_manifest", "unlink_parquet"} =>
        op \in [phase : {"unlink_manifest", "unlink_parquet"}, damaged : Manifests, sources : SUBSET Manifests]
  BY <1>0 DEF Commands, IdleOp
<1>7. CASE PlanDoctor
  <2>1. /\ op' = [phase |-> "doctor", repair |-> Condition, target |-> Latest, stems |-> manifests]
        /\ UNCHANGED vars /\ manifests # {} /\ Condition \in {"healthy", "missing_bronze", "damaged_silver"}
    BY <1>7 DEF PlanDoctor, Condition
  <2>2. Latest \in Manifests
    BY <1>0, <2>1, NewestIs DEF Latest
  <2>3. op' \in Commands /\ op'.phase = "doctor"
    BY <1>0, <2>1, <2>2 DEF Commands
  <2> QED BY <1>0, <1>1, <1>3, <1>4, <2>1, <2>3, QuietStep DEF vars
<1>8. CASE DoctorHealthy \/ RejectDoctor
  <2>1. op' \in {IdleOp, [phase |-> "inspect"]} /\ UNCHANGED vars
    BY <1>8 DEF DoctorHealthy, RejectDoctor
  <2>2. op' \in Commands /\ op'.phase \in {"idle", "inspect"}
    BY <1>2, <2>1 DEF IdleOp
  <2> QED BY <1>0, <1>1, <1>3, <1>4, <2>1, <2>2, QuietStep DEF vars
<1>9. CASE RestoreBronze
  <2>1. /\ op' = [phase |-> "inspect"] /\ op.phase = "doctor" /\ raw' = raw \cup {op.target.raw}
        /\ UNCHANGED <<parquet, damaged, manifests, clock>>
    BY <1>9 DEF RestoreBronze
  <2>2. op' \in Commands /\ op'.phase = "inspect" /\ raw' \subseteq PartialFrames
    BY <1>0, <1>2, <1>5, <2>1 DEF Manifests
  <2> QED BY <1>0, <1>1, <1>3, <1>4, <2>1, <2>2, QuietStep
<1>10. CASE RebuildSilver
  <2>1. /\ op.phase = "doctor" /\ RecoveryAvailable /\ clock < MaxClock /\ clock' = clock + 1
        /\ op' = [phase |-> "publish", damaged |-> op.target, sources |-> Trusted,
                  manifest |-> [at |-> clock + 1, frame |-> HistoryFrame, raw |-> op.target.raw,
                                refreshed |-> {}, prior |-> op.target.at]]
        /\ UNCHANGED <<raw, parquet, damaged, manifests>>
    BY <1>10 DEF RebuildSilver
  <2>2. HistoryFrame \in Frames /\ DOMAIN HistoryFrame = HistoryKeys /\ Trusted \subseteq Manifests
    BY <1>0, <2>1, HistoryFacts, RecoverySources DEF Trusted
  <2>3. op.target \in Manifests
    BY <1>5, <2>1
  <2>4. op'.manifest \in Manifests
    BY <1>0, <2>1, <2>2, <2>3, MaxClockAssumption DEF Manifests
  <2>5. op' \in Commands
    BY <2>1, <2>2, <2>3, <2>4 DEF Commands
  <2>6. /\ clock' \in 0 .. MaxClock /\ op'.manifest.at = clock' /\ op'.manifest.frame = HistoryFrame
        /\ \A m \in manifests : m.at < clock' /\ m.at =< clock'
    BY <1>0, <2>1, MaxClockAssumption DEF Manifests
  <2>7. HistoryKeys' = HistoryKeys
    BY <2>1 DEF HistoryKeys, Trusted, Readable
  <2>8. Planned'
    BY <2>1, <2>2, <2>6, <2>7 DEF Planned
  <2> QED BY <1>0, <1>1, <1>3, <2>1, <2>5, <2>6, <2>8, QuietStep
<1>11. CASE UnlinkDamagedManifest
  <2>1. /\ op' = [op EXCEPT !.phase = "unlink_parquet"] /\ op.phase = "unlink_manifest"
        /\ manifests' \subseteq manifests /\ UNCHANGED <<raw, parquet, damaged, clock>>
    BY <1>11 DEF UnlinkDamagedManifest
  <2>2. op' \in Commands /\ op'.phase = "unlink_parquet"
    BY <1>6, <2>1 DEF Commands
  <2> QED BY <1>0, <1>1, <1>3, <1>4, <2>1, <2>2, QuietStep
<1>12. CASE UnlinkDamagedParquet
  <2>1. /\ op' = [phase |-> "inspect"] /\ parquet' \subseteq parquet /\ damaged' \subseteq parquet'
        /\ UNCHANGED <<raw, manifests, clock>>
    BY <1>0, <1>12 DEF UnlinkDamagedParquet
  <2>2. op' \in Commands /\ op'.phase = "inspect"
    BY <1>2, <2>1
  <2> QED BY <1>0, <1>1, <1>3, <1>4, <2>1, <2>2, QuietStep
<1> QED BY <1>7, <1>8, <1>9, <1>10, <1>11, <1>12

\* What a prune in progress knows.
LEMMA PruneFacts ==
  ASSUME Ordered, op.phase \in {"prune", "prune_parquet"}
  PROVE  /\ op \in [phase : {"prune", "prune_parquet"}, drop : SUBSET Manifests,
                    keep : SUBSET Frames, bronze : SUBSET PartialFrames]
         /\ manifests # {} /\ Latest \in manifests
         /\ Left \subseteq manifests /\ Left \cap Retained = {} /\ manifests \subseteq Retained \cup Left
         /\ raw \subseteq {Latest.raw} \cup op.bronze
         /\ \A m \in Retained : m.frame \in op.keep
         /\ op.drop # {} => NextDropped \in op.drop
BY NewestIs, OldestIs DEF Ordered, Typed, Commands, IdleOp, Planned, TypeOK, Latest, NextDropped

\* Dropping a manifest of the plan leaves what is retained.
LEMMA RetainedStays ==
  ASSUME Ordered, manifests # {}, NEW m, m \notin Retained,
         manifests' = manifests \ {m}, evidence' = evidence
  PROVE  Latest' = Latest /\ Retained' = Retained
<1>1. manifests \subseteq Manifests /\ \A n, k \in manifests : n.at = k.at => n = k
  BY DEF Ordered, Typed, TypeOK, StampsUnique
<1>2. Latest \in manifests /\ Latest # m
  BY <1>1, NewestIs DEF Latest, Retained
<1>3. Newest(manifests \ {m}) = Newest(manifests)
  BY <1>1, <1>2, NewestStays DEF Latest
<1>4. Latest' = Latest
  BY <1>3 DEF Latest
<1>5. Pinned' = Pinned
  BY DEF Pinned, Retained
<1> QED BY <1>4, <1>5 DEF Retained

LEMMA PruneSteps ==
  ASSUME Ordered, snapshot = NoManifest, NoRuns,
         PlanPrune \/ RejectPrune \/ DropManifest \/ DropParquet \/ DropBronze \/ FinishPrune
  PROVE  Ordered'
<1>0. /\ raw \subseteq PartialFrames /\ parquet \subseteq Frames /\ damaged \subseteq parquet
      /\ manifests \subseteq Manifests /\ clock \in 0 .. MaxClock
      /\ \A m \in manifests : m.at =< clock
      /\ StampsUnique
  BY DEF Ordered, Typed, TypeOK, StampsFresh
<1>1. UNCHANGED <<clock, run, snapshot, evidence, faults>>
  BY DEF PlanPrune, RejectPrune, DropManifest, DropParquet, DropBronze, FinishPrune, vars
<1>2. ASSUME manifests' \subseteq manifests PROVE StampsUnique' /\ \A m \in manifests' : m.at =< clock'
  BY <1>0, <1>1, <1>2 DEF StampsUnique
<1>3. ASSUME manifests' = manifests PROVE Latest' = Latest /\ Retained' = Retained
  BY <1>1, <1>3 DEF Latest, Retained, Pinned
<1>4. CASE PlanPrune
  <2>1. op' = PrunePlan /\ UNCHANGED vars /\ manifests # {}
    BY <1>4 DEF PlanPrune
  <2>2. Latest \in manifests
    BY <1>0, <2>1, NewestIs DEF Latest
  <2>3. Retained \subseteq manifests
    BY <2>2 DEF Retained, Pinned
  <2>4. /\ manifests \ Retained \subseteq Manifests /\ raw \ {Latest.raw} \subseteq PartialFrames
        /\ {m.frame : m \in Retained} \subseteq Frames
    BY <1>0, <2>3 DEF Manifests
  <2>5. op' \in Commands
    BY <2>1, <2>4 DEF Commands, PrunePlan
  <2>6. /\ op'.phase = "prune" /\ op'.drop = manifests \ Retained
        /\ op'.keep = {m.frame : m \in Retained} /\ op'.bronze = raw \ {Latest.raw}
    BY <2>1 DEF PrunePlan
  <2>7. Left' = manifests \ Retained
    BY <2>6 DEF Left
  <2>8. manifests' = manifests /\ raw' = raw /\ Latest' = Latest /\ Retained' = Retained
    BY <1>3, <2>1 DEF vars
  <2>9. Planned'
    BY <2>1, <2>6, <2>7, <2>8 DEF Planned
  <2> QED BY <1>0, <1>1, <1>2, <2>1, <2>5, <2>9, QuietStep DEF vars
<1>5. CASE RejectPrune \/ FinishPrune
  <2>1. op' = IdleOp /\ UNCHANGED vars
    BY <1>5 DEF RejectPrune, FinishPrune
  <2>2. op' \in Commands /\ Planned'
    BY <2>1 DEF Commands, IdleOp, Planned
  <2> QED BY <1>0, <1>1, <1>2, <2>1, <2>2, QuietStep DEF vars
<1>6. CASE DropManifest
  <2>1. /\ op.phase = "prune" /\ op.drop # {} /\ manifests' = manifests \ {NextDropped}
        /\ op' = [op EXCEPT !.phase = "prune_parquet"] /\ UNCHANGED <<raw, parquet, damaged>>
    BY <1>6 DEF DropManifest
  <2>2. Left = op.drop
    BY <2>1 DEF Left
  <2>3. NextDropped \in op.drop /\ NextDropped \notin Retained /\ manifests # {} /\ Latest \in manifests
    BY <2>1, <2>2, PruneFacts
  <2>4. op \in [phase : {"prune", "prune_parquet"}, drop : SUBSET Manifests,
                keep : SUBSET Frames, bronze : SUBSET PartialFrames]
    BY <2>1, PruneFacts
  <2>5. /\ op' \in Commands /\ op'.phase = "prune_parquet" /\ op'.drop = op.drop
        /\ op'.keep = op.keep /\ op'.bronze = op.bronze
    BY <2>1, <2>4 DEF Commands
  <2>6. NextDropped' = NextDropped
    BY <2>5 DEF NextDropped
  <2>7. Left' = Left \ {NextDropped}
    BY <2>2, <2>5, <2>6 DEF Left
  <2>8. Latest' = Latest /\ Retained' = Retained
    BY <1>1, <2>1, <2>3, RetainedStays
  <2>9. manifests' # {}
    BY <2>1, <2>3 DEF Retained
  <2>10. Planned'
    BY <2>1, <2>2, <2>5, <2>7, <2>8, <2>9, PruneFacts DEF Planned
  <2> QED BY <1>0, <1>1, <1>2, <2>1, <2>5, <2>10, QuietStep
<1>7. CASE DropParquet
  <2>1. /\ op.phase = "prune_parquet" /\ op' = [op EXCEPT !.phase = "prune", !.drop = op.drop \ {NextDropped}]
        /\ parquet' \subseteq parquet /\ damaged' \subseteq parquet' /\ UNCHANGED <<raw, manifests>>
    BY <1>0, <1>7 DEF DropParquet
  <2>2. op \in [phase : {"prune", "prune_parquet"}, drop : SUBSET Manifests,
                keep : SUBSET Frames, bronze : SUBSET PartialFrames]
    BY <2>1, PruneFacts
  <2>3. /\ op' \in Commands /\ op'.phase = "prune" /\ op'.drop = op.drop \ {NextDropped}
        /\ op'.keep = op.keep /\ op'.bronze = op.bronze
    BY <2>1, <2>2 DEF Commands
  <2>4. Left' = Left
    BY <2>1, <2>3 DEF Left
  <2>5. Planned'
    BY <1>3, <2>1, <2>3, <2>4, PruneFacts DEF Planned
  <2> QED BY <1>0, <1>1, <1>2, <2>1, <2>3, <2>5, QuietStep
<1>8. CASE DropBronze
  <2>1. /\ op.phase = "prune" /\ op.drop = {} /\ UNCHANGED <<parquet, damaged, manifests>>
        /\ \E p \in op.bronze : raw' = raw \ {p} /\ op' = [op EXCEPT !.bronze = op.bronze \ {p}]
    BY <1>8 DEF DropBronze
  <2>2. PICK p \in op.bronze : raw' = raw \ {p} /\ op' = [op EXCEPT !.bronze = op.bronze \ {p}]
    BY <2>1
  <2>3. op \in [phase : {"prune", "prune_parquet"}, drop : SUBSET Manifests,
                keep : SUBSET Frames, bronze : SUBSET PartialFrames]
    BY <2>1, PruneFacts
  <2>4. /\ op' \in Commands /\ op'.phase = "prune" /\ op'.drop = op.drop
        /\ op'.keep = op.keep /\ op'.bronze = op.bronze \ {p}
    BY <2>1, <2>2, <2>3 DEF Commands
  <2>5. Left' = Left
    BY <2>1, <2>4 DEF Left
  <2>6. Planned'
    BY <1>3, <2>1, <2>2, <2>4, <2>5, PruneFacts DEF Planned
  <2> QED BY <1>0, <1>1, <1>2, <2>1, <2>2, <2>4, <2>6, QuietStep
<1> QED BY <1>4, <1>5, <1>6, <1>7, <1>8

LEMMA CrashOrdered ==
  ASSUME Ordered, Crash
  PROVE  Ordered'
<1>1. /\ snapshot = NoManifest /\ NoRuns /\ UNCHANGED <<raw, parquet, damaged, manifests, clock>>
      /\ UNCHANGED <<run, snapshot, evidence, faults>>
  BY DEF Ordered, Alone, Crash, vars
<1>2. op' = IdleOp
  BY DEF Crash
<1>3. op' \in Commands /\ Planned'
  BY <1>2 DEF Commands, IdleOp, Planned
<1>4. /\ raw' \subseteq PartialFrames /\ parquet' \subseteq Frames /\ damaged' \subseteq parquet'
      /\ manifests' \subseteq Manifests /\ clock' \in 0 .. MaxClock /\ \A m \in manifests' : m.at =< clock'
      /\ StampsUnique'
  BY <1>1 DEF Ordered, Typed, TypeOK, StampsFresh, StampsUnique
<1> QED BY <1>1, <1>3, <1>4, QuietStep

\* Steps that leave the store, its runs and the command in progress alone.
LEMMA BystanderStep ==
  ASSUME Ordered, UNCHANGED <<manifests, clock, run, op>>, Typed', Alone',
         op.phase # "idle" => UNCHANGED <<evidence>> /\ raw' \subseteq raw /\ HistoryKeys' \subseteq HistoryKeys
  PROVE  Ordered'
<1>1. StampsFresh' /\ StampsUnique' /\ Remembering'
  BY DEF Ordered, StampsFresh, StampsUnique, Remembering, Remembers, Candidate
<1>2. Latest' = Latest /\ Left' = Left
  BY DEF Latest, Left, NextDropped
<1>3. Planned'
  <2>1. CASE op.phase = "idle"
    BY <2>1 DEF Planned
  <2>2. CASE op.phase # "idle"
    <3>1. Retained' = Retained
      BY <1>2, <2>2 DEF Retained, Pinned
    <3> QED BY <1>2, <2>2, <3>1 DEF Ordered, Planned
  <2> QED BY <2>1, <2>2
<1> QED BY <1>1, <1>3 DEF Ordered

LEMMA AnalyseOrdered ==
  ASSUME Ordered, OneCommand = TRUE, Analyse
  PROVE  Ordered'
<1>0. Typed /\ Alone /\ manifests \subseteq Manifests
  BY DEF Ordered, Typed, TypeOK
<1>1. UNCHANGED <<raw, parquet, damaged, manifests, clock, run, op, faults>>
  BY DEF Analyse, ResolveSnapshot, RecordEvidence, EndAnalysis, vars
<1>2. op.phase = "idle" /\ NoRuns
  BY <1>0 DEF Analyse, ResolveSnapshot, RecordEvidence, EndAnalysis, Alone, NoRuns
<1>3. snapshot' \in Manifests \cup {NoManifest} /\ evidence' \subseteq 1 .. MaxClock
  <2>1. CASE ResolveSnapshot
    BY <1>0, <2>1, NewestIs DEF ResolveSnapshot, Latest, Typed
  <2>2. CASE RecordEvidence
    BY <1>0, <2>2 DEF RecordEvidence, Typed, Manifests
  <2>3. CASE EndAnalysis
    BY <1>0, <2>3 DEF EndAnalysis, Typed
  <2> QED BY <2>1, <2>2, <2>3 DEF Analyse
<1>4. Typed' /\ Alone'
  BY <1>0, <1>1, <1>2, <1>3 DEF Typed, TypeOK, Alone, NoRuns
<1> QED BY <1>1, <1>2, <1>4, BystanderStep

LEMMA FaultOrdered ==
  ASSUME Ordered, Fault
  PROVE  Ordered'
<1>0. Typed /\ Alone
  BY DEF Ordered
<1>1. UNCHANGED <<manifests, clock, run, op, snapshot, evidence>> /\ faults < MaxFaults /\ faults' = faults + 1
  BY DEF Fault
<1>2. raw' \subseteq raw /\ parquet' \subseteq parquet /\ damaged' \subseteq parquet' /\ damaged \subseteq damaged'
  BY <1>0 DEF Fault, Typed, TypeOK
<1>3. faults' \in 0 .. MaxFaults
  BY <1>0, <1>1, MaintenanceAssumption DEF Typed
<1>4. Typed' /\ Alone'
  BY <1>0, <1>1, <1>2, <1>3 DEF Typed, TypeOK, Alone, NoRuns
<1>5. Trusted' \subseteq Trusted
  BY <1>1, <1>2 DEF Trusted, Readable
<1>6. HistoryKeys' \subseteq HistoryKeys
  BY <1>5 DEF HistoryKeys
<1> QED BY <1>1, <1>2, <1>4, <1>6, BystanderStep

LEMMA StutterOrdered ==
  ASSUME Ordered, UNCHANGED allVars
  PROVE  Ordered'
<1>1. UNCHANGED <<raw, parquet, damaged, manifests, clock, run>> /\ UNCHANGED <<op, snapshot, evidence, faults>>
  BY DEF allVars, vars, mvars
<1>2. Typed' /\ Alone'
  BY <1>1 DEF Ordered, Typed, TypeOK, Alone, NoRuns
<1>3. HistoryKeys' = HistoryKeys
  BY <1>1 DEF HistoryKeys, Trusted, Readable
<1> QED BY <1>1, <1>2, <1>3, BystanderStep

LEMMA NextOrdered ==
  ASSUME Ordered, OneCommand = TRUE, [MaintenanceNext]_allVars
  PROVE  Ordered'
<1>1. CASE Maintain
  <2>1. snapshot = NoManifest /\ NoRuns
    BY <1>1, MaintainsAlone
  <2> QED BY <1>1, <2>1, RecoverySteps, PublishSteps, DoctorSteps, PruneSteps DEF Maintain
<1> QED BY <1>1, IngestOrdered, CrashOrdered, AnalyseOrdered, FaultOrdered, StutterOrdered DEF MaintenanceNext

LEMMA InitOrdered == MaintenanceInit => Ordered
<1> SUFFICES ASSUME MaintenanceInit PROVE Ordered
  OBVIOUS
<1>1. /\ raw = {} /\ parquet = {} /\ damaged = {} /\ manifests = {} /\ clock = 0
      /\ run = [i \in Ingesters |-> IdleRun] /\ op = IdleOp /\ snapshot = NoManifest
      /\ evidence = {} /\ faults = 0
  BY DEF MaintenanceInit, Init
<1>2. \A i \in Ingesters : run[i] = IdleRun /\ IdleRun \in Runs /\ IdleRun.at = 0 /\ IdleRun.phase = "idle"
  BY <1>1, IdleRunFacts DEF IdleRun
<1>3. Typed
  BY <1>1, IdleRunFacts, MaxClockAssumption, MaintenanceAssumption DEF Typed, TypeOK, Commands
<1>4. Alone /\ Planned
  BY <1>1 DEF Alone, Planned, IdleOp
<1>5. StampsFresh /\ StampsUnique
  BY <1>1, <1>2 DEF StampsFresh, StampsUnique
<1>6. Remembering
  BY <1>2 DEF Remembering, Remembers, Fetched, IdleRun
<1> QED BY <1>3, <1>4, <1>5, <1>6 DEF Ordered

\* Whatever rots or vanishes, the stamps stay in order and a command's plan
\* stays apt to the directory it was made from.
LEMMA StaysOrdered == ASSUME OneCommand = TRUE PROVE MaintenanceSpec => []Ordered
<1>1. Ordered /\ [MaintenanceNext]_allVars => Ordered'
  BY NextOrdered
<1> QED BY <1>1, InitOrdered, PTL DEF MaintenanceSpec

-----------------------------------------------------------------------------
(* What holds although files rot and vanish *)

\* A recovery or a rebuild serves every key of the trusted history, even when
\* files were lost between its plan and its publication: what it publishes was
\* stamped after everything on disk, so it is what readers resolve.
THEOREM PublicationServesHistory ==
  ASSUME OneCommand = TRUE
  PROVE  MaintenanceSpec => RecoveryServesHistory
<1> DEFINE Serves == PublishManifest => HistoryKeys \subseteq Served(manifests')
<1>1. ASSUME Ordered, PublishManifest PROVE HistoryKeys \subseteq Served(manifests')
  <2>1. /\ op.phase = "publish_manifest" /\ manifests' = manifests \cup {op.manifest}
        /\ manifests \subseteq Manifests
    BY <1>1 DEF PublishManifest, Ordered, Typed, TypeOK
  <2>2. op.manifest \in Manifests
    BY <1>1, <2>1 DEF Ordered, Typed, Commands, IdleOp
  <2>3. /\ \A m \in manifests : m.at < op.manifest.at
        /\ HistoryKeys \subseteq DOMAIN op.manifest.frame
    BY <1>1, <2>1 DEF Ordered, Planned
  <2>4. Newest(manifests \cup {op.manifest}) = op.manifest
    BY <2>1, <2>2, <2>3, NewestAdded
  <2> QED BY <2>1, <2>3, <2>4 DEF Served
<1>2. [][Serves]_allVars => RecoveryServesHistory
  BY PTL DEF RecoveryServesHistory
<1>3. Ordered /\ [MaintenanceNext]_allVars => [Serves]_allVars
  BY <1>1
<1> QED BY <1>2, <1>3, StaysOrdered, PTL DEF MaintenanceSpec

\* A prune that ran to its end left the newest partition, the recorded ones and
\* at most the newest partition's payload, so a second prune finds nothing.
THEOREM PruneIsIdempotent ==
  ASSUME OneCommand = TRUE
  PROVE  MaintenanceSpec => PruneSettles
<1> DEFINE Settled == FinishPrune => manifests \subseteq Retained /\ raw \subseteq {Latest.raw}
<1>1. ASSUME Ordered, FinishPrune PROVE manifests \subseteq Retained /\ raw \subseteq {Latest.raw}
  <2>1. op.phase = "prune" /\ op.drop = {} /\ op.bronze = {}
    BY <1>1 DEF FinishPrune
  <2>2. Left = {}
    BY <2>1 DEF Left
  <2> QED BY <1>1, <2>1, <2>2, PruneFacts
<1>2. [][Settled]_allVars => PruneSettles
  BY PTL DEF PruneSettles
<1>3. Ordered /\ [MaintenanceNext]_allVars => [Settled]_allVars
  BY <1>1
<1> QED BY <1>2, <1>3, StaysOrdered, PTL DEF MaintenanceSpec

-----------------------------------------------------------------------------
(* What holds where no file rots or vanishes *)

\* The store's part of Intact, for steps that leave the store as it is.
LEMMA StoreIntact ==
  ASSUME Intact, UNCHANGED <<parquet, damaged, manifests, run, evidence>>
  PROVE  /\ damaged' = {} /\ NewestServable' /\ EvidenceServable'
         /\ (\A i \in Ingesters : run[i].phase = "manifest" => Candidate(run[i]) \in parquet)'
<1>1. \A m : Readable(m)' <=> Readable(m)
  BY DEF Readable
<1>2. Latest' = Latest
  BY DEF Latest
<1>3. manifests # {} => Readable(Latest)
  BY DEF Intact, NewestServable
<1>4. Readable(Latest)' <=> Readable(Latest)
  BY <1>2 DEF Readable
<1> QED BY <1>1, <1>3, <1>4 DEF Intact, NewestServable, EvidenceServable, Candidate

\* What is left to show of a step without runs, the command's part apart.
LEMMA QuietIntact ==
  ASSUME NoRuns, UNCHANGED run, damaged' = {}, NewestServable', EvidenceServable',
         op'.phase = "doctor" => op'.repair # "damaged_silver",
         op'.phase \notin {"publish", "publish_manifest", "unlink_manifest", "unlink_parquet"}
  PROVE  Intact'
BY DEF Intact, NoRuns

LEMMA PublishIntact ==
  ASSUME Ordered, Intact, NoRuns,
         ApplyRecovery \/ PublishParquet \/ PublishManifest
  PROVE  Intact'
<1>0. /\ manifests \subseteq Manifests /\ op \in Commands /\ Planned
      /\ damaged = {} /\ NewestServable /\ EvidenceServable
  BY DEF Ordered, Typed, TypeOK, Intact
<1>1. (\A i \in Ingesters : run[i].phase = "manifest" => Candidate(run[i]) \in parquet)'
  BY DEF NoRuns, ApplyRecovery, PublishParquet, PublishManifest
<1>2. damaged' = {} /\ evidence' = evidence /\ parquet \subseteq parquet' /\ manifests \subseteq manifests'
  BY <1>0 DEF ApplyRecovery, PublishParquet, PublishManifest
<1>3. \A m : Readable(m) => Readable(m)'
  BY <1>2 DEF Readable
<1>4. EvidenceServable'
  BY <1>0, <1>2, <1>3 DEF EvidenceServable
<1>5. ASSUME manifests' = manifests
      PROVE  NewestServable' /\ Served(manifests') = Served(manifests)
  BY <1>0, <1>2, <1>5 DEF NewestServable, Latest, Readable
<1>6. CASE ApplyRecovery
  <2>1. /\ op.phase = "recover" /\ manifests # {} /\ manifests' = manifests
        /\ DOMAIN Latest.frame \subseteq DOMAIN op.frame
        /\ op' = [phase |-> "publish", damaged |-> NoManifest, sources |-> {},
                  manifest |-> [at |-> clock + 1, frame |-> op.frame, raw |-> Latest.raw,
                                refreshed |-> {}, prior |-> Latest.at]]
    BY <1>0, <1>6 DEF ApplyRecovery, Planned
  <2>2. op'.phase = "publish" /\ op'.damaged = NoManifest /\ op'.manifest.frame = op.frame
    BY <2>1
  <2>3. Served(manifests) \subseteq DOMAIN op.frame
    BY <2>1 DEF Served, Latest
  <2> QED BY <1>1, <1>2, <1>4, <1>5, <2>1, <2>2, <2>3 DEF Intact
<1>7. CASE PublishParquet
  BY <1>7, <1>0, <1>1, <1>2, <1>4, <1>5 DEF PublishParquet, Intact
<1>8. CASE PublishManifest
  <2>1. /\ op.phase = "publish_manifest" /\ manifests' = manifests \cup {op.manifest}
        /\ parquet' = parquet /\ op.damaged = NoManifest /\ op.manifest.frame \in parquet
    BY <1>8 DEF PublishManifest, Intact
  <2>2. op' = IdleOp
    BY <1>8, <2>1 DEF PublishManifest
  <2>3. op.manifest \in Manifests
    BY <1>0, <2>1 DEF Commands, IdleOp
  <2>4. \A m \in manifests : m.at < op.manifest.at
    BY <1>0, <2>1 DEF Planned
  <2>5. Newest(manifests \cup {op.manifest}) = op.manifest
    BY <1>0, <2>3, <2>4, NewestAdded
  <2>6. Latest' = op.manifest
    BY <2>1, <2>5 DEF Latest
  <2>7. NewestServable'
    BY <1>2, <2>1, <2>6 DEF NewestServable, Readable
  <2> QED BY <1>1, <1>2, <1>4, <2>2, <2>7 DEF Intact, IdleOp
<1> QED BY <1>6, <1>7, <1>8

LEMMA PlanningIntact ==
  ASSUME Intact, NoRuns,
         \/ PlanRecovery \/ RejectRecovery \/ RejectPublish
         \/ PlanDoctor \/ DoctorHealthy \/ RestoreBronze \/ RejectDoctor
         \/ PlanPrune \/ RejectPrune \/ DropBronze \/ FinishPrune
  PROVE  Intact'
<1>1. UNCHANGED <<parquet, damaged, manifests, run, evidence>>
  BY DEF PlanRecovery, RejectRecovery, RejectPublish, PlanDoctor, DoctorHealthy, RestoreBronze,
         RejectDoctor, PlanPrune, RejectPrune, DropBronze, FinishPrune, vars
<1>2. damaged' = {} /\ NewestServable' /\ EvidenceServable' /\ run' = run
  BY <1>1, StoreIntact
<1>3. CASE PlanDoctor
  <2>1. op' = [phase |-> "doctor", repair |-> Condition, target |-> Latest, stems |-> manifests]
        /\ manifests # {}
    BY <1>3 DEF PlanDoctor
  <2>2. Condition # "damaged_silver"
    BY <2>1 DEF Condition, Intact, NewestServable
  <2>3. op'.phase = "doctor" /\ op'.repair # "damaged_silver"
    BY <2>1, <2>2
  <2> QED BY <1>2, <2>3, QuietIntact
<1>4. CASE DropBronze
  <2>1. op.phase = "prune"
    BY <1>4 DEF DropBronze
  <2>2. \E B : op' = [op EXCEPT !.bronze = B]
    BY <1>4 DEF DropBronze
  <2>3. op'.phase = "prune"
    BY <2>1, <2>2
  <2> QED BY <1>2, <2>3, QuietIntact
<1>5. CASE \/ PlanRecovery \/ RejectRecovery \/ RejectPublish \/ DoctorHealthy \/ RestoreBronze
           \/ RejectDoctor \/ PlanPrune \/ RejectPrune \/ FinishPrune
  <2>1. op'.phase \in {"recover", "idle", "inspect", "prune"}
    BY <1>5 DEF PlanRecovery, RejectRecovery, RejectPublish, DoctorHealthy, RestoreBronze,
                RejectDoctor, PlanPrune, PrunePlan, RejectPrune, FinishPrune, IdleOp
  <2> QED BY <1>2, <2>1, QuietIntact
<1> QED BY <1>3, <1>4, <1>5

\* Pruning a manifest or its Parquet leaves what is retained readable.
LEMMA PruneIntact ==
  ASSUME Ordered, Intact, NoRuns, DropManifest \/ DropParquet
  PROVE  Intact'
<1>1. op.phase \in {"prune", "prune_parquet"} /\ UNCHANGED <<run, evidence>>
  BY DEF DropManifest, DropParquet
<1>2. /\ manifests # {} /\ Latest \in manifests /\ Latest \in Retained
      /\ op \in [phase : {"prune", "prune_parquet"}, drop : SUBSET Manifests,
                 keep : SUBSET Frames, bronze : SUBSET PartialFrames]
  BY <1>1, PruneFacts DEF Retained
<1>3. \A m \in Retained : m.frame \in op.keep
  BY <1>1, PruneFacts
<1>4. /\ damaged = {} /\ Latest.frame \in parquet
      /\ \A at \in evidence : \E m \in Pinned : m.at = at /\ m.frame \in parquet
  BY <1>2 DEF Intact, NewestServable, EvidenceServable, Readable, Pinned
<1>5. /\ damaged' = {} /\ Latest' = Latest /\ Retained' = Retained /\ Pinned \subseteq manifests'
      /\ \A m \in Retained : m.frame \in parquet => m.frame \in parquet'
      /\ op'.phase \in {"prune", "prune_parquet"}
  <2>1. CASE DropManifest
    <3>1. /\ op.phase = "prune" /\ op.drop # {} /\ manifests' = manifests \ {NextDropped}
          /\ op' = [op EXCEPT !.phase = "prune_parquet"] /\ UNCHANGED <<parquet, damaged>>
      BY <2>1 DEF DropManifest
    <3>2. NextDropped \notin Retained
      BY <3>1, <1>1, PruneFacts DEF Left
    <3>3. Latest' = Latest /\ Retained' = Retained
      BY <1>1, <1>2, <3>1, <3>2, RetainedStays
    <3>4. Pinned \subseteq manifests'
      BY <3>1, <3>2 DEF Retained, Pinned
    <3>5. op'.phase = "prune_parquet"
      BY <1>2, <3>1
    <3> QED BY <1>4, <3>1, <3>3, <3>4, <3>5
  <2>2. CASE DropParquet
    <3>1. /\ manifests' = manifests /\ damaged' = {} /\ \A f \in op.keep : f \in parquet => f \in parquet'
          /\ op' = [op EXCEPT !.phase = "prune", !.drop = op.drop \ {NextDropped}]
      BY <1>4, <2>2 DEF DropParquet
    <3>2. Latest' = Latest /\ Retained' = Retained /\ Pinned \subseteq manifests'
      BY <1>1, <3>1 DEF Latest, Retained, Pinned
    <3>3. op'.phase = "prune"
      BY <1>2, <3>1
    <3> QED BY <1>3, <3>1, <3>2, <3>3
  <2> QED BY <2>1, <2>2
<1>6. NewestServable'
  BY <1>2, <1>4, <1>5 DEF NewestServable, Readable
<1>7. EvidenceServable'
  <2>1. \A m \in Pinned : m \in Retained /\ m \in manifests'
    BY <1>5 DEF Retained
  <2> QED BY <1>1, <1>4, <1>5, <2>1 DEF EvidenceServable, Readable
<1> QED BY <1>1, <1>5, <1>6, <1>7, QuietIntact

\* With nothing damaged there is nothing to rebuild or to unlink.
LEMMA NoRebuild ==
  ASSUME Intact
  PROVE  ~RebuildSilver /\ ~UnlinkDamagedManifest /\ ~UnlinkDamagedParquet
BY DEF Intact, RebuildSilver, UnlinkDamagedManifest, UnlinkDamagedParquet

LEMMA OthersIntact ==
  ASSUME Ordered, Intact, OneCommand = TRUE, Crash \/ Analyse \/ UNCHANGED allVars
  PROVE  Intact'
<1>1. CASE Crash
  BY <1>1, StoreIntact DEF Crash, vars, Intact, IdleOp
<1>2. CASE UNCHANGED allVars
  BY <1>2, StoreIntact DEF allVars, vars, mvars, Intact
<1>3. CASE Analyse
  <2>1. op.phase = "idle" /\ op' = op /\ UNCHANGED <<parquet, damaged, manifests, run>>
    BY <1>3 DEF Ordered, Alone, Analyse, ResolveSnapshot, RecordEvidence, EndAnalysis, vars
  <2>2. CASE evidence' = evidence
    BY <2>1, <2>2, StoreIntact DEF Intact
  <2>3. CASE RecordEvidence
    <3>1. snapshot \in manifests /\ Readable(snapshot) /\ evidence' = evidence \cup {snapshot.at}
      BY <2>3 DEF RecordEvidence
    <3>2. \A m : Readable(m)' <=> Readable(m)
      BY <2>1 DEF Readable
    <3>3. EvidenceServable'
      BY <2>1, <3>1, <3>2 DEF Intact, EvidenceServable
    <3>4. Latest' = Latest
      BY <2>1 DEF Latest
    <3>5. NewestServable'
      BY <2>1, <3>4 DEF Intact, NewestServable, Readable
    <3> QED BY <2>1, <3>3, <3>5 DEF Intact, Candidate
  <2> QED BY <1>3, <2>2, <2>3 DEF Analyse, ResolveSnapshot, EndAnalysis
<1> QED BY <1>1, <1>2, <1>3

LEMMA NextIntact ==
  ASSUME Ordered, Ordered', Intact, OneCommand = TRUE, MaxFaults = 0, [MaintenanceNext]_allVars
  PROVE  Intact'
<1>1. CASE Maintain
  <2>1. NoRuns
    BY <1>1, MaintainsAlone
  <2> QED BY <1>1, <2>1, PublishIntact, PlanningIntact, PruneIntact, NoRebuild DEF Maintain
<1>2. ~Fault
  BY DEF Ordered, Typed, Fault
<1> QED BY <1>1, <1>2, IngestIntact, OthersIntact DEF MaintenanceNext

LEMMA InitIntact == MaintenanceInit => Intact
<1> SUFFICES ASSUME MaintenanceInit PROVE Intact
  OBVIOUS
<1>1. /\ damaged = {} /\ manifests = {} /\ run = [i \in Ingesters |-> IdleRun] /\ op = IdleOp
      /\ evidence = {}
  BY DEF MaintenanceInit, Init
<1>2. \A i \in Ingesters : run[i].phase = "idle"
  BY <1>1 DEF IdleRun
<1> QED BY <1>1, <1>2 DEF Intact, NewestServable, EvidenceServable, IdleOp

LEMMA StaysIntact ==
  ASSUME OneCommand = TRUE, MaxFaults = 0
  PROVE  MaintenanceSpec => [](Ordered /\ Intact)
<1>1. Ordered /\ Ordered' /\ Intact /\ [MaintenanceNext]_allVars => Intact'
  BY NextIntact
<1> QED BY <1>1, InitIntact, StaysOrdered, PTL DEF MaintenanceSpec

\* The newest partition and every partition recorded as evidence stay readable
\* whatever a prune deletes and wherever a command or an ingest run dies.
THEOREM RetainedIsServable ==
  ASSUME OneCommand = TRUE, MaxFaults = 0
  PROVE  MaintenanceSpec => []RetainedServable
<1>1. Ordered /\ Intact => RetainedServable
  BY DEF Ordered, Typed, Commands, IdleOp, OpPhases, Intact, RetainedServable, MaintenanceTypeOK
<1> QED BY <1>1, StaysIntact, PTL

\* No recovery, repair or prune takes a key away from the newest view.
THEOREM ViewIsKept ==
  ASSUME OneCommand = TRUE, MaxFaults = 0
  PROVE  MaintenanceSpec => MaintenanceKeepsView
<1> DEFINE Kept == Maintain => Served(manifests) \subseteq Served(manifests')
<1>1. ASSUME Ordered, Intact, Maintain PROVE Served(manifests) \subseteq Served(manifests')
  <2>1. CASE PublishManifest
    <3>1. /\ op.phase = "publish_manifest" /\ manifests' = manifests \cup {op.manifest}
          /\ manifests \subseteq Manifests
      BY <1>1, <2>1 DEF PublishManifest, Ordered, Typed, TypeOK
    <3>2. op.manifest \in Manifests
      BY <1>1, <3>1 DEF Ordered, Typed, Commands, IdleOp
    <3>3. /\ \A m \in manifests : m.at < op.manifest.at
          /\ Served(manifests) \subseteq DOMAIN op.manifest.frame
      BY <1>1, <3>1 DEF Ordered, Planned, Intact
    <3>4. Newest(manifests \cup {op.manifest}) = op.manifest
      BY <3>1, <3>2, <3>3, NewestAdded
    <3>5. Served(manifests') = DOMAIN op.manifest.frame
      BY <3>1, <3>4 DEF Served
    <3> QED BY <3>3, <3>5
  <2>2. CASE DropManifest
    <3>1. op.phase = "prune" /\ op.drop # {} /\ manifests' = manifests \ {NextDropped} /\ evidence' = evidence
      BY <2>2 DEF DropManifest
    <3>2. Left = op.drop
      BY <3>1 DEF Left
    <3>3. NextDropped \in op.drop /\ Left \cap Retained = {} /\ manifests # {} /\ Latest \in manifests
      BY <1>1, <3>1, PruneFacts
    <3>4. Latest' = Latest
      BY <1>1, <3>1, <3>2, <3>3, RetainedStays
    <3>5. manifests' # {}
      BY <3>1, <3>2, <3>3 DEF Retained
    <3> QED BY <3>3, <3>4, <3>5 DEF Served, Latest
  <2>3. CASE ~PublishManifest /\ ~DropManifest
    <3>1. manifests' = manifests
      BY <1>1, <2>3, NoRebuild
         DEF Maintain, vars, PlanRecovery, ApplyRecovery, RejectRecovery, PublishParquet, RejectPublish,
             PlanDoctor, DoctorHealthy, RestoreBronze, RejectDoctor, PlanPrune, RejectPrune, DropParquet,
             DropBronze, FinishPrune
    <3> QED BY <3>1
  <2> QED BY <2>1, <2>2, <2>3
<1>2. [][Kept]_allVars => MaintenanceKeepsView
  BY PTL DEF MaintenanceKeepsView
<1>3. Ordered /\ Intact /\ [MaintenanceNext]_allVars => [Kept]_allVars
  BY <1>1
<1> QED BY <1>2, <1>3, StaysIntact, PTL DEF MaintenanceSpec

===============================================================================
