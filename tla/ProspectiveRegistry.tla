------------------------- MODULE ProspectiveRegistry -------------------------
(***************************************************************************)
(* src/validation/prospective_registry.py: the bundle of strategy arms     *)
(* that are watched after the history everybody has seen, the identity     *)
(* hashes that seal it, and the log of observations a monitor run appends. *)
(*                                                                         *)
(* A hash is what it is taken of.  Arms are in the bundle's order, each    *)
(* reduced to its targets; role and objective are left out, an edit of     *)
(* them is caught by the same comparison.  What an arm earned is left out. *)
(***************************************************************************)
EXTENDS ResearchRecords, SequencesExt

CONSTANTS
  Targets,         \* the weights an arm may have
  FirstBundles,    \* the bundle files there may be at first
  Dates,           \* dates a monitor may be asked for
  Cutoff,          \* SEEN_HISTORY_CUTOFF
  MaxEdits         \* bound on the edits and freezes of the bundle file

Unsealed == <<>>
NoHash == <<>>

Identities == [start : Dates, arms : Seq(Targets)]
Bundles ==
  [start : Dates, arms : Seq(Targets),
   seals : Seq({Unsealed} \union ({"full"} \X Nat \X Targets \X Dates) \union ({"legacy"} \X Targets)),
   hash : {NoHash} \union Identities, commit : Nat, migration : BOOLEAN, approved : SUBSET Nat]

ASSUME RegistryAssumption ==
  /\ Dates \subseteq Nat /\ Cutoff \in Nat /\ MaxEdits \in Nat
  /\ FirstBundles \subseteq Bundles

VARIABLES
  bundle,   \* the file the operator names
  log,      \* prospective_observations.jsonl
  edits
registryVars == <<bundle, log, edits>>

\* strategy_arm_identity_hash with the bundle and the arm, and the one older
\* bundles carry, of the configuration alone.
FullHash(b, i) == <<"full", i, b.arms[i], b.start>>
LegacyHash(b, i) == <<"legacy", b.arms[i]>>
BundleHash(b) == [start |-> b.start, arms |-> b.arms]
\* A hash comes with the seals: freezing writes both, older bundles had both.
ASSUME FirstBundlesAssumption ==
  \A b \in FirstBundles : b.hash # NoHash =>
    /\ b.hash = BundleHash(b) /\ DOMAIN b.seals = DOMAIN b.arms
    /\ \A i \in DOMAIN b.arms : b.seals[i] \in {FullHash(b, i), LegacyHash(b, i)}

RegistryInit ==
  /\ Init
  /\ bundle \in FirstBundles
  /\ log = <<>> /\ edits = 0

----------------------------------------------------------------------------
(* The monitor.                                                            *)

LoadBundle ==
  /\ At("bundle")
  /\ \E day \in Dates : Done([run EXCEPT !.file = bundle, !.asOf = day])
  /\ UNCHANGED <<world, files, plans, registryVars>>

\* assert_runtime_engine_commit, for a bundle that names the commit it was
\* frozen at.
EngineApproved(b, commit) ==
  \/ b.commit = 0
  \/ b.commit = commit
  \/ b.migration /\ commit \in b.approved
Observable(day) == day > Cutoff
Admissible ==
  /\ Observable(run.asOf)
  /\ EngineApproved(run.file, run.commit)
  /\ run.file.start <= run.asOf
Admit ==
  /\ At("admit") /\ Admissible /\ Done(run)
  /\ UNCHANGED <<world, files, plans, registryVars>>

IdentityIgnored(b, i) == TRUE
IdentityHolds(b, i) == b.seals[i] \in {Unsealed, FullHash(b, i), LegacyHash(b, i)}
\* The bundle hash of the file is trusted; one without is hashed.
HashOf(b) == IF b.hash = NoHash THEN BundleHash(b) ELSE b.hash
Observation(arm) ==
  [asOf |-> run.asOf, arm |-> arm, targets |-> run.file.arms[arm], frozen |-> run.file.commit,
   runtime |-> run.commit, hash |-> HashOf(run.file)]
NextArm == Len(run.block) + 1
\* One arm is run, from the store as it is then.
Observe ==
  /\ At("observe") /\ NextArm <= Len(run.file.arms)
  /\ IdentityHolds(run.file, NextArm)
  /\ Resolvable
  /\ run' = [run EXCEPT !.block = Append(@, Observation(NextArm))]
  /\ UNCHANGED <<world, files, plans, registryVars>>
AllObserved ==
  /\ At("observe") /\ NextArm > Len(run.file.arms) /\ Done(run)
  /\ UNCHANGED <<world, files, plans, registryVars>>
AppendBlockTruncating ==
  /\ At("append")
  /\ log' = run.block
  /\ run' = NoRun
  /\ UNCHANGED <<world, files, plans, bundle, edits>>
\* What is left of a line that was not written to its end.  The next line
\* appended is glued to it and no more readable.
Fragment == [torn |-> TRUE]
Landing == IF log # <<>> /\ Last(log) = Fragment /\ run.block # <<>> THEN Tail(run.block) ELSE run.block
AppendBlock ==
  /\ At("append")
  /\ log' = log \o Landing
  /\ run' = NoRun
  /\ UNCHANGED <<world, files, plans, bundle, edits>>
\* The process dies in the write, between two lines or inside one.
TearBlock ==
  /\ At("append") /\ deaths < MaxDeaths
  /\ \E n \in 0 .. Len(Landing) - 1, torn \in {<<>>, <<Fragment>>} : log' = log \o (SubSeq(Landing, 1, n) \o torn)
  /\ run' = NoRun /\ deaths' = deaths + 1
  /\ UNCHANGED <<world, files, agenda, bundle, edits>>
RefuseMonitor ==
  /\ \/ At("admit") /\ ~Admissible
     \/ /\ At("observe") /\ NextArm <= Len(run.file.arms)
        /\ ~IdentityHolds(run.file, NextArm) \/ ~Resolvable
  /\ run' = NoRun
  /\ UNCHANGED <<world, files, plans, registryVars>>

----------------------------------------------------------------------------
(* The bundle file.                                                        *)

\* freeze_prospective_bundle: it seals what the file now says, over an earlier
\* freeze of the same bundle.
FreezeBundle ==
  /\ \E cmd \in Ahead : Does(cmd, "bundle")
  /\ Quiet /\ edits < MaxEdits
  /\ bundle' = [bundle EXCEPT !.seals = [i \in DOMAIN bundle.arms |-> FullHash(bundle, i)],
                              !.hash = BundleHash(bundle), !.commit = head]
  /\ edits' = edits + 1
  /\ UNCHANGED <<world, files, plans, run, log>>
\* Somebody edits an arm or the start; the hashes stay what they were.
EditBundle ==
  /\ \E cmd \in Ahead : Does(cmd, "bundle")
  /\ Quiet /\ edits < MaxEdits
  /\ \/ \E i \in DOMAIN bundle.arms, t \in Targets : bundle' = [bundle EXCEPT !.arms[i] = t]
     \/ \E day \in Dates : bundle' = [bundle EXCEPT !.start = day]
  /\ edits' = edits + 1
  /\ UNCHANGED <<world, files, plans, run, log>>

RegistryStep ==
  \/ LoadBundle \/ Admit \/ Observe \/ AllObserved \/ AppendBlock \/ TearBlock \/ RefuseMonitor
  \/ FreezeBundle \/ EditBundle

----------------------------------------------------------------------------

\* Whatever was edited, frozen again or committed between the runs: a readable
\* observation is of a day after the seen history, made by the engine the bundle
\* was frozen with or an approved one, and of the targets its bundle hash names.
ObservationsAuthentic ==
  \A n \in DOMAIN log : log[n] # Fragment =>
    LET o == log[n]
    IN /\ o.asOf > Cutoff
       /\ o.frozen # 0 => o.runtime = o.frozen \/ (bundle.migration /\ o.runtime \in bundle.approved)
       /\ o.targets = o.hash.arms[o.arm]
=============================================================================
