----------------------------- MODULE ResultStore -----------------------------
(***************************************************************************)
(* The run artifacts of one experiment directory: a JSON file and, for     *)
(* some runs, a Markdown sidecar, recorded by a line of the append-only    *)
(* ledger runs.jsonl.  Commands write results, prune old ones, promote one *)
(* into the curated evidence and migrate the outputs of the earlier flat   *)
(* layout.  Each file is written or removed by a step of its own, so a     *)
(* command may die, or another one may act, between any two of them.       *)
(* Contents stand for payloads: the JSON and the sidecar of one write are  *)
(* rendered from the same one.  A temporary file is never read by anyone   *)
(* and is left out; os.replace is the step that shows.                     *)
(***************************************************************************)
EXTENDS Integers, FiniteSets, Sequences, SequencesExt

CONSTANTS
  Procs,            \* command processes
  Runs,             \* (kind, run id) pairs with a slug of their own
  KindOf,           \* the kind of every run
  Sidecar,          \* runs whose writer renders Markdown too
  Legacy,           \* runs of kind LEGACY and files below _legacy
  Unrecorded,       \* the latter: they get no ledger line
  Sources,          \* outputs of the flat layout
  DestOf,           \* where a source is migrated to
  Contents,         \* payloads
  Promotable,       \* bound: the runs the operator promotes
  KeepChoices,      \* values of --keep the operator uses
  MaintenanceAlone, \* TRUE when results commands run with nothing else
  MaxWrites,        \* bound: results written
  MaxDeaths         \* bound: commands that die

Absent == "absent"
Torn == "torn"
Forms == {"json", "md"}

ASSUME ResultStoreAssumption ==
  /\ IsFiniteSet(Procs) /\ IsFiniteSet(Runs) /\ IsFiniteSet(Sources)
  /\ Unrecorded \subseteq Legacy /\ Legacy \subseteq Runs /\ Sidecar \subseteq Runs \ Legacy
  /\ Absent \notin Contents /\ Torn \notin Contents
  /\ Promotable \subseteq Runs \ Unrecorded
  /\ DestOf \in [Sources -> Legacy]
  /\ KeepChoices \subseteq Nat \ {0} /\ KeepChoices # {} /\ MaintenanceAlone \in BOOLEAN
  /\ MaxWrites \in Nat /\ MaxDeaths \in Nat

VARIABLES
  files,     \* the artifacts on disk
  ledger,    \* lines of runs.jsonl
  flat,      \* files of the flat layout still in place
  promoted,  \* the curated copies below data/research
  proc,      \* what every process is doing
  writes,    \* results begun so far
  deaths,    \* commands that died so far
  newest,    \* history: the latest stamp a run was ever recorded with
  unlisted,  \* history: runs whose command died before their ledger line
  mixed      \* history: runs written by two processes at once or by one that died

vars == <<files, ledger, flat, promoted, proc, writes, deaths, newest, unlisted, mixed>>

Idle == [phase |-> "idle"]
Busy(p) == proc[p].phase # "idle"
Writing(p) == proc[p].phase \in {"json", "md", "stamped"}

\* A results command waits for every other command, a writer for results commands.
MayMaintain(p) == ~Busy(p) /\ (MaintenanceAlone => \A q \in Procs : ~Busy(q))
MayWrite(p) == ~Busy(p) /\ (MaintenanceAlone => \A q \in Procs : Busy(q) => Writing(q))

Lines(r) == {i \in DOMAIN ledger : ledger[i].run = r}
Recorded == {ledger[i].run : i \in DOMAIN ledger}

\* datetime.now is later than every stamp taken before it.
Now == 1 + Max({newest[r] : r \in Runs}
               \cup {proc[p].at : p \in {q \in Procs : proc[q].phase = "stamped"}})

TypeOK ==
  /\ files \in [Runs -> [Forms -> Contents \cup {Absent}]]
  /\ \A i \in DOMAIN ledger : ledger[i].run \in Runs /\ ledger[i].at \in Nat
  /\ flat \subseteq Sources \X Forms
  /\ promoted \in [Runs -> [Forms -> Contents \cup {Absent, Torn}]]
  /\ \A p \in Procs : proc[p].phase \in {"idle", "json", "md", "stamped", "unlink", "unlinkmd", "rewrite",
                                         "promote", "copy", "move", "record"}
  /\ writes \in 0..MaxWrites /\ deaths \in 0..MaxDeaths
  /\ newest \in [Runs -> Nat] /\ unlisted \subseteq Runs /\ mixed \subseteq Runs

Init ==
  /\ files = [r \in Runs |-> [f \in Forms |-> Absent]]
  /\ ledger = <<>>
  /\ flat \in SUBSET (Sources \X Forms)
  /\ \A s \in Sources : <<s, "md">> \in flat => <<s, "json">> \in flat
  /\ promoted = [r \in Runs |-> [f \in Forms |-> Absent]]
  /\ proc = [p \in Procs |-> Idle]
  /\ writes = 0 /\ deaths = 0
  /\ newest = [r \in Runs |-> 0] /\ unlisted = {} /\ mixed = {}

-----------------------------------------------------------------------------
(* write_result *)

WriteJson(p, r, c) ==
  /\ MayWrite(p) /\ writes < MaxWrites
  /\ files' = [files EXCEPT ![r]["json"] = c]
  /\ proc' = [proc EXCEPT ![p] = [phase |-> "json", run |-> r, content |-> c]]
  /\ writes' = writes + 1
  /\ mixed' = IF \E q \in Procs : Writing(q) /\ proc[q].run = r THEN mixed \cup {r} ELSE mixed
  /\ UNCHANGED <<ledger, flat, promoted, deaths, newest, unlisted>>

WriteMarkdown(p) ==
  /\ proc[p].phase = "json" /\ proc[p].run \in Sidecar
  /\ files' = [files EXCEPT ![proc[p].run]["md"] = proc[p].content]
  /\ proc' = [proc EXCEPT ![p].phase = "md"]
  /\ UNCHANGED <<ledger, flat, promoted, writes, deaths, newest, unlisted, mixed>>

\* record_run takes the time, then opens the ledger for appending.
StampRun(p) ==
  /\ \/ proc[p].phase = "json" /\ proc[p].run \notin Sidecar
     \/ proc[p].phase = "md"
  /\ proc' = [proc EXCEPT ![p] = [phase |-> "stamped", run |-> proc[p].run, at |-> Now]]
  /\ UNCHANGED <<files, ledger, flat, promoted, writes, deaths, newest, unlisted, mixed>>

\* Mutant: the kind is written where the run id belongs.
AppendLineMisplaced(p) ==
  /\ proc[p].phase = "stamped"
  /\ ledger' = Append(ledger, [run |-> KindOf[proc[p].run], at |-> proc[p].at])
  /\ proc' = [proc EXCEPT ![p] = Idle]
  /\ UNCHANGED <<files, flat, promoted, writes, deaths, newest, unlisted, mixed>>

AppendLine(p) ==
  /\ proc[p].phase = "stamped"
  /\ ledger' = Append(ledger, [run |-> proc[p].run, at |-> proc[p].at])
  /\ newest' = [newest EXCEPT ![proc[p].run] = Max({@, proc[p].at})]
  /\ unlisted' = unlisted \ {proc[p].run}
  /\ proc' = [proc EXCEPT ![p] = Idle]
  /\ UNCHANGED <<files, flat, promoted, writes, deaths, mixed>>

-----------------------------------------------------------------------------
(* maintain results prune *)

LatestAt(r) == Max({ledger[i].at : i \in Lines(r)})

\* Mutant: a run is as old as its first line.
FirstAt(r) == Min({ledger[i].at : i \in Lines(r)})
BeyondByFirst(keep) ==
  {r \in Recorded \ Legacy :
     Cardinality({s \in Recorded \ Legacy : KindOf[s] = KindOf[r] /\ FirstAt(s) > FirstAt(r)}) >= keep}

\* plan_result_prune: all but the newest runs of every kind but LEGACY.
Beyond(keep) ==
  {r \in Recorded \ Legacy :
     Cardinality({s \in Recorded \ Legacy : KindOf[s] = KindOf[r] /\ LatestAt(s) > LatestAt(r)}) >= keep}

PlanPrune(p, keep) ==
  /\ MayMaintain(p)
  /\ Beyond(keep) # {}
  /\ proc' = [proc EXCEPT ![p] = [phase |-> "unlink", keep |-> keep, todo |-> Beyond(keep), pruned |-> Beyond(keep)]]
  /\ UNCHANGED <<files, ledger, flat, promoted, writes, deaths, newest, unlisted, mixed>>

\* A file another process removed already is passed over.
UnlinkJson(p, r) ==
  /\ proc[p].phase = "unlink" /\ r \in proc[p].todo
  /\ files' = [files EXCEPT ![r]["json"] = Absent]
  /\ proc' = [proc EXCEPT ![p] = [phase |-> "unlinkmd", run |-> r, keep |-> @.keep,
                                  todo |-> @.todo \ {r}, pruned |-> @.pruned]]
  /\ UNCHANGED <<ledger, flat, promoted, writes, deaths, newest, unlisted, mixed>>

UnlinkMarkdown(p) ==
  /\ proc[p].phase = "unlinkmd"
  /\ files' = [files EXCEPT ![proc[p].run]["md"] = Absent]
  /\ proc' = [proc EXCEPT ![p] = [phase |-> "unlink", keep |-> @.keep, todo |-> @.todo, pruned |-> @.pruned]]
  /\ UNCHANGED <<ledger, flat, promoted, writes, deaths, newest, unlisted, mixed>>

\* The loop over the ledger's lines: what is kept of the first n of them.
KeptUpTo(pruned) ==
  LET kept[n \in 0 .. Len(ledger)] ==
        IF n = 0 THEN <<>>
        ELSE IF ledger[n].run \in pruned THEN kept[n - 1] ELSE Append(kept[n - 1], ledger[n])
  IN  kept

\* Mutants: only the lines older than a run's newest are dropped; the kept
\* lines are sorted anew; the key compared is the kind alone.
KeptLatest(pruned) ==
  SelectSeq(ledger, LAMBDA line : line.run \notin pruned \/ line.at = LatestAt(line.run))
KeptReversed(pruned) == Reverse(SelectSeq(ledger, LAMBDA line : line.run \notin pruned))
KeptOtherKinds(pruned) ==
  SelectSeq(ledger, LAMBDA line : KindOf[line.run] \notin {KindOf[r] : r \in pruned})

Kept(pruned) == KeptUpTo(pruned)[Len(ledger)]

\* _drop_pruned_ledger_lines reads the ledger; without a change it stops here.
ReadLedger(p) ==
  /\ proc[p].phase = "unlink" /\ proc[p].todo = {}
  /\ proc' = [proc EXCEPT ![p] = IF Len(Kept(proc[p].pruned)) = Len(ledger) THEN Idle
                                 ELSE [phase |-> "rewrite", keep |-> proc[p].keep,
                                       pruned |-> proc[p].pruned, kept |-> Kept(proc[p].pruned)]]
  /\ UNCHANGED <<files, ledger, flat, promoted, writes, deaths, newest, unlisted, mixed>>

ReplaceLedger(p) ==
  /\ proc[p].phase = "rewrite"
  /\ ledger' = proc[p].kept
  /\ proc' = [proc EXCEPT ![p] = Idle]
  /\ UNCHANGED <<files, flat, promoted, writes, deaths, newest, unlisted, mixed>>

-----------------------------------------------------------------------------
(* maintain results promote *)

\* promote_result goes on to the sidecar once the JSON is in place.
AfterCopy(r, form) == IF form = "json" THEN [phase |-> "promote", run |-> r] ELSE Idle

StartCopy(p, r, form) ==
  /\ promoted' = [promoted EXCEPT ![r][form] = Torn]
  /\ proc' = [proc EXCEPT ![p] = [phase |-> "copy", run |-> r, form |-> form, content |-> files[r][form]]]

\* Mutants: the copy replaces whatever is there; a copy that exists is
\* passed over.
CopyIdenticalOverwriting(p, r, form) == StartCopy(p, r, form)
CopyIdenticalSkipping(p, r, form) ==
  \/ promoted[r][form] = Absent /\ StartCopy(p, r, form)
  \/ promoted[r][form] # Absent /\ proc' = [proc EXCEPT ![p] = AfterCopy(r, form)] /\ UNCHANGED promoted

\* _copy_identical: equal bytes are left alone, other bytes refuse the command
\* and a missing copy is created by shutil.copyfile, which fills it in place.
CopyIdentical(p, r, form) ==
  \/ /\ promoted[r][form] = files[r][form]
     /\ proc' = [proc EXCEPT ![p] = AfterCopy(r, form)]
     /\ UNCHANGED promoted
  \/ /\ promoted[r][form] \notin {Absent, files[r][form]}
     /\ proc' = [proc EXCEPT ![p] = Idle]
     /\ UNCHANGED promoted
  \/ promoted[r][form] = Absent /\ StartCopy(p, r, form)

Promote(p, r) ==
  /\ MayMaintain(p)
  /\ files[r]["json"] # Absent
  /\ CopyIdentical(p, r, "json")
  /\ UNCHANGED <<files, ledger, flat, writes, deaths, newest, unlisted, mixed>>

PromoteMarkdown(p) ==
  /\ proc[p].phase = "promote"
  /\ \/ /\ files[proc[p].run]["md"] = Absent
        /\ proc' = [proc EXCEPT ![p] = Idle]
        /\ UNCHANGED promoted
     \/ /\ files[proc[p].run]["md"] # Absent
        /\ CopyIdentical(p, proc[p].run, "md")
  /\ UNCHANGED <<files, ledger, flat, writes, deaths, newest, unlisted, mixed>>

FinishCopy(p) ==
  /\ proc[p].phase = "copy"
  /\ promoted' = [promoted EXCEPT ![proc[p].run][proc[p].form] = proc[p].content]
  /\ proc' = [proc EXCEPT ![p] = AfterCopy(proc[p].run, proc[p].form)]
  /\ UNCHANGED <<files, ledger, flat, writes, deaths, newest, unlisted, mixed>>

-----------------------------------------------------------------------------
(* maintain results migrate *)

Moves == {m \in flat : <<m[1], "json">> \in flat}

\* Mutant: only files already in place are looked at, not the other sources.
NoCollisionOnDisk == \A m \in Moves : files[DestOf[m[1]]][m[2]] = Absent

\* plan_result_migration rejects the whole plan when two files go to one
\* place or a destination exists.
NoCollision ==
  /\ \A m \in Moves : files[DestOf[m[1]]][m[2]] = Absent
  /\ \A m, n \in Moves : m[2] = n[2] /\ DestOf[m[1]] = DestOf[n[1]] => m = n

PlanMigration(p) ==
  /\ MayMaintain(p)
  /\ Moves # {} /\ NoCollision
  /\ proc' = [proc EXCEPT ![p] = [phase |-> "move", moves |-> Moves,
                                  entries |-> {DestOf[m[1]] : m \in Moves} \ Unrecorded]]
  /\ UNCHANGED <<files, ledger, flat, promoted, writes, deaths, newest, unlisted, mixed>>

\* src.replace(dest), a JSON before its sidecar; one source has one payload.
MoveFile(p, m, c) ==
  /\ proc[p].phase = "move" /\ m \in proc[p].moves /\ m \in flat
  /\ m[2] = "md" => <<m[1], "json">> \notin proc[p].moves
  /\ m[2] = "md" => c = files[DestOf[m[1]]]["json"]
  /\ files' = [files EXCEPT ![DestOf[m[1]]][m[2]] = c]
  /\ flat' = flat \ {m}
  /\ proc' = [proc EXCEPT ![p].moves = @ \ {m}]
  /\ UNCHANGED <<ledger, promoted, writes, deaths, newest, unlisted, mixed>>

\* The lines follow all moves, stamped with the age of the source.
RecordMigrated(p, r) ==
  /\ proc[p].phase = "move" /\ proc[p].moves = {} /\ r \in proc[p].entries
  /\ ledger' = Append(ledger, [run |-> r, at |-> 0])
  /\ unlisted' = unlisted \ {r}
  /\ proc' = [proc EXCEPT ![p].entries = @ \ {r}]
  /\ UNCHANGED <<files, flat, promoted, writes, deaths, newest, mixed>>

FinishMigration(p) ==
  /\ proc[p].phase = "move" /\ proc[p].moves = {} /\ proc[p].entries = {}
  /\ proc' = [proc EXCEPT ![p] = Idle]
  /\ UNCHANGED <<files, ledger, flat, promoted, writes, deaths, newest, unlisted, mixed>>

-----------------------------------------------------------------------------

\* What a dying command leaves without a line or half written.
LeftUnlisted(p) ==
  CASE Writing(p) -> {proc[p].run}
    [] proc[p].phase = "move" -> proc[p].entries
    [] OTHER -> {}

Die(p) ==
  /\ Busy(p) /\ deaths < MaxDeaths
  /\ deaths' = deaths + 1
  /\ proc' = [proc EXCEPT ![p] = Idle]
  /\ unlisted' = unlisted \cup LeftUnlisted(p)
  /\ mixed' = IF proc[p].phase = "json" THEN mixed \cup {proc[p].run} ELSE mixed
  /\ UNCHANGED <<files, ledger, flat, promoted, writes, newest>>

Step(p) ==
  \/ \E r \in Runs \ Legacy, c \in Contents : WriteJson(p, r, c)
  \/ WriteMarkdown(p) \/ StampRun(p) \/ AppendLine(p)
  \/ \E keep \in KeepChoices : PlanPrune(p, keep)
  \/ \E r \in Runs : UnlinkJson(p, r)
  \/ UnlinkMarkdown(p) \/ ReadLedger(p) \/ ReplaceLedger(p)
  \/ \E r \in Promotable : Promote(p, r)
  \/ PromoteMarkdown(p) \/ FinishCopy(p)
  \/ PlanMigration(p)
  \/ \E m \in flat, c \in Contents : MoveFile(p, m, c)
  \/ \E r \in Legacy : RecordMigrated(p, r)
  \/ FinishMigration(p)

Next == \E p \in Procs : Step(p) \/ Die(p)

Spec == Init /\ [][Next]_vars

-----------------------------------------------------------------------------
(* Properties *)

\* Every artifact can be found by a reader of the ledger (list, prune): one
\* without a line belongs to a command still at work, or to one that died
\* between its artifact and its line (result_store.py:186, and a migration
\* that died between its moves and its lines, result_maintenance.py:347).
NoHiddenRun ==
  \A r \in Runs \ Unrecorded :
    files[r]["json"] # Absent /\ r \notin Recorded =>
      \/ r \in unlisted
      \/ \E p \in Procs : \/ Writing(p) /\ proc[p].run = r
                          \/ proc[p].phase = "move" /\ r \in proc[p].entries

\* However often runs are rewritten and prunes die and start again with
\* another --keep, the most recently recorded runs of every kind are on disk:
\* as many as the smallest --keep ever used.
NewestKept ==
  \A r \in Runs \ Legacy :
    /\ newest[r] > 0
    /\ Cardinality({s \in Runs \ Legacy : KindOf[s] = KindOf[r] /\ newest[s] > newest[r]}) < Min(KeepChoices)
    => files[r]["json"] # Absent

\* A finished prune is final: none of the runs it planned is on disk or has a
\* line, and the same prune again would find nothing to do, also when an
\* earlier one had died half way.
PruneSettles ==
  [][\A p \in Procs :
       (ReadLedger(p) /\ ~Busy(p)') \/ ReplaceLedger(p) =>
         /\ \A r \in proc[p].pruned : files'[r] = [f \in Forms |-> Absent] /\ r \notin Recorded'
         /\ \A keep \in {proc[p].keep} : (Beyond(keep) = {})']_vars

\* The ledger grows by one line at its end or forgets runs, every line of
\* them, and never reorders or repeats what is left.
LedgerHistory ==
  [][\/ ledger' = ledger
     \/ ledger' = Append(ledger, Last(ledger'))
     \/ \E gone \in SUBSET Recorded : ledger' = KeptUpTo(gone)[Len(ledger)]]_vars

\* A complete curated copy is never changed again, whatever is written later
\* under the same run id (promote_result's "never silently overwritten").
PromotedNeverOverwritten ==
  [][\A r \in Runs, f \in Forms : promoted[r][f] \in Contents => promoted'[r][f] = promoted[r][f]]_vars

\* The JSON and the sidecar of a curated result come from one write, also
\* when the promotion died between the two and the run was rewritten before
\* it was tried again.  Only runs two processes wrote at once, or one died
\* writing, may mix.
PromotedPairMatches ==
  \A r \in Sidecar \ mixed :
    promoted[r]["json"] \in Contents /\ promoted[r]["md"] \in Contents
      => promoted[r]["json"] = promoted[r]["md"]

\* A migration keeps every file of the flat layout, in place or at its
\* destination: two sources never collapse into one file.
Migrated(f) == Cardinality({s \in Sources : <<s, f>> \in flat})
               + Cardinality({r \in Legacy : files[r][f] # Absent})
MigrationLosesNothing == [][\A f \in Forms : Migrated(f)' = Migrated(f)]_vars

\* Whatever dies or interleaves, results are where a reader looks: listed, the
\* newest of every kind still there, curated files in matching pairs.
ResultsKept == TypeOK /\ NoHiddenRun /\ NewestKept /\ PromotedPairMatches

\* And nothing that was once recorded is rewritten: curated copies are final,
\* the ledger only grows or forgets, a migration keeps every file.
NothingRewritten == PromotedNeverOverwritten /\ LedgerHistory /\ MigrationLosesNothing
=============================================================================
