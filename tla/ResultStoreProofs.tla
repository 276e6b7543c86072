--------------------------- MODULE ResultStoreProofs ---------------------------
(***************************************************************************)
(* Proofs about ResultStore for any processes, runs, kinds, payloads,      *)
(* --keep choices and bounds, under the discipline MaintenanceAlone: a     *)
(* results command runs with no other command, writers may overlap.        *)
(***************************************************************************)
EXTENDS ResultStore, SequenceTheorems, RecursionTheorems

-----------------------------------------------------------------------------
(* The inductive invariant *)

Entries == [run : Runs, at : Nat]
Authored == Runs \ Legacy

ProcStates ==
  {Idle}
  \cup [phase : {"json"}, run : Authored, content : Contents]
  \cup [phase : {"md"}, run : Authored \cap Sidecar, content : Contents]
  \cup [phase : {"stamped"}, run : Authored, at : Nat \ {0}]
  \cup [phase : {"unlink"}, keep : KeepChoices, todo : SUBSET Authored, pruned : SUBSET Authored]
  \cup [phase : {"unlinkmd"}, run : Authored, keep : KeepChoices, todo : SUBSET Authored, pruned : SUBSET Authored]
  \cup [phase : {"rewrite"}, keep : KeepChoices, pruned : SUBSET Authored, kept : Seq(Entries)]
  \cup [phase : {"promote"}, run : Runs]
  \cup [phase : {"copy"}, run : Runs, form : Forms, content : Contents]
  \cup [phase : {"move"}, moves : SUBSET (Sources \X Forms), entries : SUBSET Legacy]

Typed ==
  /\ files \in [Runs -> [Forms -> Contents \cup {Absent}]]
  /\ ledger \in Seq(Entries)
  /\ flat \subseteq Sources \X Forms
  /\ promoted \in [Runs -> [Forms -> Contents \cup {Absent, Torn}]]
  /\ proc \in [Procs -> ProcStates]
  /\ writes \in 0..MaxWrites /\ deaths \in 0..MaxDeaths
  /\ newest \in [Runs -> Nat] /\ unlisted \subseteq Runs /\ mixed \subseteq Runs

Gone(r) == files[r]["json"] = Absent /\ files[r]["md"] = Absent

\* A writer's JSON is on disk, and its own payload unless someone mixed in.
WriterOK(p) ==
  /\ files[proc[p].run]["json"] # Absent
  /\ proc[p].phase = "json" /\ proc[p].run \notin mixed => files[proc[p].run]["json"] = proc[p].content
  /\ proc[p].phase = "stamped" => proc[p].at > newest[proc[p].run] \/ proc[p].run \in Recorded
  /\ \A q \in Procs \ {p} : Writing(q) /\ proc[q].run = proc[p].run => proc[p].run \in mixed

Pruning(p) == proc[p].phase \in {"unlink", "unlinkmd", "rewrite"}

\* A prune still plans what it planned, and has removed what it passed.
PrunerOK(p) ==
  /\ proc[p].pruned = Beyond(proc[p].keep)
  /\ proc[p].phase \in {"unlink", "unlinkmd"} => proc[p].todo \subseteq proc[p].pruned
  /\ proc[p].phase = "unlink" => \A r \in proc[p].pruned \ proc[p].todo : Gone(r)
  /\ proc[p].phase = "unlinkmd" =>
       /\ proc[p].run \in proc[p].pruned
       /\ files[proc[p].run]["json"] = Absent
       /\ \A r \in proc[p].pruned \ (proc[p].todo \cup {proc[p].run}) : Gone(r)
  /\ proc[p].phase = "rewrite" => proc[p].kept = Kept(proc[p].pruned) /\ \A r \in proc[p].pruned : Gone(r)

Promoting(p) == proc[p].phase \in {"promote", "copy"}

\* A promotion copies what is on disk, the JSON before the sidecar.
PromoterOK(p) ==
  /\ proc[p].phase = "copy" => promoted[proc[p].run][proc[p].form] = Torn
                               /\ proc[p].content = files[proc[p].run][proc[p].form]
  /\ proc[p].phase = "promote" \/ proc[p].form = "md" =>
       promoted[proc[p].run]["json"] = files[proc[p].run]["json"] /\ files[proc[p].run]["json"] # Absent

\* A migration's moves go to free places of their own, all to be recorded.
MoverOK(p) ==
  /\ \A m \in proc[p].moves : /\ m \in flat
                              /\ files[DestOf[m[1]]][m[2]] = Absent
                              /\ DestOf[m[1]] \in proc[p].entries \cup Unrecorded
  /\ \A m, n \in proc[p].moves : m[2] = n[2] /\ DestOf[m[1]] = DestOf[n[1]] => m = n

ProcOK(p) ==
  /\ Writing(p) => WriterOK(p)
  /\ Pruning(p) => PrunerOK(p)
  /\ Promoting(p) => PromoterOK(p)
  /\ proc[p].phase = "move" => MoverOK(p)

\* The discipline: whoever is not writing is busy alone.
Exclusive == \A p, q \in Procs : Busy(p) /\ ~Writing(p) /\ p # q => ~Busy(q)

\* newest is what the ledger says of every run it still lists.
LedgerTimes ==
  \A r \in Authored : r \in Recorded =>
    /\ newest[r] > 0
    /\ \E i \in Lines(r) : ledger[i].at = newest[r]
    /\ \A i \in Lines(r) : ledger[i].at =< newest[r]

\* A run nobody is writing has both files of one write.
FilesPair ==
  \A r \in Sidecar \ mixed :
    files[r]["json"] # Absent /\ (\A p \in Procs : ~(proc[p].phase = "json" /\ proc[p].run = r))
      => files[r]["md"] = files[r]["json"]

JsonFirst == \A r \in Runs : promoted[r]["md"] # Absent => promoted[r]["json"] \in Contents

IInv ==
  /\ Typed
  /\ \A p \in Procs : ProcOK(p)
  /\ Exclusive
  /\ LedgerTimes
  /\ FilesPair
  /\ JsonFirst
  /\ NoHiddenRun
  /\ NewestKept
  /\ PromotedPairMatches

-----------------------------------------------------------------------------
(* Numbers *)

-----------------------------------------------------------------------------
(* The ledger filter *)

\* The loop of _drop_pruned_ledger_lines is well defined.
LEMMA KeptLoop ==
  ASSUME NEW P, ledger \in Seq(Entries)
  PROVE  KeptUpTo(P) = [n \in 0 .. Len(ledger) |->
           IF n = 0 THEN <<>>
           ELSE IF ledger[n].run \in P THEN KeptUpTo(P)[n - 1] ELSE Append(KeptUpTo(P)[n - 1], ledger[n])]
<1> DEFINE body(g, n) == IF n = 0 THEN <<>>
                         ELSE IF ledger[n].run \in P THEN g[n - 1] ELSE Append(g[n - 1], ledger[n])
           S == {m \in Nat : \E g : g = [n \in 0 .. m |-> body(g, n)]}
<1>1. 0 \in S
  <2> DEFINE g == [n \in 0 .. 0 |-> <<>>]
  <2>1. g = [n \in 0 .. 0 |-> body(g, n)]
    OBVIOUS
  <2> QED BY <2>1
<1>2. ASSUME NEW m \in Nat, m \in S PROVE m + 1 \in S
  <2>1. PICK g : g = [n \in 0 .. m |-> body(g, n)]
    BY <1>2
  <2> DEFINE h == [n \in 0 .. m + 1 |-> IF n = m + 1 THEN body(g, n) ELSE g[n]]
  <2>2. ASSUME NEW n \in 0 .. m + 1 PROVE h[n] = body(h, n)
    <3>1. CASE n = 0
      BY <2>1, <3>1
    <3>2. CASE n # 0
      <4>1. n - 1 \in 0 .. m /\ h[n - 1] = g[n - 1]
        BY <3>2
      <4>2. CASE n = m + 1
        BY <3>2, <4>1, <4>2
      <4>3. CASE n # m + 1
        <5>1. n \in 0 .. m
          BY <4>3
        <5>2. g[n] = body(g, n)
          <6> HIDE DEF body
          <6> QED BY <2>1, <5>1
        <5> QED BY <3>2, <4>1, <4>3, <5>1, <5>2
      <4> QED BY <4>2, <4>3
    <3> QED BY <3>1, <3>2
  <2>3. h = [n \in 0 .. m + 1 |-> body(h, n)]
    <3> HIDE DEF body
    <3> QED BY <2>2
  <2>4. \E f : f = [n \in 0 .. m + 1 |-> body(f, n)]
    <3> HIDE DEF h, body
    <3> QED BY <2>3
  <2> QED BY <2>4
<1>3. Len(ledger) \in S
  <2> HIDE DEF S
  <2> QED BY <1>1, <1>2, CountsUp
<1> QED BY <1>3 DEF KeptUpTo

\* What it keeps: the lines of the other runs, all of them and no other.
LEMMA KeptFacts ==
  ASSUME NEW P, ledger \in Seq(Entries)
  PROVE  /\ Kept(P) \in Seq(Entries)
         /\ \A j \in 1 .. Len(Kept(P)) : \E i \in 1 .. Len(ledger) : ledger[i] = Kept(P)[j] /\ ledger[i].run \notin P
         /\ \A i \in 1 .. Len(ledger) : ledger[i].run \notin P => \E j \in 1 .. Len(Kept(P)) : Kept(P)[j] = ledger[i]
         /\ Len(Kept(P)) = Len(ledger) => \A i \in 1 .. Len(ledger) : ledger[i].run \notin P
<1>0. PICK K : K = KeptUpTo(P)
  OBVIOUS
<1> DEFINE N == Len(ledger)
           good(n) ==
             /\ K[n] \in Seq(Entries) /\ Len(K[n]) =< n
             /\ \A j \in 1 .. Len(K[n]) : \E i \in 1 .. n : ledger[i] = K[n][j] /\ ledger[i].run \notin P
             /\ \A i \in 1 .. n : ledger[i].run \notin P => \E j \in 1 .. Len(K[n]) : K[n][j] = ledger[i]
             /\ Len(K[n]) = n => \A i \in 1 .. n : ledger[i].run \notin P
           S == {n \in Nat : n =< N => good(n)}
<1>1. N \in Nat
  OBVIOUS
<1>2. \A n \in 0 .. N : K[n] = IF n = 0 THEN <<>>
                               ELSE IF ledger[n].run \in P THEN K[n - 1] ELSE Append(K[n - 1], ledger[n])
  BY <1>0, KeptLoop, Zenon
<1>3. K[0] = <<>>
  BY <1>1, <1>2
<1>4. ASSUME NEW m \in Nat, m + 1 =< N
      PROVE  K[m + 1] = IF ledger[m + 1].run \in P THEN K[m] ELSE Append(K[m], ledger[m + 1])
  BY <1>1, <1>4, <1>2
<1>5. 0 \in S
  <2>1. K[0] \in Seq(Entries) /\ Len(K[0]) = 0
    BY <1>3
  <2>2. good(0)
    BY <2>1
  <2> QED BY <2>2
<1>6. ASSUME NEW m \in Nat, m \in S PROVE m + 1 \in S
  <2> SUFFICES ASSUME m + 1 =< N PROVE good(m + 1)
    OBVIOUS
  <2>1. m + 1 \in 1 .. N /\ good(m) /\ m + 1 - 1 = m /\ ledger[m + 1] \in Entries
    BY <1>1, <1>6
  <2>2. CASE ledger[m + 1].run \in P
    <3>1. K[m + 1] = K[m]
      BY <1>4, <2>1, <2>2
    <3> QED BY <2>1, <2>2, <3>1
  <2>3. CASE ledger[m + 1].run \notin P
    <3>1. K[m + 1] = Append(K[m], ledger[m + 1])
      BY <1>4, <2>1, <2>3
    <3>2. /\ K[m + 1] \in Seq(Entries) /\ Len(K[m + 1]) = Len(K[m]) + 1
          /\ \A j \in 1 .. Len(K[m]) : K[m + 1][j] = K[m][j]
          /\ K[m + 1][Len(K[m]) + 1] = ledger[m + 1] /\ Len(K[m]) \in Nat
      BY <2>1, <3>1
    <3>3. \A j \in 1 .. Len(K[m + 1]) : \E i \in 1 .. m + 1 : ledger[i] = K[m + 1][j] /\ ledger[i].run \notin P
      <4> SUFFICES ASSUME NEW j \in 1 .. Len(K[m + 1])
                   PROVE  \E i \in 1 .. m + 1 : ledger[i] = K[m + 1][j] /\ ledger[i].run \notin P
        OBVIOUS
      <4>1. CASE j = Len(K[m]) + 1
        BY <2>1, <2>3, <3>2, <4>1
      <4>2. CASE j # Len(K[m]) + 1
        <5>1. j \in 1 .. Len(K[m])
          BY <3>2, <4>2
        <5>2. PICK i \in 1 .. m : ledger[i] = K[m][j] /\ ledger[i].run \notin P
          BY <2>1, <5>1
        <5>3. i \in 1 .. m + 1
          OBVIOUS
        <5> QED BY <3>2, <5>1, <5>2, <5>3
      <4> QED BY <4>1, <4>2
    <3>4. \A i \in 1 .. m + 1 : ledger[i].run \notin P => \E j \in 1 .. Len(K[m + 1]) : K[m + 1][j] = ledger[i]
      <4> SUFFICES ASSUME NEW i \in 1 .. m + 1, ledger[i].run \notin P
                   PROVE  \E j \in 1 .. Len(K[m + 1]) : K[m + 1][j] = ledger[i]
        OBVIOUS
      <4>1. CASE i = m + 1
        BY <3>2, <4>1
      <4>2. CASE i # m + 1
        <5>1. i \in 1 .. m
          BY <4>2
        <5>2. PICK j \in 1 .. Len(K[m]) : K[m][j] = ledger[i]
          BY <2>1, <5>1
        <5>3. j \in 1 .. Len(K[m + 1])
          BY <3>2
        <5> QED BY <3>2, <5>2, <5>3
      <4> QED BY <4>1, <4>2
    <3>5. Len(K[m + 1]) = m + 1 => \A i \in 1 .. m + 1 : ledger[i].run \notin P
      <4> SUFFICES ASSUME Len(K[m + 1]) = m + 1, NEW i \in 1 .. m + 1 PROVE ledger[i].run \notin P
        OBVIOUS
      <4>1. Len(K[m]) = m
        BY <3>2
      <4>2. CASE i = m + 1
        BY <2>3, <4>2
      <4>3. CASE i # m + 1
        <5>1. i \in 1 .. m
          BY <4>3
        <5> QED BY <2>1, <4>1, <5>1
      <4> QED BY <4>2, <4>3
    <3> QED BY <2>1, <3>2, <3>3, <3>4, <3>5
  <2> QED BY <2>2, <2>3
<1>7. N \in S
  <2> HIDE DEF S, N
  <2> QED BY <1>1, <1>5, <1>6, CountsUp
<1>8. good(N)
  BY <1>1, <1>7
<1>9. Kept(P) = K[N]
  BY <1>0 DEF Kept
<1> QED BY <1>8, <1>9

-----------------------------------------------------------------------------
(* States of a process *)

LEMMA ProcShape ==
  ASSUME NEW s \in ProcStates
  PROVE  /\ s.phase \in {"idle", "json", "md", "stamped", "unlink", "unlinkmd", "rewrite", "promote", "copy", "move"}
         /\ s.phase = "idle" <=> s = Idle
         /\ s.phase = "json" => s \in [phase : {"json"}, run : Authored, content : Contents]
         /\ s.phase = "md" => s \in [phase : {"md"}, run : Authored \cap Sidecar, content : Contents]
         /\ s.phase = "stamped" => s \in [phase : {"stamped"}, run : Authored, at : Nat \ {0}]
         /\ s.phase = "unlink" => s \in [phase : {"unlink"}, keep : KeepChoices,
                                         todo : SUBSET Authored, pruned : SUBSET Authored]
         /\ s.phase = "unlinkmd" => s \in [phase : {"unlinkmd"}, run : Authored, keep : KeepChoices,
                                           todo : SUBSET Authored, pruned : SUBSET Authored]
         /\ s.phase = "rewrite" => s \in [phase : {"rewrite"}, keep : KeepChoices,
                                          pruned : SUBSET Authored, kept : Seq(Entries)]
         /\ s.phase = "promote" => s \in [phase : {"promote"}, run : Runs]
         /\ s.phase = "copy" => s \in [phase : {"copy"}, run : Runs, form : Forms, content : Contents]
         /\ s.phase = "move" => s \in [phase : {"move"}, moves : SUBSET (Sources \X Forms), entries : SUBSET Legacy]
BY DEF ProcStates, Idle

\* Where a results command is at work, or may start, nobody else is.
LEMMA MaintainerAlone ==
  ASSUME IInv, MaintenanceAlone, NEW p \in Procs, (Busy(p) /\ ~Writing(p)) \/ MayMaintain(p)
  PROVE  \A q \in Procs \ {p} : proc[q] = Idle
BY ProcShape DEF IInv, Exclusive, MayMaintain, Busy, Typed

\* A ledger position holds a line.
LEMMA LedgerLines ==
  ASSUME ledger \in Seq(Entries)
  PROVE  /\ DOMAIN ledger = 1 .. Len(ledger) /\ Len(ledger) \in Nat
         /\ \A i \in DOMAIN ledger : ledger[i] \in Entries /\ ledger[i].run \in Runs /\ ledger[i].at \in Nat
         /\ Recorded \subseteq Runs
<1>1. /\ DOMAIN ledger = 1 .. Len(ledger) /\ Len(ledger) \in Nat
      /\ \A i \in DOMAIN ledger : ledger[i] \in Entries
  BY LenProperties, ElementOfSeq
<1>2. \A i \in DOMAIN ledger : ledger[i].run \in Runs /\ ledger[i].at \in Nat
  BY <1>1 DEF Entries
<1> QED BY <1>1, <1>2 DEF Recorded

\* What the ledger says of a run is when it was recorded last.
LEMMA LatestIsNewest ==
  ASSUME Typed, LedgerTimes, NEW r \in Authored, r \in Recorded
  PROVE  LatestAt(r) = newest[r]
<1> DEFINE S == {ledger[i].at : i \in Lines(r)}
<1>1. newest[r] \in S /\ \A y \in S : newest[r] >= y
  BY DEF LedgerTimes
<1>2. S \subseteq Int
  BY LedgerLines DEF Typed, Lines
<1> HIDE DEF S
<1>3. Max(S) = newest[r]
  BY <1>1, <1>2, MaxIs
<1> QED BY <1>3 DEF LatestAt, S

\* Runs of a kind recorded later than r.
Later(r) == {s \in Runs \ Legacy : KindOf[s] = KindOf[r] /\ newest[s] > newest[r]}

\* A planned run has as many later ones as the plan keeps.
LEMMA BeyondFacts ==
  ASSUME Typed, LedgerTimes, NEW keep \in Nat, NEW r \in Beyond(keep)
  PROVE  r \in Authored /\ r \in Recorded /\ Cardinality(Later(r)) >= keep
<1> DEFINE L == {s \in Recorded \ Legacy : KindOf[s] = KindOf[r] /\ LatestAt(s) > LatestAt(r)}
<1>1. Recorded \subseteq Runs
  BY LedgerLines DEF Typed
<1>2. r \in Authored /\ r \in Recorded /\ Cardinality(L) >= keep
  BY <1>1 DEF Beyond, Authored
<1>3. L \subseteq Later(r)
  BY <1>1, <1>2, LatestIsNewest DEF Later, Authored
<1>4. IsFiniteSet(Later(r))
  BY ResultStoreAssumption, FS_Subset DEF Later
<1>5. Cardinality(L) =< Cardinality(Later(r)) /\ Cardinality(L) \in Nat /\ Cardinality(Later(r)) \in Nat
  BY <1>3, <1>4, FS_Subset, FS_CardinalityType
<1> QED BY <1>2, <1>5

\* What a prune plans depends on the ledger alone.
LEMMA PlanOfLedger ==
  ASSUME ledger' = ledger
  PROVE  /\ \A keep : Beyond(keep)' = Beyond(keep)
         /\ \A pruned : Kept(pruned)' = Kept(pruned)
         /\ Recorded' = Recorded /\ \A r : Lines(r)' = Lines(r)
BY DEF Beyond, Recorded, LatestAt, Lines, Kept, KeptUpTo

-----------------------------------------------------------------------------
(* Writers: any number of them, but no results command *)

WritePhases == {"idle", "json", "md", "stamped"}

LEMMA WritersOnly ==
  ASSUME IInv, MaintenanceAlone, NEW p \in Procs, Writing(p) \/ MayWrite(p)
  PROVE  \A q \in Procs : proc[q] \in ProcStates /\ proc[q].phase \in WritePhases
BY ProcShape DEF IInv, Typed, Exclusive, MayWrite, Busy, Writing, WritePhases

LEMMA WriterStep ==
  ASSUME IInv, NEW p \in Procs, NEW s \in ProcStates, s.phase \in WritePhases,
         proc' = [proc EXCEPT ![p] = s],
         \A q \in Procs : proc[q] \in ProcStates /\ proc[q].phase \in WritePhases,
         Typed', \A q \in Procs : Writing(q)' => WriterOK(q)', LedgerTimes', FilesPair',
         promoted' = promoted, mixed \subseteq mixed', NoHiddenRun', NewestKept'
  PROVE  IInv'
<1>1. \A q \in Procs : proc'[q].phase \in WritePhases
  BY DEF IInv, Typed
<1>2. \A q \in Procs : ProcOK(q)'
  BY <1>1 DEF ProcOK, Pruning, Promoting, WritePhases
<1>3. Exclusive'
  BY <1>1 DEF Exclusive, Busy, Writing, WritePhases
<1>4. JsonFirst' /\ PromotedPairMatches'
  BY DEF IInv, JsonFirst, PromotedPairMatches
<1> QED BY <1>2, <1>3, <1>4 DEF IInv

LEMMA StepWriteJson ==
  ASSUME IInv, MaintenanceAlone, NEW p \in Procs, NEW r \in Authored, NEW c \in Contents, WriteJson(p, r, c)
  PROVE  IInv'
<1> DEFINE s == [phase |-> "json", run |-> r, content |-> c]
<1>1. /\ proc' = [proc EXCEPT ![p] = s] /\ s \in ProcStates /\ s.phase \in WritePhases
      /\ files' = [files EXCEPT ![r]["json"] = c]
      /\ UNCHANGED <<ledger, flat, promoted, deaths, newest, unlisted>>
      /\ proc[p].phase = "idle" /\ r \in Runs /\ c # Absent /\ r \notin Legacy
      /\ proc \in [Procs -> ProcStates] /\ files \in [Runs -> [Forms -> Contents \cup {Absent}]]
  BY ResultStoreAssumption DEF WriteJson, MayWrite, Busy, ProcStates, Authored, WritePhases, IInv, Typed
<1>2. \A q \in Procs : proc[q] \in ProcStates /\ proc[q].phase \in WritePhases
  BY WritersOnly DEF WriteJson
<1>3. /\ \A q \in Procs \ {p} : proc'[q] = proc[q]
      /\ proc'[p] = s
      /\ \A x \in Runs \ {r} : files'[x] = files[x]
      /\ files'[r]["json"] = c /\ files'[r] \in [Forms -> Contents \cup {Absent}]
  BY <1>1 DEF Forms
<1>4. mixed \subseteq mixed' /\ mixed' \subseteq Runs
      /\ \A q \in Procs : Writing(q) /\ proc[q].run = r => r \in mixed'
      /\ mixed' \subseteq mixed \cup {r}
  BY <1>1 DEF WriteJson, IInv, Typed
<1>5. Typed'
  BY <1>1, <1>3, ResultStoreAssumption, <1>4 DEF WriteJson, IInv, Typed
<1>6. \A q \in Procs : Writing(q)' => WriterOK(q)'
  <2> SUFFICES ASSUME NEW q \in Procs, Writing(q)' PROVE WriterOK(q)'
    OBVIOUS
  <2>1. CASE q = p
    BY <1>1, <1>3, <1>4, <2>1 DEF WriterOK, Writing
  <2>2. CASE q # p
    <3>1. Writing(q) /\ WriterOK(q) /\ proc'[q] = proc[q] /\ proc[q].run \in Runs
      BY <1>2, <1>3, <2>2, ProcShape DEF IInv, ProcOK, Writing, Authored
    <3>2. CASE proc[q].run = r
      BY <1>1, <1>2, <1>3, <1>4, <3>1, <3>2, PlanOfLedger DEF WriterOK
    <3>3. CASE proc[q].run # r
      BY <1>1, <1>3, <1>4, <3>1, <3>3, PlanOfLedger DEF WriterOK, Writing
    <3> QED BY <3>2, <3>3
  <2> QED BY <2>1, <2>2
<1>7. LedgerTimes'
  BY <1>1, PlanOfLedger DEF IInv, LedgerTimes
<1>8. FilesPair'
  <2> SUFFICES ASSUME NEW x \in Sidecar \ mixed', files'[x]["json"] # Absent,
                      \A q \in Procs : ~(proc'[q].phase = "json" /\ proc'[q].run = x)
               PROVE  files'[x]["md"] = files'[x]["json"]
    BY DEF FilesPair
  <2>1. x # r
    BY <1>3
  <2>2. files'[x] = files[x] /\ x \in Sidecar \ mixed
    BY <1>3, <1>4, <2>1, ResultStoreAssumption
  <2>3. \A q \in Procs : ~(proc[q].phase = "json" /\ proc[q].run = x)
    BY <1>1, <1>3
  <2> QED BY <2>2, <2>3 DEF IInv, FilesPair
<1>9. NoHiddenRun'
  <2> SUFFICES ASSUME NEW x \in Runs \ Unrecorded, files'[x]["json"] # Absent, x \notin Recorded'
               PROVE  \/ x \in unlisted'
                      \/ \E q \in Procs : \/ Writing(q)' /\ proc'[q].run = x
                                          \/ proc'[q].phase = "move" /\ x \in proc'[q].entries
    BY DEF NoHiddenRun
  <2>1. CASE x = r
    BY <1>3, <2>1 DEF Writing
  <2>2. CASE x # r
    <3>1. \/ x \in unlisted
          \/ \E q \in Procs : Writing(q) /\ proc[q].run = x
      BY <1>1, <1>2, <1>3, <2>2, PlanOfLedger DEF IInv, NoHiddenRun, WritePhases
    <3>2. CASE x \in unlisted
      BY <1>1, <3>2
    <3>3. ASSUME NEW q \in Procs, Writing(q), proc[q].run = x PROVE Writing(q)' /\ proc'[q].run = x
      BY <1>1, <1>3, <3>3 DEF Writing
    <3> QED BY <3>1, <3>2, <3>3
  <2> QED BY <2>1, <2>2
<1>10. NewestKept'
  BY <1>1, <1>3 DEF IInv, NewestKept
<1> HIDE DEF s
<1> QED BY <1>1, <1>2, <1>4, <1>5, <1>6, <1>7, <1>8, <1>9, <1>10, WriterStep

\* A run is hidden from nobody while its writer, or another one, is at work.
LEMMA StillListed ==
  ASSUME IInv, NEW p \in Procs, NEW s \in ProcStates, proc' = [proc EXCEPT ![p] = s],
         Writing(p), s.phase \in WritePhases \ {"idle"}, s.run = proc[p].run,
         \A q \in Procs : proc[q] \in ProcStates /\ proc[q].phase \in WritePhases,
         ledger' = ledger, unlisted' = unlisted,
         \A x \in Runs : files'[x]["json"] = files[x]["json"]
  PROVE  NoHiddenRun'
<1> SUFFICES ASSUME NEW x \in Runs \ Unrecorded, files'[x]["json"] # Absent, x \notin Recorded'
             PROVE  \/ x \in unlisted'
                    \/ \E q \in Procs : \/ Writing(q)' /\ proc'[q].run = x
                                        \/ proc'[q].phase = "move" /\ x \in proc'[q].entries
  BY DEF NoHiddenRun
<1>1. \/ x \in unlisted
      \/ \E q \in Procs : Writing(q) /\ proc[q].run = x
  BY PlanOfLedger DEF IInv, NoHiddenRun, WritePhases
<1>2. CASE x \in unlisted
  BY <1>2
<1>3. ASSUME NEW q \in Procs, Writing(q), proc[q].run = x PROVE Writing(q)' /\ proc'[q].run = x
  BY <1>3 DEF Writing, WritePhases, IInv, Typed
<1> QED BY <1>1, <1>2, <1>3

LEMMA StepWriteMarkdown ==
  ASSUME IInv, MaintenanceAlone, NEW p \in Procs, WriteMarkdown(p)
  PROVE  IInv'
<1> DEFINE s == [proc[p] EXCEPT !.phase = "md"]
           r == proc[p].run
<1>1. /\ proc[p] \in [phase : {"json"}, run : Authored, content : Contents]
      /\ proc \in [Procs -> ProcStates] /\ files \in [Runs -> [Forms -> Contents \cup {Absent}]]
      /\ r \in Sidecar /\ r \in Runs
  BY ProcShape DEF WriteMarkdown, IInv, Typed, Authored
<1>2. /\ s \in [phase : {"md"}, run : Authored \cap Sidecar, content : Contents]
      /\ s.phase = "md" /\ s.run = r
  BY <1>1
<1>3. s \in ProcStates /\ Writing(p) /\ s.phase \in WritePhases \ {"idle"}
  BY <1>1, <1>2 DEF ProcStates, Writing, WritePhases
<1>4. /\ proc' = [proc EXCEPT ![p] = s]
      /\ files' = [files EXCEPT ![r]["md"] = proc[p].content]
      /\ UNCHANGED <<ledger, flat, promoted, writes, deaths, newest, unlisted, mixed>>
  BY DEF WriteMarkdown
<1>5. \A q \in Procs : proc[q] \in ProcStates /\ proc[q].phase \in WritePhases
  BY <1>3, WritersOnly
<1>6. /\ \A q \in Procs \ {p} : proc'[q] = proc[q]
      /\ proc'[p] = s
      /\ \A x \in Runs \ {r} : files'[x] = files[x]
      /\ files'[r]["md"] = proc[p].content /\ files'[r]["json"] = files[r]["json"]
      /\ files' \in [Runs -> [Forms -> Contents \cup {Absent}]]
  <2> HIDE DEF s
  <2> QED BY <1>1, <1>4 DEF Forms
<1> HIDE DEF s
<1>7. \A x \in Runs : files'[x]["json"] = files[x]["json"]
  BY <1>6
<1>8. Typed'
  BY <1>1, <1>3, <1>4, <1>6 DEF IInv, Typed
<1>9. \A q \in Procs : Writing(q)' => WriterOK(q)'
  <2> SUFFICES ASSUME NEW q \in Procs, Writing(q)' PROVE WriterOK(q)'
    OBVIOUS
  <2>1. Writing(q) /\ WriterOK(q) /\ proc'[q].run = proc[q].run /\ proc[q].run \in Runs
    BY <1>1, <1>2, <1>3, <1>5, <1>6, ProcShape DEF IInv, ProcOK, Writing, Authored
  <2>2. \A o \in Procs : Writing(o)' => Writing(o) /\ proc'[o].run = proc[o].run
    BY <1>2, <1>3, <1>6 DEF Writing
  <2>3. proc'[q].phase \in {"json", "stamped"} => proc'[q] = proc[q]
    BY <1>2, <1>6
  <2> QED BY <1>4, <1>7, <2>1, <2>2, <2>3, PlanOfLedger DEF WriterOK
<1>10. LedgerTimes'
  BY <1>4, PlanOfLedger DEF IInv, LedgerTimes
<1>11. FilesPair'
  <2> SUFFICES ASSUME NEW x \in Sidecar \ mixed, files'[x]["json"] # Absent,
                      \A q \in Procs : ~(proc'[q].phase = "json" /\ proc'[q].run = x)
               PROVE  files'[x]["md"] = files'[x]["json"]
    BY <1>4 DEF FilesPair
  <2>1. CASE x = r
    <3>1. WriterOK(p)
      BY <1>3 DEF IInv, ProcOK
    <3> QED BY <1>1, <1>6, <2>1, <3>1 DEF WriterOK
  <2>2. CASE x # r
    <3>1. \A q \in Procs : ~(proc[q].phase = "json" /\ proc[q].run = x)
      BY <1>6, <2>2
    <3>2. files'[x] = files[x]
      BY <1>6, <2>2, ResultStoreAssumption
    <3> QED BY <3>1, <3>2 DEF IInv, FilesPair
  <2> QED BY <2>1, <2>2
<1>12. NoHiddenRun'
  BY <1>2, <1>3, <1>4, <1>5, <1>7, StillListed
<1>13. NewestKept'
  BY <1>4, <1>7 DEF IInv, NewestKept
<1> QED BY <1>3, <1>4, <1>5, <1>8, <1>9, <1>10, <1>11, <1>12, <1>13, WriterStep

\* A stamp is later than every time recorded before.
LEMMA NowIsLater ==
  ASSUME Typed, NEW r \in Runs
  PROVE  Now \in Nat /\ Now > newest[r]
<1> DEFINE A == {newest[x] : x \in Runs}
           Q == {q \in Procs : proc[q].phase = "stamped"}
           B == {proc[q].at : q \in Q}
<1>1. newest[r] \in A /\ A \subseteq Nat
  BY DEF Typed
<1>2. B \subseteq Nat
  BY ProcShape DEF Typed
<1>3. IsFiniteSet(A)
  BY ResultStoreAssumption, ImageFinite, SMTT(40)
<1>4. IsFiniteSet(B)
  <2>1. IsFiniteSet(Q)
    BY ResultStoreAssumption, FS_Subset
  <2> DEFINE f == [q \in Q |-> proc[q].at]
  <2>2. DOMAIN f = Q /\ B = {f[q] : q \in Q}
    OBVIOUS
  <2> HIDE DEF Q, f, B
  <2> QED BY <2>1, <2>2, ImageFinite
<1>5. IsFiniteSet(A \cup B)
  BY <1>3, <1>4, FS_Union
<1> HIDE DEF A, B
<1>6. Max(A \cup B) \in A \cup B /\ \A y \in A \cup B : y =< Max(A \cup B)
  BY <1>1, <1>2, <1>5, A \cup B \subseteq Int, ExtremesOf
<1>7. Max(A \cup B) \in Nat /\ newest[r] =< Max(A \cup B) /\ newest[r] \in Nat
  BY <1>1, <1>2, <1>6
<1>8. Now = 1 + Max(A \cup B)
  BY DEF Now, A, B
<1> QED BY <1>7, <1>8

LEMMA StepStampRun ==
  ASSUME IInv, MaintenanceAlone, NEW p \in Procs, StampRun(p)
  PROVE  IInv'
<1> DEFINE s == [phase |-> "stamped", run |-> proc[p].run, at |-> Now]
           r == proc[p].run
<1>1. /\ proc[p].phase \in {"json", "md"} /\ r \in Authored /\ r \in Runs
      /\ proc[p].phase = "json" => r \notin Sidecar
      /\ proc \in [Procs -> ProcStates] /\ files \in [Runs -> [Forms -> Contents \cup {Absent}]]
  BY ProcShape DEF StampRun, IInv, Typed, Authored
<1>2. Now \in Nat /\ Now > newest[r] /\ newest[r] \in Nat
  BY <1>1, NowIsLater DEF IInv, Typed
<1>3. /\ s \in ProcStates /\ s.run = r /\ s.at = Now /\ s.phase = "stamped"
      /\ Writing(p) /\ s.phase \in WritePhases \ {"idle"}
  BY <1>1, <1>2 DEF ProcStates, Writing, WritePhases
<1>4. /\ proc' = [proc EXCEPT ![p] = s]
      /\ UNCHANGED <<files, ledger, flat, promoted, writes, deaths, newest, unlisted, mixed>>
  BY DEF StampRun
<1>5. \A q \in Procs : proc[q] \in ProcStates /\ proc[q].phase \in WritePhases
  BY <1>3, WritersOnly
<1> HIDE DEF s
<1>6. /\ \A q \in Procs \ {p} : proc'[q] = proc[q]
      /\ proc'[p] = s
  BY <1>1, <1>4
<1>7. Typed'
  BY <1>1, <1>3, <1>4 DEF IInv, Typed
<1>8. \A q \in Procs : Writing(q)' => WriterOK(q)'
  <2> SUFFICES ASSUME NEW q \in Procs, Writing(q)' PROVE WriterOK(q)'
    OBVIOUS
  <2>1. Writing(q) /\ WriterOK(q) /\ proc'[q].run = proc[q].run
    BY <1>3, <1>6 DEF IInv, ProcOK, Writing
  <2>2. \A o \in Procs : Writing(o)' => Writing(o) /\ proc'[o].run = proc[o].run
    BY <1>3, <1>6 DEF Writing
  <2>3. q # p => proc'[q] = proc[q]
    BY <1>6
  <2>4. q = p => proc'[q].phase = "stamped" /\ proc'[q].at > newest[r]
    BY <1>2, <1>3, <1>6
  <2> QED BY <1>4, <2>1, <2>2, <2>3, <2>4, PlanOfLedger DEF WriterOK
<1>9. LedgerTimes'
  BY <1>4, PlanOfLedger DEF IInv, LedgerTimes
<1>10. FilesPair'
  BY <1>4, <1>1, <1>6 DEF FilesPair, IInv
<1>11. NoHiddenRun'
  BY <1>3, <1>4, <1>5, StillListed
<1>12. NewestKept'
  BY <1>4 DEF IInv, NewestKept
<1> QED BY <1>3, <1>4, <1>5, <1>7, <1>8, <1>9, <1>10, <1>11, <1>12, WriterStep

\* What a ledger with one more line says.
LEMMA AppendFacts ==
  ASSUME Typed, NEW e \in Entries, ledger' = Append(ledger, e)
  PROVE  /\ ledger' \in Seq(Entries)
         /\ Recorded' = Recorded \cup {e.run}
         /\ \A r \in Runs : Lines(r)' = Lines(r) \cup (IF e.run = r THEN {Len(ledger) + 1} ELSE {})
         /\ \A i \in DOMAIN ledger : ledger'[i] = ledger[i]
         /\ ledger'[Len(ledger) + 1] = e
<1>1. /\ ledger' \in Seq(Entries) /\ DOMAIN ledger' = 1 .. Len(ledger) + 1
      /\ DOMAIN ledger = 1 .. Len(ledger) /\ Len(ledger) \in Nat
      /\ \A i \in DOMAIN ledger : ledger'[i] = ledger[i]
      /\ ledger'[Len(ledger) + 1] = e
  BY AppendProperties, LenProperties DEF Typed
<1>2. DOMAIN ledger' = DOMAIN ledger \cup {Len(ledger) + 1} /\ Len(ledger) + 1 \notin DOMAIN ledger
  BY <1>1
<1>3. Recorded' = Recorded \cup {e.run}
  BY <1>1, <1>2 DEF Recorded
<1>4. \A r \in Runs : Lines(r)' = Lines(r) \cup (IF e.run = r THEN {Len(ledger) + 1} ELSE {})
  BY <1>1, <1>2 DEF Lines
<1> QED BY <1>1, <1>3, <1>4

LEMMA MaxOfTwo ==
  ASSUME NEW a \in Nat, NEW b \in Nat
  PROVE  Max({a, b}) = IF a < b THEN b ELSE a
BY MaxIs

\* Runs recorded later than r are not fewer after another run was recorded.
LEMMA LaterGrows ==
  ASSUME Typed, NEW r \in Runs, newest'[r] = newest[r],
         \A x \in Runs : newest'[x] \in Nat /\ newest[x] =< newest'[x]
  PROVE  /\ Cardinality(Later(r)) \in Nat
         /\ Cardinality(Later(r)') \in Nat
         /\ Cardinality(Later(r)) =< Cardinality(Later(r)')
<1>1. Later(r) \subseteq Later(r)'
  BY DEF Later, Typed
<1>2. IsFiniteSet(Later(r)')
  BY ResultStoreAssumption, FS_Subset DEF Later
<1> QED BY <1>1, <1>2, FS_Subset, FS_CardinalityType

LEMMA StepAppendLine ==
  ASSUME IInv, MaintenanceAlone, NEW p \in Procs, AppendLine(p)
  PROVE  IInv'
<1> DEFINE r == proc[p].run
           at == proc[p].at
           e == [run |-> r, at |-> at]
<1>1. /\ r \in Authored /\ r \in Runs /\ at \in Nat /\ at > 0 /\ Writing(p)
      /\ WriterOK(p) /\ proc[p].phase = "stamped"
      /\ proc \in [Procs -> ProcStates] /\ newest \in [Runs -> Nat]
  BY ProcShape DEF AppendLine, IInv, Typed, Authored, Writing, ProcOK
<1>2. /\ proc' = [proc EXCEPT ![p] = Idle] /\ Idle \in ProcStates /\ Idle.phase = "idle"
      /\ newest' = [newest EXCEPT ![r] = Max({newest[r], at})]
      /\ unlisted' = unlisted \ {r}
      /\ ledger' = Append(ledger, e) /\ e \in Entries
      /\ UNCHANGED <<files, flat, promoted, writes, deaths, mixed>>
  BY <1>1 DEF AppendLine, ProcStates, Idle, Entries
<1>3. \A q \in Procs : proc[q] \in ProcStates /\ proc[q].phase \in WritePhases
  BY <1>1, WritersOnly
<1>4. /\ ledger' \in Seq(Entries)
      /\ Recorded' = Recorded \cup {r}
      /\ \A x \in Runs : Lines(x)' = Lines(x) \cup (IF r = x THEN {Len(ledger) + 1} ELSE {})
      /\ \A i \in DOMAIN ledger : ledger'[i] = ledger[i]
      /\ ledger'[Len(ledger) + 1] = e
  BY <1>2, AppendFacts DEF IInv
<1>5. /\ newest'[r] = (IF newest[r] < at THEN at ELSE newest[r])
      /\ \A x \in Runs \ {r} : newest'[x] = newest[x]
      /\ newest' \in [Runs -> Nat]
      /\ \A x \in Runs : newest'[x] \in Nat /\ newest[x] =< newest'[x]
  <2>1. newest[r] \in Nat /\ Max({newest[r], at}) = IF newest[r] < at THEN at ELSE newest[r]
    BY <1>1, MaxOfTwo
  <2>2. newest' = [newest EXCEPT ![r] = IF newest[r] < at THEN at ELSE newest[r]]
    BY <1>2, <2>1
  <2> QED BY <1>1, <2>1, <2>2
<1>6. /\ \A q \in Procs \ {p} : proc'[q] = proc[q]
      /\ proc'[p] = Idle
  BY <1>1, <1>2
<1>7. Typed'
  <2>1. proc' \in [Procs -> ProcStates]
    BY <1>1, <1>2
  <2> QED BY <1>2, <1>4, <1>5, <2>1 DEF IInv, Typed
<1>8. \A q \in Procs : Writing(q)' => WriterOK(q)'
  <2> SUFFICES ASSUME NEW q \in Procs, Writing(q)' PROVE WriterOK(q)'
    OBVIOUS
  <2>1. Writing(q) /\ WriterOK(q) /\ proc'[q] = proc[q] /\ proc[q].run \in Runs
    BY <1>2, <1>3, <1>6, ProcShape DEF IInv, ProcOK, Writing, Authored
  <2>2. \A o \in Procs : Writing(o)' => Writing(o) /\ proc'[o] = proc[o]
    BY <1>2, <1>6 DEF Writing
  <2>3. proc[q].phase = "stamped" => proc[q].at > newest'[proc[q].run] \/ proc[q].run \in Recorded'
    BY <1>4, <1>5, <2>1 DEF WriterOK
  <2> QED BY <1>2, <2>1, <2>2, <2>3 DEF WriterOK
<1>9. LedgerTimes'
  <2> SUFFICES ASSUME NEW x \in Authored, x \in Recorded'
               PROVE  /\ newest'[x] > 0
                      /\ \E i \in Lines(x)' : ledger'[i].at = newest'[x]
                      /\ \A i \in Lines(x)' : ledger'[i].at =< newest'[x]
    BY DEF LedgerTimes
  <2>0. x \in Runs /\ Lines(x) \subseteq DOMAIN ledger
        /\ \A i \in Lines(x) : ledger[i].at \in Nat /\ ledger[i].run = x
    BY LedgerLines DEF Authored, Lines, IInv, Typed
  <2>1. CASE x # r
    BY <1>4, <1>5, <2>0, <2>1 DEF IInv, LedgerTimes
  <2>2. CASE x = r /\ x \in Recorded
    <3>1. PICK i \in Lines(x) : ledger[i].at = newest[x]
      BY <2>2 DEF IInv, LedgerTimes
    <3>2. /\ newest[x] > 0 /\ \A k \in Lines(x) : ledger'[k].at =< newest[x]
      BY <1>4, <2>0, <2>2 DEF IInv, LedgerTimes
    <3>3. Lines(x)' = Lines(x) \cup {Len(ledger) + 1} /\ ledger'[Len(ledger) + 1].at = at
      BY <1>4, <2>0, <2>2
    <3>4. ledger'[i].at = newest[x]
      BY <1>4, <2>0, <3>1
    <3>5. \A k \in Lines(x)' : ledger'[k].at =< newest'[x]
      BY <1>1, <1>4, <1>5, <2>0, <2>2, <3>2, <3>3
    <3>6. newest'[x] > 0 /\ \E k \in Lines(x)' : ledger'[k].at = newest'[x]
      BY <1>1, <1>5, <2>2, <3>1, <3>2, <3>3, <3>4
    <3> QED BY <3>5, <3>6
  <2>3. CASE x = r /\ x \notin Recorded
    <3>1. Lines(x) = {}
      BY <2>3 DEF Recorded, Lines
    <3>2. Lines(x)' = {Len(ledger) + 1} /\ ledger'[Len(ledger) + 1].at = at
      BY <1>4, <2>0, <2>3, <3>1
    <3>3. newest'[x] = at
      BY <1>1, <1>5, <2>3 DEF WriterOK
    <3> QED BY <1>1, <3>2, <3>3
  <2> QED BY <2>1, <2>2, <2>3
<1>10. FilesPair'
  BY <1>2, <1>1, <1>6 DEF FilesPair, IInv
<1>11. NoHiddenRun'
  <2> SUFFICES ASSUME NEW x \in Runs \ Unrecorded, files[x]["json"] # Absent, x \notin Recorded'
               PROVE  \/ x \in unlisted'
                      \/ \E q \in Procs : \/ Writing(q)' /\ proc'[q].run = x
                                          \/ proc'[q].phase = "move" /\ x \in proc'[q].entries
    BY <1>2 DEF NoHiddenRun
  <2>1. x # r /\ x \notin Recorded
    BY <1>4
  <2>2. \/ x \in unlisted
        \/ \E q \in Procs : Writing(q) /\ proc[q].run = x
    BY <1>3, <2>1 DEF IInv, NoHiddenRun, WritePhases
  <2>3. CASE x \in unlisted
    BY <1>2, <2>1, <2>3
  <2>4. ASSUME NEW q \in Procs, Writing(q), proc[q].run = x PROVE Writing(q)' /\ proc'[q].run = x
    BY <1>6, <2>1, <2>4 DEF Writing
  <2> QED BY <2>2, <2>3, <2>4
<1>12. NewestKept'
  <2> SUFFICES ASSUME NEW x \in Authored, newest'[x] > 0, Cardinality(Later(x)') < Min(KeepChoices)
               PROVE  files[x]["json"] # Absent
    BY <1>2 DEF NewestKept, Later, Authored
  <2>1. CASE x = r
    BY <1>1, <2>1 DEF WriterOK
  <2>2. CASE x # r
    <3>1. newest'[x] = newest[x] /\ x \in Runs
      BY <1>5, <2>2 DEF Authored
    <3>2. /\ Cardinality(Later(x)) \in Nat /\ Cardinality(Later(x)') \in Nat
          /\ Cardinality(Later(x)) =< Cardinality(Later(x)')
      BY <1>5, <3>1, LaterGrows DEF IInv
    <3>3. Min(KeepChoices) \in Nat
      BY ResultStoreAssumption, MinOfNats
    <3>4. Cardinality(Later(x)) < Min(KeepChoices)
      BY <3>2, <3>3
    <3> QED BY <3>1, <3>4 DEF IInv, NewestKept, Later, Authored
  <2> QED BY <2>1, <2>2
<1> QED BY <1>2, <1>3, <1>7, <1>8, <1>9, <1>10, <1>11, <1>12, WriterStep DEF WritePhases

-----------------------------------------------------------------------------
(* Results commands: each of them alone *)

LEMMA MaintStep ==
  ASSUME IInv, NEW p \in Procs, NEW s \in ProcStates, s.phase \notin WritePhases \ {"idle"},
         \A q \in Procs \ {p} : proc[q] = Idle,
         proc' = [proc EXCEPT ![p] = s],
         Typed', ProcOK(p)', LedgerTimes', FilesPair', JsonFirst', NoHiddenRun', NewestKept', PromotedPairMatches'
  PROVE  IInv'
BY DEF IInv, Typed, ProcOK, Writing, Pruning, Promoting, Idle, Exclusive, Busy

\* What a step that touches neither files nor ledger leaves as it was.
LEMMA QuietFrame ==
  ASSUME IInv, NEW p \in Procs, \A q \in Procs \ {p} : proc[q] = Idle,
         ~Writing(p), proc[p].phase = "move" => proc[p].entries = {},
         UNCHANGED <<files, ledger, newest, unlisted, mixed>>
  PROVE  LedgerTimes' /\ FilesPair' /\ NoHiddenRun' /\ NewestKept'
<1>1. LedgerTimes'
  BY PlanOfLedger DEF IInv, LedgerTimes
<1>2. \A q \in Procs : ~Writing(q) /\ (proc[q].phase = "move" => proc[q].entries = {})
  BY DEF Writing, Idle
<1>3. FilesPair'
  BY <1>2 DEF IInv, FilesPair, Writing
<1>4. NoHiddenRun'
  BY PlanOfLedger, <1>2 DEF NoHiddenRun, IInv
<1>5. NewestKept'
  BY DEF IInv, NewestKept
<1> QED BY <1>1, <1>3, <1>4, <1>5

LEMMA PromotedFrame ==
  ASSUME IInv, promoted' = promoted, mixed \subseteq mixed'
  PROVE  JsonFirst' /\ PromotedPairMatches'
BY DEF IInv, JsonFirst, PromotedPairMatches

LEMMA StepPlanPrune ==
  ASSUME IInv, MaintenanceAlone, NEW p \in Procs, NEW keep \in KeepChoices, PlanPrune(p, keep)
  PROVE  IInv'
<1> DEFINE s == [phase |-> "unlink", keep |-> keep, todo |-> Beyond(keep), pruned |-> Beyond(keep)]
<1>1. /\ \A q \in Procs \ {p} : proc[q] = Idle
      /\ proc[p].phase = "idle" /\ proc \in [Procs -> ProcStates]
      /\ proc' = [proc EXCEPT ![p] = s]
      /\ UNCHANGED <<files, ledger, flat, promoted, writes, deaths, newest, unlisted, mixed>>
  BY MaintainerAlone DEF PlanPrune, MayMaintain, Busy, IInv, Typed
<1>2. Beyond(keep) \subseteq Authored
  BY LedgerLines DEF Beyond, Authored, IInv, Typed
<1>3. s \in ProcStates /\ s.phase = "unlink" /\ s.keep = keep /\ s.todo = Beyond(keep) /\ s.pruned = Beyond(keep)
  BY <1>2 DEF ProcStates
<1> HIDE DEF s
<1>4. proc'[p] = s
  BY <1>1
<1>5. Typed'
  BY <1>1, <1>3 DEF IInv, Typed
<1>6. ProcOK(p)'
  BY <1>1, <1>3, <1>4, PlanOfLedger DEF ProcOK, Writing, Pruning, Promoting, PrunerOK
<1>7. LedgerTimes' /\ FilesPair' /\ NoHiddenRun' /\ NewestKept' /\ JsonFirst' /\ PromotedPairMatches'
  BY <1>1, QuietFrame, PromotedFrame DEF Writing
<1> QED BY <1>1, <1>3, <1>5, <1>6, <1>7, MaintStep DEF WritePhases

\* Nothing is hidden by a removal: what stays on disk was listed before.
LEMMA UnlinkFrame ==
  ASSUME IInv, NEW p \in Procs, \A q \in Procs \ {p} : proc[q] = Idle,
         proc[p].phase \in {"unlink", "unlinkmd"},
         \A x \in Runs : files'[x]["json"] \in {files[x]["json"], Absent},
         \A x \in Sidecar : files'[x]["json"] # Absent => files'[x]["md"] = files[x]["md"],
         UNCHANGED <<ledger, newest, unlisted, mixed>>
  PROVE  LedgerTimes' /\ FilesPair' /\ NoHiddenRun'
<1>1. LedgerTimes'
  BY PlanOfLedger DEF IInv, LedgerTimes
<1>2. \A q \in Procs : ~Writing(q) /\ proc[q].phase # "move"
  BY DEF Writing, Idle
<1>3. FilesPair'
  <2> SUFFICES ASSUME NEW x \in Sidecar \ mixed, files'[x]["json"] # Absent
               PROVE  files'[x]["md"] = files'[x]["json"]
    BY DEF FilesPair
  <2>1. x \in Runs
    BY ResultStoreAssumption
  <2>2. files'[x]["json"] = files[x]["json"] /\ files'[x]["md"] = files[x]["md"]
    BY <2>1
  <2> QED BY <1>2, <2>2 DEF IInv, FilesPair, Writing
<1>4. NoHiddenRun'
  <2> SUFFICES ASSUME NEW x \in Runs \ Unrecorded, files'[x]["json"] # Absent, x \notin Recorded
               PROVE  x \in unlisted
    BY PlanOfLedger DEF NoHiddenRun
  <2>1. files[x]["json"] # Absent
    OBVIOUS
  <2> QED BY <1>2, <2>1 DEF IInv, NoHiddenRun
<1> QED BY <1>1, <1>3, <1>4

\* A run a prune removes is not among the newest ones.
LEMMA BeyondIsOld ==
  ASSUME IInv, NEW keep \in KeepChoices, NEW r \in Beyond(keep)
  PROVE  ~(Cardinality(Later(r)) < Min(KeepChoices))
<1>1. keep \in Nat /\ Min(KeepChoices) \in Nat /\ Min(KeepChoices) =< keep
  BY ResultStoreAssumption, MinOfNats
<1>2. Cardinality(Later(r)) >= keep /\ IsFiniteSet(Later(r))
  BY <1>1, BeyondFacts, ResultStoreAssumption, FS_Subset DEF IInv, Later
<1> QED BY <1>1, <1>2, FS_CardinalityType

LEMMA StepUnlinkJson ==
  ASSUME IInv, MaintenanceAlone, NEW p \in Procs, NEW r \in Runs, UnlinkJson(p, r)
  PROVE  IInv'
<1> DEFINE keep == proc[p].keep
           todo == proc[p].todo
           pruned == proc[p].pruned
           s == [phase |-> "unlinkmd", run |-> r, keep |-> keep, todo |-> todo \ {r}, pruned |-> pruned]
<1>1. /\ proc[p] \in [phase : {"unlink"}, keep : KeepChoices, todo : SUBSET Authored, pruned : SUBSET Authored]
      /\ proc[p].phase = "unlink" /\ r \in todo /\ proc \in [Procs -> ProcStates]
      /\ proc' = [proc EXCEPT ![p] = s]
      /\ files' = [files EXCEPT ![r]["json"] = Absent]
      /\ files \in [Runs -> [Forms -> Contents \cup {Absent}]]
      /\ UNCHANGED <<ledger, flat, promoted, writes, deaths, newest, unlisted, mixed>>
  BY ProcShape DEF UnlinkJson, IInv, Typed
<1>2. \A q \in Procs \ {p} : proc[q] = Idle
  BY <1>1, MaintainerAlone DEF Busy, Writing
<1>3. /\ s \in ProcStates /\ s.phase = "unlinkmd" /\ s.keep = keep /\ s.todo = todo \ {r} /\ s.pruned = pruned
      /\ s.run = r
  BY <1>1 DEF ProcStates
<1> HIDE DEF s
<1>4. proc'[p] = s
  BY <1>1
<1>5. PrunerOK(p) /\ pruned = Beyond(keep) /\ todo \subseteq pruned /\ \A x \in pruned \ todo : Gone(x)
  BY <1>1 DEF IInv, ProcOK, Pruning, PrunerOK
<1>6. /\ \A x \in Runs \ {r} : files'[x] = files[x]
      /\ files'[r]["json"] = Absent /\ files'[r]["md"] = files[r]["md"]
      /\ files' \in [Runs -> [Forms -> Contents \cup {Absent}]]
  BY <1>1 DEF Forms
<1>7. Typed'
  BY <1>1, <1>3, <1>6 DEF IInv, Typed
<1>8. ProcOK(p)'
  <2>1. PrunerOK(p)'
    <3>1. \A x \in pruned \ (s.todo \cup {r}) : Gone(x)'
      BY <1>1, <1>3, <1>5, <1>6 DEF Gone, Authored
    <3> QED BY <1>1, <1>3, <1>4, <1>5, <1>6, <3>1, PlanOfLedger DEF PrunerOK
  <2> QED BY <1>3, <1>4, <2>1 DEF ProcOK, Writing, Pruning, Promoting
<1>9. LedgerTimes' /\ FilesPair' /\ NoHiddenRun'
  BY <1>1, <1>2, <1>6, UnlinkFrame, ResultStoreAssumption
<1>10. NewestKept'
  <2> SUFFICES ASSUME NEW x \in Authored, newest[x] > 0, Cardinality(Later(x)) < Min(KeepChoices)
               PROVE  files'[x]["json"] # Absent
    BY <1>1 DEF NewestKept, Later, Authored
  <2>1. x # r
    BY <1>1, <1>5, BeyondIsOld
  <2> QED BY <1>6, <2>1 DEF IInv, NewestKept, Later, Authored
<1> QED BY <1>1, <1>2, <1>3, <1>7, <1>8, <1>9, <1>10, MaintStep, PromotedFrame DEF WritePhases

LEMMA StepUnlinkMarkdown ==
  ASSUME IInv, MaintenanceAlone, NEW p \in Procs, UnlinkMarkdown(p)
  PROVE  IInv'
<1> DEFINE r == proc[p].run
           keep == proc[p].keep
           todo == proc[p].todo
           pruned == proc[p].pruned
           s == [phase |-> "unlink", keep |-> keep, todo |-> todo, pruned |-> pruned]
<1>1. /\ proc[p] \in [phase : {"unlinkmd"}, run : Authored, keep : KeepChoices,
                      todo : SUBSET Authored, pruned : SUBSET Authored]
      /\ proc[p].phase = "unlinkmd" /\ proc \in [Procs -> ProcStates]
      /\ proc' = [proc EXCEPT ![p] = s]
      /\ files' = [files EXCEPT ![r]["md"] = Absent]
      /\ files \in [Runs -> [Forms -> Contents \cup {Absent}]]
      /\ UNCHANGED <<ledger, flat, promoted, writes, deaths, newest, unlisted, mixed>>
  BY ProcShape DEF UnlinkMarkdown, IInv, Typed
<1>2. \A q \in Procs \ {p} : proc[q] = Idle
  BY <1>1, MaintainerAlone DEF Busy, Writing
<1>3. s \in ProcStates /\ s.phase = "unlink" /\ s.keep = keep /\ s.todo = todo /\ s.pruned = pruned
  BY <1>1 DEF ProcStates
<1> HIDE DEF s
<1>4. proc'[p] = s
  BY <1>1
<1>5. /\ pruned = Beyond(keep) /\ todo \subseteq pruned /\ r \in pruned /\ files[r]["json"] = Absent
      /\ \A x \in pruned \ (todo \cup {r}) : Gone(x)
  BY <1>1 DEF IInv, ProcOK, Pruning, PrunerOK
<1>6. /\ \A x \in Runs \ {r} : files'[x] = files[x]
      /\ files'[r]["json"] = files[r]["json"] /\ files'[r]["md"] = Absent
      /\ files' \in [Runs -> [Forms -> Contents \cup {Absent}]]
  BY <1>1 DEF Forms, Authored
<1>7. Typed'
  BY <1>1, <1>3, <1>6 DEF IInv, Typed
<1>8. ProcOK(p)'
  <2>1. PrunerOK(p)'
    <3>1. \A x \in pruned \ s.todo : Gone(x)'
      BY <1>1, <1>3, <1>5, <1>6 DEF Gone, Authored
    <3> QED BY <1>1, <1>3, <1>4, <1>5, <3>1, PlanOfLedger DEF PrunerOK
  <2> QED BY <1>3, <1>4, <2>1 DEF ProcOK, Writing, Pruning, Promoting
<1>9. \A x \in Runs : files'[x]["json"] = files[x]["json"]
  BY <1>6
<1>10. LedgerTimes' /\ FilesPair' /\ NoHiddenRun'
  BY <1>1, <1>2, <1>5, <1>6, <1>9, UnlinkFrame, ResultStoreAssumption
<1>11. NewestKept'
  BY <1>1, <1>9 DEF IInv, NewestKept
<1> QED BY <1>1, <1>2, <1>3, <1>7, <1>8, <1>10, <1>11, MaintStep, PromotedFrame DEF WritePhases

\* Dropping a prune's lines forgets the runs it pruned and no other.
LEMMA DropFacts ==
  ASSUME Typed, NEW P, ledger' = Kept(P)
  PROVE  /\ ledger' \in Seq(Entries)
         /\ Recorded' = Recorded \ P
         /\ \A r \in Runs \ P :
              /\ \A i \in Lines(r)' : \E k \in Lines(r) : ledger[k] = ledger'[i]
              /\ \A k \in Lines(r) : \E i \in Lines(r)' : ledger'[i] = ledger[k]
<1>1. /\ ledger' \in Seq(Entries)
      /\ \A j \in 1 .. Len(ledger') : \E i \in 1 .. Len(ledger) : ledger[i] = ledger'[j] /\ ledger[i].run \notin P
      /\ \A i \in 1 .. Len(ledger) : ledger[i].run \notin P => \E j \in 1 .. Len(ledger') : ledger'[j] = ledger[i]
  <2>1. ledger \in Seq(Entries)
    BY DEF Typed
  <2>2. /\ Kept(P) \in Seq(Entries)
        /\ \A j \in 1 .. Len(Kept(P)) : \E i \in 1 .. Len(ledger) : ledger[i] = Kept(P)[j] /\ ledger[i].run \notin P
        /\ \A i \in 1 .. Len(ledger) : ledger[i].run \notin P => \E j \in 1 .. Len(Kept(P)) : Kept(P)[j] = ledger[i]
    BY <2>1, KeptFacts, Zenon
  <2> QED BY <2>2
<1>2. DOMAIN ledger = 1 .. Len(ledger) /\ DOMAIN ledger' = 1 .. Len(ledger')
  BY <1>1, LenProperties DEF Typed
<1>3. Recorded' \subseteq Recorded \ P
  BY <1>1, <1>2, Zenon DEF Recorded
<1>4. Recorded \ P \subseteq Recorded'
  <2> SUFFICES ASSUME NEW i \in DOMAIN ledger, ledger[i].run \notin P PROVE ledger[i].run \in Recorded'
    BY DEF Recorded
  <2> QED BY <1>1, <1>2 DEF Recorded
<1>5. ASSUME NEW r \in Runs \ P
      PROVE  /\ \A i \in Lines(r)' : \E k \in Lines(r) : ledger[k] = ledger'[i]
             /\ \A k \in Lines(r) : \E i \in Lines(r)' : ledger'[i] = ledger[k]
  <2>1. ASSUME NEW i \in Lines(r)' PROVE \E k \in Lines(r) : ledger[k] = ledger'[i]
    <3>1. i \in 1 .. Len(ledger') /\ ledger'[i].run = r
      BY <1>2 DEF Lines
    <3>2. PICK k \in 1 .. Len(ledger) : ledger[k] = ledger'[i]
      BY <1>1, <3>1
    <3> QED BY <1>2, <3>1, <3>2 DEF Lines
  <2>2. ASSUME NEW k \in Lines(r) PROVE \E i \in Lines(r)' : ledger'[i] = ledger[k]
    <3>1. k \in 1 .. Len(ledger) /\ ledger[k].run = r
      BY <1>2 DEF Lines
    <3>2. PICK i \in 1 .. Len(ledger') : ledger'[i] = ledger[k]
      BY <1>1, <3>1
    <3> QED BY <1>2, <3>1, <3>2 DEF Lines
  <2> QED BY <2>1, <2>2
<1> QED BY <1>1, <1>3, <1>4, <1>5

LEMMA StepReadLedger ==
  ASSUME IInv, MaintenanceAlone, NEW p \in Procs, ReadLedger(p)
  PROVE  IInv'
<1> DEFINE P == proc[p].pruned
           t == [phase |-> "rewrite", keep |-> proc[p].keep, pruned |-> P, kept |-> Kept(P)]
           s == IF Len(Kept(P)) = Len(ledger) THEN Idle ELSE t
<1>1. /\ proc[p] \in [phase : {"unlink"}, keep : KeepChoices, todo : SUBSET Authored, pruned : SUBSET Authored]
      /\ proc[p].phase = "unlink" /\ proc[p].todo = {} /\ proc \in [Procs -> ProcStates]
      /\ UNCHANGED <<files, ledger, flat, promoted, writes, deaths, newest, unlisted, mixed>>
  BY ProcShape DEF ReadLedger, IInv, Typed
<1>2. \A q \in Procs \ {p} : proc[q] = Idle
  BY <1>1, MaintainerAlone DEF Busy, Writing
<1>3. Kept(P) \in Seq(Entries)
  BY KeptFacts DEF IInv, Typed
<1>4. Idle \in ProcStates /\ Idle.phase = "idle"
  BY DEF ProcStates, Idle
<1>5. t \in [phase : {"rewrite"}, keep : KeepChoices, pruned : SUBSET Authored, kept : Seq(Entries)]
  BY <1>1, <1>3
<1>6. t \in ProcStates
  <2> HIDE DEF t
  <2> QED BY <1>5 DEF ProcStates
<1>7. proc' = [proc EXCEPT ![p] = s]
  BY DEF ReadLedger
<1>8. s \in ProcStates /\ s.phase \in {"idle", "rewrite"} /\ (s.phase = "rewrite" => s = t)
  BY <1>4, <1>5, <1>6
<1>9. proc[p].pruned = Beyond(proc[p].keep) /\ \A x \in P : Gone(x)
  BY <1>1 DEF IInv, ProcOK, Pruning, PrunerOK
<1>10. t.pruned = P /\ t.keep = proc[p].keep /\ t.kept = Kept(P)
  OBVIOUS
<1> HIDE DEF s, t
<1>11. proc'[p] = s
  BY <1>1, <1>7
<1>12. Typed'
  BY <1>1, <1>7, <1>8 DEF IInv, Typed
<1>13. ProcOK(p)'
  <2>1. s.phase = "rewrite" => PrunerOK(p)'
    BY <1>1, <1>8, <1>9, <1>10, <1>11, PlanOfLedger DEF PrunerOK, Gone
  <2> QED BY <1>8, <1>11, <2>1 DEF ProcOK, Writing, Pruning, Promoting
<1>14. LedgerTimes' /\ FilesPair' /\ NoHiddenRun' /\ NewestKept' /\ JsonFirst' /\ PromotedPairMatches'
  BY <1>1, <1>2, QuietFrame, PromotedFrame DEF Writing
<1> QED BY <1>1, <1>2, <1>7, <1>8, <1>12, <1>13, <1>14, MaintStep DEF WritePhases

LEMMA IdleFacts == Idle \in ProcStates /\ Idle.phase = "idle"
BY DEF ProcStates, Idle

\* A process that has nothing to do is in no inconsistent state.
LEMMA IdleOK ==
  ASSUME NEW p \in Procs, proc'[p] = Idle
  PROVE  ProcOK(p)'
BY IdleFacts DEF ProcOK, Writing, Pruning, Promoting

LEMMA StepReplaceLedger ==
  ASSUME IInv, MaintenanceAlone, NEW p \in Procs, ReplaceLedger(p)
  PROVE  IInv'
<1> DEFINE P == proc[p].pruned
<1>1. /\ proc[p] \in [phase : {"rewrite"}, keep : KeepChoices, pruned : SUBSET Authored, kept : Seq(Entries)]
      /\ proc[p].phase = "rewrite" /\ proc \in [Procs -> ProcStates]
      /\ ledger' = proc[p].kept /\ proc' = [proc EXCEPT ![p] = Idle]
      /\ UNCHANGED <<files, flat, promoted, writes, deaths, newest, unlisted, mixed>>
  BY ProcShape DEF ReplaceLedger, IInv, Typed
<1>2. \A q \in Procs \ {p} : proc[q] = Idle
  BY <1>1, MaintainerAlone DEF Busy, Writing
<1>3. ledger' = Kept(P) /\ \A x \in P : Gone(x)
  BY <1>1 DEF IInv, ProcOK, Pruning, PrunerOK
<1>4. /\ ledger' \in Seq(Entries) /\ Recorded' = Recorded \ P
      /\ \A r \in Runs \ P :
              /\ \A i \in Lines(r)' : \E k \in Lines(r) : ledger[k] = ledger'[i]
              /\ \A k \in Lines(r) : \E i \in Lines(r)' : ledger'[i] = ledger[k]
  BY <1>3, DropFacts DEF IInv
<1>5. Typed'
  <2>1. proc' \in [Procs -> ProcStates]
    BY <1>1, IdleFacts
  <2> QED BY <1>1, <1>4, <2>1 DEF IInv, Typed
<1>6. ProcOK(p)'
  BY <1>1, IdleOK
<1>7. LedgerTimes'
  BY <1>1, <1>4 DEF LedgerTimes, Authored, IInv
<1>8. \A q \in Procs : ~Writing(q) /\ proc[q].phase # "move"
  BY <1>1, <1>2 DEF Writing, Idle
<1>9. FilesPair'
  BY <1>1, <1>8 DEF IInv, FilesPair, Writing
<1>10. NoHiddenRun'
  <2> SUFFICES ASSUME NEW x \in Runs \ Unrecorded, files[x]["json"] # Absent, x \notin Recorded'
               PROVE  x \in unlisted
    BY <1>1 DEF NoHiddenRun
  <2>1. x \notin Recorded
    BY <1>3, <1>4 DEF Gone
  <2> QED BY <1>8, <2>1 DEF IInv, NoHiddenRun
<1>11. NewestKept'
  BY <1>1 DEF IInv, NewestKept
<1> QED BY <1>1, <1>2, <1>5, <1>6, <1>7, <1>9, <1>10, <1>11, MaintStep, PromotedFrame, IdleFacts

\* A promotion's copy of one file, missing, equal or refused.
LEMMA CopyStep ==
  ASSUME IInv, NEW p \in Procs, NEW r \in Runs, NEW form \in Forms,
         \A q \in Procs \ {p} : proc[q] = Idle,
         proc[p].phase \in {"idle", "promote"},
         CopyIdentical(p, r, form),
         files[r][form] # Absent,
         form = "md" => promoted[r]["json"] = files[r]["json"] /\ files[r]["json"] # Absent,
         UNCHANGED <<files, ledger, flat, writes, deaths, newest, unlisted, mixed>>
  PROVE  IInv'
<1>1. /\ LedgerTimes' /\ FilesPair' /\ NoHiddenRun' /\ NewestKept'
      /\ proc \in [Procs -> ProcStates] /\ files \in [Runs -> [Forms -> Contents \cup {Absent}]]
      /\ promoted \in [Runs -> [Forms -> Contents \cup {Absent, Torn}]]
      /\ files[r][form] \in Contents /\ (form = "md" => files[r]["json"] \in Contents)
      /\ form \in {"json", "md"}
  <2>1. LedgerTimes' /\ FilesPair' /\ NoHiddenRun' /\ NewestKept'
    BY QuietFrame DEF Writing
  <2> QED BY <2>1 DEF IInv, Typed, Forms
<1>2. CASE promoted' = promoted
  <2>1. CASE promoted[r][form] = files[r][form] /\ proc' = [proc EXCEPT ![p] = AfterCopy(r, form)]
    <3> DEFINE s == AfterCopy(r, form)
    <3>1. s \in ProcStates /\ s.phase \in {"idle", "promote"} /\ (s.phase = "promote" => form = "json" /\ s.run = r)
      BY IdleFacts DEF AfterCopy, ProcStates
    <3> HIDE DEF s
    <3>2. proc' = [proc EXCEPT ![p] = s] /\ proc'[p] = s
      BY <1>1, <2>1 DEF s
    <3>3. Typed'
      BY <1>1, <1>2, <3>1, <3>2 DEF IInv, Typed
    <3>4. ProcOK(p)'
      BY <1>1, <1>2, <2>1, <3>1, <3>2, ResultStoreAssumption DEF ProcOK, Writing, Pruning, Promoting, PromoterOK
    <3> QED BY <1>1, <1>2, <3>1, <3>2, <3>3, <3>4, MaintStep, PromotedFrame DEF WritePhases
  <2>2. CASE proc' = [proc EXCEPT ![p] = Idle]
    <3>1. Typed' /\ proc'[p] = Idle
      BY <1>1, <1>2, <2>2, IdleFacts DEF IInv, Typed
    <3> QED BY <1>1, <1>2, <2>2, <3>1, MaintStep, PromotedFrame, IdleFacts, IdleOK
  <2>3. CASE promoted[r][form] = Absent /\ StartCopy(p, r, form)
    <3>1. promoted'[r][form] = Torn
      BY <1>1, <2>3 DEF StartCopy
    <3> QED BY <1>2, <2>3, <3>1 DEF Absent, Torn
  <2> QED BY <2>1, <2>2, <2>3 DEF CopyIdentical
<1>3. CASE promoted' # promoted
  <2> DEFINE s == [phase |-> "copy", run |-> r, form |-> form, content |-> files[r][form]]
  <2>1. promoted[r][form] = Absent /\ StartCopy(p, r, form)
    BY <1>3 DEF CopyIdentical
  <2>2. s \in ProcStates /\ s.phase = "copy" /\ s.run = r /\ s.form = form /\ s.content = files[r][form]
    BY <1>1 DEF ProcStates
  <2>3. proc' = [proc EXCEPT ![p] = s] /\ promoted' = [promoted EXCEPT ![r][form] = Torn]
    BY <2>1 DEF StartCopy
  <2> HIDE DEF s
  <2>4. proc'[p] = s
    BY <1>1, <2>3
  <2>5. /\ promoted'[r][form] = Torn /\ promoted' \in [Runs -> [Forms -> Contents \cup {Absent, Torn}]]
        /\ \A x \in Runs, f \in Forms : ~(x = r /\ f = form) => promoted'[x][f] = promoted[x][f]
    BY <1>1, <2>3
  <2>6. Typed'
    BY <1>1, <2>2, <2>3, <2>5 DEF IInv, Typed
  <2>7. ProcOK(p)'
    <3>1. form = "md" => promoted'[r]["json"] = promoted[r]["json"]
      BY <2>5 DEF Forms
    <3> QED BY <1>1, <2>2, <2>4, <2>5, <3>1 DEF ProcOK, Writing, Pruning, Promoting, PromoterOK
  <2>8. JsonFirst'
    <3> SUFFICES ASSUME NEW x \in Runs, promoted'[x]["md"] # Absent PROVE promoted'[x]["json"] \in Contents
      BY DEF JsonFirst
    <3>1. promoted[x]["md"] # Absent => promoted[x]["json"] \in Contents
      BY DEF IInv, JsonFirst
    <3>2. CASE x # r
      BY <2>5, <3>1, <3>2 DEF Forms
    <3>3. CASE x = r /\ form = "json"
      BY <2>1, <2>5, <3>1, <3>3, ResultStoreAssumption DEF Forms
    <3>4. CASE x = r /\ form = "md"
      BY <1>1, <2>5, <3>4 DEF Forms
    <3> QED BY <1>1, <3>2, <3>3, <3>4
  <2>9. PromotedPairMatches'
    BY <1>1, <2>5, ResultStoreAssumption DEF IInv, PromotedPairMatches, Forms
  <2> QED BY <1>1, <2>2, <2>3, <2>6, <2>7, <2>8, <2>9, MaintStep DEF WritePhases
<1> QED BY <1>2, <1>3

LEMMA StepPromote ==
  ASSUME IInv, MaintenanceAlone, NEW p \in Procs, NEW r \in Promotable, Promote(p, r)
  PROVE  IInv'
<1>1. /\ r \in Runs /\ "json" \in Forms /\ proc[p].phase = "idle"
      /\ files[r]["json"] # Absent /\ CopyIdentical(p, r, "json")
      /\ UNCHANGED <<files, ledger, flat, writes, deaths, newest, unlisted, mixed>>
  BY ResultStoreAssumption DEF Promote, MayMaintain, Busy, Forms
<1>2. \A q \in Procs \ {p} : proc[q] = Idle
  BY MaintainerAlone DEF Promote
<1> QED BY <1>1, <1>2, CopyStep

LEMMA StepPromoteMarkdown ==
  ASSUME IInv, MaintenanceAlone, NEW p \in Procs, PromoteMarkdown(p)
  PROVE  IInv'
<1> DEFINE r == proc[p].run
<1>1. /\ r \in Runs /\ "md" \in Forms /\ proc[p].phase = "promote" /\ proc \in [Procs -> ProcStates]
      /\ UNCHANGED <<files, ledger, flat, writes, deaths, newest, unlisted, mixed>>
  BY ProcShape DEF PromoteMarkdown, Forms, IInv, Typed
<1>2. \A q \in Procs \ {p} : proc[q] = Idle
  BY <1>1, MaintainerAlone DEF Busy, Writing
<1>3. CASE files[r]["md"] = Absent /\ proc' = [proc EXCEPT ![p] = Idle] /\ promoted' = promoted
  <2>1. Typed' /\ proc'[p] = Idle
    BY <1>1, <1>3, IdleFacts DEF IInv, Typed
  <2>2. LedgerTimes' /\ FilesPair' /\ NoHiddenRun' /\ NewestKept' /\ JsonFirst' /\ PromotedPairMatches'
    BY <1>1, <1>2, <1>3, QuietFrame, PromotedFrame DEF Writing
  <2> QED BY <1>2, <1>3, <2>1, <2>2, MaintStep, IdleFacts, IdleOK
<1>4. CASE files[r]["md"] # Absent /\ CopyIdentical(p, r, "md")
  <2>1. promoted[r]["json"] = files[r]["json"] /\ files[r]["json"] # Absent
    BY <1>1 DEF IInv, ProcOK, Promoting, PromoterOK
  <2> QED BY <1>1, <1>2, <1>4, <2>1, CopyStep
<1> QED BY <1>3, <1>4 DEF PromoteMarkdown

LEMMA StepFinishCopy ==
  ASSUME IInv, MaintenanceAlone, NEW p \in Procs, FinishCopy(p)
  PROVE  IInv'
<1> DEFINE r == proc[p].run
           form == proc[p].form
           c == proc[p].content
           s == AfterCopy(r, form)
<1>1. /\ r \in Runs /\ form \in {"json", "md"} /\ c \in Contents /\ proc[p].phase = "copy"
      /\ proc \in [Procs -> ProcStates] /\ promoted \in [Runs -> [Forms -> Contents \cup {Absent, Torn}]]
      /\ files \in [Runs -> [Forms -> Contents \cup {Absent}]]
      /\ promoted' = [promoted EXCEPT ![r][form] = c]
      /\ proc' = [proc EXCEPT ![p] = s]
      /\ UNCHANGED <<files, ledger, flat, writes, deaths, newest, unlisted, mixed>>
  BY ProcShape DEF FinishCopy, Forms, IInv, Typed
<1>2. \A q \in Procs \ {p} : proc[q] = Idle
  BY <1>1, MaintainerAlone DEF Busy, Writing
<1>3. s \in ProcStates /\ s.phase \in {"idle", "promote"} /\ (s.phase = "promote" => form = "json" /\ s.run = r)
  BY <1>1, IdleFacts DEF AfterCopy, ProcStates
<1> HIDE DEF s
<1>4. proc'[p] = s
  BY <1>1
<1>5. /\ promoted[r][form] = Torn /\ c = files[r][form]
      /\ form = "md" => promoted[r]["json"] = files[r]["json"] /\ files[r]["json"] # Absent
  BY <1>1 DEF IInv, ProcOK, Promoting, PromoterOK
<1>6. /\ promoted'[r][form] = c /\ promoted' \in [Runs -> [Forms -> Contents \cup {Absent, Torn}]]
      /\ \A x \in Runs, f \in Forms : ~(x = r /\ f = form) => promoted'[x][f] = promoted[x][f]
  BY <1>1 DEF Forms
<1>7. Typed'
  BY <1>1, <1>3, <1>6 DEF IInv, Typed
<1>8. ProcOK(p)'
  BY <1>1, <1>3, <1>4, <1>5, <1>6, ResultStoreAssumption DEF ProcOK, Writing, Pruning, Promoting, PromoterOK
<1>9. LedgerTimes' /\ FilesPair' /\ NoHiddenRun' /\ NewestKept'
  BY <1>1, <1>2, QuietFrame DEF Writing
<1>10. JsonFirst'
  <2> SUFFICES ASSUME NEW x \in Runs, promoted'[x]["md"] # Absent PROVE promoted'[x]["json"] \in Contents
    BY DEF JsonFirst
  <2>1. promoted[x]["md"] # Absent => promoted[x]["json"] \in Contents
    BY DEF IInv, JsonFirst
  <2>2. CASE x # r
    BY <1>6, <2>1, <2>2 DEF Forms
  <2>3. CASE x = r /\ form = "json"
    BY <1>1, <1>6, <2>3
  <2>4. CASE x = r /\ form = "md"
    BY <1>1, <1>5, <1>6, <2>4 DEF Forms
  <2> QED BY <1>1, <2>2, <2>3, <2>4
<1>11. PromotedPairMatches'
  <2> SUFFICES ASSUME NEW x \in Sidecar \ mixed, promoted'[x]["json"] \in Contents, promoted'[x]["md"] \in Contents
               PROVE  promoted'[x]["json"] = promoted'[x]["md"]
    BY <1>1 DEF PromotedPairMatches
  <2>0. x \in Runs
    BY ResultStoreAssumption
  <2>1. CASE x # r
    BY <1>6, <2>0, <2>1 DEF Forms, IInv, PromotedPairMatches
  <2>2. CASE x = r /\ form = "json"
    <3>1. promoted[r]["md"] \in Contents
      BY <1>1, <1>6, <2>2 DEF Forms
    <3>2. promoted[r]["json"] \in Contents
      BY <1>1, <3>1, ResultStoreAssumption DEF IInv, JsonFirst
    <3> QED BY <1>5, <2>2, <3>2, ResultStoreAssumption
  <2>3. CASE x = r /\ form = "md"
    <3>1. \A q \in Procs : ~(proc[q].phase = "json" /\ proc[q].run = r)
      BY <1>1, <1>2, IdleFacts
    <3>2. files[r]["md"] = files[r]["json"]
      BY <1>5, <2>3, <3>1 DEF IInv, FilesPair
    <3>3. promoted'[r]["json"] = files[r]["json"] /\ promoted'[r]["md"] = files[r]["md"]
      BY <1>1, <1>5, <1>6, <2>3 DEF Forms
    <3> QED BY <2>3, <3>2, <3>3
  <2> QED BY <1>1, <2>1, <2>2, <2>3
<1> QED BY <1>1, <1>2, <1>3, <1>7, <1>8, <1>9, <1>10, <1>11, MaintStep DEF WritePhases

LEMMA StepPlanMigration ==
  ASSUME IInv, MaintenanceAlone, NEW p \in Procs, PlanMigration(p)
  PROVE  IInv'
<1> DEFINE E == {DestOf[m[1]] : m \in Moves} \ Unrecorded
           s == [phase |-> "move", moves |-> Moves, entries |-> E]
<1>1. /\ \A q \in Procs \ {p} : proc[q] = Idle
      /\ proc[p].phase = "idle" /\ proc \in [Procs -> ProcStates]
      /\ proc' = [proc EXCEPT ![p] = s]
      /\ UNCHANGED <<files, ledger, flat, promoted, writes, deaths, newest, unlisted, mixed>>
  BY MaintainerAlone DEF PlanMigration, MayMaintain, Busy, IInv, Typed
<1>2. Moves \subseteq flat /\ flat \subseteq Sources \X Forms
  BY DEF Moves, IInv, Typed
<1>3. E \subseteq Legacy
  BY <1>2, ResultStoreAssumption
<1>4. s \in ProcStates /\ s.phase = "move" /\ s.moves = Moves /\ s.entries = E
  BY <1>2, <1>3 DEF ProcStates
<1>5. \A m \in Moves : DestOf[m[1]] \in E \cup Unrecorded
  OBVIOUS
<1> HIDE DEF s, E
<1>6. proc'[p] = s
  BY <1>1
<1>7. Typed'
  BY <1>1, <1>4 DEF IInv, Typed
<1>8. ProcOK(p)'
  <2>1. NoCollision
    BY DEF PlanMigration
  <2>2. MoverOK(p)'
    BY <1>1, <1>2, <1>4, <1>5, <1>6, <2>1 DEF MoverOK, NoCollision
  <2> QED BY <1>4, <1>6, <2>2 DEF ProcOK, Writing, Pruning, Promoting
<1>9. LedgerTimes' /\ FilesPair' /\ NoHiddenRun' /\ NewestKept' /\ JsonFirst' /\ PromotedPairMatches'
  BY <1>1, QuietFrame, PromotedFrame DEF Writing
<1> QED BY <1>1, <1>4, <1>7, <1>8, <1>9, MaintStep DEF WritePhases

\* Runs of the ledgered kinds are none of a migration's business.
LEMMA MoveFrame ==
  ASSUME IInv, \A x \in Authored : files'[x] = files[x],
         \A q \in Procs : ~Writing(q),
         UNCHANGED <<newest, mixed>>
  PROVE  FilesPair' /\ NewestKept'
BY ResultStoreAssumption DEF Authored, IInv, FilesPair, Writing, NewestKept

LEMMA StepMoveFile ==
  ASSUME IInv, MaintenanceAlone, NEW p \in Procs, NEW m \in flat, NEW c \in Contents, MoveFile(p, m, c)
  PROVE  IInv'
<1> DEFINE d == DestOf[m[1]]
           f == m[2]
           s == [proc[p] EXCEPT !.moves = @ \ {m}]
<1>1. /\ proc[p] \in [phase : {"move"}, moves : SUBSET (Sources \X Forms), entries : SUBSET Legacy]
      /\ proc[p].phase = "move" /\ proc \in [Procs -> ProcStates]
      /\ m \in proc[p].moves /\ flat \subseteq Sources \X Forms
      /\ files \in [Runs -> [Forms -> Contents \cup {Absent}]]
      /\ UNCHANGED <<ledger, promoted, writes, deaths, newest, unlisted, mixed>>
      /\ files' = [files EXCEPT ![d][f] = c]
      /\ flat' = flat \ {m}
  BY ProcShape DEF MoveFile, IInv, Typed
<1>2. \A q \in Procs \ {p} : proc[q] = Idle
  BY <1>1, MaintainerAlone DEF Busy, Writing
<1>3. d \in Legacy /\ d \in Runs /\ f \in Forms
  BY <1>1, ResultStoreAssumption
<1>4. /\ s \in [phase : {"move"}, moves : SUBSET (Sources \X Forms), entries : SUBSET Legacy]
      /\ s.moves = proc[p].moves \ {m} /\ s.entries = proc[p].entries /\ s.phase = "move"
  BY <1>1
<1>5. proc' = [proc EXCEPT ![p] = s]
  BY DEF MoveFile
<1> HIDE DEF s
<1>6. s \in ProcStates
  BY <1>4 DEF ProcStates
<1>7. proc'[p] = s
  BY <1>1, <1>5
<1>8. MoverOK(p)
  BY <1>1 DEF IInv, ProcOK
<1> HIDE DEF d, f
<1>9. /\ files' \in [Runs -> [Forms -> Contents \cup {Absent}]]
      /\ \A x \in Runs, g \in Forms : ~(x = d /\ g = f) => files'[x][g] = files[x][g]
      /\ \A x \in Runs \ {d} : files'[x] = files[x]
  BY <1>1, <1>3
<1>10. Typed'
  BY <1>1, <1>5, <1>6, <1>9 DEF IInv, Typed
<1>11. MoverOK(p)'
  BY <1>4, <1>7, <1>8, <1>1, ResultStoreAssumption, <1>9 DEF MoverOK, d, f
<1>12. ProcOK(p)'
  BY <1>4, <1>7, <1>11 DEF ProcOK, Writing, Pruning, Promoting
<1>13. \A q \in Procs : ~Writing(q) /\ (q # p => proc[q].phase # "move")
  BY <1>1, <1>2 DEF Writing, Idle
<1>14. \A x \in Authored : files'[x] = files[x]
  BY <1>3, <1>9 DEF Authored
<1>15. LedgerTimes'
  BY <1>1, PlanOfLedger DEF IInv, LedgerTimes
<1>16. NoHiddenRun'
  <2> SUFFICES ASSUME NEW x \in Runs \ Unrecorded, files'[x]["json"] # Absent, x \notin Recorded
               PROVE  x \in unlisted \/ x \in proc[p].entries
    BY <1>1, <1>4, <1>7, PlanOfLedger DEF NoHiddenRun
  <2>1. CASE x = d
    BY <1>1, <1>8, <2>1 DEF MoverOK, d
  <2>2. CASE x # d
    BY <1>9, <1>13, <2>2 DEF IInv, NoHiddenRun
  <2> QED BY <2>1, <2>2
<1>17. FilesPair' /\ NewestKept'
  BY <1>1, <1>13, <1>14, MoveFrame
<1> QED BY <1>1, <1>2, <1>4, <1>5, <1>6, <1>10, <1>12, <1>15, <1>16, <1>17, MaintStep, PromotedFrame DEF WritePhases

LEMMA StepRecordMigrated ==
  ASSUME IInv, MaintenanceAlone, NEW p \in Procs, NEW r \in Legacy, RecordMigrated(p, r)
  PROVE  IInv'
<1> DEFINE s == [proc[p] EXCEPT !.entries = @ \ {r}]
           e == [run |-> r, at |-> 0]
<1>1. /\ proc[p] \in [phase : {"move"}, moves : SUBSET (Sources \X Forms), entries : SUBSET Legacy]
      /\ proc[p].phase = "move" /\ proc[p].moves = {} /\ proc \in [Procs -> ProcStates]
      /\ ledger' = Append(ledger, e) /\ e \in Entries /\ r \in Runs /\ e.run = r
      /\ unlisted' = unlisted \ {r}
      /\ proc' = [proc EXCEPT ![p] = s]
      /\ UNCHANGED <<files, flat, promoted, writes, deaths, newest, mixed>>
  BY ProcShape, ResultStoreAssumption DEF RecordMigrated, IInv, Typed, Entries
<1>2. \A q \in Procs \ {p} : proc[q] = Idle
  BY <1>1, MaintainerAlone DEF Busy, Writing
<1>3. /\ s \in [phase : {"move"}, moves : SUBSET (Sources \X Forms), entries : SUBSET Legacy]
      /\ s.moves = {} /\ s.entries = proc[p].entries \ {r} /\ s.phase = "move"
  BY <1>1
<1> HIDE DEF s
<1>4. s \in ProcStates
  BY <1>3 DEF ProcStates
<1>5. proc'[p] = s
  BY <1>1
<1>6. /\ ledger' \in Seq(Entries)
      /\ Recorded' = Recorded \cup {r}
      /\ \A x \in Runs : Lines(x)' = Lines(x) \cup (IF r = x THEN {Len(ledger) + 1} ELSE {})
      /\ \A i \in DOMAIN ledger : ledger'[i] = ledger[i]
  BY <1>1, AppendFacts DEF IInv
<1>7. Typed'
  BY <1>1, <1>4, <1>6 DEF IInv, Typed
<1>8. ProcOK(p)'
  BY <1>3, <1>5 DEF ProcOK, Writing, Pruning, Promoting, MoverOK
<1>9. \A q \in Procs : ~Writing(q) /\ (q # p => proc[q].phase # "move")
  BY <1>1, <1>2 DEF Writing, Idle
<1>10. LedgerTimes'
  <2> SUFFICES ASSUME NEW x \in Authored, x \in Recorded'
               PROVE  /\ newest[x] > 0
                      /\ \E i \in Lines(x)' : ledger'[i].at = newest[x]
                      /\ \A i \in Lines(x)' : ledger'[i].at =< newest[x]
    BY <1>1 DEF LedgerTimes
  <2>1. x \in Runs /\ x \in Recorded /\ Lines(x)' = Lines(x) /\ Lines(x) \subseteq DOMAIN ledger
    BY <1>6 DEF Authored, Lines
  <2>2. \A i \in Lines(x) : ledger'[i] = ledger[i]
    BY <1>6, <2>1
  <2> QED BY <2>1, <2>2 DEF IInv, LedgerTimes
<1>11. NoHiddenRun'
  <2> SUFFICES ASSUME NEW x \in Runs \ Unrecorded, files[x]["json"] # Absent, x \notin Recorded'
               PROVE  x \in unlisted' \/ x \in s.entries
    BY <1>1, <1>3, <1>5 DEF NoHiddenRun
  <2>1. x # r /\ x \notin Recorded
    BY <1>6
  <2>2. x \in unlisted \/ x \in proc[p].entries
    BY <1>9, <2>1 DEF IInv, NoHiddenRun
  <2> QED BY <1>1, <1>3, <2>1, <2>2
<1>12. FilesPair' /\ NewestKept'
  BY <1>1, <1>9, MoveFrame
<1> QED BY <1>1, <1>2, <1>3, <1>4, <1>7, <1>8, <1>10, <1>11, <1>12, MaintStep, PromotedFrame DEF WritePhases

LEMMA StepFinishMigration ==
  ASSUME IInv, MaintenanceAlone, NEW p \in Procs, FinishMigration(p)
  PROVE  IInv'
<1>1. /\ proc[p].phase = "move" /\ proc[p].entries = {} /\ proc \in [Procs -> ProcStates]
      /\ proc' = [proc EXCEPT ![p] = Idle]
      /\ UNCHANGED <<files, ledger, flat, promoted, writes, deaths, newest, unlisted, mixed>>
  BY DEF FinishMigration, IInv, Typed
<1>2. \A q \in Procs \ {p} : proc[q] = Idle
  BY <1>1, MaintainerAlone DEF Busy, Writing
<1>3. Typed' /\ proc'[p] = Idle
  BY <1>1, IdleFacts DEF IInv, Typed
<1>4. LedgerTimes' /\ FilesPair' /\ NoHiddenRun' /\ NewestKept' /\ JsonFirst' /\ PromotedPairMatches'
  BY <1>1, <1>2, QuietFrame, PromotedFrame DEF Writing
<1> QED BY <1>1, <1>2, <1>3, <1>4, MaintStep, IdleFacts, IdleOK

-----------------------------------------------------------------------------
(* Commands that die *)

LEMMA StepDie ==
  ASSUME IInv, MaintenanceAlone, NEW p \in Procs, Die(p)
  PROVE  IInv'
<1>1. /\ Busy(p) /\ deaths < MaxDeaths /\ deaths' = deaths + 1
      /\ proc' = [proc EXCEPT ![p] = Idle] /\ proc \in [Procs -> ProcStates]
      /\ unlisted' = unlisted \cup LeftUnlisted(p)
      /\ mixed' = (IF proc[p].phase = "json" THEN mixed \cup {proc[p].run} ELSE mixed)
      /\ UNCHANGED <<files, ledger, flat, promoted, writes, newest>>
      /\ proc[p] \in ProcStates
  BY DEF Die, IInv, Typed
<1>2. /\ proc'[p] = Idle
      /\ \A q \in Procs \ {p} : proc'[q] = proc[q]
  BY <1>1
<1>3. LeftUnlisted(p) \subseteq Runs /\ mixed' \subseteq Runs /\ mixed \subseteq mixed'
  BY <1>1, ProcShape, ResultStoreAssumption DEF LeftUnlisted, Writing, Authored, IInv, Typed
<1>4. Typed'
  <2>1. deaths' \in 0 .. MaxDeaths
    BY <1>1, ResultStoreAssumption DEF IInv, Typed
  <2> QED BY <1>1, <1>3, <2>1, IdleFacts DEF IInv, Typed
<1>5. LedgerTimes'
  BY <1>1, PlanOfLedger DEF IInv, LedgerTimes
<1>6. FilesPair'
  <2> SUFFICES ASSUME NEW x \in Sidecar \ mixed', files[x]["json"] # Absent,
                      \A q \in Procs : ~(proc'[q].phase = "json" /\ proc'[q].run = x)
               PROVE  files[x]["md"] = files[x]["json"]
    BY <1>1 DEF FilesPair
  <2>1. \A q \in Procs : ~(proc[q].phase = "json" /\ proc[q].run = x)
    BY <1>1, <1>2
  <2> QED BY <1>3, <2>1 DEF IInv, FilesPair
<1>7. NoHiddenRun'
  <2> SUFFICES ASSUME NEW x \in Runs \ Unrecorded, files[x]["json"] # Absent, x \notin Recorded
               PROVE  \/ x \in unlisted'
                      \/ \E q \in Procs : \/ Writing(q)' /\ proc'[q].run = x
                                          \/ proc'[q].phase = "move" /\ x \in proc'[q].entries
    BY <1>1, PlanOfLedger DEF NoHiddenRun
  <2>1. \/ x \in unlisted
        \/ \E q \in Procs : \/ Writing(q) /\ proc[q].run = x
                            \/ proc[q].phase = "move" /\ x \in proc[q].entries
    BY DEF IInv, NoHiddenRun
  <2>2. CASE x \in unlisted
    BY <1>1, <2>2
  <2>3. ASSUME NEW q \in Procs, \/ Writing(q) /\ proc[q].run = x
                                \/ proc[q].phase = "move" /\ x \in proc[q].entries
        PROVE  \/ x \in unlisted'
               \/ Writing(q)' /\ proc'[q].run = x
               \/ proc'[q].phase = "move" /\ x \in proc'[q].entries
    <3>1. CASE q = p
      <4>1. x \in LeftUnlisted(p)
        BY <2>3, <3>1 DEF LeftUnlisted, Writing
      <4> QED BY <1>1, <4>1
    <3>2. CASE q # p
      BY <1>2, <2>3, <3>2 DEF Writing
    <3> QED BY <3>1, <3>2
  <2> QED BY <2>1, <2>2, <2>3
<1>8. NewestKept'
  BY <1>1 DEF IInv, NewestKept
<1>9. CASE Writing(p)
  <2>1. \A q \in Procs : proc[q] \in ProcStates /\ proc[q].phase \in WritePhases
    BY <1>9, WritersOnly
  <2>2. \A q \in Procs : Writing(q)' => WriterOK(q)'
    <3> SUFFICES ASSUME NEW q \in Procs, Writing(q)' PROVE WriterOK(q)'
      OBVIOUS
    <3>1. Writing(q) /\ WriterOK(q) /\ proc'[q] = proc[q]
      BY <1>2, IdleFacts DEF IInv, ProcOK, Writing
    <3>2. \A o \in Procs : Writing(o)' => Writing(o) /\ proc'[o] = proc[o]
      BY <1>2, IdleFacts DEF Writing
    <3> QED BY <1>1, <1>3, <3>1, <3>2, PlanOfLedger DEF WriterOK
  <2> QED BY <1>1, <1>3, <1>4, <1>5, <1>6, <1>7, <1>8, <2>1, <2>2, WriterStep, IdleFacts DEF WritePhases
<1>10. CASE ~Writing(p)
  <2>1. \A q \in Procs \ {p} : proc[q] = Idle
    BY <1>1, <1>10, MaintainerAlone
  <2>2. JsonFirst' /\ PromotedPairMatches'
    BY <1>1, <1>3, PromotedFrame
  <2> QED BY <1>1, <1>2, <1>4, <1>5, <1>6, <1>7, <1>8, <2>1, <2>2, MaintStep, IdleFacts, IdleOK
<1> QED BY <1>9, <1>10

-----------------------------------------------------------------------------
(* The invariant holds *)

LEMMA InitIInv == Init => IInv
<1> SUFFICES ASSUME Init PROVE IInv
  OBVIOUS
<1>1. \A p \in Procs : proc[p] = Idle
  BY DEF Init
<1>2. \A r \in Runs, f \in Forms : files[r][f] = Absent /\ promoted[r][f] = Absent
  BY DEF Init
<1>3. "json" \in Forms /\ "md" \in Forms
  BY DEF Forms
<1>4. Recorded = {}
  BY DEF Init, Recorded
<1>5. Typed
  <2>1. ledger \in Seq(Entries)
    BY EmptySeq DEF Init
  <2>2. proc \in [Procs -> ProcStates]
    BY IdleFacts DEF Init
  <2>3. writes \in 0 .. MaxWrites /\ deaths \in 0 .. MaxDeaths
    BY ResultStoreAssumption DEF Init
  <2> QED BY <2>1, <2>2, <2>3 DEF Init, Typed
<1>6. \A p \in Procs : ProcOK(p)
  BY <1>1, IdleFacts DEF ProcOK, Writing, Pruning, Promoting
<1>7. Exclusive
  BY <1>1, IdleFacts DEF Exclusive, Busy
<1>8. LedgerTimes
  BY <1>4 DEF LedgerTimes
<1>9. FilesPair
  BY <1>2, <1>3, ResultStoreAssumption DEF FilesPair
<1>10. JsonFirst /\ NoHiddenRun
  BY <1>2, <1>3 DEF JsonFirst, NoHiddenRun
<1>11. NewestKept
  BY DEF Init, NewestKept
<1>12. PromotedPairMatches
  BY <1>2, <1>3, ResultStoreAssumption DEF PromotedPairMatches
<1> QED BY <1>5, <1>6, <1>7, <1>8, <1>9, <1>10, <1>11, <1>12 DEF IInv

LEMMA StutterIInv ==
  ASSUME IInv, UNCHANGED vars
  PROVE  IInv'
<1> USE DEF vars
<1>1. Typed'
  BY DEF IInv, Typed
<1>2. \A p \in Procs : ProcOK(p)'
  BY PlanOfLedger DEF IInv, ProcOK, Writing, Pruning, Promoting, WriterOK, PrunerOK, PromoterOK, MoverOK, Gone
<1>3. Exclusive' /\ JsonFirst' /\ NewestKept' /\ PromotedPairMatches'
  BY DEF IInv, Exclusive, Busy, Writing, JsonFirst, NewestKept, PromotedPairMatches
<1>4. LedgerTimes' /\ FilesPair'
  BY PlanOfLedger DEF IInv, LedgerTimes, FilesPair
<1>5. NoHiddenRun'
  BY PlanOfLedger DEF IInv, NoHiddenRun, Writing
<1> QED BY <1>1, <1>2, <1>3, <1>4, <1>5 DEF IInv

LEMMA NextIInv ==
  ASSUME IInv, MaintenanceAlone, [Next]_vars
  PROVE  IInv'
<1>1. CASE UNCHANGED vars
  BY <1>1, StutterIInv
<1>2. ASSUME NEW p \in Procs, Step(p) PROVE IInv'
  <2>1. ASSUME NEW r \in Authored, NEW c \in Contents, WriteJson(p, r, c) PROVE IInv'
    BY <2>1, StepWriteJson
  <2>2. CASE WriteMarkdown(p)
    BY <2>2, StepWriteMarkdown
  <2>3. CASE StampRun(p)
    BY <2>3, StepStampRun
  <2>4. CASE AppendLine(p)
    BY <2>4, StepAppendLine
  <2>5. ASSUME NEW keep \in KeepChoices, PlanPrune(p, keep) PROVE IInv'
    BY <2>5, StepPlanPrune
  <2>6. ASSUME NEW r \in Runs, UnlinkJson(p, r) PROVE IInv'
    BY <2>6, StepUnlinkJson
  <2>7. CASE UnlinkMarkdown(p)
    BY <2>7, StepUnlinkMarkdown
  <2>8. CASE ReadLedger(p)
    BY <2>8, StepReadLedger
  <2>9. CASE ReplaceLedger(p)
    BY <2>9, StepReplaceLedger
  <2>10. ASSUME NEW r \in Promotable, Promote(p, r) PROVE IInv'
    BY <2>10, StepPromote
  <2>11. CASE PromoteMarkdown(p)
    BY <2>11, StepPromoteMarkdown
  <2>12. CASE FinishCopy(p)
    BY <2>12, StepFinishCopy
  <2>13. CASE PlanMigration(p)
    BY <2>13, StepPlanMigration
  <2>14. ASSUME NEW m \in flat, NEW c \in Contents, MoveFile(p, m, c) PROVE IInv'
    BY <2>14, StepMoveFile
  <2>15. ASSUME NEW r \in Legacy, RecordMigrated(p, r) PROVE IInv'
    BY <2>15, StepRecordMigrated
  <2>16. CASE FinishMigration(p)
    BY <2>16, StepFinishMigration
  <2> QED
    BY <1>2, <2>1, <2>2, <2>3, <2>4, <2>5, <2>6, <2>7, <2>8, <2>9, <2>10, <2>11, <2>12, <2>13, <2>14, <2>15,
       <2>16 DEF Step, Authored
<1>3. ASSUME NEW p \in Procs, Die(p) PROVE IInv'
  BY <1>3, StepDie
<1> QED BY <1>1, <1>2, <1>3 DEF Next

\* The inductive invariant holds, under the discipline that results commands
\* run alone.
THEOREM InvariantHolds ==
  ASSUME MaintenanceAlone
  PROVE  Spec => []IInv
<1>1. IInv /\ [Next]_vars => IInv'
  BY NextIInv
<1> QED BY InitIInv, <1>1, PTL DEF Spec

LEMMA TypedTypes == Typed => TypeOK
<1> SUFFICES ASSUME Typed PROVE TypeOK
  OBVIOUS
<1>1. \A i \in DOMAIN ledger : ledger[i].run \in Runs /\ ledger[i].at \in Nat
  BY LedgerLines DEF Typed
<1>2. \A p \in Procs : proc[p].phase \in {"idle", "json", "md", "stamped", "unlink", "unlinkmd", "rewrite",
                                         "promote", "copy", "move", "record"}
  BY ProcShape DEF Typed
<1> QED BY <1>1, <1>2 DEF Typed, TypeOK

\* Whatever writers interleave with each other and whichever commands die:
\* no recorded result disappears from the ledger's readers, prunes with any
\* --keep leave the newest runs of every kind on disk, and the two files of a
\* curated result match (result_store.py, result_maintenance.py).
THEOREM ResultsAreKept ==
  ASSUME MaintenanceAlone
  PROVE  Spec => []ResultsKept
<1>1. IInv => ResultsKept
  BY TypedTypes DEF IInv, ResultsKept
<1> QED BY <1>1, InvariantHolds, PTL

-----------------------------------------------------------------------------
(* A finished prune is final *)

\* Once a prune's lines are dropped the same prune plans nothing.
LEMMA DroppedSettles ==
  ASSUME Typed, NEW keep \in Nat, NEW P, P = Beyond(keep), ledger' = Kept(P)
  PROVE  Beyond(keep)' = {}
<1> DEFINE L(r) == {s \in Recorded \ Legacy : KindOf[s] = KindOf[r] /\ LatestAt(s) > LatestAt(r)}
           M(r) == {s \in Recorded' \ Legacy : KindOf[s] = KindOf[r] /\ LatestAt(s)' > LatestAt(r)'}
<1>1. /\ Recorded' = Recorded \ P
      /\ \A r \in Runs \ P :
              /\ \A i \in Lines(r)' : \E k \in Lines(r) : ledger[k] = ledger'[i]
              /\ \A k \in Lines(r) : \E i \in Lines(r)' : ledger'[i] = ledger[k]
      /\ Recorded \subseteq Runs
  BY DropFacts, LedgerLines DEF Typed
<1>2. ASSUME NEW r \in Recorded' PROVE LatestAt(r)' = LatestAt(r)
  BY <1>1 DEF LatestAt
<1>3. SUFFICES ASSUME NEW r \in Recorded' \ Legacy, Cardinality(M(r)) >= keep PROVE FALSE
  BY DEF Beyond
<1>4. M(r) \subseteq L(r) /\ L(r) \subseteq Runs
  BY <1>1, <1>2
<1>5. Cardinality(L(r)) >= Cardinality(M(r)) /\ Cardinality(L(r)) \in Nat /\ Cardinality(M(r)) \in Nat
  <2> HIDE DEF L, M
  <2> QED BY <1>4, ResultStoreAssumption, FS_Subset, FS_CardinalityType
<1>6. Cardinality(L(r)) >= keep
  BY <1>3, <1>5
<1> QED BY <1>1, <1>6 DEF Beyond

\* A prune that has come to its end, by dropping its lines or by finding none,
\* has removed what it planned and would plan nothing again.
THEOREM PruneIsFinal ==
  ASSUME MaintenanceAlone
  PROVE  Spec => PruneSettles
<1> DEFINE Settled(p) == /\ \A r \in proc[p].pruned : files'[r] = [f \in Forms |-> Absent] /\ r \notin Recorded'
                         /\ \A keep \in {proc[p].keep} : (Beyond(keep) = {})'
<1>1. ASSUME IInv, NEW p \in Procs, (ReadLedger(p) /\ ~Busy(p)') \/ ReplaceLedger(p) PROVE Settled(p)
  <2> DEFINE P == proc[p].pruned
             keep == proc[p].keep
  <2>1. /\ proc[p].phase \in {"unlink", "rewrite"} /\ proc \in [Procs -> ProcStates]
        /\ P \subseteq Authored /\ keep \in KeepChoices /\ files' = files
    BY <1>1, ProcShape DEF ReadLedger, ReplaceLedger, IInv, Typed
  <2>2. P = Beyond(keep) /\ \A r \in P : Gone(r)
    BY <1>1, <2>1 DEF IInv, ProcOK, Pruning, PrunerOK, ReadLedger, ReplaceLedger
  <2>3. \A r \in P : files'[r] = [f \in Forms |-> Absent]
    BY <2>1, <1>1, <2>2 DEF Gone, Forms, Authored, IInv, Typed
  <2>4. CASE ReadLedger(p) /\ ~Busy(p)'
    <3>1. ledger' = ledger /\ Len(Kept(P)) = Len(ledger)
      <4>1. CASE Len(Kept(P)) = Len(ledger)
        BY <2>4, <4>1 DEF ReadLedger
      <4>2. CASE Len(Kept(P)) # Len(ledger)
        BY <2>1, <2>4, <4>2 DEF ReadLedger, Busy
      <4> QED BY <4>1, <4>2
    <3>2. \A i \in DOMAIN ledger : ledger[i].run \notin P
      BY <1>1, <3>1, KeptFacts, LedgerLines DEF IInv, Typed
    <3>3. P \cap Recorded = {}
      BY <3>2 DEF Recorded
    <3>4. P \subseteq Recorded
      BY <2>2 DEF Beyond
    <3>5. \A k \in {keep} : (Beyond(k) = {})'
      BY <2>2, <3>1, <3>3, <3>4, PlanOfLedger
    <3> QED BY <2>3, <3>3, <3>4, <3>5
  <2>5. CASE ReplaceLedger(p)
    <3>1. ledger' = Kept(P)
      BY <1>1, <2>5 DEF ReplaceLedger, IInv, ProcOK, Pruning, PrunerOK
    <3>2. Typed /\ keep \in Nat
      BY <1>1, <2>1, ResultStoreAssumption DEF IInv
    <3>3. Recorded' = Recorded \ P
      BY <3>1, <3>2, DropFacts
    <3>4. \A k \in {keep} : (Beyond(k) = {})'
      BY <2>2, <3>1, <3>2, DroppedSettles
    <3> QED BY <2>3, <3>3, <3>4
  <2> QED BY <1>1, <2>4, <2>5
<1>2. IInv /\ [Next]_vars => [\A p \in Procs : (ReadLedger(p) /\ ~Busy(p)') \/ ReplaceLedger(p) => Settled(p)]_vars
  BY <1>1
<1> QED BY <1>2, InvariantHolds, PTL DEF Spec, PruneSettles

-----------------------------------------------------------------------------
(* Nothing is rewritten *)

\* Only a missing or an unfinished copy is ever written.
LEMMA PromotedStep ==
  ASSUME IInv, [Next]_vars, NEW r \in Runs, NEW f \in Forms, promoted[r][f] \in Contents
  PROVE  promoted'[r][f] = promoted[r][f]
<1>1. promoted \in [Runs -> [Forms -> Contents \cup {Absent, Torn}]]
      /\ promoted[r][f] \notin {Absent, Torn}
  BY ResultStoreAssumption DEF IInv, Typed
<1>2. ASSUME NEW p \in Procs, NEW x, NEW g, CopyIdentical(p, x, g) PROVE promoted'[r][f] = promoted[r][f]
  BY <1>1, <1>2 DEF CopyIdentical, StartCopy
<1>3. ASSUME NEW p \in Procs, FinishCopy(p) PROVE promoted'[r][f] = promoted[r][f]
  BY <1>3, <1>1 DEF FinishCopy, IInv, ProcOK, Promoting, PromoterOK
<1>4. CASE promoted' = promoted
  BY <1>4
<1>5. ASSUME NEW p \in Procs, Step(p), promoted' # promoted
      PROVE  FinishCopy(p) \/ \E x, g : CopyIdentical(p, x, g)
  BY <1>5 DEF Step, WriteJson, WriteMarkdown, StampRun, AppendLine, PlanPrune, UnlinkJson, UnlinkMarkdown,
              ReadLedger, ReplaceLedger, Promote, PromoteMarkdown, PlanMigration, MoveFile, RecordMigrated,
              FinishMigration
<1>6. ASSUME NEW p \in Procs, Die(p) PROVE promoted' = promoted
  BY <1>6 DEF Die
<1> QED BY <1>2, <1>3, <1>4, <1>5, <1>6 DEF Next, vars

\* The ledger grows at its end or forgets the runs of one plan.
LEMMA LedgerStep ==
  ASSUME IInv, [Next]_vars, ledger' # ledger
  PROVE  \/ ledger' = Append(ledger, Last(ledger'))
         \/ \E gone \in SUBSET Recorded : ledger' = KeptUpTo(gone)[Len(ledger)]
<1>1. ledger \in Seq(Entries)
  BY DEF IInv, Typed
<1>2. ASSUME NEW e \in Entries, ledger' = Append(ledger, e) PROVE ledger' = Append(ledger, Last(ledger'))
  <2>1. Len(ledger') = Len(ledger) + 1 /\ ledger'[Len(ledger) + 1] = e
    BY <1>1, <1>2, AppendProperties
  <2> QED BY <1>2, <2>1 DEF Last
<1>3. ASSUME NEW p \in Procs, ReplaceLedger(p)
      PROVE  \E gone \in SUBSET Recorded : ledger' = KeptUpTo(gone)[Len(ledger)]
  <2>1. ledger' = Kept(proc[p].pruned) /\ proc[p].pruned = Beyond(proc[p].keep)
    BY <1>3 DEF ReplaceLedger, IInv, ProcOK, Pruning, PrunerOK
  <2>2. proc[p].pruned \in SUBSET Recorded
    BY <2>1 DEF Beyond
  <2> QED BY <2>1, <2>2 DEF Kept
<1>4. ASSUME NEW p \in Procs, AppendLine(p) PROVE \E e \in Entries : ledger' = Append(ledger, e)
  BY <1>4, ProcShape DEF AppendLine, IInv, Typed, Entries, Authored
<1>5. ASSUME NEW p \in Procs, NEW r \in Legacy, RecordMigrated(p, r) PROVE \E e \in Entries : ledger' = Append(ledger, e)
  <2>1. [run |-> r, at |-> 0] \in Entries
    BY ResultStoreAssumption DEF Entries
  <2> QED BY <1>5, <2>1 DEF RecordMigrated
<1>6. ASSUME NEW p \in Procs, Step(p)
      PROVE  AppendLine(p) \/ ReplaceLedger(p) \/ \E r \in Legacy : RecordMigrated(p, r)
  BY <1>6 DEF Step, WriteJson, WriteMarkdown, StampRun, PlanPrune, UnlinkJson, UnlinkMarkdown,
              ReadLedger, Promote, PromoteMarkdown, FinishCopy, PlanMigration, MoveFile, FinishMigration
<1>7. ASSUME NEW p \in Procs, Die(p) PROVE FALSE
  BY <1>7 DEF Die
<1>8. PICK p \in Procs : AppendLine(p) \/ ReplaceLedger(p) \/ \E r \in Legacy : RecordMigrated(p, r)
  BY <1>6, <1>7 DEF Next, vars
<1>9. CASE ReplaceLedger(p)
  BY <1>3, <1>9
<1>10. CASE ~ReplaceLedger(p)
  BY <1>4, <1>5, <1>8, <1>10, <1>2
<1> QED BY <1>9, <1>10

\* A move takes one file of the flat layout to one free place.
LEMMA MoveKeepsCount ==
  ASSUME IInv, NEW p \in Procs, NEW m \in flat, NEW c \in Contents, MoveFile(p, m, c), NEW f \in Forms
  PROVE  Migrated(f)' = Migrated(f)
<1> DEFINE S == {s \in Sources : <<s, f>> \in flat}
           T == {s \in Sources : <<s, f>> \in flat'}
           A == {r \in Legacy : files[r][f] # Absent}
           B == {r \in Legacy : files'[r][f] # Absent}
           src == m[1]
           d == DestOf[m[1]]
<1>1. /\ proc[p].phase = "move" /\ m \in proc[p].moves /\ flat \subseteq Sources \X Forms
      /\ files \in [Runs -> [Forms -> Contents \cup {Absent}]]
      /\ files' = [files EXCEPT ![d][m[2]] = c]
      /\ flat' = flat \ {m} /\ c # Absent
  BY ResultStoreAssumption DEF MoveFile, IInv, Typed
<1>2. /\ src \in Sources /\ m[2] \in Forms /\ m = <<src, m[2]>> /\ d \in Legacy /\ d \in Runs
      /\ Legacy \subseteq Runs
  BY <1>1, ResultStoreAssumption
<1>3. files[d][m[2]] = Absent
  BY <1>1 DEF IInv, ProcOK, MoverOK
<1> HIDE DEF d, src
<1>4. CASE f = m[2]
  <2>1. src \in S /\ T = S \ {src}
    BY <1>1, <1>2, <1>4
  <2>2. d \notin A /\ B = A \cup {d}
    BY <1>1, <1>2, <1>3, <1>4
  <2>3. S \subseteq Sources /\ A \subseteq Runs
    BY <1>2
  <2> HIDE DEF S, T, A, B
  <2>4. IsFiniteSet(S) /\ IsFiniteSet(A)
    BY <2>3, ResultStoreAssumption, FS_Subset
  <2>5. Cardinality(T) = Cardinality(S) - 1 /\ Cardinality(S) \in Nat
    BY <2>1, <2>4, FS_RemoveElement, FS_CardinalityType
  <2>6. Cardinality(B) = Cardinality(A) + 1 /\ Cardinality(A) \in Nat
    BY <2>2, <2>4, FS_AddElement, FS_CardinalityType
  <2>7. Migrated(f) = Cardinality(S) + Cardinality(A) /\ Migrated(f)' = Cardinality(T) + Cardinality(B)
    BY DEF Migrated, S, T, A, B
  <2> QED BY <2>5, <2>6, <2>7
<1>5. CASE f # m[2]
  <2>1. S = T
    BY <1>1, <1>2, <1>5
  <2>2. A = B
    BY <1>1, <1>2, <1>5
  <2> QED BY <2>1, <2>2 DEF Migrated
<1> QED BY <1>4, <1>5

\* Everyone else leaves the flat layout and the migrated files alone.
LEMMA MigrationFrame ==
  ASSUME IInv, [Next]_vars, \A p \in Procs, m \in flat, c \in Contents : ~MoveFile(p, m, c)
  PROVE  flat' = flat /\ \A r \in Legacy : files'[r] = files[r]
<1>1. files \in [Runs -> [Forms -> Contents \cup {Absent}]] /\ Legacy \subseteq Runs
      /\ proc \in [Procs -> ProcStates]
  BY ResultStoreAssumption DEF IInv, Typed
<1>2. ASSUME NEW p \in Procs, NEW r \in Authored, NEW c \in Contents, WriteJson(p, r, c)
      PROVE  flat' = flat /\ \A x \in Legacy : files'[x] = files[x]
  BY <1>1, <1>2 DEF WriteJson, Authored
<1>3. ASSUME NEW p \in Procs, WriteMarkdown(p) PROVE flat' = flat /\ \A x \in Legacy : files'[x] = files[x]
  <2>1. proc[p].run \in Authored
    BY <1>1, <1>3, ProcShape DEF WriteMarkdown
  <2> QED BY <1>1, <1>3, <2>1 DEF WriteMarkdown, Authored
<1>4. ASSUME NEW p \in Procs, NEW r \in Runs, UnlinkJson(p, r)
      PROVE  flat' = flat /\ \A x \in Legacy : files'[x] = files[x]
  <2>1. r \in Authored
    BY <1>1, <1>4, ProcShape DEF UnlinkJson
  <2> QED BY <1>1, <1>4, <2>1 DEF UnlinkJson, Authored
<1>5. ASSUME NEW p \in Procs, UnlinkMarkdown(p) PROVE flat' = flat /\ \A x \in Legacy : files'[x] = files[x]
  <2>1. proc[p].run \in Authored
    BY <1>1, <1>5, ProcShape DEF UnlinkMarkdown
  <2> QED BY <1>1, <1>5, <2>1 DEF UnlinkMarkdown, Authored
<1>6. ASSUME NEW p \in Procs, Step(p) PROVE flat' = flat /\ \A r \in Legacy : files'[r] = files[r]
  <2>1. \/ \E r \in Authored, c \in Contents : WriteJson(p, r, c)
        \/ WriteMarkdown(p)
        \/ \E r \in Runs : UnlinkJson(p, r)
        \/ UnlinkMarkdown(p)
        \/ files' = files /\ flat' = flat
    BY <1>6 DEF Step, StampRun, AppendLine, PlanPrune, ReadLedger, ReplaceLedger, Promote, PromoteMarkdown,
                FinishCopy, PlanMigration, RecordMigrated, FinishMigration, Authored
  <2> QED BY <1>2, <1>3, <1>4, <1>5, <2>1
<1> QED BY <1>6 DEF Next, Die, vars

LEMMA MigrationStep ==
  ASSUME IInv, [Next]_vars, NEW f \in Forms
  PROVE  Migrated(f)' = Migrated(f)
<1>1. CASE \E p \in Procs, m \in flat, c \in Contents : MoveFile(p, m, c)
  BY <1>1, MoveKeepsCount
<1>2. CASE ~ \E p \in Procs, m \in flat, c \in Contents : MoveFile(p, m, c)
  <2>1. flat' = flat /\ \A r \in Legacy : files'[r] = files[r]
    BY <1>2, MigrationFrame
  <2>2. {r \in Legacy : files'[r][f] # Absent} = {r \in Legacy : files[r][f] # Absent}
    BY <2>1
  <2> QED BY <2>1, <2>2 DEF Migrated
<1> QED BY <1>1, <1>2

\* Curated copies are final, the ledger only grows or forgets whole runs, and
\* a migration keeps every file, whoever writes, dies or comes later.
THEOREM NothingIsRewritten ==
  ASSUME MaintenanceAlone
  PROVE  Spec => NothingRewritten
<1>1. IInv /\ [Next]_vars =>
        [\A r \in Runs, f \in Forms : promoted[r][f] \in Contents => promoted'[r][f] = promoted[r][f]]_vars
  BY PromotedStep
<1>2. IInv /\ [Next]_vars =>
        [\/ ledger' = ledger
         \/ ledger' = Append(ledger, Last(ledger'))
         \/ \E gone \in SUBSET Recorded : ledger' = KeptUpTo(gone)[Len(ledger)]]_vars
  BY LedgerStep
<1>3. IInv /\ [Next]_vars => [\A f \in Forms : Migrated(f)' = Migrated(f)]_vars
  BY MigrationStep
<1> QED
  BY <1>1, <1>2, <1>3, InvariantHolds, PTL
     DEF Spec, NothingRewritten, PromotedNeverOverwritten, LedgerHistory, MigrationLosesNothing

=============================================================================
