---------------------------- MODULE RecordsProofs ----------------------------
(***************************************************************************)
(* Proofs about the research commands, the prospective registry and the    *)
(* backup (Backup and the modules it extends), for any agendas, datasets,  *)
(* vintages, versions, bundles and bounds.                                 *)
(***************************************************************************)
EXTENDS Backup, SequenceTheorems, RecursionTheorems

-----------------------------------------------------------------------------
(* What the programs of the commands say *)

\* Five commands read what their arms read and note the catalog.
Simple == {"ablation", "walk_forward", "walk_forward_costs", "cadence_robustness", "accumulation_cohort"}
LEMMA SimpleText ==
  ASSUME NEW cmd \in Simple
  PROVE  LET P == Program(cmd)
         IN  /\ Len(P) = 5
             /\ P[1] = Do("load") /\ P[2] = Use("runs", AllocationData) /\ P[3] = Use("noteCatalog", {"prices"})
             /\ P[4] = Do("head") /\ P[5] = Do("write")
<1>1. Program(cmd) = <<Do("load"), Use("runs", AllocationData)>> \o NoteAndWrite
  BY DEF Simple, Program, Programs, AblationProgram, WalkForwardProgram, WalkForwardCostsProgram, CadenceProgram,
         CohortProgram
<1> QED BY <1>1 DEF NoteAndWrite

LEMMA ProxyText ==
  LET P == Program("walk_forward_proxy")
  IN  /\ Len(P) = 6
      /\ P[1] = Do("load") /\ P[2] = Use("runs", AllocationData) /\ P[3] = Use("runs", ProxyData)
      /\ P[4] = Use("noteCatalog", {"prices"}) /\ P[5] = Do("head") /\ P[6] = Do("write")
<1>1. Program("walk_forward_proxy") = WalkForwardProxyProgram
  BY DEF Program, Programs
<1> QED BY <1>1 DEF WalkForwardProxyProgram, NoteAndWrite

LEMMA SelectionText ==
  LET P == Program("strategy_selection")
  IN  /\ Len(P) = 7
      /\ P[1] = Do("load") /\ P[2] = Use("runs", AllocationData) /\ P[3] = Use("pin", AllocationData)
      /\ P[4] = Use("read", AllocationData) /\ P[5] = Use("noteCatalog", {"prices"}) /\ P[6] = Do("head")
      /\ P[7] = Do("write")
<1>1. Program("strategy_selection") = StrategySelectionProgram
  BY DEF Program, Programs
<1> QED BY <1>1 DEF StrategySelectionProgram, SelectionContext, NoteAndWrite

LEMMA FinalText ==
  LET P == Program("final_historical")
  IN  /\ Len(P) = 7
      /\ P[1] = Do("load") /\ P[2] = Use("runs", AllocationData)
      /\ P[3] = UseIfThere("noteCatalog", {"prices", "research_returns"})
      /\ P[4] = UseIfThere("runs", ProxyData) /\ P[5] = Use("noteCatalog", {"prices"}) /\ P[6] = Do("head")
      /\ P[7] = Do("write")
<1>1. Program("final_historical") = FinalHistoricalProgram
  BY DEF Program, Programs
<1> QED BY <1>1 DEF FinalHistoricalProgram, FinalHistoricalRuns, NoteAndWrite

LEMMA AfterTaxText ==
  LET P == Program("after_tax_campaign")
  IN  /\ Len(P) = 9
      /\ P[1] = Do("load") /\ P[2] = Use("own", {"prices"}) /\ P[3] = Use("own", {"cpi"})
      /\ P[4] = Use("own", {"fx_krw_base"}) /\ P[5] = Use("own", {"rates"}) /\ P[6] = Use("noteCatalog", {"prices"})
      /\ P[7] = Do("bytes") /\ P[8] = Do("head") /\ P[9] = Do("write")
<1>1. Program("after_tax_campaign") = AfterTaxProgram
  BY DEF Program, Programs
<1> QED BY <1>1 DEF AfterTaxProgram

LEMMA CampaignText ==
  LET P == Program("pension_campaign")
  IN  /\ Len(P) = 11
      /\ P[1] = Do("load") /\ P[2] = Do("bytes")
      /\ P[3] = Use("pin", {"prices", "fx_krw_base"}) /\ P[4] = Use("read", {"prices", "fx_krw_base"})
      /\ P[5] = UseIfThere("pin", {"fx"}) /\ P[6] = UseIfThere("read", {"fx"})
      /\ P[7] = UseIfThere("pin", {"cpi"}) /\ P[8] = UseIfThere("read", {"cpi"})
      /\ P[9] = Use("notePins", {"prices", "fx_krw_base", "fx", "cpi"})
      /\ P[10] = Do("head") /\ P[11] = Do("write")
<1>1. Program("pension_campaign") = PensionCampaignProgram(PensionCampaignUs)
  BY DEF Program, Programs
<1> QED BY <1>1 DEF PensionCampaignProgram, PensionCampaignUs

LEMMA CampaignKrText ==
  LET P == Program("pension_campaign_kr")
  IN  /\ Len(P) = 9
      /\ P[1] = Do("load") /\ P[2] = Do("bytes")
      /\ P[3] = Use("pin", {"kr_etf_prices"}) /\ P[4] = Use("read", {"kr_etf_prices"})
      /\ P[5] = UseIfThere("pin", {"cpi"}) /\ P[6] = UseIfThere("read", {"cpi"})
      /\ P[7] = Use("notePins", {"kr_etf_prices", "cpi"}) /\ P[8] = Do("head") /\ P[9] = Do("write")
<1>1. Program("pension_campaign_kr") = PensionCampaignProgram(PensionCampaignKr)
  BY DEF Program, Programs
<1> QED BY <1>1 DEF PensionCampaignProgram, PensionCampaignKr

LEMMA PensionSelectionText ==
  LET P == Program("pension_selection")
  IN  /\ Len(P) = 11
      /\ P[1] = Do("load") /\ P[2] = Do("bytes")
      /\ P[3] = Use("pin", {"prices", "fx_krw_base"}) /\ P[4] = Use("read", {"prices", "fx_krw_base"})
      /\ P[5] = UseIfThere("pin", {"fx"}) /\ P[6] = UseIfThere("read", {"fx"}) /\ P[7] = UseIfThere("pin", {"cpi"})
      /\ P[8] = Use("notePins", {"prices", "fx_krw_base", "fx", "cpi"}) /\ P[9] = Use("runs", {"prices", "fx_krw_base"})
      /\ P[10] = Do("head") /\ P[11] = Do("write")
<1>1. Program("pension_selection") = PensionSelectionProgram
  BY DEF Program, Programs
<1> QED BY <1>1 DEF PensionSelectionProgram, PensionSelectionReads, HistoricalWorstRatios

LEMMA DecisionText ==
  LET P == Program("pension_decision")
  IN  /\ Len(P) = 13
      /\ P[1] = Do("load") /\ P[2] = Do("bytes") /\ P[3] = Do("incumbent")
      /\ P[4] = Use("pin", {"prices", "research_monthly"}) /\ P[5] = Use("read", {"prices", "research_monthly"})
      /\ P[6] = Do("decide") /\ P[7] = Use("notePins", {"prices", "research_monthly"})
      /\ P[8] = Use("runs", {"prices", "fx_krw_base"}) /\ P[9] = Do("crossCheck") /\ P[10] = Do("head")
      /\ P[11] = Do("write") /\ P[12] = Do("freeze") /\ P[13] = Do("fill")
<1>1. Program("pension_decision") = PensionDecisionProgram
  BY DEF Program, Programs
<1> QED BY <1>1 DEF PensionDecisionProgram

LEMMA HouseholdText ==
  LET P == Program("isa_household")
  IN  /\ Len(P) = 12
      /\ P[1] = Do("load") /\ P[2] = Do("bytes") /\ P[3] = Do("pensionRecord") /\ P[4] = Do("companions")
      /\ P[5] = Use("pin", {"prices", "research_monthly"}) /\ P[6] = Use("read", {"prices", "research_monthly"})
      /\ P[7] = Do("decideIsa") /\ P[8] = Use("notePins", {"prices", "research_monthly"}) /\ P[9] = Do("head")
      /\ P[10] = Do("write") /\ P[11] = Do("freeze") /\ P[12] = Do("fill")
<1>1. Program("isa_household") = IsaHouseholdProgram
  BY DEF Program, Programs
<1> QED BY <1>1 DEF IsaHouseholdProgram

LEMMA ReviewText ==
  LET P == Program("pension_review")
  IN  /\ Len(P) = 3
      /\ P[1] = Do("pensionRecord") /\ P[2] = Use("pin", {"prices"}) /\ P[3] = Use("read", {"prices"})
<1>1. Program("pension_review") = PensionReviewProgram
  BY DEF Program, Programs
<1> QED BY <1>1 DEF PensionReviewProgram

LEMMA MonitorText ==
  LET P == Program("prospective_monitor")
  IN  /\ Len(P) = 5
      /\ P[1] = Do("bundle") /\ P[2] = Do("head") /\ P[3] = Do("admit") /\ P[4] = Use("observe", AllocationData)
      /\ P[5] = Do("append")
<1>1. Program("prospective_monitor") = MonitorProgram
  BY DEF Program, Programs
<1> QED BY <1>1 DEF MonitorProgram

LEMMA PushText ==
  LET P == Program("backup_push")
  IN  /\ Len(P) = 5
      /\ P[1] = Do("pushNormalized") /\ P[2] = Do("pushManifests") /\ P[3] = Do("pushFrozen")
      /\ P[4] = Do("pushRegistry") /\ P[5] = Do("moveRaw")
<1>1. Program("backup_push") = PushProgram
  BY DEF Program, Programs
<1> QED BY <1>1 DEF PushProgram

LEMMA PullText ==
  LET P == Program("backup_pull")
  IN  /\ Len(P) = 4
      /\ P[1] = Do("pullNormalized") /\ P[2] = Do("pullManifests") /\ P[3] = Do("pullFrozen")
      /\ P[4] = Do("pullRegistry")
<1>1. Program("backup_pull") = PullProgram
  BY DEF Program, Programs
<1> QED BY <1>1 DEF PullProgram

LEMMA CommandNames ==
  Commands = Simple \cup {"walk_forward_proxy", "strategy_selection", "final_historical", "after_tax_campaign",
    "pension_campaign", "pension_campaign_kr", "pension_selection", "pension_decision", "isa_household",
    "pension_review", "prospective_monitor", "backup_push", "backup_pull"}
BY DEF Commands, Programs, Simple

Transfers == {"pushNormalized", "pushManifests", "pushFrozen", "pushRegistry", "moveRaw",
              "pullNormalized", "pullManifests", "pullFrozen", "pullRegistry"}
Watches == {"bundle", "admit", "observe", "append"}
Catalogers == Simple \cup {"walk_forward_proxy", "strategy_selection", "final_historical", "after_tax_campaign"}
Pinners == {"pension_campaign", "pension_campaign_kr", "isa_household"}

\* What holds of every program: transfers belong to the backup, a record is
\* filled right after it was opened, and reports are written by some only.
Shaped(cmd, i) ==
  LET step == Program(cmd)[i]
  IN  /\ step.data \subseteq Datasets /\ step.optional \subseteq Datasets
      /\ step.do = "fill" => /\ i > 1 /\ Program(cmd)[i - 1].do = "freeze"
                             /\ \/ cmd = "pension_decision" /\ i = 13
                                \/ cmd = "isa_household" /\ i = 12
      /\ step.do \in Transfers => cmd \in {"backup_push", "backup_pull"}
      /\ step.do \in Watches => cmd = "prospective_monitor"
      /\ step.do = "decideIsa" => cmd = "isa_household" /\ i = 7
      /\ step.do = "write" => cmd \in Catalogers \cup Pinners \cup {"pension_selection", "pension_decision"}

LEMMA ProgramsShaped ==
  ASSUME NEW cmd \in Commands
  PROVE  Len(Program(cmd)) \in Nat /\ \A i \in 1 .. Len(Program(cmd)) : Shaped(cmd, i)
<1> USE DEF Shaped, Transfers, Watches, Catalogers, Pinners, Do, Use, UseIfThere, AllocationData, ProxyData, Datasets
<1>1. CASE cmd \in Simple
  <2>1. Len(Program(cmd)) = 5 /\ \A i \in 1 .. 5 : i \in {1, 2, 3, 4, 5}
    BY <1>1, SimpleText
  <2>2. ASSUME NEW i \in {1, 2, 3, 4, 5} PROVE Shaped(cmd, i)
    BY <1>1, SimpleText
  <2> QED BY <2>1, <2>2
<1>2. CASE cmd = "walk_forward_proxy"
  <2>1. Len(Program(cmd)) = 6 /\ \A i \in 1 .. 6 : i \in {1, 2, 3, 4, 5, 6}
    BY <1>2, ProxyText
  <2>2. ASSUME NEW i \in {1, 2, 3, 4, 5, 6} PROVE Shaped(cmd, i)
    BY <1>2, ProxyText
  <2> QED BY <2>1, <2>2
<1>3. CASE cmd = "strategy_selection"
  <2>1. Len(Program(cmd)) = 7 /\ \A i \in 1 .. 7 : i \in {1, 2, 3, 4, 5, 6, 7}
    BY <1>3, SelectionText
  <2>2. ASSUME NEW i \in {1, 2, 3, 4, 5, 6, 7} PROVE Shaped(cmd, i)
    BY <1>3, SelectionText
  <2> QED BY <2>1, <2>2
<1>4. CASE cmd = "final_historical"
  <2>1. Len(Program(cmd)) = 7 /\ \A i \in 1 .. 7 : i \in {1, 2, 3, 4, 5, 6, 7}
    BY <1>4, FinalText
  <2>2. ASSUME NEW i \in {1, 2, 3, 4, 5, 6, 7} PROVE Shaped(cmd, i)
    BY <1>4, FinalText
  <2> QED BY <2>1, <2>2
<1>5. CASE cmd = "after_tax_campaign"
  <2>1. Len(Program(cmd)) = 9 /\ \A i \in 1 .. 9 : i \in {1, 2, 3, 4, 5, 6, 7, 8, 9}
    BY <1>5, AfterTaxText
  <2>2. ASSUME NEW i \in {1, 2, 3, 4, 5, 6, 7, 8, 9} PROVE Shaped(cmd, i)
    BY <1>5, AfterTaxText
  <2> QED BY <2>1, <2>2
<1>6. CASE cmd = "pension_campaign"
  <2>1. Len(Program(cmd)) = 11 /\ \A i \in 1 .. 11 : i \in {1, 2, 3, 4, 5, 6, 7, 8, 9, 10, 11}
    BY <1>6, CampaignText
  <2>2. ASSUME NEW i \in {1, 2, 3, 4, 5, 6, 7, 8, 9, 10, 11} PROVE Shaped(cmd, i)
    BY <1>6, CampaignText
  <2> QED BY <2>1, <2>2
<1>7. CASE cmd = "pension_campaign_kr"
  <2>1. Len(Program(cmd)) = 9 /\ \A i \in 1 .. 9 : i \in {1, 2, 3, 4, 5, 6, 7, 8, 9}
    BY <1>7, CampaignKrText
  <2>2. ASSUME NEW i \in {1, 2, 3, 4, 5, 6, 7, 8, 9} PROVE Shaped(cmd, i)
    BY <1>7, CampaignKrText
  <2> QED BY <2>1, <2>2
<1>8. CASE cmd = "pension_selection"
  <2>1. Len(Program(cmd)) = 11 /\ \A i \in 1 .. 11 : i \in {1, 2, 3, 4, 5, 6, 7, 8, 9, 10, 11}
    BY <1>8, PensionSelectionText
  <2>2. ASSUME NEW i \in {1, 2, 3, 4, 5, 6, 7, 8, 9, 10, 11} PROVE Shaped(cmd, i)
    BY <1>8, PensionSelectionText
  <2> QED BY <2>1, <2>2
<1>9. CASE cmd = "pension_decision"
  <2>1. Len(Program(cmd)) = 13 /\ \A i \in 1 .. 13 : i \in {1, 2, 3, 4, 5, 6, 7, 8, 9, 10, 11, 12, 13}
    BY <1>9, DecisionText
  <2>2. ASSUME NEW i \in {1, 2, 3, 4, 5, 6, 7, 8, 9, 10, 11, 12, 13} PROVE Shaped(cmd, i)
    BY <1>9, DecisionText
  <2> QED BY <2>1, <2>2
<1>10. CASE cmd = "isa_household"
  <2>1. Len(Program(cmd)) = 12 /\ \A i \in 1 .. 12 : i \in {1, 2, 3, 4, 5, 6, 7, 8, 9, 10, 11, 12}
    BY <1>10, HouseholdText
  <2>2. ASSUME NEW i \in {1, 2, 3, 4, 5, 6, 7, 8, 9, 10, 11, 12} PROVE Shaped(cmd, i)
    BY <1>10, HouseholdText
  <2> QED BY <2>1, <2>2
<1>11. CASE cmd = "pension_review"
  BY <1>11, ReviewText
<1>12. CASE cmd = "prospective_monitor"
  BY <1>12, MonitorText
<1>13. CASE cmd = "backup_push"
  BY <1>13, PushText
<1>14. CASE cmd = "backup_pull"
  BY <1>14, PullText
<1> QED
  BY CommandNames, <1>1, <1>2, <1>3, <1>4, <1>5, <1>6, <1>7, <1>8, <1>9, <1>10, <1>11, <1>12, <1>13, <1>14

\* Will the command note the prices of the catalog at this step or later?
NoteAhead(cmd, at) ==
  \E i \in at .. Len(Program(cmd)) : Program(cmd)[i].do = "noteCatalog" /\ "prices" \in Program(cmd)[i].data

\* Whoever notes the catalog notes the prices after the last read of them.
LEMMA NotedAfterReads ==
  ASSUME NEW cmd \in Catalogers, NEW i \in 1 .. Len(Program(cmd))
  PROVE  LET step == Program(cmd)[i]
         IN  /\ step.do \in {"runs", "own", "read"} /\ "prices" \in step.data \cup step.optional => NoteAhead(cmd, i + 1)
             /\ step.do = "write" => ~NoteAhead(cmd, i)
             /\ step.do # "notePins"
<1>1. CASE cmd \in Simple
  <2>1. Len(Program(cmd)) = 5
    BY <1>1, SimpleText
  <2>2. \A k \in 1 .. 5 : k \in {1, 2, 3, 4, 5}
    OBVIOUS
  <2>3. i \in {1, 2, 3, 4, 5}
    BY <2>1, <2>2
  <2> QED BY <1>1, <2>1, <2>3, SimpleText DEF NoteAhead, Do, Use, UseIfThere, AllocationData, ProxyData
<1>2. CASE cmd = "walk_forward_proxy"
  <2>1. Len(Program(cmd)) = 6
    BY <1>2, ProxyText
  <2>2. \A k \in 1 .. 6 : k \in {1, 2, 3, 4, 5, 6}
    OBVIOUS
  <2>3. i \in {1, 2, 3, 4, 5, 6}
    BY <2>1, <2>2
  <2> QED BY <1>2, <2>1, <2>3, ProxyText DEF NoteAhead, Do, Use, UseIfThere, AllocationData, ProxyData
<1>3. CASE cmd = "strategy_selection"
  <2>1. Len(Program(cmd)) = 7
    BY <1>3, SelectionText
  <2>2. \A k \in 1 .. 7 : k \in {1, 2, 3, 4, 5, 6, 7}
    OBVIOUS
  <2>3. i \in {1, 2, 3, 4, 5, 6, 7}
    BY <2>1, <2>2
  <2> QED BY <1>3, <2>1, <2>3, SelectionText DEF NoteAhead, Do, Use, UseIfThere, AllocationData, ProxyData
<1>4. CASE cmd = "final_historical"
  <2>1. Len(Program(cmd)) = 7
    BY <1>4, FinalText
  <2>2. \A k \in 1 .. 7 : k \in {1, 2, 3, 4, 5, 6, 7}
    OBVIOUS
  <2>3. i \in {1, 2, 3, 4, 5, 6, 7}
    BY <2>1, <2>2
  <2> QED BY <1>4, <2>1, <2>3, FinalText DEF NoteAhead, Do, Use, UseIfThere, AllocationData, ProxyData
<1>5. CASE cmd = "after_tax_campaign"
  <2>1. Len(Program(cmd)) = 9
    BY <1>5, AfterTaxText
  <2>2. \A k \in 1 .. 9 : k \in {1, 2, 3, 4, 5, 6, 7, 8, 9}
    OBVIOUS
  <2>3. i \in {1, 2, 3, 4, 5, 6, 7, 8, 9}
    BY <2>1, <2>2
  <2> QED BY <1>5, <2>1, <2>3, AfterTaxText DEF NoteAhead, Do, Use, UseIfThere, AllocationData, ProxyData
<1> QED BY <1>1, <1>2, <1>3, <1>4, <1>5 DEF Catalogers

\* The datasets a command has pinned, or read, before a step, and whether it
\* has noted its pins by then.
DoneWith(cmd, at, what) ==
  {d \in Datasets : \E j \in 1 .. at - 1 : /\ Program(cmd)[j].do = what
                                           /\ d \in Program(cmd)[j].data \cup Program(cmd)[j].optional}
PinsNoted(cmd, at) == \E j \in 1 .. at - 1 : Program(cmd)[j].do = "notePins"

Takes(step) == step.data \cup step.optional

\* What the constructors of steps hold.
LEMMA StepFields ==
  \A w, d : /\ Do(w).do = w
            /\ Use(w, d).do = w /\ Use(w, d).data = d /\ Takes(Use(w, d)) = d
            /\ UseIfThere(w, d).do = w /\ Takes(UseIfThere(w, d)) = d
  BY DEF Do, Use, UseIfThere, Takes

\* A pension campaign and the household decision read a dataset right after it
\* was pinned and never pin it again, note all pins once, and write after that.
LEMMA PinnersOrder ==
  ASSUME NEW cmd \in Pinners, NEW i \in 1 .. Len(Program(cmd)), NEW j \in 1 .. Len(Program(cmd))
  PROVE  LET now == Program(cmd)[i]
             step == Program(cmd)[j]
         IN  /\ now.do \notin {"runs", "own", "noteCatalog", "incumbent", "decide", "crossCheck"}
             /\ now.do = "pin" /\ step.do = "read" /\ j < i => Takes(now) \cap Takes(step) = {}
             /\ now.do = "pin" /\ step.do = "notePins" => i < j
             /\ now.do = "notePins" /\ step.do = "pin" => Takes(step) \subseteq now.data
             /\ now.do = "notePins" /\ step.do = "notePins" => i = j
             /\ now.do = "write" /\ step.do = "pin" => /\ j + 1 < i /\ Program(cmd)[j + 1].do = "read"
                                                       /\ Takes(Program(cmd)[j + 1]) = Takes(step)
             /\ now.do = "write" /\ step.do = "notePins" => j < i
             /\ \E n \in 1 .. Len(Program(cmd)) : Program(cmd)[n].do = "notePins"
<1>1. CASE cmd = "pension_campaign"
  <2>1. Len(Program(cmd)) = 11
    BY <1>1, CampaignText
  <2>2. \A k \in 1 .. 11 : k \in {1, 2, 3, 4, 5, 6, 7, 8, 9, 10, 11}
    OBVIOUS
  <2>3. i \in {1, 2, 3, 4, 5, 6, 7, 8, 9, 10, 11} /\ j \in {1, 2, 3, 4, 5, 6, 7, 8, 9, 10, 11}
    BY <2>1, <2>2
  <2>4. /\ Program(cmd)[1].do = "load" /\ Program(cmd)[2].do = "bytes" /\ Program(cmd)[3].do = "pin"
        /\ Program(cmd)[4].do = "read" /\ Program(cmd)[5].do = "pin" /\ Program(cmd)[6].do = "read"
        /\ Program(cmd)[7].do = "pin" /\ Program(cmd)[8].do = "read" /\ Program(cmd)[9].do = "notePins"
        /\ Program(cmd)[10].do = "head" /\ Program(cmd)[11].do = "write"
    <3>1. Program(cmd)[1].do = "load" /\ Program(cmd)[2].do = "bytes" /\ Program(cmd)[3].do = "pin"
      BY <1>1, CampaignText, StepFields
    <3>2. Program(cmd)[4].do = "read" /\ Program(cmd)[5].do = "pin" /\ Program(cmd)[6].do = "read"
      BY <1>1, CampaignText, StepFields
    <3>3. Program(cmd)[7].do = "pin" /\ Program(cmd)[8].do = "read" /\ Program(cmd)[9].do = "notePins"
      BY <1>1, CampaignText, StepFields
    <3>4. Program(cmd)[10].do = "head" /\ Program(cmd)[11].do = "write"
      BY <1>1, CampaignText, StepFields
    <3> QED BY <3>1, <3>2, <3>3, <3>4
  <2>5. Program(cmd)[i].do \notin {"runs", "own", "noteCatalog", "incumbent", "decide", "crossCheck"}
    BY <2>1, <2>3, <2>4
  <2>6. /\ Program(cmd)[i].do = "pin" => i \in {3, 5, 7}
        /\ Program(cmd)[i].do = "write" => i = 11
        /\ Program(cmd)[i].do = "notePins" => i = 9
    BY <2>1, <2>3, <2>4
  <2>7. /\ Program(cmd)[j].do = "pin" => j \in {3, 5, 7}
        /\ Program(cmd)[j].do = "read" => j \in {4, 6, 8}
    BY <2>1, <2>3, <2>4
  <2>8. Program(cmd)[i].do = "pin" /\ Program(cmd)[j].do = "read" /\ j < i
         => Takes(Program(cmd)[i]) \cap Takes(Program(cmd)[j]) = {}
    BY <1>1, CampaignText, StepFields, <2>6, <2>7
  <2>9. /\ (Program(cmd)[i].do = "pin" /\ Program(cmd)[j].do = "notePins") => i < j
        /\ (Program(cmd)[i].do = "notePins" /\ Program(cmd)[j].do = "notePins") => i = j
        /\ (Program(cmd)[i].do = "write" /\ Program(cmd)[j].do = "notePins") => j < i
    BY <2>1, <2>3, <2>4
  <2>10. Program(cmd)[i].do = "notePins" /\ Program(cmd)[j].do = "pin" => Takes(Program(cmd)[j]) \subseteq Program(cmd)[i].data
    BY <1>1, <2>6, <2>7, CampaignText, StepFields
  <2>11. Program(cmd)[i].do = "write" /\ Program(cmd)[j].do = "pin"
         => /\ j + 1 < i /\ Program(cmd)[j + 1].do = "read"
            /\ Takes(Program(cmd)[j + 1]) = Takes(Program(cmd)[j])
    BY <1>1, <2>1, <2>6, <2>7, CampaignText, StepFields
  <2>12. 9 \in 1 .. Len(Program(cmd)) /\ Program(cmd)[9].do = "notePins"
    BY <1>1, <2>1, CampaignText, StepFields
  <2> QED BY <2>5, <2>8, <2>9, <2>10, <2>11, <2>12
<1>2. CASE cmd = "pension_campaign_kr"
  <2>1. Len(Program(cmd)) = 9
    BY <1>2, CampaignKrText
  <2>2. \A k \in 1 .. 9 : k \in {1, 2, 3, 4, 5, 6, 7, 8, 9}
    OBVIOUS
  <2>3. i \in {1, 2, 3, 4, 5, 6, 7, 8, 9} /\ j \in {1, 2, 3, 4, 5, 6, 7, 8, 9}
    BY <2>1, <2>2
  <2>4. /\ Program(cmd)[1].do = "load" /\ Program(cmd)[2].do = "bytes" /\ Program(cmd)[3].do = "pin"
        /\ Program(cmd)[4].do = "read" /\ Program(cmd)[5].do = "pin" /\ Program(cmd)[6].do = "read"
        /\ Program(cmd)[7].do = "notePins" /\ Program(cmd)[8].do = "head" /\ Program(cmd)[9].do = "write"
    <3>1. Program(cmd)[1].do = "load" /\ Program(cmd)[2].do = "bytes" /\ Program(cmd)[3].do = "pin"
      BY <1>2, CampaignKrText, StepFields
    <3>2. Program(cmd)[4].do = "read" /\ Program(cmd)[5].do = "pin" /\ Program(cmd)[6].do = "read"
      BY <1>2, CampaignKrText, StepFields
    <3>3. Program(cmd)[7].do = "notePins" /\ Program(cmd)[8].do = "head" /\ Program(cmd)[9].do = "write"
      BY <1>2, CampaignKrText, StepFields
    <3> QED BY <3>1, <3>2, <3>3
  <2>5. Program(cmd)[i].do \notin {"runs", "own", "noteCatalog", "incumbent", "decide", "crossCheck"}
    BY <2>1, <2>3, <2>4
  <2>6. /\ Program(cmd)[i].do = "pin" => i \in {3, 5}
        /\ Program(cmd)[i].do = "write" => i = 9
        /\ Program(cmd)[i].do = "notePins" => i = 7
    BY <2>1, <2>3, <2>4
  <2>7. /\ Program(cmd)[j].do = "pin" => j \in {3, 5}
        /\ Program(cmd)[j].do = "read" => j \in {4, 6}
    BY <2>1, <2>3, <2>4
  <2>8. Program(cmd)[i].do = "pin" /\ Program(cmd)[j].do = "read" /\ j < i
         => Takes(Program(cmd)[i]) \cap Takes(Program(cmd)[j]) = {}
    BY <1>2, <2>1, <2>6, <2>7, CampaignKrText, StepFields
  <2>9. /\ (Program(cmd)[i].do = "pin" /\ Program(cmd)[j].do = "notePins") => i < j
        /\ (Program(cmd)[i].do = "notePins" /\ Program(cmd)[j].do = "notePins") => i = j
        /\ (Program(cmd)[i].do = "write" /\ Program(cmd)[j].do = "notePins") => j < i
    BY <2>1, <2>3, <2>4
  <2>10. Program(cmd)[i].do = "notePins" /\ Program(cmd)[j].do = "pin" => Takes(Program(cmd)[j]) \subseteq Program(cmd)[i].data
    BY <1>2, <2>6, <2>7, CampaignKrText, StepFields
  <2>11. Program(cmd)[i].do = "write" /\ Program(cmd)[j].do = "pin"
         => /\ j + 1 < i /\ Program(cmd)[j + 1].do = "read"
            /\ Takes(Program(cmd)[j + 1]) = Takes(Program(cmd)[j])
    BY <1>2, <2>1, <2>6, <2>7, CampaignKrText, StepFields
  <2>12. 7 \in 1 .. Len(Program(cmd)) /\ Program(cmd)[7].do = "notePins"
    BY <1>2, <2>1, CampaignKrText, StepFields
  <2> QED BY <2>5, <2>8, <2>9, <2>10, <2>11, <2>12
<1>3. CASE cmd = "isa_household"
  <2>1. Len(Program(cmd)) = 12
    BY <1>3, HouseholdText
  <2>2. \A k \in 1 .. 12 : k \in {1, 2, 3, 4, 5, 6, 7, 8, 9, 10, 11, 12}
    OBVIOUS
  <2>3. i \in {1, 2, 3, 4, 5, 6, 7, 8, 9, 10, 11, 12} /\ j \in {1, 2, 3, 4, 5, 6, 7, 8, 9, 10, 11, 12}
    BY <2>1, <2>2
  <2>4. /\ Program(cmd)[1].do = "load" /\ Program(cmd)[2].do = "bytes" /\ Program(cmd)[3].do = "pensionRecord"
        /\ Program(cmd)[4].do = "companions" /\ Program(cmd)[5].do = "pin" /\ Program(cmd)[6].do = "read"
        /\ Program(cmd)[7].do = "decideIsa" /\ Program(cmd)[8].do = "notePins" /\ Program(cmd)[9].do = "head"
        /\ Program(cmd)[10].do = "write" /\ Program(cmd)[11].do = "freeze" /\ Program(cmd)[12].do = "fill"
    <3>1. Program(cmd)[1].do = "load" /\ Program(cmd)[2].do = "bytes" /\ Program(cmd)[3].do = "pensionRecord"
      BY <1>3, HouseholdText, StepFields
    <3>2. Program(cmd)[4].do = "companions" /\ Program(cmd)[5].do = "pin" /\ Program(cmd)[6].do = "read"
      BY <1>3, HouseholdText, StepFields
    <3>3. Program(cmd)[7].do = "decideIsa" /\ Program(cmd)[8].do = "notePins" /\ Program(cmd)[9].do = "head"
      BY <1>3, HouseholdText, StepFields
    <3>4. Program(cmd)[10].do = "write" /\ Program(cmd)[11].do = "freeze" /\ Program(cmd)[12].do = "fill"
      BY <1>3, HouseholdText, StepFields
    <3> QED BY <3>1, <3>2, <3>3, <3>4
  <2>5. Program(cmd)[i].do \notin {"runs", "own", "noteCatalog", "incumbent", "decide", "crossCheck"}
    BY <2>1, <2>3, <2>4
  <2>6. /\ Program(cmd)[i].do = "pin" => i \in {5}
        /\ Program(cmd)[i].do = "write" => i = 10
        /\ Program(cmd)[i].do = "notePins" => i = 8
    BY <2>1, <2>3, <2>4
  <2>7. /\ Program(cmd)[j].do = "pin" => j \in {5}
        /\ Program(cmd)[j].do = "read" => j \in {6}
    BY <2>1, <2>3, <2>4
  <2>8. Program(cmd)[i].do = "pin" /\ Program(cmd)[j].do = "read" /\ j < i
         => Takes(Program(cmd)[i]) \cap Takes(Program(cmd)[j]) = {}
    BY <1>3, <2>1, <2>6, <2>7, HouseholdText, StepFields
  <2>9. /\ (Program(cmd)[i].do = "pin" /\ Program(cmd)[j].do = "notePins") => i < j
        /\ (Program(cmd)[i].do = "notePins" /\ Program(cmd)[j].do = "notePins") => i = j
        /\ (Program(cmd)[i].do = "write" /\ Program(cmd)[j].do = "notePins") => j < i
    BY <2>1, <2>3, <2>4
  <2>10. Program(cmd)[i].do = "notePins" /\ Program(cmd)[j].do = "pin" => Takes(Program(cmd)[j]) \subseteq Program(cmd)[i].data
    BY <1>3, <2>6, <2>7, HouseholdText, StepFields
  <2>11. Program(cmd)[i].do = "write" /\ Program(cmd)[j].do = "pin"
         => /\ j + 1 < i /\ Program(cmd)[j + 1].do = "read"
            /\ Takes(Program(cmd)[j + 1]) = Takes(Program(cmd)[j])
    BY <1>3, <2>1, <2>6, <2>7, HouseholdText, StepFields
  <2>12. 8 \in 1 .. Len(Program(cmd)) /\ Program(cmd)[8].do = "notePins"
    BY <1>3, <2>1, HouseholdText, StepFields
  <2> QED BY <2>5, <2>8, <2>9, <2>10, <2>11, <2>12
<1> QED BY <1>1, <1>2, <1>3 DEF Pinners


-----------------------------------------------------------------------------
(* What a step does to the command in progress *)

RunFields == {"cmd", "at", "freeze", "spec", "bytes", "companions", "commit", "basis", "held", "pins", "used", "noted",
              "status", "selected", "file", "asOf", "block"}
RunShaped ==
  \/ run = NoRun
  \/ /\ DOMAIN run = RunFields /\ run.cmd \in Commands
     /\ run.at \in 1 .. Len(Program(run.cmd)) + 1

PinnedNow == {<<d, run.pins[d]>> : d \in {e \in Now.data \union Now.optional : run.pins[e] > 0}}

\* The run that a step of its program leaves.
Moved(next) ==
  /\ Running /\ run.at <= Len(Program(run.cmd))
  /\ DOMAIN next = RunFields /\ next.cmd = run.cmd /\ next.freeze = run.freeze
  /\ \/ next.at = run.at + 1
     \/ next.at = run.at /\ Now.do \in {"runs", "observe"}
  /\ next.spec = IF Now.do = "load" THEN config ELSE run.spec
  /\ next.bytes = IF Now.do = "bytes" THEN config ELSE run.bytes
  /\ next.companions = IF Now.do = "companions" THEN companions ELSE run.companions
  /\ next.commit = IF Now.do = "head" THEN head ELSE run.commit
  /\ Now.do \in {"pin", "own", "runs", "noteCatalog"} => Resolvable
  /\ next.pins = IF Now.do = "pin" THEN [d \in Datasets |-> IF d \in Wanted THEN Newest(d) ELSE run.pins[d]]
                 ELSE run.pins
  /\ next.used = IF Now.do = "read" THEN run.used \union PinnedNow
                 ELSE IF Now.do \in {"own", "runs"} THEN run.used \union NewestData ELSE run.used
  /\ next.noted = IF Now.do = "noteCatalog" THEN [d \in Datasets |-> IF d \in Wanted THEN Newest(d) ELSE run.noted[d]]
                  ELSE IF Now.do = "notePins" THEN [d \in Datasets |-> IF d \in Now.data THEN run.pins[d] ELSE run.noted[d]]
                  ELSE run.noted

\* What the steps that decide, read records or watch leave in the run.
MovedOn(next) ==
  /\ Now.do \notin {"decide", "crossCheck", "decideIsa"} => next.status = run.status /\ next.selected = run.selected
  /\ Now.do \notin {"incumbent", "pensionRecord"} => next.basis = run.basis /\ next.held = run.held
  /\ Now.do # "bundle" => next.file = run.file /\ next.asOf = run.asOf
  /\ Now.do # "observe" => next.block = run.block
  /\ Now.do = "decide" => LET verdict == Verdict(outcome.decision[run.pins["prices"]], run.held)
                          IN  next.status = verdict.status /\ next.selected = verdict.selected
  /\ Now.do = "crossCheck" => \/ next.status = run.status /\ next.selected = run.selected
                              \/ next.status = "NO_DECISION" /\ next.selected = "none"
  /\ Now.do = "decideIsa" => /\ next.status = outcome.isa[<<run.spec, run.companions, run.pins["prices"]>>]
                             /\ next.selected = run.held.id
  /\ Now.do = "incumbent" => \/ next.basis = run.basis /\ next.held = None
                             \/ /\ next.basis \in PensionRecords /\ records[next.basis] # Torn
                                /\ next.held = Held(records[next.basis].incumbent)
  /\ Now.do = "pensionRecord" => /\ next.basis \in PensionRecords /\ records[next.basis] # Torn
                                 /\ next.held = Held(records[next.basis].incumbent)
  /\ Now.do = "bundle" => next.file = bundle /\ next.asOf \in Dates
  /\ Now.do = "admit" => Admissible
  /\ Now.do = "observe" =>
       \/ next.block = run.block
       \/ /\ next.at = run.at /\ NextArm <= Len(run.file.arms) /\ IdentityHolds(run.file, NextArm)
          /\ next.block = Append(run.block, Observation(NextArm))

\* One step of the program of the command in progress, any of them.
Working == \/ Load \/ ReadBytes \/ LoadCompanions \/ Pin \/ ReadPinned \/ ReadNewest \/ RunOnce \/ NoteCatalog \/ NotePins
           \/ ResolveCommit \/ ReadIncumbent \/ ReadPensionRecord \/ Decide \/ CrossCheck \/ DecideIsa
           \/ Write \/ OpenRecord

LEMMA NamesAreNotNone == "none" \notin Commands
BY CommandNames DEF Simple

LEMMA WorkingMoves ==
  ASSUME RunShaped, Working
  PROVE  Moved(run') /\ MovedOn(run')
<1>a. \E what : At(what)
  BY DEF Working, Load, ReadBytes, LoadCompanions, Pin, ReadPinned, ReadNewest, RunOnce, NoteCatalog, NotePins, ResolveCommit,
         ReadIncumbent, ReadPensionRecord, Decide, CrossCheck, DecideIsa, Write, OpenRecord
<1>0. DOMAIN run = RunFields /\ Running
  BY <1>a DEF At, RunShaped, Running, NoRun
<1> USE <1>0 DEF At, Done, Moved, MovedOn, RunFields
<1>1. CASE Load BY <1>1 DEF Load
<1>2. CASE ReadBytes BY <1>2 DEF ReadBytes
<1>3. CASE Pin BY <1>3 DEF Pin
<1>4. CASE ReadPinned BY <1>4 DEF ReadPinned, PinnedNow
<1>5. CASE ReadNewest BY <1>5 DEF ReadNewest
<1>6. CASE RunOnce BY <1>6 DEF RunOnce
<1>7. CASE NoteCatalog BY <1>7 DEF NoteCatalog
<1>8. CASE NotePins BY <1>8 DEF NotePins
<1>9. CASE ResolveCommit BY <1>9 DEF ResolveCommit
<1>10. CASE ReadIncumbent
  <2>1. CASE Done([run EXCEPT !.held = None])
    BY <1>10, <2>1 DEF ReadIncumbent
  <2>2. ASSUME NEW id \in PensionRecords, records[id] # Torn,
               Done([run EXCEPT !.basis = id, !.held = Held(records[id].incumbent)])
        PROVE  Moved(run') /\ MovedOn(run')
    BY <1>10, <2>2 DEF ReadIncumbent
  <2> QED BY <1>10, <2>1, <2>2 DEF ReadIncumbent
<1>11. CASE ReadPensionRecord BY <1>11 DEF ReadPensionRecord
<1>12. CASE Decide BY <1>12 DEF Decide
<1>13. CASE CrossCheck BY <1>13 DEF CrossCheck
<1>14. CASE DecideIsa BY <1>14 DEF DecideIsa
<1>15. CASE Write BY <1>15 DEF Write
<1>16. CASE OpenRecord BY <1>16 DEF OpenRecord
<1>17. CASE LoadCompanions BY <1>17 DEF LoadCompanions
<1> QED
  BY <1>1, <1>2, <1>3, <1>4, <1>5, <1>6, <1>7, <1>8, <1>9, <1>10, <1>11, <1>12, <1>13, <1>14, <1>15, <1>16, <1>17
  DEF Working

\* Nothing happens to the command, it ends, one begins, or its program goes on.
LEMMA RunGoesOn ==
  ASSUME RunShaped, [Next]_vars
  PROVE  \/ run' = run
         \/ run' = NoRun
         \/ /\ ~Running /\ agenda # <<>> /\ Sensible(Head(agenda))
            /\ \E freeze \in BOOLEAN : run' = Started(Head(agenda), freeze)
         \/ Moved(run') /\ MovedOn(run')
<1>1. CASE UNCHANGED vars BY <1>1 DEF vars, researchVars
<1>2. CASE BeginSensibly BY <1>2 DEF BeginSensibly, Begin
<1>3. CASE Working BY <1>3, WorkingMoves
<1>4. CASE Skip \/ EditConfig \/ EditCompanions \/ Commit \/ (\E d \in Publishable : Ingest(d))
  BY <1>4 DEF Skip, EditConfig, EditCompanions, Commit, Ingest, Publish
<1>5. CASE FillRecord \/ Return \/ Refuse \/ Die \/ DiskLoss
  BY <1>5 DEF FillRecord, Return, Refuse, Die, DiskLoss
<1>6. CASE RegistryStep
  <2>1. CASE AppendBlock \/ TearBlock \/ RefuseMonitor \/ FreezeBundle \/ EditBundle
    BY <2>1 DEF AppendBlock, TearBlock, RefuseMonitor, FreezeBundle, EditBundle
  <2> SUFFICES ASSUME LoadBundle \/ Admit \/ Observe \/ AllObserved
               PROVE  Moved(run') /\ MovedOn(run')
    BY <1>6, <2>1 DEF RegistryStep
  <2>2. \E what : At(what)
    BY DEF LoadBundle, Admit, Observe, AllObserved
  <2>3. DOMAIN run = RunFields /\ Running
    BY <2>2 DEF At, RunShaped, Running, NoRun
  <2> USE <2>3 DEF At, Done, Moved, MovedOn, RunFields
  <2>4. CASE LoadBundle BY <2>4 DEF LoadBundle
  <2>5. CASE Admit BY <2>5 DEF Admit
  <2>6. CASE Observe BY <2>6 DEF Observe
  <2>7. CASE AllObserved BY <2>7 DEF AllObserved
  <2> QED BY <2>4, <2>5, <2>6, <2>7
<1>7. CASE Transfer
  <2>1. Ends \/ \E what \in Transfers : At(what) /\ Advance
    <3> USE DEF Transfers
    <3>1. CASE PushNormalized BY <3>1 DEF PushNormalized
    <3>2. CASE PushManifests BY <3>2 DEF PushManifests
    <3>3. CASE PushFrozen BY <3>3 DEF PushFrozen
    <3>4. CASE PushRegistry BY <3>4 DEF PushRegistry
    <3>5. CASE MoveRaw BY <3>5 DEF MoveRaw
    <3>6. CASE PullNormalized BY <3>6 DEF PullNormalized
    <3>7. CASE PullManifests BY <3>7 DEF PullManifests
    <3>8. CASE PullFrozen BY <3>8 DEF PullFrozen
    <3>9. CASE PullRegistry BY <3>9 DEF PullRegistry
    <3> QED BY <1>7, <3>1, <3>2, <3>3, <3>4, <3>5, <3>6, <3>7, <3>8, <3>9 DEF Transfer
  <2>2. CASE \E what \in Transfers : At(what) /\ Advance
    <3>1. DOMAIN run = RunFields /\ Running
      BY <2>2 DEF At, RunShaped, Running, NoRun
    <3>2. Now.do \in Transfers /\ run.at <= Len(Program(run.cmd))
      BY <2>2 DEF At
    <3> QED BY <2>2, <3>1, <3>2 DEF Advance, Done, Moved, MovedOn, RunFields, Transfers
  <2> QED BY <2>1, <2>2 DEF Ends
<1> QED
  BY <1>1, <1>2, <1>3, <1>4, <1>5, <1>6, <1>7 DEF Next, Step, Working

-----------------------------------------------------------------------------
(* Types *)

Typed ==
  /\ parquet \subseteq Pairs /\ manifests \subseteq Pairs
  /\ remote.parquet \subseteq Pairs /\ remote.manifests \subseteq Pairs
  /\ DOMAIN remote = {"parquet", "manifests", "frozen", "log", "raw"}
  /\ published \in [Datasets -> 0 .. MaxVintage]
  /\ config \in 1 .. MaxVersions /\ companions \in 1 .. MaxVersions /\ head \in 1 .. MaxVersions
  /\ outcome \in Outcomes
  /\ agenda \in Seq(Commands)
  /\ deaths \in 0 .. MaxDeaths
  /\ RunShaped

\* What the command in progress has read and noted.
RunTyped ==
  Running =>
    /\ run.spec \in 0 .. MaxVersions /\ run.bytes \in 0 .. MaxVersions
    /\ run.companions \in 0 .. MaxVersions /\ run.commit \in 0 .. MaxVersions
    /\ run.used \subseteq Pairs
    /\ run.pins \in [Datasets -> 0 .. MaxVintage]
    /\ run.noted \in [Datasets -> 0 .. MaxVintage]
    /\ run.cmd = "isa_household" /\ run.at > 1 => run.spec > 0
    /\ run.cmd = "isa_household" /\ run.at > 4 => run.companions > 0
    /\ run.cmd = "isa_household" /\ run.at > 5 => run.pins["prices"] > 0
    /\ run.status \in DecisionStatuses \union IsaStatuses \union {"none"}

RecordsNamed ==
  /\ \A id \in DOMAIN records : records[id] = Torn \/ records[id].id = id
  /\ \A id \in DOMAIN remote.frozen : remote.frozen[id] = Torn \/ remote.frozen[id].id = id

\* The newest vintage is one on disk, and none on disk is newer.
LEMMA NewestIs ==
  ASSUME NEW d
  PROVE  /\ Newest(d) \in 0 .. MaxVintage
         /\ Newest(d) > 0 => <<d, Newest(d)>> \in manifests
         /\ \A v \in 1 .. MaxVintage : <<d, v>> \in manifests => v <= Newest(d) /\ Newest(d) > 0
<1>1. MaxVintage \in Nat
  BY RecordsAssumption
<1>2. CASE Vintages(d) = {}
  BY <1>1, <1>2 DEF Newest, Vintages
<1>3. CASE Vintages(d) # {}
  <2>1. \E v \in Vintages(d) : \A w \in Vintages(d) : w <= v
    BY <1>1, <1>3, GreatestIndex DEF Vintages
  <2>2. Newest(d) \in Vintages(d) /\ \A w \in Vintages(d) : w <= Newest(d)
    BY <1>3, <2>1 DEF Newest
  <2> QED BY <1>1, <2>2 DEF Vintages
<1> QED BY <1>2, <1>3

-----------------------------------------------------------------------------
LEMMA TypedAtFirst ==
  ASSUME BackupInit
  PROVE  Typed /\ RunTyped /\ RecordsNamed
<1>1. PICK s \in Starts :
        /\ manifests = s.data \X {1}
        /\ published = [d \in Datasets |-> IF d \in s.data THEN 1 ELSE 0]
        /\ config = s.version /\ companions = s.version /\ head = s.version
        /\ outcome = s.outcome
        /\ agenda = s.agenda
  BY DEF BackupInit, RegistryInit, Init
<1>2. /\ s.data \subseteq Datasets /\ s.version \in 1 .. MaxVersions /\ s.outcome \in Outcomes
      /\ s.agenda \in Seq(Commands)
  BY StartsAssumption
<1>3. run = NoRun /\ ~Running /\ records = <<>> /\ deaths = 0 /\ parquet = manifests
  BY DEF BackupInit, RegistryInit, Init, Running, NoRun
<1>4. remote = [parquet |-> {}, manifests |-> {}, frozen |-> <<>>, log |-> <<>>, raw |-> {}]
  BY DEF BackupInit
<1>5. manifests \subseteq Pairs /\ published \in [Datasets -> 0 .. MaxVintage]
  BY <1>1, <1>2, RecordsAssumption DEF Pairs
<1>6. Typed
  <2>1. remote.parquet = {} /\ remote.manifests = {} /\ DOMAIN remote = {"parquet", "manifests", "frozen", "log", "raw"}
    BY <1>4
  <2>2. RunShaped /\ 0 \in 0 .. MaxDeaths
    BY <1>3, RecordsAssumption DEF RunShaped
  <2> QED BY <1>1, <1>2, <1>3, <1>5, <2>1, <2>2 DEF Typed
<1>7. RecordsNamed
  BY <1>3, <1>4 DEF RecordsNamed
<1> QED BY <1>3, <1>6, <1>7 DEF RunTyped

LEMMA WorkingFrame ==
  ASSUME Working
  PROVE  UNCHANGED <<world, plans>>
<1>1. CASE Load \/ ReadBytes \/ LoadCompanions \/ Pin \/ ReadPinned \/ ReadNewest \/ RunOnce \/ NoteCatalog \/ NotePins
  BY <1>1 DEF Load, ReadBytes, LoadCompanions, Pin, ReadPinned, ReadNewest, RunOnce, NoteCatalog, NotePins
<1>2. CASE ResolveCommit \/ ReadIncumbent \/ ReadPensionRecord \/ Decide \/ CrossCheck \/ DecideIsa \/ Write \/ OpenRecord
  BY <1>2 DEF ResolveCommit, ReadIncumbent, ReadPensionRecord, Decide, CrossCheck, DecideIsa, Write, OpenRecord
<1> QED BY <1>1, <1>2 DEF Working

LEMMA PartsSmall ==
  ASSUME NEW S, NEW part \in PartsOf(S)
  PROVE  part \subseteq S
BY DEF PartsOf

LEMMA ShapeKept ==
  ASSUME Typed, [Next]_vars
  PROVE  RunShaped'
<1>1. CASE run' = run
  BY <1>1 DEF Typed, RunShaped
<1>2. CASE run' = NoRun
  BY <1>2 DEF RunShaped
<1>3. ASSUME agenda # <<>>, NEW freeze \in BOOLEAN, run' = Started(Head(agenda), freeze)
      PROVE  RunShaped'
  <2>1. Head(agenda) \in Commands
    BY <1>3 DEF Typed
  <2>2. Len(Program(Head(agenda))) \in Nat
    BY <2>1, ProgramsShaped
  <2> QED BY <1>3, <2>1, <2>2 DEF RunShaped, Started, RunFields
<1>4. CASE Moved(run')
  BY <1>4, ProgramsShaped DEF Typed, RunShaped, Moved, Running, NoRun
<1> QED BY <1>1, <1>2, <1>3, <1>4, RunGoesOn DEF Typed

LEMMA TypedKept ==
  ASSUME Typed, [Next]_vars
  PROVE  Typed'
<1> USE RecordsAssumption
<1>0. RunShaped'
  BY ShapeKept
<1>1. CASE UNCHANGED vars
  BY <1>0, <1>1 DEF vars, researchVars, registryVars, backupVars, Typed
<1>2. CASE BeginSensibly
  BY <1>0, <1>2 DEF BeginSensibly, Begin, world, silver, files, backupVars, Typed
<1>3. CASE Skip
  BY <1>0, <1>3 DEF Skip, world, silver, backupVars, Typed
<1>4. CASE Step /\ UNCHANGED <<registryVars, backupVars>>
  <2>1. CASE Working
    BY <1>0, <1>4, <2>1, WorkingFrame DEF world, silver, plans, backupVars, Typed
  <2>2. CASE FillRecord \/ Return \/ Refuse
    BY <1>0, <1>4, <2>2 DEF FillRecord, Return, Refuse, world, silver, plans, backupVars, Typed
  <2>3. CASE Die
    BY <1>0, <1>4, <2>3 DEF Die, world, silver, backupVars, Typed
  <2> QED BY <1>4, <2>1, <2>2, <2>3 DEF Step, Working
<1>5. CASE (EditConfig \/ EditCompanions \/ Commit) /\ UNCHANGED <<registryVars, backupVars>>
  BY <1>0, <1>5 DEF EditConfig, EditCompanions, Commit, silver, plans, files, backupVars, Typed
<1>6. CASE RegistryStep /\ UNCHANGED backupVars
  <2>1. UNCHANGED <<world, agenda, remote>> /\ (deaths' = deaths \/ TearBlock)
    BY <1>6 DEF plans, RegistryStep, LoadBundle, Admit, Observe, AllObserved, AppendBlock, TearBlock, RefuseMonitor, FreezeBundle,
                EditBundle, backupVars
  <2>2. deaths' \in 0 .. MaxDeaths
    BY <2>1 DEF TearBlock, Typed
  <2> QED BY <1>0, <2>1, <2>2 DEF Typed, world, silver
<1>7. CASE Transfer
  <2>1. CASE PushNormalized
    BY <1>0, <2>1, PartsSmall DEF PushNormalized, world, silver, plans, Typed
  <2>2. CASE PushManifests
    BY <1>0, <2>2, PartsSmall DEF PushManifests, world, silver, plans, Typed
  <2>3. CASE PushFrozen
    BY <1>0, <2>3 DEF PushFrozen, world, silver, plans, Typed
  <2>4. CASE PushRegistry
    BY <1>0, <2>4 DEF PushRegistry, world, silver, plans, Typed
  <2>5. CASE MoveRaw
    BY <1>0, <2>5 DEF MoveRaw, world, silver, plans, Typed
  <2>6. CASE PullNormalized
    BY <1>0, <2>6, PartsSmall DEF PullNormalized, plans, backupVars, Typed
  <2>7. CASE PullManifests
    BY <1>0, <2>7, PartsSmall DEF PullManifests, plans, backupVars, Typed
  <2>8. CASE PullFrozen
    BY <1>0, <2>8 DEF PullFrozen, world, silver, plans, backupVars, Typed
  <2>9. CASE PullRegistry
    BY <1>0, <2>9 DEF PullRegistry, world, silver, plans, backupVars, Typed
  <2> QED BY <1>7, <2>1, <2>2, <2>3, <2>4, <2>5, <2>6, <2>7, <2>8, <2>9 DEF Transfer
<1>8. ASSUME NEW d \in Publishable, Ingest(d) PROVE Typed'
  <2>1. d \in Datasets /\ published[d] \in 0 .. MaxVintage /\ published[d] < MaxVintage
    BY <1>8, DataAssumption DEF Ingest, Publish, Typed
  <2>2. <<d, published[d] + 1>> \in Pairs
    BY <2>1 DEF Pairs
  <2>3. published' \in [Datasets -> 0 .. MaxVintage]
    BY <1>8, <2>1 DEF Ingest, Publish, Typed
  <2> QED BY <1>0, <1>8, <2>2, <2>3 DEF Ingest, Publish, plans, backupVars, Typed
<1>9. CASE DiskLoss
  BY <1>0, <1>9 DEF DiskLoss, plans, Typed
<1> QED
  BY <1>1, <1>2, <1>3, <1>4, <1>5, <1>6, <1>7, <1>8, <1>9 DEF Next

-----------------------------------------------------------------------------
(* The mirror can be served from                                           *)

\* Files are on the mirror, or back on the disk, before their manifests go.
Mirror ==
  /\ MirrorServable
  /\ run.cmd = "backup_push" /\ run.at > 1 => parquet \subseteq remote.parquet
  /\ run.cmd = "backup_pull" /\ run.at > 1 => remote.parquet \subseteq parquet

Handling == Working \/ LoadBundle \/ Admit \/ Observe \/ AllObserved

\* Only transfers advance a push or a pull.
LEMMA BackupTransfers ==
  ASSUME RunShaped, run.cmd \in {"backup_push", "backup_pull"}, NEW what, At(what)
  PROVE  /\ what \in Transfers
         /\ run.cmd = "backup_push" => /\ what = "pushNormalized" => run.at = 1
                                       /\ what = "pushManifests" => run.at = 2
                                       /\ what \notin {"pullNormalized", "pullManifests"}
         /\ run.cmd = "backup_pull" => /\ what = "pullNormalized" => run.at = 1
                                       /\ what = "pullManifests" => run.at = 2
                                       /\ what \notin {"pushNormalized", "pushManifests"}
         /\ run.at = 1 => what \in {"pushNormalized", "pullNormalized"}
<1>1. run.at \in Nat /\ run.at >= 1 /\ run.at <= Len(Program(run.cmd)) /\ what = Program(run.cmd)[run.at].do
  BY DEF RunShaped, At, Now, Running, NoRun
<1>2. CASE run.cmd = "backup_push"
  <2>1. Len(Program(run.cmd)) = 5
    BY <1>2, PushText
  <2>2. run.at \in {1, 2, 3, 4, 5}
    BY <1>1, <2>1
  <2> QED BY <1>1, <1>2, <2>2, PushText DEF Do, Transfers
<1>3. CASE run.cmd = "backup_pull"
  <2>1. Len(Program(run.cmd)) = 4
    BY <1>3, PullText
  <2>2. run.at \in {1, 2, 3, 4}
    BY <1>1, <2>1
  <2> QED BY <1>1, <1>3, <2>2, PullText DEF Do, Transfers
<1> QED BY <1>2, <1>3

LEMMA HandlingAt ==
  ASSUME Handling
  PROVE  \E what : At(what) /\ what \notin Transfers
<1>1. ASSUME Load PROVE At("load") /\ "load" \notin Transfers BY <1>1 DEF Load, Transfers
<1>2. ASSUME ReadBytes PROVE At("bytes") /\ "bytes" \notin Transfers BY <1>2 DEF ReadBytes, Transfers
<1>3. ASSUME Pin PROVE At("pin") /\ "pin" \notin Transfers BY <1>3 DEF Pin, Transfers
<1>4. ASSUME ReadPinned PROVE At("read") /\ "read" \notin Transfers BY <1>4 DEF ReadPinned, Transfers
<1>5. ASSUME ReadNewest PROVE At("own") /\ "own" \notin Transfers BY <1>5 DEF ReadNewest, Transfers
<1>6. ASSUME RunOnce PROVE At("runs") /\ "runs" \notin Transfers BY <1>6 DEF RunOnce, Transfers
<1>7. ASSUME NoteCatalog PROVE At("noteCatalog") /\ "noteCatalog" \notin Transfers BY <1>7 DEF NoteCatalog, Transfers
<1>8. ASSUME NotePins PROVE At("notePins") /\ "notePins" \notin Transfers BY <1>8 DEF NotePins, Transfers
<1>9. ASSUME ResolveCommit PROVE At("head") /\ "head" \notin Transfers BY <1>9 DEF ResolveCommit, Transfers
<1>10. ASSUME ReadIncumbent PROVE At("incumbent") /\ "incumbent" \notin Transfers BY <1>10 DEF ReadIncumbent, Transfers
<1>11. ASSUME ReadPensionRecord PROVE At("pensionRecord") /\ "pensionRecord" \notin Transfers BY <1>11 DEF ReadPensionRecord, Transfers
<1>12. ASSUME Decide PROVE At("decide") /\ "decide" \notin Transfers BY <1>12 DEF Decide, Transfers
<1>13. ASSUME CrossCheck PROVE At("crossCheck") /\ "crossCheck" \notin Transfers BY <1>13 DEF CrossCheck, Transfers
<1>14. ASSUME DecideIsa PROVE At("decideIsa") /\ "decideIsa" \notin Transfers BY <1>14 DEF DecideIsa, Transfers
<1>15. ASSUME Write PROVE At("write") /\ "write" \notin Transfers BY <1>15 DEF Write, Transfers
<1>16. ASSUME OpenRecord PROVE At("freeze") /\ "freeze" \notin Transfers BY <1>16 DEF OpenRecord, Transfers
<1>17. ASSUME LoadBundle PROVE At("bundle") /\ "bundle" \notin Transfers BY <1>17 DEF LoadBundle, Transfers
<1>18. ASSUME Admit PROVE At("admit") /\ "admit" \notin Transfers BY <1>18 DEF Admit, Transfers
<1>19. ASSUME Observe PROVE At("observe") /\ "observe" \notin Transfers BY <1>19 DEF Observe, Transfers
<1>20. ASSUME AllObserved PROVE At("observe") /\ "observe" \notin Transfers BY <1>20 DEF AllObserved, Transfers
<1>21. ASSUME LoadCompanions PROVE At("companions") /\ "companions" \notin Transfers BY <1>21 DEF LoadCompanions, Transfers
<1> QED BY <1>1, <1>2, <1>3, <1>4, <1>5, <1>6, <1>7, <1>8, <1>9, <1>10, <1>11, <1>12, <1>13, <1>14, <1>15, <1>16, <1>17, <1>18, <1>19, <1>20, <1>21 DEF Handling, Working

\* What a step is, by what it touches.
LEMMA StepKinds ==
  ASSUME [Next]_vars, Typed
  PROVE  \/ /\ UNCHANGED <<silver, backupVars>>
            /\ \/ run' = run
               \/ run' = NoRun
               \/ ~Running /\ \E cmd \in Commands, freeze \in BOOLEAN : run' = Started(cmd, freeze)
               \/ Handling /\ Moved(run') /\ MovedOn(run')
         \/ Transfer
         \/ \E d \in Publishable : Ingest(d)
         \/ DiskLoss
<1>0. RunShaped /\ (agenda # <<>> => Head(agenda) \in Commands)
  BY DEF Typed
<1>1. CASE UNCHANGED vars BY <1>1 DEF vars, researchVars, silver
<1>2. CASE BeginSensibly BY <1>0, <1>2 DEF BeginSensibly, Begin, world, silver
<1>3. CASE Skip BY <1>3 DEF Skip, world, silver
<1>4. CASE Working /\ UNCHANGED backupVars
  <2>1. Moved(run') /\ MovedOn(run') /\ UNCHANGED world
    BY <1>0, <1>4, WorkingMoves, WorkingFrame
  <2> QED BY <1>4, <2>1 DEF Handling, world, silver
<1>5. CASE (FillRecord \/ Return \/ Refuse \/ Die) /\ UNCHANGED backupVars
  BY <1>5 DEF FillRecord, Return, Refuse, Die, world, silver
<1>6. CASE (EditConfig \/ EditCompanions \/ Commit) /\ UNCHANGED backupVars
  BY <1>6 DEF EditConfig, EditCompanions, Commit, silver
<1>7. CASE RegistryStep /\ UNCHANGED backupVars
  <2>1. CASE AppendBlock \/ TearBlock \/ RefuseMonitor \/ FreezeBundle \/ EditBundle
    BY <1>7, <2>1 DEF AppendBlock, TearBlock, RefuseMonitor, FreezeBundle, EditBundle, world, silver
  <2>2. CASE LoadBundle \/ Admit \/ Observe \/ AllObserved
    <3>1. Handling /\ UNCHANGED silver
      BY <2>2 DEF Handling, LoadBundle, Admit, Observe, AllObserved, world, silver
    <3>2. \E what : At(what)
      BY <2>2 DEF LoadBundle, Admit, Observe, AllObserved
    <3>3. DOMAIN run = RunFields /\ Running
      BY <1>0, <3>2 DEF At, RunShaped, Running, NoRun
    <3>4. ASSUME LoadBundle PROVE Moved(run') /\ MovedOn(run')
      BY <3>3, <3>4 DEF LoadBundle, At, Done, Moved, MovedOn, RunFields
    <3>5. ASSUME Admit PROVE Moved(run') /\ MovedOn(run')
      BY <3>3, <3>5 DEF Admit, At, Done, Moved, MovedOn, RunFields
    <3>6. ASSUME Observe PROVE Moved(run') /\ MovedOn(run')
      BY <3>3, <3>6 DEF Observe, At, Done, Moved, MovedOn, RunFields
    <3>7. ASSUME AllObserved PROVE Moved(run') /\ MovedOn(run')
      BY <3>3, <3>7 DEF AllObserved, At, Done, Moved, MovedOn, RunFields
    <3> QED BY <1>7, <2>2, <3>1, <3>4, <3>5, <3>6, <3>7
  <2> QED BY <1>7, <2>1, <2>2 DEF RegistryStep
<1> QED
  BY <1>1, <1>2, <1>3, <1>4, <1>5, <1>6, <1>7 DEF Next, Step, Working

LEMMA MirrorKept ==
  ASSUME Typed, Mirror, [Next]_vars, PublishDuringPush = FALSE
  PROVE  Mirror'
<1> USE DEF Mirror, MirrorServable
<1>0. RunShaped /\ (Running => run.cmd \in Commands /\ run.at \in Nat /\ run.at >= 1)
  BY ProgramsShaped DEF Typed, RunShaped, Running, NoRun
<1>1. CASE UNCHANGED <<silver, backupVars>> /\ run' = run
  BY <1>1 DEF silver, backupVars
<1>2. CASE UNCHANGED <<silver, backupVars>> /\ run' = NoRun
  BY <1>2 DEF silver, backupVars, NoRun
<1>3. ASSUME UNCHANGED <<silver, backupVars>>, NEW cmd \in Commands, NEW freeze \in BOOLEAN, run' = Started(cmd, freeze)
      PROVE  Mirror'
  BY <1>3 DEF silver, backupVars, Started
<1>4. CASE UNCHANGED <<silver, backupVars>> /\ Handling /\ Moved(run')
  <2>1. run.cmd \notin {"backup_push", "backup_pull"}
    BY <1>0, <1>4, HandlingAt, BackupTransfers
  <2> QED BY <1>4, <2>1 DEF Moved, silver, backupVars
<1>5. CASE Transfer
  <2>0. DOMAIN remote = {"parquet", "manifests", "frozen", "log", "raw"}
    BY DEF Typed
  <2>1. \A what : At(what) => run.cmd \in Commands /\ DOMAIN run = RunFields
    BY <1>0 DEF At, RunShaped, Running, NoRun
  <2>2. Ends \/ Advance
    BY <1>5 DEF Transfer, PushNormalized, PushManifests, PushFrozen, PushRegistry, MoveRaw, PullNormalized,
                PullManifests, PullFrozen, PullRegistry
  <2>3. \A what : At(what) /\ Advance => run'.cmd = run.cmd /\ run'.at = run.at + 1
    BY <2>1 DEF Advance, Done, RunFields
  <2>4. \A what \in {"pushNormalized", "pushManifests"} : At(what) => run.cmd # "backup_pull"
    BY <1>0, BackupTransfers
  <2>5. \A what \in {"pullNormalized", "pullManifests"} : At(what) => run.cmd # "backup_push"
    BY <1>0, BackupTransfers
  <2>a. \A what \in Transfers : At(what) => run.cmd \in {"backup_push", "backup_pull"}
    BY <1>0, <2>1, ProgramsShaped DEF At, Now, Shaped
  <2>b. At("pushManifests") => run.cmd = "backup_push" /\ run.at = 2
    BY <1>0, <2>a, <2>4, BackupTransfers DEF Transfers
  <2>c. At("pullManifests") => run.cmd = "backup_pull" /\ run.at = 2
    BY <1>0, <2>a, <2>5, BackupTransfers DEF Transfers
  <2>6. CASE PushNormalized
    BY <1>0, <2>0, <2>3, <2>4, <2>6, PartsSmall DEF PushNormalized, world, silver, Ends, NoRun
  <2>7. CASE PushManifests
    BY <1>0, <2>0, <2>3, <2>b, <2>7, PartsSmall DEF PushManifests, world, silver, Ends, NoRun
  <2>8. CASE PullNormalized
    BY <1>0, <2>0, <2>3, <2>5, <2>8, PartsSmall DEF PullNormalized, backupVars, Ends, NoRun
  <2>9. CASE PullManifests
    BY <1>0, <2>0, <2>3, <2>c, <2>9, PartsSmall DEF PullManifests, backupVars, Ends, NoRun
  <2>10. CASE PushFrozen \/ PushRegistry \/ MoveRaw \/ PullFrozen \/ PullRegistry
    <3>1. UNCHANGED <<parquet, manifests>> /\ remote'.parquet = remote.parquet /\ remote'.manifests = remote.manifests
      BY <2>0, <2>10 DEF PushFrozen, PushRegistry, MoveRaw, PullFrozen, PullRegistry, world, silver, backupVars
    <3>2. \E what \in Transfers : At(what) /\ what \notin {"pushNormalized", "pullNormalized"}
      BY <2>10 DEF PushFrozen, PushRegistry, MoveRaw, PullFrozen, PullRegistry, Transfers
    <3>3. run.cmd \in {"backup_push", "backup_pull"} => run.at > 1
      BY <1>0, <3>2, BackupTransfers DEF At
    <3> QED BY <2>2, <2>3, <3>1, <3>2, <3>3 DEF Ends, NoRun
  <2> QED BY <1>5, <2>6, <2>7, <2>8, <2>9, <2>10 DEF Transfer
<1>6. ASSUME NEW d \in Publishable, Ingest(d) PROVE Mirror'
  BY <1>6 DEF Ingest, Publish
<1>7. CASE DiskLoss
  BY <1>7 DEF DiskLoss, NoRun
<1> QED BY <1>1, <1>2, <1>3, <1>4, <1>5, <1>6, <1>7, StepKinds

\* No manifest is on the disk or the mirror without its file, when no ingest
\* runs beside a push.
THEOREM MirrorIsServable ==
  PublishDuringPush = FALSE => (Spec => []MirrorServable)
<1> SUFFICES ASSUME PublishDuringPush = FALSE PROVE Spec => []MirrorServable
  OBVIOUS
<1>1. BackupInit => Typed /\ Mirror
  <2>1. BackupInit => Typed
    BY TypedAtFirst
  <2>2. BackupInit => run = NoRun /\ parquet = manifests /\ remote.parquet = {} /\ remote.manifests = {}
    BY DEF BackupInit, RegistryInit, Init
  <2> QED BY <2>1, <2>2 DEF Mirror, MirrorServable, NoRun
<1>2. Typed /\ Mirror /\ [Next]_vars => Typed' /\ Mirror'
  BY TypedKept, MirrorKept
<1>3. Mirror => MirrorServable
  BY DEF Mirror
<1> QED BY <1>1, <1>2, <1>3, PTL DEF Spec

-----------------------------------------------------------------------------
(* What the command has read and noted                                     *)

\* Whatever it read or pinned is still published.
Witnessed ==
  Running => /\ run.used \subseteq manifests
             /\ \A d \in Datasets : run.pins[d] > 0 => <<d, run.pins[d]>> \in manifests

LEMMA ManifestsStay ==
  ASSUME Typed, [Next]_vars, run' # NoRun
  PROVE  manifests \subseteq manifests'
<1>1. CASE UNCHANGED <<silver, backupVars>>
  BY <1>1 DEF silver
<1>2. CASE Transfer
  BY <1>2 DEF Transfer, PushNormalized, PushManifests, PushFrozen, PushRegistry, MoveRaw, PullNormalized,
              PullManifests, PullFrozen, PullRegistry, world, silver
<1>3. CASE \E d \in Publishable : Ingest(d)
  BY <1>3 DEF Ingest, Publish
<1>4. CASE DiskLoss
  BY <1>4 DEF DiskLoss
<1> QED BY <1>1, <1>2, <1>3, <1>4, StepKinds

\* What a step resolves is published, and what it takes are datasets.
LEMMA ResolvedIs ==
  ASSUME Typed, Running, run.at <= Len(Program(run.cmd))
  PROVE  /\ run.cmd \in Commands /\ run.at \in 1 .. Len(Program(run.cmd)) /\ Shaped(run.cmd, run.at)
         /\ Wanted \subseteq Datasets /\ Now.data \subseteq Datasets /\ Now.optional \subseteq Datasets
         /\ Resolvable => /\ \A d \in Wanted : Newest(d) \in 1 .. MaxVintage /\ <<d, Newest(d)>> \in manifests
                          /\ NewestData \subseteq manifests
<1>1. run.cmd \in Commands /\ run.at \in 1 .. Len(Program(run.cmd))
  BY ProgramsShaped DEF Typed, RunShaped, Running, NoRun
<1>2. Shaped(run.cmd, run.at)
  BY <1>1, ProgramsShaped
<1>3. Wanted \subseteq Datasets /\ Now.data \subseteq Datasets /\ Now.optional \subseteq Datasets
  BY <1>2 DEF Shaped, Wanted, Now
<1>4. ASSUME Resolvable, NEW d \in Wanted
      PROVE  Newest(d) \in 1 .. MaxVintage /\ <<d, Newest(d)>> \in manifests
  BY <1>4, NewestIs DEF Resolvable, Available, Typed, Pairs
<1> QED BY <1>1, <1>2, <1>3, <1>4 DEF NewestData

LEMMA RunTypedKept ==
  ASSUME Typed, RunTyped, Witnessed, [Next]_vars
  PROVE  RunTyped' /\ Witnessed'
<1>1. CASE run' = run
  <2>1. Running => run # NoRun
    BY DEF Running, NoRun
  <2> QED BY <1>1, <2>1, ManifestsStay DEF RunTyped, Witnessed, Running
<1>2. CASE run' = NoRun
  BY <1>2 DEF RunTyped, Witnessed, Running, NoRun
<1>3. ASSUME agenda # <<>>, NEW freeze \in BOOLEAN, run' = Started(Head(agenda), freeze)
      PROVE  RunTyped' /\ Witnessed'
  BY <1>3, RecordsAssumption DEF Started, RunTyped, Witnessed, Unnoted
<1>4. CASE Moved(run') /\ MovedOn(run')
  <2>0. Running /\ run.at <= Len(Program(run.cmd)) /\ run'.cmd = run.cmd /\ run' # NoRun
    BY <1>4 DEF Moved, Running, NoRun
  <2>1. manifests \subseteq manifests'
    BY <2>0, ManifestsStay
  <2>2. /\ run'.spec \in 0 .. MaxVersions /\ run'.bytes \in 0 .. MaxVersions
        /\ run'.companions \in 0 .. MaxVersions /\ run'.commit \in 0 .. MaxVersions
    BY <1>4, <2>0, RecordsAssumption DEF Moved, RunTyped, Typed
  <2>a. \A d \in Datasets : Newest(d) \in 0 .. MaxVintage
    BY NewestIs
  <2>b. run.pins \in [Datasets -> 0 .. MaxVintage] /\ run.noted \in [Datasets -> 0 .. MaxVintage]
    BY <2>0 DEF RunTyped
  <2>3. run'.pins \in [Datasets -> 0 .. MaxVintage]
    <3>1. CASE Now.do = "pin"
      BY <1>4, <3>1, <2>a, <2>b DEF Moved
    <3> QED BY <1>4, <2>b, <3>1 DEF Moved
  <2>4. run'.noted \in [Datasets -> 0 .. MaxVintage]
    <3>1. CASE Now.do = "noteCatalog"
      BY <1>4, <3>1, <2>a, <2>b DEF Moved
    <3>2. CASE Now.do = "notePins"
      BY <1>4, <3>2, <2>b DEF Moved
    <3> QED BY <1>4, <2>b, <3>1, <3>2 DEF Moved
  <2>5. PinnedNow \subseteq manifests
    BY <2>0, ResolvedIs DEF PinnedNow, Witnessed
  <2>6. run'.used \subseteq manifests
    BY <1>4, <2>0, <2>5, ResolvedIs DEF Moved, Witnessed
  <2>7. \A d \in Datasets : run'.pins[d] > 0 => <<d, run'.pins[d]>> \in manifests
    BY <1>4, <2>0, ResolvedIs DEF Moved, Witnessed
  <2>8. ASSUME run.cmd = "isa_household"
        PROVE  /\ run'.at > 1 => run'.spec > 0
               /\ run'.at > 4 => run'.companions > 0
               /\ run'.at > 5 => run'.pins["prices"] > 0
    <3>a. run.at \in 1 .. 12
      BY <2>0, <2>8, ResolvedIs, HouseholdText
    <3>1. run.at \in {1, 2, 3, 4, 5, 6, 7, 8, 9, 10, 11, 12}
      BY <3>a
    <3>2. /\ Now.do = "load" <=> run.at = 1
          /\ Now.do = "companions" <=> run.at = 4
          /\ Now.do = "pin" <=> run.at = 5
          /\ Now.do \notin {"runs", "observe"}
      BY <2>8, <3>1, HouseholdText DEF Now, Use, Do
    <3>3. run'.at = run.at + 1
      BY <1>4, <3>2 DEF Moved
    <3>4. config > 0 /\ companions > 0
      BY RecordsAssumption DEF Typed
    <3>5. run'.at > 1 => run'.spec > 0
      BY <1>4, <2>0, <2>8, <3>1, <3>2, <3>4, SMTT(40) DEF Moved, RunTyped
    <3>6. run'.at > 4 => run'.companions > 0
      <4>1. CASE run.at = 4
        BY <1>4, <3>2, <3>4, <4>1 DEF Moved
      <4>2. CASE run.at > 4
        BY <1>4, <2>0, <2>8, <3>2, <4>2 DEF Moved, RunTyped
      <4> QED BY <3>1, <3>3, <4>1, <4>2
    <3>7. CASE run.at = 5
      <4>1. "prices" \in Wanted /\ "prices" \in Datasets
        BY <2>8, <3>7, HouseholdText DEF Now, Wanted, Use, Datasets
      <4>2. Resolvable /\ run'.pins["prices"] = Newest("prices")
        BY <1>4, <3>2, <3>7, <4>1 DEF Moved
      <4>3. Newest("prices") \in 1 .. MaxVintage
        BY <2>0, <4>1, <4>2, ResolvedIs
      <4> QED BY <3>5, <3>6, <4>2, <4>3
    <3>8. CASE run.at # 5
      BY <1>4, <2>0, <2>8, <3>1, <3>2, <3>3, <3>5, <3>6, <3>8, SMTT(40) DEF Moved, RunTyped
    <3> QED BY <3>7, <3>8
  <2>9. run'.status \in DecisionStatuses \union IsaStatuses \union {"none"}
    <3>1. CASE Now.do = "decide"
      BY <1>4, <3>1 DEF MovedOn, Verdict, DecisionStatuses
    <3>2. CASE Now.do = "crossCheck"
      BY <1>4, <2>0, <3>2 DEF MovedOn, DecisionStatuses, RunTyped
    <3>3. CASE Now.do = "decideIsa"
      <4>1. run.cmd = "isa_household" /\ run.at = 7
        BY <2>0, <3>3, ResolvedIs DEF Shaped, Now
      <4>2. run.spec \in 1 .. MaxVersions /\ run.companions \in 1 .. MaxVersions /\ run.pins["prices"] \in 1 .. MaxVintage
        <5>1. /\ run.spec \in 0 .. MaxVersions /\ run.spec > 0
              /\ run.companions \in 0 .. MaxVersions /\ run.companions > 0
              /\ run.pins \in [Datasets -> 0 .. MaxVintage] /\ run.pins["prices"] > 0
          BY <2>0, <4>1 DEF RunTyped
        <5> QED BY <5>1, RecordsAssumption DEF Datasets
      <4>3. outcome.isa \in [(1 .. MaxVersions) \X (1 .. MaxVersions) \X (1 .. MaxVintage) -> IsaStatuses]
        BY DEF Typed, Outcomes
      <4> QED BY <1>4, <3>3, <4>2, <4>3 DEF MovedOn
    <3>4. CASE Now.do \notin {"decide", "crossCheck", "decideIsa"}
      BY <1>4, <2>0, <3>4 DEF MovedOn, RunTyped
    <3> QED BY <3>1, <3>2, <3>3, <3>4
  <2>10. run'.used \subseteq Pairs
    BY <2>6 DEF Typed
  <2>11. RunTyped'
    BY <2>0, <2>2, <2>3, <2>4, <2>8, <2>9, <2>10 DEF RunTyped
  <2> QED BY <2>1, <2>6, <2>7, <2>11 DEF Witnessed
<1> QED BY <1>1, <1>2, <1>3, <1>4, RunGoesOn DEF Typed

-----------------------------------------------------------------------------
(* Who writes which file                                                   *)

LEMMA FilesWrittenBy ==
  ASSUME [Next]_vars
  PROVE  /\ records' = records \/ OpenRecord \/ FillRecord \/ PullFrozen \/ DiskLoss
         /\ reports' = reports \/ Write \/ DiskLoss
         /\ log' = log \/ ((AppendBlock \/ TearBlock) /\ UNCHANGED backupVars) \/ PullRegistry \/ DiskLoss
         /\ bundle' = bundle \/ FreezeBundle \/ EditBundle
         /\ remote' = remote \/ PushNormalized \/ PushManifests \/ PushFrozen \/ PushRegistry \/ MoveRaw
<1> USE DEF files, registryVars, backupVars
<1>1. CASE UNCHANGED vars BY <1>1 DEF vars, researchVars
<1>2. CASE BeginSensibly BY <1>2 DEF BeginSensibly, Begin
<1>3. CASE Skip BY <1>3 DEF Skip
<1>4. CASE Working /\ UNCHANGED <<registryVars, backupVars>>
  <2>1. Write \/ OpenRecord \/ UNCHANGED files
    <3>1. CASE Load \/ ReadBytes \/ LoadCompanions \/ Pin \/ ReadPinned \/ ReadNewest \/ RunOnce \/ NoteCatalog \/ NotePins
      BY <3>1 DEF Load, ReadBytes, LoadCompanions, Pin, ReadPinned, ReadNewest, RunOnce, NoteCatalog, NotePins
    <3>2. CASE ResolveCommit \/ ReadIncumbent \/ ReadPensionRecord \/ Decide \/ CrossCheck \/ DecideIsa
      BY <3>2 DEF ResolveCommit, ReadIncumbent, ReadPensionRecord, Decide, CrossCheck, DecideIsa
    <3> QED BY <1>4, <3>1, <3>2 DEF Working
  <2> QED BY <1>4, <2>1 DEF Write, OpenRecord
<1>5. CASE (FillRecord \/ Return \/ Refuse \/ Die) /\ UNCHANGED <<registryVars, backupVars>>
  BY <1>5 DEF FillRecord, Return, Refuse, Die
<1>6. CASE (EditConfig \/ EditCompanions \/ Commit) /\ UNCHANGED <<registryVars, backupVars>>
  BY <1>6 DEF EditConfig, EditCompanions, Commit
<1>7. CASE RegistryStep /\ UNCHANGED backupVars
  BY <1>7 DEF RegistryStep, LoadBundle, Admit, Observe, AllObserved, AppendBlock, TearBlock, RefuseMonitor, FreezeBundle, EditBundle
<1>8. CASE Transfer
  <2>1. CASE PushNormalized \/ PushManifests \/ PushFrozen \/ PushRegistry \/ MoveRaw
    BY <2>1 DEF PushNormalized, PushManifests, PushFrozen, PushRegistry, MoveRaw
  <2>2. CASE PullNormalized \/ PullManifests \/ PullFrozen \/ PullRegistry
    BY <2>2 DEF PullNormalized, PullManifests, PullFrozen, PullRegistry
  <2> QED BY <1>8, <2>1, <2>2 DEF Transfer
<1>9. ASSUME NEW d \in Publishable, Ingest(d) PROVE UNCHANGED <<records, reports, log, bundle, remote>>
  BY <1>9 DEF Ingest, Publish
<1>10. CASE DiskLoss BY <1>10 DEF DiskLoss
<1> QED BY <1>1, <1>2, <1>3, <1>4, <1>5, <1>6, <1>7, <1>8, <1>9, <1>10 DEF Next, Step, Working

\* Frozen records are copied whole or in part, over none that is there.
PartOf(f, g) == DOMAIN f \subseteq DOMAIN g /\ \A id \in DOMAIN f : f[id] = g[id]
LEMMA FrozenCopies ==
  ASSUME Typed
  PROVE  /\ PullFrozen => \E f : PartOf(f, remote.frozen) /\ records' = CopyFrozen(f, records)
         /\ PushFrozen => \E f : PartOf(f, records) /\ remote'.frozen = CopyFrozen(f, remote.frozen)
<1>1. ASSUME NEW g PROVE PartOf(g, g) /\ \A ids \in SUBSET DOMAIN g : PartOf(Some(g, ids), g)
  BY DEF PartOf, Some
<1> QED BY <1>1 DEF PullFrozen, PushFrozen, Typed

LEMMA RecordsNamedKept ==
  ASSUME Typed, RecordsNamed, [Next]_vars
  PROVE  RecordsNamed'
<1>1. \A id \in DOMAIN records' : records'[id] = Torn \/ records'[id].id = id
  <2>1. CASE records' = records
    BY <2>1 DEF RecordsNamed
  <2>2. CASE OpenRecord
    BY <2>2 DEF OpenRecord, Put, RecordsNamed
  <2>3. CASE FillRecord
    <3>1. RecordOf(run).id = RecordId(run)
      BY DEF RecordOf
    <3>2. records' = [records EXCEPT ![RecordId(run)] = RecordOf(run)]
      BY <2>3 DEF FillRecord
    <3> QED BY <3>1, <3>2 DEF RecordsNamed
  <2>4. CASE PullFrozen
    <3>1. PICK f : PartOf(f, remote.frozen) /\ records' = CopyFrozen(f, records)
      BY <2>4, FrozenCopies
    <3> QED BY <3>1 DEF PartOf, CopyFrozen, RecordsNamed
  <2>5. CASE DiskLoss
    BY <2>5 DEF DiskLoss
  <2> QED BY <2>1, <2>2, <2>3, <2>4, <2>5, FilesWrittenBy
<1>2. \A id \in DOMAIN remote'.frozen : remote'.frozen[id] = Torn \/ remote'.frozen[id].id = id
  <2>1. remote'.frozen = remote.frozen \/ PushFrozen
    BY FilesWrittenBy DEF Typed, PushNormalized, PushManifests, PushRegistry, MoveRaw
  <2>2. ASSUME NEW f, PartOf(f, records), remote'.frozen = CopyFrozen(f, remote.frozen), NEW id \in DOMAIN remote'.frozen
        PROVE  remote'.frozen[id] = Torn \/ remote'.frozen[id].id = id
    BY <2>2 DEF PartOf, CopyFrozen, RecordsNamed
  <2> QED BY <2>1, <2>2, FrozenCopies DEF RecordsNamed
<1> QED BY <1>1, <1>2 DEF RecordsNamed

-----------------------------------------------------------------------------
(* Reports name their data                                                 *)

\* A run that will not look at the catalog again has noted no older prices
\* than it used.
CatalogNoted ==
  Running /\ run.cmd \in Catalogers /\ ~NoteAhead(run.cmd, run.at) =>
    \A v \in 1 .. MaxVintage : <<"prices", v>> \in run.used => v <= run.noted["prices"]

\* A run that pins has used what it pinned and read since, and notes its pins.
PinsNamed ==
  Running /\ run.cmd \in Pinners =>
    /\ \A d \in Datasets : run.pins[d] > 0 => d \in DoneWith(run.cmd, run.at, "pin")
    /\ run.used = {<<d, run.pins[d]>> : d \in {e \in DoneWith(run.cmd, run.at, "read") : run.pins[e] > 0}}
    /\ \A d \in Datasets : run.noted[d] = IF PinsNoted(run.cmd, run.at) THEN run.pins[d] ELSE 0

LEMMA CatalogNotedKept ==
  ASSUME Typed, RunTyped, Witnessed, CatalogNoted, [Next]_vars
  PROVE  CatalogNoted'
<1>1. CASE run' = run
  BY <1>1 DEF CatalogNoted, Running, NoteAhead, Program
<1>2. CASE run' = NoRun
  BY <1>2 DEF CatalogNoted, Running, NoRun
<1>3. ASSUME NEW freeze \in BOOLEAN, run' = Started(Head(agenda), freeze)
      PROVE  CatalogNoted'
  BY <1>3 DEF CatalogNoted, Started
<1>4. CASE Moved(run') /\ MovedOn(run')
  <2>0. Running /\ run.at <= Len(Program(run.cmd)) /\ run'.cmd = run.cmd /\ run' # NoRun
    BY <1>4 DEF Moved, Running, NoRun
  <2>1. /\ run.cmd \in Commands /\ run.at \in 1 .. Len(Program(run.cmd)) /\ Len(Program(run.cmd)) \in Nat
    BY <2>0, ResolvedIs, ProgramsShaped
  <2> SUFFICES ASSUME run.cmd \in Catalogers, ~NoteAhead(run.cmd, run'.at),
                      NEW v \in 1 .. MaxVintage, <<"prices", v>> \in run'.used
               PROVE  v <= run'.noted["prices"]
    BY <2>0 DEF CatalogNoted, NoteAhead, Program
  <2>2. "prices" \in Datasets
    BY DEF Datasets
  <2>3. /\ Now.do \in {"runs", "own", "read"} /\ "prices" \in Now.data \cup Now.optional => NoteAhead(run.cmd, run.at + 1)
        /\ Now.do # "notePins"
    BY <2>1, NotedAfterReads DEF Now
  <2>4. NoteAhead(run.cmd, run.at + 1) => NoteAhead(run.cmd, run.at)
    BY <2>1 DEF NoteAhead
  <2>5. ~NoteAhead(run.cmd, run.at + 1)
    BY <1>4, <2>4 DEF Moved
  <2>6. <<"prices", v>> \in run.used
    <3>1. CASE Now.do = "read"
      BY <1>4, <2>3, <2>5, <3>1 DEF Moved, PinnedNow
    <3>2. CASE Now.do \in {"own", "runs"}
      BY <1>4, <2>3, <2>5, <3>2 DEF Moved, NewestData, Wanted
    <3> QED BY <1>4, <3>1, <3>2 DEF Moved
  <2>7. CASE Now.do = "noteCatalog" /\ "prices" \in Wanted
    <3>1. <<"prices", v>> \in manifests
      BY <2>0, <2>6 DEF Witnessed
    <3>2. v <= Newest("prices")
      BY <3>1, NewestIs
    <3> QED BY <1>4, <2>2, <2>7, <3>2 DEF Moved
  <2>8. CASE ~(Now.do = "noteCatalog" /\ "prices" \in Wanted)
    <3>1. run'.noted["prices"] = run.noted["prices"]
      BY <1>4, <2>2, <2>3, <2>8 DEF Moved
    <3>2. ~NoteAhead(run.cmd, run.at)
      BY <2>1, <2>5, <2>8 DEF NoteAhead, Wanted, Now
    <3> QED BY <2>0, <2>6, <3>1, <3>2 DEF CatalogNoted
  <2> QED BY <2>7, <2>8
<1> QED BY <1>1, <1>2, <1>3, <1>4, RunGoesOn DEF Typed

\* One more step is done with what it takes.
LEMMA DoneGrows ==
  ASSUME NEW cmd, NEW i \in Nat, i > 0, Takes(Program(cmd)[i]) \subseteq Datasets
  PROVE  \A what : DoneWith(cmd, i + 1, what) = IF Program(cmd)[i].do = what
                                                THEN DoneWith(cmd, i, what) \cup Takes(Program(cmd)[i])
                                                ELSE DoneWith(cmd, i, what)
<1> DEFINE P == Program(cmd)
<1>1. \A j : j \in 1 .. i + 1 - 1 <=> (j \in 1 .. i - 1 \/ j = i)
  OBVIOUS
<1> HIDE DEF P
<1>2. ASSUME NEW what, NEW d \in Datasets
      PROVE  (\E j \in 1 .. i + 1 - 1 : P[j].do = what /\ d \in P[j].data \cup P[j].optional)
             <=> \/ \E j \in 1 .. i - 1 : P[j].do = what /\ d \in P[j].data \cup P[j].optional
                 \/ P[i].do = what /\ d \in P[i].data \cup P[i].optional
  BY <1>1
<1>3. ASSUME NEW what, NEW at
      PROVE  DoneWith(cmd, at, what)
             = {d \in Datasets : \E j \in 1 .. at - 1 : P[j].do = what /\ d \in P[j].data \cup P[j].optional}
  BY DEF DoneWith, P
<1>4. Takes(P[i]) \subseteq Datasets /\ Takes(P[i]) = P[i].data \cup P[i].optional
  BY DEF P, Takes
<1>5. ASSUME NEW what
      PROVE  DoneWith(cmd, i + 1, what)
             = IF P[i].do = what THEN DoneWith(cmd, i, what) \cup Takes(P[i]) ELSE DoneWith(cmd, i, what)
  <2>1. \A d \in Datasets : d \in DoneWith(cmd, i + 1, what)
                            <=> \/ d \in DoneWith(cmd, i, what)
                                \/ P[i].do = what /\ d \in Takes(P[i])
    BY <1>2, <1>3, <1>4
  <2>2. \A at : DoneWith(cmd, at, what) \subseteq Datasets
    BY <1>3
  <2> QED BY <1>4, <2>1, <2>2
<1> QED BY <1>5 DEF P

LEMMA PinsNamedKept ==
  ASSUME Typed, RunTyped, PinsNamed, [Next]_vars
  PROVE  PinsNamed'
<1>1. CASE run' = run
  BY <1>1 DEF PinsNamed, Running, DoneWith, PinsNoted, Program
<1>2. CASE run' = NoRun
  BY <1>2 DEF PinsNamed, Running, NoRun
<1>3. ASSUME NEW freeze \in BOOLEAN, run' = Started(Head(agenda), freeze)
      PROVE  PinsNamed'
  BY <1>3 DEF PinsNamed, Started, DoneWith, PinsNoted, Unnoted
<1>4. CASE Moved(run') /\ MovedOn(run')
  <2>0. Running /\ run.at <= Len(Program(run.cmd)) /\ run'.cmd = run.cmd /\ run' # NoRun
    BY <1>4 DEF Moved, Running, NoRun
  <2>1. /\ run.cmd \in Commands /\ run.at \in 1 .. Len(Program(run.cmd)) /\ Len(Program(run.cmd)) \in Nat
        /\ Shaped(run.cmd, run.at)
    BY <2>0, ResolvedIs, ProgramsShaped
  <2> SUFFICES ASSUME run.cmd \in Pinners PROVE PinsNamed'
    BY <2>0 DEF PinsNamed
  <2> DEFINE i == run.at
             cmd == run.cmd
             now == Program(cmd)[i]
  <2>2. Now.do \notin {"runs", "own", "noteCatalog", "observe"}
    BY <2>1, PinnersOrder DEF Now, Shaped, Watches, Pinners
  <2>3. run'.at = run.at + 1
    BY <1>4, <2>2 DEF Moved
  <2>4. /\ \A d \in Datasets : run.pins[d] > 0 => d \in DoneWith(cmd, i, "pin")
        /\ run.used = {<<d, run.pins[d]>> : d \in {e \in DoneWith(cmd, i, "read") : run.pins[e] > 0}}
        /\ \A d \in Datasets : run.noted[d] = IF PinsNoted(cmd, i) THEN run.pins[d] ELSE 0
    BY <2>0 DEF PinsNamed
  <2>5. \A what : DoneWith(cmd, i + 1, what) = IF Now.do = what THEN DoneWith(cmd, i, what) \cup Takes(Now) ELSE DoneWith(cmd, i, what)
    <3>1. Takes(Now) \subseteq Datasets
      BY <2>1 DEF Shaped, Takes, Now
    <3>2. i \in Nat /\ i > 0 /\ Now = Program(cmd)[i]
      BY <2>1 DEF Now
    <3> HIDE DEF i, cmd
    <3> QED BY <3>1, <3>2, DoneGrows
  <2>6. PinsNoted(cmd, i + 1) <=> PinsNoted(cmd, i) \/ Now.do = "notePins"
    BY <2>1 DEF PinsNoted, Now
  <2>7. CASE Now.do = "pin"
    <3>1. run'.pins = [d \in Datasets |-> IF d \in Wanted THEN Newest(d) ELSE run.pins[d]]
      BY <1>4, <2>7 DEF Moved
    <3>2. Wanted \subseteq Takes(Now)
      BY DEF Wanted, Takes
    <3>3. \A d \in DoneWith(cmd, i, "read") : d \notin Takes(Now)
      BY <2>1, <2>7, PinnersOrder DEF DoneWith, Now, Takes
    <3>4. ~PinsNoted(cmd, i)
      BY <2>1, <2>7, PinnersOrder DEF PinsNoted, Now
    <3>5. \A d \in DoneWith(cmd, i, "read") : d \in Datasets /\ run'.pins[d] = run.pins[d]
      BY <3>1, <3>2, <3>3 DEF DoneWith
    <3>6. run'.used = run.used /\ run'.noted = run.noted
      BY <1>4, <2>7 DEF Moved
    <3>7. \A d \in Datasets : run'.pins[d] > 0 => d \in DoneWith(cmd, i + 1, "pin")
      BY <2>4, <2>5, <2>7, <3>1, <3>2
    <3>8. run'.used = {<<d, run'.pins[d]>> : d \in {e \in DoneWith(cmd, i + 1, "read") : run'.pins[e] > 0}}
      <4>1. DoneWith(cmd, i + 1, "read") = DoneWith(cmd, i, "read")
        BY <2>5, <2>7
      <4> QED BY <2>4, <3>5, <3>6, <4>1
    <3> HIDE DEF i, cmd
    <3> QED BY <2>0, <2>3, <2>4, <2>6, <2>7, <3>4, <3>6, <3>7, <3>8 DEF PinsNamed, cmd, i
  <2>8. CASE Now.do = "read"
    <3>1. run'.pins = run.pins /\ run'.noted = run.noted /\ run'.used = run.used \cup PinnedNow
      BY <1>4, <2>8 DEF Moved
    <3>2. run'.used = {<<d, run.pins[d]>> : d \in {e \in DoneWith(cmd, i + 1, "read") : run.pins[e] > 0}}
      BY <2>5, <2>8, <2>4, <3>1, ZenonT(40) DEF PinnedNow, Takes
    <3>3. DoneWith(cmd, i + 1, "pin") = DoneWith(cmd, i, "pin") /\ (PinsNoted(cmd, i + 1) <=> PinsNoted(cmd, i))
      BY <2>5, <2>6, <2>8
    <3> QED BY <2>0, <2>3, <2>4, <3>1, <3>2, <3>3 DEF PinsNamed
  <2>9. CASE Now.do = "notePins"
    <3>1. run'.pins = run.pins /\ run'.used = run.used
          /\ run'.noted = [d \in Datasets |-> IF d \in Now.data THEN run.pins[d] ELSE run.noted[d]]
      BY <1>4, <2>9 DEF Moved
    <3>2. ASSUME NEW d \in DoneWith(cmd, i, "pin") PROVE d \in Now.data
      <4>1. PICK j \in 1 .. i - 1 : Program(cmd)[j].do = "pin" /\ d \in Takes(Program(cmd)[j])
        BY DEF DoneWith, Takes
      <4>2. j \in 1 .. Len(Program(cmd))
        BY <2>1
      <4>3. Takes(Program(cmd)[j]) \subseteq Program(cmd)[i].data
        BY <2>1, <2>9, <4>1, <4>2, PinnersOrder DEF Now
      <4> QED BY <4>1, <4>3 DEF Now
    <3>3. ~PinsNoted(cmd, i)
      BY <2>1, <2>9, PinnersOrder DEF PinsNoted, Now
    <3>4. \A d \in Datasets : run.pins[d] \in Nat
      BY <2>0, RecordsAssumption DEF RunTyped
    <3>5. \A d \in Datasets : run'.noted[d] = run.pins[d]
      BY <2>4, <3>1, <3>2, <3>3, <3>4
    <3>6. DoneWith(cmd, i + 1, "pin") = DoneWith(cmd, i, "pin") /\ DoneWith(cmd, i + 1, "read") = DoneWith(cmd, i, "read")
          /\ PinsNoted(cmd, i + 1)
      BY <2>5, <2>6, <2>9
    <3> QED BY <2>0, <2>3, <2>4, <3>1, <3>5, <3>6 DEF PinsNamed
  <2>10. CASE Now.do \notin {"pin", "read", "notePins"}
    <3>1. run'.pins = run.pins /\ run'.used = run.used /\ run'.noted = run.noted
      BY <1>4, <2>2, <2>10 DEF Moved
    <3>2. DoneWith(cmd, i + 1, "pin") = DoneWith(cmd, i, "pin") /\ DoneWith(cmd, i + 1, "read") = DoneWith(cmd, i, "read")
          /\ (PinsNoted(cmd, i + 1) <=> PinsNoted(cmd, i))
      BY <2>5, <2>6, <2>10
    <3> QED BY <2>0, <2>3, <2>4, <3>1, <3>2 DEF PinsNamed
  <2> QED BY <2>7, <2>8, <2>9, <2>10
<1> QED BY <1>1, <1>2, <1>3, <1>4, RunGoesOn DEF Typed

-----------------------------------------------------------------------------
Named == PinnedRunsNameTheirData /\ NotedNotBeforeUsed

LEMMA WrittenNamed ==
  ASSUME Typed, RunTyped, CatalogNoted, PinsNamed, Named, Write
  PROVE  Named'
<1>0. Running /\ run.at <= Len(Program(run.cmd)) /\ Now.do = "write"
  BY DEF Write, At
<1>1. /\ run.cmd \in Commands /\ run.at \in 1 .. Len(Program(run.cmd)) /\ Len(Program(run.cmd)) \in Nat
      /\ run.cmd \in Catalogers \cup Pinners \cup {"pension_selection", "pension_decision"}
  BY <1>0, ResolvedIs, ProgramsShaped DEF Shaped, Now
<1> DEFINE written == <<run.cmd, RunId(run)>>
<1>2. reports' = Put(reports, written, Report(run))
  BY DEF Write
<1>3. ASSUME NEW key \in DOMAIN reports'
      PROVE  \/ key[1] = run.cmd /\ reports'[key] = Report(run)
             \/ key \in DOMAIN reports /\ reports'[key] = reports[key]
  BY <1>2 DEF Put
<1>4. CASE run.cmd \in Catalogers
  <2>1. \A v \in 1 .. MaxVintage : <<"prices", v>> \in run.used => v <= run.noted["prices"]
    BY <1>0, <1>1, <1>4, NotedAfterReads DEF CatalogNoted, Now
  <2>2. run.cmd \notin Pinners
    BY <1>4 DEF Catalogers, Pinners, Simple
  <2> QED BY <1>3, <2>1, <2>2 DEF Named, PinnedRunsNameTheirData, NotedNotBeforeUsed, Report, Pinners
<1>5. CASE run.cmd \in Pinners
  <2> DEFINE i == run.at
             cmd == run.cmd
  <2>1. PinsNoted(cmd, i)
    BY <1>0, <1>1, <1>5, PinnersOrder DEF PinsNoted, Now
  <2>2. \A d \in Datasets : run.noted[d] = run.pins[d] /\ run.pins[d] \in Nat
    BY <1>0, <1>5, <2>1, RecordsAssumption DEF PinsNamed, RunTyped
  <2>3. ASSUME NEW d \in DoneWith(cmd, i, "pin") PROVE d \in DoneWith(cmd, i, "read")
    <3>1. PICK j \in 1 .. i - 1 : Program(cmd)[j].do = "pin" /\ d \in Takes(Program(cmd)[j])
      BY DEF DoneWith, Takes
    <3>2. j \in 1 .. Len(Program(cmd))
      BY <1>1
    <3>3. j + 1 < i /\ Program(cmd)[j + 1].do = "read" /\ Takes(Program(cmd)[j + 1]) = Takes(Program(cmd)[j])
      BY <1>0, <1>1, <1>5, <3>1, <3>2, PinnersOrder DEF Now
    <3>4. j + 1 \in 1 .. i - 1 /\ d \in Datasets
      BY <1>1, <3>3 DEF DoneWith
    <3> QED BY <3>1, <3>3, <3>4 DEF DoneWith, Takes
  <2>4. run.used = {<<d, run.pins[d]>> : d \in {e \in DoneWith(cmd, i, "read") : run.pins[e] > 0}}
    BY <1>0, <1>5 DEF PinsNamed
  <2>5. \A d \in Datasets : run.pins[d] > 0 => d \in DoneWith(cmd, i, "pin")
    BY <1>0, <1>5 DEF PinsNamed
  <2>6. {e \in DoneWith(cmd, i, "read") : run.pins[e] > 0} = {e \in Datasets : run.noted[e] > 0}
    <3> HIDE DEF i, cmd
    <3> QED BY <2>2, <2>3, <2>5 DEF DoneWith
  <2>7. run.used = {<<d, run.noted[d]>> : d \in {e \in Datasets : run.noted[e] > 0}}
    BY <2>2, <2>4, <2>6
  <2>8. \A v \in 1 .. MaxVintage : <<"prices", v>> \in run.used => v <= run.noted["prices"]
    BY <2>7, <2>2, RecordsAssumption
  <2> QED BY <1>3, <2>7, <2>8 DEF Named, PinnedRunsNameTheirData, NotedNotBeforeUsed, Report
<1>6. CASE run.cmd \in {"pension_selection", "pension_decision"}
  BY <1>3, <1>6 DEF Named, PinnedRunsNameTheirData, NotedNotBeforeUsed
<1> QED BY <1>1, <1>4, <1>5, <1>6

LEMMA NamedKept ==
  ASSUME Typed, RunTyped, CatalogNoted, PinsNamed, Named, [Next]_vars
  PROVE  Named'
<1>1. CASE reports' = reports
  BY <1>1 DEF Named, PinnedRunsNameTheirData, NotedNotBeforeUsed
<1>2. CASE DiskLoss
  BY <1>2 DEF DiskLoss, Named, PinnedRunsNameTheirData, NotedNotBeforeUsed
<1>3. CASE Write
  BY <1>3, WrittenNamed
<1> QED BY <1>1, <1>2, <1>3, FilesWrittenBy

Evidence == Typed /\ RunTyped /\ RecordsNamed /\ Witnessed /\ CatalogNoted /\ PinsNamed /\ Named

\* Every report names the data it rests on, whatever ingest publishes while
\* commands run and whatever dies, is lost, pushed or pulled.
THEOREM ReportsNameData == Spec => []ReportsNameTheirData
<1>1. BackupInit => Evidence
  <2>1. BackupInit => Typed /\ RunTyped /\ RecordsNamed
    BY TypedAtFirst
  <2>2. BackupInit => run = NoRun /\ reports = <<>>
    BY DEF BackupInit, RegistryInit, Init
  <2>3. run = NoRun => ~Running
    BY DEF Running, NoRun
  <2>4. reports = <<>> => Named
    BY DEF Named, PinnedRunsNameTheirData, NotedNotBeforeUsed
  <2> QED BY <2>1, <2>2, <2>3, <2>4 DEF Evidence, Witnessed, CatalogNoted, PinsNamed
<1>2. Evidence /\ [Next]_vars => Evidence'
  BY TypedKept, RunTypedKept, RecordsNamedKept, CatalogNotedKept, PinsNamedKept, NamedKept DEF Evidence
<1>3. Evidence => ReportsNameTheirData
  BY DEF Evidence, Named, ReportsNameTheirData, Typed, RunShaped, Running, NoRun, RunTyped, RecordsNamed, TypeOK
<1> QED BY <1>1, <1>2, <1>3, PTL DEF Spec

-----------------------------------------------------------------------------
(* Observations are authentic                                              *)

\* The hash of a bundle file is of arms that its seals still tell.
SealsTell(b) ==
  b.hash # NoHash =>
    \A i \in DOMAIN b.arms : \/ \E start \in Dates : b.seals[i] = <<"full", i, b.hash.arms[i], start>>
                             \/ b.seals[i] = <<"legacy", b.hash.arms[i]>>

Observations == [asOf : Dates, arm : Nat, targets : Targets, frozen : Nat, runtime : Nat, hash : Identities]
\* Neither a freeze nor an edit changes which engines a bundle approves.
Authentic(o) ==
  /\ o.asOf > Cutoff
  /\ o.frozen # 0 => \/ o.runtime = o.frozen
                     \/ bundle.migration /\ o.runtime \in bundle.approved
  /\ o.targets = o.hash.arms[o.arm]
AuthenticOnes == {Fragment} \cup {o \in Observations : Authentic(o)}

BundleTyped == bundle \in Bundles /\ SealsTell(bundle)
\* The file a monitor has loaded, and what it may do once it was admitted.
Watching ==
  Running /\ run.cmd = "prospective_monitor" =>
    /\ run.at > 1 => /\ run.file \in Bundles /\ SealsTell(run.file) /\ run.asOf \in Dates
                     /\ run.file.migration = bundle.migration /\ run.file.approved = bundle.approved
    /\ run.at > 3 => Admissible
    /\ run.block \in Seq(AuthenticOnes)
LogsAuthentic == log \in Seq(AuthenticOnes) /\ remote.log \in Seq(AuthenticOnes)

LEMMA BundlesAtFirst ==
  ASSUME NEW b \in FirstBundles
  PROVE  b \in Bundles /\ SealsTell(b)
<1>1. b \in Bundles
  BY RegistryAssumption
<1>2. b.start \in Dates
  BY <1>1 DEF Bundles
<1>3. ASSUME b.hash # NoHash, NEW i \in DOMAIN b.arms
      PROVE  \/ \E start \in Dates : b.seals[i] = <<"full", i, b.hash.arms[i], start>>
             \/ b.seals[i] = <<"legacy", b.hash.arms[i]>>
  <2>0. b.hash = BundleHash(b)
    BY <1>3, FirstBundlesAssumption
  <2>1. b.hash.arms = b.arms
    BY <2>0 DEF BundleHash
  <2>2. b.seals[i] \in {FullHash(b, i), LegacyHash(b, i)}
    BY <1>3, FirstBundlesAssumption
  <2> QED BY <1>2, <2>1, <2>2 DEF FullHash, LegacyHash
<1> QED BY <1>1, <1>3 DEF SealsTell

LEMMA BundleTypedKept ==
  ASSUME Typed, BundleTyped, [Next]_vars
  PROVE  BundleTyped' /\ bundle'.migration = bundle.migration /\ bundle'.approved = bundle.approved
<1>0. /\ bundle \in Bundles /\ bundle.arms \in Seq(Targets) /\ bundle.start \in Dates
      /\ DOMAIN bundle = {"start", "arms", "seals", "hash", "commit", "migration", "approved"}
  BY DEF BundleTyped, Bundles
<1>1. CASE bundle' = bundle
  BY <1>1 DEF BundleTyped, SealsTell
<1>2. CASE FreezeBundle
  <2> DEFINE seals == [i \in DOMAIN bundle.arms |-> FullHash(bundle, i)]
  <2>1. bundle' = [bundle EXCEPT !.seals = seals, !.hash = BundleHash(bundle), !.commit = head]
    BY <1>2 DEF FreezeBundle
  <2>2. \A i \in DOMAIN bundle.arms : FullHash(bundle, i) = <<"full", i, bundle.arms[i], bundle.start>>
    BY DEF FullHash
  <2>3. seals \in Seq({Unsealed} \union ({"full"} \X Nat \X Targets \X Dates) \union ({"legacy"} \X Targets))
    BY <1>0, <2>2
  <2>4. BundleHash(bundle) \in Identities
    BY <1>0 DEF BundleHash, Identities
  <2>5. bundle' \in Bundles
    <3>1. head \in Nat
      BY RecordsAssumption DEF Typed
    <3> HIDE DEF seals
    <3> QED BY <1>0, <2>1, <2>3, <2>4, <3>1 DEF Bundles
  <2>6. bundle'.seals = seals /\ bundle'.hash = BundleHash(bundle) /\ bundle'.arms = bundle.arms
    BY <1>0, <2>1
  <2>7. \A i \in DOMAIN bundle'.arms : bundle'.seals[i] = <<"full", i, bundle'.hash.arms[i], bundle.start>>
    BY <2>2, <2>6 DEF BundleHash
  <2>8. SealsTell(bundle')
    BY <1>0, <2>7 DEF SealsTell
  <2> QED BY <1>0, <2>1, <2>5, <2>8 DEF BundleTyped
<1>3. CASE EditBundle
  <2>1. ASSUME NEW i \in DOMAIN bundle.arms, NEW t \in Targets, bundle' = [bundle EXCEPT !.arms[i] = t]
        PROVE  BundleTyped' /\ bundle'.migration = bundle.migration /\ bundle'.approved = bundle.approved
    <3>1. [bundle.arms EXCEPT ![i] = t] \in Seq(Targets) /\ DOMAIN [bundle.arms EXCEPT ![i] = t] = DOMAIN bundle.arms
      BY <1>0, ExceptSeq
    <3> DEFINE edited == [bundle.arms EXCEPT ![i] = t]
    <3>2. bundle' = [bundle EXCEPT !.arms = edited]
      BY <2>1
    <3> HIDE DEF edited
    <3>3. bundle' \in Bundles
      BY <1>0, <3>1, <3>2 DEF Bundles, edited
    <3>4. bundle'.arms = edited /\ bundle'.seals = bundle.seals /\ bundle'.hash = bundle.hash
      BY <1>0, <3>2
    <3>5. SealsTell(bundle')
      BY <3>1, <3>4 DEF SealsTell, edited, BundleTyped
    <3> QED BY <1>0, <3>2, <3>3, <3>5 DEF BundleTyped
  <2>2. ASSUME NEW day \in Dates, bundle' = [bundle EXCEPT !.start = day]
        PROVE  BundleTyped' /\ bundle'.migration = bundle.migration /\ bundle'.approved = bundle.approved
    <3>1. bundle' \in Bundles
      BY <1>0, <2>2 DEF Bundles
    <3>2. bundle'.arms = bundle.arms /\ bundle'.seals = bundle.seals /\ bundle'.hash = bundle.hash
      BY <1>0, <2>2
    <3> QED BY <1>0, <2>2, <3>1, <3>2 DEF BundleTyped, SealsTell
  <2> QED BY <1>3, <2>1, <2>2 DEF EditBundle
<1> QED BY <1>1, <1>2, <1>3, FilesWrittenBy

LEMMA IdentityTells ==
  ASSUME NEW b \in Bundles, SealsTell(b), NEW i \in DOMAIN b.arms, IdentityHolds(b, i)
  PROVE  HashOf(b).arms[i] = b.arms[i]
<1>1. CASE b.hash = NoHash
  BY <1>1 DEF HashOf, BundleHash
<1>2. CASE b.hash # NoHash
  <2>1. HashOf(b) = b.hash
    BY <1>2 DEF HashOf
  <2>2. \/ \E start \in Dates : b.seals[i] = <<"full", i, b.hash.arms[i], start>>
        \/ b.seals[i] = <<"legacy", b.hash.arms[i]>>
    BY <1>2 DEF SealsTell
  <2>3. b.seals[i] \in {Unsealed, <<"full", i, b.arms[i], b.start>>, <<"legacy", b.arms[i]>>}
    BY DEF IdentityHolds, FullHash, LegacyHash
  <2>4. b.seals[i] # Unsealed
    <3>1. ASSUME NEW s, NEW t PROVE <<"full", i, s, t>> # Unsealed
      BY DEF Unsealed
    <3>2. ASSUME NEW s PROVE <<"legacy", s>> # Unsealed
      BY DEF Unsealed
    <3> QED BY <2>2, <3>1, <3>2
  <2> QED BY <2>1, <2>2, <2>3, <2>4
<1> QED BY <1>1, <1>2

LEMMA MonitorOrder ==
  ASSUME Typed, Running, run.at <= Len(Program(run.cmd)), run.cmd = "prospective_monitor"
  PROVE  /\ run.at \in {1, 2, 3, 4, 5}
         /\ Now.do = "bundle" <=> run.at = 1
         /\ Now.do = "head" <=> run.at = 2
         /\ Now.do = "admit" <=> run.at = 3
         /\ Now.do = "observe" <=> run.at = 4
         /\ Now.do = "append" <=> run.at = 5
         /\ Now.do \in {"bundle", "head", "admit", "observe", "append"}
<1>1. run.at \in 1 .. 5
  BY ResolvedIs, MonitorText
<1>2. run.at \in {1, 2, 3, 4, 5}
  BY <1>1
<1> QED BY <1>2, MonitorText DEF Now, Do, Use

LEMMA WatchingKept ==
  ASSUME Typed, RunTyped, BundleTyped, Watching, [Next]_vars
  PROVE  Watching'
<1>0. /\ bundle'.migration = bundle.migration /\ bundle'.approved = bundle.approved
      /\ AuthenticOnes' = AuthenticOnes
  BY BundleTypedKept DEF AuthenticOnes, Authentic
<1>1. CASE run' = run
  BY <1>0, <1>1 DEF Watching, Running, Admissible, EngineApproved
<1>2. CASE run' = NoRun
  BY <1>2 DEF Watching, Running, NoRun
<1>3. ASSUME NEW freeze \in BOOLEAN, run' = Started(Head(agenda), freeze)
      PROVE  Watching'
  <2>1. <<>> \in Seq(AuthenticOnes)
    OBVIOUS
  <2>2. run'.at = 1 /\ run'.block = <<>>
    BY <1>3 DEF Started
  <2> QED BY <1>0, <2>1, <2>2 DEF Watching
<1>4. CASE Moved(run') /\ MovedOn(run')
  <2>0. Running /\ run.at <= Len(Program(run.cmd)) /\ run'.cmd = run.cmd /\ run' # NoRun
    BY <1>4 DEF Moved, Running, NoRun
  <2> SUFFICES ASSUME run.cmd = "prospective_monitor" PROVE Watching'
    BY <2>0 DEF Watching
  <2>a. Watching' <=> /\ run'.at > 1 => /\ run'.file \in Bundles /\ SealsTell(run'.file) /\ run'.asOf \in Dates
                                        /\ run'.file.migration = bundle.migration /\ run'.file.approved = bundle.approved
                      /\ run'.at > 3 => Admissible'
                      /\ run'.block \in Seq(AuthenticOnes)
    BY <1>0, <2>0 DEF Watching, Running
  <2>b. /\ run.at > 1 => /\ run.file \in Bundles /\ SealsTell(run.file) /\ run.asOf \in Dates
                         /\ run.file.migration = bundle.migration /\ run.file.approved = bundle.approved
        /\ run.at > 3 => Admissible
        /\ run.block \in Seq(AuthenticOnes)
    BY <2>0 DEF Watching
  <2>1. CASE run.at = 1
    <3>1. Now.do = "bundle"
      BY <2>0, <2>1, MonitorOrder
    <3>2. run'.file = bundle /\ run'.asOf \in Dates /\ run'.block = run.block /\ run'.at = 2
      BY <1>4, <2>1, <3>1 DEF Moved, MovedOn
    <3> QED BY <2>a, <2>b, <3>2 DEF BundleTyped
  <2>2. CASE run.at = 2
    <3>1. Now.do = "head"
      BY <2>0, <2>2, MonitorOrder
    <3>2. run'.file = run.file /\ run'.asOf = run.asOf /\ run'.block = run.block /\ run'.at = 3
      BY <1>4, <2>2, <3>1 DEF Moved, MovedOn
    <3> QED BY <2>a, <2>b, <2>2, <3>2
  <2>3. CASE run.at = 3
    <3>1. Now.do = "admit"
      BY <2>0, <2>3, MonitorOrder
    <3>2. run'.file = run.file /\ run'.asOf = run.asOf /\ run'.block = run.block /\ run'.commit = run.commit /\ Admissible
      BY <1>4, <2>3, <3>1 DEF Moved, MovedOn
    <3>3. Admissible'
      BY <3>2 DEF Admissible
    <3> QED BY <2>a, <2>b, <2>3, <3>2, <3>3
  <2>4. CASE run.at \in {4, 5}
    <3>1. Now.do \in {"observe", "append"}
      BY <2>0, <2>4, MonitorOrder
    <3>2. run'.file = run.file /\ run'.asOf = run.asOf /\ run'.commit = run.commit /\ Admissible
      BY <1>4, <2>b, <2>4, <3>1 DEF Moved, MovedOn
    <3>3. Admissible'
      BY <3>2 DEF Admissible
    <3>4. run'.block \in Seq(AuthenticOnes)
      <4>1. CASE run'.block = run.block
        BY <2>b, <4>1
      <4>2. CASE run'.block # run.block
        <5>1. /\ NextArm <= Len(run.file.arms) /\ IdentityHolds(run.file, NextArm)
              /\ run'.block = Append(run.block, Observation(NextArm))
          BY <1>4, <3>1, <4>2 DEF MovedOn
        <5>2. /\ run.file \in Bundles /\ run.file.arms \in Seq(Targets) /\ run.file.commit \in Nat /\ SealsTell(run.file)
              /\ run.file.hash \in {NoHash} \cup Identities /\ run.file.start \in Dates /\ run.asOf \in Dates
          BY <2>b, <2>4 DEF Bundles
        <5>3. NextArm \in Nat /\ NextArm \in DOMAIN run.file.arms
          BY <2>b, <5>1, <5>2 DEF NextArm
        <5>4. run.file.arms[NextArm] \in Targets
          BY <5>2, <5>3
        <5>5. HashOf(run.file) \in Identities /\ HashOf(run.file).arms[NextArm] = run.file.arms[NextArm]
          BY <5>1, <5>2, <5>3, IdentityTells DEF HashOf, BundleHash, Identities
        <5>6. run.commit \in Nat
          BY <2>0, RecordsAssumption DEF RunTyped
        <5>7. Observation(NextArm) \in Observations
          BY <5>2, <5>3, <5>4, <5>5, <5>6 DEF Observation, Observations
        <5>8. Authentic(Observation(NextArm))
          BY <2>b, <2>4, <3>2, <5>5 DEF Authentic, Observation, Admissible, Observable, EngineApproved
        <5>9. Observation(NextArm) \in AuthenticOnes
          BY <5>7, <5>8 DEF AuthenticOnes
        <5> QED BY <2>b, <5>1, <5>9, AppendProperties
      <4> QED BY <4>1, <4>2
    <3> QED BY <2>a, <2>b, <2>4, <3>2, <3>3, <3>4
  <2> QED BY <2>0, <2>1, <2>2, <2>3, <2>4, MonitorOrder
<1> QED BY <1>1, <1>2, <1>3, <1>4, RunGoesOn DEF Typed

\* A block, whole or torn, is added at the end of the log.
LEMMA LogGrows ==
  ASSUME AppendBlock \/ TearBlock, log \in Seq(AuthenticOnes), run.block \in Seq(AuthenticOnes)
  PROVE  \E u \in Seq(AuthenticOnes) : log' = log \o u
<1>1. <<>> \in Seq(AuthenticOnes) /\ <<Fragment>> \in Seq(AuthenticOnes)
  <2>1. Fragment \in AuthenticOnes
    BY DEF AuthenticOnes
  <2> QED BY <2>1
<1>2. Landing \in Seq(AuthenticOnes)
  BY DEF Landing
<1>3. CASE AppendBlock
  BY <1>2, <1>3 DEF AppendBlock
<1>4. CASE TearBlock
  <2>1. PICK n \in 0 .. Len(Landing) - 1, torn \in {<<>>, <<Fragment>>} : log' = log \o (SubSeq(Landing, 1, n) \o torn)
    BY <1>4 DEF TearBlock
  <2>2. SubSeq(Landing, 1, n) \in Seq(AuthenticOnes)
    BY <1>2
  <2>3. SubSeq(Landing, 1, n) \o torn \in Seq(AuthenticOnes)
    BY <1>1, <2>1, <2>2, ConcatProperties
  <2> QED BY <2>1, <2>3
<1> QED BY <1>3, <1>4

LEMMA LogsAuthenticKept ==
  ASSUME Typed, RunTyped, BundleTyped, Watching, LogsAuthentic, [Next]_vars
  PROVE  LogsAuthentic'
<1>0. AuthenticOnes' = AuthenticOnes
  BY BundleTypedKept DEF AuthenticOnes, Authentic
<1>1. log' \in Seq(AuthenticOnes)
  <2>1. CASE log' = log
    BY <2>1 DEF LogsAuthentic
  <2>2. CASE AppendBlock \/ TearBlock
    <3>1. Running /\ run.at <= Len(Program(run.cmd)) /\ Now.do = "append"
      BY <2>2 DEF AppendBlock, TearBlock, At
    <3>2. run.cmd = "prospective_monitor"
      BY <3>1, ResolvedIs DEF Shaped, Watches, Now
    <3>3. run.block \in Seq(AuthenticOnes)
      BY <3>1, <3>2 DEF Watching
    <3> QED BY <2>2, <3>3, LogGrows, ConcatProperties DEF LogsAuthentic
  <2>3. CASE PullRegistry
    BY <2>3 DEF PullRegistry, LogsAuthentic
  <2>4. CASE DiskLoss
    BY <2>4 DEF DiskLoss
  <2> QED BY <2>1, <2>2, <2>3, <2>4, FilesWrittenBy
<1>2. remote'.log \in Seq(AuthenticOnes)
  BY FilesWrittenBy DEF Typed, PushNormalized, PushManifests, PushFrozen, PushRegistry, MoveRaw, LogsAuthentic
<1> QED BY <1>0, <1>1, <1>2 DEF LogsAuthentic

\* Every observation is of a day after the seen history, by an approved engine
\* and of the targets its bundle hash names, whatever is edited, frozen again,
\* committed, lost and restored between the monitor runs.
THEOREM ObservationsAreAuthentic == Spec => []ObservationsAuthentic
<1> DEFINE I == Typed /\ RunTyped /\ Witnessed /\ BundleTyped /\ Watching /\ LogsAuthentic
<1>1. BackupInit => I
  <2> SUFFICES ASSUME BackupInit PROVE I
    OBVIOUS
  <2>1. run = NoRun /\ log = <<>> /\ bundle \in FirstBundles /\ remote.log = <<>>
    BY DEF BackupInit, RegistryInit, Init
  <2>2. ~Running
    BY <2>1 DEF Running, NoRun
  <2>3. <<>> \in Seq(AuthenticOnes)
    OBVIOUS
  <2>4. BundleTyped
    BY <2>1, BundlesAtFirst DEF BundleTyped
  <2> QED BY <2>1, <2>2, <2>3, <2>4, TypedAtFirst DEF Witnessed, Watching, LogsAuthentic
<1>2. I /\ [Next]_vars => I'
  BY TypedKept, RunTypedKept, BundleTypedKept, WatchingKept, LogsAuthenticKept
<1>3. I => ObservationsAuthentic
  BY DEF LogsAuthentic, ObservationsAuthentic, AuthenticOnes, Authentic
<1> QED BY <1>1, <1>2, <1>3, PTL DEF Spec

-----------------------------------------------------------------------------
(* What was filed stays                                                    *)

\* A record that is to be filled has just been opened.
Opened ==
  Running /\ run.at <= Len(Program(run.cmd)) /\ Now.do = "fill" =>
    RecordId(run) \in DOMAIN records /\ records[RecordId(run)] = Torn

LEMMA HandlingFreeze ==
  ASSUME Handling, At("freeze")
  PROVE  OpenRecord
BY DEF Handling, Working, Load, ReadBytes, LoadCompanions, Pin, ReadPinned, ReadNewest, RunOnce, NoteCatalog, NotePins, ResolveCommit,
       ReadIncumbent, ReadPensionRecord, Decide, CrossCheck, DecideIsa, Write, LoadBundle, Admit, Observe, AllObserved, At

LEMMA TransferAt ==
  ASSUME Transfer
  PROVE  \E what \in Transfers : At(what)
BY DEF Transfer, PushNormalized, PushManifests, PushFrozen, PushRegistry, MoveRaw, PullNormalized, PullManifests,
       PullFrozen, PullRegistry, Transfers

LEMMA FreezeOpens ==
  ASSUME Typed, [Next]_vars, At("freeze"), run' # run, run' # NoRun
  PROVE  OpenRecord
<1>1. ~Transfer
  BY TransferAt DEF At, Transfers
<1>2. ~(\E d \in Publishable : Ingest(d)) /\ ~DiskLoss
  BY DEF Ingest, Publish, DiskLoss
<1> QED BY <1>1, <1>2, StepKinds, HandlingFreeze DEF At

LEMMA OpenedKept ==
  ASSUME Typed, Opened, [Next]_vars
  PROVE  Opened'
<1>1. CASE run' = run
  <2> SUFFICES ASSUME Running, run.at <= Len(Program(run.cmd)), Now.do = "fill"
               PROVE  RecordId(run) \in DOMAIN records' /\ records'[RecordId(run)] = Torn
    BY <1>1 DEF Opened, Running, Now, Program, RecordId
  <2>1. run # NoRun
    BY DEF Running, NoRun
  <2>2. ~OpenRecord /\ ~PullFrozen /\ ~FillRecord /\ ~DiskLoss
    BY <1>1, <2>1 DEF OpenRecord, PullFrozen, FillRecord, DiskLoss, At
  <2> QED BY <2>2, FilesWrittenBy DEF Opened
<1>2. CASE run' = NoRun
  BY <1>2 DEF Opened, Running, NoRun
<1>3. ASSUME agenda # <<>>, NEW freeze \in BOOLEAN, run' = Started(Head(agenda), freeze)
      PROVE  Opened'
  <2>1. Head(agenda) \in Commands /\ run'.cmd = Head(agenda) /\ run'.at = 1
    BY <1>3 DEF Typed, Started
  <2>2. 1 <= Len(Program(run'.cmd)) => Program(run'.cmd)[1].do # "fill"
    BY <2>1, ProgramsShaped DEF Shaped
  <2> QED BY <2>1, <2>2 DEF Opened, Now, Program
<1>4. CASE Moved(run') /\ MovedOn(run')
  <2>0. Running /\ run.at <= Len(Program(run.cmd)) /\ run'.cmd = run.cmd /\ run' # NoRun
    BY <1>4 DEF Moved, Running, NoRun
  <2>1. run.cmd \in Commands /\ run.at \in 1 .. Len(Program(run.cmd)) /\ Len(Program(run.cmd)) \in Nat
    BY <2>0, ResolvedIs, ProgramsShaped
  <2> SUFFICES ASSUME run'.at <= Len(Program(run.cmd)), Program(run.cmd)[run'.at].do = "fill"
               PROVE  RecordId(run') \in DOMAIN records' /\ records'[RecordId(run')] = Torn
    BY <2>0 DEF Opened, Now, Program, RecordId
  <2>2. run'.at = run.at + 1
    BY <1>4 DEF Moved, Now
  <2>3. run.at + 1 \in 1 .. Len(Program(run.cmd)) /\ run.at + 1 - 1 = run.at
    BY <2>1, <2>2
  <2>4. Now.do = "freeze"
    BY <2>1, <2>2, <2>3, ProgramsShaped DEF Shaped, Now
  <2>5. run' # run
    BY <2>1, <2>2
  <2>6. OpenRecord
    BY <2>0, <2>4, <2>5, FreezeOpens DEF At
  <2>7. RecordId(run') = RecordId(run)
    BY <1>4, <2>4 DEF RecordId, Moved
  <2>8. records' = Put(records, RecordId(run), Torn)
    BY <2>6 DEF OpenRecord
  <2> QED BY <2>7, <2>8 DEF Put
<1> QED BY <1>1, <1>2, <1>3, <1>4, RunGoesOn DEF Typed

\* Records only come, and only an opened one changes.
RecordsStay == \A id \in DOMAIN records : records[id] # Torn => id \in DOMAIN records' /\ records'[id] = records[id]

LEMMA RecordsStayOrGo ==
  ASSUME Typed, Opened, [Next]_vars
  PROVE  RecordsStay \/ DiskLoss
<1>1. CASE records' = records
  BY <1>1 DEF RecordsStay
<1>2. CASE OpenRecord
  BY <1>2 DEF OpenRecord, Put, RecordsStay
<1>3. CASE FillRecord
  BY <1>3 DEF FillRecord, At, Opened, RecordsStay
<1>4. CASE PullFrozen
  BY <1>4, FrozenCopies DEF CopyFrozen, RecordsStay
<1> QED BY <1>1, <1>2, <1>3, <1>4, FilesWrittenBy

LEMMA RecordsImmutableStep ==
  ASSUME Typed, Opened, [Next]_vars
  PROVE  \A id \in DOMAIN records \intersect DOMAIN records' :
           records[id] # Torn => records'[id] = records[id]
<1>1. CASE RecordsStay
  BY <1>1 DEF RecordsStay
<1>2. CASE DiskLoss
  BY <1>2 DEF DiskLoss
<1> QED BY <1>1, <1>2, RecordsStayOrGo

LEMMA MirrorKeepsRecordsStep ==
  ASSUME Typed, [Next]_vars
  PROVE  \A id \in DOMAIN remote.frozen : id \in DOMAIN remote'.frozen /\ remote'.frozen[id] = remote.frozen[id]
<1>1. remote'.frozen = remote.frozen \/ PushFrozen
  BY FilesWrittenBy DEF Typed, PushNormalized, PushManifests, PushRegistry, MoveRaw
<1> QED BY <1>1, FrozenCopies DEF CopyFrozen

-----------------------------------------------------------------------------
(* The observation log                                                     *)

LEMMA PrefixIs ==
  ASSUME NEW S, NEW s \in Seq(S), NEW t \in Seq(S)
  PROVE  IsPrefix(s, t) <=> Len(s) <= Len(t) /\ \A i \in 1 .. Len(s) : s[i] = t[i]
<1>1. Len(s) \in Nat /\ Len(t) \in Nat
  OBVIOUS
<1>2. SubSeq(s, 1, Len(s)) = s
  OBVIOUS
<1>3. ASSUME Len(s) <= Len(t)
      PROVE  SubSeq(t, 1, Len(s)) \in Seq(S) /\ Len(SubSeq(t, 1, Len(s))) = Len(s)
             /\ \A i \in 1 .. Len(s) : SubSeq(t, 1, Len(s))[i] = t[i]
  BY <1>1, <1>3
<1>4. ASSUME Len(s) <= Len(t), \A i \in 1 .. Len(s) : s[i] = t[i]
      PROVE  SubSeq(t, 1, Len(s)) = s
  BY <1>3, <1>4, SeqEqual
<1> QED BY <1>1, <1>2, <1>3, <1>4 DEF IsPrefix

LEMMA PrefixSelf ==
  ASSUME NEW S, NEW s \in Seq(S)
  PROVE  IsPrefix(s, s) /\ IsPrefix(<<>>, s)
<1>1. <<>> \in Seq(S) /\ Len(<<>>) = 0 /\ Len(s) \in Nat
  OBVIOUS
<1>2. IsPrefix(s, s)
  BY <1>1, PrefixIs
<1>3. Len(<<>>) <= Len(s) /\ \A i \in 1 .. Len(<<>>) : <<>>[i] = s[i]
  BY <1>1
<1>4. IsPrefix(<<>>, s)
  BY <1>1, <1>3, PrefixIs
<1> QED BY <1>2, <1>4

LEMMA PrefixAppended ==
  ASSUME NEW S, NEW s \in Seq(S), NEW t \in Seq(S), NEW u \in Seq(S), IsPrefix(s, t)
  PROVE  IsPrefix(s, t \o u) /\ IsPrefix(t, t \o u)
<1>1. /\ t \o u \in Seq(S) /\ Len(t \o u) = Len(t) + Len(u)
      /\ \A i \in 1 .. Len(t) + Len(u) : (t \o u)[i] = IF i <= Len(t) THEN t[i] ELSE u[i - Len(t)]
  BY ConcatProperties
<1>2. Len(s) \in Nat /\ Len(t) \in Nat /\ Len(u) \in Nat
  OBVIOUS
<1>3. Len(s) <= Len(t) /\ \A i \in 1 .. Len(s) : s[i] = t[i]
  BY PrefixIs
<1>4. Len(s) <= Len(t \o u) /\ \A i \in 1 .. Len(s) : s[i] = (t \o u)[i]
  BY <1>1, <1>2, <1>3
<1>5. Len(t) <= Len(t \o u) /\ \A i \in 1 .. Len(t) : t[i] = (t \o u)[i]
  BY <1>1, <1>2
<1> QED BY <1>1, <1>4, <1>5, PrefixIs

\* The mirror's log is a part of the disk's, unless the disk's is lost; a
\* monitor runs on a log that has it all, a pull on none.
Survive ==
  /\ losses \in Nat
  /\ log = <<>> \/ IsPrefix(remote.log, log)
  /\ Running /\ run.cmd = "prospective_monitor" => IsPrefix(remote.log, log)
  /\ Running /\ run.cmd = "backup_pull" /\ run.at <= 4 => log = <<>>

LEMMA PullOrder ==
  ASSUME Typed, At("pullRegistry")
  PROVE  run.cmd = "backup_pull" /\ run.at = 4
<1>1. Running /\ run.at <= Len(Program(run.cmd)) /\ Now.do = "pullRegistry"
  BY DEF At
<1>2. run.cmd \in {"backup_push", "backup_pull"}
  BY <1>1, ResolvedIs DEF Shaped, Now, Transfers
<1>3. CASE run.cmd = "backup_push"
  <2>1. run.at \in 1 .. 5
    BY <1>1, <1>3, ResolvedIs, PushText
  <2>2. run.at \in {1, 2, 3, 4, 5}
    BY <2>1
  <2> QED BY <1>1, <1>3, <2>2, PushText DEF Now, Do
<1>4. CASE run.cmd = "backup_pull"
  <2>1. run.at \in 1 .. 4
    BY <1>1, <1>4, ResolvedIs, PullText
  <2>2. run.at \in {1, 2, 3, 4}
    BY <2>1
  <2> QED BY <1>1, <1>4, <2>2, PullText DEF Now, Do
<1> QED BY <1>2, <1>3, <1>4

LEMMA LossesMove ==
  ASSUME [Next]_vars
  PROVE  losses' = losses \/ DiskLoss
<1>1. CASE UNCHANGED vars BY <1>1 DEF vars, backupVars
<1>2. CASE Transfer
  BY <1>2 DEF Transfer, PushNormalized, PushManifests, PushFrozen, PushRegistry, MoveRaw, PullNormalized, PullManifests,
              PullFrozen, PullRegistry, backupVars
<1>3. CASE \E d \in Publishable : Ingest(d)
  BY <1>3 DEF Ingest
<1>4. CASE BeginSensibly \/ Skip \/ UNCHANGED backupVars
  BY <1>4 DEF BeginSensibly, Skip, backupVars
<1> QED BY <1>1, <1>2, <1>3, <1>4 DEF Next

LEMMA SurviveKept ==
  ASSUME Typed, LogsAuthentic, Watching, Survive, [Next]_vars, RestoreFirst = TRUE, PullsIntoExisting = FALSE
  PROVE  /\ Survive'
         /\ IsPrefix(remote.log, remote'.log)
         /\ losses' = losses => IsPrefix(log, log')
<1>1. log \in Seq(AuthenticOnes) /\ remote.log \in Seq(AuthenticOnes)
  BY DEF LogsAuthentic
<1>2. IsPrefix(log, log) /\ IsPrefix(remote.log, remote.log) /\ IsPrefix(<<>>, remote.log)
  BY <1>1, PrefixSelf
<1>3. CASE (AppendBlock \/ TearBlock) /\ UNCHANGED backupVars
  <2>1. Running /\ run.at <= Len(Program(run.cmd)) /\ Now.do = "append"
    BY <1>3 DEF AppendBlock, TearBlock, At
  <2>2. run.cmd = "prospective_monitor"
    BY <2>1, ResolvedIs DEF Shaped, Watches, Now
  <2>3. run.block \in Seq(AuthenticOnes) /\ IsPrefix(remote.log, log)
    BY <2>1, <2>2 DEF Watching, Survive
  <2>4. IsPrefix(remote.log, log') /\ IsPrefix(log, log')
    BY <1>1, <1>3, <2>3, LogGrows, PrefixAppended
  <2>5. run' = NoRun /\ remote' = remote /\ losses' = losses
    BY <1>3 DEF AppendBlock, TearBlock, backupVars
  <2> QED BY <1>2, <2>4, <2>5 DEF Survive, Running, NoRun
<1>4. CASE PullRegistry
  <2>1. run.cmd = "backup_pull" /\ run.at = 4 /\ Running
    BY <1>4, PullOrder DEF PullRegistry, At
  <2>2. log = <<>>
    BY <2>1 DEF Survive
  <2>3. log' \in {log, remote.log} /\ remote' = remote /\ losses' = losses
    BY <1>4 DEF PullRegistry, backupVars
  <2>4. Ends \/ Advance
    BY <1>4 DEF PullRegistry
  <2>5. run' = NoRun \/ (run'.cmd = "backup_pull" /\ run'.at = 5)
    <3>1. DOMAIN run = RunFields
      BY <2>1 DEF Typed, RunShaped, Running, NoRun
    <3> QED BY <2>1, <2>4, <3>1 DEF Ends, Advance, Done, RunFields
  <2> QED BY <1>2, <2>2, <2>3, <2>5 DEF Survive, Running, NoRun
<1>5. CASE DiskLoss
  <2>1. log' = <<>> /\ run' = NoRun /\ remote' = remote /\ losses' = losses + 1
    BY <1>5 DEF DiskLoss
  <2> QED BY <1>2, <2>1 DEF Survive, Running, NoRun
<1>6. CASE log' = log /\ ~DiskLoss
  <2>1. losses' = losses
    BY <1>6, LossesMove
  <2>2. remote'.log = remote.log \/ (PushRegistry /\ remote'.log = IF log = <<>> THEN remote.log ELSE log)
    BY FilesWrittenBy DEF Typed, PushNormalized, PushManifests, PushFrozen, PushRegistry, MoveRaw
  <2>3. IsPrefix(remote.log, remote'.log) /\ (log = <<>> \/ IsPrefix(remote'.log, log))
        /\ (IsPrefix(remote.log, log) => IsPrefix(remote'.log, log))
    BY <1>2, <2>2 DEF Survive
  <2>4. CASE run' = run
    BY <1>2, <1>6, <2>1, <2>3, <2>4 DEF Survive, Running
  <2>5. CASE run' = NoRun
    BY <1>2, <1>6, <2>1, <2>3, <2>5 DEF Survive, Running, NoRun
  <2>6. ASSUME Sensible(Head(agenda)), NEW freeze \in BOOLEAN, run' = Started(Head(agenda), freeze)
        PROVE  Survive'
    BY <1>2, <1>6, <2>1, <2>3, <2>6 DEF Survive, Running, Started, Sensible
  <2>7. CASE Moved(run')
    <3>1. Running /\ run'.cmd = run.cmd /\ run.at \in Nat /\ (run'.at = run.at \/ run'.at = run.at + 1)
      BY <2>7, ProgramsShaped DEF Moved, Typed, RunShaped, Running, NoRun
    <3> QED BY <1>2, <1>6, <2>1, <2>3, <3>1 DEF Survive, Running
  <2>8. Survive'
    BY <2>4, <2>5, <2>6, <2>7, RunGoesOn DEF Typed
  <2> QED BY <1>2, <1>6, <2>3, <2>8
<1> QED BY <1>3, <1>4, <1>5, <1>6, FilesWrittenBy

-----------------------------------------------------------------------------
(* Bronze leaves last                                                      *)

\* What the zones of a push have got when the next one is due.
Pushed ==
  run.cmd = "backup_push" =>
    /\ run.at > 2 => manifests \subseteq remote.manifests
    /\ run.at > 3 => DOMAIN records \subseteq DOMAIN remote.frozen
    /\ run.at > 4 => log \in {<<>>, remote.log}

LEMMA PushOrder ==
  ASSUME Typed, NEW what, At(what)
  PROVE  /\ run.cmd = "backup_push" =>
              /\ run.at = 1 => what = "pushNormalized"
              /\ run.at = 2 => what = "pushManifests"
              /\ run.at = 3 => what = "pushFrozen"
              /\ run.at = 4 => what = "pushRegistry"
              /\ run.at = 5 => what = "moveRaw"
              /\ run.at \in {1, 2, 3, 4, 5}
         /\ what \in {"pushNormalized", "pushManifests", "pushFrozen", "pushRegistry", "moveRaw"} => run.cmd = "backup_push"
<1>1. Running /\ run.at <= Len(Program(run.cmd)) /\ Now.do = what
  BY DEF At
<1>2. CASE run.cmd = "backup_push"
  <2>1. run.at \in 1 .. 5
    BY <1>1, <1>2, ResolvedIs, PushText
  <2>2. run.at \in {1, 2, 3, 4, 5}
    BY <2>1
  <2> QED BY <1>1, <1>2, <2>2, PushText DEF Now, Do
<1>3. CASE run.cmd = "backup_pull"
  <2>1. run.at \in 1 .. 4
    BY <1>1, <1>3, ResolvedIs, PullText
  <2>2. run.at \in {1, 2, 3, 4}
    BY <2>1
  <2> QED BY <1>1, <1>3, <2>2, PullText DEF Now, Do
<1>4. CASE run.cmd \notin {"backup_push", "backup_pull"}
  BY <1>1, <1>4, ResolvedIs DEF Shaped, Now, Transfers
<1> QED BY <1>2, <1>3, <1>4

\* While a push runs, the disk does not change but for the Bronze it moves.
LEMMA PushFrame ==
  ASSUME Typed, [Next]_vars, run.cmd = "backup_push", PublishDuringPush = FALSE, run' # NoRun
  PROVE  /\ UNCHANGED <<parquet, manifests, records, log>>
         /\ \/ run' = run /\ remote' = remote
            \/ PushNormalized \/ PushManifests \/ PushFrozen \/ PushRegistry \/ MoveRaw
<1>1. Running
  BY DEF Running
<1>2. \A what : At(what) => what \in {"pushNormalized", "pushManifests", "pushFrozen", "pushRegistry", "moveRaw"}
  BY PushOrder
<1>3. ~OpenRecord /\ ~FillRecord /\ ~PullFrozen /\ ~AppendBlock /\ ~TearBlock /\ ~PullRegistry /\ ~DiskLoss
      /\ ~PullNormalized /\ ~PullManifests /\ ~(\E d \in Publishable : Ingest(d))
  BY <1>2 DEF OpenRecord, FillRecord, PullFrozen, AppendBlock, TearBlock, PullRegistry, DiskLoss, PullNormalized, PullManifests, Ingest
<1>4. ~Handling
  <2>1. RunShaped
    BY DEF Typed
  <2> QED BY <2>1, HandlingAt, BackupTransfers
<1>5. records' = records /\ log' = log
  BY <1>3, FilesWrittenBy
<1>6. (UNCHANGED <<silver, backupVars>> /\ run' = run) \/ Transfer
  BY <1>1, <1>3, <1>4, StepKinds
<1>7. CASE UNCHANGED <<silver, backupVars>> /\ run' = run
  BY <1>5, <1>7 DEF silver, backupVars
<1>8. CASE Transfer
  BY <1>3, <1>8, <1>5 DEF Transfer, PushNormalized, PushManifests, PushFrozen, PushRegistry, MoveRaw, world, silver
<1> QED BY <1>6, <1>7, <1>8

LEMMA PushedKept ==
  ASSUME Typed, Pushed, [Next]_vars, PublishDuringPush = FALSE
  PROVE  Pushed'
<1> SUFFICES ASSUME run'.cmd = "backup_push", run' # NoRun PROVE Pushed'
  BY DEF Pushed, NoRun
<1>1. CASE run.cmd # "backup_push"
  BY <1>1, RunGoesOn DEF Typed, Moved, Started, Pushed
<1>2. CASE run.cmd = "backup_push"
  <2>0. UNCHANGED <<parquet, manifests, records, log>>
    BY <1>2, PushFrame
  <2>a. DOMAIN remote = {"parquet", "manifests", "frozen", "log", "raw"} /\ DOMAIN run = RunFields
    BY <1>2 DEF Typed, RunShaped, NoRun
  <2>b. Advance => run'.at = run.at + 1
    BY <2>a DEF Advance, Done, RunFields
  <2>1. CASE run' = run /\ remote' = remote
    BY <2>0, <2>1 DEF Pushed
  <2>2. CASE PushNormalized
    <3>1. run.at = 1
      BY <1>2, <2>2, PushOrder DEF PushNormalized
    <3> QED BY <2>2, <2>b, <3>1 DEF PushNormalized, Ends, Pushed
  <2>3. CASE PushManifests
    <3>1. run.at = 2
      BY <1>2, <2>3, PushOrder DEF PushManifests
    <3> QED BY <2>0, <2>3, <2>a, <2>b, <3>1 DEF PushManifests, Ends, Pushed
  <2>4. CASE PushFrozen
    <3>1. run.at = 3
      BY <1>2, <2>4, PushOrder DEF PushFrozen
    <3>2. Advance /\ remote'.frozen = CopyFrozen(records, remote.frozen) /\ remote'.manifests = remote.manifests
      BY <2>4, <2>a DEF PushFrozen, Ends
    <3>3. DOMAIN records \subseteq DOMAIN remote'.frozen
      BY <3>2 DEF CopyFrozen
    <3> QED BY <1>2, <2>0, <2>b, <3>1, <3>2, <3>3 DEF Pushed
  <2>5. CASE PushRegistry
    <3>1. run.at = 4
      BY <1>2, <2>5, PushOrder DEF PushRegistry
    <3> QED BY <1>2, <2>0, <2>5, <2>a, <2>b, <3>1 DEF PushRegistry, Ends, Pushed
  <2>6. CASE MoveRaw
    <3>1. run.at = 5
      BY <1>2, <2>6, PushOrder DEF MoveRaw
    <3> QED BY <1>2, <2>0, <2>6, <2>a, <2>b, <3>1 DEF MoveRaw, Ends, Pushed
  <2> QED BY <1>2, <2>1, <2>2, <2>3, <2>4, <2>5, <2>6, PushFrame
<1> QED BY <1>1, <1>2

LEMMA RawMoves ==
  ASSUME [Next]_vars
  PROVE  raw \subseteq raw' \/ MoveRaw \/ DiskLoss
<1>1. CASE UNCHANGED vars BY <1>1 DEF vars, backupVars
<1>2. CASE Transfer
  BY <1>2 DEF Transfer, PushNormalized, PushManifests, PushFrozen, PushRegistry, PullNormalized, PullManifests,
              PullFrozen, PullRegistry, backupVars
<1>3. CASE \E d \in Publishable : Ingest(d)
  BY <1>3 DEF Ingest
<1>4. CASE BeginSensibly \/ Skip \/ UNCHANGED backupVars
  BY <1>4 DEF BeginSensibly, Skip, backupVars
<1> QED BY <1>1, <1>2, <1>3, <1>4 DEF Next

LEMMA RawLeavesLastStep ==
  ASSUME Typed, Mirror, Pushed, Survive, [Next]_vars, losses' = losses, raw \ raw' # {}
  PROVE  /\ raw \ raw' \subseteq remote'.raw
         /\ parquet \subseteq remote.parquet /\ manifests \subseteq remote.manifests
         /\ DOMAIN records \subseteq DOMAIN remote.frozen
         /\ log \in {<<>>, remote.log}
<1>1. ~DiskLoss
  BY DEF DiskLoss, Survive
<1>2. MoveRaw
  BY <1>1, RawMoves
<1>3. run.cmd = "backup_push"
  BY <1>2, PushOrder DEF MoveRaw
<1>4. run.at = 5
  <2>1. At("moveRaw")
    BY <1>2 DEF MoveRaw
  <2> QED BY <1>3, <2>1, PushOrder
<1>5. raw \ raw' \subseteq remote'.raw
  BY <1>2 DEF MoveRaw, Typed
<1> QED BY <1>3, <1>4, <1>5 DEF Mirror, Pushed

-----------------------------------------------------------------------------
(* A run id identifies its evidence                                        *)

LEMMA PinnersSteps ==
  ASSUME NEW cmd \in Pinners, NEW i \in 1 .. Len(Program(cmd))
  PROVE  LET step == Program(cmd)[i]
         IN  /\ step.do = "load" <=> i = 1
             /\ step.do = "bytes" <=> i = 2
             /\ step.do = "write" => i > 8
             /\ step.do \notin {"incumbent", "decide", "crossCheck"}
             /\ cmd # "isa_household" => step.do \notin {"pensionRecord", "companions", "decideIsa"}
             /\ cmd = "isa_household" => /\ step.do = "pensionRecord" <=> i = 3
                                         /\ step.do = "companions" <=> i = 4
                                         /\ step.do = "decideIsa" <=> i = 7
                                         /\ step.do = "pin" <=> i = 5
<1>1. CASE cmd = "pension_campaign"
  <2>1. i \in 1 .. 11
    BY <1>1, CampaignText
  <2>2. i \in {1, 2, 3, 4, 5, 6, 7, 8, 9, 10, 11}
    BY <2>1
  <2> QED BY <1>1, <2>2, CampaignText DEF Do, Use, UseIfThere
<1>2. CASE cmd = "pension_campaign_kr"
  <2>1. i \in 1 .. 9
    BY <1>2, CampaignKrText
  <2>2. i \in {1, 2, 3, 4, 5, 6, 7, 8, 9}
    BY <2>1
  <2> QED BY <1>2, <2>2, CampaignKrText DEF Do, Use, UseIfThere
<1>3. CASE cmd = "isa_household"
  <2>1. i \in 1 .. 12
    BY <1>3, HouseholdText
  <2>2. i \in {1, 2, 3, 4, 5, 6, 7, 8, 9, 10, 11, 12}
    BY <2>1
  <2> QED BY <1>3, <2>2, HouseholdText DEF Do, Use, UseIfThere
<1> QED BY <1>1, <1>2, <1>3 DEF Pinners

\* What a run that pins has loaded, read and decided so far.
Settled ==
  Running /\ run.cmd \in Pinners =>
    /\ run.at > 1 => run.spec = config
    /\ run.at > 2 => run.bytes = config
    /\ run.cmd # "isa_household" => /\ run.basis = None /\ run.status = "none" /\ run.selected = "none"
                                    /\ run.companions = 0
    /\ run.cmd = "isa_household" =>
         /\ run.at > 3 => /\ run.basis \in DOMAIN records /\ records[run.basis] # Torn
                          /\ run.held = Held(records[run.basis].incumbent)
         /\ run.at > 7 => /\ run.status = outcome.isa[<<run.spec, run.companions, run.pins["prices"]>>]
                          /\ run.selected = run.held.id

\* The only report a pension campaign or household run of an id can leave, but
\* for the companions a household run has read.
ReportFor(key, read) ==
  LET id == key[2]
      household == key[1] = "isa_household"
  IN  [spec |-> id[1], companions |-> read, commit |-> id[2], noted |-> id[3],
       used |-> {<<d, id[3][d]>> : d \in {e \in Datasets : id[3][e] > 0}},
       basis |-> IF household THEN id[4] ELSE None,
       status |-> IF household THEN outcome.isa[<<id[1], read, id[3]["prices"]>>] ELSE "none",
       selected |-> IF household THEN id[5].incumbent ELSE "none"]
IdentifiedBy(key, report) ==
  /\ report = ReportFor(key, report.companions)
  /\ key[1] # "isa_household" => report.companions = 0
Identified == \A key \in DOMAIN reports : key[1] \in Pinners => IdentifiedBy(key, reports[key])

LEMMA WorldStays ==
  ASSUME [Next]_vars
  PROVE  outcome' = outcome /\ (config' = config \/ EditConfig)
<1> USE DEF world
<1>1. CASE UNCHANGED vars BY <1>1 DEF vars, researchVars
<1>2. CASE BeginSensibly BY <1>2 DEF BeginSensibly, Begin
<1>3. CASE Skip BY <1>3 DEF Skip
<1>4. CASE Step
  <2>1. CASE Working BY <2>1, WorkingFrame
  <2>2. CASE FillRecord \/ Return \/ Refuse \/ Die BY <2>2 DEF FillRecord, Return, Refuse, Die
  <2> QED BY <1>4, <2>1, <2>2 DEF Step, Working
<1>5. CASE EditConfig \/ EditCompanions \/ Commit BY <1>5 DEF EditConfig, EditCompanions, Commit
<1>6. CASE RegistryStep
  BY <1>6 DEF RegistryStep, LoadBundle, Admit, Observe, AllObserved, AppendBlock, TearBlock, RefuseMonitor, FreezeBundle, EditBundle
<1>7. CASE Transfer
  <2>1. CASE PushNormalized \/ PushManifests \/ PushFrozen \/ PushRegistry \/ MoveRaw
    BY <2>1 DEF PushNormalized, PushManifests, PushFrozen, PushRegistry, MoveRaw
  <2>2. CASE PullNormalized \/ PullManifests \/ PullFrozen \/ PullRegistry
    BY <2>2 DEF PullNormalized, PullManifests, PullFrozen, PullRegistry
  <2> QED BY <1>7, <2>1, <2>2 DEF Transfer
<1>8. ASSUME NEW d \in Publishable, Ingest(d) PROVE UNCHANGED <<config, outcome>>
  BY <1>8 DEF Ingest, Publish
<1>9. CASE DiskLoss BY <1>9 DEF DiskLoss
<1> QED BY <1>1, <1>2, <1>3, <1>4, <1>5, <1>6, <1>7, <1>8, <1>9 DEF Next

LEMMA SettledKept ==
  ASSUME Typed, Opened, Settled, [Next]_vars, EditsDuringRuns = FALSE
  PROVE  Settled'
<1>0. outcome' = outcome /\ (Running => config' = config)
  BY WorldStays DEF EditConfig, Quiet
<1>a. run' = NoRun \/ RecordsStay
  BY RecordsStayOrGo DEF DiskLoss
<1>1. CASE run' = run /\ run' # NoRun
  BY <1>0, <1>a, <1>1 DEF Settled, Running, RecordsStay
<1>2. CASE run' = NoRun
  BY <1>2 DEF Settled, Running, NoRun
<1>3. ASSUME NEW freeze \in BOOLEAN, run' = Started(Head(agenda), freeze)
      PROVE  Settled'
  BY <1>3 DEF Settled, Started
<1>4. CASE Moved(run') /\ MovedOn(run')
  <2>0. Running /\ run.at <= Len(Program(run.cmd)) /\ run'.cmd = run.cmd /\ run' # NoRun
    BY <1>4 DEF Moved, Running, NoRun
  <2>1. /\ run.cmd \in Commands /\ run.at \in 1 .. Len(Program(run.cmd)) /\ Len(Program(run.cmd)) \in Nat
    BY <2>0, ResolvedIs, ProgramsShaped
  <2> SUFFICES ASSUME run.cmd \in Pinners PROVE Settled'
    BY <2>0 DEF Settled
  <2>2. /\ Now.do = "load" <=> run.at = 1
        /\ Now.do = "bytes" <=> run.at = 2
        /\ Now.do \notin {"incumbent", "decide", "crossCheck"}
        /\ run.cmd # "isa_household" => Now.do \notin {"pensionRecord", "companions", "decideIsa"}
        /\ run.cmd = "isa_household" => /\ Now.do = "pensionRecord" <=> run.at = 3
                                        /\ Now.do = "companions" <=> run.at = 4
                                        /\ Now.do = "decideIsa" <=> run.at = 7
                                        /\ Now.do = "pin" <=> run.at = 5
    BY <2>1, PinnersSteps DEF Now
  <2>3. run'.at = run.at + 1
    BY <1>4, <2>1, PinnersOrder, ResolvedIs DEF Moved, Now, Shaped, Watches, Pinners
  <2>4. run'.at > 1 => run'.spec = config'
    BY <1>0, <1>4, <2>0, <2>1, <2>2, <2>3 DEF Moved, Settled
  <2>5. run'.at > 2 => run'.bytes = config'
    BY <1>0, <1>4, <2>0, <2>1, <2>2, <2>3 DEF Moved, Settled
  <2>6. run.cmd # "isa_household" => /\ run'.basis = None /\ run'.status = "none" /\ run'.selected = "none"
                                     /\ run'.companions = 0
    BY <1>4, <2>0, <2>2 DEF Moved, MovedOn, Settled
  <2>7. ASSUME run.cmd = "isa_household", run'.at > 3
        PROVE  /\ run'.basis \in DOMAIN records' /\ records'[run'.basis] # Torn
               /\ run'.held = Held(records'[run'.basis].incumbent)
    <3>1. /\ run'.basis \in DOMAIN records /\ records[run'.basis] # Torn
          /\ run'.held = Held(records[run'.basis].incumbent)
      <4>1. CASE run.at = 3
        BY <1>4, <2>2, <2>7, <4>1 DEF MovedOn, PensionRecords
      <4>2. CASE run.at > 3
        BY <1>4, <2>0, <2>1, <2>2, <2>7, <4>2 DEF MovedOn, Settled
      <4> QED BY <2>1, <2>3, <2>7, <4>1, <4>2
    <3>2. RecordsStay
      BY <1>a, <2>0
    <3> QED BY <3>1, <3>2 DEF RecordsStay
  <2>8. ASSUME run.cmd = "isa_household", run'.at > 7
        PROVE  /\ run'.status = outcome'.isa[<<run'.spec, run'.companions, run'.pins["prices"]>>]
               /\ run'.selected = run'.held.id
    <3>1. run'.pins = run.pins /\ run'.held = run.held /\ run'.spec = run.spec /\ run'.companions = run.companions
      BY <1>4, <2>1, <2>2, <2>3, <2>8 DEF Moved, MovedOn
    <3>2. run'.status = outcome.isa[<<run.spec, run.companions, run.pins["prices"]>>] /\ run'.selected = run.held.id
      <4>1. CASE run.at = 7
        BY <1>4, <2>2, <2>8, <4>1 DEF MovedOn
      <4>2. CASE run.at > 7
        BY <1>4, <2>0, <2>1, <2>2, <2>8, <4>2 DEF MovedOn, Settled
      <4> QED BY <2>1, <2>3, <2>8, <4>1, <4>2
    <3> QED BY <1>0, <3>1, <3>2
  <2> QED BY <2>0, <2>4, <2>5, <2>6, <2>7, <2>8 DEF Settled
<1> QED BY <1>1, <1>2, <1>3, <1>4, RunGoesOn DEF Typed

LEMMA WrittenIdentified ==
  ASSUME Typed, RunTyped, CatalogNoted, PinsNamed, Named, Settled, Write, run.cmd \in Pinners
  PROVE  IdentifiedBy(<<run.cmd, RunId(run)>>, Report(run))
<1>0. Running /\ run.at <= Len(Program(run.cmd)) /\ Now.do = "write"
  BY DEF Write, At
<1>1. /\ run.cmd \in Commands /\ run.at \in 1 .. Len(Program(run.cmd)) /\ Len(Program(run.cmd)) \in Nat
  BY <1>0, ResolvedIs, ProgramsShaped
<1>2. run.at > 8
  BY <1>0, <1>1, PinnersSteps DEF Now
<1>3. run.spec = run.bytes
  BY <1>0, <1>1, <1>2 DEF Settled
<1>4. PinsNoted(run.cmd, run.at)
  BY <1>0, <1>1, PinnersOrder DEF PinsNoted, Now
<1>5. run.noted["prices"] = run.pins["prices"]
  BY <1>0, <1>4 DEF PinsNamed, Datasets
<1>6. run.used = {<<d, run.noted[d]>> : d \in {e \in Datasets : run.noted[e] > 0}}
  <2> DEFINE key == <<run.cmd, RunId(run)>>
  <2>1. Named'
    BY WrittenNamed
  <2>2. reports' = Put(reports, key, Report(run))
    BY DEF Write
  <2>3. key \in DOMAIN reports' /\ reports'[key] = Report(run)
    BY <2>2 DEF Put
  <2>4. key[1] \in {"pension_campaign", "pension_campaign_kr", "isa_household"}
    BY DEF Pinners
  <2>5. reports'[key].used = {<<d, reports'[key].noted[d]>> : d \in {e \in Datasets : reports'[key].noted[e] > 0}}
    <3> HIDE DEF key
    <3> QED BY <2>1, <2>3, <2>4 DEF Named, PinnedRunsNameTheirData
  <2> QED BY <2>3, <2>5 DEF Report
<1>7. CASE run.cmd # "isa_household"
  <2>1. RunId(run) = <<run.bytes, run.commit, run.noted>>
    BY <1>7 DEF RunId, CampaignDigest, Pinners
  <2>2. run.basis = None /\ run.status = "none" /\ run.selected = "none" /\ run.companions = 0
    BY <1>0, <1>7 DEF Settled
  <2> QED BY <1>3, <1>6, <1>7, <2>1, <2>2 DEF Report, ReportFor, IdentifiedBy
<1>8. CASE run.cmd = "isa_household"
  <2>1. RunId(run) = <<run.bytes, run.commit, run.noted, run.basis, records[run.basis]>>
    BY <1>8 DEF RunId, HouseholdDigest
  <2>2. run.status = outcome.isa[<<run.bytes, run.companions, run.noted["prices"]>>] /\ run.selected = records[run.basis].incumbent
    BY <1>0, <1>1, <1>2, <1>3, <1>5, <1>8 DEF Settled, Held
  <2> QED BY <1>3, <1>6, <1>8, <2>1, <2>2 DEF Report, ReportFor, IdentifiedBy
<1> QED BY <1>7, <1>8

LEMMA IdentifiedKept ==
  ASSUME Typed, RunTyped, CatalogNoted, PinsNamed, Named, Settled, Identified, [Next]_vars
  PROVE  Identified'
<1>1. \A key, report : IdentifiedBy(key, report)' = IdentifiedBy(key, report)
  BY WorldStays DEF IdentifiedBy, ReportFor
<1>2. CASE reports' = reports
  BY <1>1, <1>2 DEF Identified
<1>3. CASE DiskLoss
  BY <1>3 DEF DiskLoss, Identified
<1>4. CASE Write
  <2> DEFINE written == <<run.cmd, RunId(run)>>
  <2>1. reports' = Put(reports, written, Report(run))
    BY <1>4 DEF Write
  <2>2. written[1] = run.cmd
    OBVIOUS
  <2>3. run.cmd \in Pinners => IdentifiedBy(written, Report(run))
    BY <1>4, WrittenIdentified
  <2> HIDE DEF written
  <2>4. ASSUME NEW key \in DOMAIN reports', key[1] \in Pinners
        PROVE  IdentifiedBy(key, reports'[key])
    <3>1. (key = written /\ reports'[key] = Report(run)) \/ (key \in DOMAIN reports /\ reports'[key] = reports[key])
      BY <2>1 DEF Put
    <3> QED BY <2>2, <2>3, <2>4, <3>1 DEF Identified
  <2> QED BY <1>1, <2>4 DEF Identified
<1> QED BY <1>2, <1>3, <1>4, FilesWrittenBy

SameIdentity ==
  \A key \in DOMAIN reports \intersect DOMAIN reports' :
    /\ key[1] \in {"pension_campaign", "pension_campaign_kr"} => reports'[key] = reports[key]
    /\ key[1] = "isa_household" => SameEvidence(reports[key], reports'[key])
LEMMA SameEvidenceStep ==
  ASSUME Typed, Identified, Identified', [Next]_vars
  PROVE  SameIdentity
<1> SUFFICES ASSUME NEW key \in DOMAIN reports \intersect DOMAIN reports', key[1] \in Pinners
             PROVE  /\ key[1] # "isa_household" => reports'[key] = reports[key]
                    /\ key[1] = "isa_household" => SameEvidence(reports[key], reports'[key])
  BY DEF SameIdentity, Pinners
<1>1. PICK before : before = reports[key]
  OBVIOUS
<1>2. PICK after : after = reports'[key]
  OBVIOUS
<1>3. IdentifiedBy(key, before) /\ IdentifiedBy(key, after)
  BY <1>1, <1>2, WorldStays DEF Identified, IdentifiedBy, ReportFor
<1>4. key[1] # "isa_household" => after = before
  BY <1>3 DEF IdentifiedBy
<1>5. ASSUME key[1] = "isa_household"
      PROVE  SameEvidence(before, after)
  <2>1. PICK x, y : x = before.companions /\ y = after.companions
    OBVIOUS
  <2>2. before = ReportFor(key, x) /\ after = ReportFor(key, y)
    BY <1>3, <2>1 DEF IdentifiedBy
  <2>3. PICK used, spec, commit, noted, basis, selected :
          /\ used = {<<d, key[2][3][d]>> : d \in {e \in Datasets : key[2][3][e] > 0}}
          /\ spec = key[2][1] /\ commit = key[2][2] /\ noted = key[2][3]
          /\ basis = key[2][4] /\ selected = key[2][5].incumbent
    OBVIOUS
  <2>4. PICK vx, vy : /\ vx = outcome.isa[<<key[2][1], x, key[2][3]["prices"]>>]
                      /\ vy = outcome.isa[<<key[2][1], y, key[2][3]["prices"]>>]
    OBVIOUS
  <2>5. /\ before = [spec |-> spec, companions |-> x, commit |-> commit, noted |-> noted,
                     used |-> used, basis |-> basis, status |-> vx, selected |-> selected]
        /\ after = [spec |-> spec, companions |-> y, commit |-> commit, noted |-> noted,
                    used |-> used, basis |-> basis, status |-> vy, selected |-> selected]
    BY <1>5, <2>2, <2>3, <2>4 DEF ReportFor
  <2>6. after = [before EXCEPT !.companions = y, !.status = vy]
    <3>1. PICK mid : mid = [before EXCEPT !.companions = y]
      OBVIOUS
    <3>2. mid = [spec |-> spec, companions |-> y, commit |-> commit, noted |-> noted,
                 used |-> used, basis |-> basis, status |-> vx, selected |-> selected]
      BY <2>5, <3>1
    <3>3. after = [mid EXCEPT !.status = vy]
      BY <2>5, <3>2
    <3> QED BY <3>1, <3>3
  <2>8. after.status = vy /\ before.status = vx
    BY <2>5
  <2>7. y = x => vy = vx
    BY <2>4
  <2> QED BY <2>1, <2>6, <2>7, <2>8 DEF SameEvidence
<1> QED BY <1>1, <1>2, <1>4, <1>5

-----------------------------------------------------------------------------
(* Everything that was filed is kept                                       *)

\* The discipline under which this holds: nobody edits the configuration while
\* a command runs, no ingest publishes during a push, and an operator restores
\* before monitoring and pulls onto an empty log only.
Disciplined ==
  EditsDuringRuns = FALSE /\ PublishDuringPush = FALSE /\ RestoreFirst = TRUE /\ PullsIntoExisting = FALSE

Filed ==
  /\ Evidence /\ Mirror /\ BundleTyped /\ Watching /\ LogsAuthentic
  /\ Opened /\ Survive /\ Pushed /\ Settled /\ Identified

LEMMA FiledAtFirst ==
  ASSUME BackupInit
  PROVE  Filed
<1>1. /\ run = NoRun /\ reports = <<>> /\ records = <<>> /\ log = <<>> /\ remote.log = <<>> /\ losses = 0
      /\ bundle \in FirstBundles /\ parquet = manifests /\ remote.parquet = {} /\ remote.manifests = {}
  BY DEF BackupInit, RegistryInit, Init
<1>2. ~Running /\ run.cmd \notin {"backup_push", "backup_pull"}
  BY <1>1 DEF Running, NoRun
<1>3. Typed /\ RunTyped /\ RecordsNamed
  BY TypedAtFirst
<1>4. Named /\ Identified
  BY <1>1 DEF Named, PinnedRunsNameTheirData, NotedNotBeforeUsed, Identified
<1>5. <<>> \in Seq(AuthenticOnes)
  OBVIOUS
<1>6. BundleTyped /\ LogsAuthentic
  BY <1>1, <1>5, BundlesAtFirst DEF BundleTyped, LogsAuthentic
<1>7. Mirror /\ Pushed
  BY <1>1, <1>2 DEF Mirror, MirrorServable, Pushed
<1> QED BY <1>1, <1>2, <1>3, <1>4, <1>6, <1>7
        DEF Filed, Evidence, Witnessed, CatalogNoted, PinsNamed, Watching, Opened, Survive, Settled

LEMMA EvidenceKept ==
  ASSUME Evidence, [Next]_vars
  PROVE  Evidence'
BY TypedKept, RunTypedKept, RecordsNamedKept, CatalogNotedKept, PinsNamedKept, NamedKept DEF Evidence

LEMMA FiledKept ==
  ASSUME Disciplined, Filed, [Next]_vars
  PROVE  Filed'
<1>1. Evidence' /\ Mirror'
  BY EvidenceKept, MirrorKept DEF Filed, Evidence, Disciplined
<1>2. BundleTyped' /\ Watching' /\ LogsAuthentic'
  BY BundleTypedKept, WatchingKept, LogsAuthenticKept DEF Filed, Evidence
<1>3. Opened' /\ Pushed' /\ Survive'
  BY OpenedKept, PushedKept, SurviveKept DEF Filed, Evidence, Disciplined
<1>4. Settled' /\ Identified'
  BY SettledKept, IdentifiedKept DEF Filed, Evidence, Disciplined
<1> QED BY <1>1, <1>2, <1>3, <1>4 DEF Filed

\* No record, mirrored record or observation is ever rewritten or lost, and a run
\* id never stands for other evidence, but for the verdict of a household run
\* whose unhashed companions were edited, whatever dies or tears, fails half-way,
\* is lost with the disk and restored.
THEOREM FiledIsKept ==
  Disciplined => (Spec => RecordsKept)
<1> SUFFICES ASSUME Disciplined PROVE Spec => RecordsKept
  OBVIOUS
<1>1. BackupInit => Filed
  BY FiledAtFirst
<1>2. Filed /\ [Next]_vars => Filed'
  BY FiledKept
<1> DEFINE Immutable == \A id \in DOMAIN records \intersect DOMAIN records' : records[id] # Torn => records'[id] = records[id]
           BronzeLast == losses' = losses /\ raw \ raw' # {} =>
             /\ raw \ raw' \subseteq remote'.raw
             /\ parquet \subseteq remote.parquet /\ manifests \subseteq remote.manifests
             /\ DOMAIN records \subseteq DOMAIN remote.frozen
             /\ log \in {<<>>, remote.log}
           MirrorKeeps == \A id \in DOMAIN remote.frozen : id \in DOMAIN remote'.frozen /\ remote'.frozen[id] = remote.frozen[id]
           Survives == IsPrefix(remote.log, remote'.log) /\ (losses' = losses => IsPrefix(log, log'))
<1>3. Filed /\ Filed' /\ [Next]_vars => [Immutable]_researchVars /\ [SameIdentity]_researchVars
  BY RecordsImmutableStep, SameEvidenceStep DEF Filed, Evidence
<1>4. Filed /\ [Next]_vars => [BronzeLast]_vars /\ [MirrorKeeps]_vars
  BY RawLeavesLastStep, MirrorKeepsRecordsStep DEF Filed, Evidence
<1>5. Filed /\ [Next]_vars => [Survives]_vars
  BY SurviveKept DEF Filed, Evidence, Disciplined
<1> QED
  BY <1>1, <1>2, <1>3, <1>4, <1>5, PTL
  DEF Spec, RecordsKept, RecordsFinal, NothingLost, RecordsImmutable, SameIdSameEvidence, RawLeavesLast,
      MirrorKeepsRecords, ObservationsSurvive, SameIdentity

-----------------------------------------------------------------------------
(* The chain of frozen records                                             *)

\* With no disk lost, the mirror has some of the disk's records.
Mirrored ==
  /\ losses = 0
  /\ \A id \in DOMAIN remote.frozen : id \in DOMAIN records /\ remote.frozen[id] = records[id]
IdsShaped == \A id \in DOMAIN records : DOMAIN id = {"cmd", "bytes"}

\* A record about to be filled is of a verdict, and not yet on the mirror.
FillReady ==
  Running /\ run.at <= Len(Program(run.cmd)) /\ Now.do = "fill" =>
    run.status # "NO_DECISION" /\ RecordId(run) \notin DOMAIN remote.frozen

\* What a pension decision holds, and when it may keep it.
Deciding ==
  Running /\ run.cmd = "pension_decision" =>
    /\ run.basis = None \/ (run.basis \in DOMAIN records /\ records[run.basis] # Torn)
    /\ run.held = None \/ (/\ run.basis \in DOMAIN records /\ records[run.basis] # Torn
                           /\ run.held = Held(records[run.basis].incumbent))
    /\ run.at > 6 /\ run.status = "KEEP_INCUMBENT" => run.held # None /\ run.selected = run.held.id

\* A complete record follows a complete one, and says what its run found.
Follows(r) ==
  r.previous # None => r.previous \in DOMAIN records /\ records[r.previous] # Torn
Supported(r) ==
  /\ r.previous # None /\ records[r.previous].incumbent = r.incumbent
  /\ r.status = outcome.isa[<<r.run[1], r.read, r.run[3]["prices"]>>] /\ r.status # "NO_DECISION"
  /\ r.commit = r.run[2] /\ r.incumbent = r.run[5].incumbent
Kept(r) ==
  r.status = "KEEP_INCUMBENT" => r.previous # None /\ records[r.previous].incumbent = r.incumbent
Linked(id) ==
  /\ Follows(records[id])
  /\ id.cmd = "isa_household" => Supported(records[id])
  /\ id.cmd = "pension_decision" => Kept(records[id])
Chained == \A id \in DOMAIN records : records[id] # Torn => Linked(id)

LEMMA DecisionSteps ==
  ASSUME NEW i \in 1 .. Len(Program("pension_decision"))
  PROVE  LET step == Program("pension_decision")[i]
         IN  /\ step.do = "incumbent" <=> i = 3
             /\ step.do = "decide" <=> i = 6
             /\ step.do = "crossCheck" => i > 6
             /\ step.do \notin {"pensionRecord", "decideIsa", "observe"}
             /\ step.do = "runs" => i = 8
<1>1. i \in 1 .. 13
  BY DecisionText
<1>2. i \in {1, 2, 3, 4, 5, 6, 7, 8, 9, 10, 11, 12, 13}
  BY <1>1
<1> QED BY <1>2, DecisionText, SMTT(30) DEF Do, Use

LEMMA NoLoss ==
  ASSUME Mirrored, [Next]_vars, MaxLosses = 0
  PROVE  ~DiskLoss /\ losses' = 0
BY LossesMove DEF Mirrored, DiskLoss

LEMMA HeldIsSomething ==
  ASSUME NEW x
  PROVE  Held(x) # None /\ Held(x).id = x
BY DEF Held, None

LEMMA DecidingKept ==
  ASSUME Typed, Opened, Deciding, [Next]_vars
  PROVE  Deciding'
<1>a. run' = NoRun \/ RecordsStay
  BY RecordsStayOrGo DEF DiskLoss
<1>1. CASE run' = run /\ run' # NoRun
  BY <1>a, <1>1 DEF Deciding, Running, RecordsStay
<1>2. CASE run' = NoRun
  BY <1>2 DEF Deciding, Running, NoRun
<1>3. ASSUME NEW freeze \in BOOLEAN, run' = Started(Head(agenda), freeze)
      PROVE  Deciding'
  BY <1>3 DEF Deciding, Started
<1>4. CASE Moved(run') /\ MovedOn(run')
  <2>0. Running /\ run.at <= Len(Program(run.cmd)) /\ run'.cmd = run.cmd /\ run' # NoRun
    BY <1>4 DEF Moved, Running, NoRun
  <2>1. /\ run.cmd \in Commands /\ run.at \in 1 .. Len(Program(run.cmd)) /\ Len(Program(run.cmd)) \in Nat
    BY <2>0, ResolvedIs, ProgramsShaped
  <2> SUFFICES ASSUME run.cmd = "pension_decision" PROVE Deciding'
    BY <2>0 DEF Deciding
  <2>2. /\ Now.do = "incumbent" <=> run.at = 3
        /\ Now.do = "decide" <=> run.at = 6
        /\ Now.do = "crossCheck" => run.at > 6
        /\ Now.do \notin {"pensionRecord", "decideIsa", "observe"}
        /\ Now.do = "runs" => run.at = 8
    BY <2>1, DecisionSteps DEF Now
  <2>3. RecordsStay
    BY <1>a, <2>0
  <2>4. /\ run'.basis = None \/ (run'.basis \in DOMAIN records /\ records[run'.basis] # Torn)
        /\ run'.held = None \/ (/\ run'.basis \in DOMAIN records /\ records[run'.basis] # Torn
                                /\ run'.held = Held(records[run'.basis].incumbent))
    <3>1. CASE Now.do = "incumbent"
      BY <1>4, <2>0, <3>1 DEF MovedOn, PensionRecords, Deciding
    <3>2. CASE Now.do # "incumbent"
      BY <1>4, <2>0, <2>2, <3>2 DEF MovedOn, Deciding
    <3> QED BY <3>1, <3>2
  <2>5. /\ run'.basis = None \/ (run'.basis \in DOMAIN records' /\ records'[run'.basis] # Torn)
        /\ run'.held = None \/ (/\ run'.basis \in DOMAIN records' /\ records'[run'.basis] # Torn
                                /\ run'.held = Held(records'[run'.basis].incumbent))
    BY <2>3, <2>4 DEF RecordsStay
  <2>6. ASSUME run'.at > 6, run'.status = "KEEP_INCUMBENT"
        PROVE  run'.held # None /\ run'.selected = run'.held.id
    <3>0. run.at > 5 /\ run'.held = run.held
      BY <1>4, <2>1, <2>2, <2>6 DEF Moved, MovedOn
    <3>1. CASE Now.do = "decide"
      BY <1>4, <2>6, <3>0, <3>1 DEF MovedOn, Verdict
    <3>2. CASE Now.do = "crossCheck"
      BY <1>4, <2>0, <2>2, <2>6, <3>0, <3>2 DEF MovedOn, Deciding
    <3>3. CASE Now.do \notin {"decide", "crossCheck"}
      <4>1. run.at > 6
        BY <2>1, <2>2, <3>0, <3>3
      <4> QED BY <1>4, <2>0, <2>2, <2>6, <3>0, <3>3, <4>1 DEF MovedOn, Deciding
    <3> QED BY <3>1, <3>2, <3>3
  <2> QED BY <2>0, <2>5, <2>6 DEF Deciding
<1> QED BY <1>1, <1>2, <1>3, <1>4, RunGoesOn DEF Typed

LEMMA FillReadyKept ==
  ASSUME Typed, Opened, Mirrored, FillReady, [Next]_vars
  PROVE  FillReady'
<1>1. CASE run' = run
  <2> SUFFICES ASSUME Running, run.at <= Len(Program(run.cmd)), Now.do = "fill"
               PROVE  run.status # "NO_DECISION" /\ RecordId(run) \notin DOMAIN remote'.frozen
    BY <1>1 DEF FillReady, Running, Now, Program, RecordId
  <2>1. remote' = remote
    BY FilesWrittenBy DEF PushNormalized, PushManifests, PushFrozen, PushRegistry, MoveRaw, At
  <2> QED BY <2>1 DEF FillReady
<1>2. CASE run' = NoRun
  BY <1>2 DEF FillReady, Running, NoRun
<1>3. ASSUME agenda # <<>>, NEW freeze \in BOOLEAN, run' = Started(Head(agenda), freeze)
      PROVE  FillReady'
  <2>1. Head(agenda) \in Commands /\ run'.cmd = Head(agenda) /\ run'.at = 1
    BY <1>3 DEF Typed, Started
  <2>2. 1 <= Len(Program(run'.cmd)) => Program(run'.cmd)[1].do # "fill"
    BY <2>1, ProgramsShaped DEF Shaped
  <2> QED BY <2>1, <2>2 DEF FillReady, Now, Program
<1>4. CASE Moved(run') /\ MovedOn(run')
  <2>0. Running /\ run.at <= Len(Program(run.cmd)) /\ run'.cmd = run.cmd /\ run' # NoRun
    BY <1>4 DEF Moved, Running, NoRun
  <2>1. run.cmd \in Commands /\ run.at \in 1 .. Len(Program(run.cmd)) /\ Len(Program(run.cmd)) \in Nat
    BY <2>0, ResolvedIs, ProgramsShaped
  <2> SUFFICES ASSUME run'.at <= Len(Program(run.cmd)), Program(run.cmd)[run'.at].do = "fill"
               PROVE  run'.status # "NO_DECISION" /\ RecordId(run') \notin DOMAIN remote'.frozen
    BY <2>0 DEF FillReady, Now, Program, RecordId
  <2>2. run'.at = run.at + 1
    BY <1>4 DEF Moved, Now
  <2>3. run.at + 1 \in 1 .. Len(Program(run.cmd)) /\ run.at + 1 - 1 = run.at
    BY <2>1, <2>2
  <2>4. Now.do = "freeze"
    BY <2>1, <2>2, <2>3, ProgramsShaped DEF Shaped, Now
  <2>5. run' # run
    BY <2>1, <2>2
  <2>6. OpenRecord
    BY <2>0, <2>4, <2>5, FreezeOpens DEF At
  <2>7. RecordId(run') = RecordId(run) /\ run'.status = run.status
    BY <1>4, <2>4 DEF RecordId, Moved, MovedOn
  <2>8. run.status # "NO_DECISION" /\ RecordId(run) \notin DOMAIN records
    BY <2>6 DEF OpenRecord, Freezable
  <2>9. remote' = remote
    BY <2>4, FilesWrittenBy DEF PushNormalized, PushManifests, PushFrozen, PushRegistry, MoveRaw, At
  <2> QED BY <2>7, <2>8, <2>9 DEF Mirrored
<1> QED BY <1>1, <1>2, <1>3, <1>4, RunGoesOn DEF Typed

LEMMA MirroredKept ==
  ASSUME Typed, Opened, Mirrored, FillReady, IdsShaped, [Next]_vars, MaxLosses = 0
  PROVE  Mirrored' /\ IdsShaped'
<1>0. ~DiskLoss /\ losses' = 0
  BY NoLoss
<1>1. CASE OpenRecord
  <2>1. records' = Put(records, RecordId(run), Torn) /\ RecordId(run) \notin DOMAIN records
    BY <1>1 DEF OpenRecord
  <2>2. remote' = remote
    BY <1>1, FilesWrittenBy DEF OpenRecord, PushNormalized, PushManifests, PushFrozen, PushRegistry, MoveRaw, At
  <2>3. DOMAIN RecordId(run) = {"cmd", "bytes"}
    BY DEF RecordId
  <2> QED BY <1>0, <2>1, <2>2, <2>3 DEF Put, Mirrored, IdsShaped
<1>2. CASE FillRecord
  <2>1. records' = [records EXCEPT ![RecordId(run)] = RecordOf(run)]
    BY <1>2 DEF FillRecord
  <2>2. remote' = remote
    BY <1>2, FilesWrittenBy DEF FillRecord, PushNormalized, PushManifests, PushFrozen, PushRegistry, MoveRaw, At
  <2>3. RecordId(run) \notin DOMAIN remote.frozen
    BY <1>2 DEF FillRecord, At, FillReady
  <2> QED BY <1>0, <2>1, <2>2, <2>3 DEF Mirrored, IdsShaped
<1>3. CASE PullFrozen
  <2>1. remote' = remote
    BY <1>3 DEF PullFrozen, backupVars
  <2>2. DOMAIN records' = DOMAIN records /\ \A id \in DOMAIN records : records'[id] = records[id]
    BY <1>3, FrozenCopies DEF PartOf, CopyFrozen, Mirrored
  <2> QED BY <1>0, <2>1, <2>2 DEF Mirrored, IdsShaped
<1>4. CASE records' = records
  <2>1. remote'.frozen = remote.frozen \/ PushFrozen
    BY FilesWrittenBy DEF Typed, PushNormalized, PushManifests, PushRegistry, MoveRaw
  <2>2. ASSUME NEW id \in DOMAIN remote'.frozen
        PROVE  id \in DOMAIN records /\ remote'.frozen[id] = records[id]
    BY <2>1, FrozenCopies DEF PartOf, CopyFrozen, Mirrored
  <2> QED BY <1>0, <1>4, <2>2 DEF Mirrored, IdsShaped
<1> QED BY <1>0, <1>1, <1>2, <1>3, <1>4, FilesWrittenBy

\* What follows a record still does when records only come.
LEMMA LinkedKept ==
  ASSUME NEW id \in DOMAIN records, records[id] # Torn, Linked(id), RecordsStay, outcome' = outcome
  PROVE  Linked(id)'
<1>1. records'[id] = records[id]
  BY DEF RecordsStay
<1>2. Follows(records[id])'
  BY <1>1 DEF Linked, Follows, RecordsStay
<1>3. ASSUME records[id].previous # None
      PROVE  records'[records[id].previous] = records[records[id].previous]
  BY <1>3 DEF Linked, Follows, RecordsStay
<1>4. id.cmd = "isa_household" => Supported(records[id])'
  BY <1>1, <1>3 DEF Linked, Supported
<1>5. id.cmd = "pension_decision" => Kept(records[id])'
  BY <1>1, <1>3 DEF Linked, Kept
<1> QED BY <1>2, <1>4, <1>5 DEF Linked

\* Whoever fills a record is one of two commands, almost done.
LEMMA FillersAre ==
  ASSUME Typed, At("fill")
  PROVE  \/ run.cmd = "pension_decision" /\ run.at = 13
         \/ run.cmd = "isa_household" /\ run.at = 12
BY ResolvedIs, ProgramsShaped DEF At, Now, Shaped

\* The basis of a record to be filled is another one, complete.
LEMMA BasisIsOther ==
  ASSUME Typed, RecordsNamed, Opened, IdsShaped, At("fill"), run.basis \in DOMAIN records, records[run.basis] # Torn
  PROVE  run.basis # None /\ run.basis # RecordId(run) /\ records[run.basis].id = run.basis
<1>1. DOMAIN run.basis = {"cmd", "bytes"} /\ DOMAIN None = {"kind"}
  BY DEF IdsShaped, None
<1>2. records[RecordId(run)] = Torn
  BY DEF Opened, At
<1> QED BY <1>1, <1>2 DEF RecordsNamed

LEMMA FilledLinked ==
  ASSUME Typed, RunTyped, RecordsNamed, PinsNamed, Settled, Opened, FillReady, Deciding, IdsShaped, FillRecord,
         NEW id, id = RecordId(run)
  PROVE  Linked(id)'
<1>a. PICK record : record = RecordOf(run)
  OBVIOUS
<1>0. At("fill") /\ records' = [records EXCEPT ![id] = record] /\ id \in DOMAIN records /\ outcome' = outcome
  BY <1>a DEF FillRecord, At, Opened, world
<1>1. Running /\ run.at <= Len(Program(run.cmd)) /\ Now.do = "fill"
  BY <1>0 DEF At
<1>2. records'[id] = record
  BY <1>0
<1>3. /\ record.previous = IF run.basis = None THEN None ELSE records[run.basis].id
      /\ record.incumbent = run.selected /\ record.status = run.status
  BY <1>a DEF RecordOf
<1>4. id.cmd = run.cmd
  BY DEF RecordId
<1>5. run.status # "NO_DECISION"
  BY <1>1 DEF FillReady
<1>6. ASSUME run.basis \in DOMAIN records, records[run.basis] # Torn
      PROVE  /\ record.previous = run.basis /\ run.basis # None
             /\ run.basis \in DOMAIN records' /\ records'[run.basis] = records[run.basis]
  BY <1>0, <1>6, BasisIsOther, <1>3
<1>7. CASE run.cmd = "pension_decision" /\ run.at = 13
  <2>1. /\ run.basis = None \/ (run.basis \in DOMAIN records /\ records[run.basis] # Torn)
        /\ run.held = None \/ (/\ run.basis \in DOMAIN records /\ records[run.basis] # Torn
                               /\ run.held = Held(records[run.basis].incumbent))
        /\ run.status = "KEEP_INCUMBENT" => run.held # None /\ run.selected = run.held.id
    BY <1>1, <1>7 DEF Deciding
  <2>2. record.previous # None => record.previous \in DOMAIN records' /\ records'[record.previous] # Torn
    BY <1>3, <1>6, <2>1
  <2>3. ASSUME record.status = "KEEP_INCUMBENT"
        PROVE  record.previous # None /\ records'[record.previous].incumbent = record.incumbent
    BY <1>3, <2>1, <2>3, HeldIsSomething, <1>6
  <2>4. Follows(records[id])'
    BY <1>2, <2>2 DEF Follows
  <2>5. Kept(records[id])'
    BY <1>2, <2>3 DEF Kept
  <2> QED BY <1>4, <1>7, <2>4, <2>5 DEF Linked
<1>8. CASE run.cmd = "isa_household" /\ run.at = 12
  <2>1. /\ run.basis \in DOMAIN records /\ records[run.basis] # Torn
        /\ run.held = Held(records[run.basis].incumbent)
        /\ run.status = outcome.isa[<<run.spec, run.companions, run.pins["prices"]>>] /\ run.selected = run.held.id
        /\ run.spec = run.bytes
    BY <1>1, <1>8 DEF Settled, Pinners
  <2>2. record.incumbent = records[run.basis].incumbent
    BY <1>3, <2>1, HeldIsSomething
  <2>3. run.noted["prices"] = run.pins["prices"]
    <3>1. Program(run.cmd)[8].do = "notePins" /\ 8 \in 1 .. Len(Program(run.cmd))
      BY <1>8, HouseholdText DEF Use
    <3>2. PinsNoted(run.cmd, run.at)
      BY <1>8, <3>1 DEF PinsNoted
    <3> QED BY <1>1, <1>8, <3>2 DEF PinsNamed, Pinners, Datasets
  <2>4. /\ record.run = <<run.bytes, run.commit, run.noted, run.basis, records[run.basis]>>
        /\ record.read = run.companions /\ record.commit = run.commit
    BY <1>a, <1>8 DEF RecordOf, RunId, HouseholdDigest
  <2>5. /\ record.run[1] = run.bytes /\ record.run[2] = run.commit /\ record.run[3] = run.noted
        /\ record.run[5] = records[run.basis]
    BY <2>4
  <2>6. Follows(records[id])'
    BY <1>2, <1>6, <2>1 DEF Follows
  <2>7. Supported(records[id])'
    BY <1>0, <1>2, <1>3, <1>5, <1>6, <2>1, <2>2, <2>3, <2>4, <2>5 DEF Supported
  <2> QED BY <1>4, <1>8, <2>6, <2>7 DEF Linked
<1> QED BY <1>0, <1>7, <1>8, FillersAre

LEMMA ChainedKept ==
  ASSUME Typed, RunTyped, RecordsNamed, PinsNamed, Settled, Opened, FillReady, Deciding, Mirrored, IdsShaped, Chained,
         [Next]_vars, MaxLosses = 0
  PROVE  Chained'
<1>0. outcome' = outcome /\ RecordsStay
  BY NoLoss, RecordsStayOrGo, WorldStays
<1>1. ASSUME NEW id \in DOMAIN records, records[id] # Torn
      PROVE  Linked(id)'
  BY <1>0, <1>1, LinkedKept DEF Chained
<1>2. CASE records' = records
  BY <1>1, <1>2 DEF Chained
<1>3. CASE OpenRecord
  <2>1. records' = Put(records, RecordId(run), Torn)
    BY <1>3 DEF OpenRecord
  <2>2. ASSUME NEW id \in DOMAIN records', records'[id] # Torn
        PROVE  id \in DOMAIN records /\ records[id] # Torn
    BY <2>1, <2>2 DEF Put
  <2> QED BY <1>1, <2>2 DEF Chained
<1>4. CASE FillRecord
  <2>1. records' = [records EXCEPT ![RecordId(run)] = RecordOf(run)]
    BY <1>4 DEF FillRecord
  <2>2. ASSUME NEW id \in DOMAIN records', records'[id] # Torn
        PROVE  id = RecordId(run) \/ (id \in DOMAIN records /\ records[id] # Torn)
    BY <2>1, <2>2
  <2>3. ASSUME NEW id \in DOMAIN records', records'[id] # Torn
        PROVE  Linked(id)'
    BY <1>1, <1>4, <2>2, <2>3, FilledLinked
  <2> QED BY <2>3 DEF Chained
<1>5. CASE PullFrozen
  <2>1. DOMAIN records' = DOMAIN records /\ \A id \in DOMAIN records : records'[id] = records[id]
    BY <1>5, FrozenCopies DEF PartOf, CopyFrozen, Mirrored
  <2> QED BY <1>1, <2>1 DEF Chained
<1> QED BY <1>2, <1>3, <1>4, <1>5, NoLoss, FilesWrittenBy

\* A chain whose reports are what their ids say is the one the records claim.
LEMMA ChainIsSound ==
  ASSUME Chained, Identified, IdsShaped
  PROVE  RecordsChain
<1>1. RecordBackedByRun
  <2> SUFFICES ASSUME NEW id \in DOMAIN records, id.cmd = "isa_household", records[id] # Torn
               PROVE  LET record == records[id]
                          key == <<"isa_household", record.run>>
                      IN /\ record.status # "NO_DECISION"
                         /\ key \in DOMAIN reports =>
                              /\ reports[key].commit = record.commit /\ reports[key].selected = record.incumbent
                              /\ reports[key].companions = record.read => reports[key].status = record.status
                         /\ record.previous \in DOMAIN records =>
                              records[record.previous] # Torn /\ records[record.previous].incumbent = record.incumbent
    BY DEF RecordBackedByRun
  <2> DEFINE record == records[id]
             key == <<"isa_household", record.run>>
  <2>1. Follows(record) /\ Supported(record)
    BY DEF Chained, Linked
  <2>2. record.previous # None /\ records[record.previous] # Torn /\ records[record.previous].incumbent = record.incumbent
    BY <2>1 DEF Follows, Supported
  <2>3. key[1] = "isa_household" /\ key[2] = record.run
    OBVIOUS
  <2>4. ASSUME key \in DOMAIN reports
        PROVE  /\ reports[key].commit = record.commit /\ reports[key].selected = record.incumbent
               /\ reports[key].companions = record.read => reports[key].status = record.status
    <3> HIDE DEF key, record
    <3>1. PICK report : report = reports[key]
      OBVIOUS
    <3>2. report = ReportFor(key, report.companions)
      BY <2>3, <2>4, <3>1 DEF Identified, IdentifiedBy, Pinners
    <3>3. /\ report.commit = record.run[2] /\ report.selected = record.run[5].incumbent
          /\ report.status = outcome.isa[<<record.run[1], report.companions, record.run[3]["prices"]>>]
      BY <2>3, <3>2 DEF ReportFor
    <3> QED BY <2>1, <3>1, <3>3 DEF Supported
  <2> QED BY <2>1, <2>2, <2>4 DEF Supported
<1>2. ChainSound
  <2> SUFFICES ASSUME NEW id \in DOMAIN records, id.cmd = "pension_decision", records[id] # Torn
               PROVE  /\ records[id].status = "KEEP_INCUMBENT" => records[id].previous # None
                      /\ records[id].previous \in DOMAIN records =>
                           LET before == records[records[id].previous]
                           IN before # Torn /\ (records[id].status = "KEEP_INCUMBENT" => before.incumbent = records[id].incumbent)
    BY DEF ChainSound
  <2>1. Follows(records[id]) /\ Kept(records[id])
    BY DEF Chained, Linked
  <2>2. None \notin DOMAIN records
    BY DEF IdsShaped, None
  <2> QED BY <2>1, <2>2 DEF Follows, Kept
<1> QED BY <1>1, <1>2 DEF RecordsChain

Traced ==
  /\ Evidence /\ BundleTyped /\ Watching /\ LogsAuthentic /\ Opened /\ Settled /\ Identified
  /\ Mirrored /\ IdsShaped /\ FillReady /\ Deciding /\ Chained

\* Every record a command filed can be traced to the run, the earlier decision and
\* the sealed plan it rests on, when nobody edits the configuration while a
\* command runs and the disk is not lost.  (After a loss a decision can be frozen
\* anew, with another incumbent, under the configuration of a household policy
\* that a later pull restores: see the README.)
THEOREM RecordsAreSound ==
  EditsDuringRuns = FALSE /\ MaxLosses = 0 => (Spec => []RecordsSound)
<1> SUFFICES ASSUME EditsDuringRuns = FALSE, MaxLosses = 0 PROVE Spec => []RecordsSound
  OBVIOUS
<1>1. BackupInit => Traced
  <2> SUFFICES ASSUME BackupInit PROVE Traced
    OBVIOUS
  <2>1. /\ run = NoRun /\ reports = <<>> /\ records = <<>> /\ log = <<>> /\ remote.log = <<>> /\ losses = 0
        /\ bundle \in FirstBundles /\ remote.frozen = <<>>
    BY DEF BackupInit, RegistryInit, Init
  <2>2. ~Running
    BY <2>1 DEF Running, NoRun
  <2>3. Typed /\ RunTyped /\ RecordsNamed
    BY TypedAtFirst
  <2>4. Named /\ Identified
    BY <2>1 DEF Named, PinnedRunsNameTheirData, NotedNotBeforeUsed, Identified
  <2>5. <<>> \in Seq(AuthenticOnes)
    OBVIOUS
  <2>6. BundleTyped /\ LogsAuthentic
    BY <2>1, <2>5, BundlesAtFirst DEF BundleTyped, LogsAuthentic
  <2>7. Mirrored /\ IdsShaped /\ Chained
    BY <2>1 DEF Mirrored, IdsShaped, Chained
  <2> QED BY <2>2, <2>3, <2>4, <2>6, <2>7
          DEF Traced, Evidence, Witnessed, CatalogNoted, PinsNamed, Watching, Opened, Settled, FillReady, Deciding
<1>2. Traced /\ [Next]_vars => Traced'
  <2> SUFFICES ASSUME Traced, [Next]_vars PROVE Traced'
    OBVIOUS
  <2>1. Evidence' /\ BundleTyped' /\ Watching' /\ LogsAuthentic'
    BY EvidenceKept, BundleTypedKept, WatchingKept, LogsAuthenticKept DEF Traced, Evidence
  <2>2. Opened' /\ Settled' /\ Identified'
    BY OpenedKept, SettledKept, IdentifiedKept DEF Traced, Evidence
  <2>3. Mirrored' /\ IdsShaped' /\ FillReady' /\ Deciding'
    BY MirroredKept, FillReadyKept, DecidingKept DEF Traced, Evidence
  <2>4. Chained'
    BY ChainedKept DEF Traced, Evidence
  <2> QED BY <2>1, <2>2, <2>3, <2>4 DEF Traced
<1>3. Traced => RecordsSound
  <2> SUFFICES ASSUME Traced PROVE RecordsSound
    OBVIOUS
  <2>1. RecordsChain
    BY ChainIsSound DEF Traced
  <2>2. \A n \in DOMAIN log : log[n] \in AuthenticOnes
    BY DEF Traced, LogsAuthentic
  <2> QED BY <2>1, <2>2 DEF RecordsSound, ObservationsAuthentic, AuthenticOnes, Authentic
<1> QED BY <1>1, <1>2, <1>3, PTL DEF Spec
=============================================================================
