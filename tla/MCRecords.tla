----------------------------- MODULE MCRecords -----------------------------
(* Instance of the research commands with the registry and the backup: what   *)
(* an operator sets out to do, one kind of work at a time.                    *)
EXTENDS Backup

Everything == {"prices", "fx", "fx_krw_base", "cpi", "rates", "kr_etf_prices", "research_monthly", "research_returns"}
ForDecisions == {"prices", "fx_krw_base", "research_monthly"}
Kept == [selection |-> "benchmark", equals |-> {"benchmark"}]
Rival == [selection |-> "rival", equals |-> {"rival"}]
Third == [selection |-> "third", equals |-> {"rival", "third"}]
\* What the household evidence says: by vintage under the first configuration and
\* companions, one thing under later companions and another configuration's own.
IsaSays(byVintage, otherwise) ==
  [<<spec, read, vintage>> \in (1 .. 2) \X (1 .. 2) \X (1 .. 2) |->
     IF spec = 2 THEN "ADOPT_ARM" ELSE IF read = 2 THEN otherwise ELSE byVintage[vintage]]
RivalLater == [decision |-> <<Kept, Rival>>, isa |-> IsaSays(<<"ADOPT_ARM", "NO_DECISION">>, "KEEP_BASELINE")]
RivalFirst == [decision |-> <<Rival, Third>>, isa |-> IsaSays(<<"KEEP_BASELINE", "ADOPT_ARM">>, "NO_DECISION")]

OneReport == {"ablation", "walk_forward", "walk_forward_costs", "walk_forward_proxy",
  "cadence_robustness", "accumulation_cohort", "strategy_selection", "final_historical",
  "after_tax_campaign", "pension_selection"}
Reporting == {<<c>> : c \in OneReport} \union
  {<<"pension_campaign", "pension_campaign">>, <<"pension_campaign_kr", "pension_campaign_kr">>}
Deciding == {<<"pension_decision", "pension_decision", "pension_review">>,
  <<"pension_decision", "isa_household", "isa_household">>}
Saving == <<"pension_decision", "backup_push", "backup_pull", "pension_decision", "backup_push">>
Watching == <<"prospective_monitor", "backup_push", "backup_pull", "prospective_monitor", "backup_push">>

From(agendas, catalogs, versions, outcomes) ==
  [agenda: agendas, data: catalogs, version: versions, outcome: outcomes]
Days ==
  From(Reporting, {Everything, Everything \ {"fx"}}, {1}, {RivalLater}) \union
  From(Deciding, {ForDecisions}, {1}, {RivalLater, RivalFirst}) \union
  From({Saving}, {ForDecisions}, {MaxVersions}, {RivalFirst}) \union
  From({Watching}, {Everything}, {1}, {RivalFirst})
Moving == {"prices", "research_returns"}
OnlyPayload == <<1, 1>>

SomeTargets == {"qqq", "qqq_soxx"}
ThreeDays == 1 .. 3
Open == [start |-> 2, arms |-> <<"qqq", "qqq_soxx">>, seals |-> << <<>>, <<>> >>, hash |-> <<>>,
         commit |-> 0, migration |-> FALSE, approved |-> {}]
Sealed == [Open EXCEPT !.seals = << <<"full", 1, "qqq", 2>>, <<"legacy", "qqq_soxx">> >>,
  !.hash = [start |-> 2, arms |-> <<"qqq", "qqq_soxx">>], !.commit = 1, !.migration = TRUE, !.approved = {2}]
SomeBundles == {Open, Sealed}
=============================================================================
