# TLA+ models and proofs of ETF-Manager

ETF-Manager is a batch research tool, written in Python, for a Korean investor
who buys ETFs every month in three accounts: a general brokerage account, a
pension savings account and an ISA. It ingests market data into a local store,
simulates allocation rules with the tax law of each account, and freezes
decisions that survive its validation gates. Nothing runs as a service: the
concurrency is that of operating-system processes sharing one data directory,
and the difficulty of the rest is in long sequences of money movements and of
research commands whose order matters.

This directory holds TLA+ modules translated from that code, the TLC runs that
check them on small instances, and TLAPS proofs for any instance. All source
paths below are relative to the repository root.

    tlc -workers 2 -config store_concurrent.cfg SilverStore       # one run
    tlapm SilverProofs.tla                                        # the proofs
    tlapm ResultStoreProofs.tla
    tlapm RecordsProofs.tla
    tlapm SimulatorsProofs.tla
    tlapm VerdictsProofs.tla
    tlapm PensionProofs.tla
    tlapm AfterTaxProofs.tla
    tlapm RecursionTheorems.tla

`PROJECT.json` lists the components, the runs, the mutants that show every
property can fail, the lines of code behind every definition, the findings, the
hazards and the theorems. The definitions stand for about a third of the
implementation's lines; section 6 says what the rest is.

## 1. The system

### Components

| Component | Code | State it keeps | Operations |
| --- | --- | --- | --- |
| Silver store and ingest | `src/data/storage.py`, `merge.py`, `pipeline.py`, `ingest_guard.py`, `fetch.py` | Bronze payloads, Parquet files and lineage manifests, all content addressed and create-only | load the prior partition, fetch, archive the payload, merge, guard, publish Parquet then manifest |
| Catalog and views | `src/data/catalog.py`, `query.py`, `pit.py` | an in-process frame cache keyed by file identity; a snapshot of pinned manifests | choose the newest manifest, read and verify, pin a snapshot, read as of an instant |
| Retention | `src/data/retention.py` | none beyond the files | plan (newest and pinned partitions stay), apply file by file |
| Doctor and recovery | `src/data/doctor.py`, `merge.py`, `src/cli_commands/maintenance.py` | none beyond the files | inspect, restore Bronze, rebuild Silver, recover history, then retention |
| Provider HTTP layer | `src/data/providers/` | last request time and daily count | pace, request, retry |
| Other ingests | `nport_ingest.py`, `thesis_fundamentals.py`, `macro_backfill.py`, `panel_freshness.py` | through the store | multi-dataset commands, vintage chunks, backfill, freshness gate |
| Result store | `src/data/result_store.py`, `result_maintenance.py` | artifacts, sidecars, a run ledger of JSON lines, curated evidence | write a result, list, prune, promote, migrate |
| Backup | `tools/devops/backup.py` | a remote mirror | push zones, move raw, pull |
| General-account ledger | `src/sim/after_tax_engine.py`, `tax.py`, `after_tax_market.py` | earmarks in USD, cash in KRW, lot book, gains per year, unpaid taxes | one step per monthly session |
| Tax lots | `src/sim/tax_lots.py` | FIFO lots per ticker | buy, sell, split, harvestable quantity |
| Buy-only allocation | `src/sim/allocation.py`, `contribution.py`, `liquidity.py`, `src/policy`, preflight `feasibility.py` | KRW and USD cash, reserve, shares, snapshots | one step per decision session; preflight; paper replay |
| Pension ledger | `src/sim/pension_engine.py`, `pension_monthly.py`, `pension_household.py` | units, contributions, credits, receivables, payouts; monthly return panels | plan contributions, trade, pay pensions; build, splice and compound panels |
| ISA and household | `src/sim/isa_tax.py`, `isa_household.py`, `pension_tax.py`, `tax.py` | balances and tax bases of three accounts, the open ISA, a refund schedule | load the law files; close and reopen, book credits, contribute, grow a month, value |
| Research proxy | `src/sim/research_proxy.py`, audits of `final_campaign` | an index and its units | history audit, mix audit |
| Decisions | `src/validation/pension_decision*.py`, `isa_household_*.py`, `holding_review.py` | write-once frozen records | load a plan, score its cells, decide, freeze, review |
| Prospective registry | `src/validation/prospective*.py` | a sealed bundle, an append-only observation log | seal, verify, observe, append |
| Gates and selection | `src/validation/gate.py`, `walk_forward*.py`, `windows.py`, `strategy_selection.py`, ... | none | folds, train and process gates, recommendation |
| Campaigns | `historical_campaign.py`, `pension_campaign.py`, `after_tax_campaign.py`, `src/analytics/pension_selection.py` | caches of baseline runs | cohorts, paired ratios, stress, regimes, gates |
| Thesis research | `src/analytics/thesis/`, `src/cli_commands/thesis.py`, `src/validation/prospective.py` | reports, a wave, an exit page and its ledger row | gate, report, incremental portfolio, exit assessment |
| Parameter screen | `src/analytics/adaptive_hp_screen.py` | none | grid and climb on a pool of threads |
| Policies and rules | `src/policy`, `src/features` | none | numeric signals, weights, after-tax weight rules |
| Paper execution | `src/execution/` | paper positions | replay and reconcile orders |
| Command line | `src/cli.py`, `src/cli_commands/` | none | the order in which a command loads, pins, reads, writes and freezes |

### How they interact

The layers only look down: commands call validation, validation calls the
simulators, the simulators read views pinned by `CatalogSnapshot`, and only the
data layer writes the data directory. Within that directory the components meet
through files alone. There is no lock, no transaction and no journal: an ingest
run reads the newest manifest, spends minutes in the network, and publishes;
a maintenance command plans from a listing and later unlinks what it planned; an
analysis pins a partition and records the manifest hashes it consumed, and those
recorded hashes are what retention must respect (`src/data/retention.py`,
`collect_manifest_pins`). A research command resolves the catalog once or several
times, notes a manifest hash, writes a report and perhaps a frozen record, while
an ingest may publish between any two of these. The simulators are sequential and
talk to each other through return values.

### What is hard, and what makes each part correct

* **Store.** Several processes publish concurrently and any of them may die
  between two files. A manifest must never name a missing file; the partition a
  manifest names as prior must really be contained in it although it was loaded
  long before; a series refresh must not lose other series; a panel must not
  collapse to a fragment; the newest partition must be unambiguous.
* **Retention, doctor, recovery.** Deletion from a stale plan, files shared
  between partitions because they are content addressed, a death between two
  deletions, evidence older than the newest partition, a repair that cannot succeed
  and must still end, rebuilds that must serve the whole trusted history.
* **Fetching.** A retry counted as one request, a sleep that crosses midnight, a
  ticker skipped for its rate limit, windows that must meet what is stored, a
  value that must not be visible before it was published, a command of which one
  dataset fails, a freshness verdict that is old when the analysis starts.
* **Result store, registry, backup.** Read-filter-replace of a ledger that
  another process appends to; a death between artifact and ledger line; a sidecar
  of another write; appends that a rerun repeats; a mirror that loses the log.
* **Research commands.** A dataset resolved twice; a hash noted before or after
  the rows it vouches for were read; a record frozen from a report that is no
  longer what the data say; code or configuration edited between two steps.
* **General-account ledger.** Gains reach the books of a year late (a December
  trade settles in January, a delisting or reverse split lies between two
  sessions); tax is assessed once per year and paid when due out of money that
  may not suffice; rebalancing, harvesting and filling move the same dollars in
  one session; the harvest is sized at one exchange rate and booked at another.
* **Allocation and preflight.** Reserve, shaping, currency deferral and overlay
  all claim the same contribution; tickers delist while the paper book must still
  agree; the preflight promises what the run will find, day by day later.
* **Pension ledger and panels.** Yearly caps, credits and annuity limits in whole
  won; distributions paid later than the units that earned them; a spliced panel
  that must not see a return before it was public; cohorts compounding over it.
* **ISA and household.** Every arm must get the same external cash, or the arms
  cannot be compared; a matured ISA is emptied first and its money put back by
  three later statements; two credits of a year share one tax capacity; a credit
  is paid a year later, perhaps beyond the horizon; principal that earned a
  credit must not leave the pension tax-free; room carries over, but not for ever. A law
  file that loads must be one the quotes are stated for, whatever the holder's age.
* **Campaigns, gates, decisions.** A cached baseline used under the wrong key, a
  ratio to zero, worst cases over cells that come in any order, workers that end in
  any order, folds that must not look ahead, an incumbent that must not drift over
  reviews, a plan that loads but can never be decided.

* **Thesis commands, parameter screen.** Every evidence, every cohort and every arm
  reads the catalog that is current when it is read; a failed read becomes a missing
  number, which must not become a verdict; what is kept is kept in an order a fault may
  end; rows of a screen arrive in the order threads finish.

The list `hazards` of `PROJECT.json` names each of these at its line with the
property that covers it, or says why none does.

## 2. The modules

| Module | Models | Uses |
| --- | --- | --- |
| `CatalogData` | frames, manifests, newest manifest, merge, what an incremental partition owes its prior | |
| `PublishedCatalog` | abstract specification: a growing set of immutable partitions published atomically | `CatalogData` |
| `SilverStore` | the ingest protocol by concurrent, failing processes | `CatalogData`, refines `PublishedCatalog` |
| `SilverMaintenance` | recovery, doctor, retention and analyses on the same store | `SilverStore` |
| `SilverProofs` | theorems about `SilverStore` and `SilverMaintenance` | both, `TLAPS` |
| `PriceFetch` | windows per ticker, pacing gate, retries, rate limits, publication of the price panel | |
| `MacroVintages` | vintage chunks, release lags, backfill, the as-of view | |
| `IngestPanel` | the multi-dataset ingest commands, panel freshness, the thesis commands | |
| `ResultStore` | artifacts, sidecars, run ledger, prune, promote, migrate, file by file | |
| `ResultStoreProofs` | theorems about `ResultStore` | `ResultStore`, `TLAPS` |
| `ResearchRecords` | the sixteen research commands as programs that read, note, write and freeze | |
| `ProspectiveRegistry` | the sealed bundle and the observation log | `ResearchRecords` |
| `Backup` | push, pull, the loss of the disk | `ProspectiveRegistry` |
| `RecordsProofs` | theorems about `Backup`, hence about records, registry and mirror together | `Backup`, `TLAPS` |
| `AfterTaxEngine` | the FIFO lot book, and a monthly session of the general-account ledger, phase by phase | |
| `AfterTaxProofs` | theorems about `AfterTaxEngine` | `AfterTaxEngine`, `RecursionTheorems` |
| `AccountTax` | the tax rules of ISA and pension as operators in whole won | |
| `IsaHousehold` | the household simulation: pension, ISA and side account, month by month | `AccountTax` |
| `TaxRegimes` | the law files: what loads, in which order commands read them, the ways out of a pension under them | `AccountTax` |
| `SimulatorsProofs` | theorems about `IsaHousehold`, `TaxRegimes` and `AllocationEngine` | the three, `RecursionTheorems` |
| `PensionLedger` | the pension account of the backtest engine, session by session | `AccountTax` |
| `RecursionTheorems` | recursive functions, sums over finite sets, integer division: lemmas for proofs | `TLAPS` |
| `PensionProofs` | theorems about `PensionLedger`, `PensionCampaign` and `PensionSelection` | `MCPension`, `RecursionTheorems` |
| `PensionPanels` | what is published when, panels, proxy splices, weight glides, cohorts, block bootstrap | |
| `PensionCampaign` | the won rate from two sources and the campaign's dataset check; cohorts, profiles, paired ratios, the household view and its caches | |
| `PensionSelection` | the monthly panel, its fit, regret over a premium grid, stressed tail, worst historical ratio | |
| `DecisionSchedule` | signal and fill sessions | |
| `ContributionPolicies` | reserve, shape, deployment, adaptive, currency and target operators | |
| `AllocationEngine` | one run of the buy-only engine and its paper replay | `ContributionPolicies`, `DecisionSchedule` |
| `Feasibility` | the preflight, the run it lets through, the audit of a static plan | `DecisionSchedule` |
| `ResearchProxy` | the index of research returns and the two audits that use it | `DecisionSchedule` |
| `HistoricalCampaign` | the final campaign: resolved window, cohorts, stress, regimes | `DecisionSchedule` |
| `WalkForward` | folds, train and process gates, the tournament on workers | |
| `PensionDecisions` | the pension holding and its yearly review; the ISA policy, budget by budget | |
| `HpScreen` | the screen of the contribution parameters: grid, climb, pool of threads | |
| `ThesisPipeline` | the report, incremental and pipeline commands on a thesis, while catalogs are published | |
| `VerdictsProofs` | theorems about `WalkForward`, `PensionDecisions`, `ResearchPlans`, `HpScreen` and `ThesisPipeline` | `MCVerdicts`, `RecursionTheorems` |
| `ResearchPlans` | which plan files load, and how an admitted plan is worked off | |
| `AfterTaxCampaign` | rule payloads, the weights a rule answers at a month end, and the campaign over them | |
| `MC...` | instances for TLC: symmetry sets, quotes, laws, calendars, plan files | |

**Composition.** Components that share state are composed over that state:
`SilverMaintenance` extends `SilverStore` (ingest, repair, retention and analyses
act on one directory), `Backup` extends `ProspectiveRegistry` extends
`ResearchRecords` (commands, monitor, ingest and mirror act on one data root).
Components that meet only through return values are checked side by side:
`MCIngest`, `MCSimulators`, `MCPension` and `MCVerdicts` have a variable
`subject`, chosen at the start and never changed, and only the subject moves. A
behaviour of such a run is a behaviour of one component and its properties speak
of every component, so nothing is claimed about their interleaving.

| Instance | Subjects |
| --- | --- |
| `MCIngest` | `store`, `prices`, `macro`, `panel` |
| `MCSimulators` | `household`, `laws`, `allocation`, `preflight`, `proxy`, `history` |
| `MCPension` | `ledger`, `panels`, `fx`, `campaign`, `selection` |
| `MCVerdicts` | `tournament`, `holding`, `isa`, `plans`, `rules`, `campaign`, `screen`, `thesis` |

### Silver store

A dataset's rows are a *frame*, a function from primary keys to payloads. Files
are content addressed, so a Parquet file is identified with the frame it holds
(`parquet`, the subset `damaged` no longer matching its address) and a Bronze
file with its payload (`raw`). A manifest records its stamp, its frame, its
payload, the refreshed keys and its prior.

Each process runs the phases of the fetchers in `src/data/fetch.py` and of
`persist_ingest`. The order in which prior and stamp are taken depends on the
dataset, and the model keeps it (`FirstPhase`, `AfterLoad`, `AfterFetch`):

| `mode` | code | order |
| --- | --- | --- |
| `incremental` | price ingests | load prior, fetch and stamp, archive, check, publish |
| `series` | rates and macro, `fetch_and_persist_rates` | fetch and stamp, load prior, archive, check, publish |
| `full` | whole-panel replacement, `fetch_and_persist_fx` included | fetch and stamp, archive, shrink guard, publish |

`Abort` may end a run at any phase: it stands for a killed process, a provider
failure and a failed validation alike. `Refuse` is the fail-closed path (prior
unreadable, guard not met, existing file with other bytes). `Corrupt` lets a
Parquet file rot.

### Maintenance

`op` is the command in progress with its plan; every file operation is one step,
in the order of the code: `PlanRecovery .. ApplyRecovery`, `PlanDoctor` with its
four conditions, `RestoreBronze`, `RebuildSilver`, the publication shared with
ingest (`PublishParquet`, `PublishManifest`), the clean-up of the damaged pair
(`UnlinkDamagedManifest`, `UnlinkDamagedParquet`), then planning and applying
retention (`PlanPrune`, `DropManifest`, `DropParquet`, `DropBronze`). `snapshot`
is the partition a running analysis resolved and `evidence` the stamps finished
analyses recorded: what `collect_manifest_pins` finds. `OneCommand` states the
operator's discipline; with FALSE everything interleaves. `Crash` ends the
command wherever it is, and `Fault` lets a Parquet file rot or vanish or a
Bronze payload vanish.

### Fetching and ingest commands

`PriceFetch`: `now` is time in units, `gate` the state of `PacingGate`, `fetch`
the command in progress, `bars` what is stored. `BeginPrices` computes the window
of every ticker from what is stored (`incremental`, overlap included) or takes the
request; `Acquire` and `Wake` are the two halves of `PacingGate.acquire`, with
`Tick` between them, so a sleep may cross midnight; `ServerError`, `RateLimited`
and `Answered` are what `get_json` may see; `Publish` ends the command;
`PriceFails` is every other way to stop.

`MacroVintages`: `archive` is the outside truth (when each observation was
published), `macro` the stored rows. `RefreshMacro` asks for the vintages in
chunks and merges, with or without the other series; `BackfillMacro` stamps the
values of a never-revised series with the release its lag gives; `AsOf` is the
view of a decision.

`IngestPanel`: `Commands` lists every multi-dataset command with its preflight,
which datasets merge and which may fail. `BeginIngest`, `PublishNext`,
`FailNext` and `FinishIngest` walk one; `ChooseAsOf` and `Gate` are the two moments at
which a thesis command reads the catalog, while `NextDay` and the ingest go on.

### Result store

`proc[p].phase` walks a command: a writer puts the JSON, the sidecar and the ledger
line; `prune` reads the ledger, unlinks files one by one and replaces the ledger;
`promote` copies the JSON and then the sidecar; `migrate` moves the files one by one and
then appends the lines. `Die` ends a command between any two of these.
`MaintenanceAlone` is the discipline that results commands run with nothing else.
The loop of `prune_results` that keeps the lines of the other runs is the recursive
function `KeptUpTo`. Processes, runs and flat files are finite, what is not there
(`Absent`) or half written (`Torn`) is no payload, an unrecorded run is a legacy one,
and only a recorded run can be promoted.

### Research commands, registry and backup

`ResearchRecords` gives each of the sixteen commands a *program*: the sequence of
load, resolve, run, note, head, write and freeze steps its handler and its runner
perform, with the datasets each uses. `Step` executes the next one; in between an
ingest may `Publish`, and (if allowed) configuration and commit may change. `used` is
what was really read, `noted` what the report will claim. `Begin` follows the
operator's agenda. `Programs` maps each command to its program. `ProspectiveRegistry`
adds sealing, the identity and engine checks, one observation per arm (which reads
the prices, the currency and the CPI like an allocation run) and the append;
`Backup` adds the zones of push and pull in order, each of which may be copied in part,
and `DiskLoss`. `RecordsSound` and `RecordsKept` speak of all three and live in
`Backup`. The files the household command reads and leaves out of its run id (the pension
decision configuration and three tax regimes) are `companions`, edited by `EditCompanions` and
loaded by `LoadCompanions`; `read`, a history field of a frozen policy that the code does not
write, is what they were. The monitor may die inside its append (`TearBlock`): `Fragment` is a
torn last line, and the next line is glued to it. Beside bounds, two assumptions are made: an agenda is a sequence of commands
that starts on published datasets and an existing version, and a bundle that is found
with a hash is found with the seals the hash was computed with.

### General-account ledger

`phase` walks one `_EngineState.step`:

| Phase | Code | Actions |
| --- | --- | --- |
| `idle` | between two sessions | `OpenSession` (market, rates, settlement year), `Delist` |
| `actions` | corporate actions, interest | `PayDividend`, `ForwardSplit`, `ReverseSplit`, `Accrue` |
| `settle` | `_settle_delisted_holdings` | `SettleDelisted` |
| `assess` | tax of the finished years | `AssessYears` |
| `pay` | deposit, due tax | `DepositAndPay` |
| `convert` | conversion, target weights | `Convert` |
| `rebalance` | `_rebalance` | `Rebalance`, `SkipRebalance` |
| `harvest`, `harvesting` | `_harvest` | `StartHarvest`, `HarvestSleeve`, `EndHarvest` |
| `fill` | fills | `Fill` |
| `verify` | `_verify_usd_flows`, snapshot | `CloseSession` |

`Abort` stands for every error that stops a run: a missing price, a stale rate, a
liquidity breach. The program is sequential; the nondeterminism is the market
(`Quotes`), the calendar (which session settles late, in which year an event
falls), the corporate actions, the rule's weights (`Targets`) and the execution
mode. The loops of `tax_lots.py` over a book are recursive functions on its
places (`Positive`, `HarvestableQuantity`).

### Buy-only allocation, preflight, proxy, historical campaign

One behaviour of `AllocationEngine` is one call of `run_allocation`: `CheckConfig`
(the refusals), `ShapeCredit` for each month of the plan, then per decision point
`SettleDelisted`, `ResolveTargets`, `CreditContribution`, `BuyLots` or
`SkipBuying`, and in the end `ReplayPaper`, the paper book over the same orders.
`ContributionPolicies` holds every policy as an operator: the four reserve laws,
KAFI deployment, shaping, adaptive sizing, currency deferral, overlay, tilt, risk
budget, mapping and the eligibility of members.

`Feasibility` runs `Preflight` on a window and a data set, may `RetrySuggested`, and
then runs the window point by point (`RunPoint`), so that what was promised can be
compared with what a run finds; `Audit` is the audit of a static plan over the same
data. `ResearchProxy` tries starts (`TryStart`, `GiveUp`, `CapEnd`), then fills
month by month (`RunFill`, `FailFill`, `FinishLeg`), for the history audit and the
two legs of the mix audit. `HistoricalCampaign` resolves its window from the
catalog, evaluates arm after arm and reports.

### Household

One behaviour of `IsaHousehold` is one call of `simulate_household` for one arm,
one household and one scenario. `phase` walks its loop:

| Phase | Code (`src/sim/isa_household.py`) | Action |
| --- | --- | --- |
| `open` | January, lines 519-568 | `CloseAndReopen` when the ISA is `Matured`, else `KeepOpen` |
| `credit` | 569-586 | `BookCredits`: the year's credits, their due month, the tax basis |
| `contribute` | 587-602 | `Contribute`: pension, ISA within its room, side account the rest |
| `month` | 603-610 | `Month`: the refund of last year in `February`, then growth |
| `value` | 612-678 | `Value`: close the ISA, sell the side account, quote the annuity |

`transfer` is the proceeds of a closed ISA between the statement that empties it
and the ones that pay it out. The nondeterminism is the arm, the household (its
income and tax of every year) and the growth of every month, one factor for the
accounts that are rebalanced yearly to the same weights and one for the side
account, which is not. The quotes are operators of `AccountTax`.

`TaxRegimes` is what comes before: `ReadLaw` reads the next file a command needs
(`Reads`), checks it as its loader does (`PensionLoads`, `IsaLoads`, `OverseasLoads`) and
stops the command at the first one refused. `ValueExits` is the pension campaign's
valuation of a balance as a lump sum and as an annuity at either rate, `ValueHousehold`
that of the household, which first asks for the transfer that earns the full credit: an
ISA law with a cap but a rate of zero loads, and is refused only there.

### Pension

`PensionLedger`: `PlanContributions` draws up the whole plan before the first
session (`Search` is the code's halving search, `LeastContribution` its definition by
comparison with every lesser amount), then every session takes `Market` (price, split, distribution),
`Contribute`, `Execute`, `OpenYear`, a payout and `Snapshot`. `PensionPanels`:
`Publish` reveals closes and research reports day by day, `BuildPanels` draws the
modern and the realized panel as of the decision, `CompoundMonth` and
`FinishSchedule` compound a schedule's cohorts, `DrawBlock` the bootstrap.
`PensionSelection` begins with `EstimatePanel` (month ends of every ticker within the
estimation window) and `FitModel`, which refuses a market that never varies and an anchor
the market explains; then come the campaigns and the verdict. `PensionCampaign` (the won
series first, then the campaign) and `PensionSelection` follow the code's loops cell by
cell; the caches of the campaign are state.

### Gates, decisions, plans, after-tax campaign, screen, thesis commands

`WalkForward`: `Screen`, then each candidate's folds (`WalkFold`) on `Workers`
processes in any order, then `Recommend`; one operator per function of `gate.py`.
`PensionDecisions`, first part: the evidence moves (`PricesMove`, `PanelGrows`, `BootstrapMoves`),
reviews decide (`EvaluatePensionDecision`) and freeze
(`FreezePensionDecision`), and the record's holding is the next incumbent.
Its second part decides the ISA policy budget after budget and freezes one record for all.
`ResearchPlans` takes plan files with every fault in turn through `Load`, `Enter`,
`ScoreCell`, `Bootstrap` and `Decide`. `AfterTaxCampaign` has two parts. A rule
parses a payload and is asked for weights at one month end after another while
members leave and the rate moves (`ParseRule`, `MonthEnds`, `CallRule`); the
campaign loads a definition and works off arms, horizons and cohorts with its
cache of baseline runs (`RunCohort`, `SummarizeArm`, `PublishReport`).

`HpScreen`: `BuildRunner` (bounds, threads, the operational point), the registered
grid answered point by point by threads in any order (`EvaluationEnds`, `EndGrid`), then
a climb along one axis at a time (`OpenAxis`, `TryNeighbour`, `CloseAxis`, `NextRound`)
until a round moves nothing or the budget is spent (`EndClimb`).

`ThesisPipeline`: `AskThesis`, `ChooseAsOf` and `PassGate` are the order of each
command's refusals. A report is `EvidenceEnds`, `TerminalEnds`, `CohortsEnd`, `ReadProxy`
and `WriteReport`, for the one thesis or for each of a wave that ends in `WriteWave`. The
portfolio is `ReadStart`, `ClipStart`, `PinPrices` and an `ArmEnds` for each weight; the
exit is `WritePage`, `WriteJson` and `RecordRun`, or `NoEntry`. The steps that take
long begin with `BeginRun`, and `PublishCatalog`, the ingest of another process, may come
before, within and after each of them: a run that met two catalogs earns anything. Every
read and every write may fail as often as the case allows, and what the code does with
that exception (a missing number, a failed thesis, exit 1) is the disjunct with `Fault`.

## 3. The runs

| Run | Instance | Distinct states | Shows |
| --- | --- | --- | --- |
| `store_concurrent` | 2 processes, 2 keys with 2 payloads, 3 stamps, 1 rotten file | 700 thousand | no dangling manifest, truthful lineage, order of prior and successor, refinement of `PublishedCatalog` |
| `store_single` | `MCIngest`: 1 process, 3 keys, 3 modes; 2 tickers over 4 days; 2 macro series over 7 days; 1 ingest and 1 thesis command over 5 days | 1.04 million | the served view loses no key, a panel is never halved, the vendor's pace, no early macro value, honest exit codes |
| `maint_serial` | commands one at a time, each may die, 4 stamps | 1.14 million | newest and recorded partitions stay readable; no maintenance step takes a key away; prune settles |
| `maint_faulty` | the same with one fault and a fetcher that may not answer | 860 thousand | what recovery publishes serves the trusted history; every command ends, and the newest payload stays |
| `result_store` | 2 processes, 3 runs and a legacy one, 3 writes, 2 deaths | 1.24 million | no hidden run, the newest survive, curated evidence is final |
| `records_run` | every command, monitor, push and pull; 2 vintages, 2 versions, 1 death, 1 edit, 1 loss | 980 thousand | reports name their data, records chain and stay, the mirror keeps |
| `ledger_run` | 4 sessions in 2 years, 2 tickers and cash, 1 event, both modes | 390 thousand | the ledger properties below |
| `simulators_run` | `MCSimulators`, six subjects | 955 thousand | household, law files, allocation, preflight, proxy and historical campaign |
| `pension_run` | `MCPension`, five subjects | 1.2 million | pension ledger, panels, currency, campaign, selection |
| `verdicts_run` | `MCVerdicts`, eight subjects | 570 thousand | tournament, holding, ISA policy, plans, rules, after-tax campaign, parameter screen, thesis commands |
| `maint_rebuild_file`, `proxy_index` | one property each | small | a documented statement the code does not keep (section 5) |

Deadlock checking is off everywhere because the runs end: stamps, sessions, plan
years and commands are bounded, an aborted simulation stops, and the operator may do
nothing more.

**Bounds of the store.** `MaxClock` bounds the stamps, hence the publications: three
give a prior, a competitor and a successor, the shortest histories in which a stale
prior or a shared file can matter; four add a partition for maintenance to
drop. `MaxDamage` and `MaxFaults` are one, because every repair path reacts to
one bad file and a second one only removes the sources it needs. Two keys
distinguish a lost key from an emptied view, two payloads a fetched row from the
prior's; where only the keys matter one payload is used, and a third key where a
half is compared with a quarter.

**Bounds of ingest.** Four days with a holiday and three units a day let a wait of
two units cross midnight with the daily budget spent on either side; two price
commands give a first fill and an increment. Seven days with a holiday, archives
with one or two publications per observation and chunks of two days put a
publication on, before and after every chunk border.

**Bounds of results and records.** Three writes, two deaths and two values of
`--keep` let a prune die, another one with another `keep` start, and a run be rewritten in
between. Two vintages and two versions distinguish "what was read" from "what is
newest", one death and one loss each may fall at any step.

**Bounds of the ledgers.** `Horizon` of `ledger_run` is four sessions of two-month
years: two full tax years, each with a December, an assessment and a due
session; `MaxEvents` is one corporate action or delisting, at any point of any
session. The rate of 90 percent, the deduction of 6 and the deposit of 4 are
chosen so that a bill can exceed the money at hand and is paid in parts.
`Commission` is 0 there, because prices are one-digit integers. In the household
four years let an ISA be rolled three times or once in the middle, and two months
are the shortest year that has a February; the carry-over of one year binds in the
third year, below the lifetime limit; the growth makes closures with and without tax
and transfers above and below the full-credit amount; and the three households have
tax for all credits, for the ordinary credit and a part of the transfer's, and for a
part of the ordinary credit. Law files are one sound file each and one for every check of
a loader; the savers' balances lie below, at and above the threshold of a few drawing years,
and their ages below, at and above the minimum age and the borders of the bands. The
pension ledger has three years of three sessions:
a year of contributions, one that starts the pension and one with a carried limit; a
distribution before and after a split. Panels cover five two-day months, so that a
spliced sleeve has months before and after its listing and a cohort has a year, a
rebalance and a month beyond. The selection's marks are those of two tickers over four
two-day months with gaps, the first and the last day outside the window; one market that
never varies and one that explains the other ticker are among them.

**Bounds of the verdicts.** Two folds and two workers are enough for every order in
which two walks can interleave; levels within two points of the benchmark with a
band of one have a value on each side of every comparison. `MCCalendars` runs the
fold arithmetic on starts at days 1, 15, 28, 29 and 31 of every month. Plan files and
rule payloads are one sound file each and one for every fault a loader looks for
or overlooks. The screens have up to two axes, three threads and budgets of 0 to 40
evaluations: below the registered grid, inside it, and past every climb. The thesis commands
meet seven worlds of catalogs (one that never changes, and a publication that brings
sessions, restates closes, mends a file or takes one away), three theses, one fault a run,
and an as-of before, at and after the last session; months are years, so that cohorts are
few, and returns are ratios of 97, 100 or 103 percent, on each side of every band.

**One property may be a conjunction.** A run's properties are named for a component
and defined, with a comment on each part, as a conjunction of the properties below.

**Store.** `NoDanglingManifest`: every manifest's Parquet and payload exist.
`LineageExtendsPrior`: a partition naming a prior contains it, with fetched rows
taken as fetched and the others unchanged. `PriorPrecedes`: a publication is newer
than its prior; for `incremental` and `full` only, as `series` takes its stamp before
it loads the prior. `ServedKeysKept`, `PanelNotDemoted`: what a publication may not
do to the newest view. `ImplementsCatalog`: the refinement.

**Ingest.** `IngestSound`: `GateKeepsPace` (interval and budget of every day of the
clock), `MacroPointInTime` (no decision sees a value before it was published),
`ExitTellsTruth` (exit 0 only after every required dataset), `WaveBacked` (a thesis
run rests on a panel that passes at its as-of). `IngestSteps`: `PublishCovers`,
`BackfillExtends`, `PanelAdvances`.

**Maintenance.** `RetainedServable`: `NewestServable` and `EvidenceServable`,
whatever is deleted. `MaintenanceKeepsView`, `RecoveryServesHistory`: what a
maintenance step may do to the served keys. `PruneSettles`: a finished prune leaves
nothing to prune. `RepairsSettle`: a command ends whatever it finds, and no command takes
the newest partition's payload out of the archive (the rebuilt partition names one that
retention spares). That missing Bronze comes back is not claimed: the shipped command has no
fetcher (`BRONZE_FETCHER` in `src/cli_commands/maintenance.py:23` is `None`), and nothing
schedules the doctor.

**Results and records.** `ResultsKept`: `NoHiddenRun`, `NewestKept`,
`PromotedPairMatches`. `NothingRewritten`: `PromotedNeverOverwritten`,
`LedgerHistory`, `MigrationLosesNothing`. `ReportsNameTheirData`:
`PinnedRunsNameTheirData` for the commands that pin a snapshot, `NotedNotBeforeUsed`
for those that ask the catalog afterwards. `RecordsSound`: decision records and
household policies rest on reports and earlier records that agree with them, and
observations are those of the sealed arms by an approved engine. `RecordsKept`: nothing
frozen changes, a run id keeps its evidence (`SameIdSameEvidence`), and neither a half-way
transfer nor a loss costs what the mirror had. Both except the household's companions
(below).
`MirrorServable`: no manifest without its file, on either side.

**General-account ledger.** `BooksBalance`: `FlowsReconcile` (`_verify_usd_flows`
never trips), `PayableReconciles` (the total subtracted from the NAV is the sum of the
unpaid bills), `GainsBilledOnce` (after a session assessed, paid plus payable tax is
the tax of every earlier year on all gains that ever settle in it). `SessionSteps`:
`TaxClaimsFirst` (no contribution is converted while a due tax is unpaid, and none is
paid before it is due), `TradesKeepWealth` (rebalancing, harvesting and filling create
no wealth and lose only commissions). `HarvestWithinDeduction`: at a settlement rate
not above the session's, a harvest stays within the deduction. `HarvestableIsLargest`:
the FIFO walk returns the largest disposal its docstring promises.

**Simulators.** `CashConserved`: balances, money on its way, credits owed and taxes add
up to external cash, credits and growth: the docstring's promise that arms differ only
in where money sits. `RoomRespected`: no sequence of contributions and reopenings
passes a limit. `CreditWithinCapacity`: the two credits of a year never exceed its
tax. `CreditBacked`: the principal booked as credited would alone earn the credits.
`RefundsReachHousehold`: no credit is overdue or lost at the horizon.
`AllocationSound`: between two snapshots wealth changes by market, contribution and
stated costs only, and the holdings are those the orders bought, which the paper book
replays. `CreditsKeepBudget`: modules that move money in time keep its sum.
`PreflightSound`: a run that was let through breaks only where the preflight does not
look, a law file that loads is a law the quotes are stated for (`LawsSound`: `LawsFit`,
`RateOfBand`, `DrawWithinThreshold`, `AnnuitiesAgree`, `WaysInOrder`), the suggested
start and the recommended ingest date suffice, the audits report
the first window that works, contributions earn what they should, and a regime tier
says what the cohorts lived through.

**Pension.** `AccountSound`, `PayoutsSound`: money is conserved, the plan is the least
that earns the full credit and is funded, payments stay within the limit of their year
and a path is complete only when all were made. `PanelsSound`: no look-ahead, realized
months are never proxies, terminals are explained contribution by contribution.
`EvidenceSound`: the fallback rate is interior and within its cap; a cached figure
is the one of its own cell, both sides of a comparison start from the same cash, no
cohort disappears; the monthly returns of a ticker chain from the base month to the end of
the window (`ReturnsChain`); the selection does not depend on the order of what it reads.

**Verdicts.** `TournamentHonest`: `CalendarsAhead`, `AdoptionEarned`,
`RecommendationStable` under every schedule of the workers. `VerdictsSound`:
`HoldingSound`, `PolicyPaysInEveryLife`, `AdmittedPlansDecide`, `ScreenSound` (each point is
tried once and within the budget, the champion is the best adopted row in the order the
points were asked for, and a climb that came to rest has tried every neighbour of its
spot) and `ThesisSound`: `GateHeld`, `WaveWhole`, `DecisionsGrounded` (a rejection rests on a
history as long as the thesis asks for), `OneSource` and `PromisingOfOne` (what one
catalog holds is what is reported when nothing was published or failed meanwhile) and
`ExitEarned`. `HoldingStable`: a
review sells only what the evidence no longer supports. `AfterTaxCampaignSound`:
rules answer with whole portfolios of members or die for a stated reason, rows are
measured against their own baseline, and what passes the gate earned it.

**Fairness.** Only `maint_faulty` assumes any (`MaintenanceFairness`): weak fairness of the
steps of a maintenance command that was started. It is straight-line code that ends with
success, an exception or the death of its process; nobody has to start one and no source has to
answer. Nothing is assumed about ingest runs, analyses, crashes or faults.

## 4. The proofs

`SilverProofs` proves of `SilverStore`, for any set of processes, keys and payloads, any
subset of the three ingest modes and any number of stamps and rotten files:

| Theorem | Statement |
| --- | --- |
| `StoreInvariant` | `Spec => []IInv` |
| `TypeCorrect` | `Spec => []TypeOK` |
| `NoManifestDangles` | `Spec => []NoDanglingManifest` |
| `LineageTruthful` | `Spec => []LineageExtendsPrior` |
| `StoreImplementsCatalog` | `Spec => ImplementsCatalog` |
| `StampsAreUnique` | `Spec => []StampsUnique` |
| `PriorIsOlder` | `Spec => []PriorPrecedes`, without series refreshes |
| `LoneRunsKeepKeys` | `Spec => ServedKeysKept`, with one ingest process |
| `LoneRunsKeepPanel` | `Spec => PanelNotDemoted`, with one process, the guard on and no rot |

The assumptions are the five named ones of `CatalogData` and `SilverStore`:
bounds are natural numbers, the modes are modes, the flag is Boolean, and
`NoManifest` is no manifest.

None of the properties is inductive by itself. `NoDanglingManifest` fails to be
preserved by `WriteManifest` unless one knows that a run in phase `manifest` has
already written the Parquet of its *candidate*, and the candidate is computed from
the prior held in memory. `LineageExtendsPrior` needs that this prior is still on
disk and that the stamp identifying it is unique. `IInv` therefore adds:

* `RunsOK`: what each run remembers, by phase: its prior is published, its
  payload is archived from phase `check` on, its candidate's Parquet exists in
  phase `manifest`, its stamp has been handed out, and its candidate is a non-empty
  frame;
* `StampsFresh`: no published stamp and no other run has the stamp a run holds,
  and no stamp is ahead of the clock;
* `StampsUnique`: two manifests never share a stamp;
* `HasNewest`: a non-empty set of manifests has a newest one, which justifies
  the `CHOOSE` in `Newest` without induction over finite sets.

There is one lemma per action. `RunStep` and `StampStep` factor out what the
actions that only touch one run, or take a stamp, have in common; the lemmas on
`MergeFrames` state what `merge_incremental` returns. `StoreImplementsCatalog`
uses the same invariant: only `WriteManifest` changes the manifests, its stamp is
new by `StampsFresh`, and its prior is honoured by `ManifestExtendsPrior`; every
other step is a stutter of the catalog.

The last three theorems have the hypotheses under which the runs check them, and TLC
refutes the properties without (section 5; a series refresh takes its stamp before it
loads its prior). `PriorIsOlder` needs of a run in progress that a stamp is taken
after the prior was loaded (`StampFollowsPrior`): then every stamp of that
directory is older. `LoneInv` says what a lone process may rely on: what it loaded is
still the newest partition when it publishes, and the shrink guard it passed still holds,
because only its own publication could change either. No file rots in
`LoneRunsKeepPanel`, since an unreadable partition switches the guard off, and the keys
are finite, since the guard counts rows.

Of `SilverMaintenance` it proves, for any keys, payloads, ingest processes, modes, stamps
and answers of the fetcher, with deaths at any step, as long as the operator runs
one command at a time (`OneCommand = TRUE`):

| Theorem | Statement | Besides |
| --- | --- | --- |
| `PublicationServesHistory` | `MaintenanceSpec => RecoveryServesHistory` | any number of faults |
| `PruneIsIdempotent` | `MaintenanceSpec => PruneSettles` | any number of faults |
| `RetainedIsServable` | `MaintenanceSpec => []RetainedServable` | no file rots or vanishes |
| `ViewIsKept` | `MaintenanceSpec => MaintenanceKeepsView` | no file rots or vanishes |

The invariant has two halves. `Ordered` holds whatever happens to the files. A command,
an analysis and an ingest run exclude one another (`Alone`), so the directory a command
planned from is the one it acts on; `Planned` says so of each plan: a recovered frame
covers every trusted partition, the partition about to be published has a stamp after all
others, and a prune has still to drop exactly what is neither dropped nor retained
(`Left`), keeping the Parquet of all that is retained. A fault only makes fewer partitions
trusted, which never spoils a plan to serve them all. `Intact` adds what needs sound files:
what must be readable is, a run about to publish its manifest has its Parquet on disk, and
no command ever has a partition to rebuild. With faults `RetainedServable` is false for the
plain reason that the newest Parquet may rot. `NewestIs` and `OldestIs` justify the two
`CHOOSE`s by a least stamp, without induction over finite sets; `NewestStays` and
`NewestAdded` say what happens to the newest when another goes or comes. The store's own
invariant is of no use here, since maintenance deletes the priors and payloads it speaks of:
`Remembers` keeps of it what a run owes to its own memory.

`ResultStoreProofs` proves, for any finite sets of processes, runs and flat files,
any payloads, `--keep` choices, and numbers of writes and deaths, under
`MaintenanceAlone` (writers of reports may still overlap one another):

| Theorem | Statement |
| --- | --- |
| `InvariantHolds` | `Spec => []IInv` |
| `ResultsAreKept` | `Spec => []ResultsKept` |
| `PruneIsFinal` | `Spec => PruneSettles` |
| `NothingIsRewritten` | `Spec => NothingRewritten` |

`IInv` says of every process what its command has done so far: a writer's JSON is on
disk before its sidecar, a prune has removed exactly what it passed and its plan is
still the plan of its `--keep` (`PrunerOK`), a promotion copies what is there, JSON
first (`PromoterOK`), and the moves of a migration go to free places of their own
(`MoverOK`). `Exclusive` is the discipline as a fact about states; without it a plan
could go stale, and `ResultsKept` fails. `LedgerTimes` ties the ledger, a sequence, to
the time of the last record of each run, so `NewestKept` becomes a statement about
numbers: among the newest `keep` of a set at most `keep - 1` are newer than any
given one. `NoHiddenRun` needs it of *every* position of the ledger and of the filtered
one. What `KeptUpTo` leaves of it is proved by a least counterexample.

`RecordsProofs` proves about `Backup`, the composition of research commands, monitor,
ingest, push, pull and the loss of the disk, for any agendas, versions, vintages,
bundles, dates and bounds:

| Theorem | Statement | Hypotheses |
| --- | --- | --- |
| `MirrorIsServable` | `Spec => []MirrorServable` | no ingest publishes during a push |
| `ReportsNameData` | `Spec => []ReportsNameTheirData` | none |
| `ObservationsAreAuthentic` | `Spec => []ObservationsAuthentic` | none |
| `FiledIsKept` | `Spec => RecordsKept` | the four disciplines of section 5 |
| `RecordsAreSound` | `Spec => []RecordsSound` | no edits during a command, no disk loss |

The eighteen programs are sequences, and what a step needs is about their order:
`PinnersOrder` (a dataset is pinned right before it is read, once, and all pins are
noted before the report is written) and `NotedAfterReads` (a command that asks the
catalog does so after its last read) are proved program by program and carry the first
two columns of the argument: `Evidence` says for a command at step `n` that what it has
read is what it pinned in the steps before, and that what it noted is not older than
what it read. Ingest only adds vintages, so a note taken later is never older.

`Mirror` adds to `MirrorServable` what a running push has already copied: every
manifest it copies next has its file on the other side, as long as no file
arrives between the two zones. `ObservationsAuthentic` depends on no discipline: an
entry is written by the monitor after its checks of the seal, and `LogsAuthentic`
says the same of both logs, whichever is copied over the other.

`FiledIsKept` is an action property over both copies. Its invariant `Filed` says what
each of them holds while a command runs: the mirror's log is a prefix of the disk's
unless that one is lost, and a monitor starts with all of it (`Survive`); each zone a
push has passed has all the disk has, so Bronze leaves last (`Pushed`); a record that
is about to be filled is the one just opened (`Opened`); and a report's content follows
from its identity and, for a household, from the companions it read (`Settled`, `Identified`), so a
report written again under the same name says the same but for those. An edit between two reads of the configuration would break that.

`RecordsAreSound` follows a record back to where it came from. `Deciding` says what a
decision in progress may hold: an incumbent of a complete record, kept only if there is
one. `Chained` says of every complete record that the one it names as its predecessor is
complete, that a household policy's claim is the outcome of the prices and companions it
was frozen on, and that
a kept incumbent is the predecessor's. The theorem is stated for `MaxLosses = 0`, and for good
reason: TLC finds `RecordsChain` violated by the agenda decide, household, push, pull,
decide, pull with one loss. The first pull stops before the frozen zone; the decision is
frozen anew, or left torn, under the same configuration; and the second pull restores the
household policy that followed the lost decision, but not that decision, because pull
never overwrites. The agendas of `records_run` that meet a loss do not decide between two
pulls, so that run checks `RecordsSound` with losses where it holds.

`SimulatorsProofs` proves, for any tax parameters, arms, households, growth
factors, number of years and length of the year (at least two months):

| Theorem | Statement |
| --- | --- |
| `CashIsConserved` | `Spec => []CashConserved` |
| `PensionBasisComplete` | `Spec => []PensionBasisSplits` |
| `RoomIsRespected` | `Spec => []RoomRespected` |
| `RefundsReach` | `Spec => []RefundsReachHousehold` |
| `CreditsWithinCapacity` | `Spec => CreditWithinCapacity` |
| `CreditsAreBacked` | `Spec => CreditBacked`, where a hundred is a multiple of the local rate |

The assumptions are the six named ones of `AccountTax` and `IsaHousehold`: the
parameters are natural numbers and whole percentages, and the checks at the top
of `simulate_household` passed. The inductive invariant is here also called
`IInv`. To it belongs, beside types and the properties themselves:

* `Timing`: which month each phase lies in, and that nothing is on its way
  outside `credit` and `contribute`;
* `RefundsDue`: a refund on the schedule was booked, is not overdue and falls due
  before the horizon.

`CashConserved` alone is not preserved by `Month`: when the year ends, last year's
refund drops out of the sum, so it must have been paid, which is `RefundsDue` with
the calendar of `FirstMonthFacts` (the only non-linear arithmetic, kept in that
lemma). `RoomRespected` rests on `RoomFacts` and on `GrownFacts`, that a year more
never shrinks the limit. The quotes enter through `CreditFacts` and `QuoteFacts`
only. `Typed` speaks of integers, not of natural numbers: with arbitrary
percentages a closure could cost more than the balance, and none of the six
theorems needs it not to. `PensionBasisSplits` (every contribution and transfer is
in the pension's tax basis once) is proved and no longer model-checked.

`CreditsAreBacked` is about rounding. The principal of a quote is the larger of two
shares rounded up, each credit is rounded down, the local one twice. `ShareReaches` and
`FactorCancels` bring a share of the eligible amount back to what it earns; `WonTogether`
says that two principals earn together no less than apart. The hypothesis `WholeShares` is
needed for the local credit, and the shipped law files satisfy it
(`local_surcharge_rate` 0.1): a local credit of `l` takes `k * l` of national tax with `k`
whole. With a local rate of 7 % TLC finds a counterexample (section 5).

The same module proves about `TaxRegimes`, for any files, savers and supported year:

| Theorem | Statement |
| --- | --- |
| `LoadedLawsFit` | `LawSpec => []LawsFit` |
| `RateIsOfBand` | `LawSpec => []RateOfBand` |
| `DrawsWithinThreshold` | `LawSpec => []DrawWithinThreshold` |
| `AnnuitiesAlwaysAgree` | `LawSpec => []AnnuitiesAgree` |
| `WaysAreInOrder` | `LawSpec => []WaysInOrder` |
| `LawsAreSound` | `LawSpec => []LawsSound`, the five together |

The one assumption is `SaversAssumption`, that a saver's amounts and age are natural numbers
and the drawing years positive. `LawInv` says that the laws read are the first ones the
command reads, each of which loads (`ReadInOrder`), and that an account was valued only
after all of them were, in one of the two ways (`CampaignExits`, `HouseholdExits`). The
rest is about operators. `GreatestIndex` finds the last band reached without induction
over the list; as the bands go up, it is also the highest one (`BandOfAge`). `WonGrows`
and `WithLocalGrows` say that a higher rate takes no less tax after both roundings,
which gives the order of the ways out; `RoundedUpFits` and `MoreYears` say that the
quoted years are the fewest and that drawing longer stays within the threshold, so
that both valuations of an annuity tax the same sum at the same rate.

Of `AllocationEngine` it proves, for any tickers, signals, markets, delistings, span and
parameters of the policies:

| Theorem | Statement |
| --- | --- |
| `CreditsAreKept` | `AllocationSpec => []CreditsKeepBudget` |
| `WealthIsExplained` | `AllocationSpec => []AllocationSound` |

The assumptions are the four named ones of `AllocationEngine`, `ScheduleAssumption`, and
`PolicyConfigs`: the constructors' checks passed (`ReserveConfigOK`, ..., `CurrencyConfigOK`),
quotes are positive, weights add up to one, and signals are ones the modules can read, because
`apply_fixed_tilt` and `_select_implementation` raise on the others. A month's money is an even
number of won, so that the two parts of a `twice_monthly` month are whole.

`AllocInv` has one part per question the two properties ask:

* `Shaped`: shaping may save or spend ahead, so the drift from the flat plan is not zero
  before the end, and that every credit lies in the corridor is not inductive. It is
  once the drift is known to lie within what the months left can still save down
  (`Reserve`, only the last `window - 1` months of it) or catch up (`Debt`); with no month left both
  are zero and the credits add up to the plan.
* `Ledger`: between two points the books are those of the last snapshot; at a point
  what has ended is settled first, then the month is credited, and the won in hand are
  what there was, the credit and the change of the reserve. Every mix targets tickers
  that trade, once membership is on.
* `History`, entry by entry: `Explained` is `WealthExplained` for a finished point, `Carried` that
  a holding only grows or was settled because its life ended, `Opened` that a ticker enters
  while it is listed, `Funded` that won never leave but through a conversion.
* `StockCapped`, `Dust`, `Replayed`: the cap of a reserve, the dollars a fill leaves, and the verdict
  of the paper book.

Around it, `SplitFacts` counts the points of a month (`OfMonthFacts`: one or two, whichever way months and
cadences lie, from `SomeEnd` and `OneEnd` about the calendar); `LotsFacts` shows that the lots of a
mix cost no more than the money and leave less than one lot of each ticker, two sums
compared term by term after multiplying out the division; and each of the modules returns
weights that add up to at most one and amounts that add up to what it was given (`Conserves`, `MixOK`).
The replay adds up, per ticker, what each snapshot holds more than the one before. That
telescopes to the last holding because a settled ticker never returns (`Carried` and
`Opened`, with executions that only go forward); what was settled is what is missing.

`VerdictsProofs` proves about the tournament, for any finite grid of candidates, folds, workers, levels and
band, about the pension holding, for any finite set of candidates, any
cells, levels, band, fees and drawdowns, about the ISA policy, for any arms, lives,
levels, band, drawing years and budgets, about plans, for any files and laws, about the
parameter screen, for any axes, threads, objective and budget, and about the thesis commands, for any
worlds of catalogs, theses, cases and number of faults:

| Theorem | Statement |
| --- | --- |
| `TournamentIsHonest` | `TournamentSpec => []TournamentHonest` |
| `TournamentsAreHonest` | `Spec => []TournamentHonest`, in the composition `MCVerdicts` checks |
| `EveryPlanAhead` | `WindowsAhead(p)` of every experiment `p`: no fold looks ahead, and the tests follow one another inside the experiment |
| `HoldingIsSound` | `HoldingSpec => []HoldingSound` |
| `HoldingIsStable` | `HoldingSpec => HoldingStable` |
| `PolicyPays` | `IsaSpec => []PolicyPaysInEveryLife` |
| `AdmittedPlansAreDecided` | `PlansSpec => []AdmittedPlansDecide` |
| `ScreenIsSound` | `HpSpec => []ScreenSound` |
| `ThesisIsSound` | `ThesisSpec => []ThesisSound` |
| `VerdictsAreSound` | `Spec => []VerdictsSound`, the five side by side as in `MCVerdicts` |

The module extends `MCVerdicts` for the last theorem only; its constants stay
arbitrary. The assumptions are `CandidatesAssumption` and `RankAssumption` (the reference and the
benchmark are candidates, ids rank all candidates apart, levels, fees and the band are
natural numbers), the `IsaAssumption` of `PensionDecisions` (the baseline is the first of
the arms), `FilesAssumption` (the entries of a file that parses have their types), the ones of
`WalkForward` and `HpScreen` on grids and budgets, and `ThesesAssumption`, `WorldsAssumption` and
`CasesAssumption` (no thesis is registered twice, every world has a catalog, and what catalogs hold
and cases ask for has its type).

In the tournament `FoldsJust` says of every candidate, whichever worker walked it, that its rows are
those of its first folds and that a row which adopted nothing holds the baseline's result; a
finished candidate has a row for every fold. That settles that an adopted one earned it in a fold
it chose (`AdoptionEarned`): if no adopted fold were richer, the sum of the wealths, their
reciprocals and their profits could not be better than the baseline's. `EveryPlanAhead`
is about dates: adding months never reorders two days, so that each training ends before its test, and
each test before the next one but for the days section 5 names.

Of the pension holding, `HoldingInv` holds with `HoldingSound` that the verdict at hand is one the
evidence at hand gives to *some* answer of the cross-check (`VerdictCurrent`), and that a
record settled today is an equivalent of today (`HeldIsEquivalent`): prices, panel and
bootstrap each begin a new day (`SameDay`). The rest is about the rule. `GreatestPlace`
and `MaxOfValues` find the best score without induction over the candidates; since the ranks are in
a strict order that ends in the id, the equivalents have exactly one first
(`FirstRanked`, `OnlyFirst`), so the `CHOOSE` in `Selection` names it. `BetterStays` follows
a selected candidate that does better in one cell: the pool keeps what it had, the
best score rises by at most what its own does, and the equivalents can only lose others. In the ISA policy
`Justified` says of every verdict what is behind it. A lock-up worth more than the band
over all lives together is worth more than the band to the worst life of every profile
(`WorstLife`, `BudgetJustified`), hence every profile by itself selects a lock-up too.
`PlansInv` says that a plan past its loader is one the loader admits, that what is scored are
exactly the cells that fit among those passed (`FittingGrows`), and that a plan that
stopped was not careful: none of a careful plan's cells fails (`CarefulCells`, which needs
that every realized horizon fits the panel that starts where the last fund has prices),
nor what is checked before the first cell and after the last (`CarefulEnters`,
`CarefulCentury`).

In the screen `HpInv` adds to the registered rows what the climb knows: the lead is as high as
any row a gate adopts (`Highest`), what is still to be evaluated is new, and every axis left behind in a round
that has not moved has had both of its neighbours tried, unless the budget is spent (`Surveyed`).
At the end of a round without a move that is `HillTop`.

The thesis commands read a catalog that another process may replace between two reads. `DraftTrue` and
`StudyTrue` say at every step what the report and the portfolio in memory are worth: read from a
single catalog without a fault, each value and each arm is the one that catalog gives, and in any case the
proxy's span is that of a catalog read, and the cohorts have the thesis's target length and end with its
window. `GateKept`: past the gate the panel is fresh, stale and allowed, or acknowledged.
`FilesKept`: the wave is written before the page, the page before the JSON and the JSON before the
row, and the exit code is 0 exactly after the last of them. `EntriesTrue`: the entries and the failures are
those of the theses tried so far, no thesis in both, and each entry's quality has its ground in a
catalog its report has read. Ready for operation is a portfolio with ten yearly cohorts of at least five years
from 2012 on, so its panel lies in 2031 or later (`TenTakeYears`).

`PensionProofs` proves about the pension account, for any calendar, plans, holders, prices,
splits, distributions, delays and law:

| Theorem | Statement |
| --- | --- |
| `AccountIsSound` | `PensionSpec => []AccountSound` |
| `PayoutsAreSound` | `PensionSpec => []PayoutsSound` |
| `PlansAreKept` | `Spec => []Framed` |
| `SearchIsLeast` | the halving search ends at the least contribution that earns what the budget would |
| `EqualPartsAddUp` | equal parts with the odd won on the first dates add up to the total |
| `ExchangeRateIsSound` | `PensionSpec => []FxSound`, for any sessions, days, delays and cap |
| `SelectionIsSound` | `PensionSpec => []SelectionSound`, for any marks, arms, lines, tails and campaigns |
| `CampaignFiguresAreTheirOwn` | `PensionSpec => [](CachesFresh /\ RealValuesKnown)`, for any engines, cash, index, arms and profiles |

The assumptions are the four named ones of `PensionLedger` and the one of `AccountTax`
about the pension law; what they say of plans and holders is their types and that a date
belongs to its year, and of the market that prices, distributions and costs are whole (the
model's units) and that the limit's multiplier, the cost rate and the distributions are not negative, which
`pension_engine.py:117`, `:343` and `pension_tax.py:232` check. `SelectionAssumption` and `MarksAssumption` add that the numbers of a selection are numbers, its
lists sequences, and that some ticker is marked on finitely many days; `FxAssumption` that sessions
lie among the days; `CampaignAssumption` that the rows of an index are finitely many and numbered by month. The argument has three parts for the account, and one for the evidence.

*The plan.* `SearchIsHalving` and `HalvingExists` unfold the search, whose windows get
shorter; `SameStaysSame` says that a contribution that earns the whole credit is
followed only by such, because each credit is monotone and moves by at most a won with every
won (`WonSteps`). So the search ends at the least one, and of the least one
every won is credited (`LeastIsCovered`): one won less would earn less, hence
the tax of the year does not cut both shares. `PlannedFacts` follows the years,
`PartsFacts` and `UnspentIs` the dates in them. `PlanMade` collects what a plan
that was let through promises, and `Framed` carries it through the sessions.

*The books.* `Booked` is `AccountConserved`, `PlanFullyCredited` and `ContributionsFunded` with
what makes them inductive: what has been contributed is exactly the running total of the
events (the credited parts of a year are differences of floored shares, and are whole
because the year is credited in full), payments lie behind the session, snapshots
are one a session. `Attempted` says that the counter of payouts is the number of years whose payout was
due and has passed. Selling what cash lacks is exact, since prices divide the units
(`PayableFacts`).

*The payments.* `Openings` says that a year's opening value, once its session has passed,
is the value on record: the last snapshot before the year, or in the year the pension
starts that session's snapshot and what was paid on it. It is inductive because a payment takes its
gross from the account's value to the won (`NavAfterPayout`, `QuotientShift`).
`Limits` says the same of payments and opening values, and `PaidAsScheduled` that what was paid and
what fell short are what the attempted years had scheduled. Hence a complete path, whose number of
attempts is the number of scheduled years and whose shortfalls are nil, has
paid everything, and since its last value is nil it holds nothing (`PaidIsInFull`).

*The evidence.* The last three theorems are two of the three parts of `EvidenceSound`, and of the
third (`CampaignSound`) that a campaign reports no figure of another cell. `CachedRight` says of every key that
what is cached under it is what an engine answers for it; a key that named less would be met by two
cells. The latest index row known on a date exists, and so was published by it (`IndexKnown`). `FxInv` keeps
what the sources had quoted; a session counts toward the cap exactly if its latest quote, of
either source, is one of the second's. In `SelInv`, `Evidence` states an arm's worst ratio as the least of all
read so far, or none once one was undefined (`Heard`, which `HeardMore` carries through a reading),
so the order of campaigns cannot matter. `Paneled` says that a panel has a mark of every ticker
in each of at least two months; then the last mark of a month inside the window is the last before
the next month (`LastMarkIs`), and of the two products only the first and the last mark remain
(`ProductsTelescope`). `Decided` says that the verdict is the one the evidence gives; the choice of the
simplest arm is justified by three least values in turn (`SimplestExists`), and the regret gate passes the arm
the ceiling was measured on (`CeilingFacts`).

`TypeOK` bounds a payment's tax by twice its gross: the rates are checked one by one to
lie below one, so only that the national tax is less than the payment and the local tax less
than the national one is known for every law.

`AfterTaxProofs` proves about the general-account ledger, for any tickers, calendar, quotes,
weights, corporate actions, tax rate, deduction, commission and both execution modes, all the
properties of its run:

| Theorem | Statement |
| --- | --- |
| `LedgerIsSound` | `Spec => []LedgerInv` |
| `BooksAreBalanced` | `Spec => []BooksBalance` |
| `SessionStepsAreSound` | `Spec => SessionSteps` |
| `HarvestIsLargestEver` | `Spec => []HarvestableIsLargest` |
| `HarvestIsLargest` | for any sequence of lots, net price and budget, the walk answers the largest disposal within the budget |
| `HarvestStaysWithin` | `Spec => HarvestWithinDeduction` |

The assumptions are the named ones of `AfterTaxEngine`: finitely many tickers of which
cash is none, whole prices above the commission, positive rates, weights that are natural numbers,
a calendar with months and a payment month. TLC evaluates the run with a commission of 0
and on four sessions; the theorems hold for any commission below the prices and any horizon. The
argument has four parts.

*Lots.* A book is a sequence and what it holds is a sum over its places. `BuyIs`,
`SellIs`, `SplitForwardIs` and `SplitReverseIs` say what an operation leaves: lots that
hold shares, and the quantity it should. `SellIs` rests on `TakenAddsUp` (a disposal takes exactly
what was asked) and `PositiveKeeps` (dropping the empty lots drops no share).

*The harvest walk.* The gain of a disposal is the sum of the gains of its lots
(`GainIsSum`). The walk passes whole lots while they gain less than what is left of the
budget, and stops inside the first that does not, or at one without a gain; `WalkIsLargest`
follows it from there: every larger disposal up to the same lot exceeds the budget.

*The books.* `LedgerInv` is `BooksBalance` and what it needs to be inductive. `FlowKept`: in
the middle of a session the dollars are those at its beginning with the flows
so far; `BooksBalance` says so at its end only. `BilledSoFar`: the assessed years are exactly those
with gains before the year being assessed, and taxes paid and payable are their taxes. Without it
a year could be billed twice or not at all after a late settlement. `CashKept`: won are in hand only between
payment and conversion, and then no due bill is open. `HarvestKept`: the year's net gain is the
deduction less what is left of the budget, whose gains are booked in the session's own year. Paying
bills is read as a disposal from a book whose lots are the due bills (`DueBills`,
`PaymentIs`), so that what is known of lots settles that a payment takes the oldest
first and never more than there is. A rebalance shares its pool out over the sleeves
that lack value, and `SplitsAddUp` says that the shares are the pool to the cent; that there is a
sleeve to share it with is because excesses and deficits cancel out.

*Trading.* `WealthLost`: a step that moves the dollars of the shares it buys and sells, at the day's net
prices, loses at most the commission of the shares traded. `FillIs`, `HarvestStepIs` and
`RebalanceIs` bring the three trading steps to that form.

`RecursionTheorems` has what these proofs and later ones need about definitions by
recursion. Neither induction over data nor the library's theorems with an operator
parameter are within the provers' reach; the lemmas are stated about *sets*
and proved by a least counterexample. `RecursionOnMeasure` gives a recursive function on a
finite measure its equation, `SubsetInduction` is induction on finite sets for a set of
subsets, and on them rest the sums of `FiniteSetsExt` (`SumFunctionOnSet`): element
by element, over unions, pointwise, changed in one place.

**Only model-checked.** `RepairsSettle`, because part of it is liveness under fairness; `RecordsSound` with losses of the disk;
the preflight; `IngestSound` and `IngestSteps` about fetching; the panels (`PanelsSound`); the campaigns
(`SameCash` and `SummariesAccount` of `CampaignSound`, the third part of `EvidenceSound`, and
`AfterTaxCampaignSound`).
`PriceFetch` has a `RECURSIVE` operator and cannot hold a theorem as it stands.

## 5. Disagreements between code and documentation

Two runs are expected to end in a counterexample; the quoted lines are in
`findings` of `PROJECT.json`.

| Run | Statement | What the code does |
| --- | --- | --- |
| `maint_rebuild_file` | rebuild publishes the trusted history as the new latest | if the rebuilt frame equals the damaged one, the clean-up deletes the file just recreated |
| `proxy_index` | the wealth path compounds the daily research returns | one return a month, that of the fill session, enters the index |

### Disciplines the passing runs rest on

The following hold only under a discipline that a constant states. Setting the
constant the other way makes TLC show what happens without it.

| Constant | Without it |
| --- | --- |
| `Ingesters` with one member (`store_single`) | two overlapping series refreshes load the same prior; the later publication drops what the earlier added (`ServedKeysKept`) |
| `MaxDamage = 0` (`store_single`) | an unreadable newest partition switches the shrink guard off (`PanelNotDemoted`; `ingest_guard.py:31`) |
| `OneCommand = TRUE` (`maint_*`) | a partition published after planning may share a Parquet the plan deletes (`NewestServable`), although the comment at `retention.py:376` says otherwise |
| `SteadyRates` (`ledger_run`) | a settlement rate above the session's lets a harvest exceed the deduction (`HarvestWithinDeduction`) |
| `MaintenanceAlone = TRUE` (`result_store`) | a line appended while the ledger is filtered is lost |
| `RequestsMeet = TRUE` (`store_single`) | a request that does not touch the stored window leaves a gap that no increment fills |
| `RequestsExtend = TRUE` (`store_single`) | plain `ingest prices` and `smoke --production-data` replace the whole partition by a lesser one |
| `EditsDuringRuns = FALSE` (`records_run`) | a file is read twice or a commit resolved late: the report names a configuration or code that was not run |
| `PublishDuringPush = FALSE`, `RestoreFirst = TRUE`, `PullsIntoExisting = FALSE` | Bronze can leave before its Parquet is mirrored; a log that starts anew meets the mirrored one |

A prune that dies between two deletions can leave a manifest outside the retention
window without its Parquet, and no later prune plans anything until that manifest is
repaired; `RetainedServable` speaks of what the plan retains.

So some hazards are covered only in part: overlapping refreshes, a stamp taken before the prior
is loaded (`series`), an unreadable newest partition, a stale prune, an append during a ledger
filter and a harvest settled at a dearer rate are what these constants, or a
property's condition, leave out; the notes of `hazards` say so.

### Observations made while translating

They are read from the code, with the model's definition where one decides it, and
no run is spent on them.

*Ingest.* `thesis-panel` has no preflight, and its N-PORT step is optional. The
default as-of is resolved once and the gate resolves again: if the first
report was `INSUFFICIENT_DATA`, its reference instant is used, and data published in
between lets a wave run with it. An explicit `--as-of` is gated on the freshness of
today's panel. `panel_freshness` passes a session when any earlier row of a ticker is
visible, so its "month end" may be the last stored session of a running month.
`ingest history` republishes MACRO without `retain_other_series`, so rows of
`macro-backfill` are dropped. The five sessions of overlap leave older adjusted closes
on an older adjustment basis. A 5xx is retried up to five times on one admission of
the gate although `quota.py:30` says "before each HTTP GET", and the gate is new in every
command, so the daily budget is not kept across commands. A ticker that is
rate limited twice is skipped and the command exits 0.

*Records.* The household's run id hashes the ISA configuration, commit, manifests, pension record
and seed (`campaign_pension.py:430`), not the pension decision configuration (`:378`) and the three
tax regimes (`:380`) it also reads. Edited without a commit, a rerun replaces the report under the same
id, also one a frozen policy names, with what may be another verdict. `RecordBackedByRun` and
`SameIdSameEvidence` therefore claim everything but that: the same commit and incumbent, and the same
verdict unless the companions differ. TLC refutes both without that exception. The pension campaigns hash
every file they read, so their ids identify the evidence; `pension_decision` and
`after_tax_campaign` also read a tax regime they do not hash, and are not among the ids these
properties speak of. The observation log has no reader in `src/`; after a death in the middle of a
line the next one is appended to it and is unreadable too.

*General account and allocation.* `allocation.py:523` and `baseline.py:139` compute
`fees_krw` from a product of won and won per dollar (`research_proxy.py:113` uses the
dollars spent). With a membership set, `_eligible_delisting_targets` renormalises
the overlay's residual away, which `overlay.py:57` and `allocation.py:519` keep as
cash. A zero first month of adaptive sizing, or an overlay residual with a rebalance
band, makes `allocate_contribution` raise. The v2 reserve ignores a
`max_invest_multiplier` below two. Deferred won are never converted later.

*Preflight and proxy.* Run and preflight load MACRO as of the last fill and keep the last
revision of each observation (`pit.py:136`), so a revision made later hides
the value an earlier signal could have seen (`kafi.py:301` says then-latest). A
currency-only profile is told to ingest from the first fill although the percentile
needs prints before the first signal. A mark missing inside the window is not the
preflight's business. `_allocation_end_within_as_of` returns the start itself when no
fill fits. The mix of the proxy is not normalised on a date that lacks a series. The
full-window, stress and bootstrap runs of the final campaign use the specification's
dates, not the resolved window; its window, each run and the manifest hashes
resolve the catalog separately; `_stress_worst_ratio` is 1.0 without a positive ideal.

*Household.* The principal a credit is charged to rounds each share on its own
(`isa_tax.py:410`), which suffices for the local rate of a tenth. A law file with a local rate
of 7 % loads, and 15 % of an eligible 194 with room for 14 national and 1 local are then
charged to a principal of 97, which alone earns 14 and 0.

*Pension.* `WeightSchedule` with one year and a glide holds the start weights
(`pension_monthly.py:124`), and a glide as long as the plan never holds them, although the
docstring says the final year uses the end weights. The household cash plan
deposits a year's leftover on the first date cash is available
(`pension_household.py:300`; `SameCash` is conditioned on it).

*Verdicts.* Consecutive test windows overlap by some days when the plan starts on day
1 or from day 29 on (`windows.py:58`). `KEEP_BENCHMARK` replaces an incumbent still
among the equivalents, and `KEEP_INCUMBENT` is decided on the gates of the selection,
not of the incumbent. The plan loaders admit plans that evaluation
refuses later: a glide longer than a horizon, a pre-retirement tail beyond a realized
horizon, a drag on an unused sleeve, a bootstrap beyond the century panel, a window
ending in mid-month or not public yet; for the ISA a roll cycle below the minimum term,
a budget or a pension above the regime's limit. `Careful` in `ResearchPlans` lists
them, and `AdmittedPlansDecide` shows there are no others. The ISA loader's docstring says a
band in (0, 0.05), its check admits 0.05. The docstring of `AfterTaxRuleSpec` says
the hurdle is the mean of twelve month-end rates, the code uses the latest visible
one; `CORE_SATELLITE_TAA` with an empty universe holds the safe asset alone; a rule
whose core holds CASH does not ask for rates and dies at the first accrual.

*Thesis.* An explicit `--as-of` in the past cuts the months of the cohorts but not the window of
the historical slot, which ends where the panel does. The incremental portfolio runs to
the date of the gate's panel whatever `--as-of` says, and `thesis pipeline` always compares the
portfolio of `ai_compute` with SOXX, whatever thesis was asked. Ten yearly cohorts of at
least five years cannot exist before 2031. If the proxy's history cannot be read, the
decision falls back to prospective, but the suggested status is the one of the slots.

## 6. What the models leave out

*Store.* One dataset; datasets share nothing but code. Validation of a payload is
the nondeterministic `Abort`. Price corrections and normalisation are part of
the payload: they are idempotent and keep the keys. Retrieval stamps are unique,
because each reads a strictly increasing clock; the code breaks ties by hash and
file name, which only makes the order total. Rot of manifests and Bronze bytes
is not modelled, only of Parquet (manifests and Bronze can be missing).
Retention's hash pins retain every manifest with that frame; they are counted as
pins of manifests. The frame cache of `catalog.py` is not part of the reads: it pairs
rows with the identity of files taken after they were read, which differs only if a
damaged file is replaced at its path in between.

*Ingest.* Time in units, tickers and series in pairs; payload formats, parsing, column
checks and the fundamentals' arithmetic are left out.

*Results and records.* A report is the vintages it rests on and what it claims; what is
computed is the environment's `outcome`. Reading the catalog is one step. Temporary
files and report texts are left out, and so are probing and installing `rclone` and dry runs.

*General-account ledger.* Money is whole units: a quotient is rounded down and what a
conversion loses counts as spread; amounts shared out in proportion are rounded up or
down per part (`Splits`). Commission is charged per share. Whole shares, raw prices,
FIFO lots, enabled taxes and a constant monthly deposit; moving-average lots,
fractional shares, adjusted prices and scheduled deposits are left out, as are
fees, income disclosure, the disposal list and the snapshot's NAV and liquidation
tax. A forward split requires costs that divide. A held ticker of a delisting
settles at a price and in a year chosen by the environment. A sleeve that never
afforded a share keeps its dollars when its ticker delists, and the session stops
for want of a price (`Stranded`, `Abort`), as in the code.

*Allocation, preflight, proxy, campaign.* Sessions are numbers; signals (drawdown, trend,
VIX, percentiles) are inputs of the policies in `AllocationEngine`, and computed from
closes and prints in `Feasibility` only as far as their existence goes. Returns are
integer gross factors; CPI deflation, certainty equivalents, the bootstrap and the
census of trials are left out; the wealth of a cohort is an input.

*Household.* Balances are whole won after every month, where the code keeps
fractions and floors an account when it closes or values it; the sleeves of an
account are one total. Income is of one kind for the whole plan (wage or
comprehensive only chooses the thresholds) and the annuity's age rate is one
constant. The arms' comparison is left out; the lump-sum exit, which is reported and feeds
nothing, is in `TaxRegimes`, where a file's name, sources and dates are one flag. `gain` and `net` record what the
properties speak of.

*Pension.* The target sleeves of the account count as one and units come in parts that
every price divides. Panel returns are in halves and a decision instant is the end of
the modern window; a snapshot is pinned, so restated closes do not occur. XIRR, the
unitised drawdown and the high annuity rate are left out of the campaign; growth
lines and tails are inputs of the selection, the market one ticker and the fit's
refusals exact comparisons, where the code compares floats; rates and label checks are left out of
the currency series.

*Verdicts.* Certainty equivalents are those of gamma 2, one cohort stands for a cell,
the baseline is the same in every fold, no year is a leap year. JSON typing is one flag
(`formed`), weights are percents, windows months. In the after-tax rules weights are in
24ths, closes are kept for three months, every month has `MonthSessions` sessions and the
realized volatility is any share; the
campaign's resampled mean is any value between worst and best, and its disclosures
(drawdown, taxes, sells) are left out.

*Screen and thesis.* An objective is any number for a point, threads answer in any order, and
the scores' disclosure is left out. In the thesis commands dates are whole years, ratios are in percent, prices and
exchange rates are pinned in one read, and attribution, bootstrap and drawdown are one flag that says
whether they could be computed.

*Not modelled at all.* `PROJECT.json` lists under `components` which part is `partly`
modelled and what is missing from it. Environment lookup and paths, argument
parsing, report formatting, provider payload formats and repository guards
(`tools/guards`) keep no state of their own or read source text; factor and
momentum arithmetic, attribution and the numbers inside an evidence slot are formulas whose faults a
numeric test finds; they make up most of the lines that no definition stands for.

## 7. Plan

Modules, in this order:

1. `FrameCache`: read-then-stat of `catalog.py`, against a file replaced in place.
2. `accumulation_cohort.py`, the specification checks of `experiment.py` and the cadence
   and cost grids of the walk-forward commands.
3. The ledger's second part: snapshot and liquidation tax, moving-average lots,
   scheduled deposits, `_validate_config`.
4. The loading of price corrections.

Proofs, in this order: `SameCash` and `SummariesAccount` of `PensionCampaign`; the after-tax campaign; the panel of
`IngestPanel`; the preflight, on the calendar lemmas that are there now.
