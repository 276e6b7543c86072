--------------------------- MODULE PensionCampaign ---------------------------
(***************************************************************************)
(* The cohort campaign of the pension arms: every arm runs every cohort    *)
(* under every tax profile, is paired with the baseline's exit of the same *)
(* profile and cohort, and, in the household view, with the same cash in a *)
(* general account.  What is expensive is cached, what has no meaning (a   *)
(* ratio to zero, a real value without a fresh index) is left undefined.   *)
(*                                                                         *)
(* A year has two dates.  What the engines answer for an arm, a profile    *)
(* and a window is chosen once, as their runs are deterministic.           *)
(***************************************************************************)
EXTENDS Integers, Sequences, FiniteSets, FiniteSetsExt, SequencesExt, Functions

CONSTANTS
  Arms, Profiles,       \* sequences of ids; the first arm is the baseline
  CampaignYears, HorizonYears, \* the window, and a sequence of cohort lengths
  StepYears,
  CashEvents,           \* date -> won that becomes available
  Engines,              \* <<arm, profile, window>> -> [yearly, refund, liquidation, low, external, payouts]
  Yield,                \* arm -> yield of a general account
  IndexRows,            \* sets of CPI rows [period, at, value] that may be held
  MaxIndexAge,
  Missing

Baseline == Arms[1]
FirstDate(y) == 2 * y - 1
LastDate(y) == 2 * y
YearOfDate(d) == (d + 1) \div 2
SettleDate(y) == FirstDate(y + 1)

RollingCohorts(horizon, step) ==
  {w \in (1 .. CampaignYears) \X (1 .. CampaignYears) :
     w[2] = w[1] + horizon - 1 /\ (w[1] - 1) % step = 0}
Windows == UNION {RollingCohorts(h, 1) : h \in Range(HorizonYears)}
DatesOf(w) == FirstDate(w[1]) .. LastDate(w[2])

ASSUME CampaignAssumption ==
  /\ \A h \in Range(HorizonYears) : h \in 1 .. CampaignYears
  /\ DOMAIN CashEvents \subseteq 1 .. LastDate(CampaignYears)
  /\ \A f \in Engines : \A c \in DOMAIN f : f[c].liquidation = 0 => f[c].low = 0
  /\ \A index \in IndexRows \ {Missing} : IsFiniteSet(index) /\ \A r \in index : r.period \in Int

VARIABLES
  engine, cpi, household,  \* given
  block,                   \* [horizon, arm] in progress, counted
  cells,                   \* the [profile, window] it still has to run
  tally,                   \* [ratios, undefined, defined]
  rows, householdRows, summaries,
  baselineCache, generalCache,
  excluded,                \* cells skipped for their payouts
  failed

given == <<engine, cpi, household>>
caches == <<baselineCache, generalCache>>
campaignVars == <<given, block, cells, tally, rows, householdRows, summaries, caches, excluded, failed>>

Blocks == Len(HorizonYears) * Len(Arms)
HorizonOf(b) == HorizonYears[1 + (b - 1) \div Len(Arms)]
ArmOf(b) == Arms[1 + ((b - 1) % Len(Arms))]
Fresh == [ratios |-> {}, undefined |-> 0, defined |-> [p \in Range(Profiles) |-> 0]]
CellsOf(b) ==
  LET cohorts == SetToSortSeq(RollingCohorts(HorizonOf(b), StepYears), LAMBDA v, w : v[1] < w[1])
  IN  FlattenSeq([i \in DOMAIN Profiles |-> [j \in DOMAIN cohorts |-> [profile |-> Profiles[i], window |-> cohorts[j]]]])

CampaignInit ==
  /\ engine \in Engines
  /\ cpi \in IndexRows /\ household \in BOOLEAN
  /\ household => cpi # Missing
  /\ block = 1 /\ cells = CellsOf(1) /\ tally = Fresh
  /\ rows = {} /\ householdRows = {} /\ summaries = <<>>
  /\ baselineCache = <<>> /\ generalCache = <<>> /\ excluded = {} /\ failed = FALSE

-----------------------------------------------------------------------------
(* The household's cash *)

CashTotal(f) == MapThenSumSet(LAMBDA d : f[d], DOMAIN f)
Available(w) == [d \in DOMAIN CashEvents \cap DatesOf(w) |-> CashEvents[d]]
YearsOf(w) == w[1] .. w[2]
CashOfYear(w, y) == MapThenSumSet(LAMBDA d : CashEvents[d], {d \in DOMAIN Available(w) : YearOfDate(d) = y})
Deposits(amounts) == LET days == {d \in DOMAIN amounts : amounts[d] > 0} IN [d \in days |-> amounts[d]]

SettledAll(w) == YearsOf(w)
Settled(w) == {y \in YearsOf(w) : SettleDate(y) <= LastDate(w[2])}

\* The leftover of a year goes in on its first cash date, a refund when it is
\* settled; what is settled after the cohort stays a receivable.
CashPlan(out, w) ==
  LET leftover(y) == CashOfYear(w, y) - out.yearly
      first(y) == Min({d \in DOMAIN Available(w) : YearOfDate(d) = y})
      into(d) == MapThenSumSet(LAMBDA y : leftover(y), {y \in YearsOf(w) : CashOfYear(w, y) > 0 /\ first(y) = d})
                 + out.refund * Cardinality({y \in Settled(w) : SettleDate(y) = d})
  IN  [side |-> Deposits([d \in DatesOf(w) |-> into(d)]),
       contributed |-> out.yearly * Cardinality(YearsOf(w)),
       settled |-> out.refund * Cardinality(Settled(w)),
       pending |-> out.refund * (Cardinality(YearsOf(w)) - Cardinality(Settled(w)))]
Fundable(out, w) == \A y \in YearsOf(w) : out.yearly <= CashOfYear(w, y)

\* The general account engine on a schedule of deposits.
General(arm, deposits, w) ==
  MapThenSumSet(LAMBDA d : deposits[d] * (2 + Yield[arm] * (LastDate(w[2]) - d)), DOMAIN deposits)

GeneralKeyLoose(h, arm, w) == <<h, w>>
GeneralKey(h, arm, w) == <<h, arm, w>>
Cached(cache, key, fresh) == IF key \in DOMAIN cache THEN cache[key] ELSE fresh
Caching(cache, key, value) == [k \in DOMAIN cache \cup {key} |-> IF k = key THEN value ELSE cache[k]]

SideValueByTotal(arm, plan, w, general) ==
  IF CashTotal(plan.side) = CashTotal(Available(w)) THEN general ELSE General(arm, plan.side, w)
SideValue(arm, plan, w, general) ==
  IF DOMAIN plan.side = {} THEN 0
  ELSE IF plan.side = Available(w) THEN general ELSE General(arm, plan.side, w)

-----------------------------------------------------------------------------
(* A cell *)

BaselineKeyLoose(h, w, p) == <<h, w>>
BaselineKey(h, w, p) == <<h, w, p>>
ExitOf(out) == [liquidation |-> out.liquidation, low |-> out.low]
BaselineExit(h, w, p) == Cached(baselineCache, BaselineKey(h, w, p), ExitOf(engine[<<Baseline, p, w>>]))

\* The latest index value known on a date, if it is recent enough.
IndexAtUnseen(d) ==
  IF cpi = Missing \/ cpi = {} THEN Missing
  ELSE LET latest == CHOOSE r \in cpi : \A q \in cpi : q.period <= r.period
       IN  IF d - latest.period <= MaxIndexAge THEN latest.value ELSE Missing
IndexAt(d) ==
  LET known == IF cpi = Missing THEN {} ELSE {r \in cpi : r.at <= d}
  IN  IF known = {} THEN Missing
      ELSE LET latest == CHOOSE r \in known : \A q \in known : q.period <= r.period
           IN  IF d - latest.period <= MaxIndexAge THEN latest.value ELSE Missing

Row(b, cell, out, base) ==
  LET from == IndexAt(FirstDate(cell.window[1]))
      to == IndexAt(LastDate(cell.window[2]))
  IN  [horizon |-> HorizonOf(b), arm |-> ArmOf(b), profile |-> cell.profile, window |-> cell.window,
       liquidation |-> out.liquidation, low |-> out.low, base |-> base,
       ratio |-> IF base.liquidation = 0 THEN Missing
                 ELSE IF ArmOf(b) = Baseline THEN <<1, 1>>
                 ELSE IF base.low = 0 THEN Missing ELSE <<out.liquidation, base.liquidation>>,
       real |-> IF from = Missing \/ to = Missing THEN Missing ELSE <<from, to>>]

HouseholdRow(b, cell, out, general) ==
  LET plan == CashPlan(out, cell.window)
      side == SideValue(ArmOf(b), plan, cell.window, general)
      net == out.liquidation - out.external
  IN  [horizon |-> HorizonOf(b), arm |-> ArmOf(b), profile |-> cell.profile, window |-> cell.window,
       plan |-> plan, general |-> general, side |-> side, total |-> net + side + plan.pending]

Evaluate ==
  /\ ~failed /\ block <= Blocks /\ cells # <<>>
  /\ LET cell == Head(cells)
         h == HorizonOf(block)
         arm == ArmOf(block)
         out == engine[<<arm, cell.profile, cell.window>>]
         base == BaselineExit(h, cell.window, cell.profile)
         row == Row(block, cell, out, base)
         key == GeneralKey(h, arm, cell.window)
         general == Cached(generalCache, key, General(arm, Available(cell.window), cell.window))
         compared == household /\ ~out.payouts
     IN  /\ compared => Fundable(out, cell.window) /\ general > 0
         /\ cells' = Tail(cells)
         /\ rows' = rows \cup {row}
         /\ baselineCache' = Caching(baselineCache, BaselineKey(h, cell.window, cell.profile), base)
         /\ excluded' = IF household /\ out.payouts
                        THEN excluded \cup {<<h, arm, cell.profile, cell.window>>} ELSE excluded
         /\ generalCache' = IF compared THEN Caching(generalCache, key, general) ELSE generalCache
         /\ householdRows' = IF compared THEN householdRows \cup {HouseholdRow(block, cell, out, general)}
                             ELSE householdRows
         /\ tally' = IF row.ratio = Missing THEN [tally EXCEPT !.undefined = @ + 1]
                     ELSE [tally EXCEPT !.ratios = @ \cup {<<cell.profile, cell.window, row.ratio>>},
                                        !.defined[cell.profile] = @ + 1]
  /\ UNCHANGED <<given, block, summaries, failed>>

\* Contributions that a year's cash does not cover stop the campaign, as a
\* general account that is worth nothing would.
StopCampaign ==
  /\ ~failed /\ block <= Blocks /\ cells # <<>> /\ household
  /\ LET cell == Head(cells)
         out == engine[<<ArmOf(block), cell.profile, cell.window>>]
     IN  /\ ~out.payouts
         /\ IF Fundable(out, cell.window) THEN General(ArmOf(block), Available(cell.window), cell.window) <= 0 ELSE TRUE
  /\ failed' = TRUE
  /\ UNCHANGED <<given, block, cells, tally, rows, householdRows, summaries, caches, excluded>>

Worse(a, b) == a[1] * b[2] < b[1] * a[2]
WorstRatio(ratios) == IF ratios = {} THEN Missing ELSE CHOOSE r \in ratios : \A q \in ratios : ~Worse(q, r)

\* Windows that tell the arm something: the baseline is defined there for a profile.
InformativeAny(h) == RollingCohorts(h, h)
Informative(h) ==
  {w \in RollingCohorts(h, h) : \E p \in Range(Profiles) : BaselineExit(h, w, p).liquidation # 0}

Summarize ==
  /\ ~failed /\ block <= Blocks /\ cells = <<>>
  /\ LET h == HorizonOf(block)
         ratios == {r[3] : r \in tally.ratios}
         asked == IF tally.ratios = {} THEN {} ELSE RollingCohorts(h, h) \X Range(Profiles)
     IN  /\ summaries' = Append(summaries,
              [horizon |-> h, arm |-> ArmOf(block), cohorts |-> Cardinality(tally.ratios),
               undefined |-> tally.undefined,
               hollow |-> {p \in Range(Profiles) : tally.defined[p] = 0},
               independent |-> IF tally.ratios = {} THEN 0 ELSE Cardinality(Informative(h)),
               under |-> Cardinality({r \in tally.ratios : Worse(r[3], <<1, 1>>)}),
               worst |-> WorstRatio(ratios)])
         /\ baselineCache' =
              [k \in DOMAIN baselineCache \cup {BaselineKey(h, a[1], a[2]) : a \in asked} |->
                 IF k \in DOMAIN baselineCache THEN baselineCache[k]
                 ELSE LET a == CHOOSE a \in asked : BaselineKey(h, a[1], a[2]) = k IN BaselineExit(h, a[1], a[2])]
         /\ block' = block + 1 /\ tally' = Fresh
         /\ cells' = IF block < Blocks THEN CellsOf(block + 1) ELSE <<>>
  /\ UNCHANGED <<given, rows, householdRows, generalCache, excluded, failed>>

CampaignNext == Evaluate \/ StopCampaign \/ Summarize
CampaignSpec == CampaignInit /\ [][CampaignNext]_campaignVars

-----------------------------------------------------------------------------
(* Properties *)

\* What a cell takes from a cache is what the engine would answer for this
\* very cell: its own profile, arm and window.
CachesFresh ==
  /\ \A r \in rows : r.base = ExitOf(engine[<<Baseline, r.profile, r.window>>])
  /\ \A r \in householdRows :
       /\ r.general = General(r.arm, Available(r.window), r.window)
       /\ r.side = General(r.arm, r.plan.side, r.window)

\* Both sides of the household comparison start from the same cash: what went
\* to the pension and to the side account is the household's cash and the
\* refunds paid within the cohort, and a refund is either paid or pending.  A
\* household that contributes nothing measures its general account exactly,
\* if every year's cash comes on one date: the leftover of a year goes in on
\* the first.
OneEventYears(w) == \A d, e \in DOMAIN Available(w) : YearOfDate(d) = YearOfDate(e) => d = e
SameCash == \A r \in householdRows :
  LET out == engine[<<r.arm, r.profile, r.window>>] IN
  /\ CashTotal(r.plan.side) + r.plan.contributed = CashTotal(Available(r.window)) + r.plan.settled
  /\ r.plan.settled + r.plan.pending = out.refund * Cardinality(YearsOf(r.window))
  /\ \A d \in DOMAIN r.plan.side : d \in DatesOf(r.window)
  /\ r.plan.contributed = 0 /\ out.refund = 0 /\ OneEventYears(r.window) => r.total = r.general + out.liquidation - out.external

\* No cohort disappears: a summary's cohorts are the defined and the undefined
\* ones, a profile is hollow when none of its ratios is defined, and the
\* household view has each cohort as a row or as an exclusion.
SummariesAccount == \A i \in DOMAIN summaries :
  LET s == summaries[i]
      own == {r \in rows : r.arm = s.arm /\ r.horizon = s.horizon}
  IN  /\ s.cohorts + s.undefined = Len(Profiles) * Cardinality(RollingCohorts(s.horizon, StepYears))
      /\ s.hollow = {p \in Range(Profiles) : \A r \in own : r.profile = p => r.ratio = Missing}
      /\ s.worst # Missing => \A r \in own : r.ratio # Missing => ~Worse(r.ratio, s.worst)
      /\ s.arm = Baseline => s.worst \in {Missing, <<1, 1>>} /\ s.under = 0
      /\ s.independent <= Cardinality({r.window : r \in {r \in own : r.base.liquidation # 0}})
      /\ household => Cardinality({r \in householdRows : r.arm = s.arm /\ r.horizon = s.horizon})
                      + Cardinality({e \in excluded : e[1] = s.horizon /\ e[2] = s.arm}) = Cardinality(own)

\* A real value divides by index values that were published by its dates.
RealValuesKnown == \A r \in rows : r.real # Missing =>
  /\ \E q \in cpi : q.value = r.real[1] /\ q.at <= FirstDate(r.window[1])
  /\ \E q \in cpi : q.value = r.real[2] /\ q.at <= LastDate(r.window[2])

CampaignSound == CachesFresh /\ SameCash /\ SummariesAccount /\ RealValuesKnown

-----------------------------------------------------------------------------
(***************************************************************************)
(* The won rate of a pension campaign: the Bank of Korea quotes Korean     *)
(* business days, the Federal Reserve series fills the days between two of *)
(* its quotes that it misses, and a campaign that leans on the second      *)
(* source for too many sessions is refused.  A quote is known by its day;  *)
(* rates themselves are left out.                                          *)
(***************************************************************************)

CONSTANTS
  LastQuoteDay,
  Lateness,          \* days a fallback quote may take to appear
  FxSessions,          \* days the American market trades
  CapPercent         \* of sessions that may rest on the fallback

QuoteDays == 1 .. LastQuoteDay
ASSUME FxAssumption ==
  /\ LastQuoteDay \in Nat \ {0} /\ Lateness \subseteq Nat
  /\ FxSessions \subseteq QuoteDays /\ CapPercent \in 0 .. 100

VARIABLES
  fxDay, baseQuotes,   \* days the primary quoted
  fallback,            \* [date, at] quotes of the second source
  held,                \* dataset -> "absent", "damaged" or "trusted"
  campaign             \* "none", "error", "refused" or the series accepted

fxVars == <<fxDay, baseQuotes, fallback, held, campaign>>

Sources == {"prices", "base", "fx", "cpi"}
FxInit ==
  /\ fxDay = 0 /\ baseQuotes = {} /\ fallback = {}
  /\ held \in [Sources -> {"absent", "damaged", "trusted"}]
  /\ campaign = [status |-> "none"]

\* A day passes: either source quotes it or not.
QuoteDay == \E base \in BOOLEAN, second \in {{}} \cup {{late} : late \in Lateness} :
  /\ campaign.status = "none"
  /\ fxDay < LastQuoteDay
  /\ fxDay' = fxDay + 1
  /\ baseQuotes' = IF base THEN baseQuotes \cup {fxDay'} ELSE baseQuotes
  /\ fallback' = fallback \cup {[date |-> fxDay', at |-> fxDay' + late] : late \in second}
  /\ UNCHANGED <<held, campaign>>

SessionsTraded == {s \in FxSessions : s <= fxDay}

AdmittedTrailing(primary, second) ==
  {q.date : q \in {q \in second : q.at = q.date /\ q.date \notin primary /\ Min(primary) < q.date}}
AdmittedLate(primary, second) ==
  {q.date : q \in {q \in second : q.date \notin primary /\ Min(primary) < q.date /\ q.date < Max(primary)}}
Admitted(primary, second) ==
  {q.date : q \in {q \in second : /\ q.at = q.date /\ q.date \notin primary
                                  /\ Min(primary) < q.date /\ q.date < Max(primary)}}

\* FxSessions whose latest quote came from the second source.
FallbackSessionsSame(primary, admitted) == SessionsTraded \cap admitted
FallbackSessions(primary, admitted) ==
  {s \in SessionsTraded : LET known == {d \in primary \cup admitted : d <= s}
                    IN  known # {} /\ Max(known) \in admitted}

OverCap(relying) == 100 * Cardinality(relying) > CapPercent * Cardinality(SessionsTraded)

\* The second source and the consumer prices, which are read after it, are
\* optional: never published is absence, published but unverifiable stops the
\* campaign.
SourcesHoldLenient == held["prices"] = "trusted" /\ held["base"] = "trusted"
SourcesHold == held["prices"] = "trusted" /\ held["base"] = "trusted" /\ held["fx"] # "damaged"

FailCampaign ==
  /\ campaign.status = "none" /\ fxDay > 0 /\ ~(SourcesHold /\ baseQuotes # {})
  /\ campaign' = [status |-> "error"]
  /\ UNCHANGED <<fxDay, baseQuotes, fallback, held>>

RunCampaign ==
  /\ campaign.status = "none" /\ fxDay > 0 /\ SourcesHold /\ baseQuotes # {}
  /\ LET second == IF held["fx"] = "absent" THEN {} ELSE {q \in fallback : q.at <= fxDay}
         admitted == Admitted(baseQuotes, second)
         relying == FallbackSessions(baseQuotes, admitted)
     IN  campaign' = IF OverCap(relying) THEN [status |-> "refused"]
                     ELSE IF held["cpi"] = "damaged" THEN [status |-> "error"]
                     ELSE [status |-> "accepted", admitted |-> admitted,
                           source |-> IF held["fx"] = "absent" THEN "unavailable"
                                      ELSE IF admitted = {} THEN "not needed" ELSE "applied"]
  /\ UNCHANGED <<fxDay, baseQuotes, fallback, held>>

FxNext == QuoteDay \/ FailCampaign \/ RunCampaign
FxSpec == FxInit /\ [][FxNext]_fxVars

-----------------------------------------------------------------------------
Accepted == campaign.status = "accepted"

\* A truncated or stale primary stays visible: the second source never reaches
\* past its first and last quote, never replaces one, and is never read later
\* than the day it quotes (build_krw_fx_series).
FallbackInterior == Accepted => \A d \in campaign.admitted :
  /\ d \notin baseQuotes
  /\ \E a, b \in baseQuotes : a < d /\ d < b
  /\ [date |-> d, at |-> d] \in fallback

\* The share that is capped counts every session valued with a second-source
\* quote, the ones after it until the next primary quote included.
FallbackShareTrue == Accepted =>
  LET valuedOn(s) == {d \in baseQuotes \cup campaign.admitted : d <= s /\ \A e \in baseQuotes \cup campaign.admitted :
                                                                          e <= s => e <= d}
      truly == {s \in SessionsTraded : \E d \in valuedOn(s) : d \notin baseQuotes}
  IN  100 * Cardinality(truly) <= CapPercent * Cardinality(SessionsTraded)

\* What is published but cannot be verified stops the campaign; it is never
\* taken for absence.
DamageNeverAbsence == Accepted => "damaged" \notin {held[d] : d \in DOMAIN held}

FxSound == FallbackInterior /\ FallbackShareTrue /\ DamageNeverAbsence
=============================================================================
