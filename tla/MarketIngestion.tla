---------------------------- MODULE MarketIngestion ----------------------------
(***************************************************************************)
(* Daily prices and indicators (backend/app/market/service.py, repository, *)
(* expanded_bootstrap) and the one-shot runner that orders them            *)
(* (backend/app/scheduler/runner.py, readiness.py, jobs.py).               *)
(*                                                                         *)
(* A job ingests its symbols one at a time: it reads the symbol's          *)
(* watermarks, asks the vendor for a window of sessions, and writes bars,  *)
(* indicators and watermark in one transaction.  The transaction begins    *)
(* with the upsert of the stock, whose row lock it keeps to its commit, so *)
(* the writes to one symbol take turns and Store is one step; what was     *)
(* read and fetched before it may be old.  A bar is the number of the      *)
(* vendor's adjustment of history it came from; an indicator is the stored *)
(* series it was computed from.  Names and fundamentals are stored beside  *)
(* them and read by no job.                                                *)
(***************************************************************************)
EXTENDS Integers, FiniteSets, FiniteSetsExt

CONSTANTS
  Equities, Macros,   \* provider symbols; macro proxies have no indicators
  Retired,            \* RETIRED_SYMBOL_REPLACEMENTS: old symbol -> symbol
  Index,              \* market_readiness_symbol
  Expected,           \* EXPECTED_NIFTY50_COUNT
  LastDay, Sessions,  \* the days of the run, and the trading days among them
  Lookback, Overlap,  \* market_bootstrap_lookback_days, _incremental_overlap_days
  FullEvery,          \* market_full_reconciliation_days
  MaxStale,           \* MAX_HISTORY_STALENESS_DAYS
  MinBars, Warmup,    \* bars a full window needs; bars before the first indicator
  Jobs,               \* processes
  MaxAttempts,        \* attempts of the market step of one session
  Scenarios           \* bounds: jobs at one time, jobs started, mishaps, revisions

Symbols == Equities \cup Macros
Days    == 1..LastDay

ASSUME CalendarAssumption == Sessions \subseteq Days /\ LastDay \in Nat \ {0}

ASSUME WindowsAssumption ==
  /\ {Overlap, FullEvery, MaxStale, MinBars, Warmup, MaxAttempts} \subseteq Nat \ {0}
  /\ Lookback \in Nat /\ Lookback >= LastDay    \* targets are less than a window apart

ASSUME ScenariosAssumption ==
  Scenarios \subseteq [together : Nat, starts : Nat, mishaps : Nat, revisions : Nat]

ASSUME SymbolsAssumption ==
  /\ Index \notin Symbols /\ Equities \cap Macros = {}
  /\ Retired \in [DOMAIN Retired -> Equities]

VARIABLES
  scenario,
  today, closed,      \* the market date, and whether its session is final
  quoted, revision,   \* the vendor: last session quoted per symbol, adjustment of history
  listed, approved, active,   \* the official list, open memberships, is_active
  bars, ind, full,    \* daily_prices, indicators, last_full_price_sync_at
  runs,                \* the EOD run of each session
  job,                \* the local variables of each process
  starts, mishaps     \* how much of each bound is spent

world         == <<scenario, today, closed, quoted, revision, listed>>
rows          == <<bars, ind, full>>
marketBudgets == <<starts, mishaps>>
marketVars    == <<world, approved, active, rows, runs, job, marketBudgets>>

NoBar  == -1
NoRows == [d \in Sessions |-> NoBar]

Stored(s) == {d \in Sessions : bars[s][d] # NoBar}
Latest(s) == IF Stored(s) = {} THEN 0 ELSE Max(Stored(s))

NoJob == [pc |-> "idle", kind |-> "none", target |-> 0, at |-> 0, todo |-> {},
          symbol |-> Index, mode |-> "none", start |-> 0, latest |-> 0,
          got |-> NoRows, ok |-> {}, failed |-> {}]

NoSessionRun == [attempts |-> 0, market |-> FALSE, requested |-> {}, status |-> "absent"]

MarketInit ==
  /\ scenario \in Scenarios
  /\ today = 1 /\ closed = FALSE
  /\ quoted = [s \in Symbols \cup {Index} |-> 0]
  /\ revision = 0
  /\ listed = Equities /\ approved = Equities /\ active = Equities \cup DOMAIN Retired
  /\ bars = [s \in Symbols |-> NoRows]
  /\ ind = [s \in Equities |-> [d \in Sessions |-> {}]]
  /\ full = [s \in Symbols |-> 0]
  /\ runs = [d \in Days |-> NoSessionRun]
  /\ job = [j \in Jobs |-> NoJob]
  /\ starts = 0 /\ mishaps = 0

Set(j, r) == job' = [job EXCEPT ![j] = r]

At(j, place) == job[j].pc = place

Busy == {j \in Jobs : job[j].pc \notin {"idle", "ready"}}

InPipeline == {j \in Jobs : job[j].kind = "eod" /\ job[j].pc \in {"next", "fetch", "store", "rest"}}

-----------------------------------------------------------------------------
(* The world outside: the clock, the vendor, the exchange. *)

NextDay ==
  /\ today < LastDay
  /\ today' = today + 1 /\ closed' = FALSE
  /\ UNCHANGED <<scenario, quoted, revision, listed, approved, active, rows, runs, job, marketBudgets>>

(* The session closes and the vendor quotes it, late for some symbols: those
   catch up when the next session closes. *)
CloseSession ==
  /\ ~closed /\ today \in Sessions
  /\ closed' = TRUE
  /\ \E late \in SUBSET (Symbols \cup {Index}) :
       /\ mishaps' = mishaps + Cardinality(late)
       /\ mishaps' <= scenario.mishaps
       /\ quoted' = [s \in Symbols \cup {Index} |-> IF s \in late THEN quoted[s] ELSE today]
  /\ UNCHANGED <<scenario, today, revision, listed, approved, active, rows, runs, job, starts>>

(* A corporate action: the vendor rescales all of its history. *)
Adjust ==
  /\ revision < scenario.revisions
  /\ revision' = revision + 1
  /\ UNCHANGED <<scenario, today, closed, quoted, listed, approved, active, rows, runs, job, marketBudgets>>

(* A universe sync removes a stock from its index (UniverseSync). *)
Remove(s) ==
  /\ mishaps < scenario.mishaps /\ s \in approved
  /\ mishaps' = mishaps + 1
  /\ approved' = approved \ {s} /\ active' = active \ {s} /\ listed' = listed \ {s}
  /\ UNCHANGED <<scenario, today, closed, quoted, revision, rows, runs, job, starts>>

-----------------------------------------------------------------------------
(* The runner: which session, and whether it is ready. *)

Final(d) == d \in Sessions /\ (d < today \/ (d = today /\ closed))
Ready(d) == Final(d) /\ d <= quoted[Index]

ReadySessions == {d \in Days : d <= today /\ d > today - 10 /\ Ready(d)}

Begin(j, kind, d, todo, pc) ==
  Set(j, [NoJob EXCEPT !.pc = pc, !.kind = kind, !.target = d, !.at = today, !.todo = todo])

JobStarted(j) ==
  /\ At(j, "idle") /\ Cardinality(Busy) < scenario.together /\ starts < scenario.starts
  /\ starts' = starts + 1

(* execute_default_once.  A session whose readiness check fails is passed over,
   so the target may be older than the newest session that is ready. *)
ResolveTarget(j) ==
  /\ JobStarted(j)
  /\ \E d \in ReadySessions :
       /\ mishaps' = mishaps + Cardinality({e \in ReadySessions : e > d})
       /\ mishaps' <= scenario.mishaps
       /\ Begin(j, "eod", d, {}, "execute")
  /\ UNCHANGED <<world, approved, active, rows, runs>>

(* main --target-trading-date *)
ExplicitTarget(j) ==
  /\ JobStarted(j)
  /\ \E d \in Days : d <= today /\ Begin(j, "eod", d, {}, "execute")
  /\ UNCHANGED <<world, approved, active, rows, runs, mishaps>>

Universe == approved \cup Macros

Exits(d) ==
  \/ runs[d].status = "completed"
  \/ ~Ready(d)
  \/ InPipeline # {}
  \/ runs[d].attempts >= MaxAttempts /\ ~runs[d].market

(* execute_once and the market step of the control plane; a step that has its
   checkpoint is not run again. *)
Execute(j) ==
  /\ At(j, "execute")
  /\ LET d == job[j].target IN
     IF Exits(d)
     THEN Set(j, NoJob) /\ UNCHANGED runs
     ELSE IF runs[d].market
     THEN /\ Set(j, [job[j] EXCEPT !.pc = "rest"])
          /\ runs' = [runs EXCEPT ![d].status = "running"]
     ELSE /\ runs' = [runs EXCEPT ![d] =
                       [@ EXCEPT !.status = "running", !.attempts = runs[d].attempts + 1]]
          /\ IF approved = {}
             THEN Set(j, NoJob)              \* UniverseNotInitializedError
             ELSE Begin(j, "eod", d, Universe, "next")
  /\ UNCHANGED <<world, approved, active, rows, marketBudgets>>

(* run_market_ingestion: some symbols, or the universe, as of the market date. *)
Trigger(j) ==
  /\ JobStarted(j)
  /\ \E symbols \in {{s} : s \in Equities} \cup ({Universe} \ {Macros}) :
       Begin(j, "api", today, symbols, "next")
  /\ UNCHANGED <<world, approved, active, rows, runs, mishaps>>

-----------------------------------------------------------------------------
(* One symbol. *)

Mode(s, at) ==
  IF Latest(s) = 0 THEN "bootstrap"
  ELSE IF full[s] = 0 \/ at >= full[s] + FullEvery THEN "reconciliation"
  ELSE "incremental"

(* Mutation: the window follows the target and forgets the watermark. *)
BugStart(s, mode, target) ==
  IF mode = "incremental" THEN target - Overlap ELSE target - Lookback

Start(s, mode, target) ==
  IF mode = "incremental" THEN Min({Latest(s), target}) - Overlap ELSE target - Lookback

(* get_price_ingestion_state and plan_price_fetch *)
PlanFetch(j, s) ==
  /\ At(j, "next") /\ s \in job[j].todo
  /\ s \in Macros => job[j].todo \subseteq Macros
  /\ LET mode == Mode(s, job[j].at) IN
     Set(j, [job[j] EXCEPT !.pc = "fetch", !.todo = job[j].todo \ {s}, !.symbol = s, !.mode = mode,
               !.start = Start(s, mode, job[j].target), !.latest = Latest(s)])
  /\ UNCHANGED <<world, approved, active, rows, runs, marketBudgets>>

IsFull(j) == job[j].mode # "incremental"

Answer(j) == {d \in Sessions : job[j].start <= d /\ d <= job[j].target
                               /\ d <= quoted[job[j].symbol]}

(* validate_symbol_history *)
Valid(j, answer) ==
  /\ answer # {}
  /\ IsFull(j) => Cardinality(answer) >= MinBars
  /\ Max(answer) >= job[j].target - MaxStale

Failed(j) ==
  [job[j] EXCEPT !.pc = "next", !.failed = job[j].failed \cup {job[j].symbol}, !.got = NoRows]

(* _fetch_prices; an invalid answer fails the symbol. *)
Fetch(j) ==
  /\ At(j, "fetch")
  /\ IF Valid(j, Answer(j))
     THEN Set(j, [job[j] EXCEPT !.pc = "store",
                    !.got = [d \in Sessions |-> IF d \in Answer(j) THEN revision ELSE NoBar]])
     ELSE Set(j, Failed(j))
  /\ UNCHANGED <<world, approved, active, rows, runs, marketBudgets>>

(* The vendor times out on every attempt, or the database raises: the
   transaction is rolled back and the batch goes on. *)
FailSymbol(j) ==
  /\ job[j].pc \in {"fetch", "store"} /\ mishaps < scenario.mishaps
  /\ mishaps' = mishaps + 1
  /\ Set(j, Failed(j))
  /\ UNCHANGED <<world, approved, active, rows, runs, starts>>

(* upsert_daily_prices *)
Upserted(old, got) == [d \in Sessions |-> IF got[d] = NoBar THEN old[d] ELSE got[d]]

(* compute_indicator_points: each point is a function of the series up to its
   date, defined once the shortest period is filled. *)
Upto(series, d) == {<<e, series[e]>> : e \in {x \in Sessions : x <= d /\ series[x] # NoBar}}

Points(series) == {d \in Sessions : series[d] # NoBar /\ Cardinality(Upto(series, d)) >= Warmup}

(* Mutation: only the points of new sessions are written. *)
BugAffected(series, start) == {d \in Points(series) : d > start}

Affected(series, start) == {d \in Points(series) : d >= start}

(* _can_advance_full_watermark, on the state read before the fetch *)
AdvancesWatermark(j) == IsFull(j) /\ job[j].target >= job[j].latest

RetiredBy(s) == {r \in DOMAIN Retired : Retired[r] = s}

(* _ingest_one, _ingest_macro_one: from upsert_stock to the commit *)
Store(j) ==
  /\ At(j, "store")
  /\ LET s == job[j].symbol
         series == Upserted(bars[s], job[j].got)
     IN /\ bars' = [bars EXCEPT ![s] = series]
        /\ IF s \in Macros
           THEN UNCHANGED <<ind, active>>
           ELSE /\ ind' = [ind EXCEPT ![s] =
                     [d \in Sessions |-> IF d \in Affected(series, job[j].start)
                                         THEN Upto(series, d) ELSE ind[s][d]]]
                /\ active' = (active \cup {s}) \ RetiredBy(s)
        /\ full' = IF AdvancesWatermark(j) THEN [full EXCEPT ![s] = job[j].at] ELSE full
        /\ Set(j, [job[j] EXCEPT !.pc = "next", !.ok = job[j].ok \cup {s}, !.got = NoRows])
  /\ UNCHANGED <<world, approved, runs, marketBudgets>>

-----------------------------------------------------------------------------
(* The end of a batch. *)

(* Mutation: a batch fails only when no symbol succeeded. *)
BugMarketStepFails(j) == job[j].ok = {}

MarketStepFails(j) == job[j].failed # {}

(* _run_market_step raises if a symbol failed; the API returns both lists. *)
FinishIngest(j) ==
  /\ At(j, "next") /\ job[j].todo = {} /\ job[j].kind \in {"eod", "api"}
  /\ LET d == job[j].target IN
     IF job[j].kind = "api"
     THEN Set(j, NoJob) /\ UNCHANGED runs
     ELSE IF MarketStepFails(j)
     THEN Set(j, NoJob) /\ runs' = [runs EXCEPT ![d].status = "failed"]
     ELSE /\ Set(j, [job[j] EXCEPT !.pc = "rest"])
          /\ runs' = [runs EXCEPT ![d] =
                       [@ EXCEPT !.market = TRUE, !.requested = job[j].ok \cup job[j].failed]]
  /\ UNCHANGED <<world, approved, active, rows, marketBudgets>>

(* The news and history steps (EODControlPlane). *)
FinishPipeline(j, status) ==
  /\ At(j, "rest") /\ job[j].kind = "eod"
  /\ mishaps' = IF status = "failed" THEN mishaps + 1 ELSE mishaps
  /\ mishaps' <= scenario.mishaps
  /\ runs' = [runs EXCEPT ![job[j].target].status = status]
  /\ Set(j, NoJob)
  /\ UNCHANGED <<world, approved, active, rows, starts>>

(* A process dies: its open transaction is rolled back, the run stays running
   and a later process takes it over. *)
Die(j) ==
  /\ j \in Busy /\ mishaps < scenario.mishaps
  /\ mishaps' = mishaps + 1
  /\ Set(j, NoJob)
  /\ UNCHANGED <<world, approved, active, rows, runs, starts>>

-----------------------------------------------------------------------------
(* ExpandedBootstrapService.run *)

(* _verify_no_conflicting_jobs and the preflight of the universe; without
   execute the run ends here and has written nothing. *)
Preflight(j, execute) ==
  /\ JobStarted(j)
  /\ IF execute /\ InPipeline = {} /\ Cardinality(listed) = Expected
     THEN Begin(j, "bootstrap", today, {}, "sync")
     ELSE UNCHANGED job
  /\ UNCHANGED <<world, approved, active, rows, runs, mishaps>>

(* The universe sync, then the ingest of what it approved; sync raises unless
   the official source answers with the expected list. *)
BootstrapSync(j) ==
  /\ At(j, "sync")
  /\ IF Cardinality(listed) = Expected
     THEN /\ approved' = listed
          /\ active' = (active \ approved) \cup listed
          /\ Set(j, [job[j] EXCEPT !.pc = "next", !.todo = listed \cup Macros])
     ELSE Set(j, NoJob) /\ UNCHANGED <<approved, active>>
  /\ UNCHANGED <<world, rows, runs, marketBudgets>>

HasPrices(symbols) == {s \in symbols : Stored(s) # {}}

(* "ready": the result says completed; any check that fails raises. *)
BootstrapEnds(j) ==
  /\ At(j, "next") /\ job[j].todo = {} /\ job[j].kind = "bootstrap"
  /\ IF /\ job[j].failed = {}
        /\ Cardinality(job[j].ok) = Expected + Cardinality(Macros)
        /\ Cardinality(approved) = Expected
        /\ HasPrices(Macros) = Macros
     THEN Set(j, [job[j] EXCEPT !.pc = "ready"])
     ELSE Set(j, NoJob)
  /\ UNCHANGED <<world, approved, active, rows, runs, marketBudgets>>

-----------------------------------------------------------------------------
Runner(j) == ResolveTarget(j) \/ ExplicitTarget(j) \/ Execute(j)

Ingest(j) ==
  \/ Trigger(j) \/ Fetch(j) \/ FailSymbol(j) \/ Store(j) \/ FinishIngest(j)
  \/ \E s \in Symbols : PlanFetch(j, s)
  \/ \E status \in {"completed", "failed"} : FinishPipeline(j, status)

Bootstrap(j) ==
  \/ \E execute \in BOOLEAN : Preflight(j, execute)
  \/ BootstrapSync(j) \/ BootstrapEnds(j)

MarketNext ==
  \/ NextDay \/ CloseSession \/ Adjust
  \/ \E s \in Equities : Remove(s)
  \/ \E j \in Jobs : Runner(j) \/ Ingest(j) \/ Bootstrap(j) \/ Die(j)

MarketSpec == MarketInit /\ [][MarketNext]_marketVars
-----------------------------------------------------------------------------
(* The stored indicators are those of the stored series: a point for every
   session from the end of the warm-up on, computed from the bars as they are
   now, although bars are corrected by jobs that fetched them in any order. *)
IndicatorsMatchPrices ==
  \A s \in Equities : \A d \in Sessions :
    ind[s][d] = IF d \in Points(bars[s]) THEN Upto(bars[s], d) ELSE {}

(* The series of a symbol has no hole: a session whose own run failed, or that
   no run was made for, is stored with the next session that succeeds, because
   the window begins at the symbol's own watermark and not at the target's eve
   (plan_price_fetch), although the watermark was read before another job's
   commit. *)
SeriesHaveNoGaps ==
  \A s \in Symbols : \A d, e, x \in Sessions :
    {d, e} \subseteq Stored(s) /\ d < x /\ x < e => x \in Stored(s)

(* Whoever reports completion has the data.  A completed EOD run vouches for
   every symbol it was asked for: each has bars up to the staleness that the
   validation allows, for a symbol that failed and was rolled back while the
   batch went on fails the run (_run_market_step), and a checkpointed step is
   not repeated.  A finished bootstrap has prices for the whole universe it
   approved (ExpandedBootstrapService.run). *)
CompletionIsCovered ==
  /\ \A d \in Days : runs[d].status = "completed" =>
       /\ Macros \subseteq runs[d].requested
       /\ \A s \in runs[d].requested : Latest(s) >= d - MaxStale
  /\ \A j \in Jobs : At(j, "ready") => job[j].ok = HasPrices(job[j].ok)
===============================================================================
