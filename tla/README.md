# FinSight AI: formal models

TLA+ models of the FinSight AI repository (`backend/`, `frontend/`), their
model-checking runs and their proofs. Every definition is translated from the
source; `PROJECT.json` maps definitions to source lines, lists the hazards of
the code and the properties that guard against them, and names for each
property a plausible mistake in the code that breaks it.

Run one model with `tlc -config X.cfg MCModule.tla`, check the proofs with
`tlapm XProofs.tla`.

## Inventory

A FastAPI backend over PostgreSQL collects end-of-day market data and news,
derives sentiment and a corpus of comparable sessions, writes research reports
and answers questions; the numbers are computed and the prose may come from a
language model. A Next.js frontend shows it. One-shot runners started by GitHub
Actions do the daily work; API processes serve users. Processes meet in the
database, through advisory locks, and in the files of the history cache.

| component | state | operations | what makes it correct | modules |
|-----------|-------|------------|-----------------------|---------|
| EOD control plane (`scheduler/control_plane.py`, `locks.py`) | `pipeline_runs`, `pipeline_run_steps`, an advisory lock per date | start, resume, recover, checkpoint, fail, heartbeat | checkpoints never ahead of data, in order, final; a live run is left alone; the run completes | `EODControlPlane`, `CheckpointedPipeline` |
| EOD runner, market ingestion, bootstrap (`scheduler/runner.py`, `readiness.py`, `jobs.py`, `market/service.py`, `expanded_bootstrap.py`) | `daily_prices`, `indicators`, full-sync watermark, approved universe | choose the target, plan a window, fetch, upsert, recompute, vouch | indicators follow prices; no holes; completion means data | `MarketIngestion` |
| Universe synchronization (`market/universe_sync.py`) | snapshots, memberships, stock activity | fetch or fall back, resolve, diff, apply | one open membership per stock and index; removals are sourced; active when held | `UniverseSync` |
| News ingestion (`news/service.py`) | articles, tags, `daily_sentiment` | fetch, deduplicate, insert, retag, aggregate | each story once; sentiment follows the tags | `NewsIngestion` |
| History index (`history/service.py`, `artifacts.py`) | `historical_sessions`, generation directories, a file lock | build, publish, load, query | only committed corpora are cached; an answer is made of one corpus | `HistoryIndex` |
| History features and similarity (`history/session_builder.py`, `feature_engineering.py`, `similarity.py`, `embeddings.py`) | none of its own | engineer sessions, outcomes, normalise, search, count | no look-ahead; an outcome is the next trading day's | `Analogues` |
| Reports (`intelligence/service.py`, `reports/`) | `reports` with a unique `(owner, key)` | generate, insert or give way, replay | a retried call stores one report and gets the original | `ReportIdempotency` |
| Narration (`intelligence/generation.py`, `llm_client.py`) | calls and seconds left in one request | reserve, call, validate, retry, fall back | budget and deadline hold; nothing ungrounded is published | `NarrativeBudget` |
| Recommendations, prompts, chat (`intelligence/`, `chat/service.py`) | `chat_history`, and what a request has read | score, rank, draft, answer, store, clear | picks have evidence; an answer tells one story; whole exchanges | `Research`, `Narratives` |
| Browser sessions (`frontend/lib/api.ts`, `auth-context.tsx`, `auth-events.ts`, `auth/service.py`) | `sessions`, cookies, per-tab CSRF token and status | hydrate, refresh, log in, log out, hear events | one successor per refresh token; tabs agree with the cookies | `BrowserSessions` |
| Accounts (`auth/service.py`, `google.py`, `password_reset.py`, `dependencies.py`) | users, identities, reset links, attempt windows | register, log in, Google sign-in, reset, limit | no account without a way in; the limiter's window | `Accounts` |
| Strategies and their data (`strategy/service.py`, `repository.py`, `data.py`) | strategies, versions, runs | edit, run, analyse, load | versions never change; a result can be reproduced; no look-ahead | `Strategies`, `StrategyData` |
| Backtest replay (`strategy/engine.py`) | account, positions, pending orders | exits and entries at the open, stops, signals at the close | no signal trades on its own bar; the ledger balances | `BacktestEngine` |
| Market pages (`market/service.py`, `signals.py`, `attribution.py`) | none: reads | quotes, breadth, sectors, rotation, attribution | what is missing counts for nothing; pages agree | `MarketQueries` |
| Portfolio (`portfolio/`) | holdings | edit, value, measure risk, try a scenario | pages agree; contributions add up; scenarios foretell | `Portfolios` |
| Discovery (`discovery/`) | saved screens | parse, execute, save, run | narrowing narrows; a saved screen answers its text | `Discovery` |
| Backtest robustness, text tagging, dashboard, exporters, shared clients, pages, migrations | none or static | pure functions, reads, wiring | | not modelled, see the end |

Interactions: the runner calls the control plane, which calls market ingestion,
news ingestion and the history build in this order; reports, recommendations
and chat read all of them and narrate through one LLM client; strategies and
the pages read the stored rows; every page of the frontend sends its requests
through the single-flight refresh. Hard behaviours: processes that die
anywhere, locks lost with their connection, retries of calls that may have been
committed, READ COMMITTED reads that straddle other commits, files moved under
readers, answers that overtake each other, providers that answer late or not at
all, and one quantity computed by several pieces of code.

## How the models are put together

Each component has a module with its variables, `Init`, one action per
handler or transaction, `Next` and its properties. Modules are composed where
components share state: `Narratives` extends `Research`, since texts are made of
the drafts and recommendations of the same behaviour; `CheckpointedPipeline` is
the abstract specification that `EODControlPlane` is shown to implement.

Components that share no variable but run under the same bounds share an MC
module (`MCEndOfDay`, `MCReports`, `MCUniverse`, `MCHistory`, `MCSessions`,
`MCStrategies`, `MCMarketPages`). Its variable `subject` says which component
a behaviour is about, and the others stutter in one initial state. TLC then
explores the sum of the state spaces and not their product, which is all that
independent components need. A fair action must then be disabled where its
component has not begun, or fairness would rule the other subjects' behaviours
out: requests, jobs and processes begin by a step that nothing forces, and each
progress property starts from one that has begun. `MCEODControlPlane` and
`MCAccounts` instantiate one component.

## Runs

| run | instance | question |
|-----|----------|----------|
| `eod_safety` | control plane: 2 processes, 3 steps, 2 crashes, 2 failures, reliable lock; market: one equity with a retired name, one macro, four days with a holiday, overlapping or successive jobs | orderly runs, final checkpoints, respect for a fresh heartbeat, refinement of `CheckpointedPipeline`; indicators follow bars, no holes, completion means data |
| `eod_live` | 2 processes, 2 steps; any two of a crash, a failing step and a lost lock | every attempt ends, the logical run completes |
| `eod_heartbeat_stolen` | violation | "a recent heartbeat is not stolen even if the lock connection was interrupted" |
| `reports` | 3 requests, 2 users, a key or none; 2 sections and the summary with 3 calls; 2 asks, 2 companies, 2 events | retries converge and end; narrations respect the budget and end; whole exchanges, one story per answer, every pick explained and its text publishable |
| `chat_grounding` | violation | the deterministic answer always passes the validator |
| `universe` | 2 indices, 2 listings and a replaced one, 2 days; 2 ingesters, 3 items of 2 stories, 2 stocks | memberships, sourced removals, exact sentiment; every sync and ingest ends |
| `universe_active_race` | violation | a stock is inactive only without another open membership |
| `history` | 2 processes, 3 jobs, 2 mishaps, a price correction; 2 stocks over four days with gaps and changing memberships | the cache is sound, an intact generation stays, one corpus per answer, every job ends; sessions are point-in-time, analogues honest |
| `sessions` | 2 tabs, 2 slots, up to 3 sessions; 3 requests, 2 addresses, one Google subject, 2 passwords | refreshes converge, quiet tabs agree; accounts are reachable, the limiter's window holds |
| `oauth_duplicate` | violation | a duplicated Google callback converges on the winner |
| `strategies` | 2 stocks, 4 sessions, one or two slots; 4 requests, 2 definitions; 2 stocks, 3 sessions, an article, a leaver, nested rules | honest ledger and orders, reproducible runs, point-in-time bars, signals that rest on data |
| `market_pages` | 2 stocks, 3 closes; 2 stocks, 3 dates, 2 edits; 3 stocks, 7 screens | missing is neutral, pages agree, contributions and scenarios, honest screens |

The four violations are disagreements between the code and what a comment or
a document of the repository says of it; `PROJECT.json` quotes the lines.

Deadlock is not checked in the sum runs, whose components finish their requests
and stop. Model values are interchangeable where `SYMMETRY` says so, and no run
that checks liveness under fairness uses symmetry.

## The end-of-day control plane

**Code.** `backend/app/scheduler/control_plane.py`, `locks.py`, `jobs.py`,
`models.py`, `repository.py`, `constants.py`.

**Modules.** `EODControlPlane` (the system), `CheckpointedPipeline` (what it
promises), `EndOfDayProofs` (TLAPS, with market ingestion).

One logical run is one `(pipeline_name, target_trading_date)` pair, executed by
one-shot runner processes. Each short `session_factory.begin()` transaction of
`EODControlPlane.execute` is one action; what a process holds in memory between
two transactions is a variable of its own.

| TLA+ | code |
|------|------|
| `run`, `step` | the `pipeline_runs` row and its `pipeline_run_steps` rows; `error` is `last_error_summary IS NOT NULL` |
| `age` | `now - run.heartbeat_at`, in ticks, saturating just past `PIPELINE_STALE_AFTER_SECONDS` |
| `work` | the steps whose domain service has committed its data |
| `lock` | the PostgreSQL session that holds the advisory lock of the run |
| `pc`, `at`, `seen`, `outcome`, `result` | the position of a process in `execute`, the ORM snapshot of `run.steps` it iterates over, what the handler returned or raised, what it is about to return |
| `CreateRun`, `RecoverStale`, `ResumeRun`, `LeaveAlone` | the ways out of `_start_or_resume` |
| `MarkRunStarted` ... `MarkRunCompleted` | the `_mark_*` transactions, `_heartbeat` |
| `HandlerSucceeds`, `HandlerSkips`, `HandlerRaises` | the step handler under `_run_with_heartbeat`; a raising handler may or may not have committed its data |
| `Crash` | the process dies, or a control-plane transaction raises out of `execute` |
| `LoseLock` | the server ends the lock session while the process goes on |
| `Tick` | time passes |

Counters, correlation ids and all timestamps but the run heartbeat are left out:
no decision reads them. A transaction is atomic. That is exact while the lock
excludes other writers; when a lost lock lets two processes write the same rows
under READ COMMITTED, only `CheckpointHasData` and `AttemptsTerminate`, which
rest on no read-modify-write of another process, are claimed.

**Bounds.** Three steps are the production pipeline (market, news, history). Two
processes are enough for every pairwise interleaving on one advisory lock; the
proofs remove the bound. Two crashes allow a crash inside the attempt that
recovers from the first one. `StaleAfter = 1` gives ages below, at and past the
threshold. In `eod_live` two troubles of three kinds allow a recovery that
itself meets a failing step or loses its lock.

**Fairness.** `Fairness` assumes that time passes, that a live process keeps
running its event loop (so a handler eventually returns or raises: every provider
call has a timeout, and the workflow kills a job after 90 minutes, which is a
crash), and that attempts keep being made for the date (three scheduled attempts
a day, manual dispatch). It assumes nothing of crashes, failures or lost
connections beyond their bound.

**Proofs.** `EndOfDayProofs` proves, for any set of processes, any number
of steps and any threshold: `OrderlyRuns` (the conjunction the run checks) from
`CheckpointsHaveData`, `StepsInOrder`, `CompletedRunsAreWhole` and
`StepsOncePerAttempt`; `TypeCorrect`, `HeartbeatsAreRespected`,
`FinishedWorkIsKept` and the refinement `ImplementsPipeline`. The invariants of
the runs are not inductive. The strengthening is `RunTypeInv /\ FencedInv`: as long
as no lock connection has dropped, a process inside an attempt holds the lock
(`Exclusive`), so its snapshot agrees with the rows on what is checkpointed
(`SnapshotCurrent`), the step it believes to run is the only running one
(`OneStepRunning`), a run about to be started is resumable (`BeginsResumable`),
and everything before a touched step is checkpointed (`Prefix`).
`CheckpointHasData` needs none of this and is proved from `DataInv` without any
assumption on the lock. `RowChanges` sums up what a fenced step can do to the
rows; finality and the refinement follow from it. Assumptions: the four named
`ASSUME`s of `EODControlPlane`, and `[]Fenced` in the refinement theorem.


## Reports, narration, recommendations and chat

**Code.** `backend/app/intelligence/`, `backend/app/reports/`, `backend/app/chat/service.py`.

**Modules.** `ReportIdempotency`, `NarrativeBudget`, `Research` and `Narratives`,
`ReportsProofs`; instance `MCReports`.

*Idempotent reports.* `POST /reports/generate` is one transaction. `pc` walks
through the pre-read by key hash (`check`), `generate`, `INSERT ... ON CONFLICT
DO NOTHING` (`insert`), the second read of a lost insert (`reread`) and the
commit. `inserted` holds reports of open transactions, `reports` committed ones,
so that an insert meeting an uncommitted row waits, and goes on when that
transaction ends either way. A request may fail anywhere, and its client may
lose the answer after the commit. A report is identified by the request that
wrote it, which is what lets `RetriesConverge` tell an original from a copy.

*Narration.* `Begin` creates the budget, and `NarrativeBudget` then runs the section narratives concurrently, as
`asyncio.gather` does, and the executive summary after them. `calls` and `clock`
are the shared `GenerationBudget`; `timer` is the `asyncio.timeout` of a call. A
timeout that has run out fires before time goes on, but the answer may still
win. `sound` is the set of narrations whose deterministic text passes the
validator: a narration that falls back outside it fails the request.

*Research.* `rows` and `analogy` are what end-of-day runs store; a candidate is a
row with its sector's average and the statistics of the analogues. `Score`,
`Verdict`, `Confidence`, `Evidence` and `Risks` follow `recommendation_engine.py`
branch by branch. An ask of the chat reads the conversation, decides its topics,
reads one slice after another while sessions and statistics are stored, and
commits the question and the answer; asks overlap, fail, and may be overtaken by
a clearing. `Narratives` states every deterministic text as what
`validate_grounded_narrative` can see of it (figures, stated confidences,
anchoring words) and checks it against the validator.

**Properties.** `RetriesConverge`, `EveryRequestEnds`; `NarrationsAreHonest`
(calls and deadline respected, a fallback only after the model failed, nothing
ungrounded published), `RequestEnds`; `ExchangesAreWhole`, `AnswersTellOneStory`,
`PicksAreExplained`. `AnswersTellOneStory` holds because the history slice is
read once and handed to the recommendations; the mutant reads it twice.

**Finding.** `chat_grounding`: the deterministic answer to a question about
signals states the confidence of the strongest signal beside its own, the
validator reads both as the answer's, and the question fails.

**Bounds.** Three requests are a winner, a loser and a third whose winner rolled
back. Three calls and three seconds for two sections, the summary, two attempts
each and timeouts of two seconds: both limits are met in the middle of a
narration. Two companies, one with everything known and one newly listed, take
every branch of the score. `MaxEvents = 2` lets a publication and a session, or
a clearing, fall between the reads of an answer.

**Fairness.** `Fairness`: every started request takes its next step (a waiting
insert only once its rival has ended). `NarrativeFairness`: the event loop goes
on and time passes; nothing is assumed of the provider.

**Proofs.** `RetriesOfOneCallConverge` proves `RetriesConverge` for every set of
requests, users and keys, from `TypeCorrect`, `StoresOnce`, `AnswersTheOriginal`
and `LoserFindsWinner`. The invariant is `TypeOK` with `UniqueRows` (one row per
owner and key among committed and open ones), `LoserHasWinner` (a request that
lost an insert has a committed rival), `AnswerInSight` and `WinnerIsVisible`.
Without `LoserHasWinner` the second read could find nothing, which the code
treats as an internal error.

`NarrationsStayHonest` proves `NarrationsAreHonest` for any sections, budget,
retries and timeouts. `NarrativeInv` adds to it that an attempt in flight is one
more than the answers so far (`AttemptsAnswered`), when a text exists and who
wrote it (`TextIsEarned`), and that the summary begins after every section
(`ExecutiveComesLast`). That the attempts add up to the calls
(`CallsAreCounted`) rests on the sums over finite sets of `SumTheorems`.

`AnswersStayOneStory` proves `AnswersTellOneStory` for any companies, questions
and publications: every draft an ask carries cites only candidates assembled
from the slice it shows (`StoryInv`). `PicksStayExplained` proves
`PicksAreExplained`; its invariant only says that rows and statistics are of the
kinds the runs store (`MarketInv`), and the work is in the score: it is a number
within its limits whatever is missing (`ScoreIs`), a pick has evidence and risks
(`PickHasEvidence`, `PickHasRisks`), a watched stock is surer and placed before an
avoided one (`WatchedIsSurer`, `HigherIsPlacedFirst`), and each text cites what it
was given (`SectionsArePublishable`). The named assumptions of `Research` say what
a stored row can hold (`BoardsAssumption`: seven figures, each known or not, no
range without a change) and that an empty sample has no share
(`AnalogiesAssumption`).

`ExchangesStayWhole` proves `ExchangesAreWhole` for any asks that overlap, fail or
are cleared away. Rows that were rolled back or deleted keep their place in
`transcript` as `gone`, so that a row is named by its place for good. The invariant
(`TranscriptInv`) follows each ask: it has added nothing, or its question alone, or
a question and a later answer that share one fate, and nothing it has added is
committed before both are.

## Market ingestion, universe, news

**Code.** `backend/app/market/service.py`, `repository.py`, `expanded_bootstrap.py`,
`universe_sync.py`, `universe_repository.py`, `backend/app/scheduler/runner.py`,
`readiness.py`, `jobs.py`, `backend/app/news/service.py`, `repository.py`.

**Modules.** `MarketIngestion` (instance `MCEndOfDay`), `UniverseSync` and
`NewsIngestion` (instance `MCUniverse`); `EndOfDayProofs`, `UniverseProofs`.

*Market.* A job is a runner, an administrator's ingest or the bootstrap. It reads
a symbol's watermarks, fetches a window, and `Store` writes bars, indicators and
the full-sync watermark in one transaction that holds the row of the stock. What
was read and fetched before that lock may be old. A bar is the number of the
vendor's adjustment it came from, an indicator is the stored series it was
computed from, so that "the indicator belongs to these bars" is an equation. The
runner takes its target from the readiness symbol, skips a session that is done,
repeats a failed one up to `MaxAttempts` times (the schedule's attempts), and exits
by what the steps returned.
The vendor may lag, fail for one symbol, or adjust history; a symbol that fails
is rolled back and the batch goes on.

*Universe.* `Sync` fetches a list or falls back to the newest stored snapshot,
resolves replaced symbols, validates the health of the result, and applies the
difference as memberships `[from, to)`, with the row locks of the stocks in the
order the code takes them. An advisory lock per index makes the syncs of one
index take turns; syncs of two indices share stocks at READ COMMITTED, and
`DeadlockVictim` is PostgreSQL's choice when they wait for each other.

*News.* `ingest` commits articles and tags first and aggregates in a second
transaction. Articles carry their two unique keys, the URL and the story; a clash
with an uncommitted row waits. A sentiment row is the set of articles it was
computed from. The active universe may change between two reads.

**Properties.** `IndicatorsMatchPrices`, `SeriesHaveNoGaps`,
`CompletionIsCovered`; `MembershipsAreConsistent`, `EvictionsAreSourced`,
`EverySyncEnds`; `CompletedIngestIsExact`, `EveryIngestEnds`. Exact tags and
sentiment are claimed only for ingests that do not overlap: of two overlapping
ones the last writer may have the older read, which the next ingest repairs. What
is claimed always is that an item is stored or a copy of an item of the same
batch that is. More does not hold: "same URL or same story" is not transitive,
so an item may be dropped for a copy that then yields to an article of an
overlapping ingest which has nothing in common with it. The feeds of the run
contain such a chain, a wire item, its reprint under another URL and a retitled
version of the reprint. The item comes with the next fetch.

**Finding.** `universe_active_race`: a stock that moves from one index to another
during two overlapping syncs may end inactive while a membership is open. This
is why `MembershipsAreConsistent` compares activity with memberships only for
syncs that take turns.

**Bounds.** Two overlapping jobs with an adjustment, or three successive ones with
a mishap, over four days of which the third is a holiday; `Lookback` covers all
days, `FullEvery = 2` makes full and incremental windows alternate. Three
successive syncs let a constituent leave and return within a day; two
overlapping ones meet on the rows. Two ingesters suffice for every pairwise clash
of insert, retag and aggregation.

**Fairness.** A sync and an ingest that have begun take their next step: their
requests time out, the session's lock waits are broken by PostgreSQL. The market
module claims no liveness.

**Proofs.** `EndOfDayProofs` proves `IndicatorsMatchPrices`,
`SeriesHaveNoGaps` and `CompletionIsCovered` for any symbols, calendar, window
lengths and number of jobs. Only the first is inductive. A hole is prevented
by what a job knows when it commits, although the watermark it planned from may
be old: sessions are never deleted, so all sessions before its window are still
stored, and what it fetched is its window without an end (`FetchIsSound`); the
series is therefore a prefix of the calendar (`BeginsWhole`). Coverage needs that
the lists of a batch account for every macro symbol and that what it calls
stored reaches its target (`BatchIsSound`), and that a checkpointed step keeps
this while other jobs overwrite the bars (`RunIsSound`). The lemma `Greatest`
(a finite set of integers has a maximum) gives the operators on dates their
meaning. Assumptions: the four of `MarketIngestion`.

`UniverseProofs` proves `MembershipsAreConsistent` and `EvictionsAreSourced` for
any indices, stocks, published lists and overlap, and `CompletedIngestIsExact`
for any feeds and ingesters. The invariant of the syncs orders the dates of
memberships and snapshots (`DatesAreOrdered`), keeps what a sync has read of its
own index current until it commits, because nobody else writes it
(`DiffIsCurrent`), and, while syncs take turns, what it has seen of the others as
well (`TurnsAreTaken`). The invariant of the ingests says for each fetched item
which item of the batch is stored, written or still to be inserted
(`NothingIsLost`), and for an ingest that runs alone that its reads are what is
stored (`RunsAlone`). Assumptions: those of the two modules, among them that a
feed offers finitely many articles.

## Market memory: features, analogues, index

**Code.** `backend/app/history/`.

**Modules.** `HistoryIndex`, `Analogues`, `HistoryIndexProofs`; instance
`MCHistory`.

| TLA+ | code |
|------|------|
| `corpus`, `nextId` | `historical_sessions`, `session_embeddings` and the index state, committed |
| `committed` | every corpus ever committed; only the properties read it |
| `generation` | the published generation directories and whether their files are intact |
| `dirs`, `orphans` | staging and displaced directories, and those of dead processes |
| `flock` | lock files held, released when the process dies |

`HistoryIndex` follows `build_index` from the engineering of the sessions, before
the rows are locked, over the commit to the publication (lock, recheck, staging,
two renames, clean-up), and `query_similar` from the read of the corpus to the
answer, with the rebuild of a generation that is missing or damaged. A
generation's key stands for the SHA-256 of its content, taken to be free of
collisions. `Analogues` is what the sessions are made of: usable constituents
and memberships of a date, rejections for thin coverage, one feature of each
kind (a capped mean, shares, a count over a threshold, a sector spread),
normalisation, neighbours, outcomes and statistics.

**Properties.** `CacheIsSound`, `AnswersFromOneCorpus`, `IntactGenerationStays`,
`EveryJobEnds`; `HistoryIsPointInTime` (a build of today contains unchanged
every session a build of an earlier day made) and `AnaloguesAreHonest` (an
outcome is that of the next trading day, also after a rejected session, and
statistics count exactly the analogues shown).

**Bounds.** Three jobs of two processes are a publisher, a reader and a rebuild;
two mishaps let damage or a death follow a failure; one correction of a price
gives two corpora over the same dates. Four days with a gap, a day without rows, a close at zero
and changing memberships produce rejected days inside, before and after usable
ones.

**Fairness.** Every process with a job takes its next step. Waiting for the file
lock is disabled while another holds it, and a death releases it.

**Proofs.** `HistoryIndexProofs` proves `CacheIsSound`, `AnswersFromOneCorpus` and
`IntactGenerationStays` for any processes, dates and mishaps. That a key
determines its corpus (`KeyDeterminesCorpus`) is a lemma about the rows it is
made of. The invariant adds what a process carries from step to step: the corpus
it works with is a committed one, and an index it built in memory is of that
corpus (`WorkIsSound`); the lock file of a generation has one holder, inside
`publish`, to whom the directories beside the generation belong
(`LocksAreHeldInside`); and what the recheck found holds until the installation
(`NothingToLose`). The last is why a reader never loses an intact generation: a
publisher that displaces one has seen under the lock that it does not load, and
nobody but the holder can repair it.

`HistoryStaysPointInTime` and `AnaloguesStayHonest` prove `HistoryIsPointInTime`
and `AnaloguesAreHonest` for any stocks, sectors, stored rows and windows. The
invariant (`MemoryInv`) only says that stored days are among those ingestion can
store and memberships are spans; the rest holds of any such rows. A membership
recorded later says nothing different of an earlier day (`PastSaysTheSame`), so
that day's session is engineered from the same inputs (`SessionsStay`) and the old
build is the beginning of the new one (`BuildsContinue`). Numbering the accepted
days among the candidates is what tells a neighbour in the corpus from the next
trading day (`OutcomeIsTomorrows`). Nearness with ties by insertion is a total
order (`NearerIs`), the first k of an order are k or all (`FirstOnes`), which with
the session itself left out gives the number shown (`SimilarIs`); this needs every
feature of an accepted day to be a number (`FeaturesAreInts`), which the rejections
for thin coverage see to, and the spread of a column to be no less than 0
(`QuartilesUp`). `AnaloguesAssumption` says that the stocks are finite, closes and
volumes are natural numbers, the window and the least number of usable stocks are
positive, and so is the sector coverage asked for.

## Browser sessions and accounts

**Code.** `frontend/lib/api.ts`, `auth-context.tsx`, `auth-events.ts`,
`backend/app/auth/`.

**Modules.** `BrowserSessions`, `Accounts`, `SessionsProofs`; instances
`MCSessions`, `MCAccounts`.

*Browser.* The cookie jar is one session id, since the access and the refresh
cookie are always set together; a remembered CSRF token is the session it was
made for. Each tab has a few calls in flight, of which one is the single-flight
refresh; a request takes its cookies when it is sent and sets cookies when its
answer arrives, so that answers of different tabs overtake each other.
`Scenarios` bounds what happens to a behaviour: documents that load, actions of
the user, access tokens that expire and answers that are lost. `PromptTabs` says
that tabs settle within an access token's thirty minutes. That the CSRF token of
a tab whose session was overtaken still fits the cookies is not claimed.

*Accounts.* Each request is its reads and one commit that others overlap; an
insert and its commit are one step, because a rival with the same key waits for
it. Registration, password login behind the sliding-window limiter, the Google
callback with its lost races, and reset links follow `auth/service.py`.

**Properties.** `RefreshesConverge` (one successor per refresh token, every loser
told), `QuietTabsAgree`; `AccountsAreReachable`, `AttemptsWithinWindow`.

**Finding.** `oauth_duplicate`: `login_with_google` converges on the winner of the
identity's insert, but the insert of a new user before it is outside that block.

**Bounds.** Two tabs race for one refresh token; two slots hold a hydration beside
a call. Three requests allow a callback, a registration of its address and a
login between them.

**Proofs.** `SessionsProofs` proves `RefreshTokensRotateOnce` (the invariant
`OneSuccessor`) for any number of tabs and answers that are lost, late or out of
order: whoever was exchanged is over for good (`ParentsAreOver`), and a rotation
locks the row. `RefreshesConverge` and `QuietTabsAgree` are proved under
`PromptTabs`, which the run has too; without it a tab may sleep through the
life of an access token, and the code does not claim agreement then. Their
invariant speaks of behaviours in which no answer was lost (`Calm`); a lost one
shows a tab as unavailable, which both properties leave out. It
says of each tab that the answer its latest hydration waits for, holds or was
refused still fits the cookies, or an event that will make it ask again is in
its inbox (`HydrationIsCurrent`); that the refresh a hydration waits for is one
the backend will not refuse (`RefreshIsCurrent`); that only a tab that shows the
truth or is about to be told has settled (`StatusIsCurrent`); and of the
sessions that one which an answer carries is nobody's yet
(`NewSessionsAreUnused`), and that the session of the cookies dies only when
the answer that replaces it is on its way (`DeathIsAnnounced`).

`AccountsAreReachable` is proved for any requests, addresses and subjects. Beside
the unique addresses it needs that a link between a subject and a user, once
made, is never changed, so that what a callback has read of it stays true
(`RowIsSound`).

`FailuresStayWithinWindow` proves `AttemptsWithinWindow` for any limit and window.
The limiter forgets, the property counts all that was ever refused; the invariant
(`WindowInv`) ties them: a bucket is what is left of the refusals after a first
part that is out of the window (pruning drops from the left only), and of two
refusals that are `MaxAttempts` apart the later came a window after the earlier.
Of the refusals within a window the first and the last are then fewer than
`MaxAttempts` places apart.

## Strategies and backtests

**Code.** `backend/app/strategy/` without `robustness.py`.

**Modules.** `BacktestEngine`, `Strategies`, `StrategyData`,
`StrategiesProofs`, `SumTheorems`; instance `MCStrategies`.

*Replay.* A session of `BacktestEngine.run` passes the phases of its loop: exits
waiting for the open, entries waiting for the open, stops and targets inside the
day, signals at the close, and after the last session the closing of what is
held. Within a phase the stocks are served in the order of the code, which is
what decides who gets the last slot and the last cash. A rule is the fact that
it fires, for every pattern of firing. Amounts are integers and percentages
round down. Two branches of the code cannot be reached and have no action: an
exit order of a stock that is not held (`engine.py:211`), and an entry order of a
stock that is held or of the same day (`:232`), which `OrdersAreHonest` shows. An
entry whose stock has no bar waits for it (`:230`).

*Data.* `StrategyData` records closes, articles and membership changes and builds
the bars of a session the way `data.py` does: breadth, sector momentum and news
of a whole range at once. `Evaluate` is the three-valued evaluation of nested
rules, a recursive function over the rules a strategy may use and the rules
inside them (`RuleSet`); `RulesAssumption` says that they are finitely many, nested
without a circle.

*Rows.* `Strategies` has creation, versions, archiving, runs and analyses as a
read and a later commit, and requests that die between them. A run whose process
dies stays `running`; nothing in the code ends it, and no property claims that
it ends.

**Properties.** `LedgerIsHonest` (cash, costs and results balance; a sale is at a
price of its day), `OrdersAreHonest`, `RunsAreReproducible`, `SignalsNeedData`,
`BarsArePointInTime`.

**Bounds.** Two stocks compete for one slot or hold two; four sessions are an
entry's signal, its fill, an exit's signal and its fill, with a missing bar in
place of any. The bars are a quiet day, one that spans stop and target, and gaps
beyond either. The stocks are numbers, because the code sorts them, and are not
symmetric; the stocks of `StrategyData` are.

**Proofs.** `ReplaysAreHonest` proves `OrdersAreHonest` for any stocks, bars,
settings and number of sessions. `NoLookAhead` rests on `Dated`, which says of
every bar, position, waiting order and trade where its date lies: an exit order
is as old as the last bar of its stock, or older while the open at which it
trades is being processed. `Dated` also keeps entry orders and positions apart;
`SlotsCounted` bounds the positions by the slots, and `OrdersMatchPositions`
follows. `LedgersAreHonest` proves `LedgerIsHonest` for the same. `LedgerInv`
consists of what is held, at which price (`HoldingsAreSound`), of `FillsAreQuoted`,
of the balance of cash, costs and results (`Balanced`), and of `TradesAreSound`: a
trade is older than the position or the entry order its stock has now, so that
no trade equals an earlier one and the set of trades loses none. The sums change
by one element at a time (`SumTheorems`).

`RunsStayReproducible` proves `RunsAreReproducible` for any number of overlapping
requests and data revisions, and that the history is append-only: a version is
never rewritten, and a run keeps its version, snapshot and completed result
(`HistoryIsAppendOnly`). The invariant says what a request may rely on between its
read and its commit (`RequestsRely`), that a running row belongs to one request
(`OneReplayer`), without which a second replay could overwrite a result that an
analysis has compared itself with, and what a row in each status holds
(`RowsAreSound`).

`BarsStayPointInTime` proves `BarsArePointInTime` for any stocks, rows, articles and
scores. No step touches the rows of a closed session or who was a member in it
(`PastIsKept`), a bar of session `d` looks at sessions up to `d` only (`EarlierStays`
to `BarsStay`), and an article that comes later is first known in a later session,
or in none yet (`KnownArticlesStay`). `SignalsRestOnData` proves `SignalsNeedData` for any
rules: were a rule to change its mind, a least closed set of rules with such a
rule would have an outermost one to take away (`Outermost`), so the fault lies in a
group whose parts are in order (`GroupKeeps`) or in a condition (`ConditionKeeps`). The
same argument shows that the recursion of `Evaluate` has a solution (`ValuesExist`).

## Pages that read: market, portfolio, screener

**Code.** `backend/app/market/service.py`, `repository.py`, `signals.py`,
`attribution.py`; `backend/app/portfolio/`; `backend/app/discovery/`.

**Modules.** `MarketQueries`, `Portfolios`, `Discovery`, `PagesProofs`,
`SumTheorems`; instance `MCMarketPages`.

These components decide nothing over time; what can go wrong is that separate
code computes one quantity twice, or that a missing value is taken for zero. The
state is the stored rows, the actions are the ways rows come about (a session
stored, a holding edited, a screen saved), and the pages are operators over it.

- `MarketQueries`: quotes, breadth, movers, sectors, rotation, trend, heatmap, the
  stock page and the movement attribution, on percentages in whole units of
  `Scale`.
- `Portfolios`: the edits with the race of two additions, valuation, sector
  weights, exposures, contributions, correlation, deviation from the index,
  stress tests and counterfactuals. Weights are kept as value over total and
  variances unscaled, so that sums can be compared exactly.
- `Discovery`: a text is the set of phrases the parser finds, a condition is a
  field, an operator and bounds; the market regime is a majority over the whole
  universe.

**Properties.** `MissingIsNeutral`, `PagesAgree`; `PortfolioPagesAgree`
(`ValuationsAgree`, `ContributionsAddUp`, `CounterfactualForetells`: what a
counterfactual says of a change is what the pages show after it);
`ScreensAreHonest` (`NarrowingNarrows`: another condition never adds a stock;
`SavedAnswersItsText`: a saved screen answers what its text answers today).

**Bounds.** Windows of one and two sessions over up to three closes give stocks
too young for each of them. Two holdings with different first dates separate
"dates common to all" from "dates of one". Seven texts contain every kind of
phrase, one that narrows another, and ones that the parser refuses.

**Proofs.** `PagesProofs`. `ScreensStayHonest` proves `ScreensAreHonest` for any
texts, facts and members. That narrowing narrows holds of any rows: the market's
own state does not depend on the conditions, and none of them is met by a fact
that is missing. The invariant (`ScreenInv`) is that a stored screen is what its
text parses to.

`PortfolioPagesStayAgreed` proves `PortfolioPagesAgree` for any stocks, sectors,
prices, quantities, dates and edits. Its invariant (`PortfolioInv`) says only
that quantities and closes are numbers, the rest is arithmetic of the two pages.
The contributions are one table, summed first by stock or first by date
(`ReturnsAddUp`, `RisksAddUp`; `SumByColumns` of `SumTheorems`), and this needs the
same dates in every row. The deviations from the index cancel because both
sides have the same total (`DeviationsAddUp`). A counterfactual is measured like
the portfolio it foretells because what it sold out of leaves the quantities
(`CounterfactualDoes`). Assumptions: prices are positive, capitalisations natural
numbers where known, and the stocks finite (`PortfoliosAssumption`).

`MissingStaysNeutral` and `MarketPagesStayAgreed` prove `MissingIsNeutral` and
`PagesAgree` for any stocks, sectors, prices, indicators and windows. The
invariant (`BoardInv`) is that what is stored are numbers where it is there; the
rest holds of any board. A return is known only of a stock with two closes
(`ReturnIs`), so the averages, counts and rankings with and without the others
are over the same set with the same keys (`PricedAverages`, `RankedSame`).
Leaving out silent signals renumbers the rest, and a consensus depends on their
number and sum only (`SilenceIsNeutral`, with `SumReindexed`). That every finite
set has a ranking which names each stock once (`RankedIs`) is what makes the
movers shown as many as there are. `BoardAssumption` says that prices are
positive, the stocks finite and numbered, and that `Missing` is neither a number
nor a direction.

## What is proved and what is only checked

Proved by TLAPS for every value of the constants:

| module | what |
|--------|------|
| `EndOfDayProofs` | control plane: type correctness, orderly runs, final checkpoints, respect for heartbeats, the refinement of `CheckpointedPipeline` |
| `EndOfDayProofs` | market ingestion: indicators follow prices, no holes, completion means data |
| `UniverseProofs` | membership history, sourced removals, exact news ingests |
| `HistoryIndexProofs` | the cache, one corpus per answer, intact generations stay; history is point in time, analogues are honest |
| `ReportsProofs` | convergence of retries, honest narrations, answers that tell one story, whole exchanges, explained picks |
| `SessionsProofs` | one successor per refresh token, converging refreshes and quiet tabs under `PromptTabs`, reachable accounts, failures within the limit of a window |
| `StrategiesProofs` | honest orders and an honest ledger of a replay, reproducible runs, an append-only history, bars without look-ahead, signals that rest on data |
| `PagesProofs` | honest screens, portfolio pages that agree, market pages that agree and ignore what is missing |
| `SumTheorems` | sums over finite sets: splitting, changing one element, summing by rows or columns, renaming the terms; least and greatest elements |

Each follows one argument: a type invariant and the named strengthening hold
initially and are kept by every action (one step of the proof per action), and
imply the property. Every strengthening was model-checked on the instance of its
run before it was proved. Assumptions are the named `ASSUME`s of the modules, which
TLC evaluates in the runs, `[]Fenced` in the refinement theorem and `PromptTabs`
where it says so.

Model-checked only, on the instances above:

- Liveness, which is out of the prover's reach: `EventuallyCompleted`,
  `AttemptsTerminate`, `EveryRequestEnds`, `RequestEnds`, `EverySyncEnds`,
  `EveryIngestEnds`, `EveryJobEnds`.

## Not modelled, and why

- **Backtest robustness.** Statistics over finished replays: no state, no protocol.
- **News tagging and classification.** Regular expressions over headlines;
  `NewsIngestion` takes the tags as given.
- **Dashboard and freshness.** Aggregates rows whose writers are modelled.
- **Report storage and exporters.** Reads of stored reports, file layout.
- **Shared clients, sentiment models, middleware, health, configuration.** Provider
  adapters and framework wiring.
- **Frontend pages and components.** Rendering; the session logic is
  `BrowserSessions`.
- **Migrations, scripts, containers, CI.** Static; the constraints they create are
  in the models that rely on them.

Of the modelled components: names, labels, money and dates in texts; provenance
and token counts; audit rows, dry runs and preflights; fundamentals; the
arithmetic of the technical indicators; the other features of each kind and the
comparison of feature groups; the deletion of legacy feature versions; equity
curves, metrics and result hashes; average prices, P&L, the health score and
watchlist rows; preferences, deactivation and the expiry of refresh tokens. None
of them is read by a decision that a model keeps.
