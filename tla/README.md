# QuantVista: TLA+ models, model checking and proofs

QuantVista is a Python backend (FastAPI, celery, PostgreSQL, redis) that ingests
market data every night, derives indicators, factors and scores from it, reads
news, raises alerts, and serves portfolios, screens and backtests to tenants. This
directory holds TLA+ models of its stateful parts, the TLC runs that check them and
the TLAPS proofs about them. Source paths below are relative to
`src/backend/src/quantvista/` unless they start with `src/`.

`PROJECT.json` is the machine-readable index: components, runs, the source lines
every definition stands for, the deliberate mutation each property is tested
against, the hazards found in the code, and the theorems.

## 1. The system

| part | state | operations | talks to | modelled in |
| --- | --- | --- | --- | --- |
| job framework (`jobs/framework.py`, `jobs/ledger.py`) | one `jobs_runs` row per (job, run key) | `start`, work, `succeed`, `fail`, each its own transaction | every celery task | `JobRuns` |
| celery (`jobs/celery_app.py`) | broker messages, worker processes | receive, late acknowledgement, requeue on loss, autoretry, Beat ticks | tasks, redis | `JobRuns` |
| event bus (`core/events.py`) | subscriber lists; streams or partitions with a consumer group | `publish`, read, dispatch, acknowledge | `jobs/consumers.py` | `EventBus` |
| nightly chain (`jobs/ingest.py`, `quality.py`, `compute.py`, `scoring.py`, `alerts.py`) | prices, indicators, factors, scores of a date | one job per stage, one event per arrow | bus, PostgreSQL | `Pipeline` |
| factors and scores (`analytics/`) | `factor_values`, `scores` of a date | snapshot, normalize, blend, decompose | chain | `Scoring` |
| self-heal (`jobs/corrections.py`) | none of its own | recompute the factors after a revised filing | fundamentals, factor job | `Pipeline` |
| resync (`src/backend/syncdatapipeline/`) | ledger rows, everything the chain writes | select, release, run stages, report | every job | `Resync` |
| fundamentals (`market_data/fundamentals.py`) | versions with knowledge intervals | insert, revise, as-of read | bus | `FundamentalVersions` |
| corporate actions (`market_data/adjustments.py`, `repositories.py`) | `corporate_actions`, `adj_close` | upsert, rebuild the history | price upserts, every reader of prices | `AdjustedPrices` |
| universe (`jobs/universe.py`, `market_data/repositories.py`) | master, membership intervals | sync, reconcile, seed, as-of read | backtests | `IndexMembership` |
| backtests (`api/routes_backtests.py`, `jobs/backtest.py`, `analytics/backtests.py`) | one row per run | submit, run, delete, poll | celery, engine | `Backtests` |
| backtest engine (`analytics/backtest.py`, `backtest_data.py`) | none | rank, weigh, simulate | universe, prices | `BacktestEngine` |
| news (`news/`, `jobs/news.py`, `jobs/sentiment.py`) | articles, links to stocks, ratings per model | ingest, tag, score, signal as of | factor job, bus | `News` |
| alerts (`alerts/`) | rules, events, notifications | evaluate, deliver | bus, e-mail provider | `AlertDelivery` |
| idempotency (`api/idempotency.py`) | key, fingerprint and stored response per tenant | lookup, store, replay | creating routes | `IdempotentCreate` |
| portfolios (`portfolio/`, `api/routes_portfolios.py`) | portfolios, positions, risk snapshots | edit under the weight-sum rule, optimize, rebalance, risk | PostgreSQL | `Portfolios`, `Allocations` |
| identity (`identity/`) | users, tenants, plans, families of refresh tokens | register, login, rotate, logout | every route | `Sessions` |
| sessions (`core/db.py`) | transaction, tenant binding | commit or roll back, row level security | everything | inside the above |
| month partitions (`core/partitions.py`, `jobs/maintenance.py`) | partitions and default of each table | bootstrap, daily tick | everything dated | `Partitions` |
| cache, rate limit, lake, screener, reads, metrics, frontend | | | | not modelled (section 6) |

What is hard in it:

* **At-least-once everywhere.** Messages are acknowledged last, returned when a
  worker dies, and handed out twice when a worker is slow. The ledger is meant to
  absorb the repetitions; its writes are not guarded by the status they replace.
* **Crashes between transactions.** Claim, data, event and outcome are four
  commits of one job. Submitting a backtest is a commit and then an enqueue. A
  resync releases ledger rows and then takes hours.
* **Swallowed failures.** A bus handler that raises is logged; the publisher
  goes on and its run key is skipped from then on.
* **Several statements, one history.** `adj_close` is rebuilt by a reset and one
  UPDATE per split while price upserts set it back; membership is reconciled by
  inserts, closes and weight updates from what was read before.
* **Check, then write.** Quotas, idempotency keys, position weights, token rotation
  and the address of a registration are read first and written later, at READ
  COMMITTED.
* **Transaction-scoped identity.** The tenant is bound by `SET LOCAL`; a rollback
  unbinds it and row level security then hides every row.
* **Run keys as identity.** Two different reasons to do the work can share a key
  (a correction and the nightly factor job), one reason can get many keys
  (delivery, per second).
* **Point in time.** Backtests, filings, membership and the sentiment signal answer
  for a past date from tables that later runs keep writing.
* **Arithmetic at the edge.** Percentiles with ties and gaps, weights that are
  renormalized over what is left, rounding a solver's floats to six decimals.

What makes each part correct:

* jobs: no request is lost without a trace, a succeeded row stands for finished
  work, a row left running has somebody who will repair it;
* chain: no indicator job starts before the gate has passed, no stage reads what
  its upstream has not written, the night ends with the alerts evaluated or with
  a reason on record; a resync that reports success left nothing stale;
* prices and universe: a history is adjusted for one set of splits, membership of
  past days is never rewritten, a backtest knows nothing of the future;
* scores: balanced percentiles, a composite its decomposition explains, a better
  peer never below a worse one;
* fundamentals: the versions of a filing are one chain, what was known at a time
  stays known, a revision is announced;
* news: no article is missed between two runs, a link is earned, the signal of a
  past instant does not change;
* alerts: an event marked delivered has reached its user, a failed delivery
  leaves nothing behind, waiting for locks ends;
* backtests: tenants see a monotone lifecycle, a result is committed once, a
  queued run has a task;
* API: one effect per (tenant, key), truthful answers, weights that do not exceed
  the book, optimizer answers that meet their constraints, families of tokens
  that are chains;
* partitions: no row of a tended month falls into the default.

## 2. Modules

| module | models | checked in run |
| --- | --- | --- |
| `JobContract` | what the job layer promises whoever enqueues a task | refined by `JobRuns` |
| `JobRuns` | `run_job`, the ledger and celery's delivery, step by step | `job_runs` |
| `Pipeline` | the nightly chain of one (market, date) and self-heal | `pipeline`, `pipeline_correction` |
| `BacktestLifecycle` | what a tenant can observe of a backtest | refined by `Backtests` |
| `Backtests` | submit, worker transaction, delete | `backtests` |
| `IdempotentCreate` | `POST /portfolios` with an idempotency key and the quota | `idempotent_create`, `idempotent_create_loser` |
| `AlertDelivery` | evaluation and delivery of one cycle's alerts | `alert_delivery` |
| `KnowledgeLog` | what the fundamentals table promises point-in-time readers | refined by `FundamentalVersions` |
| `FundamentalVersions` | ingestion and versioning of filings, as-of reads, the announcement | `fundamentals`, `fundamentals_unchanged` |
| `AdjustedPrices` | price upserts, corporate-action runs, `adj_close` | `market_data` |
| `Resync` | the resync command over ledger and stages | `market_data` |
| `IndexMembership` | master, constituents, their readers | `market_data` |
| `BacktestEngine` | the engine, over the readers of `IndexMembership` | `market_data` |
| `Partitions` | bootstrap, tick and default of the month partitions | `market_data` |
| `News` | fetch, tag, score, signal | `workspace` |
| `EventBus` | the three backends | `workspace` |
| `Scoring` | factor snapshot, normalization, scores, decomposition | `workspace` |
| `Allocations` | constraints engine, rounding, drift, risk, as operators | through `Portfolios` |
| `Portfolios` | positions, optimize, rebalance, risk of one portfolio | `workspace`, `optimizer_report` |
| `Sessions` | accounts and refresh-token families | `workspace` |
| `JobsAndEventsProofs` | theorems about `JobRuns`, `EventBus`, `News` | (section 4) |
| `PipelineProofs`, `BacktestsProofs`, `AlertDeliveryProofs`, `FundamentalVersionsProofs` | theorems about the module of the name | (section 4) |
| `TenantProofs` | theorems about `IdempotentCreate`, `Sessions` | (section 4) |
| `MarketDataProofs` | theorems about `Partitions`, `AdjustedPrices`, `IndexMembership`, `BacktestEngine`, `Resync`, and about `MCMarketData`, which puts them side by side | (section 4) |
| `AnalyticsProofs` | sums over finite sets, theorems about `Portfolios` with `Allocations`, about `Scoring`, and about `MCWorkspace` | (section 4) |
| `MC*` | the small instances | |

`MCMarketData` and `MCWorkspace` are sums, not products: their components share no
state, so the initial state picks the `part` a behaviour exercises and the
variables of the others stay as they are. The state spaces add up, every
property is checked in its own part, and none loses an interleaving, because there
is none between components that share nothing; that every behaviour of a sum is one of
each of its components is itself a theorem (`PartsKeepTheirWord`, one in
`MarketDataProofs` and one in `AnalyticsProofs`). Where components do interact, one
module has both: the chain with its bus, ledger and self-heal (`Pipeline`), the
evaluation with its delivery (`AlertDelivery`), the backtest with its table, task
and ledger (`Backtests`), the engine with the membership that is rewritten under it
(`BacktestEngine`), the tools with the edits of their portfolio (`Portfolios`).

`JobRuns` is the detailed model of the protocol every other job module uses. The
others keep its claim, skip, success, failure, retry and crash but fold the
acknowledgement and the retry decision into the ledger write before them (the
step between them is `JobRuns`'s subject) so that their own reads, writes and
events can be split instead.

### JobRuns

A task invocation is a message `[task, retries]`; `queue` counts its copies,
because redelivery duplicates them. `pc[w]` walks through `run_job`: `start`
(`ledger.start`, which inserts the row or reclaims any row that is not
succeeded), `work` and `publish` (the job's commit and its event), `return`
(`ledger.succeed`), `fail` (`ledger.fail`), `raise` (the decorator: retry or give
up) and `ack`. `LedgerRaises` is a ledger transaction that itself fails.
`committed`, `published` and `succeededOnce` record effects for the properties.

### Pipeline

`row[stage]` is the ledger, `job[w]` what a worker is doing, and `prices`,
`indicators`, `factors`, `scores` the stocks each table covers on the date; factor
and score sets also carry the version of the fundamentals they used. `prices`
runs the loop of `PriceIngestionService.ingest` stock by stock (`FetchBar`,
`FetchNothing`, `FetchFails`, `IngestDone`); the other stages read, then write and
commit, then publish. `bars` is what the gates can see of a row: which of its cells are
empty (never the close, without which the adapter drops a bar) and whether its prices
are positive and in order. `GatePasses` has the four gates: coverage, null rate, price
sanity and continuity; with them more rows, or other rows, may pass worse than fewer.
Upserts never delete, so a later factor run merges with the rows of an earlier one. `PublishNext` includes the handler: it enqueues the next
task, or raises and is swallowed. `RecomputeFactors` enqueues the factor job under
the factor job's own key, as `jobs/corrections.py` does. `ChainIsOrdered` joins the
gate, the events (`NoPhantomEvents`) and the lineage of factors and scores
(`LineageExists`). The gate succeeds once a night: a bar written after its job was
triggered (`late`) may never be looked at. Two formulas say what it is still good for:
as long as every late bar is whole, the table passes all four gates once an indicator
job exists (`GateGuardsIndicators`), and what an indicator job has read passes them
unless a flawed late bar is among it (`IndicatorsReadGatedPrices`).

### Backtests

`status` is the *committed* status. The worker's transaction is `MarkRunning`
(takes the row lock and re-evaluates its WHERE clause on the committed row),
`Compute`, `Commit`, and `job[w].outcome` is what it has written and nobody else
sees. `DbError` is an error of the database at any statement: the transaction is
aborted, so the `mark_failed` in the except branch fails as well and everything
rolls back. An error of the engine that is not one of the database is `Compute`
choosing `failed`. `RecordsAgree`: locks belong to live workers, a queued run has
its task or a reason, ledger and row agree.

### IdempotentCreate

An attempt is one HTTP request with its transaction. Inserts stay invisible until
`Commit`; `KeyFree` is PostgreSQL making an insert wait for an uncommitted duplicate
of its unique key; `LoseRace` is the violation and `session.rollback()`, which also
ends the tenant binding (`bound`), and `Reread` looks up under whatever binding is
left. The portfolio is named after the attempt that created it, so an answer can
be compared with what was created and for whom.

### AlertDelivery

`matching` is the set of rules whose condition holds on the committed metrics.
An evaluation reads the matching rules and inserts one event per rule (`ON CONFLICT
DO NOTHING`) in one transaction; a rule deleted in between fails it by foreign key.
A delivery run reads undelivered events without locking, then for each one sends
(in-app: a row of the transaction; e-mail: gone at once) and marks. `lock` is the
row lock a mark takes until the end of the transaction; `DeadlockInSavepoint` and
`DeadlockOutside` are PostgreSQL aborting a statement of one of two runs that wait
for each other, inside or outside the savepoint of an event.

### FundamentalVersions

`versions[f]` are the committed rows of a filing, `lock[f]` the transaction with an
uncommitted write on it, and `job[w]` the locals of `ingest` together with its
transaction's writes. An attempt is `Begin` (fixes the knowledge time), then per
stock `Fetch`, and per filing `ReadOpen`, `Close` and `Insert`, then `CommitStock`;
`Publish` ends it. The three statements are separate because two attempts may
overlap: an UPDATE that meets a locked row waits (`CloseWaits`) and afterwards
closes the row (`Close`) or, when the other transaction committed, nothing
(`CloseMisses`: the new row is not in its snapshot); the insert that follows then
violates the unique index (`StockRejected`). A slow attempt that would close a
version with a later start violates the CHECK of migration 0005 (`MayClose`), which
is what keeps the times of a filing increasing. `Stored` is the rounding of the
numeric columns. `revisions` is the list outside the transaction: a rollback leaves
it alone. `AsOf` is `fundamentals_as_of`. Knowledge times count the attempts: the
clocks of the workers are taken to agree.

### AdjustedPrices

One stock, since stocks do not interact. A price is the set of splits divided out of
it: the raw close is the empty set, and an UPDATE of the rebuild assigns the
splits on or after its ex-date. A run is `Fetch`, `StoreActions`, `ReadSplits`,
`ResetAdjusted`, one `ApplyStep` per split and `CommitRun`; `mine` are the rows it has
updated and nobody else sees, which are also the rows it has locked. Price upserts
and the other run come in between, and `Disturb` notes it. `HistoryIsAdjusted` has two
halves: every bar is raw or explained by one set of splits, and a run nobody wrote
around leaves every bar adjusted for all splits stored.

### Resync

An item is stale when something it was computed from has been written since.
`done` are the succeeded ledger keys. A plan is the set of the positions of its stages
in `STAGES`, since `select_stages` filters that list and never reorders it; the runner
takes the lowest position left, unit by unit (`SkipUnit`, `DoUnit`, `FailUnit`),
`EndStage` gives the verdict, `Kill` ends the process. `Released` is what `--force` sets
back: the jobs each stage lists.

### IndexMembership and BacktestEngine

`rows` are the membership intervals. A reconciliation lists, reads the open rows and
writes at its commit; `Collides` is the unique index on open rows and the CHECK, which
make an overlapping run roll back. `LoadUniverse` is the seeding script.
`BacktestEngine` adds bars and states the answer of a backtest as an operator on
what the engine reads of membership and bars stored so far (`Data`, a parameter of
`Strategy` and `Benchmark`, as the data access is of the engine): rebalance sessions, ranked
picks, equal weights over what has a bar, forced exits, returns and turnover. What a
score is made from is what the scoring context shows of a date: the last indicator row
of that date or before (`indicator_as_of`), and the signals that were published and
recorded by the end of it (`SignalsKnown`: ratings of articles, by `created_at`, and in
the same way filings, by `knowledge_from`). The composite itself is a sum of the two: the
property is about what reaches it, not about its value. `ComputeIndicators` writes the
rows of a session for the members of the day it runs on, on time, late or again;
`LearnSignal` records today what is dated earlier. Indicator rows carry a date and no
knowledge time, so rows computed after a backtest change what it would answer; they
count as a write about their session. `saved` is an answer computed earlier, and
`undoubted` the last session no later write is about.

### Partitions

`cover` are the months of a table that have a partition, `fallen` those with rows in
its default. A row without a partition goes to the default; PostgreSQL then refuses
to attach its month, and the tick, one transaction over all tables, rolls back.

### News

A row is an article and a number, since an article without a link is stored once per
fetch. `StartFetch` fixes hour key and window; each feed is one step. Articles are
inserted one by one, so of two in an answer that have the same link the first is kept,
whichever comes first (`Firsts`), and one whose link is in the table is passed over
(`UpsertNews`). The cues of an article are event types that the patterns can find
(`CuesAssumption`). Matching is `CoreName`, `NameAliases` and the three indexes; `Impact` is the base of the dominant
event and the tone, scaled so that it is exact. `tagrun` and `scorerun` hold what a run
read before it writes; `Signal` is the query the factor job makes.

### EventBus

In process, the publisher walks the handlers itself. With redis streams a reader takes
what the group has not been given, dispatches and acknowledges; what it had read is
gone with it. With Kafka the reader of the partition takes one message after the other
and the client commits its position in between, so a message in hand comes again.

### Scoring

Percentiles count `Full` units to 100 and are exact, the four decimals of their columns
being enough for every property; z-scores appear as signed squares, since only their
order matters, and a mean as a fraction. Raw values are first clipped to two quantiles
of their sector (`Winsorized`), taken by nearest rank as the library does; `Winsor` is 100
in the code and 4 in the run, where the lowest of three peers is clipped to the second.
`ScoringAssumption` says that `Full` is a multiple of every step between two ranks,
so that percentiles are whole, for a universe of any size. A score keeps two decimals.

### Allocations and Portfolios

A weight is an integer, `One` of them to the book, a solver's float one of `Fine` steps
of it. `Check`, `Feasibility`, `DecimalWeights`, `Plan` and `Metrics` are the pure
functions; `Solutions` is the external solver: any book that meets the constraints the
formulation was given, each missed by up to `Tol`, so that a long-only book may come
with weights a little below zero, which `Cleaned` clips before the rounding, and with
a sum a little off one. Without `long_only` nothing bounds a weight from below;
`MaxShort` does so for the enumeration, and the theorem holds for any value of it. A
solver may also end in any status but optimal, which is a refusal, or raise, which
nobody catches (`solver_error`). For `max_sharpe` the book is the rescaled solution, and
`Tol` bounds what it misses; the quadratic bound of `target_volatility` restricts no book.
`AllocationAssumption` bounds the names by what rounding and the misses can bear: half
a quantum and twice the miss for each is within the tolerance, and less than a weight
of an even book (at the code's quantum and tolerance and a miss of 1e-5, about a hundred
and sixty names). `feasibility` counts the sectors of the names that have one: what
it refuses because of its sector caps has no book only if every name has a sector, which
is how `OptimizerAnswersAreTrue` puts it (the other case is in section 3). In
`Plan` the trades are the names off by more than the threshold, so they need not sum to
nothing; `AnalysesAddUp` says by how much they may miss it. `Portfolios` admits
the requests, bodies and markets that the wire models and columns admit
(`IsConstraints`, `Positions`), of which the run has a few, and puts the functions behind their endpoints, over positions
that two callers edit; a PUT and a risk request have two halves.

### Sessions

One browser with one cookie and two tabs; a request is a chain of transactions
(`FindRefresh`, then `RotateRefresh`, or `ScanFamily` and `RevokeFamily`), its answer may
be lost. `overlapped` and `disturbed` note the families for which two transactions
overlapped, or two requests or a lost answer.

## 3. Runs

Every property of a passing run is tested against a mutation of the code it is
about (`PROJECT.json`, "mutants"): the mutated definitions stand next to the
originals and are used by nothing else.

| run | instance | shows |
| --- | --- | --- |
| `job_runs` | 2 tasks of one key, 2 workers, 1 retry, 1 crash, 1 redelivery | no request is lost silently, a succeeded row has its output, every task settles, and the layer implements `JobContract` with its liveness |
| `pipeline` | 2 stocks, 2 workers, 2 kinds of flawed bars, at most 2 upsets | the four gates guard the indicators, events are never phantom, factors and scores stay within their upstream, the night settles with the alerts evaluated or a reason |
| `pipeline_correction` | 1 stock, 1 worker, 1 correction | **violation**: the self-heal's factor job is skipped as already succeeded |
| `backtests` | 2 runs, 2 workers, one each of database error, crash, redelivery, lost submission | refinement of `BacktestLifecycle`, one committed result per run, no stale lock, ledger, row and task agree, every backtest ends or has a reason |
| `idempotent_create` | 5 attempts, 2 tenants, 1 key, limit 1, 1 abort | one creation per key, row and portfolio together, truthful 201 and 409, every attempt answered |
| `idempotent_create_loser` | 2 attempts | **violation**: the loser of the key race answers with an error |
| `alert_delivery` | 1 e-mail and 1 in-app rule, 2 workers, 2 triggers, 2 seconds, 1 upset | delivered means sent, failed leaves nothing, locks belong to live runs, one notification while runs are serial, the day ends |
| `fundamentals` | 1 stock of 2 filings and 1 of none, 2 values, 2 workers, 3 attempts, 1 restatement, 1 error or crash | versions stay one chain, the past does not change, the table implements `KnowledgeLog`, revisions are announced while no worker dies, every attempt ends |
| `fundamentals_unchanged` | 1 worker, 2 attempts, no fault | **violation**: an unchanged filing gets a new version when its ratio has more digits than the column |
| `market_data` | five parts, see below | history is never torn, membership of past days is never rewritten, the report of a resync is true, a backtest knows nothing of the future, only neglect fills a default partition |
| `workspace` | eight parts, see below | late news runs leave no gap and signals of the past stay, no event is unaccounted for, scores explain themselves, the book keeps its sum, the optimizer's answers meet what it was asked, families of tokens stay chains |
| `optimizer_report` | 1 part, 1 request | **violation**: `check` raises instead of returning its report when no capped sector is held |

The parts of `market_data`: *prices*, 3 days, two splits and a dividend, 2 rebuilding
runs, 2 upserts; *resync*, all sixteen stages over a window of 2 sessions, 2 commands
with six different sets of options, 1 nightly job, 1 fault; *membership*, 2 stocks, 2
workers, 2 reports, 2 syncs, 1 load of the seed; *engine*, 2 stocks over 3 sessions, a
top-one strategy and a basket, one report and one sync or one signal learnt after the
backtest, the first session's indicators on time or late; *partitions*, 2 tables, a
horizon of 2 months, 4 months. The parts of `workspace`: *ingest*, *tag* and *rate*
(news: 2 feeds, four articles, one without a URL and two of the same, 2 taggers, 2 scorers, 2 models,
7 ticks at 3 to the hour, 2 missed hours), *bus* (3 backends, 2 readers, 2 events, 1
fault), *score* (4 stocks in two peer groups, six sets of raw values with gaps, ties, an
outlier that is clipped and a factor nobody has, one revision), *edit* (2
callers, 2 names), *tools* (21 optimize requests, every rebalance and risk request, over
the small books in `MCWorkspace`), *session* (2 tabs, 2 spellings of an address, 3
tokens, one expiry). The `.cfg` files and the MC modules have the values.

The four violations are disagreements between the code and its own words; each
quotes the line in `PROJECT.json` ("findings"). Each uses small bounds that show its
case, and no fault.

**Where else the words and the code part.** The models follow the code in all of these;
the properties of the passing runs say what does hold.

* *A bar after the gate.* `jobs/compute.py:3` calls the indicator job "Triggered by
  `PricesValidated` (gate-passed)", and `market_data/services.py:224-225` would "fail the
  run so the pipeline halts rather than scoring on bad data" (also
  `src/plans/06-scheduler-and-jobs.md:84-86`). Ingestion publishes although stocks failed
  (`market_data/services.py:115`); the gate passes on what there is and its key
  succeeds; the retry stores the missing bar, insane or half empty, and `run_job` skips
  the gate (`jobs/framework.py:70-77`). The indicators may read that bar:
  `IndicatorsReadGatedPrices` without its first disjunct is false as soon as one fetch
  fails and one bar is flawed.
* *A correction before the factors.* `jobs/consumers.py:49` says "Fresh indicators →
  recompute the factor snapshot". A self-heal that runs before the night's own factor job
  takes that job's key (`jobs/corrections.py:38`) with the indicators there are by then,
  possibly none; the night's job is skipped and the snapshot stays without them. One
  stock, one worker and one correction show it; `ScoresCoverPrices` leaves out nights with
  a correction.
* *An article that names two stocks.* `news/tagging.py:5-6` says "tag iff exactly one
  distinct stock matches; on zero or ≥2 distinct matches, return `None`", and the test
  `tests/integration/test_news_tagging.py:3-4` "an article naming two stocks stays NULL".
  `match_all` "tags all" of them (QV-094, lines 95-96) and `tag_untagged` links them all
  (`news/services.py:95-97`): header and test describe the matcher it replaced. The second
  half of `LinksAreNamed` follows `match_all`, and its run has such an article.
* *A name without a sector.* `feasibility` asks whether the set is "satisfiable at all"
  (`portfolio/constraints.py:340`) and, "if every available sector is capped", whether
  the caps can sum to 1.0 (line 396). It counts the sectors of the names that have one
  (`sector_counts`, `portfolio/optimization/base.py:86-92`; `sectors_for` leaves NULL
  sectors out, `market_data/repositories.py:240-246`), while no cap limits the others:
  with one name in a sector capped at 0.4 and one name without a sector the request is
  refused, and the book 0.4 / 0.6 meets it.
* *The total drift.* `portfolio/rebalance.py:12-13` says that it "lies in [0, 0.5]". Half
  the sum of the differences (line 139) reaches 1 when all the value is in a name that is
  not a target; `AnalysesAddUp` has [0, 1].

**Behaviour the models have and no property calls wrong**, because the repository
documents it, promises nothing or describes it as accepted:

* jobs: a duplicate delivery can overwrite a succeeded ledger row (two workers are
  needed, see `SerialTerminal`); a database error on every attempt leaves a backtest
  queued, since the `mark_failed` is in the aborted transaction too; `running` is
  never visible to a poller, since the worker's transaction goes from queued to a
  terminal status;
* chain: stocks that arrive late get no indicators that night
  (`jobs/compute.py:106-110`); a second `NewsScored` of a day is not evaluated; factor
  and scoring rows of one date may mix two snapshots;
* fundamentals: a crash between the commits of an ingestion and its announcement
  loses the announcement; a revision that was rolled back is announced
  (`RevisionsAnnounced` is about the other direction); a filing learnt by a slow
  attempt becomes known as of the attempt's start;
* alerts: an e-mail may be sent twice around a rollback; two delivery runs that
  overlap both notify of one event;
* market data: two overlapping corporate-action runs, or a price upsert between
  their statements, may lose an adjustment until the next run; a drop whose open row
  starts on or after the date of the report is left open; once rows of an uncovered
  month are in a default partition, every tick fails, for all tables, until that month
  is over, where `core/partitions.py:118`, `jobs/celery_app.py:48` and
  `jobs/maintenance.py:10` speak of self-healing on the next tick;
* portfolios: two overlapping PUTs exceed the weight sum (half of the hazard at
  `api/routes_portfolios.py:204`; `BookIsSound` exempts them); volatility, return and
  turnover are given to the solver and not validated afterwards; a solver that raises
  ends in an internal error;
* backtests: indicator rows written or rewritten after a backtest change what the same
  backtest would answer, since they have no knowledge time;
* API: two quota checks that race both pass; two rotations of one refresh token both
  succeed, a lost response ends the family at the next request, the loser of a
  registration race gets an internal error;
* bus: the redis backend reads only new entries, so what a reader held at a crash and
  what came before the group was created is not dispatched; nothing in the
  application starts the consumer of either broker backend;
* news: an article without a URL is stored once per fetch.

**Bounds.** Retries are bounded by the code (`max_retries`); the runs use 1, which
has a first attempt, a retry and a give-up. Crashes, redeliveries, exceptions,
lost triggers, revisions, deletes and clock ticks are faults or inputs of the
environment, and each has a bound named `Max...`. `MaxUpsets` bounds their sum where
each bound alone leaves too many states: any two faults (Pipeline), any one fault
(AlertDelivery, FundamentalVersions), in every order and at every step. Two
workers, readers or tabs are what the interleavings need: each conflict in this
code is between a pair of transactions or deliveries, and the theorems of section 4
cover every number of them. Two stocks give a partial universe that passes the
gate and one that fails it (the thresholds become 50 % so that one of two passes; the
code's 95 % and 2 % need a hundred stocks to say the same). One empty cell is within the
run's null rate of two rows (10 %) and beyond that of one; one insane row fails the
gate whatever else there is. Batch sizes, limits and
horizons are 1 or 2 so that a run has to stop at them: `Limit` and `BatchSize` in
`News`, `Count` in `EventBus`, `Ahead` (the code's 3 months) in `Partitions`. The grid
of `Portfolios` has ten units of weight, two steps of a float to each, a tolerance of two
units and solvers that miss by a step, so that rounding, clipping, a renormalization and
a breached cap all occur; shorts go down to three steps.

The MC modules restrict a part where the full product shows nothing more: one
scoring revision changes two cells; time in *session* passes between requests, and a
tab signs in when nobody is signed in; positions are edited in *edit* and the tools
used in *tools*; in *engine* the indicators of later sessions are computed in time, and a
signal comes in after the backtest and only if the index does not change. `Parts` and
`part` select, they do not change an action.

`SYMMETRY` is used in the two sums, which have no liveness property: the permutations
exchange the two runs of `AdjustedPrices`, and all pairs of twin processes of the
workspace at once (only one pair moves in a behaviour).

**Deadlock checking** is off in every run: all instances stop when their inputs
are used up. That they stop where they should is what the liveness properties
state; the sums state safety only.

**Fairness.** Weak fairness of receiving each waiting message (celery's workers
poll as long as one is alive; a message stays in the broker until it is received)
and of each worker's next step (a job that runs goes on; raising counts as going
on, so a job that hangs for ever is not covered: celery is configured without
a time limit). For backtests also the API request that has committed continues,
successfully or not; for idempotent creation each request that has begun
continues, and for fundamentals each attempt that has begun (PostgreSQL ends a lock
wait when its holder ends). Nothing is assumed of users, crashes, timeouts, deletions
or the clock. With crashes bounded, weak fairness is enough: after the last crash a
waiting message is received for good. The components of the two sums are specified
without fairness: they are driven by users and a timetable, of which nothing is
assumed.

## 4. Proofs

Each theorem holds for every value of the constants: any sets of tasks, workers, runs,
tabs, readers, stocks, topics and rules, and any bounds. The assumptions are the named
ones next to the constants. They say that bounds, thresholds and times are naturals,
that tables of inputs are functions of the right kind, and that a "nobody" is none of
the things it is told apart from; TLC evaluates each on the run of its module. The ones
with content:

* the stocks of `Pipeline`, `Scoring` and `BacktestEngine`, the names of `Portfolios`, the
  days of `AdjustedPrices`, the series of `Resync` and the topics of `EventBus` are finite,
  as universes, books, calendars and subscriptions are;
* the filings of a stock, the handlers of a topic and the words of a company's name are
  sequences; the weights of a list are naturals; the cues of an article are event types;
* constraints, bodies and markets are what the wire models and the columns admit;
* units are fine enough to be exact: percentiles (`Full`), an equal weight (`W`) and a
  return (`P`) of the backtest; and a book has few enough names for rounding and the
  misses of the solver to stay within the tolerance and below an even weight
  (`AllocationAssumption`).

A minimum is taken where an induction would be: a finite or well-founded set has a least
element (`LeastElement`, `GreatestElement`, `SmallestOne`). What a fold or a recursive
function computes is proved in the same way, as a fact about sets rather than about the
recursion. `AnalyticsProofs` starts with a small library of sums obtained so: the sum of
a function over a finite set exists and is unique whatever order it is taken in
(`SumsExist`, `SumIsSums`), removing an element subtracts its value, and whatever holds of
the empty set and survives adding an element holds (`ByElements`); from these, sums are
monotone, additive, split by classes (`SumOfClasses`), and a sum of squares lies between
the square of the sum over its length and the square of the sum.

**JobRuns.** `TypeCorrect`; `SucceededOutput` and `NothingLost`, the other two invariants
of run `job_runs`; `RunningOwned`, a row left running has a task that will claim it
again or gave up; `ImplementsContract`, the safety part of the refinement; and, under
`OneWorker`, `SerialTerminal` and `SerialSkipped`: with one worker process a succeeded
row stays so, and a completed key is never run again, whatever is lost or redelivered.
With two workers a duplicate delivery can overwrite the row.

`NoSilentLoss` is not inductive: the step that acknowledges a message removes the last
copy of its task, and nothing in the property says why it may. `LossInv` strengthens it
by not counting a worker that has only its acknowledgement left to do (`Live`), so the
burden moves to the steps that lead to `ack`: success needs `published`, which
`OutputInv` carries along the program counter; a skip needs a succeeded row, which
`SucceededHasOutput` turns into a published event; a retry puts a new copy into the
broker; giving up is recorded. `OwnerInv` does the same for rows left running; its one
delicate step is a skip or success of another task of the same key, after which the row
is no longer running. `SubmittedInv` says that messages in flight belong to submitted
tasks, which the refinement needs to map a redelivered copy to a request; the mapped
`outstanding` changes only at `Submit` and `Ack`.

**Pipeline.** `ChainIsAlwaysOrdered` and `NightCoversPrices`, its two invariants.
`ChainInv` adds what a job has in its hands: what it has read was committed and has only
grown since, and what it is about to announce is in the database. For the gate that it
grew is not enough, since a row may be added or replaced by a worse one: `GateInv` says
that what the gate read is the table but for the rows in `late` (`WasRead`), and that whole
rows in place of those, or on top, make no gate fail that it passed. The second theorem
needs `NightInv`: in a night without a late price or a correction, every stage that has
started has its input for every traded stock (`CoverInv`; for the price stage that is
what its loop has left), and in a night without a lost trigger or an exhausted task a
stage that is over has left its successor queued, running or over (`LiveInv`). At rest
the second runs down the chain and the first says what the last stage found.

**Backtests.** `RecordsAlwaysAgree`, `OneResult` and the refinement `ImplementsLifecycle`.
`IndInv` says that a transaction that holds the row's lock found it queued and it still
is, that a run which may still be claimed has no result, and that a task returns only
once its run is over. That the lock is owned is what makes the commit of a result the
only change of the row: deletion waits for the lock and two transactions never hold it.

**IdempotentCreate.** `TablesAlwaysAgree`, `KeysCreateOnce` and `AnswersAreAlwaysTrue`.
`IndInv`: an open transaction is bound to its tenant until a rollback unbinds it
(`BindingHolds`), has committed nothing, and is the only one that holds its key, and none
does once the key is taken (`KeyInv`); a 201 names a committed portfolio of the same
request, a 409 a row of the same key and another body. `SpentWithinLimit` counts
committed portfolios together with open inserts, since the quota is checked before the
insert and spent at the commit.

**AlertDelivery.** `SerialRunsAlwaysNotifyOnce` and `DeliveryKeepsItsWord` (types, locks,
delivered means sent, an undelivered event left nothing) hold on every day.
`LoopInv` is about the transaction of a delivery run: it takes each event once, what it
has marked is locked, and an in-app row goes with its mark; `SerialInv` adds that nothing
is notified but what is delivered while runs do not overlap. `MatchingRulesFire` and
`DeliveryIsAlwaysSound` (which adds that no event is stranded) are proved for a day with
one `NewsScored` (`OneNews`), from `DayInv`: an evaluation task then has one copy, in the
broker or at a worker (`CopyInv`), each breach has a task or a run that will cover it
(`CoverInv`), and each pending event one that will carry it (`CarrierInv`). The
condition is necessary: with two, an evaluation that crashed between its commit and its
publication can come back only to be skipped, because the other has succeeded under the
same key. The run has one trigger of each kind as well.

**FundamentalVersions.** `VersionsAreAlwaysAChain`, `RevisionsAreAlwaysAnnounced`,
`ImplementsKnowledgeLog`, `HistoryIsAlwaysFixed`, and both together as
`KnowledgeIsAlwaysAppendOnly`. `ChainInv` keeps rows in order (`Chained`) and says of an
open transaction what it has closed and written: both are locked, what it closes is older
than what it writes, and it writes over nothing it has not closed. The lock makes
the rows it read the rows at its commit; the CHECK and the unique index make the order.
The abstract log grows by one batch at `CommitStock` and stutters at every other step.

**Partitions, AdjustedPrices, IndexMembership.** `OnlyNeglectEverFillsTheDefault`: as long
as no row of a tended month has fallen, every tick covered the months ahead of it for
every table there was (`TicksCover`), so the row that falls first falls where no tick had
been. `AdjustedCloseIsAlwaysAdjusted`: `RebuildInv` describes a rebuild in the middle - of
the splits it has applied, the latest ones, each row it owns is divided by those after
the row, and a row it does not own was inserted since its reset and is raw - and
`OneRebuilds` follows from the reset locking every row there is. `MembershipIsAlwaysHistory`:
of two transactions that have read the open rows neither counts as alone
(`ReadsAreTrue`), so a run that is alone decides on the rows as they are; and the CHECK
refuses to close a row that starts on or after the date of the report. It is a theorem of `EngineSpec`, since a
backtest reads the membership that is rewritten under it.

**Sessions.** `AuthKeepsSessionsSound`. `AccountsInv`: account n is the n-th user, who
alone owns tenant n on the free plan. `TokensInv`: the rows of a family are one user's,
each is replaced by a later one, and at most one is live unless transactions overlapped.
`RequestsInv` follows the requests: in a family nothing disturbed there is one request,
it works on the token in the cookie, finds it revoked only when it has expired, and
answers with one that can be used.

**News.** `DelayedIngestLosesNothing`: `HoursInv` says that an hour that is done has stored
what was published in the hour before it, `FetchInv` what a run has stored so far.
`LinksAreAlwaysNamed`: links are exactly what the runs that marked the rows matched,
and the rest is about `CoreName`, `NameAliases` and the indexes. While it was proved the
second half of `LinksAreNamed` turned out too strong: a company whose name consists of
legal suffixes has no core name left and is not linked by it. `PastSignalsStand`: a
run that nobody overlapped has none of its rows rated yet (`RatingsInv`), so it only adds
ratings with a later time.

**EventBus.** `EveryEventIsAccountedFor`, for the three backends at once. `HandOK`: of the
entry a reader works on, each handler is still to be called or has been. `OwnerOK`: the
owner of a partition holds or has finished all it was given, and the acknowledged events
of a topic are its first ones, so that a new owner who starts at their number skips
nothing. With a stream, what is read lies behind the cursor that moved with it, so two
readers never hold the same entry; in Kafka that holds until one is taken for lost.

`BusIsAlwaysTyped` adds where entries are: what is acknowledged was published, lies
behind the cursor of its stream and is not pending (`PlacesInv`); the delicate step is a
Kafka reader that starts from the committed position, the number of acknowledged events,
which `OwnerOK` makes the position of the last one.

**Tables of the news.** `TablesAreAlwaysKeyed`: a link is one row and a rating one per row
and model, though nothing is locked between the reading of a work list and the writing.
`NewsInv` joins the invariants of the three kinds of runs with `TablesInv`. The first
attempt failed for a good reason: the model stored two articles of one answer that share
a link, where the code's inserts, one by one, keep the first. `Firsts` is the correction,
and the run has such a pair since.

**Portfolios and Allocations.** `BookIsAlwaysSound`: `PortfolioInv` keeps with an open PUT
that the sum projected from what it read was within one and the tolerance; at its commit
either the book is what it read, so its sum is the projected one, or `raced` is set.
`AnalysesAlwaysAddUp`: the deltas of a fully targeted book sum to nothing, so its
trades sum to what the names left out have with the opposite sign, each of them no more
than the threshold; one delta above the threshold has others against it, which makes the
drift at least as much; concentration lies between that of an even book and a single name, and a beta between the
betas it is a mean of. `OptimizerAnswersAreAlwaysTrue`: `Truth`, in four steps. A solver's
book, which meets its limits and its sum up to `Tol`, is clipped and rounded to one that
differs by that and half a quantum a name, is renormalized by what its sum misses, and
stays on the right side of every limit up to the tolerance; `CheckIs` says
what the post-solve check finds of any book, kind by kind; a refusal before the solver
(`StructureIsTrue`) leaves no book that meets the constraints, the sector caps' only if no
name lacks a sector; and the binding status,
the one of least slack, is a violated one. The condition on the number of names is
what "within the tolerance" needs: with more, rounding alone may breach it.

**BacktestEngine.** `BacktestIsAlwaysHonest`: a session's answer is computed from the
closes, the universe, the indicator rows and the signals known up to that session, so it is the same for any two `Data` that agree so
far (`SameAnswers`: the least session at which two walks differ would have to differ
from what the session before it leaves). `EngineInv` is kept because a write changes
nothing that is visible of an earlier session (`Untouched`): a write to the membership no day
before its date, from `MembershipInv`; a new bar and computed indicators no session before
theirs; a signal learnt today, however early its date, no session before today. So a saved answer stays the answer for the sessions no write is about. The other half,
`AccountsBalance`, is about any walk: what is held is priced, a rebalance invests all or
nothing (`W` is divisible by every number of picks), and in between the invested share
only loses what stopped trading.

**Resync.** `ReportsAreAlwaysTrue`, for all sixteen stages and every selection of them.
`ResyncInv`: what a run has computed is current, since the stages that read it come later
in the list (`TouchedIsFresh`); a stage that says ok has computed all its units
(`OkIsTouched`); and with `--force` no unit ahead has a succeeded key in the ledger, so
none is skipped (`ForcedIsDone`). Only staleness of derived items counts (`Derived`).

**Scoring.** `ScoresAlwaysExplainThemselves`, in three parts. Clipping to two quantiles
keeps the order, not strictly (`WinsorizingKeepsOrder`). In a group of n each stock
stands as many places above the others as they stand below it, ties halved, so that the
standings add up to n squared and percentiles average 50 (`StandingsAddUp`), and a better
raw value stands no lower; signed squares keep the order of z-scores. A composite is the
sum of its contributions, because the factors of a category are a class of the scored
ones (`SumOfClasses`), and lies between the least and the greatest percentile it blends.
And each step from raw values to the composite is monotone. `ScoringInv` says that a row
is of the snapshot last committed, and that as long as no input was revised everything
the two jobs hold comes from the inputs.

**The sums.** `PartsKeepTheirWord` (twice) and with it `MarketDataIsWellFormed` and
`WorkspaceIsWellFormed`, the type invariants of all components in the two compositions
that the runs check. So every invariant and every action property of a passing run is a
theorem, two of them under the conditions stated above (`OneNews` for
`MatchingRuleFires` and `DeliveryIsSound`).

Only model-checked:

* every liveness property and the liveness half of `JobContract`: fairness and ENABLED
  are beyond the prover;
* that the small instances reach the interesting cases at all, which a theorem does not
  say: the mutants of section 3 and the coverage of the runs do.

## 5. Further work

The safety properties of the runs are proved. What is left is to model more: the limit
on alert rules, the read marks of the notification center, more than one partition of a
Kafka topic, and what a portfolio's list endpoints page through; and the three hazards
that `PROJECT.json` lists without a property.

## 6. Not modelled

The full list with reasons is in `PROJECT.json`. In short:

* the cache and the rate limiter: best-effort, and nothing the models' properties
  are about is read through them;
* the object store and Parquet lake, the screener, saved screens, the read endpoints
  for stocks, scores and news, macro and shareholding upserts: one statement or one
  read each, without a state that steps of others could disturb;
* creating, editing and limiting alert rules, and the notification center's read
  marks (delivery and deletion of rules are modelled);
* Kafka's client refusing a message after `publish` has returned, a `publish` that raises
  (its event was never accepted, and the job that published it fails and is retried, as
  in `Pipeline`), and errors of a Kafka reader between two messages;
* statistics: the values of indicators, factor definitions, returns, covariance, VaR,
  the metrics of a backtest, the sentiment models; the ML feature catalog;
* formatting and wording (e-mails, DTOs, error texts), provider adapters, metrics and
  logging, infrastructure, scripts other than resync, the frontend.

Celery, PostgreSQL, redis, Kafka and the solver are modelled from how this code
configures and uses them: late acknowledgement, requeue on loss, autoretry; READ
COMMITTED, row locks, unique keys, savepoints, row level security; consumer groups
and committed positions; a solution that meets the formulation up to a tolerance. Queue routing, retry
delays and the Beat timetable are left out: any worker may take any task at any
time, which includes every timetable.
