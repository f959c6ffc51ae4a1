# QuantPulse: a TLA+ model

QuantPulse is a trading-research system: a FastAPI backend that runs long
scans in threads, a worker process with scheduled jobs, Redis and Supabase as
shared stores, and a Next.js frontend that follows the scans.  This directory
holds TLA+ modules that model its stateful core and the algorithms that decide
what it trades, the TLC configurations that check them on small instances, and
proofs checked by TLAPS.

    tlc -workers 2 -config ScanTask.cfg MCScanTask
    tlapm ScanProofs.tla

`PROJECT.json` lists the components with their status, the runs, the definitions
with the lines they model, the places where the code and what is said of it
disagree (`findings`), and what is hard to test in this code, each at its line
(`hazards`).

## Inventory of the system

| component | state it keeps | operations | talks to | hard behaviour | what makes it correct | modelled in |
|---|---|---|---|---|---|---|
| background scan endpoints (`backend/api/{scanner,analyzer,portfolio,swing_picks,sectors,overnight}.py`) | a task state per job | `start`, `status`, `stream`, the scan thread | task state, tracker, data cache | threads of earlier scans still running, outcomes racing starts | one scan at a time; a reported outcome is visible; every accepted scan ends | ScanTask, ScanJob |
| task state (`backend/tasks/state.py`) | Redis hash and result key with a TTL of an hour; a process-local dictionary | `update`, `get`, `set_result`, `get_result` | Redis | one failing command, two-step publication, independent expiry | status and result describe the same scan | ScanTask |
| progress tracker (`backend/progress.py`) | high-water mark, stop event, pusher thread | `start_phase`, `update_within_phase`, `finish`, push loop | task state | two unsynchronised writers; a pusher nobody stops | never resurrects a scan | ScanTask |
| frontend scan hook (`frontend-next/src/hooks/use-sse-scan.ts`) | module-level store, event source, refs of each mounted instance | mount, unmount, start, message and error handlers, timers, visibility | scan endpoints | late replies, broken streams, remounts | a scan shown as running is followed and ends | ScanClient |
| data cache (`backend/data/cache.py`) | per-process dictionary, Redis, Supabase rows | `get`, `set`, `clear_expired` | every job, API and worker | three tiers, asynchronous upserts, copies between tiers, two processes | a read is not older than a completed write, and not long expired | DataCache |
| data pipeline (`backend/pipeline.py`, `backend/api/{regime,pipeline_status,ai_endpoint}.py`) | the regime lock of a process, cached views and texts | `refresh_*`, prewarming, the GET requests | data cache, providers, AI calls | lock timeouts, overlapping observations, caches of caches | what is served is of bounded age; who holds the lock works; one text stands for all | Pipeline |
| data sources and tables (`backend/data/{refresh_scheduler,fetcher,universe}.py`, `backend/data/sources`) | ten tables | a refresh run per table, the cleanup, the reads | providers with and without keys | runs of two processes, failing writes, partial answers, fallbacks | a run that went well leaves its rows; nothing is given up before everybody was asked | Tables, Sources |
| rate limiter (`backend/data/rate_limiter.py`, FMP's and yfinance's clients) | token buckets, FMP's pause | `acquire`, `request_with_retry`, `_get` | providers | callers on several threads, retries, a pause lifted without a lock | no more than the rate plus the burst; a pause lets no new call through | Limiter |
| overnight picks (`backend/data/sources/overnight_src.py`, `backend/api/overnight.py`) | the pick log and the cost log | the scans, the outcome check | data cache, AI calls | read-modify-write by two processes | the log is a part of what was picked; outcomes are final | Overnight |
| trade journal and alerts (`backend/tracker/trade_journal.py`, `backend/alerts`) | the table of trades | `log_entry`, `log_exit`, the alert check every 15 minutes | Supabase, channels | an alert that raises | every trade at its target is told of | Journal |
| shadow book and strategy health (`backend/tracker/{trade_journal,strategy_health,shadow_evidence}.py`) | the table of phantom trades | `log_phantom`, `update_phantom_outcomes`, evidence, health | Supabase, scans | the job runs twice; ratios of few rows | an outcome is written once; only what gained is traded in full | ShadowBook |
| error tracking (`backend/middleware/error_tracking.py`) | one open row for an error's type and message | `_persist_error`, resolve, cleanup | Supabase | read-modify-write of the counter | one row per error, counted | ErrorEvents |
| strategies of a scan (`backend/strategies`, `backend/signals`, `backend/adaptive`) | the signals of a pass | detections, sizes, stops, validation | sources | answers in any order, late or missing | exposure is bounded; every plan is whole | Strategy, CrossAsset, Flow, Catalyst, Pairs, MarketScan |
| risk manager and portfolio build (`backend/risk/manager.py`, `backend/api/portfolio.py`) | equity, sizes and dollars of a build | `check_trade`, sizing and allocation loops | Kelly sizing, shadow evidence | order of checks, caps undone by a later pass | position, sector and total limits | Allocation |
| schedulers (`backend/scheduler.py`, `worker.py`, `backend/main.py`) | job tables in two processes | the cron jobs | all of the above | every job registered in both processes | a job's effect happens once | with the state each job changes |
| WebSocket manager, task queue, regime tracker | connections, a Redis queue, the current regime | | | | | no: see below |
| backtests (`backend/api/backtest.py`, `backend/backtest/seeder.py`) | one run's dictionary under a lock; rows of their own in the table of phantom trades | `start_seed`; delete the seeded rows, insert new ones | Supabase | a run that dies between delete and inserts | | no: see below |
| regime detector, correlation, VaR, AI prompts, pages, offline scripts | none shared | | | numeric code, presentation | | no |

## What is modelled

**ScanJob** is the abstract specification of a background scan as its callers
see it: a status, the scan accepted last, and the scan whose result is offered.
A start is accepted unless a scan is in progress; the scan succeeds, fails or is
forgotten; the result may be forgotten alone.  Every accepted scan ends.

**ScanTask** is the detailed specification.  One state machine stands for the
six endpoints, and `job` (chosen in `Init`) says where they differ: who uses
`TaskState` and who a plain dictionary, who has a tracker, who clears the error
at start, who keeps `<job>:last_result`.

| in the module | in the code |
|---|---|
| `hash`, `resKey` | `taskstate:<ns>` and `taskresult:<ns>` in Redis |
| `mem` | `TaskState._mem`, or the module-level dictionary of the job |
| `redis` | whether `get_redis()` returned a client to this process |
| `cached` | the `last_result` entry of the data cache |
| `pc[r]` | where the thread of scan `r` stands |
| `pct`, `alive`, `pending` | `_high_water`, the pusher's stop event, a value computed and not yet written |
| `StartHandler` | `start_scan` and its five siblings: one step, because the coroutine does not await between the read and the write |
| `Begin` ... `KeepLastResult` | the scan's thread, one step per write of shared state; `set_result` is two (`StoreResult`, `Publish`) |
| `PusherCompute`, `PusherWrite` | one round of `_auto_push_loop`, split where another thread may write |
| `RecsStatus` | the sectors job's status handler, the only one that writes |
| `QuietHour`, `CacheExpires` | the TTLs of the Redis keys and of the data cache |
| `Restart` | death and return of the API process |

A result is the number of the scan that produced it, so that properties can say
whose result is offered.  Progress is a few levels.

**ScanClient** is the hook `useSSEScan` of one browser tab, composed with an endpoint
that behaves as ScanJob (`INSTANCE ScanJob`); its specification is `ClientSpec`,
`ClientSafeSpec` without fairness. Mounts are numbered: the store (`view`, `es`)
survives a mount, and timers, requests and event sources keep the number of the instance
they belong to, which is what `mountedRef` distinguishes. The stream carries at most one
unread message, and the endpoint closes it after a message that is not `scanning`.

**DataCache** is one key of the cache of `backend/data/cache.py`, used at the
same time by threads of the API process and of the worker.

| in the module | in the code |
|---|---|
| `redis`, `db` | `cache:<key>` in Redis, the key's row in the `data_cache` table |
| `mem[p]` | `_mem[key]` of process `p` |
| `upserts[p]` | the daemon threads that `set` starts for critical keys |
| `client[p]` | whether `get_redis()` gave this process a client: it is asked once |
| `left`, `redisLeft` | the time until each version's `expires_at`, and until Redis drops what it holds |
| `ttl`, `busy` | the `ttl_sec` a thread is about to give Redis, the time since it read the clock or the row |
| `stale`, `asked` | history of a get: what had been overwritten, and what had long expired, when it began |
| `SetRedis`, `SetMem`, `Upsert` | `set`: SETEX, dictionary, the thread's upsert |
| `GetRedis`, `GetMem`, `GetRow`, `DeleteRow`, `FillMem`, `FillRedis` | `get`, one step per access to a tier |
| `ClearMem`, `ClearRow` | `clear_expired` |
| `Tick`, `Restart` | time, the death and return of a process |

A value is a version: the number of the set that wrote it, in the order in which
Redis sees the sets.  Every writer of a key passes the same TTL.  Its `expires_at`
goes with a value into the dictionaries and the row, but not into Redis, which counts
down a time of its own from the moment of the SETEX.  A copy from the row gets
`max(1, int(seconds left))` there (`WholeSeconds`), so that it may outlive its
`expires_at`: by a second, and by what the thread took between reading the row and
the SETEX.  Both together are `Grace`, and `ReadNotExpired` says that this is all:
what a get returns had not been expired for that long when the get began, whatever
fails and whichever way it came.  Without `max` Redis would refuse the copy of a row in
its last second.  `invalidate` has no caller and is left out.

**Allocation** is the portfolio build (`_run_portfolio_background`), from the
candidates to dollars.  It runs in one thread, so its states are those between
its loops, and between the rounds of the risk loop.

| in the module | in the code |
|---|---|
| a candidate `c` | its place in `ranked_candidates` |
| `size`, `dollars`, `picks` | `_kelly_pct`, `allocation_dollars`, the list that each filter leaves |
| `exposures`, `longs`, `shorts` | `sector_exposures`, the sums over `active_trade_signals` |
| `HealthFilter`, `CorrelationDedup` | the two filters; which candidates they drop is arbitrary |
| `RiskCheck(c)` | a round of the risk loop with `check_trade` |
| `ShadowSizing`, `Allocate`, `VarCheck`, `SharpeCheck`, `Normalise` | the loops after it |

Factors that shrink a size (weights, health, haircuts, shadow evidence, the VaR
scale) are arbitrary members of a set.  Of `check_trade` the pauses, the VaR
history and the drawdown are left out: `record_strategy_pnl`,
`record_daily_return` and `update_capital` have no caller, so these layers never
act; and the build passes no portfolio correlation.

**Pipeline** is the data pipeline of the two processes: jobs observe the market
and cache what they compute, requests are answered from the cache or refresh it.
There is no clock but the age of what is cached, so that jobs and requests may
come for ever.

| in the module | in the code |
|---|---|
| `store[k]` | what a get of `pipeline:<k>` may find, each with the age of the observation it rests on and the time it has left |
| `texts` | the AI summaries cached for the regime's fingerprint |
| `lock[p]` | `_regime_lock` of process `p` |
| `job[t]` | what thread `t` has still to do; `obs` is the regime it prefetched, `got` the payload `refresh_regime` gave it, `spent` the time its step has taken |
| `Scheduled`, `Warmup`, `TriggerPipelineRefresh`, `GetCurrentRegime`, `ForceCurrentRegime`, `GetView` | `refresh_fast`, `refresh_medium` and `refresh_all` from the schedulers, at startup and on request, and the GET handlers |
| `Prefetch`, `EnterRegime`, `LockTimeout`, `RefreshRegime`, `KeepFull`, `RefreshView` | the steps of these: the fetch before the lock, the lock with its timeout, the double check and the computation, the second entry, the views |
| `DashboardBegin`, `PrewarmBegin`, `CallModel`, `Summarize` | `refresh_dashboard_ai`, `_prewarm_dashboard_ai`, the calls they make, the endpoint for one text |
| `Tick`, `TextExpires`, `Restart` | times to live, the death and return of a process |

These entries are critical keys of the data cache: a set writes Redis and a dictionary
and starts a thread that upserts the row, upserts come in any order, a get copies what
it finds from one tier into another, and a process that comes back, or whose Redis
fails, may read an older value than was read before.  None of this is repeated here.  A
get finds nothing or any of the values that were set and are not yet gone
(`Found`), which is what `DataCacheProofs` proves of it, and the times to live
contain the `Grace` of that proof.  `Restart` takes nothing out of `store`, since
Redis or the rows outlive a process.  That the regime served would only move
forward is therefore not claimed; it does not hold.

Ages are counted from the beginning of the step that asks the sources: how old
their answers are is theirs.  `spoilt` is history: it says that a text is missing for
a reason other than the test of the first.

**Limiter** is how a thread gets an answer out of a provider, line by line through
the unlocked bucket: `Look`, `Sum`, `Store`, `Test`, `Take`, `Put`, `Wait` are the reads
and writes of `tokens` and `last_refill` in `_refill` and `try_acquire` (`Take` and
`Wait` read `tokens` again after the test), `YfAcquire` and `YfWake` yfinance's own
limiter with its lock, `Succeeds` ... `Limited` the attempts of `request_with_retry`.
`pause` is FMP's `_quota_exhausted_until`, which `_is_quota_exhausted` reads, reads
again to compare and sets to `None`, without a lock: `Ask`, `Compare`, `Reset`.
Four variables are history. `fair` is the bucket one thread at a time would have left,
`met` says whether two threads were inside since the bucket was last right; `cooling`
is what is left of the cooldown begun last, whatever became of `pause`, and `crossed`
says that it began between another thread's comparison and its `None`, which erases it.
Time does not pass between two lines of the bucket's code.  The asynchronous
variants have no caller.

**Tables** is the pre-fetched data, with **Sources** for the providers. An operation of
a provider is a sequence of calls, and the kind of each call says how the operation goes
on after data, nothing or a failure (`Need`, `Try`, `First`, ...). Any outcome may come
to each call; which calls are then made (`Made`) and what they bring together
(`Returns`) follows, and an answer is the set of its fields. A job of
`refresh_scheduler.py` is what it asks, for which tickers, and how each column of its
row is filled; a row exists only as far as the schema has its columns. Tables share
nothing, so a behaviour is about one of the ten, with any choice of configured
providers.

| in the module | in the code |
|---|---|
| `rows[k][a]` | the row of ticker `k` for the event of age `a`, with the columns that are filled |
| `job[p]`, `Begin`, `Fetch`, `Write`, `WriteFails`, `Crash` | the run of process `p`: `refresh_<table>`, ticker by ticker |
| `CleanupOldData`, `NextDay` | `cleanup_old_data`, midnight |
| `Read` | the readers of `fetcher.py`, from the table through each provider |

**Overnight** is the overnight scanner's memory.  `log[p]` and `costs[p]` are the
cached pick log and cost log as process `p` sees them; `ManualScan`,
`ScheduledStocks` and `ScheduledCrypto` start a scan, with the pre-filters on the
facts of each symbol; `ReadCosts`/`WriteCosts`, `ReadLog`/`WriteLog` and
`CheckOutcomes`/`WriteOutcomes` are the three read-modify-writes.  `bought` and
`charged` record what was handed over, `alone` whether no two of them overlapped.
Without Redis the dictionary hands out the list itself; the model hands out copies,
which allows more.

**Records** puts together the three tables that both processes write, over
**Market** (a quote and the plans made for one stock): **Journal** (trades and the
alert check every 15 minutes), **ShadowBook** (phantom trades, the update job, and the
evidence, health and sizes drawn from the closed ones, with the Sharpe ratio in
exact integers) and **ErrorEvents** (one error, its row and the threads that report
it).  They have no row in common, so a behaviour is about one of them.  The query of
the alert job promises no order of its rows, and the model takes the trades in any.
A run may end at any point with its process.  `told` is what a run has handed to
the dispatcher: whether a channel delivers it is not modelled.  The seeder of the
backtests deletes and inserts rows of its own in the table of phantom trades; they are
closed when they are inserted, so that no run has them to do, and `TradesOnGains` is
about whatever rows there are.
`met`, `disturbed`, `found` and `told` are history.

**MarketScan** is `_run_scan`: one of the four strategies over whatever its sources
answer, and then the signals that news alone gives.  **Strategy** holds what they
share (volatility scale, Kelly size, stop bands, `validate_signal`, the loop over
detections), **CrossAsset** the indicators, their votes on sectors and the rotation,
**Flow** sweeps and dark-pool prints, **Catalyst** earnings drift, revisions, insider
and news detections and their deduplication, **Pairs** the cointegrated pairs.
`at` is the part of the pass, `todo` what it has yet to look at, in any order where the
code's order is that of answers; `exposure` is what the code's loop counts, `found`
the list it builds.  Where the code sorts and cuts a list (`ClearestFirst`,
`ExtremeNews`, `Top`), `Best` names the places of the list that are kept.
Prices are in cents, sizes in hundred-thousandths and scores in per cent, so that
the arithmetic is exact; rounding is left out.  Strategies are made anew for each
scan and share nothing; a scan may lose one at any point (600 s, or an exception).
Indicators computed from price series are inputs from small sets.  Gap reversion
has no caller.

## What the runs check

| run | bounds | shows |
|---|---|---|
| `scan_task` | 6 jobs, 3 scans, 2 progress levels and Full, no failing command, one restart | types; one scan at a time (`OneActiveRun`); a reported outcome is never shown as running (`OutcomeVisible`); `RefinesScanJob`: the endpoint implements ScanJob, liveness included |
| `scan_task_faulty` | the jobs on TaskState, 2 scans, two failing commands | what still holds then: errors have their text; a result offered was stored by the scan it belongs to, even when scans overlap |
| `scan_client` | 2 mounts, 1 press, 1 scan of another tab, 1 broken request or stream, 1 loss of state | a running scan shown by the first mount is followed (`NeverStranded`) and ends (`ScanningEnds`); "done" is never shown without a result |
| `data_cache` | a thread in each of 2 processes, 2 sets, a second of 2 ticks, a TTL of one second, 1 tick from the row to the SETEX, 1 failing or repeated command, 1 restart; critical or not, with or without clients | a get of an uncritical key returns nothing that was overwritten before it began, while Redis answers (`ReadIsRegular`); no get returns what had been expired for longer than `Grace` when it began, whatever fails (`ReadNotExpired`) |
| `pipeline` | 2 threads in any of the processes, 1 view besides the regime, 2 texts; TTLs 1, 2 and 3, lock timeout 1, a step takes at most 1, ages up to 6 | the age of what is served (`ServedAgeBounded`); whoever holds the lock is at work (`LockHolderWorks`); one text stands for all unless something is known to have gone wrong (`FirstTextStandsForAll`) |
| `limiter` | 2 threads, a burst of 2, 2 retries, a pause of 3; the bucket, FMP, yfinance | the rate is kept while nobody met inside the bucket (`RateKept`); during a cooldown the calls under way are sent and no more, unless it began while a thread was about to lift an old pause (`PauseBoundsRequests`); somebody always gets on (`SomeoneIsServed`) |
| `tables` | each of 10 tables, every choice of keys; 2 processes, 2 tickers, days 0 to 2 | a run that went well leaves its rows (`RowsOfCompletedRuns`); nobody comes back with nothing while a configured provider was not asked (`NothingOnlyAfterAll`) |
| `tables_serve` | 1 process, 1 ticker | violation of "eliminating on-demand latency": the rows of a run that went well do not answer every reader |
| `overnight` | a thread in each of 2 processes, 2 scans, 2 checks, a log of 2, a stock and a coin, a closed day, with and without Redis | whatever jobs overwrite, the log is a part of the picks in order (`LogIsHistory`); nothing is lost (`AloneNothingLost`) and a logged outcome is final (`OutcomesStay`) unless two jobs meet |
| `records` | 2 trades, 2 phantoms, 4 reports; 3 prices, a long and a short plan; 2 updaters, 2 writers | outcomes of phantoms are final unless two runs met on the row (`OutcomesStand`); reports are counted unless disturbed (`ErrorsCounted`); trades at their target are told of unless an earlier one is at its stop (`TargetsTold`); no signal is traded in full whose rows lost (`TradesOnGains`) |
| `market_scan` | 5 tickers, 4 markets, the real sector map, lists cut to 2 to 4 | what a scan puts on is bounded per strategy (`ExposureBounded`); a ticker is named once by a strategy and the news, and stops and targets are on their sides (`PlansStand`) |
| `allocation` | 3 candidates, 2 sectors, 2 Kelly sizes, 2 factors; limits that 3 candidates reach | the risk limits hold for the sizes, each pick (`WithinLimits`) and in sum (`PortfolioLimits`), whatever the order and the filters; the finished book is the investable capital (`FullyInvested`) |

Most `TypeOK`s are checked along.  `tables_serve` is expected to fail: it states what
the module's head says, and TLC finds the behaviour that contradicts it.  The other
disagreements listed under `findings` were met while modelling and are read off the
code: what the passing runs state is what is left of the promise, and the conditions
in it (`~met`, `alone`, `~disturbed`, `crossed`, no failing command) are where the code
departs from it.

Bounds.  Two scans are the fewest where an earlier scan's thread, pusher or
result can reach a later one; the third start shows that a state reached that
way does not refuse everyone.  One restart suffices to lose threads and keep
keys.  Two failing commands let one write be diverted and a later read or write
fail as well.  For the client, the first mount alone covers every handler, and
the second one what an instance leaves behind.  For the cache, two
sets are the fewest where one value is overwritten; one thread per process gives
every interleaving of a set with a get of the other process, and a second of two ticks
has a row with less than a second left.  In Pipeline, two
threads are the fewest that contend for the lock, in one process or in two; the
bounds of `ServedAgeBounded` are sums of the constants, reached for these values;
jobs are not bounded in number.  In Limiter two threads can race for the last token
and one can sleep while the other asks.  In Tables two tickers let a run fail half
way, one within the first hundred and one beyond; three days let a row be new, kept
and dropped.  In Overnight two scans and a check are the fewest where one overwrites
another, and a log of two is cut by the third pick.  In Records two rows are the
fewest where a run is between them; the thirty, sixty and ninety days and the five
and ten rows of the shadow book stand as 1, 2, 3 and 2, 2, which keeps their order.
In MarketScan the settings are on both sides of each branch of size and stop, and the
cut of every list is below its length.  For the portfolio build, three candidates are
the fewest where a rejected or reduced one stands between two that share a limit; the
limits are scaled down so that they reach each of them.  Symmetry is taken of
processes, threads, writers and sectors, only in runs without liveness.
Runs whose bounds stop the model do not look for deadlock; `limiter`, `pipeline`,
`tables` and `data_cache` do.

Fairness.  In ScanTask threads are scheduled and every phase of a scan ends (the
providers' calls have timeouts); expiry happens because time passes.  No user is
obliged to start a scan, no phase to report progress and no process to restart.
In ScanClient the network delivers or breaks, the browser runs handlers and
timers, and scans end; no user is obliged to mount, press or look.  The
hydration request has no fairness: nothing that is promised depends on it.
In Limiter each thread's steps and time are fair, since threads are scheduled and
requests have timeouts; nobody is obliged to ask.  The other modules promise safety
only and assume no fairness.

## What is proved

`ScanProofs` proves, for every set of jobs and every bound,

* `TypesCorrect`: `SafeSpec => []TypeOK`, whatever fails;
* `OneScanAtATime` and `OutcomesAreVisible`: while no Redis command fails
  (`MaxFaults = 0`), `SafeSpec => []OneActiveRun` and `[]OutcomeVisible`;
* `ImplementsScanJob`: under the same condition `SafeSpec => Abs!SafeSpec`.

The invariants are not inductive.  `IInv` adds what the guard of the start
handler relies on: the hash and the dictionary are never both in use (without a
client the hash is blank, with one the dictionary is); a scan before the last
one is not active; the status follows from where the last scan's thread stands;
what is stored under the result key is the last scan's once that scan published.
`IInvStep` takes one step per action.  The refinement theorem combines `IInv`
in both states of a step (`RefinementStep`): `StartHandler` maps to `Start`,
`Publish` and the dictionary's `StoreResult` to `Succeed`, `Fail` to `Fail`,
`Restart` and `QuietHour` to `Forget`, `ForgetResult` or a stutter, `RecsStatus`
to `Recall`, everything else to a stutter.

Two more theorems drop the condition on failing commands.  `ErrorsHaveText`
and `OfferedResultsWereStored` prove `[]ErrorHasText` and
`[]OfferedResultWasStored` for any number of them.  `OneActiveRun` fails then, so
nothing may be said of the last scan alone: the invariant `FInv` speaks of each
place a result or an error can be (hash, dictionary, result key, cache) and of
what the thread it came from has done.

Of the client it proves `DoneAlwaysHasResult`, `FirstMountNotStranded` and
`ClientTypes`: `ClientSafeSpec => []DoneHasResult`, `[]NeverStranded` and
`[]ClientTypeOK` for any number of mounts, presses, other tabs, losses and forgotten
results. A stream's "idle" closes it and schedules nothing, so `NeverStranded` is not
inductive. `CInv` adds that such a message is only ever on its way while a start of the
same page still is (`IdleUnread`), which rests on what nobody has read before the first
scan is accepted (`NothingStarted`) and on which instance owns what is left behind
(`Numbered`).

`DataCacheProofs` proves, for any processes, threads, sets, failures and restarts,
`CacheTypesCorrect`, `ReadsAreRegular` and `ReadsAreNotExpired`.  The invariant
`IInv` adds that a set was preceded only by older ones (`Ordered`), that while
nothing fails Redis holds the newest version and no thread gets as far as
copying a row (`RedisNewest`: a get that missed Redis began when everything
written had expired, so what it finds in the dictionary is gone or newer), and
that what is on its way from the row to the other tiers had not expired when the
row was read, and gets no more than a second too much (`CopiesInTime`), that Redis
drops each value within `Grace` of its `expires_at` (`RedisBounded`), and that what
had long expired when a get began stays so (`AskedExpired`).

`TradingProofs` proves of the portfolio build, for any number of candidates and any
limits, sizes and factors,

* `AllocationTypes`: `Spec => []TypeOK`; no divisor of a scaling is ever zero;
* `LimitsHold`: `[]WithinLimits`, each position and each sector as `check_trade`
  counts;
* `PortfolioStaysWithinLimits`: `[]PortfolioLimits`, the gross sum and each
  sector's sum of the sizes the build works with;
* `CapitalIsInvested`: `[]FullyInvested`, the allocations of the finished book sum
  to the capital up to the tolerance or half a pick each.

The invariant `LInv` adds `NotLarger`, the build's own size of a signal is at most
its Kelly size, which is why it suffices to cap it when the signal was cut; and
`SizesCounted`, the sizes of the candidates already let through sum to no more than
what `check_trade` has on its counters: these bound the sum, although the limit is
tested on other sizes than those that are summed.  `AdjustedFits` says that what
`check_trade` grants fits; every later step only shrinks sizes (`ShrinkStep`).
The sums are over sets of candidates.  That they exist, and how they change with
one element, is proved first, by induction on the size of the set (`SumsExist`).

Of a scan it proves, for any universe, markets, readings, feeds, answers and news,

* `ExposureStaysBounded`: `MarketSpec => []ExposureBounded`;
* `PlansAlwaysStand`: `MarketSpec => []PlansStand`.

Neither is inductive: the one speaks of the sum over a list and the code tests a
counter, the other of what is in a list and the code looks at what is still to come.
`SInv` says of every list that its signals are whole (`Sound`), of a source that may
have signalled, and of different tickers (`Lists`); that what has been found is of other
tickers than what the scan has (`Apart`), and so is what rotation, sweeps, dark-pool
prints and news have yet to look at (`Pending`); that the list adds up to no more than
the counter, and the counter to no more than the strategy's limit (`Counted`), which
`Kept` says of the signals the scan has.  The strategy returns a part of its list, so
that the sum of a part is needed (`TotalPart`), in which the order does not matter
(`Reindexed`).  `BestIs` says what a stable sort with a cut returns, `n` different places
or as many as there are: it is why no ticker comes twice out of one.  `KellyIs`,
`StopIs` and `Scales` bound sizes and stops from the volatility scale, for any VIX.

`PipelineProofs` proves, for any number of processes, threads, views and texts and
any times,

* `PipelineTypes`: `[]TypeOK`; an entry `regime_full` is made of a payload only;
* `LockIsWorked`: `[]LockHolderWorks`.  `LInv` adds that a job waits for texts only
  in the two steps that ask for them, so that no text call can move a thread that
  holds the lock;
* `AgesAreBounded`: `[]ServedAgeBounded`.  A job's list of steps is changed at its
  head only, and what the list may hold, and in which order, is the invariant
  `Ordered`; from it follows what each step can be carrying and how old that is
  (`Sound`), and with it the age of each value when it is set and as long as a get may
  find it (`Fresh`);
* `FirstTextStands`: `[]FirstTextStandsForAll`.  `FInv`: where the first text is
  there, nothing is spoilt and another is missing, some job is on its way to all
  that are missing (`Covering`);.

`TablesProofs` proves, for any processes, tickers and days, for each of the ten tables
and any configured providers,

* `TablesTypes`: `[]TypeOK`; whatever a job was told, its rows hold columns of the
  schema, and a reader gets such columns or a provider's fields;
* `CompletedRunsLeaveRows`: `[]RowsOfCompletedRuns`.  `KInv` says the same of each run
  that went well so far and of the tickers it is through with, which are those it
  neither still has to do nor is about to write (`Through`, `Waiting`): their rows are
  there, and go by an age that the cleanup leaves (`Kept`), however often they are
  replaced and whenever the day changes.  `TInv` keeps a run's parts in step (`InOrder`);
* `NothingWithoutAsking`: `[]NothingOnlyAfterAll`, by what an operation returns when
  each of its calls has an outcome.

`LimiterProofs` proves, for any finite number of threads, any burst, retries and
pause,

* `LimiterTypes`: `[]TypeOK`.  It states no lower bound of `tokens`: each thread
  that saw the last token takes it, and a thread that stores what it read earlier
  makes others see it again, so that the bucket's debt may exceed the number of
  threads.  What it bounds is `fair`, and its invariant counts by `TakesLeft` and
  `SendsLeft` what the calls under way may still take and send (`DebtBounded`);
* `RateIsKept`: `[]RateKept`.  `RInv` says, of the bucket without a lock
  (`BucketRight`), that while nobody met anybody in it one thread at most is inside,
  and what it has read and is about to write is what a bucket used by one thread at
  a time would hold; and, of yfinance's limiter (`LimiterBehind`), that it is at most
  as far ahead as the sleeper's token is handed out twice;
* `PauseIsKept`: `[]PauseBoundsRequests`.  The invariant (`PauseHolds`) says that, in a
  cooldown that nobody was about to lift when it began (`Holding`), the threads see
  what is left of it, so that none of them comes to lift it, and what was sent in it
  and what the calls under way may still send is together within the bound.

`RecordsProofs` proves, for any number of rows, processes, prices, plans and days,

* `RecordsTypes`: `[]TypeOK` of the three tables;
* `OutcomesAreFinal`: `Spec => OutcomesStand`.  A run that closes a row may do so
  only because no other run has closed it since it was read; `BInv` therefore says
  that the rows a run has to do are open (`StillOpen`) and not another run's
  (`DoneByOne`), except for those that two runs had at once;
* `TradesRestOnGains`: `[]TradesOnGains`.  It needs no invariant: whatever the rows,
  the chain of thresholds from recommendation to size and health lets through only a
  Sharpe ratio of a half, which is of a positive sum;
* `TargetsAreTold`: `[]TargetsTold`.  `JInv`: each target a run has found is told of
  already or still among its alerts, or an alert that raises came before it
  (`Accounted`), and an alert that raises was found by the run (`RaisesFound`);
* `ErrorsAreCounted`: `[]ErrorsCounted`.  `EInv`: while nothing was disturbed, one
  thread at most is about to write (`OneWriter`), the count it has read is still the
  row's (`ReadHolds`), one row at most is unresolved (`OneUnresolved`), and the
  counts sum to the reports stored.

`OvernightProofs` proves, for any threads, processes, scans, checks, stocks and
coins, with and without Redis,

* `OvernightTypes`: `[]TypeOK`; no log is ever longer than its limit;
* `LogsAreHistory`: `[]LogIsHistory`.  `HInv` places the log of each process, and
  what each job has read and is about to write back, among the picks that were made:
  a job overwrites a log with another such part of history, so this needs no
  condition on who met whom;
* `NothingIsLost`: `[]AloneNothingLost`.  `NInv`: while there is one store and no
  two jobs met, one job at most is under way, each log is the last `MaxLog` picks, the
  cost log is what was charged, and what a job has read is still what is there
  (`ReadingsFresh`);
* `OutcomesAreKept`: `Spec => OutcomesStay`, from `NInv` and from `UInv`, which says
  that no two picks are the same one, so that the pick whose outcome a check writes is
  the one it was computed for.

What these theorems assume of the constants, besides that bounds are naturals and
thresholds are in order: jobs are among the six, `Home` gives every cache thread its
process, and a TTL is of whole seconds; prices are positive, and a plan is a direction
with an entry, a stop and a target that are naturals; threads of the limiter, and the
overnight scanner's stocks and coins, are finite; the texts of a dashboard are a list
without repetition, not empty; and no step of the pipeline takes longer than the oldest
age the model tells apart; the tables' cleanup keeps a row for a day at least and not
beyond the horizon. Of a scan: the universe is a list without repetition, as the rows of
a table with a key are; VIX and its average are not zero, and neither is a stock's daily
range (`SettingsAreMarkets`; a stock that did not move in fourteen days would have its
stop at its price); the indicators are finitely many and scores are integers
(`RotationBounds`, `FlowBounds`, `ScoresAreNumbers`); a feed has a list of sweeps for
each ticker (`SweepsAreLists`), and the cache one mood for each (`NewsIsATable`).

Only model-checked:

* What is under fairness, as liveness is out of this prover's reach: `ScanningEnds`,
  `SomeoneIsServed`, and the liveness half of `RefinesScanJob` (`ImplementsScanJob` is
  the other half).
* `TableServes`, which does not hold.

Every invariant of the passing runs is what a theorem states, and so is each of their
two action properties (`OutcomesStay`, `OutcomesStand`).

An induction over data is possible where it can be put as a least counterexample:
the set of the sizes (or places) at which a statement fails, if not empty, has a
least element, by which it is refuted.  That is how sums over sets are handled here.

## Plan

Every component whose state several threads or processes change in this program has
its module, save the connections of the WebSocket manager, to which nothing is ever
sent.  What would come next:

1. The quick allocation of `portfolio.py`, and the batch reads of `fetcher.py`.
2. The scoring tables of the regime detector as operators against the bands its
   documentation gives.
3. What a strategy returns as an abstract specification of its own (a list of sound
   signals within its limit), which the four passes of MarketScan implement.

## What is not modelled

* The regime tracker (`regime/transitions.py`), the Arq queue (`tasks/queue.py`), the
  events of the WebSocket manager, gap reversion, the circuit breakers of the risk
  manager, `invalidate`, `reset` and the asynchronous limiters: nothing in the
  program calls them, so that there is no behaviour to be faithful to.
* The event loop of the API process: a coroutine that blocks it
  (`get_current_regime`) is one thread of the model, and a hung provider call that
  keeps a scan's pool from closing is excluded by the fairness of ScanTask.
* Backtests: a seed run deletes the rows an earlier one left in the table of phantom
  trades and inserts new ones, closed already; no modelled job writes these rows, and
  starts are under a lock of one process.
* Numeric code over price series (indicators, correlation, VaR, DCF, cointegration
  fits): no state, and its results are inputs from small sets or
  arbitrary choices where a modelled decision depends on them.
* Prompts and the text of answers, messages and pages, authentication, request
  logging, database declarations and offline scripts.
