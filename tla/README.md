# Verification of the stock screen

TLA+ models of the stock screen (`src/`), TLC runs that check them on small
instances, and TLAPS proofs of the most important results for every instance.
All modules are written from the code; where a doc or a comment disagrees with
it, section 5 says so.

## 1. The system

An NSE screener: it ingests daily and hourly candles (Fyers), reconciles them
with the exchange's bhavcopy, computes indicators and signals, pulls the users'
fills from brokers (Groww, CSV), keeps a ledger of positions, matches each with
the signal that led to it, and gives each open position a daily verdict.
FastAPI serves an API over PostgreSQL; `scripts/daily_sync.py` runs the
pipeline, started by `scripts/scheduler_tick.py` from cron every few minutes.

| Component | State | Operations | Interaction | Module |
|---|---|---|---|---|
| Positions ledger (`app/positions/ledger.py`) | `broker_trades.applied_at`, `positions`, `sell_allocations` | apply unapplied fills (FIFO), reattribute a sell | reads what broker sync and imports store; called by the job, the API and after imports | `Ledger`, `ApplySessions` |
| Restatement (`positions/restate.py`) | `last_restated_on`, `structural_factor_applied`, frozen levels | restate a lot, factor of a fill | first step of every evaluation; `_apply_buy` and `_apply_sell` use the fill's factor | `ShareTerms`, `Ledger`; levels in `Evaluate` |
| Corporate actions (`ingest/corporate_actions.py`, `indicators/adjust.py`) | `corporate_actions` | load a range of dates, adjustment factors | loaded by the job and the API, read by the restatement and the evaluator | `CorporateActions` |
| Broker sync (`brokers/service.py`, `groww.py`) | `broker_accounts`, `broker_trades`, `broker_holdings_snapshots` | sync an account, import a tradebook | feeds the ledger; shares one transaction with it in an import | `BrokerSync` |
| Run lifecycle (the three run routers, their services, `scripts/reap_stale_runs.py`) | `ingest_runs` | start behind a 409 guard, count, finish, reap | one row per API run and per step of the job | `Runs` |
| Scheduler and daily job (`scripts/scheduler_tick.py`, `daily_sync.py`, `settings_store.py`) | advisory lock, `app_settings` | tick, steps, re-check, mark the day | orchestrates everything else | `DailyJob`, `DailyDuty` |
| Candle ingest (`ingest/service.py`, `fyers_fetcher.py`, `resample.py`) | `candles` | incremental sync, backfill, rebuild of a symbol | started by the API and the job | `Ingest` |
| Fyers session (`ingest/fyers_session.py`) | `data_feed_sessions` | login, logout, death of the token | read when a fetcher is built | `Feed` |
| Cutover (`scripts/cutover_to_fyers.py`) | `candles` | plan, rebuild, recompute; rerun until done | one-off, beside the job and the API | `Feed` |
| Indicators (`indicators/service.py`) | `indicator_values` | recompute a symbol | read candles, read by signals and evaluator | `Feed` |
| Reconcile (`ingest/reconcile*.py`, `bhavcopy.py`) | `bar_checks` | daily and hourly checks, re-check | patches candles, holds signals back | `Reconcile` |
| Signals and strategies (`signals/`) | `signals` | six strategies, regenerate a symbol | read bars, held back by the reconcile, read by the matcher | `Signals` |
| Signal matcher (`positions/matcher.py`) | `matched_*`, `frozen_*` | score candidates, freeze levels | called by `_apply_buy` and the API | `Signals`; freezing in `Evaluate` |
| Evaluator (`positions/evaluator.py`) | `position_evaluations`, levels of `positions` | evaluate one lot, all lots, as of a day | reads candles, indicators, actions; restates first | `Evaluate` |
| Symbols and universe | `symbols` | refresh, add | a company is known from some day on | within `CorporateActions` |
| Calendar | | trading days, closed sessions | used by reconcile, signals, evaluator, job | operators of those modules |
| Users, keys, schema, read API, scripts for operators, UI, deployment | | | | left out (section 8) |

Hard behaviours: fills that arrive late, out of order or again under other ids;
a broker's list whose pages move while they are read; runs that die between two
transactions; sessions of the job and of requests that overlap without locks
and remember rows in different ways; actions announced early, reworded, put off
or discovered late; two sources of share terms (the exchange's ex-date and the
day Fyers folds it into its history) that disagree for a while; rounding of
share counts; guards that check and then insert; deletes and inserts of
overlapping transactions under READ COMMITTED; a reaper that cannot tell a dead
run from a slow one; a scheduler killed between a job and its bookkeeping;
tokens that die half-way.

What makes each component correct:

* *ledger* - each fill applied once and in the end, oldest lot first, shares
  conserved, closed iff empty, profit and loss equal to its rows;
* *restatement* - each action folded exactly once, counts exact or flagged;
* *actions* - none slips through the daily window, dividends of a day add up,
  the factors give total returns whatever splits lie between;
* *sync* - a tradebook is whole or absent, a pull misses nothing that was filled
  before it began, failures show and are overcome;
* *runs* - no run of the API beside one that its guard could see, true
  counters, no row that blocks for ever;
* *scheduler* - one job at a time, once a day, no day skipped;
* *ingest* - series without gaps, a rebuild never loses history, one price
  basis in the end;
* *feed and cutover* - exit codes tell the truth, indicators follow the candles,
  an interrupted cutover can be resumed to its end;
* *reconcile* - only closed sessions are checked, what ingest re-wrote is
  checked again, rows say what is stored, every pending day is resolved;
* *signals* - no hindsight, a regeneration leaves neither stale nor double rows;
* *matcher* - a later bar does not take a fill away from its signal;
* *evaluator* - the verdict is the one an operator would reach who sees all
  prices in one kind of shares.

## 2. Modules

| Module | What |
|---|---|
| `ShareCounts` | the shares of a function over a set of lots or sells, as a cardinality (provable without recursion) |
| `ShareTerms` | combined ratio of a set of actions, the actions between two days, rounding half to even, the QTY_MISMATCH rule |
| `Ledger` | one account and symbol: fills, lots, allocations, actions, apply runs, evaluation, manual reattribution; extends the two above |
| `ApplySessions` | several apply runs at once, a sell in two steps (read the lots; write and commit) |
| `BrokerSync` | the broker's list of orders, pulls and imports of one account up to the ledger's commit, the job's ledger step, the account's status |
| `Runs` | rows of `ingest_runs`, their workers, the API's guard, the job's steps, the reaper |
| `DailyDuty` | abstract: a job that is active for one day at a time and then done for it |
| `DailyJob` | ticks, lock, settings, clock; implements `DailyDuty` twice (daily job, re-check) |
| `Reconcile` | ingest's window and its rebuild, the sessions a reconcile checks, rows, patches, the re-check and what is held back, for one symbol |
| `Ingest` | the candles of one symbol, in the share terms of the fetch; runs of job and API; Fyers folding splits |
| `Feed` | composes the login, ingest runs, the cutover and the indicators over several symbols |
| `Signals` | bars, six strategies, overlapping regenerations, the matcher |
| `Evaluate` | one lot: the fill that opens it, levels, bars, share terms and verdicts; matches and overlapping evaluations |
| `CorporateActions` | NSE's records, the loader, the factors of `adjust.py` |
| `MC*` | values of the constants for TLC |
| `*Proofs` | theorems and their lemmas: one module each for `Ledger`, `ApplySessions`, `BrokerSync`, `Reconcile`, `Signals`; `RunsProofs` for `Runs` and `Ingest`, `CorporateActionsProofs` for `CorporateActions` and `Feed`, `DailyJobProofs` for `DailyJob` and `Evaluate` |

A module that shares its proof module with another has a prefix in the names of
its initial states, next-state relation and specification (`IngestSpec`,
`FeedSpec`, `EvaluateSpec`).

A comment `Variant:` before an operator marks a plausible fault of the
definition after it; no behaviour uses it. It is there to show that the
properties notice the fault.

### Correspondence

`Ledger`. `position[b]` is the `positions` row opened by buy `b`
(`entry_trade_id` is unique), `alloc[s][b]` the quantity of the
`sell_allocations` row of sell `s` and that lot, `trade[t]` the `broker_trades`
row, `known` the `corporate_actions`. Every query of the ledger filters on
account and symbol, so the whole ledger is a product of such ledgers.
One action is one committed transaction: `StartApply` is the select of
`apply_unapplied_trades`; `ApplyBuy`, `ApplySell` one round of its loop;
`SellRaises`, `ApplyFails` its `except`; `ApplyDies` the death of the process;
`Evaluate` one position of `evaluate_all` (restatement, then the flag);
`Reattribute` the whole endpoint. `loaded` is what the run holds in memory: the
job's `SessionLocal` does not expire on commit, a request's session does, a
rollback expires both (`Kept`, `Reloaded`). A quantity in other share terms is
converted by the code in floats and rounded; the model uses exact ratios, so
`Restate` rounds half to even of the exact value.

`ApplySessions`. The same loop for any number of sessions. `ReadLots` is the
query of `_apply_sell`, `Sell` its flush and commit. The identity map of a
session is weak, so every sell reads the lots anew; the UPDATE writes the
absolute `qty_open` computed from what was read, and `status` only when it
changes. `overlapped` is history: two runs had fills loaded at once.

`BrokerSync`. `call[r]` is the call a session executes. `ReadsPage` is one
round of `_all_orders`, which reads `MaxPages` pages at most; the list holds all
orders of the current day, filled or not (`placed`), the one placed last first.
An order placed between two pages moves others to the next page, where one is
read again (`twice`); an order filled meanwhile keeps its place (`Executes`),
and counts only if it is filled when its page is read (`Eligible`). `PullTrades`
and `PullHoldings` are the two commits in `sync_account` before the ledger;
`ReadTwice` is the INSERT that gets one key twice and fails, `PullFails` any
other error. Both roll back and reload the account row (`RollsBack`), and record
the failure in a second step (`RecordsFailure`), before which other pulls may
commit. `known` is the account row as the session remembers it, because
assigning a value equal to the remembered one writes nothing, in the success
(`Finished`) and in the failure. The job then applies what is
unapplied in a session of its own (`LoadsUnapplied`, `LedgerEnds`), whatever
became of the pull. An import inserts its rows (`fresh`) and commits them with
the first fill that is applied; one that inserts a row another import holds
uncommitted waits for it (`BeginImport`). `Dies` also stands for `client_for` raising
before the `try`.

`Runs`. `rows[r]` is the row, `work[r]` the function call behind it. The guard
of the three routers is `CheckGuard`, the insert `Accept`; requests are handled
in a thread pool, so any number may be between the two (`checked`, with the rows
they saw as history). `Worker` covers `run_ingest`, `run_compute`, `run_signals`
and the two steps of the job that keep a row themselves; `Plan` is
`parse_steps`. `StatementFails` is a statement that fails in the database outside
of what is rolled back for one symbol: the session's later commits raise, too,
and the row stays as it is. The reaper selects and writes in two steps
(`stale`).

`DailyJob`. A tick is `main`: lock, read clock and settings, decide, run, mark,
unlock. `left` counts the steps of the daily job. `Dies` closes the connection
and so releases the lock.

`Reconcile`. One symbol's hourly bars; symbols share nothing but the order in
which days are committed. `bars[d]` is what is stored of session `d`, told
apart by how `check_hourly` judges it: "good" and "off" pass, the latter with a
patch; "part" (an open session's first hours) and "bad" fail. `check[d]` is the
status of the `bar_checks` row. `JobIngests` and `ApiIngests` are one symbol of
`run_ingest`; `Opens` is `check_day` and the selection of targets; `ReadsDay`
and `WritesDay` are the two ends of a day's transaction, between which other
runs commit; `LoadsHeld` and `Generates` are `run_signals`. `stale` are the
sessions whose stored daily bar Fyers serves otherwise by now, after a fold
(`Readjusts`) or a correction: an ingest that finds one among the bars it fetches
again (`NeedsRedownload`) rebuilds the history (`Rebuilds`): all sessions as
Fyers serves them now, no row of `bar_checks` left. `refetched_days`
and `_incremental_start` compare dates of sessions, so `Overlap` is in calendar
days and `Lookback` in sessions. The 1d check is the same with no "off". A
scrip that is not in the bhavcopy fails like "bad" bars; notes are left out.
Whole sessions are re-fetched by one run in one step. `stored`, `wrote`,
`rebuilt`, `whole`, `alone`, `unchecked` and `owed` are history: what
the properties need to tell.

`Ingest`. A day stands for its bars, and the price of a bar for the set of
ex-dates folded into it: two fetches of a bar differ by more than the tolerance
of `needs_redownload` exactly if these sets do. `candles[tf]` are the stored
days of a timeframe. A run goes through the steps of one symbol of `run_ingest`:
`FetchesDaily`, `Compares` (`needs_redownload`, of the stored bars as they are
after the answer), then either `FetchesHourly`, `Writes`, or the rebuild
`RefetchesDaily`, `RefetchesHourly`, `Replaces`/`Refuses`
(`rebuild_symbol_history`: all is fetched before anything is deleted). `Gets`
is an answer of Fyers, which may be empty; `Readjusts` is Fyers folding a split
into all earlier bars, at most `FoldLag` days after the ex-date. `hidden` is
history: the comparison of the next run may not show a re-adjustment. That is so
if a split is folded when no bar before its ex-date is to be fetched again
(`OutOfSight`; after a Monday's run, none of the Friday is), if a run had its
answer before another committed, or after a backfill of daily bars only.

`Feed`. A day begins at 06:00, when the token of the day before dies; `stored`
is the day of the stored token, `run[w].token` the copy a fetcher keeps.
`candles[s][tf]` is the set of sources of the stored bars, `indicators[s]` what
the indicator rows were computed from: "none", the "current" candles,
"outdated" ones, or "mixed" (rows at times for which there is no candle).
`JobStarts`, `ApiStarts`, `CutoverStarts` are the three entries with their
guards; `Plan` is `plan_rebuild` with `--limit`, `Done` `is_cutover_done`.
`Ingests`, `IngestsLess` (one of the two answers of Fyers is empty, or both:
the symbol counts as ingested all the same, which only the history field `empty`
remembers), `Readjusts`, `CutsOver` commit one symbol; `Loads` and `Stores` are
the two ends of a symbol in `run_compute`, between which another worker may
replace the candles (`Overtaken`). `IngestLosesLogin`, `RebuildLosesLogin` are
the handlers of a dead token, `RebuildEnds`, `Ends` and `ExitCode` what `main`
reports.

`Signals`. A bar is the outcome of the strategies' tests on it (trend, breakout
strength, Supertrend colour, squeeze, volume...); each strategy is the rule that
joins the tests of several bars. `Begins`, `Skips`, `Loads`, `Deletes`,
`Commits`, `RollsBack` are one symbol of `run_signals`: what is held is loaded
once before the symbols; the DELETE sees the rows committed when it is executed
(`seen`), waits for another transaction that has deleted one of them (`after`)
and passes over what that one removed, while rows inserted meanwhile stay, as
READ COMMITTED has it. `alone` and `current` are history. The matcher is
`Candidates`, `Eligible`, `Score`, `Beats`; `Outcomes` is the loop over the
candidates in each order the database may return them, a row at a time
(`After`).

`Evaluate`. The splits of a symbol are of one ratio, any in number: a quote is
the worth times `Scale(k)`, for the number k of splits folded into it, so that
share terms are such a number. `HalvingsOf(d)` are the terms of a stored bar,
`lot.halvings` those of the frozen levels. `Buys` is `_apply_buy`, on the day of
the fill or later: it folds what has taken effect and matches with a signal in
these terms, or with none. `Matches` is the endpoint, at any time and with a
signal in any terms that signals can be in (`SignalTerms`); what it freezes fits
the lot or not (`fits`, history). `held[s]` is the lot as the session of the job
or the API loaded it at the start of `evaluate_all`; `Evaluates` restates it
(`Restate`), judges it (`Inputs`, `Reasons`, `Verdict`, `Decide`), and writes
the columns it has changed with the values it computed (`Write`), with the row
of the day (`Upserts`). `Rebuilds` is the moment Fyers' split reaches the stored
history. The model keeps the rows of which the properties speak (`Judged`) and
forgets others.

`CorporateActions`. `notice[r]` is what NSE says of record `r` (nothing, words
the parser does not know, or clear) and its ex-date; `rows` is the table.
`Load` is `load_actions`: parse, deduplicate by (company, ex-date, kind) with
dividends summed, upsert. `JobLoads` is `_step_actions` with its window of a
week back and a month ahead, `ApiLoads` the endpoint with its filter of
symbols. `AdjustmentSeries` is `adjustment_series`, a walk back over the bars; `Happened` and `Stored` are the
reference it is compared with.

## 3. Runs

Every run passes.

| Run | Instance | Checks |
|---|---|---|
| `ledger_book` | 2 buys, 2 sells, 2 bonuses (3:2, 4:3) over 3 days, 1 failure or death | `LotsAreSound` (closed iff empty, never oversold, each action folded once), `UnflaggedIsExact`, `PnlMatchesRows`, `FifoOrder`, `AppliedOnce` |
| `ledger_manual` | 2 buys, 2 sells, reattribution at any time | `Conservation` |
| `sessions` | 2 sessions, 2 buys, 2 sells, 1 failure or death | `ExactWithoutOverlap`, `ClosedStaysClosed`, `EveryFillApplied` |
| `sync` | job, request and import; 2 fills and an order that is not filled, 2 placed before the first pull, the later one filled; 2 pages of 2; 2 days; 1 failure or death | `FailureShows`, `ImportIsWhole`, `PullIsComplete`, `StatusRecovers` |
| `runs` | 2 API runs and 1 of the job in two plans, 1 death, failing statements | `CountsAreTrue`, `OkMeansAll`, `EveryRunEnds` |
| `daily` | 2 ticks, 3 days of 2 slots, 1 change of settings, 1 death | `OneJobAtATime`, `JobsAreDuties`, `NothingStaysDue`, `NoDayIsSkipped` |
| `reconcile` | 4 sessions with a weekend, overlap 1 day, lookback 2 sessions, 1 ingest run of the API, 1 correction or fold of a split, 1 failure | `OnlyClosedAreChecked`, `RowDescribesBars`, `RewritesAreChecked`, `NothingStaysOwed`, `PendingResolves` |
| `ingest` | Monday to Thursday and the Monday after, splits on the Thursday and that Monday folded within a day, overlap 2, runs of job and API, 1 failure | `SeriesAreWhole`, `LosesOnlyNewer`, `Heals` |
| `evaluate` | a lot of day 2, applied then or later, splits on days 3 and 4, a demerger on day 4, matches at any time, evaluations of any day from yesterday to two days ahead | `LevelsAreTrue`, `VerdictIsTrue`, `TrailNeverFalls` |
| `feed` | 2 symbols, one listed before, 2 days, 2 of the 3 workers at once, 1 event | `EndsTell`, `LeavesCurrentIndicators`, `Resumes` |
| `signals` | 4 bars of 4 kinds, 1 revision, job and API, fills of day 3 | `LateMatchAgrees`, `NoHindsight`, `Regenerates` |
| `actions` | 2 dividends of one day, a bonus, a split over 5 days, 1 refusal, 1 move, loads of this company or of others | `NoneSlipsThrough`, `TotalsGoEx`, `ReturnsAreTotal` |

`CHECK_DEADLOCK FALSE` stands where a bounded day, slot or failure count lets
the model come to rest. Every module states a `TypeOK`; the runs do not list
them, most are proved (section 6).

### Bounds, and why they are enough

* *Fills*: two lots are the least for which FIFO has an order and a sell can
  span lots; two sells the least for which one closes what the other shares,
  and for which a row exists of another sell. The quantities are chosen so that
  one sell takes part of a lot and one spans both; applied before a late buy, a
  sell also exceeds what is there.
* *Actions of the ledger*: two bonuses that leave fractions, so that rounding
  happens twice and its errors may or may not cancel; one ex-date falls on a
  trade day.
* *Failures and deaths*: each changes nothing but the place where a run starts
  again; one is enough to lose what is not in the database, and the properties
  that depend on the number are proved for any (section 6).
* *Orders and pages*: the order filled last was placed first and is on the next
  page once a third order comes, which may be placed between two reads and then
  moves an order that has been read; a second day makes the list empty between
  two pages. Longer lists than the pages hold are beyond what holds (section 5).
* *Days and slots of the job*: three days let a job span midnight twice, and a
  trading day be followed by a holiday; two slots separate a tick before from
  one at or after the job time.
* *Sessions, ticks, workers*: every race of the code is between two of them;
  `Feed` has three kinds of worker, any two at once (`AtOnce`).
* *Sessions of the reconcile*: two lie before the first job, so that its window
  spans a weekend and reaches one session that the next job's does not; with a
  lookback of two these leave it one session later, while a failed fetch has
  made them pending. A split goes ex on either of the two days of the clock.
* *Requests and symbols of a run*: in `Runs` one symbol is processed, fails, or
  breaks the run; the counters of several are proved to be sums of such steps.
  The properties of the run speak of one row each; the guard, which is about two
  requests, is proved for any number of them (`GuardIsKept`). In `Feed` two, so
  that a worker stops between them and `--limit` leaves one.
* *Ingest*: three days are stored before; the first split falls on a weekday
  behind them, the second on a Monday, from which the overlap of two days does
  not reach back to a bar that its fold changes; each may be folded on its day or
  the next, before or after that day's run; one empty or failed answer at each
  fetch.
* *Feed*: a token dies once and the cutover can be repeated on the next day; one
  event (an empty answer, a failure, a kill, an API run) at any point.
* *Signals*: windows are scaled with the bars (`RetestWindow` 2, `SqueezeWindow`
  and `MatchWindow` 1, `MinHistory` 3, `MacdFrom` and `ConfluenceFrom` 1), so
  that a retest, a squeeze and a match can each be inside and outside of them;
  the four kinds of bar together pass and fail the tests of all six strategies.
* *Evaluate*: splits on two consecutive days, so that a lot may be restated for
  none, one or both, and a demerger with the second; three bars: a quiet one, one
  below the stop, one past both targets with a range wide enough to move the
  trail. `Behind` 1 reaches over an ex-date, `Ahead` 2 over both; `Notice` 1 lets
  an evaluation of the future miss an action that is announced later. All three
  properties are proved for any values (section 6).
* *Corporate actions*: `Lookback` and `Ahead` scaled from 7 and 30 days to 1, one
  missed load, one ex-date put off; the two dividends go ex between the bonus and
  the split, so that both share terms matter to their factor.

## 4. Fairness

* `Ledger`, `Evaluate`, `Signals`, `CorporateActions`: none, safety only.
* `ApplySessions`: `WF(Run(r))`, runs are started again and go on to their end.
  Nothing makes failures stop: those are bounded.
* `BrokerSync`: `WF` of each job starting or going on: it pulls every day.
  Requests, imports and fills at the broker are free.
* `Runs`: cron starts a job that reaps every day, the job goes on, its workers
  answer or raise, hours pass. Workers of the API may hang for ever.
* `Reconcile`: the daily job is started again and again and goes on, which cron
  does; nothing else, not even the clock or NSE, has to move.
* `DailyJob`: cron keeps starting ticks (one gets the lock again and again
  while it is free), and a tick goes on until it ends.
* `Ingest`: the clock goes on, the job starts, workers go on (every request to
  Fyers has a timeout). Whether and when Fyers folds a split is free, within
  `FoldLag` days.
* `Feed`: workers go on, and `SF` of `CutoverStarts`: an operator who follows
  the instructions of the script starts it again when he can. `Resumes` says
  what follows unless nobody logs in or the daily job is left on.

## 5. Where docs and code part

Counterexamples found with the models. Each names the property and the
instance that shows it; none is among the runs, all of which pass.

Ledger and sessions:

* Reattributing a sell away from a lot that another sell closed leaves open
  shares in a closed lot, which no sell and no evaluation ever looks at again
  (`ledger.py:251`: only a lot whose `exit_trade_id` is this sell is reopened).
  `OpenSharesAreListed` under `ManualSpec`, constants of `ledger_manual`.
* A sell applied on an ex-date is converted to the new share terms and taken
  from a lot in the old ones; the job restates only in its later evaluate step
  (`ledger.py:108`). `SellInLotTerms` under `BookSpec`, constants `Terms*` of
  `MCLedger`.
* An action stored after its ex-date lies behind `last_restated_on` and is
  never folded (`restate.py:73`). `DiscoveredIsFolded` under `LateSpec`, the
  same constants.
* A sell that two runs have loaded is charged by both; the second finds the
  first lot closed and charges the next one (`ledger.py:170`). `ChargedOnce`
  with `sessions.cfg`.
* The QTY_MISMATCH rule looks at `qty_total` only: a fraction in `qty_open`,
  rounded away after a partial sell, is not flagged.
* Three bonuses that each round can add up to a share that the rule takes for a
  whole one: 7:6, 5:4 and 6:5, folded one by one, make 10, 12, 14 of 9 shares,
  and 14 * 120 / 210 is 8, without a fraction (`UnflaggedIsExact` with these three
  actions on days 1 to 3; `evaluator.py:275`). With two it is proved.

Brokers:

* A fill that cannot be applied and comes first rolls back the rows of the
  import before it, and the import ends with an error (`brokers/service.py:303`).
  `ImportIsIsolated` with `sync.cfg`.
* An order placed while the pages are read makes the whole pull fail
  (`ReadTwice`), and only a later pull recovers it. Midnight between two pages
  ends the list early, without an error.
* An order that is filled after its page was read is missed, although a later
  page is read with an order filled after it: the pull has a gap until the next
  one of the day (`PullHasNoGap` with `FilledBefore` {}, `PageSize` 1, `MaxPages`
  3; `groww.py:155-176`). `PullIsComplete` speaks of what was filled before the
  pull began.
* A day's list of more than `_MAX_ORDER_PAGES` pages, of which orders that are
  not filled or intraday take their part, loses its oldest orders, without an
  error: `PullIsComplete` without its condition, `MaxPages` 1.
* A pull that fails reloads the account and assigns the status of the failure;
  if the row said "error" already, this is no UPDATE, and an "ok" that another
  pull commits in between stays although the failed pull ended last
  (`FailureAlwaysShows` with `sync.cfg`; `brokers/service.py:194-200`).
  `FailureShows` excludes just this.
* A job's pull that succeeds, with an account it remembers as "ok", leaves the
  failure that another pull recorded meanwhile (`StatusIsOfLastPull` with
  `sync.cfg`); `StatusRecovers` shows that a later pull clears it.
* The trades of the day are committed before the holdings are fetched: a token
  that dies in between is reported as trades that "were NOT captured", to be
  recovered by an import, which would store them under other ids
  (`daily_sync.py:239`). Rows of a CSV without a trade id double those of the
  API in the same way.
* A pull for an earlier day stores nothing of it, but a fill without a
  timestamp is filed under the day asked for (at 15:29).
* The fallback id of a fill is its place in the order's trade list; it shifts
  if that grows at the front. A quantity corrected after its application is not
  propagated. A renamed ticker creates a second symbol with the same ISIN, and
  the lookup by ISIN takes either.

Runs, scheduler, reconcile:

* Two requests handled at once both pass the 409 guard and start two runs
  (`OneActiveRun` with two `Requests`; `docs/UI_HANDOFF.md:207` says one run at a
  time). What the guard does give is `GuardHolds`: a run is started beside another
  only if that one's row was inserted after the guard had been passed.
* `run_compute` has no rollback in the `except` of one symbol: after a failed
  statement its commits raise and the row stays running although the process
  lives (`OverIsRecorded` with `runs.cfg`; proved when `DbErrors` is FALSE). A
  statement outside the loop over symbols does the same to any run. The API
  answers 409 until the reaper ends it, which `EveryRunEnds` shows it does.
* A run that ends between the reaper's select and its commit is overwritten
  with "failed"; the counters stay true.
* The advisory lock lives in one idle connection. If that is lost the job goes
  on and the next tick starts a second one (`OneJobAtATime` under `LossySpec`).
* `daily_sync` reads the clock again: a job decided on before midnight works on
  the day after. A job time behind the last tick of the day is never reached.
* One missed session is enough for ingest to write a session the reconcile does
  not look at: with sessions on each weekday, an overlap of 2 and Thursday
  missed, Friday's ingest writes from Monday on, the reconcile checks from
  Tuesday on. Monday's close stays raw under a row that says it was patched, and
  no later window reaches it. `reconcile_service.py:139-140` says such days show
  up later "for one missed day". `RewritesAreChecked` without `NoneMissed` is
  violated (Sessions -3..1, `Overlap` 2). A reconcile that raises, and a backfill
  through the API, leave the same.
* A rebuild deletes the symbol's rows of `bar_checks` and writes its whole
  history as Fyers serves it; the reconcile that follows checks the window of the
  refetched days only. Sessions before it lose their patches, have no row, and
  are never checked again, which holds nothing back
  (`ingest/service.py:205-217`, `reconcile_service.py:139-140`).
  `RewritesAreChecked` promises only that no row of before stands for them.
* One failed fetch of a bhavcopy turns rows of its day that passed to pending
  and loses their note; the symbol's signals are held until the next job
  (`reconcile_service.py:275-278`).
* A session without a row holds nothing back: after a failed reconcile, signals
  come from bars that nobody checked (`reconcile.py:144`).

Ingest, cutover, indicators:

* A split with its ex-date on a Monday: if Fyers folds it after that day's
  run, the next run's overlap of calendar days reaches back over the weekend
  only and compares Monday's own bar, which the fold does not change. All older
  bars stay in the old terms until something else rebuilds them (`[]<>InFyersTerms`
  with `ingest.cfg`, no requests, no failures). It is an ordinary case, and
  `Heals` excludes it (`OutOfSight`).
* A re-adjustment goes unnoticed, too, after a backfill of daily bars alone or
  one with an empty hourly answer, and where a stale run writes over another's
  rebuild beyond the overlap: `hidden` in `Heals`, too. A run of 1h bars alone leaves
  a gap in 4h that no incremental run fills if it is older than the overlap: the
  hourly window starts at the last 1h bar.
* A rebuild checks that answers are not empty, not that they are complete.
* An ingest run does not even check that: a symbol for which Fyers answers
  `no_data` (renamed, say) is counted as ingested, with 0 rows
  (`ingest/service.py:285-288`, `fyers_fetcher.py:146-147`), and nothing in the
  run's row tells. `EndsTell` speaks of the other symbols.
* `run_compute` upserts and deletes nothing, and a worker that had loaded the
  old candles writes rows at times the rebuilt history does not have, in spite of
  "so no row survives at a timestamp the rebuilt history no longer has"
  (`indicators/service.py:110`, `ingest/service.py:208-209`). `NoOrphans` of
  `Feed` with workers `api` and `cutover`, EndDay 1.
* Exit code 0 of the cutover is documented as "every symbol succeeded"; a symbol
  that fails in the compute steps is a warning, and the code is 0.
* The cutover reads `daily_job_enabled` once, before it starts, and runs of the
  API are not excluded at all. A rebuild deletes the bar checks, so signals
  computed next come from unverified bars.

Signals and matcher:

* The retest window is `range(i + 1, i + 10)`, nine bars; `docs/UI_HANDOFF.md:226` says
  "within 10 bars".
* Signals of a new listing appear, back to its first bars, when bar 210 closes:
  `NoHindsight` begins there.
* The table has no unique key (`models.py:213-216`): runs that overlap can leave
  a signal twice, and an older run that commits late withdraws newer signals,
  until the next run.
* What is held is loaded once before the symbols, a reconcile that ends
  meanwhile does not count.
* Ties of score and date are broken by the order of the database's answer, and
  a fill can be matched with the signal of its own day's close.

Evaluator:

`LevelsAreTrue` speaks of rows made on their day, with levels that fit
(`Judged`, `fits`); without one of its conditions it is false in the code:

* A match (`POST /positions/{id}/match`) freezes the levels of a signal as they
  stand. If run_signals has not replaced the signal since a split, or the lot has
  not been restated for one that the signal knows, they are in different terms,
  and a later restatement folds a split twice or never. (`routers/positions.py:149`
  compares nothing.) The same if an evaluation that has loaded the lot commits
  after the match: it restates the levels it knew, or none, and still moves
  `last_restated_on`. The next match is right again.
* An evaluation as of a day ahead folds an announced split before its ex-date:
  until that day the levels are in terms no bar is in (`restatedOn <= asOf`). If a
  split before that day is announced only afterwards, it lies behind
  `last_restated_on` and is never folded (`Announced`).
* While Fyers has not folded a split into older bars, the bars since the entry are
  of two kinds of shares, and the trailing stop among them is above every price of
  today: a false TRAIL_HIT, and EXIT. `VerdictIsTrue` without `uniform`.
* On the morning of an ex-date the last bar is in the old terms and the levels
  in the new; only the STALE_BAR warning tells. An evaluation of yesterday after
  today's rebuild reports a stop hit that was none.
* An evaluation as of a day before the lot was opened raises (`Raises`), is
  rolled back and reported. The session that evaluates holds the lots it loaded;
  restating one writes over a sell that another session has committed since.

Corporate actions:

* No row is ever deleted: when an ex-date is put off, the row of the old date
  stays, and a split is folded on both.
* `adjustment_series` counts announced splits that are still ahead; it is used by
  tests only. `ReturnsAreTotal` therefore speaks of tables with nothing ahead.
  A dividend of the whole price or more is left out by the code, and by the
  property.
* A symbol added after the window has passed misses its actions until someone
  posts a load. Of two structural actions of one kind on a day the first counts,
  which `ReturnsAreTotal` excludes, too (`StructureIsKnown`).

## 6. What is proved

For every value of the constants that satisfies the `ASSUME`s, of the
specifications that TLC checks:

| Theorem | Result | Argument |
|---|---|---|
| `LedgerProofs!TypeCorrect` | `TypeOK` of every ledger step, late actions and reattribution included | `TypeInv` = `TypeOK` and every row of a sell is on an existing lot |
| `LedgerProofs!BookCorrect` | `LotsAreSound` = `ClosedIffFlat`, `LotBounds`, `FactorExact` | `BookInv`: adds that what is loaded is stored and unapplied and that lots are of applied buys (`AppliedInv`), that restatement dates lie between the fill and today, and that stored quantities are positive (`InTime`). `FactorExact` is inductive because announced actions lie after today, so none appears behind a restatement |
| `LedgerProofs!OldestFirst` | `FifoOrder` | what a sell takes from a lot is what older lots left of it; `LotBounds` makes the partial sums monotone |
| `LedgerProofs!OnceOnly` | `AppliedOnce` | loaded fills are unapplied (`AppliedInv`), single session |
| `LedgerProofs!SharesConserved` | `Conservation`, if there are no corporate actions | FIFO, reversal and closing move shares between `qtyOpen` and rows; sums of shares as cardinalities |
| `LedgerProofs!PnlCorrect` | `PnlMatchesRows` | with `BookInv`: a sell takes from open lots only (`LotBounds`), so the rows of a closed lot do not change |
| `LedgerProofs!TwoRoundingsShow` | `UnflaggedIsExact`, if at most two actions have a ratio that is not 1:n and a buy is reported with one quantity | `DriftInv`: a total is exact, or off by less than half a share of the fill's terms once an action that rounds is folded, or by less than a share when no other is to come; what comes back whole within a share is the fill's quantity |
| `LedgerProofs!CombinedGrowth`, `RestateGrows`, `RestateMonotone` | ratios of splits and bonuses never shrink a holding; rounding keeps order | division and the recursive function of ratios |
| `ApplySessionsProofs!TypeCorrect` | no count below zero or above the fill, however runs overlap | `SeenLots`: what a run saw is at most the fill, on a lot that exists |
| `ApplySessionsProofs!ClosedForGood` | `ClosedStaysClosed` | every write of `status` closes |
| `ApplySessionsProofs!ExactAlone` | `ExactWithoutOverlap` | `ExactInv`: rows are of applied sells, and unless runs overlapped, what a run saw is what is there (`Alone`) |
| `BrokerSyncProofs!TypeCorrect` | `TypeOK` | adds that what is read or inserted was filled |
| `BrokerSyncProofs!ImportsWhole` | `ImportIsWhole` | `FreshInv`: pulls hold nothing uncommitted, and no two imports the same row |
| `BrokerSyncProofs!FailuresShow` | `FailureShows` | `StatusInv`: while a pull that has reloaded a failure is about to record its own, the account shows one unless another pull has overtaken it; so the commit leaves a failure whether or not it is an UPDATE |
| `BrokerSyncProofs!PullsAreComplete` | `PullIsComplete` | an order that was filled before the pull and is not read is on a page ahead: orders placed only push it further, and others that are filled do not move it; at the last page that may be read no page is ahead if the list fits |
| `RunsProofs!TypeCorrect` | `TypeOK` | `IInv`, with `JobInv`: a job that waits for a run is at a step that has one, and has reported every step before |
| `RunsProofs!CountersTrue` | `CountsAreTrue` | `Counted` relates a row to the call behind it, by what the call is doing; it speaks of one row only, so an overlap disturbs nothing |
| `RunsProofs!OkIsAll` | `OkMeansAll` | the outcome of a call that is over tells its counters (`Counted`), and the job reports that of the row it waits for |
| `RunsProofs!OverRecorded` | `OverIsRecorded`, if no statement fails in the database | `Counted` |
| `RunsProofs!GuardIsKept` | `GuardHolds`, for any number of requests at once | `GuardInv`: a row that is running and was there when a request passed the guard cannot be, since a row never starts to run again |
| `DailyJobProofs!MutualExclusion` | `OneJobAtATime` | `LockInv`: whoever is past the lock holds it |
| `DailyJobProofs!AtMostOnce` | `OncePerDay` | `CountInv`: a day is started once per death, plus one if it is at work or not after the marked day; `ReadInv`: what a tick has read of the marks is still true |
| `DailyJobProofs!JobsImplement` | `JobsAreDuties`: daily job and re-check each implement `DailyDuty` | refinement mapping: the day of the tick at work, and the marked day; each step is a duty step or a stutter (`DailyImplements`, `RecheckImplements`) |
| `ReconcileProofs!ClosedChecked` | `OnlyClosedAreChecked` | `ClosedInv`: the day and all that is left to do are closed; a closed session stays closed (`ClosedGrows`) |
| `ReconcileProofs!RowsTell` | `RowDescribesBars` | `SeenInv`: what was read differs from what is stored only where another ingest wrote |
| `ReconcileProofs!RewritesChecked` | `RewritesAreChecked` | `RewriteInv`: what was written and not read since is still to do, pending, or without a row after a rebuild (`RebuiltInv`); `WindowCovers` compares the windows: the last stored session is not before the one that precedes the day |
| `ReconcileProofs!ChangesReachSignals` | `NothingStaysOwed` | `OwedInv`: what is owed is in `changed`; the row that was read is the one that is written unless a rebuild has deleted it (`PrevInv`) |
| `SignalsProofs!NothingInHindsight` | `NoHindsight` | one lemma for each strategy: the signals at a bar depend on that bar and earlier ones; together (`FoundLooksBack`) the signals up to a bar are those of the bars up to it |
| `SignalsProofs!RunsRegenerate` | `Regenerates` | `RunInv`: while a run is alone the others are idle, while it is current what it found is what the bars give, and if it is alone at its commit it has seen all rows of its strategies |
| `SignalsProofs!LateMatchesAgree` | `LateMatchAgrees` | `MatchInv`: the match remembered is among the best of the signals in reach of the fill, and stays among them as bars close (`FoundLooksBack`); what `score_candidates` leads to in any order of the rows are the best (`OutcomesAreBest`, by induction on the rows) |
| `CorporateActionsProofs!NothingSlips` | `NoneSlipsThrough` | `KeysInv`: a record that can be read has a row, or waits: every load of the job since it could be read has failed, so that there have been as many refusals in a row as days (`Waits`), and these are bounded |
| `CorporateActionsProofs!DividendsAddUp` | `TotalsGoEx` | `SumsInv`: the amount of a row is the sum of some records of its key, all others of which wait |
| `CorporateActionsProofs!TotalReturns` | `ReturnsAreTotal` | `TableInv`: no two rows have one key, and amounts are numbers (`AmountOfIs`); the rest is algebra, below |
| `RunsProofs!IngestTypesHold`, `IngestTypeCorrect` | `IngestTypeOK` | adds that bars are of trading days that have come, and that a rebuild holds all days before its own, or nothing (`RebuildsKnow`) |
| `RunsProofs!RebuildsLoseNothing` | `LosesOnlyNewer` | `RebuildsKnow`: a rebuild stores again what it deletes, up to its day; every other write adds |
| `RunsProofs!SeriesStayWhole` | `SeriesAreWhole`, if `Overlap` is 1 at least and requests ask for both intraday timeframes or neither | `WholeInv`: the series have no gap (`Full`), the 4h bars are those of the 1h ones (`KeepsUp`), and the days missing before an answer that a run holds are stored, and too old for a rebuild under way to lose them (`Sound`, `Follows`) |
| `CorporateActionsProofs!EndsAreTrue` | `EndsTell` | `Tells`: the candles of what a worker of all symbols has behind it, by its step, its result so far and the symbols with an empty answer; whatever others do, candles of Fyers remain so |
| `CorporateActionsProofs!LoneRunsRefresh` | `LeavesCurrentIndicators` | `LoneInv`: while a worker is alone the others are idle, and the indicators behind it are of the candles unless its result tells (`Leaves`) |
| `DailyJobProofs!LevelsStayTrue`, `VerdictsAreTrue`, `TrailsNeverFall` | `LevelsAreTrue`, `VerdictIsTrue`, `TrailNeverFalls`, for any number of splits, days ahead or behind, and matches at any time | `EvaluateInv`, below |

`DailyJobProofs` is about `Spec`, in which the lock is only released by its
tick or its tick's death. `ReconcileProofs` needs nothing of the calendar but
that sessions are integers, and also proves its `TypeOK`.

`SeriesStayWhole` holds with the code's overlap of two days, and does not with
none: TLC finds a gap (Trading {1..6}, `Overlap` 0). A request for 1h bars alone
leaves 4h bars behind (section 5), hence the second hypothesis.

`EvaluateInv` says that stored bars have no gap (`EvaluateTypes`); that frozen
levels which fit, of the lot and of the lot as a session holds it, are in the
terms of `last_restated_on` (`Restates`); that if the levels of the lot fit, a
session that holds the lot holds them, or holds it unmatched as it is
(`HeldInv`); and what the rows say (`RowsInv`). Hence the restated lot is in the terms of the bar
it is judged by (`NewRow`), and bars that are stored later take nothing back
(`RowKept`). A maximum over bars is one of them (`PeakIs`), so the trail of the
quotes is that of the worths, times the scale of the quotes (`ChandelierIs`),
whatever `Scale` is, as long as it is positive. There is no hypothesis on the
constants; section 5 tells what is false without the conditions in the
properties.

`TotalReturns` compares two products. A product over a finite set does not
depend on the order in which the fold takes its elements (`MultipliesAnyLast`),
splits over a union (`OverUnion`), and is the same under other names
(`OverRenamed`); this is induction over subsets, by the library's well-founded
order of finite sets. Hence the structural rows of a table multiply to what has
happened (`StructureIs`), what has happened from one day to a later one is a
product over the days between (`HappenedIs`), and splits after a dividend cancel
in its effect (`SplitsCancel`, `TakenRemains`). The recursive walk over the bars
is the function that gives each bar the product of what goes ex after it
(`WalkIs`, downwards from the last bar).

## 7. Only model-checked

* Liveness (`EveryFillApplied`, `StatusRecovers`, `EveryRunEnds`,
  `NothingStaysDue`, `NoDayIsSkipped`, `PendingResolves`, `Heals`, `Resumes`):
  fairness and ENABLED are outside the prover.
* `UnflaggedIsExact` with a buy whose quantity is corrected after its
  application is false, and with three actions that round, too (section 5).

## 8. Not modelled

* Data: prices and realized P&L in rupees in the ledger; float noise in share
  factors; the tolerances of the reconcile's rules; the formulas of
  `indicators/core.py`, which are real-number recurrences over whole histories
  (a bar's tests are given in `Signals`, not computed); stop and target levels
  of a signal at its birth.
* Text: parsing of CSV files, NSE subjects and Fyers answers; notes, messages
  and logs.
* Fills of unmapped symbols, symbol mapping and holdings rows of a sync; several
  fills of one order; duplicate ids within one file; a deactivated account,
  which `/sync` still pulls; two accounts at once (nothing in the ledger relates
  them); symbols that are added or dropped between reconciles.
* Warnings of the evaluator by broker quantity, volume divergence and holding
  period. In `Evaluate` the actions of a symbol are of one ratio that leaves
  shares whole; other ratios, and QTY_MISMATCH, are in `Ledger`.
* In `Feed`: the attempts within a call, the pace of requests (the limiter is
  per process, and a delay after its sleep can bring two calls closer than it
  wants), a dry run, the signals step after the indicators.
* Assumptions of `Ingest`: what a run writes to a symbol is one transaction, a
  run is at a symbol over at most one midnight, and the windows of a backfill
  cover all history. Of `BrokerSync`: the list is newest first, one fill an
  order.
* The calendar is a library (trading days are counted).
* Users, keys, encryption, migrations, the read API, operators' scripts, the UI
  and deployment keep no state over steps that another part relies on.
  Notebooks and the scripts that probe or validate data sources are reports.

## 9. Plan

| Order | Modules | What | Status |
|---|---|---|---|
| 1 | `ShareCounts`, `ShareTerms`, `Ledger` and `LedgerProofs` | fills, lots, sells, restatement | done |
| 2 | `Runs` and proofs | guard, worker, reaper | done |
| 3 | `DailyDuty`, `DailyJob` and proofs | ticks, lock, bookkeeping; refinement | done |
| 4 | `ApplySessions` and proofs | overlapping apply runs | done |
| 5 | `BrokerSync` and proofs | pulls with their pages, imports, account status | done |
| 6 | `Reconcile` and proofs | windows, rows by day, missing bhavcopy, patches, symbols held back | done |
| 7 | `Ingest`, `Feed` and proofs | windows, price basis, rebuild, cutover, token expiry, indicators | done |
| 8 | `Evaluate` and proofs | rules against what an operator would decide | done |
| 9 | `Signals` and proofs | strategies, regeneration, matcher | done |
| 10 | `CorporateActions` and proofs | announcements, loader, factors | done |
