# A verification of LMIO's operational core

LMIO (Leon Market Intelligence OS) is a Python service that screens the market each day, ranks a
Top 10, follows SEC filings and options flow, and sends what it finds to a private Telegram chat.
It runs as HTTP and cron invocations of one serverless application (and as a CLI) over an
append-only store: SQLite, or Supabase through PostgREST. This directory holds TLA+ modules that
model its operational core and the services around it, the configurations with which TLC checks
small instances of them, and proofs, checked by TLAPS, of their main properties for every value of
the constants.

Paths below are relative to the repository. `PROJECT.json` maps each definition to the lines it
models, lists the runs, the hazards of the code and the theorems.

## 1. What kind of system it is

Three facts about the deployment decide how every module is written.

- **Nothing is shared but the store.** An invocation keeps its state in local variables. There is
  no lock, thread pool or queue in the process. What runs concurrently are invocations (a cron
  request that is delivered twice, a manual endpoint beside a job, a CLI process), and they
  interleave between store operations. So *one step of a module is one store operation or one
  network request*, and what a program reads it may use many steps later.
- **A store operation is atomic, a sequence of them is not.** SQLite commits each operation of
  `store.py`; a PostgREST request of `supabase_store.py` is one statement, and the claim of the
  outbox one SQL function (`FOR UPDATE SKIP LOCKED`). Nothing spans two of them.
- **Failure is the end of an invocation.** A process may die or run out of its time between any
  two operations. A PostgREST request is never retried by the client and may be applied although
  its answer is lost: that is the step followed by the death, or by the exception that the caller
  handles. Rows stay; memory does not.

## 2. Inventory

| Component | Source | State it keeps | Operations | Hard behaviour | What makes it correct |
|---|---|---|---|---|---|
| Telegram outbox | `src/lmio/telegram.py`, claim in `store.py`, `migrations/010` | `telegram_deliveries`: status, attempt_count, created_at per dedupe key | `queue_or_send`, `drain_outbox`, claim, upsert | a budget and an hourly limit read before the request they guard; overlapping drains; death between request and record | exclusive claims, tries bounded and counted, sent only if accepted, every retryable message settled |
| Scheduler | `src/lmio/scheduler.py`, `config/scheduler_manifest.json` | `ingestion_dedup` locks, `system_events` | window, next slot, lock, execute, record | duplicated or late cron calls; a lock that is never released; death while holding it | a window runs once, its evidence is true, no slot is skipped |
| SEC ingestion | `src/lmio/sec_monitor.py`, `sec_ownership.py` | `news_events`, `ownership_events`, fingerprints, failure events | list, news event, fetch, store records, mark | two calls over one filing; share classes of one company; answers lost in the middle of a filing | marked only when whole, every record once, nothing silently left out |
| Operational pipeline | `src/lmio/pipeline.py`, `service.py` (`run_operational_pipeline`) | a context in memory; about fifteen kinds of evidence rows; `pipeline_runs`, `pipeline_stages` | 21 stages, blocking, lineage, persist | a handler that raises between two of its writes; death anywhere; stages that depend on earlier ones | a brief rests on stored evidence, lineage is faithful, an ended run is recorded whole |
| Official news refresh | `service.py` (`refresh_official_news`), `news.py` | `news_events`, macro feeds | resolve watch list, SEC, feeds | the newest report is of another job's type | the symbols of the latest Top 10 are watched |
| Options flow | `main.py` (`_record_options_batch`), `options.py` | `options_flow`, fingerprints, `provider_health` | two-scan confirmation, dedup, alert | two batches at once; a fingerprint written before its row | an alert needs two scans, no event is lost or doubled |
| Plans and signals | `plans.py`, `main.py`, `service.py` | `conditional_plans`, `trade_plan_transitions`, `signals` | create, transition, signal | operators who move one row to two states; a transition without its row; an old row that still says approved | every row has its transition, a signal was approved by the one who asks |
| Outcomes and performance | `outcomes.py`, `service.py` | `signal_outcomes`, `strategy_performance` | due horizons, append, aggregate | three callers at once; windows of the newest 200 rows; a repeated signal | a completed horizon is final, a sample is a signal |
| AI budget | `service.py` (`summarise_latest_news`, `analyse_options_screenshot`) | `ai_usage` of a month, summaries in `news_events` | read, reserve, ask, charge, store | the cap is read before the spend; requests that are charged and give no answer | by how much the cap is exceeded, who pays twice |
| Watchlists | `main.py` | `watchlists`, `watchlist_members` | create, change a member | the version counted from the rows read | versions grow |
| Operator's refresh | `main.py` (`operator_full_refresh`), `service.py` | `provider_health`, one system event | six components, each with its sources | one component of several fails, inside or outside its result | recorded as succeeded only if it did |
| Selection | `universe.py`, `screens.py`, `ranking.py`, `valuation.py`, `research.py`, `top3.py`, `reports.py` | none (pure) | screen, rank, value, research, judge | ties, duplicates, missing fields; three judgements in two orders | the Top 10 is canonical, the judgements agree |
| Daily run | `service.py` (`run_daily`, `research_latest`), `candidates.py` | about eight kinds of rows | append them one by one, packages for the newest screen | a stop between any two rows; a newer run or a pipeline beside, whose screen row names no universe | a report rests on whole evidence, a package on a stored screen row and snapshot |
| Copies of the store | `store.py`, `supabase_store.py` | files | copy (SQLite), export (Supabase) | writes while a copy is made, a death in the middle; an export whose requests are refused | a reported copy misses nothing older and has no half of a write |
| IBKR bridge | `scripts/ibkr_bridge.py`, `main.py`, `health_console.py` | a probe shared by two threads, `provider_health` | connect, collect, post, show | late ticks, two clocks, a heartbeat older than its post, a card made of few rows | ready means lately up, a quote is of its contract |
| Store | `store.py`, `supabase_store.py` | every table | upserts, claims, dedup, newest rows | two implementations of one interface | atomic operations as the callers assume |
| Providers | `providers/*.py` | none | request, parse, three tries | HTTP 429 | – |
| News and price | `news_price.py` | none (pure) | confirm an event by two prices | boundaries | decision table |
| HTTP API | `main.py`, `security.py`, `roles.py` | none | authorise, call a component | – | – |
| Replay, demo, audit | `replay.py`, `demo.py`, `audit.py` | none | – | – | – |
| Dashboard | `apps/dashboard` | none | read | – | – |

How they interact: the scheduler calls the pipeline, the SEC ingestion, the news refresh, the
drain of the outbox and the outcomes; the pipeline reads what SEC ingestion stored and hands its
brief to `queue_or_send`; the after-close job and the options flow hand messages to it too;
pipeline and after-close job append to the same `reports` table, whose newest row the news refresh
reads. Manual endpoints and CLI commands call the same operations without the scheduler's lock. The
operator's refresh calls the Finviz, Cboe and news refreshes, the outcomes and the performance one
after the other; all of them, and the bridge, write the `provider_health` of which the cards are
made.

The hazards of this code, line by line, and the properties that watch them, are in `PROJECT.json`
under `hazards`. One that no property covers has a note that says why.

## 3. The modules

| Module | Role |
|---|---|
| `DeliveryLedger` | abstract: what the outbox promises about one message |
| `TelegramOutbox` | the outbox, its properties, and its refinement of the ledger |
| `TelegramOutboxMC` | instances for TLC |
| `TelegramOutboxProofs` | proofs |
| `ScheduleSlots` | pure: last due window and next slot of a schedule |
| `Scheduler` | lock, execution and evidence of a scheduled call |
| `SchedulerMC`, `SchedulerProofs` | instance, proofs |
| `SecIngestion` | `monitor_sec` |
| `SecIngestionMC`, `SecIngestionProofs` | instances, proofs |
| `Pipeline` | the 21 stages, their evidence, and the reports table |
| `PipelineProofs` | proofs (its configurations need no instance module) |
| `OptionsFlow` | `_record_options_batch` and the other writer of its table |
| `OptionsFlowMC`, `OptionsFlowProofs` | instance, proofs |
| `TradePlans` | plans, their transitions, and the signals made of them |
| `TradePlansMC`, `TradePlansProofs` | instances, proofs |
| `Ordering` | pure: a finite set in an order, as `sorted` puts it |
| `Outcomes` | `process_due_outcomes` and `aggregate_strategy_performance` |
| `AiBudget` | the month's allowance of summaries and screenshots |
| `Watchlists` | watchlists and members, versioned by counting |
| `OperatorRefresh` | `operator_full_refresh` and what it calls |
| `Selection` | from snapshots to verdicts: universe, screens, ranking, valuation inputs, Top 3, report |
| `DailyRun` | `run_daily` row by row, the rows of the pipeline beside it, and `research_latest` |
| `Backup` | copy and export of the store while it is written |
| `IbkrBridge` | the bridge's two threads, its heartbeat, and the provider cards |
| `ResearchService` | the eight of these together |
| `ResearchServiceMC` | instance |
| `EvidenceProofs` | proofs about copies, watchlists, outcomes, daily runs, selection, and the types of all parts |
| `ProviderProofs` | proofs about the bridge's card and quotes, the refresh's event, and the AI budget |

In these modules a definition named `Faulty...` is a plausible mistake in the definition that
follows it (a dropped guard, an off-by-one, a swapped order). No specification uses one. Replaced
for the right one, TLC finds the property it is listed with violated: this is how we know that the
property says something of the code.

### TelegramOutbox

A worker is a sequence of invocations: a *caller* runs `queue_or_send` for one key, a *drainer*
`drain_outbox`. `stage[w]` is the next store operation or request of worker `w`:

- `Submit`: a direct call begins. `Claim` (`Drain`): one batch of the oldest retryable rows
  becomes `claimed` (the SQL function, or SQLite's immediate transaction).
- `Lookup`: reads the row, i.e. whether it is sent and its `attempt_count`, and validates message
  and credentials. What it reads is *used after the request*; nothing holds the row meanwhile.
- `Decide`: counts the messages of the last hour and refuses, or goes on.
- `Transmit`: the one request. Telegram may accept and the answer be lost.
- `Record`: `upsert_telegram_delivery`, which overwrites whatever status is there and adds to
  whatever count is there.
- `Crash`: the death of a worker at any point, or a store operation that raises.
- `Configure`: the operator changes the deployment's credentials; `HourPasses`.

The table is `status`, `attempts`, `created`, `inserted`; the network `tries`, `delivered`
(history: no code reads them). A row's `created_at` is its rank of insertion and the last hour a
rank above `horizon`: the code only ever compares.

Messages are divided by one fact of the code: whether a second direct call may submit the same
dedupe key (`Resubmitted`; a webhook delivered twice, an options alert of two batches). A claim
excludes other drains, but it does not exclude a direct call, so the strong properties hold for
`Unshared` messages and the weaker, quantified ones (`TriesBoundedByWorkers`, `HourlyLimitHolds`)
for all.

### ScheduleSlots and Scheduler

Days are integers with day 0 a Monday, times of day are ordered integers. `ScheduleSlots`
translates `_latest_window` and `_next_run`, the searches over the last and the next eight days.
`Scheduler` then models one call per element of `Calls`: `Start` computes the window from the time
it reads, `Acquire` is the insert of the window's fingerprint, or the finding that it is there,
`Skip` records the duplicate, `Execute` runs the job (how it ends is any of the four outcomes the
code distinguishes), `Record` appends the event. `Die` ends a call anywhere. `Tick` lets time pass
between and during calls. The lock is never released, in the code as in the model.

### SecIngestion

A worker goes through its symbols and their recent filings. `List` asks the SEC for a symbol's
filings (a failure is recorded and the symbol left), `PutNews` inserts the news event, keyed by
its fingerprint; for an ownership form `Check` reads the mark, `Fetch` requests and parses the
document, `StoreRecord` stores one record and its fingerprint in one transaction, `Mark` marks the
filing, and `Report` records a failure after the last of three tries. A fault at any operation is
a try that fails, whether or not the operation was applied; `Die` ends the call. The filing's
document is abstracted to the number of records in it, or to one that never parses.

### Pipeline

`Data` says which stage puts which value into the context, `Evidence` which stage appends which
kind of rows, and `Indexed(n)` which values stage `n` indexes without asking (`ctx["..."]` rather
than `ctx.get`). A run at stage `n` may `Put`, `Append` and `Note` (add the ids of the rows to the
lineage) in the order of the handler, `Complete` with a status the handler can return, `Raise`
between any two steps, or be blocked by an earlier critical stage. After the last, `PersistRun` and
`PersistStage` record it; `Die` ends it anywhere. The reports table is its newest row, which the
after-close job also writes and the news refresh reads.

### OptionsFlow

A worker is one post of the bridge or one import at a time; any batch may be posted any number of
times. `Receive` refuses a batch of another time, classifies its observations (`Candidates`) and
reads the history, *once*: `read[w]` is the length of the table at that moment, so `History(w)`
never shows what concurrent requests append later. Then, for one observation after the other,
`Mark` sets the fingerprint or passes over one that has it, `Persist` appends the row and says
whether an earlier scan of the contract, two to thirty minutes before, confirms it, and `Alert`
hands the alert to the outbox. `Report` counts what was stored in `provider_health`. The
fingerprint comes before the row, so `Die` between the two loses the observation: a later post
takes it for a duplicate. `Screenshot` appends a row of another kind, which takes a place in the
history. `alerts` and `reported` count calls and are read by nobody. The order in which a request
deals with the observations of its batch is left open.

### TradePlans

Rows of `conditional_plans` are never changed; moving a plan on appends another row. What the rows
of one plan share is their symbol and `run_id`, their *lineage*, and any row among the newest may
be moved on at any time, by several requests at once. So a plan is a tree of rows, and
`transitions[e].of` and `plans[i].event` (history: the code keeps neither) are its edges.
`CreateTradePlan` and `AnalyseNewsEvent` append a draft. `BeginTransition` reads a row and checks
the table of transitions, `AppendEvent` appends the transition, `AppendVersion` the row. A signal is
asked of a row (`BeginSignal`: it must say `plan_ready` or `monitoring`), the approval is looked for
by symbol, run and actor (`CheckApproval`), the ranking, the Top 3 and the market's rows are read
(`CheckMarket`), and `AppendSignal` appends it. `Die` ends a request between any two.

### Outcomes

`phase[c]` is the next store operation of call `c`: it reads the newest signals (`BeginCall`), the
newest outcomes (`ReadOutcomes`; `known[c]` is the length of the table at that moment, so that
`LatestStatus` never sees what others append later), the newest snapshots (`ReadSnapshots`, which
settles what is appended), and appends one row after the other (`AppendOutcome`). `CreateSignal` may
append a second row of one signal_id; a call that reads both deals with each by the statuses it has
read, and not by what it has appended itself (`service.py:1049-1078`). Time is an hour of New York
from a Monday at 0:00, so `Due` is the code's arithmetic of weekdays and closes. `Evaluation`
decides the status as `evaluate_timed_horizon` does; a price is positive or not. `Aggregate` counts
the completed rows among the newest. A row keeps, as history, how many outcomes its call had seen
(`seen`) and which row of signals it is of (`row`), and `writers` the number of the call. By these
the properties name the two ways in which a horizon can be counted twice: `Overlaps`, *another* call
had read before the row was there, and `Repeats`, *one* call dealt with two rows of the signal.

### AiBudget

`task[a]` is the next step of request `a`, `used[a]` what it takes the month to have cost: read
once, then only added to. A summary is asked (`Answered`, `Unanswered`: charged perhaps, and on no
account), charged to `ai_usage` (`Charge`), stored (`StoreSummary`); a screenshot is reserved
before it is sent. `charged`, `paid` and the counts of failures and deaths are history.

### Watchlists

`Read` takes the length of a table, `CreateWatchlist` and `ChangeMember` append a row whose version
is one more than the rows of that name (or list and symbol) among the newest of what was read.

### OperatorRefresh

`step` is the source or write the call is at, `nested` the statuses in the result of the component
so far, `written` the rows it has left in `provider_health`, `raised` the components that raised.
`Mark` makes one status of a result; `RecordRefresh` the event of all. What the call never sees are
the rows: the property is that its event agrees with them all the same.

### Selection

Pure functions over a run's candidates in five stages. `Universe` keeps the newest admitted
snapshot of a symbol, `RunCoreScreens` matches the eleven strategies (`Requires` has the code's
thresholds as facts of a snapshot) and orders (all sorting is `InOrder` of `Ordering`, which the
proofs can speak of), `RankTop10` penalises, deduplicates and cuts, `Valuable` is whether the five
cases of a valuation are solvable, `EvaluateTop3` gives the verdicts. What a snapshot scores, and
which thresholds it passes, is data. `Research` gives the stored verdicts and the report's own,
which are made of another order of the same candidates.

### DailyRun

`running[r]` is the kind of row run `r` appends next. Snapshots, transitions and evaluations are
appended one by one, `Following` is the order of the kinds; `Stop` ends a run between any two rows.
A snapshot is an observation of a symbol, stored once: another of the symbol is another row.

The table `screen_runs` has a second writer. The pipeline stores the snapshots it was given
(`PutPipelineSnapshot`) and then appends a screen row that names no universe row, before any
transition (`AppendPipelineScreen`; `service.py:268-278`). `ReadScreen` and `AppendPack` are
`research_latest`, which takes the newest row of screen_runs whoever appended it (`newestScreen`), and
whether that run goes on to a report or not. So `ReportBacked` says of a package: it is of a candidate
of a stored screen row, and a snapshot of it is stored; if a daily run appended the row, all that comes
before the row is there too; if a pipeline did, nothing more need be.

### Backup

The store is four tables; a write is one transaction over those it touches. SQLite is copied in three
steps between which the store is written: the destination is refused or made (`BeginCopy`), the pages
are copied under one lock (`CopyRows`), the copy is opened and checked (`VerifyCopy`), and only then is
it reported. `AbandonCopy` is a death or a failed check anywhere.

Supabase is asked for seven tables, one request each, in the order of `created_at` (`TableOrder`,
`supabase_store.py:175-190`). The first, `lmio_schema_versions`, and `lmio_symbols` have no such column
(`Timestamped`; `migrations/006:4-7` and `40-45`), so `ExportRaises` at the first request is all that
becomes of an export. What the later requests would return (one page of
the server, whose length may be limited) never matters, and `restore_rehearsal`, which begins with the
manifest that is never written, is not modelled.

### IbkrBridge

The main thread's `bridge` goes through the watchlist: `NextSymbol` asks for a quote under a new
number, `TakeStock` and `TakeOption` take what `Tick`, the reader thread, has stored under it by
then; ticks may come after. `NextOption` asks for the next contract unless the symbol has as many as
are wanted (`Full`), which is counted over all that was collected, so that a symbol named twice on the
command line shares one limit. The heartbeat is made in `Connect`, before all of that, and posted
after (`PostHeartbeat`, refused outside of a window of the service's clock). `skew` is by how much the
laptop's clock is ahead. `CardState` is the card made of the newest rows of `provider_health`, which
`OtherRow` fills too.

### ResearchService

These eight parts share no *variable*. In the code they do share tables: snapshots are stored by
the daily run and the pipeline and read by outcomes, `screen_runs` is written by both, `provider_health`
by nearly everything, news events by the ingestion. There the module of the reader has an action for
the other writers, which may write whatever they may, at any time: `StoreSnapshot` in the outcomes,
`PutPipelineSnapshot` and `AppendPipelineScreen` in the daily run, `OtherRow` in the bridge; the events
to be summarised are a constant of the budget. `serving` says which part a behaviour is of; the others
keep their initial state. This is one specification, `Spec`, of which the theorems of
`EvidenceProofs` and `ProviderProofs` speak, and one run that checks the properties of all parts at
the cost of the sum, not the product, of their states. Interactions are checked only as far as those
actions carry them.

## 4. The runs

Each takes less than four minutes on two workers.

| Run | Instance | Result |
|---|---|---|
| `outbox_unshared` | three messages of one call each (one invalid), a caller, two drains, MaxAttempts 2, one death, credentials none/invalid/valid in any order | exclusive claims, sent only if accepted, refinement of `DeliveryLedger`, and `QueueSettles` under fairness hold |
| `outbox_shared` | a message any number of calls submit beside two of one call each | the hourly limit is overrun by fewer messages than there are workers, tries by fewer than workers and deaths, and one death strands one batch at most |
| `outbox_credentials` | a message queued without credentials, drained while they are malformed | **violated**: it never becomes eligible |
| `scheduler` | three calls of a daily and a weekly job on a Friday and a Saturday | a window runs once, events are true, a taken window is accounted for, calls end |
| `sec_ingestion` | two workers, two symbols sharing a Form 4 of two records, an unreadable document, an 8-K, three faults | marks and counters are right, no listed filing is silently left out; readable filings are ingested in the end |
| `sec_sameday` | one symbol, two filings of one form on a day | **violated**: the second has no news event |
| `pipeline` | one run, two setbacks, a death, the other users of the reports table | brief, inputs, lineage and recording are right; a run ends or dies |
| `pipeline_watch` | a run, the after-close job, a refresh | **violated**: the refresh watches no Top 10 |
| `options_flow` | three scans of two contracts at exactly two and thirty minutes, posted any number of times by two requests; a screenshot's row; a history of two rows; one death | an alert rests on two stored scans, nothing is stored, counted or alerted of twice, a death loses one observation at most, what is marked is finished |
| `trade_plans` | a plan that two operators move on three times by two requests, a signal, an expiry, a death | every row has its own transition, one stray transition per death, a signal rests on a confirmation and an approval by the one who asks |
| `plans_current` | one plan, no deaths | **violated**: a signal of an approved row that was invalidated |
| `service` | each part of `ResearchService` on an instance of its own, see below | a completed horizon is final and a sample is one signal, but for overlapping calls, a call that deals with two rows of a signal, and rows that fell out of the window; the AI spend exceeds the cap by the number of requests at a time at most, and an event is paid for once by each; versions grow; a refresh recorded as succeeded was; the Top 10 does not depend on the order of candidates, and the report's verdicts are the stored ones; a report rests on whole evidence, and a package on a stored screen row with what its writer stores before it; a reported copy is consistent; a card that says ready is recent, and a quote is of its contract |

### Bounds, and why they are enough

- *Workers*. Interference in the outbox and the SEC ingestion is between pairs of invocations
  (one reads, the other writes, the first acts); two drains and a caller, or two monitors, have
  every pair. The proofs remove the bound for the safety properties.
- *MaxCrashes, MaxFaults, MaxSetbacks*. The first death leaves a row or a filing half done, and
  later invocations meet it; three faults can use up all tries of one filing in one call, or strike
  two calls. `MaxCrashes` and the like appear only as bounds in guards; the theorems hold for all
  their values.
- *MaxAttempts* 2 rather than 3 in `outbox_unshared`: one try that fails and a last one are the two
  cases the code distinguishes.
- *BatchSize, limits of one an hour*: with three messages the limit binds and a batch is a proper
  subset of the queue.
- *Two days, two times a day* in `scheduler`: Friday to Saturday crosses from the last weekday of
  the one job to the only day of the other, and the times are before and at the slot. For every
  schedule and every time the slot arithmetic is proved (`WindowAndNextAreNeighbours`).
- *One run* in `pipeline`: a run's rows carry its own run_id and no handler reads another run's;
  runs meet only in the reports table, which the after-close job also writes in this instance. The
  theorems quantify over any set of runs.
- `outbox_shared` allows one try per message: the question is by how many it is exceeded.
- *HistoryLimit* 2 in `options_flow`: four rows can be stored, so what confirms an observation can
  fall out of the history. In `trade_plans` it is 3, of four rows and three transitions. The code
  reads 200; the theorems hold for every limit.
- *MaxDrafts* 1, *MaxTransitions* 3 in `trade_plans`: two transitions approve a draft, and the third
  races one of them from the same row, moves the approved row on, or is stray. `MaxSignals` 1:
  signals are never read by the modelled code.
- `service`. *Outcomes*: two overlapping calls and a third one, the horizon `close`, a clock that
  shows the hour before the close of a Friday and the close; two rows, of one signal or of two;
  windows of two signals, so that a call reads both rows of one, of one snapshot, and of two outcomes,
  which that table outgrows. The theorems hold for every window. *AI
  budget*: two requests, two events, a cap of 3 with summaries of 1 or 2, one screenshot, a charged
  request without an answer, a death, a new month. *Watchlists*: two requests, two names, five
  requests answered, a window of two rows. *Refresh*: one, with a death and two macro feeds. *Selection*:
  up to three of five snapshots, among which are two equal scores of one symbol, a newer one that is
  excluded, an old one of a higher score, one of replayed provenance; a Top 10 of two, a Top 3 of one.
  *Daily run*: two runs of two symbols and a pipeline beside them, two snapshots of one of the symbols,
  a call of `research_latest`, one stop, limits of one. *Copies*: one destination, a filing
  with one event, a snapshot, a news event, either backend. *Bridge*: a symbol that is
  named twice, one strike, two contracts wanted, so that the second turn of the symbol finds the limit
  reached; a clock that is right, ahead by one minute (as much as is accepted at once) or by two;
  minutes 0 and 4 against a staleness of three and a window of two; two rows of health, which both make
  the cards.

Deadlock is not checked: an instance ends when its calls are made and its messages settled, which
is what the real system does between two cron calls.

### Fairness

Only what the deployment guarantees is assumed: an invocation that runs and does not die takes its
next step (weak fairness of `Work`), the outbox is drained and filings are looked at again and
again (jobs `telegram-outbox-drain`, `sec-refresh`, `official-news-refresh` of
`config/scheduler_manifest.json`: weak fairness of `Drain` and of the start of a call), and hours
pass. In `OptionsFlow` only a request that has begun is fair; nothing makes a batch come, or come
again. `TradePlans` states no liveness and assumes no fairness: nothing in the code must ever move
a plan on. Nor does `ResearchService`: its calls are made by hand or by jobs that were dealt with
in `Scheduler`, and what is asked of it is safety. No fairness makes a request succeed, a direct
call come, an operator act, or anybody die. That requests may fail for ever is why `QueueSettles`
counts a message out of attempts as settled; why `FilingIngested` can say *ingested* is that
faults are bounded in a behaviour, i.e. the SEC and the store work eventually.

## 5. What is proved

`tlapm` proves each theorem below for every value of the constants that the modules' assumptions
(`SetsAssumption`, `FiniteAssumption`, `LimitsAssumption`, `JobsAssumption`, `FilingsAssumption`,
`RunsAssumption`, `ObservationsAssumption`, `PlansAssumption`, `BoundsAssumption`, and of the
parts of `ResearchService` `OutcomesAssumption`, `BudgetAssumption`, `WatchlistsAssumption`,
`RefreshAssumption`, `SelectionAssumption`, `DailyRunAssumption`, `BackupAssumption`,
`BridgeAssumption`, `WatchedAssumption`) admit; they only say that constants have their kinds,
that sets that are counted (workers, keys, requests, symbols) are finite, and that the "no such"
values are none of the others. `FiniteAssumption` also says that something drains the outbox, as
the scheduler's manifest does; `BudgetAssumption` also says that a summary costs at most what is
reserved for it, which the code makes so by limiting the tokens of an answer. TLC evaluates them
in every run. Some theorems (`TriesAreBounded`, `AttemptsAreAccurate`, `SlotsAreNeighbours`,
`RecordsAreStoredOnce`, the `TypeCorrect`s) state properties that are proved and in the list of no
run.

**Outbox** (`TelegramOutboxProofs`): `TypeCorrect`, `ClaimsAreExclusive`, `TriesAreBounded`,
`AttemptsAreAccurate`, `SentIsTrue`, and `OutboxImplementsLedger`: for any number of callers, drains
and deaths the outbox implements `DeliveryLedger` for the messages that one call submits. The
properties are not inductive: that two workers do not hold one message is only kept because a
worker that holds it is the reason that its row is not claimable. The invariant `Inv` adds
`WorkerOK` (what each stage implies about the worker's own variables), `UnsubmittedUntouched` (a
message that was not submitted has no row and no tries) and `HeldRows` (the row of a message in a
worker's hands is `claimed` or absent, and its tries are its attempts plus those the worker has
made and not yet recorded).

Three bounds count over sets of workers, each with an invariant of its own beside `Inv`.
`DeathsStrandBatches` rests on `HandsOK`: a worker has one batch in hand at most and an idle one
none, so that orphans arise only from a death. `LimitIsOverrunByWorkers` counts the messages created
and sent within the hour (not a backlog of earlier hours, which the code does not count either) *and
the workers that are past the check* (`OverrunIsPast`): the sum stays below limit and workers,
because the worker that passes has just counted fewer than the limit. `TriesAreBoundedByWorkers`
says the same of attempts and the workers that may still try (`Trying`), and that tries exceed
attempts by the outcomes in hand (`Reporting`) and those that died (`BudgetOK`).

**Scheduler** (`SchedulerProofs`): first the arithmetic without any state: the searches of eight
days find the last due slot and the first one to come, and no slot lies between
(`WindowAndNextAreNeighbours`). Then `ExecutedOncePerWindow`, `EvidenceIsTruthful`,
`TakenIsAccountedFor`, `SlotsAreNeighbours`. `Inv` adds `StageOK`, `OneOwner` (the calls that
acquired a window are those whose lock is there, and no two have the same) and `SkipJustified` (a
call that is about to skip has seen another's lock).

**SEC ingestion** (`SecIngestionProofs`): `MarksAreComplete`, `RecordsAreStoredOnce`,
`CountsAreTrue`, `NothingLeftOut`. `Inv` adds `WorkerOK`, whose heart is that a worker about to
store record *i* has stored (or found) the records before it, which no other worker can undo, and
`Covered`: each symbol of a worker is still to do, could not be listed, or has its filings counted
but for those in hand.

**Pipeline** (`PipelineProofs`): `BriefsRestOnEvidence`, `InputsAreReady`, `LineageIsFaithful`,
`EndIsRecorded`. That a handler finds its inputs depends on the statuses of all critical stages
before it, so `Inv` relates statuses, context and rows of every stage left behind: `StageLeaves`
(what a stage that was not cut short has left), `RowsOfStages` (no row before its stage),
`StagesBehind` (what the order of stages implies), `LineageListed`, `RowsCounted`.

**Options flow** (`OptionsFlowProofs`): `AlertsRestOnTwoScans`, `ObservationsAreStoredOnce`,
`DeathsLoseOneEach`. `Inv` adds `RequestOK` (what each stage implies about a request's own
variables), `Apart` (no two requests deal with, or have stored, one observation) and `MarkedFirst`
(no row before its fingerprint). The loss is a set, the observations marked and not in anybody's
hands that lack a row or their alert; the proof shows that a step adds none to it, and a death one
at most.

**Plans and signals** (`TradePlansProofs`): `VersionsAreRecorded`, `StraysAreDeaths`,
`SignalsRestOnApproval`. `Inv` adds `RequestOK` (what a request knows of the rows it has read and
appended), `Apart` (no two requests have appended one transition), `TransitionsOK` (a transition is
from a row that was there, by the table, and later than the one of that row) and `DraftsOK` (a draft
is from no transition). That tables only grow (`TablesGrow`) is why what a request has read stays
true; that the approval of a plan follows its confirmation rests on the table of transitions
(`Lifecycle`) and on the row between them.

**Copies and watchlists** (`EvidenceProofs`): `CopiesAreConsistent`, `VersionsGrowAlong`. `BackupInv`
says that the store itself holds whole writes only (`WholeWrites(tables)`, which each of the four writes
keeps) and of each copy that what was there when it was begun is in the store still, so that once its
pages are copied it holds all that and whole writes only (`CopyOK`).
`WatchlistsInv` says that the version of a row is what its request had counted in the rows it had
read, all of them before it: so of two rows of a name the later one's count contains the earlier one's
and the row itself, unless its request had not read so far, or not all there was.

**Outcomes** (`EvidenceProofs`): `CompletedStaysFinal`, `SamplesCountSignals`. A row carries how
many rows its call had read (`seen`), and `RowSound` says that by those its horizon was not settled;
rows are only added, so what the first *n* of them told stays true (`LatestStays`). So a row after a
completed one comes of a call that had not read that one, or no longer, or had read a later row that
hid it. A call that had not read it is another one, which is `Overlaps`, or the one that appended
it: then the rows are of two rows of signals, since a call appends one row for a row of signals and
horizon at most (`CallApart`), and two calls never have one number (`WritersOK`). What a call
appends is a set of changed horizons in an order: the lemmas of *sets in an order* say that
`InOrder` of a total order lists each element once, and `AppendOrderIsTotal` and `MetBeforeIsTotal`
that the two orders of the code are total. A summary is of rows that were among the newest at one
time (`SummariesOK`).

**Daily run** (`EvidenceProofs`): `ReportsAreBacked`. `DailyInv` says, stage by stage, what a run
has stored (`StageOK`: in the middle of the transitions the candidates behind have their whole
trail, the one at hand none or its first half, those ahead none), what stays of it however it ends
(`StoredRunOK`), and what a package has to rest on: the newest screen row is there (`Standing`; a
daily run's then comes with all that precedes it, by `StoredRunOK`), every candidate of a pipeline's
row has a stored snapshot (`Snapshotted`), and so whatever is left to pack or packed is `Packable`
(`PacksOK`). `NewestIsPackable` derives the last from the others; the pipeline's actions disturb
none of it (`PipelineKeepsDaily`).

**Selection** (`EvidenceProofs`): `RankingIsOfTheSet`, `VerdictsAgree`. No two candidates of a
screen are of one symbol and strategy (`DistinctCandidates`, which `ScreensGiveCandidates` derives
from the universe), so the last tie-breaker of `Stronger`, the place in the list, never decides
(`PlacesDoNotMatter`), and `Ahead` is total on what is kept. So the ranking is a function of the
*set* of candidates (`RankingOfSet`), which no permutation changes. The verdicts agree because,
with a package that lacks a mandatory field, as every package does (`PackagesAreIncomplete`), no
gate is open (`GatesSay`), so a verdict depends on the candidate alone and not on its place
(`VerdictsOfTop`).

**Types** (`EvidenceProofs`): `ServiceIsTyped` puts the invariants of the eight parts together.

**Cards, quotes and refresh** (`ProviderProofs`): `ReadyCardsAreRecent`, `SucceededIsHonest`.
`BridgeInv` relates the clocks (`ClocksOK`), the heartbeat in hand (`BeatOK`: one that says paper
was made when TWS was up with a paper account, and the last such minute only goes forward) and
every row of the bridge that says ready (`HealthOK`: its heartbeat was such a one, at most
`MaxAhead` ahead of the minute it was recorded at). That the card is of the newest row needs that
a bounded set of numbers has a largest one (`LargestExists`). `RefreshInv` adds `Told`: each
component that raised, or has written of one of its sources that it is unavailable, has a status
that says so, and before its end, which only the news refresh can have come to, a failing status
nested in its result.

`TicksAreFiledRight`: `ProbeInv` says that a number is used for one contract and a tick is stored
under the number of its own contract (`NumbersOK`); that in its round the main thread waits for
the number asked for last, that the options left are of the stock whose quote it has, and that
there are numbers enough for what it may still ask (`TurnOK`); and that it asks for an option only
while its symbol wants one (`RoomOK`).

**AI budget** (`ProviderProofs`): `SpendIsBounded`, `AnswersArePaidOnce`. Sums over requests are
counted as sets of pairs: `Room`, a pair for each unit a request may still spend by the total it
has read, and `Owed`, one for each unit it was charged that is not in the ledger yet. `SpendOK`,
that ledger and room together stay within a cap for each request, is inductive where the bound of
the ledger alone is not. `PaidOK` counts, of an event without a summary, the requests that have an
answer for it, and of one with a summary those that still have it on their list.

**Only model-checked**: liveness (`QueueSettles`, `CallsEnd`, `FilingIngested`, `RunEnds`,
`MarkedIsFinished`), which needs fairness and ENABLED and is out of the prover's reach; and the four
disagreements below, which are counterexamples. Every invariant and action property of a passing
run is stated by a theorem.

## 6. Where code and documents disagree

Each of these is a run:

1. `outbox_credentials`: "messages queued before credentials are configured become eligible for
   delivery after valid credentials are supplied" (`docs/OPERATIONS.md`): a drain that runs while
   they are malformed marks the message `failed_validation`, and no drain ever claims that.
2. `sec_sameday`: the news event of a filing is keyed by symbol, form and day; a second filing of
   the form on that day is told of nowhere.
3. `pipeline_watch`: the scheduled refresh takes the Top 10 from the newest report of *any* type;
   after the after-close job this is a summary without one, and the Top 10 is not watched.
4. `plans_current`: "only after the same authenticated operator approves a complete current plan"
   (`docs/OPERATIONAL_ACCEPTANCE_REPORT.md`): a signal is made of whichever row the caller names if
   that row says approved; that the plan was invalidated by a later row is not looked at.
   `SignalsRestOnApproval` is what does hold.

Met while the code was read and modelled, and in the models as they are, but not runs of their own:

- "up to three total attempts" (`docs/OPERATIONS.md:118`): `queue_or_send` reads `attempt_count` before
  the request and adds to it afterwards (`telegram.py:276-280`), so two direct calls of one message both
  pass the check. A message is tried once more per further worker and death at most
  (`TriesBoundedByWorkers`), and messages of one call never (`TriesAreBounded`).
- "the shared hard application cap" (`service.py:1502`): the month's spend is read once and then kept
  locally, so requests at a time exceed the cap together; `SpendWithinOverrun` says by how much. What is
  paid for answers that never came is on no ledger.
- A request for outcomes that started before another had completed a horizon may append a stale row
  after it. And one request that reads two rows of a signal_id, which a repeated request leaves,
  appends for both: it does not add what it appends to the statuses it has read
  (`service.py:1049-1078`), so both count as samples. `CompletedIsFinal` and `SamplesAreSignals`
  exempt just these two. With more than forty signals the five horizons of each no longer fit the
  newest 200 outcomes, and what fell out is evaluated anew.
- "the dashboard marks the status stale" (`docs/IBKR_PAPER_BRIDGE.md:42-44`): the cards of the health
  console do, `/api/v1/providers/health` (`main.py:904-926`) shows the state last recorded.
- The bridge posts a heartbeat a minute; `provider_health` is read through its newest rows of *all*
  providers, so the cards of providers that are refreshed once a day disappear behind it.
- The bridge's `observed_at` is the time before the options were collected; a long collection makes
  the heartbeat old, or refused, when it arrives.
- An unverified market environment, macro feeds that are missing and symbols that were not resolved do
  not keep a refresh from being recorded as succeeded: the exceptions in `SuccessIsHonest`.
  `refresh_official_news` returns no status, so its scheduled job is always recorded as succeeded
  (`scheduler.py:277`).
- A research package never completes its fifteen mandatory fields: seven are missing whatever the
  evidence. So `EvaluateTop3` never selects and the Top 3 is always empty; `VerdictsHold` is about
  the verdicts there are.
- The report orders the Top 10 by raw score, not by the penalised one it was ranked by.
- The policy of the universe is applied before the newest snapshot is picked: an excluded newer
  snapshot lets an older one of the symbol through.
- `run_valuation` raises, and with it the run, when the discount rate exceeds the terminal growth by
  two points or less: the optimistic case has them meet.
- A screen that asks for a positive strength or surprise takes exactly 0.0 for missing.
- A candidate's trail starts anew from `discovered` in each run, whatever an earlier run made of it.
- The packages of `research_latest` are of the newest screen row, which after a pipeline run is that of
  the pipeline, with no universe run behind it (`service.py:272-275`, `1757`); `ReportBacked` promises
  of those a stored screen row and a snapshot, and no more.
- "Export every LMIO physical table to a hashed, local JSON recovery set" (`supabase_store.py:169`):
  two of the tables have no `created_at` to be ordered by, the server refuses the first request, and
  the export raises and leaves an empty directory behind. The test
  (`tests/test_supabase_store.py:141-158`) answers whatever it is asked. So the procedure of
  `docs/BACKUP_RECOVERY.md:55-57` and `restore_rehearsal` have nothing to work on. In `Backup` an
  export does just that (`ExportRaises`), and no property speaks of one.
- The pages a Supabase export asks for are not followed: were its order right, a table longer than the
  server's limit would be cut off.
- The hourly limit counts messages *created* within the hour (`telegram.py:291`), so a backlog sent
  after it is not counted; `HourlyLimitHolds` says the same as the code and no more.

## 7. What is left out

Within the modelled components: the texts and layout of messages and reports; HTTP and SQL below
the level of one operation; how long things take (any delay is possible); the scores and prices a
stage computes; more than the newest report. `scheduler_status`, a report over the newest 200
events, is not modelled. The reports of `run_daily` are in `DailyRun`, not in the reports table of
`Pipeline`. Calls of the pipeline that bypass the
scheduler's lock (manual endpoints, the CLI) are in `Pipeline` as further runs, not in `Scheduler`.

Which option observations qualify and which lineages are selected are constants. The approval of
*another* plan of one symbol and run is accepted by the code for a signal, and the model does the
same; no property excludes it.

In the parts of `ResearchService`: prices, returns, benchmarks and confidence intervals of
outcomes; the contents of prompts and answers; what a snapshot scores (`scoring.py`), whether it
shows a pattern (`patterns.py`) and the formulas of `valuation.py`, all floating-point arithmetic
out of TLC's and TLAPS's reach; the columns of CSV files; the loop of the bridge, its launcher and
the Barchart import; what the two stores answer to read-only counts.

Not modelled at all (status `not_modelled` in `PROJECT.json`): the news and price decision, a pure
chain of comparisons of floating-point returns that a model would only repeat; replay, demo and
audit, and the dashboard, which keep no state.

## 8. Plan

Done, in this order: outbox with its ledger and proofs; scheduler; SEC ingestion; pipeline; options
flow; plans and signals; then outcomes, AI budget, watchlists, the operator's refresh, selection, the
daily run, copies of the store, the bridge, and proofs about all of them. What remains:

1. Compositions of parts that interact: the signals of `TradePlans` as those of `Outcomes`, the options
   flow and the outbox, the daily report in the reports table of `Pipeline`.
2. `scheduler_status` and the other pages that are made of the newest rows.

## 9. Running it

    tlc -workers 2 -config SchedulerMC.cfg SchedulerMC      # a run: see PROJECT.json, "runs"
    tlapm SchedulerProofs.tla                               # a proof module
