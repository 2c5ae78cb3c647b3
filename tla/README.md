# A formal model of huntloop

huntloop runs a job search unattended: it crawls the career sites of a list of
employers, filters and scores the listings with a language model, stores them,
and learns from what the user applies to or dismisses. This directory holds
TLA+ models of the parts of it that are hard to test, the TLC configurations
that check them on small instances, and TLAPS proofs of their main theorems.
Paths below are relative to `src/huntloop/` of the repository unless they start
with `docs/` or `web/`.

Contents: [inventory](#1-inventory), [models](#2-the-modules),
[runs](#3-the-runs), [fairness](#4-fairness), [proofs](#5-the-proofs),
[disagreements found](#6-where-the-code-and-its-documentation-disagree),
[what is not modelled](#7-what-is-not-modelled-and-why),
[plan](#8-plan), [how to run](#9-how-to-run-it).

## 1. Inventory

huntloop is one SQLite database (or Postgres) and up to three kinds of process
that share it: the API server (`api/`), the scheduler daemon (`scheduler/`) and
the command line (`cli/`). There is no message queue and no lock service. All
coordination goes through rows of the database, read in one session and written
in another, or through the memory of one process.

### Components

| Component | State it keeps | Operations | What makes it correct |
| --- | --- | --- | --- |
| Run lifecycle (`db/repository.py`, `db/run_liveness.py`, `graph/build.py`, `graph/cancellation.py`, `api/routers/runs.py`) | `runs` rows; settings `run_lease:<id>`, `run_stop_request`, `run_stop_requested_at:<id>` | start, heartbeat, stale sweep, grace sweep, stop, the stop gates, finalize, the three exits of `run_discovery` | a live run is never written off; a stop reaches its run and no other; no row stays RUNNING for ever; a verdict rests on having seen the row RUNNING |
| Overlap guard and job (`scheduler/jobs.py`) | none of its own | `find_run_in_progress`, `execute_scheduled_run`, `record_skipped_run`, `classify_trigger` | at most one run at a time; a skipped fire leaves a row that says so |
| Spend cap (`scoring/spend_cap.py`) | `SpendTracker._spent_usd` under a lock | `check`, `record` | bounded overshoot; no recording lost; once tripped, tripped |
| Employer branches (`graph/nodes.py`, `graph/build.py`) | per-branch results; database sessions | fetch, dedupe, score, write, commit; record the run's error | partial work is kept; nothing of a stopped run is written after its verdict; the run's verdict is that of its branches |
| Writing listings (`discovery/write.py`, `db/repository.py`) | `jobs` rows by dedup key | upsert, re-discovery, score | one row per key; columns the user owns survive; a score carries the version it was made with |
| Careers crawl (`discovery/crawl/`) | `ats_config["crawl"]`: the hash of a page | fetch, compare, extract, save | nothing of what was read behind a skipped page is lost without a cause |
| Scheduler daemon (`scheduler/build.py`, `cli/scheduler.py`) | the job store: a trigger with its `next_run_time`; settings it watches | build, start, poll, reschedule, wake | one catch-up after an outage, none lost, none doubled unless a write fails; the saved schedule is followed |
| Criteria versions (`criteria/loader.py`) | `criteria` rows, one active | save, read the active one | exactly one active, the newest; every version validates |
| Feedback loop (`loop/`) | `criteria_proposals` rows, `status_events`, `feedback_notes` | detect, predict, generate, accept, reject | proposals narrow, do not pile up and come back only on stronger evidence; what is accepted is applied; a prediction is what the pipeline would do |
| Employer registry (`registry/`, `api/background.py`, `api/routers/companies.py`) | `companies` rows with the JSON column `ats_config`, `consecutive_empty_runs`; probe threads and their slots | mark, probe, persist, edit by hand, record a fetch | what is shown is the outcome committed last; a probe that is shown ends; evidence outranks a guess |
| Scoring rules (`scoring/`) | none | deterministic filters, triage, scoring, aggregate | fail open at triage; the aggregate is bounded and monotone |
| Normalization, ATS adapters, fetching (`normalize/`, `discovery/`) | none that outlives a call | parse, map, fetch | not state |
| Jobs and status events (`api/routers/jobs.py`, ...) | `jobs.status`, `status_events` | set a status with its event | the pair is written together |
| Settings, API shell, CLI, gateway, schema, web front end | single values, wiring, rendering | | not protocols |

`PROJECT.json` lists each with its files and its status.

### How they interact

* `huntloop run`, `POST /api/runs` and the scheduler's job all call
  `run_discovery` (`graph/build.py`). The API does so in a background thread,
  the scheduler in its own job thread, the command line in its main thread.
* `run_discovery` commits a RUNNING row and its lease, builds the clients,
  starts a heartbeat thread that refreshes the lease every 15 s, and invokes
  the graph: one branch per enabled employer, at most `max_employer_concurrency`
  at a time, joined by `finalize_run`.
* `GET /api/runs` (which the Runs page polls every 3 s), `POST /api/runs` and a
  scheduled fire each begin with two sweeps: RUNNING rows whose lease is older
  than `run_stale_after_seconds` become FAILED (interrupted), and RUNNING rows
  whose stop was requested more than `run_stop_grace_seconds` ago become
  STOPPED.
* A stop request writes one marker for the whole installation and one timestamp
  per run. The branches compare the marker with their run at four boundaries,
  `finalize_run` at a fifth.
* All branches of a run share one `SpendTracker`.
* A branch works in one database session from its first read to its commit. On
  SQLite the flush in `record_fetch_outcome` takes the only write lock, so a
  branch holds it across its model calls, and everybody else's write waits (5 s
  at most) or fails.
* A branch of a crawled employer writes `companies.ats_config`, which the probe
  threads of the API, the company command and the API's edits write too, each
  the whole JSON value.
* When a run's row has its verdict, `run_discovery` goes on with
  `generate_proposals` over the user's history. The API's sessions accept and
  reject its proposals and save criteria; runs read the active criteria.
* The scheduler daemon builds its job from the settings, and a watcher thread
  reads them every 30 s to follow a schedule saved through the API.

### What is hard here

Every `check` in this code is a read followed, in another statement, another
session or another thread, by a write. The hard behaviours are therefore
interleavings of sweeps, threads and requests over the same rows; a process that
dies between two commits; beats that land late; a single shared stop marker; a
cap that is checked before a call and charged after it; a JSON column that is
written whole by four parties; proposals computed from criteria that have
changed since; two answers to one proposal; a schedule that is two rows; a job that is
fired first and written back afterwards; and what a page's hash says about listings that
were never stored. `PROJECT.json` lists 40 such hazards at their
lines; three have no property, each with the reason.

## 2. The modules

| Module | What it is |
| --- | --- |
| `RunRow` | abstract: what the `runs` table promises its readers |
| `RunLifecycle` | rows, leases, stop requests, threads, heartbeats, sweeps, API requests, fires, crashes |
| `SpendCap` | the tracker and the branches as far as they pay for calls |
| `PipelineBranch` | what the branches of consecutive runs write, with sessions, locks, retries and verdicts |
| `LoopRules` | criteria schema, filters, flags, signals, detection and predictions as operators, no state |
| `CriteriaLoop` | (extends `LoopRules`) criteria versions, proposals, the passes that generate them, the sessions that decide |
| `Registry` | a company's row, probes, edits by hand and crawling branches |
| `Schedule` | the saved schedule, the daemon, the job store, fires |
| `MC...` | each of the above for TLC: the small instance's values and symmetry sets |
| `RunLifecycleProofs`, `RunRowRefinement`, `SpendCapProofs`, `ScheduleProofs`, `PipelineBranchProofs`, `RegistryProofs`, `CriteriaLoopProofs` | theorems about the module of the name; `RunRowRefinement`, that `RunLifecycle` implements `RunRow` |
| `SetLemmas` | facts about finite sets, their extremes and sums, that several of the proofs use |

### RunLifecycle

| Variables | In the code |
| --- | --- |
| `status`, `startAge` | `runs.status` with the kind of `error_summary`, and `started_at` |
| `leased`, `leaseAge` | the settings `run_lease:<id>` |
| `marker` | the setting `run_stop_request` |
| `asked`, `askedAge` | the settings `run_stop_requested_at:<id>` |
| `phase`, `owner` | where the thread in `run_discovery` is, and its process |
| `pc`, `op`, `seen`, `victims`, `drop` | a request or fire in flight: its step and what its session has read |

The actions of a thread follow `run_discovery`: `CliRun`, `StartRun`,
`NoActiveCriteria`, `StartHeartbeat`, `SetupFails`, `Beat`, the gates
`GateStops` and `GatePasses`, `Raise` (any other exception of the graph), then
one pair of actions for each way out, because each reads the row and commits
later: `FinalizeReads`/`FinalizeCommits`, `HaltReads`/`HaltCommits`
(`RunStoppedByUser`), `AbortReads`/`AbortCommits` (everything else); `WrapUp`
removes lease and stop request, `HandlerFails` is an exception inside a handler.

A request goes through the sweeps step by step (`Open`, `JudgeLease`,
`FailStale`, `SelectRunning`, `JudgeGrace`, `StopExpired`) and then does what it
came for: `Answer`, `Launch`, `RecordSkipped`. A stop request is `StopReads`
and then `MarkStop` or `EndStale`. `Tick` is time; `Crash(p)` kills a process
with its threads, heartbeats and half-served requests.

Abstractions, all of them in this model on purpose:

* **Ages instead of clocks.** A tick is the unit the thresholds are measured in.
  An age stops at one past its threshold (it is only compared with `>`), and it
  is forgotten when no RUNNING row can read it (`Watched`).
* **Late beats.** `Tick` is disabled when a working run's lease would become
  older than `BeatLimit`: the model assumes that beats land, at worst,
  `BeatLimit` ticks apart. The code's constants give `BeatLimit <= StaleAfter`
  (a beat every 15 s, several may be missed before the threshold), but a branch
  that holds the database lock can use the margin up (see `PipelineBranch`).
* **One sweep reads its leases at one moment.** It reads them row by row in the
  code, but the judgement of a row depends only on its own lease, and its effect
  comes in a later commit.
* **A gate reads the row and then the marker**, in two sessions. A sweep can end the
  row and delete the marker in between, and then the gate lets a run through that is
  over: `GatePasses` asks for the marker only. At the gates of a branch this is as if
  the gate had come a moment earlier, which `PipelineBranch` has.
* **`finish_if_running` in a sweep does not check.** `session.get` returns the
  instance the sweep's own SELECT put into the identity map, so it sees RUNNING
  whatever the table holds. In a thread, whose session is new, it does check.
* **Upserts of one settings key are atomic**, the counters of a row are left
  out, and the three verdicts of a finished graph are one ("completed").

### SpendCap

| Variables | In the code |
| --- | --- |
| `spent`, `lock`, `read` | `SpendTracker._spent_usd`, `_lock`, and what the thread inside `record` has read |
| `at`, `stage`, `todo`, `tries` | where a branch is in `process_employer`, `_score_batch`, `score_listing` |
| `bill`, `part`, `counted`, `capped` | the usage of the last answer, of the listing in hand, of the batch; `EmployerResult.capped` |
| `missed` | history: a charge the tracker never sees |

`Ask` and `Trip` are `check`; `RecordReads` and `RecordWrites` are `record`,
split so that the lock has something to protect. `Answer`, `Unusable` and
`Unreachable` are the three things a provider can do, with the different
consequences the code gives them in triage (fail open: the listing goes on) and
in scoring (an unusable answer is stored as the listing's error; any other
exception fails the employer). `Retry` is the graph's `RetryPolicy`, reached
when recording an employer's error fails too. Prices are small integers: of a
cost, the cap only sees whether the sum has met it. A stop or an exhausted branch aborts the graph in the code, and its
queued branches never start; here they may, which only adds calls.

### PipelineBranch

| Variables | In the code |
| --- | --- |
| `backend`, `lock` | which database; SQLite's write lock |
| `run` | the newest run: row, criteria version stamped on its scores, stop request, tracker, graph |
| `at`, `local` | where a branch is in `process_employer`; what its session and its result hold |
| `version`, `edition`, `hash`, `jobs` | active criteria; the first page of a careers site; `ats_config["crawl"]`; the rows of `jobs` |
| `held`, `missed`, `crawled` | history: listings the cap held back; listings that could not be written; what the crawl whose hash is stored had read |

A branch goes `Fetch`, `Record` (flush: the lock), `Score`, `LastGate`, `Commit`,
each behind a gate that may `StopBranch`. Whatever else raises is `Fail`, then
`RecordError` in a second session, which may time out on the lock and hands the
branch to the `RetryPolicy` (`RecordErrorTimesOut`). `FinalizeRun` and `AbortRun`
are the two ends. The other sessions (`AskStop`, `SweepEndsRow`, `SaveCriteria`,
`Review`) commit one statement each, when the lock lets them. The hash is that of the
first page alone (`edition`). What a crawl reads behind it is any subset of what the
employer may post, since postings come and go on pages whose links do not change, the
links followed and the pages extracted are limited (`DEFAULT_MAX_PAGES`,
`MAX_EXTRACTION_PAGES`), and fetches and extractions that fail are passed over.
`Commit` isolates a listing that cannot be written; on PostgreSQL the failed statement
may void the whole transaction instead (`CommitsNothing`). How a row is ended from outside is
`RunLifecycle`'s, the calls and their price are `SpendCap`'s: here the tracker is
one bit, set when a batch is cut short. On PostgreSQL no two of these
sessions write one row, so there is no lock there. A branch waits for the lock
before its flush, and a stop that comes meanwhile takes effect there instead of
at the gate behind it: nothing has been written in either case.

`RunLifecycle` assumes that a working run's beats land at most `BeatLimit` apart.
`PipelineBranch` shows where that can fail: a beat is a write, and waits for the
lock of a branch that is waiting for a model. The code does not bound that wait
by the stale threshold, so the theorems keep `BeatLimit <= StaleAfter` as an
explicit hypothesis.

### LoopRules and CriteriaLoop

`LoopRules` has one operator per function of `loop/detect.py`, `loop/signals.py`,
`loop/predicted_effect.py` and of the rules they must agree with:
`PassesFilters`, `ComputeFlags`, `CompareToFloor`, `CriteriaPayload`. A listing
is a record of what those functions read. Ties that the code breaks by name are
left to `CHOOSE`; `_median` is stated by ranks instead of sorting.

| Variables of `CriteriaLoop` | In the code |
| --- | --- |
| `world`, `status`, `history`, `flags` | `jobs` with their `status_events` and `score_flags` |
| `criteria`, `notes`, `proposals` | the tables |
| `session`, `pass` | what an API session, or the tail of a run, has read so far |

No two reads of a session are one step, since neither database gives it a
snapshot: accepting is `LoadToAccept` (the proposal), `ApplyProposedChange` (the
active criteria), `NumberVersion` (the maximum) and `CommitVersion`, which the
unique constraint may refuse. A save by the form or the command differs in its
beginning (`OpenForm`, `SaveCriteria`). A pass is `StartPass`, `Detect`,
`ReadHistory`, `CommitPass`, and may be abandoned anywhere. Two passes can
overlap: a run's row is terminal before its pass begins, so the next run may
start. Two sessions that load a PENDING proposal both get to decide it: `CommitVersion`
and `CommitReject` do not look at it again. The model's claims are a number of quotes for
each candidate. How quickly a listing was rejected is chosen with the rejection.

### Registry

| Variables | In the code |
| --- | --- |
| `site` | what is out there: boards the page names, as served and rendered, and boards that answer |
| `row` | the row of a company: `ats` with its identifier, `careers_url`, `resolved_at`, `enabled`, and of `ats_config` the resolution block (`res`) |
| `thread`, `taken` | a request that has not committed its marker, or the probe it started; slots of the semaphore |
| `edit` | an edit by hand under way: the board, the columns it read, its stamp |
| `branch` | the copy of the block that a crawling branch has read |
| `clock` | the last instant that was written into a stamp |
| `last`, `torn`, `stranded` | history: the outcome committed last; a board of which a column was not written; a marker that nobody will remove |

`Outcome` is `resolve_employer` as a function of company, site, and whether the
page could be fetched and rendered; `Verified` folds the capped probing over the
candidates in their order, with the fold of the community modules and not a recursive
operator, so that it can be proved about.

Everybody who writes the row reads it, waits, and commits, and the model keeps these
apart. A request stamps its marker (`MarkResolving`), then commits it and starts a
thread (`MarkCommits`) or fails (`MarkFails`). The thread reads its company
(`ReadsCompany`), or finds no connection and ends outside the inner `try` (`DiesEarly`:
each thread that waits for a slot keeps a connection of the pool). Then `Acquire`,
`FindsResult` (which stamps `resolved_at`), and later `Persist`; or `Raise`, which gives
the slot back before the handler's own `ErrorCommits` or `ErrorFails`. `CliResolve` has
neither marker nor slot, and its URL may come from its arguments. A board entered by
hand is `ReadToEdit`, `StampEdit`, `CommitBoard`: the ORM writes a column only if it
differs from what was *read*, so after an overlapping probe the row can lack a part of
what was entered (`torn`). A URL or the toggle by itself is one step (`EditUrl`,
`Toggle`); a URL that comes with a board is left to an `EditUrl` beside it.
`SaveCrawlHash` writes back the copy of `ats_config` that the branch has read.

### Schedule

| Variables | In the code |
| --- | --- |
| `rows` | the settings `run_at` and `timezone` |
| `job` | APScheduler's store: a trigger and its `next_run_time` |
| `daemon`, `pending` | the process; the job of a scheduler that is built and not started |
| `read`, `wanted` | what a reader of both rows has read of them; what the watcher is about to store |
| `waking` | a job that has been submitted and is yet to be written back |
| `fire`, `firedAt`, `lost` | the job's thread; history: the tick of the last fire; the time in the store was computed before it |

A schedule stands for the ticks it falls on (`Fires`), so days of 23 hours are
just other sets. APScheduler is external: `Added`, `Start`, `Submit`, `StoreNext` and
`StoreFails` say what `misfire_grace_time=None`, `coalesce=True` and `max_instances=1`
make of it. A job that is due is submitted (`Submit`) and afterwards written back with
its next time, a write of its own (`StoreNext`). The process may end in between, or the
write may fail, since a branch of the run just submitted may hold SQLite's lock: then the
exception ends `start()`, the process waits for the run's thread (`failed`) and ends
(`Exit`). The watcher computes a time (`Compare`) and stores it once it has the
scheduler's lock (`Reschedule`), which a wake may hold meanwhile.

### RunRow, the abstract specification

A row is created once (RUNNING, or SKIPPED at birth), never comes back to
RUNNING, and gets a verdict only from a writer that *saw it running and has not
settled since*. It does not say that a verdict is final, because the code does
not ensure it (section 6). It does say how far the damage can go: somebody who
looks at a terminal row can never change it. `RunLifecycle` implements `RunRow`
under the mapping `row <- status`, `obs <- Holds`, where `Holds(w)` is what a
thread or a request has read and may still write.

## 3. The runs

| Run | Instance | Checks | What it shows | Distinct states |
| --- | --- | --- | --- | --- |
| `lifecycle_safety` | 2 runs, a request that triggers or stops, the scheduler's slot, 2 stops, 1 crash | `TypeOK`, `LifecycleInv`, `NoFalseKill`, `StopNotLost`, `OnlyUserStops`, `RowsImplementRunRow` | a live run is not written off, a stop is not lost when the marker is overwritten or deleted, nobody is stopped by another's stop, every verdict comes from a writer that saw the row RUNNING | about 815,000 |
| `lifecycle_liveness` | 2 runs, a polling page, 1 stop | `StopHonoured`, `OrphanReaped` | a stop ends even a stuck run; a dead thread's row does not stay RUNNING | about 598,000 |
| `spend_cap` | 3 employers, 2 at a time, one listing each, 2 attempts, cap 1, calls up to 2 | `TypeOK`, `OvershootBounded`, `SpendInv`, `LedgerExact`, `CapIsSticky`, `AllBranchesEnd` | bounded overshoot, exact ledger, sticky cap, the graph joins | about 381,000 |
| `pipeline` | 2 runs, an ATS and a crawled employer with a posting each, both databases, 2 attempts, 1 step of somebody else | `PipelineInv`, `SkipKeepsRead`, `HeldBackFetchedAgain`, `NothingAfterVerdict`, `RowsKept`, `StampNotAhead`, `RunsEnd` | on SQLite no job is written after the verdict; nothing that was read behind a skipped page is missing but for the cap or a failed write; rows keep status and score; runs end | about 338,000 |
| `criteria_loop` | 4 worlds of 2 or 3 listings, 2 sessions, 2 passes, 3 versions | `LoopInv`, `NewestIsActive`, `PayloadsValid`, `AcceptedMeansApplied`, `DuplicatesBounded`, `StrongerAfterRejection`, `FloorOnlyRestored`, `EffectsHonest`, `ProposalsNarrow`, `HistoryKept` | versions stay consistent under racing savers; a decision is revised only by a session that loaded it before; what is accepted is applied and valid; proposals narrow and predict what the filters and flags then do | about 273,000 |
| `registry` | 1 company, 3 boards, 2 threads for 1 slot, 2 resolves, 1 edit, 1 crawl, 1 crash | `RegistryInv`, `StateHonest`, `PageOutranksGuess`, `ResolvingEnds` | the state shown is that of the outcome committed last, up to the exceptions by name; a shown probe ends; a guess never beats the page | about 536,000 |
| `schedule` | 2 times in 2 zones (one with a short night), 7 ticks, 2 saves, 2 crashes or failed writes | `ScheduleInv`, `OccurrenceKept`, `CatchUpOnce`, `LabelTruthful`, `SettingFollowed` | no occurrence lost; one fired twice only after a write that failed, was cut off or was overtaken; labels right on regular days; the saved schedule wins | about 915,000 |
| `terminal_is_final`, `manual_and_scheduled`, `spend_overshoot`, `spend_ledger`, `held_back` | the smallest instance that shows it | one documented statement each | violated: section 6 | |

The `...Inv` of a row are the inductive invariants of the proofs: the types and
the facts that the other properties rest on. TLC checks each on its instance.

Why the bounds are enough to be interesting:

* Two runs are what it takes for a marker to name the wrong one, and two stops
  for the second to overwrite the first. One request at a time already races
  the threads, since each of its reads is a step of its own; beside it the
  scheduler's slot is a second sweep.
* `StaleAfter = 1`, `Grace = 0`, `BeatLimit = 1`: ages take every value on both
  sides of each threshold, and `BeatLimit = StaleAfter` is the tight case. An age
  is a number of ticks that have passed, so a grace of 0 is one shorter than a tick.
* `MaxCrashes = 1` hits any phase of any thread and any step of a request. The liveness
  run has no crash (with one it has 1.4 million states and ends well, but not within the
  five minutes a run is given here): its orphans are those of a setup or a handler that
  fails. It has one stop; the second one's overwriting is met in the safety run.
* With three employers and two slots one branch waits for the others. A cap of 1
  with calls of 0, 1 or 2 has a total that meets the cap exactly, calls that cost
  more than the cap, and free calls (a model without a price), behind which other
  branches still pass. Two attempts let a branch keep what a failed attempt had recorded.

* In `pipeline` the second run meets the hashes, rows and scores of the first; two
  branches are what it takes for one to wait for the other's lock and time out,
  and with two attempts a branch is retried once and then gives up. One step of
  others falls anywhere: between a gate and a commit, between two runs. A third
  tier (kept without a score) adds no control: `Tiers` has the two that differ.
* In `criteria_loop` each world makes other tracks fire: a ceiling, whose
  evidence the quotes of a note make stronger, both bounds at once (which can cross), a
  floor and an age, a keyword and employers. Thresholds are scaled to the number of
  listings. Only in the first world may a second generation of proposals start, which
  is what a rejected proposal needs to come back. Track A is not reached: it reads
  plain numbers, and the pipeline stores objects (section 6).
* In `registry` two threads wait for one slot; the boards are two of one platform,
  so the first hit hides the second, and one of another, so a result can be
  ambiguous. One edit that overlaps one probe is enough for the two exceptions.
  With `MaxProbes = 2` the cap cuts candidates off.
* In `schedule` a day is four ticks and `CATCHUP_SKEW` one, so late, very late and
  more than a day late all happen within the horizon. With two saves the rows
  can be torn into either of the schedules nobody saved. Two crashes or failed writes are
  what it takes for a fire to be repeated and the repetition to be cut off as well.

Every property has a mutant in `PROJECT.json`: a plausible slip in one mapped
definition with which TLC finds the property violated (judging a run by its
start instead of its lease, deleting every run's stop request, dropping the
check of `finish_if_running`, taking the lock away, `>` for `>=` in the cap, ...).
A mutated form stands in the module immediately before the definition it is a
form of, and nothing else uses it.

## 4. Fairness

`RunLifecycle`: time passes (`WF(Tick)`); a heartbeat thread that exists beats,
and a client is built or fails (`WF(Alive(r))`); a request that was opened is
served, and the Runs page goes on polling (`WF(Serve(g) \/ Open(g, "list"))`,
the 3 s poll of
`web/src/pages/Runs.tsx`, which goes on as long as a row is RUNNING). **Nothing** is assumed of a run's thread once its
graph is running: it may hang in one employer for ever. So `StopHonoured` and
`OrphanReaped` hold because of the sweeps, and only while somebody polls (or the
scheduler fires): an installation without either leaves an orphan RUNNING.
`StopHonoured` is stated as "again and again no run that was asked to stop is
RUNNING", which needs no assumption about how many stops are made.

`SpendCap`: every branch takes its next step (`WF(Step(e))`): fetches and model
calls have timeouts, the lock is a `with` block.

`PipelineBranch`: the same for the branches and for the join of the graph
(`WF(Branch(e))`, `WF(FinalizeRun)`, `WF(AbortRun)`). A branch that waits for the
lock has a step too: its timeout. Nothing is assumed of stops, sweeps, or of
the start of another run.

`Registry`: a thread that was started goes on, well or badly (`WF(Works(t))`): every
fetch has a timeout, and so has every wait for a connection or for the database's lock;
the semaphore is taken in a `with` block, and a free slot goes to a thread that waits.
Nothing is assumed of the user, of branches or of requests. `ResolvingEnds` holds up to the
four ways in which the code leaves a marker behind; they are in the property by name
(`stranded`).

`Schedule`: the container restarts the daemon, also after a failed write, once the run
that goes on has ended (`Boot`, `Build`, `Start`, `Exit`); its threads go on, up to the
write of a job that was submitted (`Submit`, `StoreNext`, `ReadForFire`, `ClassifyFire`);
and the watcher polls again and again (`Poll`, `Compare`, `Reschedule`). Time need not pass,
no write has to fail, a fire's run need not end, the user need not stop saving (saves are
bounded, and so are crashes and failed writes).

`CriteriaLoop` has no fairness and no liveness: a pass may always be abandoned,
and nobody promises that a proposal is decided. No strong fairness is used
anywhere.

## 5. The proofs

Every safety invariant and every action property that a passing run checks is
also a theorem, checked by TLAPS (SMT, Zenon, LS4) for every value of the
constants: any number of runs, requests, employers, postings, probes, sessions,
passes and listings, any thresholds, caps, schedules and histories.

| Module | Theorem | States |
| --- | --- | --- |
| `RunLifecycleProofs` | `TypeCorrect` | `TypeOK` |
| | `StopInvariant` | `Unstarted`, `SlotsTidy`, `VerdictBeforeCleanup`, `StopsAreAsked` |
| | `LifecycleInvariant` (if `BeatLimit <= StaleAfter`) | `LifecycleInv` |
| | `NeverFalselyKilled` (if `BeatLimit <= StaleAfter`) | `NoFalseKill` |
| | `StoppedOnlyOnRequest` | `OnlyUserStops` |
| | `StopStaysOnRecord` | `StopNotLost` |
| `RunRowRefinement` | `RowsRefine` | `RowsImplementRunRow` |
| `SpendCapProofs` | `SpendTypes`, `SpendInvariant` | `TypeOK`, `SpendInv` |
| | `OvershootIsBounded` | `OvershootBounded` |
| | `CapStaysTripped` | `CapIsSticky` |
| | `LedgerIsExact` | `LedgerExact` |
| `PipelineBranchProofs` | `PipelineInvariant` | `PipelineInv` |
| | `NothingWrittenAfterVerdict` | `NothingAfterVerdict` |
| | `SkipKeepsWhatWasRead` | `SkipKeepsRead` |
| | `AtsHeldBackIsFetchedAgain` | `HeldBackFetchedAgain` |
| | `RowsAreKept` | `RowsKept` |
| | `StampIsNotAhead` | `StampNotAhead` |
| `ScheduleProofs` | `ScheduleInvariant` | `ScheduleInv` |
| | `OccurrenceIsKept` | `OccurrenceKept` |
| | `CaughtUpOnce` | `CatchUpOnce` |
| | `LabelIsTruthful` | `LabelTruthful` |
| `RegistryProofs` | `RegistryInvariant` | `RegistryInv` |
| | `StateIsHonest` | `StateHonest` |
| | `PageOutranksGuesses` | `PageOutranksGuess` |
| `CriteriaLoopProofs` | `TablesInvariant`, `LoopInvariant` | `TableInv`, `LoopInv` |
| | `NewestAlwaysActive` | `NewestIsActive` |
| | `StoredAlwaysValid` | `PayloadsValid` |
| | `AcceptedAlwaysApplied` | `AcceptedMeansApplied` |
| | `DuplicatesAlwaysBounded` | `DuplicatesBounded` |
| | `RejectedComesBackStronger` | `StrongerAfterRejection` |
| | `FloorsOnlyRestored` | `FloorOnlyRestored` |
| | `ProposalsAlwaysNarrow` | `ProposalsNarrow` |
| | `EffectsAlwaysHonest` | `EffectsHonest` |
| | `HistoryAlwaysKept` | `HistoryKept` |

**Assumptions.** They stand as named `ASSUME`s beside the constants, and TLC
evaluates them on the instances:

* A value that means "none" is none of the others (`NoRunAssumption`,
  `NoneAssumption`, `UnsetAssumption`, part of `CapAssumption` and others). Slots are
  not runs (`SlotAssumption`).
* Thresholds, limits and the bounds of the model are naturals, positive where the
  code's settings are (`TimeAssumption`, `BoundAssumption`, `BoundsAssumption`,
  `ConcurrencyAssumption`, `CostAssumption`, `AttemptsAssumption`,
  `ScheduleAssumption`, `RungsAssumption`, `AgeFloorAssumption`,
  `MinimumsAssumption`). No bound is assumed to be small.
* Employers, threads, passes and listings are finitely many (`EmployersAssumption`,
  `RegistryAssumption`, `LoopAssumption`). Postings of two employers are different
  (`EmployersAssumption` of `PipelineBranch`): the dedup key is the company's slug with
  the board's id of the posting, or its URL. Two rows of the registry that list the
  same URL are outside the theorems.
* `OrderAssumption`: the order in which `_probe_candidates` sorts boards has each of them
  once. `FirstPayloadAssumption`: the criteria that the user starts with validate.
* `BeatLimit <= StaleAfter` is a hypothesis of two theorems and not an assumption of
  the module, since configuration can break it
  (`HUNTLOOP_RUN_STALE_AFTER_SECONDS` may be set to any positive number, the 15 s beat
  is a constant), and so can a branch that holds SQLite's lock (section 2).

**The lifecycle.** None of the action properties is inductive by itself: that a
sweep does not kill a working run depends on what it read earlier. `LifecycleInv`
carries that. `Unstarted` says nobody knows the id of a run that has no row;
`SlotsTidy`, that a request carries rows only between the steps that need them;
`StopsAreAsked`, that the marker, a thread in the stop handler and a grace sweep
about to commit each rest on a requested-at row of that very run. For the last,
`VerdictBeforeCleanup` is needed: `WrapUp` deletes the requested-at row of its
run, which is harmless only because the run already has a verdict.
`WorkingHasLease` says a working run has a lease no older than `BeatLimit`, and
so `WorkingNotCondemned` follows: no sweep that has judged it holds it as stale,
also when the judgement is older than the commit. The hypothesis
`BeatLimit <= StaleAfter` is used in exactly that step.

**The refinement.** Each action is one of four shapes (create, observe, settle,
forget), each a lemma; the theorem sends every action to one of them or to a
stutter. It uses `Unstarted` (a row that is created was absent) and `SlotsTidy`
(a request that settles holds nothing else).

**The cap.** `RoomForCalls` is the inductive form of the overshoot: the recorded
spend plus one maximal call for each branch in flight stays below the cap plus
one call for each slot of the executor. A check that passes adds a branch in flight
while the total is below the cap; a recording trades a branch in flight for at
most `MaxCost`. It needs `RecordingIsLocked` (what the recording thread has read
is still the total) and `ConcurrencyKept`. The cap is sticky although each branch
checks for itself, because a refusal means that the cap is met (`RefusedMeansMet`)
and the total only grows. The ledger is a sum over all branches; a step changes one
branch's part of it, and `SetLemmas` says by how much the sum changes then. That a
listing's usage is counted before the next one is begun is `NextIsFresh`.

**The branches.** `WriterHasLock`: on SQLite a branch between its flush and its
commit has the only write lock, so the row of its run is still RUNNING when it
commits, and the version its scores were made with is still active. With
that, `NothingAfterVerdict` and `StampNotAhead` need no timing. `OverIsIdle` says that
a graph that has ended has no branch at work, `RowsOfRuns` what the columns of a row
say of the runs there have been, `HeldByBranch` what a branch holds at each stage:
for an ATS employer everything the board lists and no hash to save, so that what
the cap held back of it is fetched again. `SkipKeepsRead` is inductive by itself: the hash
and the jobs are one commit, and the two ways in which a posting that was read can be
missing from it are what `held` and `missed` record.

**The schedule.** A fire is one step and the write that moves its job past the present
another, so the store is behind between the two, and stays behind if the write fails or
is cut off. `DueAfterFires` says so: a job is due after every fire there was, unless it is
being written (then its new time is, `waking`) or its time is `lost`; and a time that the
watcher is about to store was computed after the fires of a daemon that is not up yet.
`lost` is set by what loses the time (`Crash`, `StoreFails`, a `Reschedule` that was computed
before the fire) and cleared by the next write. `CatchUpOnce` follows for every fire that
is not such a repetition. `FiresWhileUp` says that a job is written back only
after its occurrence was fired or dropped, which is what `OccurrenceKept` needs. `Regular`
asks no more than that the next occurrence after each is a day later.

**The registry.** `SlotsCounted`: the semaphore is what it counts, also across
errors and crashes, although the slot is given back before the error is recorded.
`BlocksHonest` says of every block that is stored, held by a branch, or found and not yet
committed, that no guess stands in it although the page named a live board. For that the
capped probing itself had to be reasoned about: the `Sweep` over the candidates is a
fold, and `SweepFacts` says what it has found at each place of `Order`. The
attempt to prove it also corrected the property: a page that names more boards than
are probed may end ambiguous, so "the page resolves it" now has that condition.
`StateHonest` is inductive together with these: `OutcomeShown` relates the row to the
outcome committed last, and a marker that is shown has a probe under way that will write over
it, or was left by a step that says so. No order of stamps is assumed: a marker that was
stamped later may be committed earlier, be read by a branch, and be written back over the
outcome that came after it; it then masks it, and counts as `stranded`.

**The criteria.** `TableInv`: versions are numbered 1 to n, the newest alone is active,
and a number that a session has read is an old one or the next. What a session is about
to write validates and is some stored version with one field set. Proposals that wait,
together with the passes that are about to add one, are at most the passes
(`DuplicatesCounted`): each pass looks before it adds, and adds one of a signature. A bar
that a pass has read stays what it was until it commits (`BarIsRead`, `BarIsKept`).
`HistoryKept` says what is left of "decided exactly once": the sessions that may still
change a decided proposal (`Deciders`) had loaded it before, no session joins them, and one
that does change it leaves them.

**The evidence.** `EvidenceInv` follows what is computed and not what is stored. Each of
the tracks of `detect.py` makes candidates that are `Derived` from the criteria the pass
read; of the median, which is stated by ranks, the lemma is that it exists and does not lie
above all of its values, so some listing that voted for a floor pays at least as much
as is proposed. A flag "below the floor" tells of a version with a higher
floor (`FlagsKept`), and only flagged listings vote on the floor: hence
`FloorOnlyRestored`. From `Derived` follow, by lemmas about the operators alone, that the
criteria with the change still validate, that the change narrows them
(`ProposalsNarrow`), and that the predictor's rules, which are not the scorer's, come
to the same listings as the scorer's flags do (`EffectsHonest`).

**Induction.** The library's induction rules take an operator as a parameter, which the
provers here cannot instantiate. Where a proof needs induction (a sum over a finite set,
a sweep over a sequence, a greatest element) `SetLemmas` provides it as a smallest
counterexample: a set of naturals has a least element, and among some subsets of a
finite set there is a least.

**Only model-checked** is liveness: `StopHonoured`, `OrphanReaped`, `AllBranchesEnd`,
`RunsEnd`, `ResolvingEnds`, `SettingFollowed`. They rest on fairness, and so on
`ENABLED`, which is out of the prover's reach.

## 6. Where the code and its documentation disagree

Each of the first five is a run that TLC ends with a counterexample; the
quotations are in `PROJECT.json`.

* **A verdict is not final** (`terminal_is_final`). `finish_if_running` reads,
  and its UPDATE carries no condition. A sweep that has loaded a RUNNING row
  overwrites the verdict that the thread commits meanwhile.
* **A manual trigger and a scheduled fire can both run**
  (`manual_and_scheduled`). The guard looks for a row that the other's thread
  has not created yet.
* **The cap overshoots by more than one call** (`spend_overshoot`). Nothing is
  reserved at the check: the bound is one call per running branch.
* **Not every charged call is recorded** (`spend_ledger`). Extraction calls are
  neither checked nor recorded; an answer that does not fit its schema is
  charged, but its usage is lost with the exception.
* **What the cap held back on a crawled page is not picked up by the next run**
  (`held_back`). The page's hash is saved with the listings scored before the cap,
  and the unchanged page is then skipped (`graph/nodes.py:379-380`,
  `discovery/crawl/careers.py:230-231`). Of what the crawl has read, `SkipKeepsRead` bounds
  the damage to that and to listings whose own write failed.

Met while modelling; the models are as the code is, and the properties that hold
are stated around these:

* **Jobs after a verdict, on PostgreSQL.** `graph/nodes.py:231-233` says a stopped
  run "must never write jobs after the stop". Between that gate and the commit a
  sweep can end the row. On SQLite the branch's own lock closes the window
  (`NothingAfterVerdict`), on PostgreSQL nothing does.
* **An employer's error can fail the run.** `process_employer` isolates employers
  (`graph/nodes.py:155-158`), but `_record_run_error` is outside any handler: when
  it waits too long for another branch's lock, the retries are used up and the
  whole run is aborted. `RunsEnd` covers that the row ends.
* **The skip hides what was never read.** The hash is that of the first page only
  (`careers.py:202`, `:230`): what is posted on a detail page or a later page of a list,
  behind a first page that does not change, is not seen until it does. Nor is what the crawl
  that saved the hash did not read: a detail page whose fetch failed (`careers.py:285`
  passes it over), links beyond `DEFAULT_MAX_PAGES` (8), pages beyond
  `MAX_EXTRACTION_PAGES` (6 of these 8, `extract.py:70`). No error and no cap is reported
  for them.
* **One listing can cost an employer its others, on PostgreSQL.** `discovery/write.py:103-104`
  says that one malformed listing must not, and catches each exception. There a failed
  statement aborts the transaction: those after it are refused too, and unless the final
  flush raises, the commit writes nothing and the branch counts as done (`CommitsNothing`).
* **The columns a re-discovery writes.** The comment on `JOB_DISCOVERY_OWNED_COLUMNS`
  (`db/repository.py:20-25`) says the list "Deliberately EXCLUDES [...] the pipeline-stage
  marker (filter_tier_reached), the first-discovery provenance (first_seen_at,
  source_run_id)". The list has all three (lines 45-47). `RowsKept` is stated
  for the code: that a row's tier tells whether its score is of the run it names holds
  *because* the tier and the run are overwritten together. What the comment prescribes
  for the tier is the property's mutant, and breaks it.
* **The stamp is not the version that scored.** `db/models.py:210-212` says
  `scored_criteria_version` "stamps which version produced a given score", and
  `docs/architecture/data-model.md:169` that the stamp keeps scores interpretable after
  criteria changes. The stamp is read when the run starts (`graph/build.py:204-209`), the
  criteria again by each branch (`graph/nodes.py:204`): when criteria are saved
  during a run, scores carry an older version than the one that produced them.
  `StampNotAhead` says what is left: never a newer one.
* **There is a reaper.** `docs/operations/scheduling.md:120` says that "There is currently
  no automatic reaper", that while a `running` row exists "every new scheduled fire records a
  `skipped` row", and has the user close the row by hand. Each of `GET /api/runs`,
  `POST /api/runs` and a fire begins with the sweeps of `db/run_liveness.py`, which end it:
  `OrphanReaped`.
* **A proposal can be decided twice.** `loop/apply.py:18-19` says "A proposal is decided
  exactly once. A second accept or reject raises ProposalNotPending and writes nothing",
  `apply.py:59` and `api/routers/proposals.py:218` call it "a one-way door". The status is
  checked on the row as it was loaded, and nothing checks it again: two sessions that
  loaded it PENDING both commit. A proposal can end REJECTED with its change in the
  active criteria, or be accepted twice and name the second version. `HistoryKept` bounds
  it: only sessions that had loaded it while it waited, and each once.
* **The resolving marker can stay.** `api/background.py:75` wants every path
  terminal. Four leave it: the end of the process; a thread that gets no connection for its
  first read, which is outside the inner `try` (`background.py:79-84`; `resolve_batch` starts
  a thread for each id, and those that wait for a slot keep their connections); a handler
  whose own commit fails; and a branch that writes a stale copy of `ats_config` back
  (`careers.py:305`). The same write-back loses a probe's trail, and a probe loses the page's
  hash, although `careers.py:299-301` merges to prevent such loss.
* **A stale marker can mask a newer result.** `api/routers/companies.py:171-173` compares
  the stamps, so that it "can therefore never". Stamps are made before the commit: a marker
  stamped after a probe's result and committed before it, if a branch reads it and
  writes it back, is newer than the result that it masks.
* **A board entered by hand can be shown resolved without the board.**
  `companies.py:335-337` has the employer "watchable/Resolved immediately". Only columns
  that differ from the row as read are written: if a probe commits in between, that the
  employer has no board, say, and the board entered is the one that was read, then
  `resolved_at` and the manual block are there and the board is not (`torn`).
* **A catch-up can fire twice.** `docs/operations/scheduling.md:44` has "exactly one catch-up
  run fires on restart", `scheduler/build.py:116` "N missed fires collapse to exactly ONE".
  APScheduler submits the job and then writes its next time: if that write fails on the
  lock of the run's own branches, or the process ends before it, the restarted daemon
  finds the occurrence due again. So it is if a reschedule that was computed before a
  fire is stored after it. `CatchUpOnce` has these by name (`lost`).
* **A probe under way overwrites what the user enters meanwhile**: URL, board and
  the manual resolution (`registry/resolve.py:448-456`).
* **An unchanged page counts as an empty run.** `graph/nodes.py:363-365` turns the
  skip into an EMPTY fetch, and `mark_empty_run` (`db/repository.py:99-106`) is for
  "an HTTP 200 with zero listings" only: an employer whose page stands still for
  three runs is reported as possibly stale. So is one whose pages could not be
  extracted (`discovery/crawl/extract.py:153-159`).
* **The clocks change.** `scheduler/build.py:36` leaves DST to the trigger, but
  `classify_trigger` subtracts 24 hours: after the short night an on-time fire is
  labelled CATCH_UP. `LabelTruthful` excludes such days.
* **A dropped overlap leaves no row.** An occurrence that `max_instances` drops is
  not recorded, while "a skip is a first-class queryable fact"
  (`scheduler/jobs.py:90`).
* **Track A cannot fire.** `attribute_dimension` takes plain numbers, and the
  scorer stores `{dimension: {score, reason}}`; no proposal for the weights
  arises, and none for locations or work authorization, which no track names.
* **A PENDING proposal can be duplicated** by passes that overlap
  (`loop/generate.py:23`); `DuplicatesBounded` says by how many. Accepting one also
  reverts a manual edit of its field saved since it was computed.

## 7. What is not modelled, and why

* **Network and parsing**: ATS payloads, HTML, compensation and location text,
  the URL guard. No state outlives a call; tests reach it.
* **Prompts, wording, rendering**: CLI, gateway, diagnostics, the web client, the
  rationale of a proposal. Of the client only its polling matters, and it is a
  fairness condition.
* **Queries**: lists, the dashboard, rejection history. They write nothing.
* **Single-value settings, configuration, credentials**: no protocol.
  Thresholds are constants of the modules that use them.
* **`predict_score_change` and the weighted aggregate**: decimal arithmetic over
  scores the models do not have, reached only from a proposal that cannot arise.
* **`consecutive_empty_runs`**: a counter that nothing but a message reads; what is
  wrong with it needs no interleaving (section 6).
* **The counters, error texts and top listings of a run**: no decision reads them.

## 8. Plan

Done: the modules and runs of section 2 and 3, and a theorem for every safety
invariant and action property that the passing runs check. What is left:

1. Abstract specifications for more components, with their refinement proved: the
   total behind `SpendTracker` (a charge is one atomic addition), the criteria table (a
   version is appended and becomes the active one in one step), the occurrence
   that a schedule owes.
2. The safety halves of the liveness properties: what holds of a run that is asked to
   stop, of a marker that is shown, of a job whose schedule was saved, until it ends.
3. The links between the modules as theorems: what `PipelineBranch` takes from
   `SpendCap` (`run.capped` once, for ever) and from `RunLifecycle` (a row is ended from
   outside only by a sweep or a stop).
4. Lemmas about the operators of `LoopRules` that no property needs yet: what
   rejecting a proposal does to the bar, how the flags change when a bound does.

Composition is by hand where modules meet: a row's end (`RunLifecycle`) is
`SweepEndsRow` of `PipelineBranch`, the tracker (`SpendCap`) is its `run.capped`, the
hash that `Registry` writes back is its `hash`, and the version that
`CriteriaLoop` numbers is its `version`.

## 9. How to run it

    tlc -workers 2 -config LifecycleSafety.cfg MCRunLifecycle
    tlapm RunLifecycleProofs.tla

and likewise for the other configurations and proof modules. Each run ends in
about a minute or two; each proof module takes up to a few minutes.
