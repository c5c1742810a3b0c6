# A TLA+ verification of Greenblatt

Greenblatt is a workspace for Magic Formula investing: a Python core library
(`src/src/greenblatt`: providers, screening engine, backtest simulation), a
Django and Celery backend (`src/backend`) that runs screens and backtests as
tracked jobs, and a Next.js frontend (`src/frontend`). This directory holds TLA+
models of its behaviour, the TLC configurations that check them on small
instances, and TLAPS proofs for instances of every size.

    tlc -workers 2 -config JobLifecycle_safety.cfg MCJobLifecycle.tla
    tlapm JobLifecycle_proofs.tla

## 1. Inventory

| Component | State | Operations | Interacts with | Modelled in |
|---|---|---|---|---|
| Jobs (`apps/jobs`) | `JobRun` row: state, progress, error, retry_count, cancel_requested_at, metadata | create, dispatch, cancel, retry, run under `_run_with_tracking` | broker messages to workers; screens, backtests and cache warming run under it | `JobLifecycle`, `JobStatus`; metadata in `ScheduledLaunch` |
| Event stream (`jobs/views.py`) | `JobEvent` rows; a connection's last event | record, poll, reconnect | workers write, browsers read | `JobStream` |
| Limits (`jobs/limits.py`) | none of its own: counts active rows under a lock on the workspace row | `enforce_workspace_job_limits` | every launch | `JobLimits` |
| Screens | run row, result and exclusion rows, export file | launch, execute, export | jobs, providers, artifacts, notifications | `JobLifecycle`, `JobLimits`, `MagicFormula`, `Artifacts` |
| Backtests | run row, four tables of rows, export file | launch, execute, export | the same | the same and `BacktestRun`, `Rebalance` |
| Provider cache warm (`core/provider_operations.py`) | none beyond its job | launch, execute | jobs, providers | `JobLifecycle`, `JobLimits`, `Snapshots` |
| Schedules (`apps/automation`) | `RunSchedule`, Celery beat's `PeriodicTask` | create, update, review, delete, launch | templates, jobs, notifications | `ScheduledLaunch`, `ScheduleSync`, `Reviews` |
| Notifications, digests | `NotificationEvent`, preferences, `last_digest_sent_at` | dispatch per run, hourly digest | tasks call it after tracking; mail and webhooks | `ScheduledLaunch`, `Digest` |
| Strategy templates | template row | edit, review, `launch_template`, template from a run | screens, backtests, schedules | `ScheduledLaunch`, `Reviews`, `BacktestRun` |
| Artifacts | files under a root; storage keys in rows | store, resolve, `cleanup_artifacts` | universes, screens, backtests | `Artifacts` |
| Universes | universe, entries, upload | create, patch, replace source, built-in sync | artifacts, providers | `Universes`, `Candidates` |
| Collaboration | share links, collections and items, comments, activity log | create, change, delete, revoke, open | all views | `ShareLinks`, `Curation`, `Reviews` |
| Workspaces, accounts | memberships with a role | role checks, default workspace | all views | roles in `Reviews`, `ShareLinks` |
| Providers (`greenblatt/providers`) | rate-limiter window, snapshot files, `fallback_used` | snapshots, price history, failover, candidate lists | engine, simulation | `RateLimiter`, `Snapshots`, `BacktestRun`, `Candidates` |
| Engine | none | exclude, rank, cut | screens, simulation | `MagicFormula` |
| Simulation | holdings, cash, trades | review and rebalance | engine, providers | `Rebalance` |

**Hard behaviours.** The backend runs in autocommit mode: no caller keeps a lock
over two statements unless it opens a transaction. Requests, workers and Celery
beat change the same rows. Some saves write chosen columns, others every column of
a copy loaded earlier, and Django's `save()` of a deleted row inserts it again.
Messages are acknowledged late, so a crash or a visibility timeout delivers them
again; a retry is recorded, published and acknowledged in three steps. Jobs,
files, notifications and periodic tasks are each written next to a row, never in
one transaction with it. Providers are called from threads that share a limiter,
by processes that share a cache directory. `PROJECT.json` lists every hazard at
its line.

**What makes the components correct.**

- Jobs: an unfinished job always has exactly one owner (the launching request, a
  message or a worker); its outcome is final; cancellation keeps it from further
  work; retries end, and are counted; every launched job settles.
- Stream: a client that reads to the end has seen the last event.
- Limits: a workspace never has more active jobs than the limit; every launch is
  answered.
- Schedules and notifications: schedule and periodic task agree; every scheduled
  run notifies once; no run falls between two digests.
- Reviews, links, collections: a decision, a revocation and a deletion last, and
  what is deleted was recorded.
- Artifacts: a file that a row refers to exists; a file without a row goes.
- Universes: the entries are those of one source and are counted; a profile has one
  managed universe.
- Providers: at most `max_calls` in a window; results name the provider they came
  from; a cached snapshot is whole and fresh.
- Backtests: the rows and the summary of a run are of one attempt.
- Engine, simulation: nothing is passed over by something worse; cash and holdings
  balance.

## 2. Modules

| Module | Role |
|---|---|
| `JobStatus` | abstract: the statuses a reader of the API may observe, in which order, and how often the work starts, allowing one more start for every worker lost |
| `JobLifecycle` | the launching and the cancelling request, the broker, the workers, the faults |
| `JobStream` | a reader of the event stream beside the writers of a job's row and events |
| `JobLimits` | counting under the workspace lock, in or outside the caller's transaction |
| `ScheduledLaunch` | a schedule's launch, its late writes, the task's metadata saves, the notifications of both |
| `Digest` | the hourly digest task, the preferences and the runs it reports |
| `ScheduleSync` | a schedule and its periodic task under updates, deletions, launches and crashes |
| `Reviews` | the review of a template or a schedule under roles and stale copies |
| `ShareLinks`, `Curation` | a share link; a comment, a collection and its items; both with the activity log |
| `Candidates`, `Universes` | the names a source yields; the universes made of them |
| `Artifacts` | the file store and its clean-up |
| `RateLimiter`, `Snapshots` | the limiter and the calls it lets through; the snapshots and their shared files |
| `MagicFormula`, `Rebalance` | the ranking of a screen; the reviews of a backtest |
| `BacktestRun` | attempts of one backtest: providers, failover, the transaction |
| `MCJobLifecycle`, `MCJobLimits`, `MCScheduledLaunch` | instances for TLC |
| `MCAutomation` | `Digest` and `ScheduleSync` side by side |
| `MCWorkspaceData` | `ShareLinks`, `Reviews`, `Curation`, `Universes`, `Artifacts` side by side |
| `MCResearch` | `MagicFormula`, `Rebalance`, `RateLimiter`, `Snapshots`, `BacktestRun` side by side |
| `JobLifecycle_proofs`, `JobOutcomes_proofs`, `JobStatus_proofs` | theorems about `JobLifecycle`: ownership; cancellation, progress and retries; the refinement. Each extends the one before |
| `Limits_proofs` | theorems about `JobLimits` and `JobStream` |
| `ScheduledLaunch_proofs` | theorems about the module of that name |
| `Automation_proofs`, `WorkspaceData_proofs`, `Research_proofs` | theorems about `MCAutomation`, `MCWorkspaceData`, `MCResearch` and the modules these put side by side |

"Side by side": the modules share no state, so `part` chooses one of them in the
initial state and a behaviour is one of that module alone. It saves a run for each
and multiplies no states.

### JobLifecycle and the code

| Variable | Code |
|---|---|
| `row[j]` | the committed `JobRun` row: `state`, `progress_percent`, `cancel_requested_at` set or not, `finished_at` set or not, `error_code`, `retry_count` |
| `launch[j]` | where `launch_smoke_job`, `launch_screen`, `launch_backtest` or `launch_cache_warm` is |
| `cancel[j]` | where `request_cancellation` is: between the view's read and the save |
| `queue[j][r]` | messages not delivered, by the `retries` they carry |
| `attempt[w]` | the step of `_run_with_tracking` a worker has reached, the retries of its message, the checkpoints passed, and whether the broker still waits for its acknowledgement |
| `faults`, `extra`, `redelivered`, `abandoned`, `runs` | history and bound |

Every database statement is one action. `update_progress` is two
(`CheckForCancellation`, `SaveProgress`): a cancellation may be committed between
them. The task body is `Steps` checkpoints, which is what a screen, a backtest, a
cache warm and a smoke job look like from outside; it may raise anywhere. The
event written after each save is not a state of its own, but its failure is
(`OutcomeLost`).  `retry_job` launches another job, so it is `CreateJob` of a
fresh identity. Requests that the broker holds back (countdown) are messages like
any other: nothing is said about time.

Data left out: the metadata column (`ScheduledLaunch` has it), the text of
steps and messages, `celery_task_id`, `started_at`.

A worker is one process that runs one task at a time, as `--pool=solo` in
`compose.yml` starts it (Celery does not enforce the time limits there, so no
soft time limit interrupts a task). The faults are: death of the web process;
an answer of the broker lost after it stored the message; death of a worker; a
task longer than the broker's visibility timeout; a failure of a write that no
handler covers, after which Celery acknowledges the message.

The broker's second deliveries are of two kinds. `redelivered[j]` counts those it
gives back because the worker died at work: the job changes hands, and everything
below holds through any number of them. `extra[j]` counts those that come beside
the job's owner: the worker died when all was written and only the acknowledgement
was missing, the task outlived the visibility timeout, or the dispatch was reported
as failed after the message was stored. `Undisturbed(j)` (`extra[j] = 0`) is the
proviso of the properties such a delivery breaks: it makes two attempts of one
job, or one attempt of a finished job, which overwrite the row, and the code has
no defence against it. `NoOrphan`, `BoundedRuns` and `EventuallySettled` hold without
it. `abandoned` holds the jobs whose owner was lost for good: a launching process
that died before the message was out, an outcome that could not be written, the
second loss of one delivery. The code has no sweeper that would find them.

### JobLimits and the code

`lock[w]` is the row lock of `select_for_update`; `pc[r]` follows a launch request
through the two counts to the insertion; `active` is the set of committed rows in
`ACTIVE_STATES`. `InTransaction` tells the callers that wrap `create_job` in
`transaction.atomic` from those that do not: for the latter the lock is gone with
`enforce_workspace_job_limits`. The insertion waits for a foreign lock because the
foreign key of the new row takes a share lock on the workspace row. `ReviveJob` is
`MarkRunning` on a redelivered message of a finished job, where JobLifecycle and
JobLimits meet.

### ScheduledLaunch and the code

Actor 0 of a run is the launch (`launch_schedule`, `launch_template`,
`launch_screen`), actor k the task's attempt k. `row[r]` holds what they and the
notifications read of the committed rows: the job's state, whether its metadata has
`run_schedule_id` (`tagged`) and the result, and whether the run has its
`source_template`. `copy[r][a]` is what actor a's objects held when it last read
them. A launch may fail at any of its statements (`LaunchRaises`), the last of which saves
the template when all is tagged. Since the metadata column is saved whole, `WithMetadata` writes the copy's
metadata over what others saved meanwhile. `step` counts the task's progress saves,
each followed by `refresh_from_db` but the last, as in `execute_screen_run` and
`execute_backtest_run`, which have the same shape. `schedule` is the pair
`last_launch_status`, `last_job_run_id`; `sent` and `told` record what was announced,
`inTime` the runs tagged while no attempt held older metadata.

The schedule has both `notify_on_` flags set, and each addressee of `Addressees`
stands for the rules of its kind, for success and for failure. Whether a channel
delivers is recorded by the code and changes nothing, so it is left out. Messages
are delivered once: what a second delivery does to a job is JobLifecycle's subject.

### JobStream and the code

`jsTerminal` and `jsEvents` are the committed row and events, `jsLastId` the
sequence that gives out ids before the insertions commit, `jsWriter[w]` where a
process is between `_save_job` and the commit of `_record_event`. `jsConn` is one run
of `JobStreamView`'s generator: the copy of the row, `last_event_id`, the events read
and not yet sent. The client is the `EventSource` of a browser: it connects again
until it has been told. `StreamBatch` is the slice of 200 events. `jsExcused` are the
events a stream can miss: one that commits after a higher id was read, and what is
beyond the slice when the row is already terminal. A failure of the provider writes two
events after the final row (`_mark_failed`); `AfterEvent` is the second one.

### Digest and the code

`dgPref` is the `WorkspaceNotificationPreference` row, `dgTask[w]` an execution of
`send_notification_digests` from the query of the preferences to the mark,
`dgStamp[r]` a run's `finished_at`, which is taken before the row is committed
(`dgSaved`). The clock counts digest slots. A window is `since < finished_at <= now`
as in `_build_digest_payload`; `dgEvents` says in whose totals a run is counted (by name a
digest lists the ten that finished last). The history variables name what excuses: `dgExcused`
runs that no window could hold (committed after theirs was read, older than a day
when there is no mark, nobody to be told), and `dgDisturbed`, after which two digests
of a day are possible.

### ScheduleSync and the code

`ssRow` and `ssTasks` are the `RunSchedule` and `PeriodicTask` rows; a request is a
`PATCH`, a `DELETE` or a launch by beat, between the statements of which others run.
The name of a periodic task is unique and holds the schedule's id and slug, so it is
one of two names here. `ssAlone` and `ssHurt` tell whether an update has since put
right what a crash or an overlap left, `ssMixed` whether a deletion met another
request, died half way, or was the cascade of a template's deletion.

### Reviews, ShareLinks, Curation and the code

A `PATCH` loads the row in one step and saves it whole in another; `rvCopy[u]`,
`slReq[q].copy` and `cuReq[q].item` are what it loaded. The code has no version check, so
an edit that overlaps a decision or a revocation takes it back. `rvStale` and `slOverlap`
say that this has happened and excuse what follows, `rvStale` until the next status is
submitted (`SaveReview`), `slOverlap` until a revocation that no loaded change overlaps: from there on the properties promise everything again. `cuMoved` (an item
deleted or placed by hand) stays, since places are never put right.
In Reviews the other fields of a template or schedule are one bit (`edits`). In
Curation a deletion writes its activity first, as the three `DELETE` views do. Days are
the unit of `expires_at`.

### Candidates, Universes, Artifacts and the code

`Candidates` has no state: tokens are lists of at most three of four spellings, which is
enough for an invalid one and a repeated one. The spellings stand for two symbols, so the
limit of two typed tickers refuses nothing in the instance: a refused text changes no
row, and the theorem about the entries holds for any limit. A live listing is at most two
rows of the screener and a line of the directories. `unRows` and `unEntries` are
written by the transactions of `create_universe`, `update_universe` and
`_sync_profile_for_workspace`; `unSync[s]` is a sync that found no universe to lock. A key
that comes with another source is stored by a creation (`CreateFrom`) and dropped by a
patch (`PatchSource`). `unStale` are the universes whose row a patch has saved from a copy
that was not the row any more, until their entries are replaced; `unSeized` says that a
member has given a system universe a source of his own, or that a patch has brought a
deleted one back, and `unRaced` that two first syncs met. Any other stale patch is covered
by `OneManagedUniverse`.

`atBorn[k]` is the modification time of the file of key k, `atRef` the key column of
one row in each of the three tables, `atTask[t]` a `store_artifact` between `mkdir`,
write and commit. `atClean` is an execution of the command: the cutoff, the tables
read so far, the keys kept, the files to delete. `Hourly` assumes that between the
file and the commit of its row passes less than the retention time (24 hours against
one task).

### RateLimiter, Snapshots and the code

`rlCalls` is the deque under the lock, `rlThread[t]` a thread's nap or its call,
`rlGranted` the history of calls let through. The retries of a call (`retry`) do not
ask the limiter again, as in the code. A tick is the shortest nap.

`snJob[j]` is a process with a provider that calls `get_snapshots` once, `snFetch[j][t]`
where `_fetch_snapshot` is for a ticker. A file is an inode that its creator made:
`snTemp` and `snFile` say which inode the temporary and the final name of a ticker
point at, so that two writers of one temporary file meet as they do in a file system.
A snapshot is the time of its `cached_at`; whether figures are missing in it does not
matter. Both providers fetch through the same cache code.

### MagicFormula, Rebalance, BacktestRun and the code

`MagicFormula` screens once: the initial states are all assignments of figures to
securities. Quotients are compared as products, so the result is that of exact
arithmetic. `Frame`, `ResultRows`, `Exclusions` and `ScreenSummary` are what
`execute_screen_run` stores of it.

`Rebalance` walks through the trading days; a day brings prices or none
(`previous_available_price`), and the ranking of a review is any order of any tickers.
Money and shares are integers where the code has fractions, so a review is modelled
only when its divisions leave no remainder. `book.even` in `Review` is this bound; in the
instance (a capital that is a power of two, prices 1 and 2) it excludes no review.

`btTry[a]` is one execution of `execute_backtest_run`, `btTx[a]` its transaction with
the rows it has deleted and inserted, `btRows` what is committed. Statements follow
PostgreSQL's READ COMMITTED. `btAsked` is what the launching request said of the
providers, `btRequest` what is in the job's metadata, directly or through a template
that was made of the run and launched.

## 3. Runs

| Run | Instance | Shows |
|---|---|---|
| `lifecycle_safety` | 1 job, 2 workers, 1 retry, 2 checkpoints, 2 faults of any kind | ownership, finality, cancellation, retries; refinement of `JobStatus` |
| `lifecycle_live` | 1 job, 2 workers, 1 retry, 1 checkpoint, 1 fault of any kind | every launched job settles |
| `cancel_after_crash` | as the first, worker crashes only, at most one | violation: a cancelled job's second attempt works on |
| `launch_answer` | 1 job, 1 worker, no fault | violation: 503 for a job that was sent and started |
| `limits_safety` | 3 launches in one workspace, 1 in another, limits 2 / 1 / 1 | research limit, lock discipline, every launch answered |
| `limits_smoke` | 2 smoke launches, limit 1 | violation: both are admitted |
| `scheduled_safety` | 1 scheduled run, 1 retry, 1 intermediate progress save | metadata of runs tagged in time, their notifications, truthful reports, no silent run |
| `scheduled_notified` | as above | violation: the schedule of a fast task is not notified |
| `automation_safety` | 2 digest tasks, 2 runs, 1 member, 3 slots over 2 days, 2 edits; 2 requests on a schedule, 2 periodic tasks | no run between two digests, one digest a day; the periodic task follows its schedule, none is left over |
| `workspace_data_safety` | 2 requests each on a link, a review (3 users) and a collection of 2 items; 2 syncs and 1 patch on 2 universes; 2 stores, 2 keys, a clean-up | revocations, decisions and deletions last; entries match their row; one managed universe; no dangling reference |
| `job_stream` | 2 writers, 4 events, slices of 2, 1 client | a finished stream is complete; the client hears of the end |
| `research_safety` | 3 securities of 11 profiles; 3 tickers over 5 days; 3 threads, 2 calls in a window of 3; 2 processes, 2 tickers; 2 attempts | window bound, snapshots, balance of the books, ranking, one attempt's rows |

**Bounds.** Jobs share nothing in JobLifecycle but workers, and a worker that is
busy elsewhere is a worker that is slow, so one job shows the interleavings; the
proofs cover any number. Two workers give two attempts of one job at once, which
two faults can then crash or make outlive their timeout. One retry gives a first,
a middle and a last attempt (retries left, none left). Two checkpoints give a
cancellation before the first, between and after. The liveness run takes one
checkpoint and one fault to stay small. In JobLimits two research launches compete
for one place while a smoke launch comes between their counts, and the total
limit is reached by the mixture. Runs of one schedule share its row only, whose two
fields are written together, so one run shows what the launch and two attempts do
to each other; truthful reports are proved for any number of runs. `MaxFaults` and the `Steps` of the body are the
only bounds in the guards of these modules; `queue` and `extra` are bounded through
them.

In the later modules the bounds in guards are `LastTick`, `MaxEdits` (Digest),
`TaskIds` (ScheduleSync), `MaxEvents` (JobStream), `LinkDays` (ShareLinks), `MaxItems`
(Curation), `MaxUniverses` (Universes), `MaxKeys`, `LastHour` (Artifacts), `LimiterEnd`
(RateLimiter) and `FetchEnd` (Snapshots), and `book.even` (Rebalance, see above). Each of the
others lets the event it bounds happen as often
as its hazard needs: three slots make two windows on two days; the second id of a
periodic task is the one a repeated synchronisation could insert; two items are
enough to share a place and four events to fill two slices; two universes are a managed
one and its double; two keys and four hours let one file age while another is stored;
six ticks hold two windows. Three securities give every order with a tie; the eleven
profiles contain every reason to exclude, every missing figure and a tie in every rank.
A `top_n` of two cuts the third, is reached exactly, or is not reached.
Five trading days with four named reviews give the review of the first day, one that
moves to a later day and one out of range, and let a loser and a winner grow old
enough to be sold.

All runs disable the deadlock check: once
every job is settled and no fault is left, nothing happens.

**Fairness** (`FairSpec` in every module). A request that is being served goes on
(weak fairness of `LaunchStep`), and so does a task (`WorkerStep`); both are
straight-line code, and a body that blocks for ever is not modelled. A waiting
message is delivered (strong fairness of `Receive`) because Redis lists are first
in, first out. Nothing is assumed of cancellations or faults. In JobLimits a
request goes on (strong fairness of `RequestStep`) because PostgreSQL queues the
sessions that wait for a row lock. In ScheduledLaunch launches, tasks and notices go
on once begun, and a waiting message is taken (weak fairness of each). In JobStream the
server goes on with a connection and the client connects again (weak fairness);
connections may break for ever, but not each time before the first query (strong
fairness of `ReadJobRow`), since a stream is answered from the first second on. Nothing
is assumed of the writers. The other modules state no fairness: their properties
are safety.

**Mutants.** The `Slip...` operators in front of the actions are plausible bugs
(a count forgotten, an `except` clause that does not return, a transaction left
out). Each property is broken by one of them.

## 4. Proofs

Each theorem below holds for every value of the constants. Each comes from an
invariant that is inductive, where the property alone is not; the text says what it adds.

**Jobs** (`JobLifecycle_proofs`, `JobOutcomes_proofs`, `JobStatus_proofs`).

- `TypeInvariant`: `Spec => []TypeOK`. The type of `row` needs more than types: a
  worker about to record a retry has retries left, a worker about to save a
  checkpoint has one left, a busy worker has a job (`WorkerOK`).
- `OwnerKept`, `OneOwner`: `NoOrphan` and `SingleOwner`. They are not inductive:
  one must also know that a job whose launch has not reached the broker has no
  message and no attempt, that messages do not pile up, and that a finished job
  has no owner left (`Solo`). A worker's eleven actions enter the argument only
  through `WorkerEffect`: a step keeps the worker active on the same unfinished
  job, turns it into one message, finishes the job, or acknowledges. A worker that
  dies at work turns its attempt back into the message it came from; in any other
  second delivery the job stops being undisturbed.
- `OutcomeFinal`: `TerminalIsFinal`. Every action that writes a row belongs to an
  owner, and by `Solo` a finished job has none, except that a late cancellation
  request sets its own column.
- `CancelHeeded`, `OverrunBounded`: `CancelPreventsWork` and `CancelOverrun`. `WorkOK`
  says of a worker on an undisturbed job that the row is running while it works, so the
  check sees the request, and that a request is still in the row once it was seen late.
- `CompleteIsSucceeded`: `SucceededMeansComplete`, inductive together with ownership:
  nobody saves a checkpoint in a row that has an outcome.
- `RetriesAccounted`: `RetryAccounted`. The strengthening (`RetryOK`) is that a row that
  waits for a retry has counted at least one: the message a lost worker gave back
  carries one retry less, which might otherwise be none at all.
- `StatusImplemented`: `Spec => ImplementsStatus`, the refinement. `StartOK` says how
  often the work was started by what its owner carries: at most once for every retry
  of a waiting message and every lost worker, once more after the attempt has begun;
  and which state the row has at each step of the owner. A `Seen...` formula is an action
  of `JobStatus` for one job; one lemma for each action of the lifecycle shows which
  of them, or a stutter, a reader sees.

- `RunsBounded` (`BoundedRuns`): however often a job was delivered, with any number of
  owners at once. A run is paid for by the launch, by a retry or by a second delivery.
  `PaidInv` counts what is not yet spent as the cardinality of sets, so that no sum is
  folded: the launch that is not sent, the retries that waiting messages and busy
  attempts still carry. A step moves a share from one set to another, or spends it.

**Limits and the stream** (`Limits_proofs`).

- `LockDiscipline`, `ResearchLimitKept`: a research request that has passed the
  count holds the lock and a free place (`Room`) until its row is in the table, so
  the number of counted research jobs never exceeds the limit.
- `StreamShowsAll` (`StreamComplete`): `StreamInv` accounts for every committed event by
  where the reader is: shown, in the batch it holds, excused, or after the last id it has
  seen. A slice in the order of the ids takes the least ones, since a set of
  numbers has a least element.

**Scheduled launches** (`ScheduledLaunch_proofs`).

- `TypeInvariant` and `OutcomesAreTrue` (`OutcomeTruthful`):
  an actor reports what it read earlier, so the property is not inductive. `Truth`
  adds that the right to write a run's state is with one of the launch, its message
  and an attempt (`Sole`), hence a terminal state is final, and that every copy with
  a terminal state agrees with the row (`CopyTrue`).
- `TagIsKept` (`MetadataKept`): every save writes the whole column, so `Kept` says of
  every copy that may still be saved that it was read after the tag.
- `InTimeRunsNotify` (`InTimeIsNotified`): `Noticed` says who will tell of a run tagged in
  time: until its row is final, somebody is on the way to it; then an
  attempt is about to notify, or has, and an addressee hears as often as attempts have
  come through.

**Automation** (`Automation_proofs`).

- `NoRunLost` (`DigestLosesNoRun`): `RunOK` extends the property from the mark in the
  preferences to every copy of it that may still be saved or used, in a request and in a
  task, and to the time a task will write once it has sent its e-mails.
- `DigestOnceADay` (`OneDigestADay`): as long as no two tasks and no crash disturbed it, one
  task at most is at work, on a later day than the mark's, and every digest was mailed
  on a day up to the mark's or by the task that will save the next mark (`DailyInv`).
- `TaskFollows`, `NoTaskStrays` (`TaskFollowsSchedule`, `NoStrayTask`): `SyncInv` says which
  periodic tasks there are at each step of a request (`SyncWhole`), that a request which
  met nobody is the only one (`AloneOK`), and that the copy of one between its two
  writes agrees with the row (`Follows`).
- `AutomationTypes`: each module under its own specification, and the composition refines
  both (`PartsBehave`).

**Data of a workspace** (`WorkspaceData_proofs`).

- `RevocationFinal` (`RevocationHolds`): once a revocation is saved, what a change has in
  hand is revoked too, unless it had loaded the row before (`RequestOK`), which the next
  revocation judges anew.
- `DecisionKept` (`DecisionStands`): inductive together with the types of row and copies.
- `TraceIsLeft` (`DeletionsAreLogged`): the deletion is recorded before the row goes
  (`RequestMeant`), and a request that saves an item has a copy of that item.
- `AppendsComeLast` (`AppendedLast`): unless an item was moved, the items before one are all
  still there and are as many as its position says, also for an item that is yet to be
  inserted (`AppendInv`).
- `OneUniverseOfProfile`, `EntriesMatch` (`OneManagedUniverse`, `EntriesMatchRow`): until
  the histories named in the property have happened one sync at most is about to create
  (`SyncAlone`), and a request that patches holds a row of which everything the sync
  looks for is as in the table and in every other copy, however stale the rest is
  (`CopyInv`, `Alike`). That a list of names has no repetition follows from `Candidates`
  (`ListsDistinct`).
- `ReferencesHold` (`NoDangling`): the clean-up reads the tables one after the other, then
  lists the files. `StoreInv` says that a file that still waits for its row is younger
  than the retention time, that what may be deleted is older than the cutoff, and that
  the reference of a table already read is either kept or has changed since, to a
  young file.
- `DataTypes`: the types of all five, by the composition (`DataPartsBehave`).

**Screens, backtests and providers** (`Research_proofs`).

- `ScreensRankOnMerit` (`RankedOnMerit`): `FormulaInv` says the same of the list of each
  screen that was shown. A key of one security below another's means a better place, since the
  ranks follow the figures (products of fractions are compared), and the places that are
  given are a bijection (`PlacesTaken`).
- `BooksAlwaysBalance` (`BooksBalance`): a sum over the holdings is not something the
  provers can fold, so a market value is the number of coins in a purse, a set with one
  element for each unit of money (`ValueCounted`); buying moves coins from the cash into a
  position. `FilledSoundly` goes through the candidates one by one and carries what each
  purchase keeps (`Sound`) and that who was passed over found no price or no cash
  (`Attended`); `BooksInv` adds that the books balance in both phases of a day.
- `RateHeld` (`WindowBounded`): the deque is the tail of the calls the limiter has let
  through, and what it has dropped is older than the window (`Holds`). That the loop
  stops at the first call that still counts uses that a set of numbers has a least
  element.
- `SnapshotsHold` (`SnapshotsAccounted`): `SnapInv` says what a fetch has at each step
  (`FileMeant`), that who writes a file alone finds it under its temporary name, and that
  two who write one have met (`WritersMet`).
- `RunHoldsTogether` (`RunIsOneAttempts`). Attempts delete what they see and insert their
  own rows. `BacktestInv` says what each transaction has inserted and deleted at each of
  its steps, that two of them never hold a curve at the same time (the unique constraint
  on its dates), and that deleting the present curve is followed by deleting its
  trades; and which providers an attempt's data come from while it works.
- `ResearchTypes`: the types of all five, by the composition (`ResearchPartsBehave`).

**Assumptions.** `NoJobAssumption`, `BoundsAssumption`, `FaultsAssumption` (JobLifecycle);
`RequestsAssumption`, `LimitsAssumption` (JobLimits); `StreamAssumption` (JobStream);
`NoRunAssumption`, `StepsAssumption` (ScheduledLaunch); `DigestAssumption` (time has at least
one tick); `NoTaskAssumption`, `CronsAssumption` (ScheduleSync; there is a schedule to
choose); `LinkAssumption`, `ReviewAssumption`, `CurationAssumption` (there is something to
write), `CandidateAssumption`, `UniverseAssumption`, `RetentionAssumption` (Artifacts);
`FormulaAssumption`; `RebalanceAssumption` (finitely many tickers, integer prices);
`LimiterAssumption`; `FetchAssumption` (the mark of no file is no process);
`BacktestAssumption` (the mark of an unsaved run is no attempt). They give the
constants their kinds and keep marks apart from what they mark; TLC evaluates them in the
runs of these modules.

**Model-checked only.** Liveness: `EventuallySettled`, `EveryLaunchAnswered`,
`NeverSilent`, `ToldOfTheEnd`, since there are no rules for fairness and ENABLED here. Every
other property of a passing run is a theorem. What recursive definitions compute is
proved as far as an invariant over their steps says it, which needs no induction over
data: `Fill` and the places of the ranking by the least step at which it would fail.

## 5. Disagreements between code and documents

1. `architecture.md:562` says the task base honours cancellation requests. After
   one worker crash it may not (`cancel_after_crash`): `check_for_cancellation`
   skips terminal rows, and another attempt may just have made the row terminal.
2. A launch is answered 503 when a worker is faster than the second read of the
   row (`launch_answer`), although the job was sent and runs; the test of the view
   expects 202 after a successful dispatch.
3. `architecture.md:599` promises at most three active smoke jobs; concurrent
   launches exceed it (`limits_smoke`), since the lock ends before the insertion.
   The total limit is exceeded the same way by smoke and cache-warm launches.

4. `implementation_plan.md:313` promises a completion notification for a scheduled
   template; a task that loads its job before the launch has tagged it ends without
   one (`scheduled_notified`). Likewise `last_launch_status` may stay at `queued`,
   which the launch read before it wrote.

**Observations.** What the models show of the code where no text of the repository
says otherwise; the properties name each as an exception.

- A `PATCH` writes every column of its copy: one that overlaps takes back an approval
  (`Reviews`) or a revocation (`ShareLinks`), restores a deleted schedule with its task
  (`ScheduleSync`) or a deleted collection (`Curation`), and writes an old
  `entry_count` (`Universes`) or an old `last_digest_sent_at` (`Digest`).
- Deleting a template leaves the periodic tasks of its schedules.
- Two digest tasks at once, or a crash before the mark, mail a digest twice; a run
  committed after its window was read is in none. A digest for the owner as a user is
  skipped at delivery unless the owner has asked for digests.
- Two first syncs make two universes of one profile; a `PATCH` of the source without
  the key takes a managed universe away from its profile; an empty live profile empties it.
- A link of scope `workspace_member` opens for nobody.
- Two processes that save one ticker's snapshot share its temporary file: one of them
  loses a ticker that it had fetched, and a torn file is read as no file.
- The limiter counts neither retries nor the calls of other processes.
- `resolved_provider` stays the fallback's once it was used, though later calls are
  answered by the primary again: "fallback used" is true, "all data from it" is not.
- Provider names go through the defaults again at execution: a launch that asked for a
  fallback equal to its provider, hence for none, gets the default one.
- In the filter mode of momentum, what `top_n` cuts off is reported as filtered and
  counts towards `high_exclusion_ratio`.
- The targets of a review are the head of its ranking, not what is bought.

## 6. Plan

All modules of the plan are written. What could be added:

1. Abstract specifications for more components, of the digest and of a job's
   notifications first, with proofs that the modules implement them.
2. Two attempts of one screen: the transaction of `execute_screen_run` has the form of
   `BacktestRun`'s, but `ScreenExclusion` has no unique constraint that keeps the
   exclusions of two attempts apart.
3. The composition of `JobLifecycle` with `BacktestRun`, so that attempts come from
   redeliveries instead of being given.

Not modelled: the benchmark, drawdown and return figures of a backtest (arithmetic on
the equity curve); the parsing of the providers' figures and prices (conversion of
foreign formats); health checks and provider diagnostics (reads); accounts, the signal
that makes a default workspace and the lists of the views (one transaction or one
query of one request); metrics, logging and throttles (library code and output); the
command line (sequential); the frontend (it calls the API and shows the answers); the
deployment scripts, which are evidence of how the processes run.
