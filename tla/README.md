# HAOL in TLA+

HAOL routes a task (a prompt with metadata) to one of several LLM agents, runs it
with retries and a fallback, and records every step in Dolt, a versioned SQL
database.  It is one Node.js process: no thread runs beside another, but every
`await` lets other work in, and HTTP handlers, worker jobs, reaper sweeps and
timers interleave at those points, over a database that outlives the process.
This directory models those parts as TLA+ modules, checks them with TLC and
proves the safety properties and the refinements with TLAPS.  Source paths below are relative to
the repository root.  `PROJECT.json` records which module and configuration belong to
which run, the source lines each definition models, for every property a mutated
definition that breaks it, and the hazards: the places where this code can go wrong in
a way a unit test hardly reaches, with the properties that look there.

## Inventory

| Component | State | Operations | Talks to | Hard part | Module |
|---|---|---|---|---|---|
| task log `src/repositories/task-log.ts` | table `task_log` | one SQL statement per function | database | no writer but `claimQueued` looks at the status it replaces | `TaskLog` |
| intake `src/api/routes/tasks.ts` | none beyond the awaited request | `POST /tasks` | task log, worker | pre-flight check, INSERT and enqueue in different turns | `TaskIntake` |
| worker `src/services/task-worker.ts` | `queue`, `tracked`, `inflight`, `stopping`, drain promise | `canAccept`, `enqueue`, `pump`, `runJob`, `stop` | task log, router | lost wakeups, double enqueue, drain | `TaskWorker` |
| reaper `src/services/task-reaper.ts` | locals of each running sweep | `reapOnce`, `startReaper`, `stopReaper` | task log, worker, branch cleanup | snapshots grow old, sweeps overlap | `TaskReaper` |
| life cycle `src/index.ts` | whether it serves | boot, shutdown, exit | all | crash at any point | `TaskPipeline` |
| router `src/router/router.ts` | locals, memory-step slots | `routeTask` | classifiers, selection, execution, memory, outcomes | every awaited call may throw | `RouteSteps`, `RouteJob`, `TaskWorker`, `Dispatch`, `SessionMemory`, `Cascade` |
| agent selection `src/services/agent-selection.ts` | none | `select` | registry, policy, outcomes | relative scores, a registry that changes between two queries | `Selection` |
| execution `src/services/execution.ts` | none | `execute` with retries | providers, `execution_log` | a paid call whose record fails | `Dispatch` |
| outcome collector `src/services/outcome-collector.ts` | `task_outcome` | signals, sampled evaluation | router (not awaited) | pending records of a dead process | `Dispatch` |
| session memory `src/memory/` | session branches, merge lock | create, write, commit, prune | database branches | shared working set, timeouts that do not cancel | `SessionMemory` |
| database access `src/db/connection.ts`, `src/db/dolt.ts` | pooled sessions, each with a branch and an autocommit flag | `withConnection`, `withBranchConnection`, `doltCommit` | Dolt | what one borrower leaves behind for the next | `ConnPool`, `Dispatch`, `SessionMemory` |
| migrations `src/db/migrate.ts` | `migrations_applied` | `runMigrations` | database | DDL commits on its own: crash between DDL and record | `Migrate` |
| classifier `src/classifier/` | none | `classify` | router | stands in when the cascade throws | `CascadeLayers` |
| cascade router `src/cascade-router/` | promise of the one router, what it loaded, cached configuration | `classifyCascade`: rules, similarity, escalation, fallback; `routing_log` | embeddings, escalation provider, database | concurrent start, a start that fails, tables that change under it | `Cascade`, `CascadeLayers` |
| routing tuner `src/services/routing-tuner/` | advisory lock, `tuning_run`, the rows it inserts | `tune` | connection pool, rules, outcomes | a lock that belongs to a pooled session; check and insert apart | `Tuner` |
| rate limiting `src/api/middleware/rate-limit.ts` | bucket per client | `rateLimit` | HTTP, proxies | pruning, refill, who the client is | `RateLimit` |
| providers, HTTP routes without state, observability, CLI | none | | | text, read-only SQL, external services | none |

Interactions.  A request reaches the rate limiter, then the intake, which hands its row to
the worker; the worker runs `routeTask`, which classifies (`Cascade`), selects
(`Selection`), executes (`Dispatch`), keeps a session (`SessionMemory`) and writes
`task_log` (`TaskWorker`) on the way.  The tuner reads `routing_log` and the outcomes
that these leave, and writes the rules and utterances that the cascade router loads when the
process starts next.  The reaper goes behind all of them.  `TaskPipeline` composes
intake, worker, reaper and process over one table, `Tuner` composes tuning runs and
other borrowers over one pool, `Cascade` composes concurrent requests over one router.
`Dispatch`, `SessionMemory` and `Cascade` each look at another slice of `routeTask`; what
one leaves to another it takes as a free choice of the environment.

What holds the slices together is `task_log`.  `RouteSteps` says which statements `routeTask` makes
on the row of its task, and in what order; a job of `TaskWorker` takes exactly these.  `RouteJob` is
that job by itself, with the throws, the catch block, the death of the process and the reaper, which
fails the rows that a dead process left in flight or, with `JobsMayOutliveAge = TRUE`, the row of a
live job as well: an abstract specification of two variables, `at` and `status`.  `Dispatch`
(attempts, fallback, signals, commit) and `SessionMemory` (branches, locks, timeouts) are both
proved to implement it, so that what they add to a job shows nowhere in its row, and the short job
in the pipeline is as good as either of them.

## The asynchronous pipeline

`POST /tasks` answers 202 once a row `QUEUED` exists and the in-process worker
has taken the job.  The worker claims the row, runs `routeTask` and leaves the
row COMPLETED or FAILED.  The reaper is the safety net: at boot and on an
interval it offers every QUEUED row to the worker and fails rows stuck in flight.

| Module | Models | State | Actions |
|---|---|---|---|
| `TaskLog` | the table | `row[t]` with `status`, whether the prompt is there, whether `worker_started_at` is older than the recovery age | one operator per SQL statement |
| `RouteSteps` | the statements of `routeTask` on the row, and their order | | `RouteNext` (what may come next), `Written` (what it writes) |
| `RouteJob` | one `routeTask` as `task_log` sees it | `at`, `status` | `Move`, `Throw`, `Catch`, `Die`, `Reap` |
| `TaskWorker` | the worker and its jobs | `queue`, `tracked`, `inflight`, `slot` (running jobs), `stopping`, `drain`, `pumpDue` (a pending `setImmediate`), `turn` | `Pump`, `StartJob`, `PumpReturn`, `Claim…`, `Route…`, `WorkerError`, `Finish`, `Stop`, `GraceExpires` |
| `TaskIntake` | the POST handler | `client[t]`: the await it is at, then the answer | `Post`, `Insert`, `HandOver`, `Refuse` |
| `TaskReaper` | `reapOnce` | `sweep[w]`: the local variables of each running sweep | `SweepStart`, `SweepPage`, `SweepRow`, `SweepBlank`, `SweepPageEnd`, `SweepFindStale`, `SweepMarkStale`, `SweepStaleDone`, `SweepPurge` |
| `TaskPipeline` | the composition and the process | `proc`, `restarts` | `Boot`, `Serve`, `Tick`, `Shutdown`, `ServerClosed`, `Exit`, `Crash`, `Age` |
| `TaskBoard` | the abstract specification | `phase[t]`, `verdict[t]`, `held` | `Post`, `Begin`, `Withdraw`, `End`, each under `Judged` |
| `MCTaskPipeline` | constants and symmetry for TLC | | |
| `TaskPipelineProofs` | the proofs | | |

**Turns.**  A step is what the code does between two awaits.  `turn` names the
synchronous loop that holds the thread when that loop takes several steps (the
`while` of `pump`, the `for` of a sweep's page); every other continuation needs
`turn = "idle"`.  An awaited statement and its continuation are one step: the
effect on the row, then the next statement issued.

**Failures.**  Any awaited statement may throw (`Fault`), applied or not: the
connection can be lost after the UPDATE.  `NoAgent` is the exception of
`select()` when no agent qualifies.  `Crash` can happen in every state; a second
signal during a shutdown (`process.exit(1)`) is a crash as well.

**Weak isolation.**  `SerializableClaim = FALSE` splits the conditional UPDATE of
`claimQueued` into a read and a write, so that two claims of one row may both
succeed.  `src/services/task-worker.ts:33-37` says that the set of tracked ids is
what protects against this; `AtMostOneRun` is checked and proved for both.

**Abstractions.**  Ids are numbered in `created_at` order.  `started` is always
true once the process has booted.  The error texts are not kept.  The branch
pruning of the sweep is in `SessionMemory`; the
purge, a series of batches, is one step that clears the prompts of any prefix of
the oldest rows, and an error of it is the empty prefix.  The purge of
`input_text` only deletes text.  `Promise` chunks that fail the stale rows are
modelled as one row at a time in any order.  `routeTask`'s input check is outside
its `try`, hence `RouteThrows`; it counts as a fault because the handler has
validated the same input.  Providers, retries and memory steps write no column of
`task_log`.  A statement in flight when the process dies is either done or
not; it does not land after the restart.  `Age` lets `worker_started_at` fall
behind the recovery age at any time; with `JobsMayOutliveAge = FALSE` only for rows
without a live job (see *What the model assumes*).

### Runs

| Run | Question | Instance |
|---|---|---|
| `race` | do handler, pump and two overlapping sweeps keep `queue`, `tracked` and the jobs consistent (`TrackedIsExact`), is a task run at most once although claims are not serialized (`AtMostOneRun`), is no wakeup lost (`NoLostWakeup`), does every row have an owner until something fails (`RowsAreOwned`), does the boot sweep recover what is QUEUED (`BootRecoversQueued`), does the reaper leave live jobs alone (`ReapsOnlyOrphans`)? | 2 tasks, 2 sweeps, concurrency 1, depth 1, page size 1, one crash or shutdown and restart |
| `live` | does the pipeline implement `TaskBoard` (`ImplementsBoard`), does every row become and stay terminal (`Settles`) and does every shutdown end (`ShutdownEnds`), even when a job outlives the recovery age? | 1 task, one fault, one restart, fairness |
| `refused` | counterexample, see *Divergences* | 1 task |

Why the bounds are enough: the hazards are about one task in several hands
(handler, one or two sweeps, job), which needs one task, two sweeps and a spare
slot; about the limit of the queue, which two tasks reach at depth 1, because a job
leaves the queue only when the pump gets its turn; and about the end of a page,
which `PageSize = 1` makes every page.  One restart is enough for a boot sweep over rows
of every age.  What more tasks, jobs, failures and restarts would add to `race` is what
the theorems below cover: every property of `race` is proved for every value of every
constant.  Bounds are `NumTasks`, `MaxFaults` and `MaxRestarts` (crashes and shutdowns
together); nothing else is capped.  The symmetry sets are the slots and the sweeps, and
only runs without a temporal property use them.  Deadlock is checked: the supervisor
restarts the process and the reaper ticks for ever.

**Fairness.**  Node's event loop is first in, first out: a continuation that is
ready gets its turn, however many others become ready.  A step that needs
`turn = "idle"` is enabled again and again rather than all the time, so these
steps (jobs, handlers, sweeps, pump) have strong fairness.  Boot, serve, close,
exit and the grace timer have weak fairness: they stay enabled until they happen.
`Age` has it because time passes.  Nothing obliges a client to post, a
statement to fail, the process to crash or a signal to arrive.

`race` and `live` find the queue discipline right under every interleaving on these
instances: no double enqueue, no lost wakeup, no leaked id, no row without an owner
before something failed, and no row left open when the reaper may keep working.
`TaskBoard` is what a client sees of it.  A task is opened, begun at most once or withdrawn,
ended, and never reopened.  A poller reads no verdict before the task was begun or withdrawn;
a success it has read can only turn into a failure; and once the task is closed, only a
failure can still be reported, by somebody who had the task in hand when it closed.

### What the pipeline model assumes

`ReapsOnlyOrphans` assumes that no job outlives the recovery age.  That age is a setting of its own,
`WORKER_RECOVERY_AGE_MS`, 10 minutes by default; a value below the floor of 300 s falls back to
the default (`src/services/task-reaper.ts:42-54`).  Nothing derives it from the timeouts of the
providers, so attempts, back-offs and a fallback for the highest tier can take longer, and
the UPDATE that fails a stale row does not ask whether its job lives.  `JobsMayOutliveAge`
says which of the two worlds a module is in:

* `TaskPipeline`: `race` has it `FALSE`, which `ReapsOnlyOrphans` needs.  `live` has it `TRUE`,
  when the row of a live job may be failed under it, and finds that the task is not begun
  again and ends.  `AtMostOneRun` and `BoardImplemented` are proved for both.
* `SessionMemory`: `PruneSparesActive` needs it `FALSE` (a row failed under a live job no longer
  protects that job's branch).  `memory` has it `FALSE`, `memory_live` `TRUE`; the other
  properties and `JobsImplemented` are proved for both.
* `Dispatch` has no reaper in it, and implements `RouteJob` with the constant `FALSE`.

## Migrations

`npm run migrate` executes, in order, the files that `migrations_applied` does not
list, statement by statement, and lists each one with its SHA-256.  DDL commits by
itself, so that a run can end anywhere and the next one must pick up from there.

| Module | Models | State | Actions |
|---|---|---|---|
| `Migrate` | `runMigrations` and the directory | `disk[f]`, `done[f]` (statements in the schema), `tracked[f]`, `run` (the local variables) | `Begin`, `LoadAppliedRows`, `CheckLegacy`, `Backfill`, `VisitFile`, `Rehash`, `ExecStatement`, `Record`, `AllVisited`, `Return`; `Fail`; `AddFile`, `EditFile`, `RemoveFile` between two runs |
| `MCMigrate` | constants for TLC | | |
| `MigrateProofs` | the proofs | | |

A version of a file stands for its hash.  An edit changes the hash and not the
statements: the code compares hashes only.  `Plain` are the statements that fail
when executed again (`ADD COLUMN`, `CREATE INDEX`); the others say `IF NOT EXISTS`.  How a
file is split into statements is left out.  Two runs do not overlap: the
command is started by hand or by a deployment, and nothing in it locks.

| Run | Question | Instance |
|---|---|---|
| `migrate` | is what is recorded applied, at its present hash (`RecordedIsApplied`, `SuccessIsConsistent`), is a recorded file left alone (`HashIsPinned`), and does the schema catch up with the directory, or every run report drift (`Converges`)? | 4 files of 2 statements, 2 versions, 2 failures, databases empty, with 1 or with 3 files from before the tracking |

Two statements are enough for a crash inside a file; three files in an old database
and a fourth to come let the backfill stamp several rows before the loop runs again; two
failures let recovery itself be interrupted.  Fairness (`FairSpec`) is weak on
`Begin`, because whoever deploys runs the command again, and on the steps of a run,
because its calls return.

Two constants exclude known defects from the run, so that it checks everything else.
With `UpgradeAddsFiles = TRUE` an old database meets files it has never applied, and the
backfill lists them all.  With `FirstFileFails = TRUE` a run may end after 001's first
table and before its row; the next run takes the empty `migrations_applied` and the table
for a legacy database and lists every file unexecuted.  TLC refutes `RecordedIsApplied`
under either (*Divergences*).

## Session memory

A task keeps its context on a Dolt branch of its own, opened, written and merged by
best-effort steps of `routeTask`.  A step has a slot, a budget and a timer; when the
timer wins, the step goes on in the background.  The reaper prunes old branches.

| Module | Models | State | Actions |
|---|---|---|---|
| `SessionMemory` | `bestEffortMemory`, `SessionManager`, `pruneSessionBranches`, and as much of `routeTask` as orders them | `step[t]`, `status[t]`, `won`, `session`; `op[o]` (running operations), `inflight`, `lock`; `branches`, `content[t]`, `main[t]`; `prune`; `acked[t]` | `StartMemory`, `SkipMemory`, `Timeout`; `CreateBranch`, `CheckoutBranch`, `WriteContext`, `AcquireLock`, `Flush`, `Merge`, `DeleteMerged`, `DiscardSession`; `ListBranches`, `ActiveGuard`, `PruneOne`, `PruneDone`; `Classify` … `Catch`, `FailStranded`, `Crash` |
| `MCSessionMemory` | constants and symmetry for TLC | | |
| `SessionMemoryProofs` | the proofs | | |

Each step of an operation is one call to Dolt, and each call may fail, applied or not. A key stands
for the context of a routing stage; `Budgeted` bounds which of them the budget leaves time for.
`GET_LOCK` is freed when its connection closes, hence by a crash, and may time out at any time,
whoever holds the lock.  `flush` finds nothing to commit because no code writes the memory tables on
`main`.  `merge` meets no conflict, and its branch for one is left out: a session writes only rows
with its own `task_id`.  `status[t]` goes through the statuses that `routeTask` writes between the
memory steps (`Statement`), and `FailStranded` is the reaper, which fails rows that a crash left in
flight and, with `JobsMayOutliveAge`, any row at any time.  `RELEASE_LOCK` frees the lock.  Should
it fail on a connection that lives on, which `session-manager.ts:68-75` swallows, every later
`commitSession` finds `GET_LOCK` timing out until that connection ends; they may time out here in
any case, so what is lost is a merge and no property but `LockMatchesSection` speaks of the lock.
(`Tuner` has such a leak as a state of its own.)  A branch without a commit of its own is as old as
the commit it starts from, so `Old` holds of it at any time. `DOLT_BRANCH('-d')` refuses a branch
that is not merged: this is Dolt's rule, not this repository's code, and the tests remove such
branches with `'-D'` (`tests/router/router.test.ts:130`).

| Run | Question | Instance |
|---|---|---|
| `memory` | are slots counted and capped (`SlotsAreExact`), does the lock cover exactly the merge (`LockMatchesSection`), does no reported write get lost (`NothingLost`), does a failed task stay off `main` (`FailedStaysOff`), does pruning spare live rows (`PruneSparesActive`)? | 2 tasks, 3 operations, 2 slots, one crash, one kind of write, no live job reaped |
| `memory_live` | does every task end even if Dolt never answers (`NeverBlocksTask`)? | 2 tasks, 1 slot, live jobs reaped, fairness |

Two tasks contend for the slots and the lock.  Three names for operations with two slots
let a counting error start one too many.  Symmetry of tasks and operations is used
by the run without a temporal property over them; `PruneSparesActive` is an action
property and symmetric.  Fairness is weak on the steps of `routeTask` outside Dolt's
memory operations and on the timers, which Node fires; nothing obliges Dolt to answer.

## Selection, execution and commit

`Dispatch` follows one task from the choice of an agent to the Dolt commit.

| Module | Models | State | Actions |
|---|---|---|---|
| `Dispatch` | `routeTask` after classification, `execute`, `tryFallbackAgent`, `collectStructuralSignals`, `evaluateRoutingDecision`, `doltCommit` | `step`, `selection` (ranking and policy), `exec` (locals of `execute`), `records`; `row`, `log`, `signals`, `verdict`; `dirty` (tables with rows not in HEAD); `evaluation`; `calls`, `thrown` (histories) | `Select`, `SelectFails`, `FindAgent`, `Invoke`, `RecordSuccess`, `RecordFailure`, `TryFallback`, `InsertSynthetic`, `WriteTerminal`, `CollectSignals`, `RouterCommit`, `Catch`, `CatchCommitFails`; `StartEvaluation`, `FinishEvaluation`, `FailEvaluation`, `CommitEvaluation`, `Cleanup`; `OtherCommit`, `Crash` |
| `MCDispatch` | constants for TLC | | |
| `DispatchProofs` | the proofs | | |

Other tasks touch this one only by committing the working set that all connections share
(`OtherCommit`), so one task is enough.  Every awaited call may throw, its statement applied or not.
The ranking, the policy (retries and fallback strategy) and the tier-up ranking are chosen by the
environment; how `select` ranks is in `Selection`.  Tokens, cost and latency appear only as the
signal `limit_exceeded`.  The back-off takes no time.  `JobAt` maps a step of `Dispatch` to the
stage of the abstract job.  Format checks (tier 1) and reports of later outcomes (tier 3) insert
rows of their own and are left out.

| Run | Question | Instance |
|---|---|---|
| `dispatch` | is a completed task backed by a logged successful call of the agent its row names (`CompletedIsBacked`), do the calls follow the policy (`CallsFollowPolicy`), does the log tell the truth (`LogIsTruthful`), do the signals agree with it (`SignalsMatchLog`), do the rows reach HEAD (`RowsAreCommitted`), is a verdict final (`VerdictIsFinal`), is the row written as `RouteJob` has it (`ImplementsJob`)? | 2 agents, up to one retry |

Two agents are the smallest registry with a fallback and one retry the smallest with
a last attempt that is not the first.  The run has the process die or the task end, so
deadlock is not checked.

## Selection

`Selection` follows one `select()` while agents are registered, changed and disabled between its
queries.  `registry` is the table; `pc`, `task`, `policy`, `candidates`, `outcome`, `fallback` and
`ranked` are its locals; `everFit` and `dearth` are histories of who could take the task at some
moment since it began.  Actions: `Begin`, `LoadPolicy`, `Filter`, `LoadOutcomes`, `Rank`,
`FilterAgain`, and `Change` of the registry.  The queries of the policy and of the filters may
throw, out of `select` (`pc` is then `"failed"`); that of the outcomes is made at best effort.
`SelectionProofs` holds the proofs.

The code computes in doubles, and the module keeps what that does to the order.  An estimate is a
number of its own (`Estimate`), within one unit of what the prices say: the branch for equal
costs (`costRange === 0`) is taken on estimates, and misses equal prices whose sums differ in the
last bit (*Divergences*).  A score is rounded down to `1/Precision`, which, like a double, keeps
the order of what it rounds and may lose a difference; it is coarser than a double, which
makes the loss occur.

| Run | Question | Instance |
|---|---|---|
| `selection` | is nobody ranked above an agent that is as good in everything that counts, except where the scores cannot tell them apart (`NobodyIsOvertaken`), and was each result, fallback or refusal right at some moment of the call (`SelectionIsJustified`)? | 3 agents, 6 kinds of row, 3 tasks, 3 policies, 2 changes |

`NobodyIsOvertaken` compares agents by the numbers the code computes from their rows.  An agent
that is no worse in any of them is ranked below another only if it has the greater id and is
better by less than one unit of a score in each that has a weight.

The rows lie on both sides of each limit (inactive, too low a tier, a price above the
ceiling and within the relaxed one), and two of them have one price in different parts and estimates a
unit apart; the policies have each fallback and leave a criterion out.  One candidate, equal
estimates and no further capabilities, for which the formulas have branches of their own, all occur.
`SelectionIsJustified` does not say that
the result is right when it is returned: the registry may have changed, and nothing
checks again.  `TIER_UP` for a task of tier 4 asks the same query twice.

## Rate limiting

`RateLimit` models one process: `buckets` by key, `lastPrune`, the clock `now`, the
environment `config`; `admitted` keeps what the code forgets, the time of each
admission, by account.  `Handle` is the middleware, `Start` the check of the environment in
`createApp`, `Tick` the clock.

*Requests.*  `Proxies` proxies stand before the server.  A request has passed any number of them:
all, none when its client reached the server directly, or the inner ones only.  Whichever way it
came, it may bring any header along (`Present`), to which each proxy it passes appends an entry, and
its socket may be closed when the handler asks for the peer.  The setting may be unset, invalid or
any number, right or wrong: production refuses the first two and nothing else.

*Accounts.*  The code believes the entry that is `hops` from the right of the header, and cannot
know who wrote it.  A request that came as configured (`AsConfigured`: through exactly `hops`
proxies, or directly with a header too short to be believed) is charged to its client.  Any other is
charged to the address its header or its peer names.  `WithinRate` and `RefusedIsDue` are about
these accounts.  For a *client* they promise its rate only as far as its requests come as
configured: with a number of hops that is too high, or a server that can be reached around its
proxies, the entry counted is one the client wrote, each new name has a bucket of its own, and a
name may be another client's.  That is how the code has it (`rate-limit.ts:128-137`); its deployment
has to see that `hops` is right and the proxies are the only way in.

*Units.*  The code's tokens are doubles.  Here a token is `Window * Grain` units, so that what a refill
should add is a whole number, and a refill may be off by up to `Rounding` units either way, without
taking away.  A reference that knows every admission bounds the code from both sides, at
a rate higher, and lower, by one rounding error in each tick.  The lower one is
needed: at 120 requests per 60 000 ms a drained bucket that is asked every 50 ms holds, after
ten refills of 0.1, 0.9999999999999999 tokens, and the request at 500 ms, at which
a token is due exactly, is refused.

| Run | Question | Instance |
|---|---|---|
| `limit` | is an account admitted as often as a reference that remembers every admission would admit it, up to the rounding of the refills (`WithinRate`, `RefusedIsDue`)? | 2 clients, 2 proxies, hops unset, invalid and 0 to 3, per-client and shared buckets, limit 3 per window 2, `Grain` 2, `Rounding` 1, pruning every 3, clock to 5, 5 admissions |

The limit does not divide the window, so a refill leaves fractions; a rounding of a quarter of a
token is far larger than the code's, and lets two refills tip a decision.  The horizon
is two and a half windows, so that a bucket goes idle, is pruned and comes back.  The law
is `limit + rate * time`: a bucket may be emptied and refilled in one window, which
admits up to twice "limit per window".  Replicas with buckets of their own are not modelled, and
the clock does not go back.

## Cascade router

`CascadeLayers` holds the layers as operators over one prompt; a prompt is what they read
of it: the rules that match, the score against each utterance, the capabilities the
built-in patterns see.  `Cascade` is the process.

| State | In the code |
|---|---|
| `enabled`, `dims`, `conf` | the tables of rules, of utterances with the length of their vectors (0: pending), and of configuration |
| `promise`, `init[r]`, `cache` | `instancePromise`, the `initCascadeRouter` that request `r` started and what it loaded, `cachedConfig` |
| `req[q]` | where the request is: at the promise, waiting, embedding, escalating, logging, done |
| `log` | rows of `routing_log` |
| `failed` | history: who met a failure |

Actions of a start: `InitRules`, `InitEmbeds`, `InitConfig`, `Load`, `LoadTiers`, each
with its failing query; of a request: `Arrive`, `GetInstance`, `AwaitRejected`,
`Classify`, `Embed`, `Escalate`, `LogDecision`; around them `SwitchRule`, `Configure`,
`SeedEmbeddings`, `Expire` (the cache) and `Restart`.  A rejected start clears the
promise, so that the next request tries again.  That a regular expression matches, and
what vectors are similar, are inputs.

| Run | Question | Instance |
|---|---|---|
| `cascade` | is one router made however many ask (`OneRouter`), is only a request that met a failure classified by the stand-in (`LegacyIsExcused`), does `routing_log` say what the task was answered (`LogAgrees`), is every trace complete (`TraceIsComplete`)? | 2 requests, 4 prompts, 3 rules, 2 utterances, 3 configurations, one change, one mishap |

The prompts are one for each way to be resolved (the caller's tier, a rule, a clear vote,
a vote below the threshold); one of the rules is unsafe and skipped; the configurations
switch escalation and ask for other dimensions than the script seeds.  Two requests
are enough to race for the start, and to have one wait on the other's.

Notes.  A router reads the tables once: a rule the tuner adds takes effect at the next
start.  `escalation_threshold` is loaded and not used.  With negative scores among the
neighbours the winner's share may exceed 1.  The trace status `error` cannot arise
with `AnthropicEscalationProvider`, which returns null instead of throwing.

## Connection pool and routing tuner

`ConnPool` models sessions that are handed out and given back with whatever branch and
autocommit flag they have.  `conn[c]` says who has the session, in what state it really is
(`off`, `manual`) and what `branchConnState` has noted of it; `OpBegin`, `OpWork`, `OpEnd` are
`withBranchConnection`.  `Tuner` extends it with runs of `tune()`: `pc` and `run` are
its locals, `lock` is `GET_LOCK("haol_tuner")`, `tuning` the rows of `tuning_run`,
`rules` and `utterances` what runs insert.  Every `POST /tune` may start a run:
`Start`, `Connect`, `GetLock`, `FindStale`, `MarkStale`, `InsertRun`, `Read`, `Existing`,
`NextTier`, `Crystallize`, `TiersDone`, `ReadFallbacks`, `KnownTexts`, `Promote`,
`PromoteDone`, `Finalize`, `Commit`, `RecordFailure`, `Unlock`; a dry run takes no lock
and no row.  Around them `PurgeTexts` (retention), `Disable` (an operator), `Age`,
`Lose` (a session ends, and the server frees its locks) and `Crash`.  Each write of a
run may fail, done or not.

| Run | Question | Instance |
|---|---|---|
| `tuner` | is the lock where the code believes it is (`LockIsExact`), is nothing stored twice (`NoDuplicates`), does the record count what was written (`RecordsAreTrue`), does the clean-up fail only runs that are over (`StaleIsOver`)? | 2 runs, 4 prompts, 2 connections, 2 mishaps |
| `pool` | do connections come back clean (`PoolIsClean`), and does every run that was started end (`RunsEnd`)? | 2 runs and a `withBranchConnection`, 2 connections, one mishap, fairness |

Two runs are enough to overlap; two prompts with a common word make a rule, two with one text
make a duplicate among the utterances, and two mishaps let a recovery go
wrong as well.  Fairness: a run's calls return (`RunStep` is strongly fair, because it
may have to wait for a connection and mysql2 serves the waiting first come, first
served), and a callback of `withBranchConnection` ends.

What the model assumes: the histories `leaked`, `dropped` and `spoiled` name three
failures after which a promise does not hold.  `leaked`: `RELEASE_LOCK` failed on a
session that lives, which goes back to the pool with the lock, and no other session can tune
until it ends.  `dropped`: the session of a run's lock was lost; the run does not notice and
a second one may overlap with it.  `spoiled`: a reset failed, which
`connection.ts:212-229` swallows and then records as done.  With a pool of a single
connection a run would wait for ever for a second one; the instances have two.

## Divergences

Where a comment, a doc or a test says something else than the code does.  The first is a
run of its own, with the code's counterexample; the others were met while modelling and are
excluded or tolerated by the modules in the way described.

* **A refused request may run** (run `refused`).  A sweep can page a fresh row between the
  handler's INSERT and its `enqueue`.  The sweep enqueues it; the handler gets
  `duplicate`, which `src/api/routes/tasks.ts:46` treats as a refusal: it overwrites the
  row with FAILED and answers 503, while the job goes on to claim, run and pay if the
  claim came first.  The comment at `tasks.ts:50-52` says this must not happen.
* **COMPLETED is overwritten with FAILED.**  `routeTask` writes COMPLETED and goes on
  (`routerCommit`).  An exception after that write reaches the catch block, whose
  `markFailed` (`router.ts:429`) does not look at the status it replaces, against
  `README.md:908` and `docs/architecture-plan.md:90`.  The pipeline's properties speak of
  terminal rows for this reason.
* **An upgrade stamps 019 and 020 unexecuted.**  `CHANGELOG.md:78` tells users of 0.5.x to
  run the migration command; the backfill (`migrate.ts:218-227`) records every file of
  the directory.  `UpgradeAddsFiles` excludes it.
* **A crash inside the first migration** leaves the sign of a legacy database
  (`migrate.ts:218`), against the comment at `migrate.ts:263-269`.  `FirstFileFails`
  excludes it.
* **The branches of failed sessions stay.**  `CHANGELOG.md:55` and `router.ts:352-354`
  promise that they are pruned; their contexts are not on `main`, and
  `DOLT_BRANCH('-d')` (`dolt.ts:79-82`) refuses to delete them.  `SessionMemory` has it so,
  which is what `NothingLost` rests on.
* **A paid call without tokens.**  When `insertExecution` throws (`execution.ts:62-89`) the
  call is logged as a failure with no tokens and no cost, against
  `docs/architecture-plan.md:51`, and is made again.  `LogIsTruthful` allows this row.
* **A task without a commit of its own.**  Another task's commit may take its rows
  (`OtherCommit`), against "Every completed task lifecycle produces a Dolt commit"
  (`docs/architecture-plan.md:144`).
* **Pending evaluations are never swept.**  `task-outcome.ts:171-179` speaks of a scheduled
  clean-up; only an operator's command runs it (`Cleanup`, without fairness).
* **A failed embedding call is not absorbed by the cascade.**  `README.md` ("Graceful
  Degradation", line 219) says that it falls to the next layer; it throws out of
  `classify`, as does a mismatch of dimensions, and `routeTask` uses the legacy
  classifier.  Hence `LegacyIsExcused` counts it among the failures.  The seeding script asks
  for 512 dimensions whatever the configuration says, which is one way to get the mismatch.
* **`INSERT IGNORE` refuses nothing.**  The comment at
  `src/services/routing-tuner/orchestrator.ts:84-85` relies on unique keys; the only key
  of both tables is a fresh id.  What prevents duplicates is the lock and the queries made
  under it (`NoDuplicates`).  A rule that an operator disabled is crystallised again.
* **A long window meets deleted prompts.**  Retention sets `input_text` to NULL; a
  window that reaches back further makes the run throw, possibly after it has
  inserted rows (`Read`, `Throw`); its row then says 0 rules, which a comment
  acknowledges, so `RecordsAreTrue` speaks of completed runs.
* **A failed reset is recorded as done.**  `connection.ts:212-229` swallows the error of a
  reset, as its comment says, and notes the session as clean all the same, so that the next
  borrower skips the reset it would need.  `PoolIsClean` excepts these sessions (`spoiled`).
* **Equal prices may count as different.**  `costRange === 0` (`agent-selection.ts:68`, `:88`)
  compares estimates in doubles.  Prices of 0.1 and 0.4 give 0.30000000000000004, prices of 0.3 and 0
  give 0.3; between two such agents one has the whole cost score and the other none,
  and a faster agent of the same price may be ranked below.  `Estimate` has it so,
  and `NobodyIsOvertaken` promises nothing for equal prices, only for estimates that are no higher.

## What is proved

Everything here holds for every value of the constants, under the named assumptions of the
modules (`TaskAssumption`, `RateAssumption`, `TunerAssumption`, ...), which TLC evaluates
in the runs.  Each proof module has the same layout: an inductive invariant in named parts,
one lemma per action or group of actions, and the theorems at the end.

### Pipeline: `TaskPipelineProofs`

For every number of tasks, slots and sweeps, every page size, depth,
concurrency and number of faults and restarts:

| Theorem | States |
|---|---|
| `TypeCorrect` | `Spec => []TypeOK` |
| `NoLostWakeupHolds` | `Spec => []NoLostWakeup` |
| `TrackedIsExactHolds` | `Spec => []TrackedIsExact` |
| `AtMostOneRunHolds` | `Spec => []AtMostOneRun` |
| `BoardImplemented` | `Spec => ImplementsBoard`, assuming `SerializableClaim` |
| `ReapsOnlyOrphansHolds` | `Spec => []ReapsOnlyOrphans` |
| `RowsAreOwnedHolds`, `BootRecoversQueuedHolds` | `Spec => []RowsAreOwned`, `Spec => []BootRecoversQueued` |

The assumptions are the named ones of the modules (`TaskAssumption`,
`WorkerAssumption`, `PipelineAssumption`, ...): sizes are positive, flags are
Boolean, and no sweep is called `"idle"` or `"pump"`.  TLC evaluates them in every
run.

*The argument.*  The two halves of `TrackedIsExact`, no task twice (`OneJobPerTask`) and no id
too many or too few, are inductive only together: `enqueue` refuses an id because it is in
`tracked`, and `Finish` may remove an id because no other job holds it.  `OwnInv` says it
element by element.
`AtMostOneRun` is not inductive: nothing in `runs[t] <= 1` forbids a second claim of
a row that is QUEUED.  What forbids it is that a row never becomes QUEUED again.
The INSERT is the only statement that writes QUEUED; it happens in a handler, and a
task has one handler.  `KnownInv` says that a task the handler has not inserted yet
is in no queue, no job and no page of a sweep, `RunsInv` that a task which has run is
not QUEUED, and that a job whose claim has read QUEUED and not yet written has a task
that has not run.  That job has the task to itself by `OwnInv`, which is what makes the
proof hold without serializable claims: the process-wide set does the work.
`Forward` says that a step makes no row appear, disappear or go back to QUEUED; one
lemma shows it of every statement but the INSERT and the claim, and the proof of
each action cites that lemma rather than the statements' definitions.

`BoardImplemented` maps a task to the board by its row and by whether a job is routing it
(`BoardPhase`), and shows that a step moves one task along the board, or, when the process
ends, closes all that were running.  It assumes `SerializableClaim`.  Without it the
statement is false: a claim may have read QUEUED before the handler or a sweep fails the row,
and then begins a closed task (`NoSplitClaim` excludes that).  `AtMostOneRun` needs no such
assumption.  The verdicts are the harder part.  `LiveInv` says that the row of a job which has not
reached its terminal statement does not read COMPLETED, hence a success is the job's own
and comes once.  `Kept` says `Judged` in the pipeline's terms, of the row and of whoever holds
the task (`KeptIsJudged`); it is shown of the sweeps, the handlers and the jobs apart
(`SweepKeeps`, `HandlerKeeps`, `JobKeeps`): a sweep or a handler writes a failure only over a row
it has read or inserted, a job only after its claim.

`ReapsOnlyOrphans` is about ids read in one turn and used in later ones.  That a stale row
has no job (`Age` and the claim, which clears the age) is not enough; `OrphanInv` adds that an
id a sweep holds is neither QUEUED nor being claimed, and that a row being claimed is not in
flight, hence not among the ids the next sweep reads.

The last two are about a run without errors.  `SettledInv` says that a job which leaves
`routeTask` leaves a terminal row, and gives up its place in `tracked` only for a row that is
not QUEUED (`JobSettles`); `OwnedInv` is then inductive.  `BootInv` follows the paging:
a sweep has passed on every QUEUED row up to its cursor that is not in its page (`PassedOn`),
for a page is a prefix of the rows behind the cursor and a short page is all of them
(`PageIsPrefix`).  `PhaseInv` is why nothing is inserted behind its back: before the
process serves, there is no handler.

### Migrations: `MigrateProofs`

For every number of files, statements, versions and failures, and every `Plain`,
`Tolerated` and `Legacy`:

| Theorem | States |
|---|---|
| `MigrateTypeCorrect` | `Spec => []TypeOK` |
| `SuccessIsConsistentHolds` | `Spec => []SuccessIsConsistent` |
| `HashIsPinnedHolds` | `Spec => HashIsPinned` |
| `RecordedIsAppliedHolds` | `Spec => []RecordedIsApplied`, assuming neither `FirstFileFails` nor `UpgradeAddsFiles` |

*The argument.*  `RunInv` relates the run to the table it read once: where the loop has
not been, its snapshot still equals the table, for the run is the only writer
(`SnapshotInv`); where it has been, table and directory agree (`VisitedInv`); and the
file it works on is unrecorded or has a tolerated edit (`FileInv`).  Together they
give `SuccessIsConsistent` and `HashIsPinned`: a file is skipped, re-hashed or executed
because of the snapshot, and the snapshot is right for it.  `RecordedIsApplied` needs more, since a
row may be written by the loop or by the backfill.  `AppliedInv` says of the loop that
the statements before `stmt` are done, and of the backfill that an old database
has applied every file it finds; this second part is what the two defects break, hence
the two assumptions.

### Session memory: `SessionMemoryProofs`

For every number of tasks, operations and crashes, every cap and every set of keys the
budget leaves time for, whether or not live jobs are reaped, assuming that the cap is positive and
that the tasks and the names of operations are finite sets:

| Theorem | States |
|---|---|
| `MemoryTypeCorrect` | `Spec => []TypeOK` |
| `SlotsAreExactHolds`, `LockMatchesSectionHolds` | `Spec => []SlotsAreExact`, `Spec => []LockMatchesSection` |
| `NothingLostHolds`, `FailedStaysOffHolds` | `Spec => []NothingLost`, `Spec => []FailedStaysOff` |
| `PruneSparesActiveHolds` | `Spec => PruneSparesActive` |
| `JobsImplemented` | `Spec => \A t \in Task : Job(t)!Spec`, where `Job(t)` is `RouteJob` for `t` |

*The argument.*  `CoreInv` says what an operation does by where it stands (`OpInv`) and
that `routeTask` stands at the step whose operation it awaits, one at a time
(`AwaitInv`).  Without the latter an operation left behind by a timeout could, when it
settles, move `routeTask` on from another step, or have it believe in a write that
never happened.  `SlotsAreExact` belongs to it, since the counter must not go below
zero.  On top of it each property stands alone.  No step takes a key away from
`Kept(t)`, what `main` and the branch of `t` hold together (`KeepsAll`), and a key is
reported done only by the operation that put it there (`AcksKept`): this is
`NothingLost`.  An operation past `GET_LOCK` has a task that won: this is
`FailedStaysOff`.  `PruneSparesActive` excepts the world in which live jobs are reaped, and in the other
one a row that is terminal stays terminal (`TerminalStays`), so what the
guard of the pruning saw is still true when it deletes: this is `PruneSparesActive`.  It rests on
`StageInv`, that the row of a task is as far as its `routeTask`: a task with a terminal row is past the
statements that would reopen it, whichever memory step it waits for.

`JobsImplemented` is a refinement for each task by itself.  A step of `routeTask` on a row is a `Move`,
a `Throw` or a `Catch` of its job (`RouteEffect`), the reaper's is a `Reap`, and every other step leaves
the row alone and moves `routeTask` only along memory steps, or kills it (`MemoryEffect`), which the job
does not see.  It holds in both worlds: where a job stands behind its terminal statement, is known
from the task having won (`WonInv`) and not from a row that the reaper may have failed
meanwhile.  TLC cannot check this formula as it stands, a quantified temporal formula; its
step form, `[][\A t \in Task : [Job(t)!Next]_(Job(t)!job)]_vars`, holds on the instances of both runs.

### Rate limiting: `RateLimitProofs`

| Theorem | States |
|---|---|
| `WithinRateHolds`, `RefusedIsDueHolds` | `Spec => []WithinRate`, `Spec => []RefusedIsDue` |

For any limit, window, pruning interval, number of clients and proxies, any headers, any setting of
`hops` that the server starts with, and any rounding.

*The argument.*  A request is charged to its account (`KeyIsAccount`): if it came as configured, the
entry that counts is the one the outermost trusted proxy wrote, and that is its client.  `Ledger`
ties the bucket to the history the code does not keep: the level of an account's bucket lies between
two levels, one for each rate, each of which is the least, over all its admissions, of a full bucket
plus what has flowed in since and minus what was taken since, or a full bucket (`Exact`). A refill
adds no more than flows in at the higher rate and no less than at the lower (`RefillFills`), which
keeps this (`FillIsExact`); a pruned bucket would have been full (`PrunedIsFull`), a token taken
keeps it (`TakeIsExact`), and a refusal means that the reference at the lower rate refuses
(`RefusalIsDue`).

### Cascade router: `CascadeProofs`

| Theorem | States |
|---|---|
| `OneRouterHolds`, `LegacyIsExcusedHolds` | `Spec => []OneRouter`, `Spec => []LegacyIsExcused` |
| `LogAgreesHolds`, `TraceIsCompleteHolds` | `Spec => []LogAgrees`, `Spec => []TraceIsComplete` |

For any number of requests, prompts, rules, utterances, configurations, changes and mishaps.

*The argument.*  The invariant has a part per property.  `RouterInv`: a start that has not
failed is the one the promise holds, so there is one.  `WaitInv`: who waits on a start that
failed has been told, so its `failed` mark is there before it turns to the
stand-in; a start that failed later cannot be the one a new request waits on.  `LogInv`: a
row that names a request agrees with what the request was answered; the one statement that
writes such a row is the last step of that request.  `TraceInv`: every answer is well traced
(`FourLayers` and `AnswersAreTraced`, a case for each layer), since a request carries with it
how its second layer ended.

### Selection, execution and commit: `DispatchProofs`

| Theorem | States |
|---|---|
| `TypeOKHolds` | `Spec => []TypeOK` |
| `CompletedIsBackedHolds`, `CallsFollowPolicyHolds` | `Spec => []CompletedIsBacked`, `Spec => []CallsFollowPolicy` |
| `LogIsTruthfulHolds`, `SignalsMatchLogHolds` | `Spec => []LogIsTruthful`, `Spec => []SignalsMatchLog` |
| `RowsAreCommittedHolds`, `VerdictIsFinalHolds` | `Spec => []RowsAreCommitted`, `Spec => VerdictIsFinal` |
| `JobImplemented` | `Spec => ImplementsJob` |

For any finite set of agents and any largest number of retries.

*The argument.*  None of the properties but `RowsAreCommitted` is inductive: what the end of
`routeTask` may rely on has to be known at every `await` before it.  `ChoiceInv` ties the row to
the locals of `execute` while an agent is tried; a fallback is another agent because the best
place outside a set of places names one (`BestOther`).  `CallInv` counts the calls against the
attempt and says that only the last one can be of another agent, and `LogInv` says the
same of the rows: the last call has no row while its success is about to be recorded, no
row says SUCCESS where another call may follow.  So the retry count of a row is a number of calls
(`AttemptCounts`).  `CountInv` allows one missing row between a call and its record and none
elsewhere, unless the try block threw; `BackedInv` carries the successful row from the insertion
to the terminal statement; `SignalInv` makes the in-memory records and the rows tell of the
same failures, which is what the signals are computed from; `VerdictInv` says that an
evaluation starts without a tier-2 row.

`JobImplemented` maps the steps that try one agent to one stage of `RouteJob`, `dispatched` for the
first agent and `again` for the fallback (`JobAt`).  A choice of an agent, the terminal statement
and the commit are a `Move` or a `Throw` (`JobGoes`); attempts, records and signals keep the row and
the stage (`JobRests`).  That there is at most one fallback is what `ChoiceInv` contributes: the
stage before it is never `again`.

### Agent selection: `SelectionProofs`

| Theorem | States |
|---|---|
| `SelectionTypeCorrect` | `Spec => []TypeOK` |
| `NobodyIsOvertakenHolds`, `SelectionIsJustifiedHolds` | `Spec => []NobodyIsOvertaken`, `Spec => []SelectionIsJustified` |

For any finite set of agents, any rows, tasks and policies (`SelectionAssumption`), any estimates
within a unit of the prices, any precision of the scores and any number of changes.  The columns of
`routing_policy` take negative weights, so the assumption allows them; a policy that rewards the
dearer agent ranks it first, and `NobodyIsOvertaken` speaks of policies without a negative weight
(`WellMeant`).

*The argument.*  The comparator orders the candidates strictly and totally (`ScoresOrder`), so each
of n places is somebody's (`EveryPlaceTaken`, by counting who comes before) and the list is in order
(`SortedIsSorted`); the sorting needs no recursion.  The scores are quotients by the range of the
field, which the branches for a range of 0 keep from being 0 (`Divisors`).  Rounding a quotient
keeps order, and a difference of one unit survives it (`QuotientKeepsOrder`, `ShareGrows`); so each
score grows with what it measures in every branch (`CapabilityGrows`, `CostGrows`, `LatencyGrows`),
and with them the weighted sum (`BetterScores`).  An agent that is no worse therefore has no smaller
total, and a greater one if it is clearly better. `SelectInv` carries this and the histories through
the awaits of `select()`: the candidates of a query passed it when it was made, and an empty answer
was true at that moment, whatever has been registered or disabled since.

### Tuner and pool: `TunerProofs`

| Theorem | States |
|---|---|
| `PoolIsCleanHolds` | `Spec => []PoolIsClean` |
| `LockIsExactHolds`, `StaleIsOverHolds` | `Spec => []LockIsExact`, `Spec => StaleIsOver` |
| `NoDuplicatesHolds`, `RecordsAreTrueHolds` | `Spec => []NoDuplicates`, `Spec => []RecordsAreTrue` |

For any pool, any number of runs and other borrowers, any log and any number of mishaps.

*The argument.*  `PoolInv` says when the notes of `branchConnState` can be trusted: of a
session that no failed reset has spoiled they are true, one without notes is as new, and
only a callback of `withBranchConnection` may have it dirty.  `HoldInv` gives a run one
session at most and a dry run none; `LockInv` says that a taken lock is on the session of
a run past `GET_LOCK`, held once, unless it was leaked; from both follows `LockExcludes`, that
two runs past `GET_LOCK` with living sessions are one.  `RowInv` relates a run to its row: what
is about to be marked stale is over, and stays so, because only the holder of the
lock looks for it.  A second invariant is `RowsInv`.  Per run, the rows with its name are
those it has counted, and what it is about to write is not among them: this gives
`RecordsAreTrue`.  And as long as no session of a lock was lost, what the holder of the
lock has read of the tables is still true of what it is about to write, since nobody
else inserts: this gives `NoDuplicates`, in which the check and the insertion are
separate statements.

## What is only model-checked

`Settles`, `ShutdownEnds`, `Converges`, `NeverBlocksTask` and `RunsEnd` are liveness
under fairness, which the proof system does not handle, nor does it handle `ENABLED`.
Every other property of a passing run is a theorem; `BoardImplemented` assumes serialized claims.
The sums and the sorting in `CascadeLayers` are folds of the community modules,
whose value for every input would need induction over data; no theorem depends on it.

## Not modelled

* Format checks and reports of later outcomes (`outcome-collector.ts`,
  `api/routes/outcomes.ts`): each inserts a row of its own and reads no state.
* How a migration file is split into statements, and `seed.ts`.
* `readContext` and the handoff summaries of session memory, which no task path calls.
* The duration of a job (attempts, back-off, fallback) against the recovery age: it is the
  flag `JobsMayOutliveAge`.
* Regular expressions, vectors, prompts: inputs of the models.  Tokens, cost and latency in
  `Dispatch`.
* The aggregates of a tuning run that reach only its report, and the capabilities it infers.
* Providers, stateless HTTP routes, observability (read-only SQL), logging and the command
  line: no state that two actors share.

Worth doing next: `Cascade` and `Selection` as parts of one abstract classification and choice that
`Dispatch` takes its rankings from, and the splitting of statements (quotes and comments) against a
reference definition.

## Running

`tlc -config Pipeline_race.cfg MCTaskPipeline.tla` checks a run; the other
configurations belong to the MC module of the same first word (`Memory` to `MCSessionMemory`,
`Tuner` to `MCTuner`).  `tlapm M.tla` checks the proofs of a module, where `M` is one of
`TaskPipelineProofs`, `MigrateProofs`, `SessionMemoryProofs`, `RateLimitProofs`,
`CascadeProofs`, `DispatchProofs`, `SelectionProofs` and `TunerProofs`.
