# TLA+ models of herder

herder is a supervisor for agent command lines: jobs are enqueued into one
SQLite database, worker processes claim them, run a provider for each and write
the result. This directory holds TLA+ models of `src/herder`, the configurations
TLC checks them with, and theorems TLAPS proves about them.

All source paths below are relative to `src/src/herder`.

## 1. The system

### Components, their state and their operations

| Component | State | Operations | Talks to |
|---|---|---|---|
| Job state machine (`transitions.py`) | none | `is_legal`, `assert_transition` | used by the mutators of the store |
| Store (`db/store.py`) | `jobs`, `attempts`, `job_events`, `schedules`, `schedule_runs`, `workers`, `provider_health` | `claim_job`, `renew_lease`, `finish_job`, `record_attempt`, `requeue`, `mark_dead`, `request_cancel`, `approve_job`, `reject_job`, `enqueue` | every process, through the file `herder.db` |
| Migrations (`db/migrations.py`) | `PRAGMA user_version`, the schema | `migrate`, at each `Store.open` | every process and every pool thread |
| Worker pool (`loops/queue_claim.py`) | thread pool, futures, group semaphores | claim loop, `_process_claimed` with the retry policy | store, supervisor |
| Supervisor (`loops/supervisor.py`) | local variables of one run | `execute_job`: run, record the attempt, write the result, finish | store, providers; heartbeat and cancel check are callbacks |
| Scheduler (`loops/scheduler_tick.py`) | `schedule_runs` | `tick` before each pass | enqueue, inside its own transaction |
| Enqueue (`services/enqueue.py`) | `jobs`, run directories | dedup, budget caps, idempotency | store; called by the CLI and the scheduler |
| Routing and backoff (`routing.py`, `backoff.py`, `registry.py`) | none (reads `attempts`) | `select_provider`, `compute_backoff_seconds`, `resolve` | enqueue, retry policy |
| Process runner (`runtimes/base.py`, `providers/base.py`) | child process, deadline, last heartbeat | poll loop, terminate | operating system, callbacks of the supervisor |
| ACP client (`providers/acp_client.py`) | session, pending requests | initialize, prompt, permission requests, cancel | agent process over a pipe |
| Docker and ssh runtimes (`runtimes/`) | remote process or container | run, terminate | process runner |
| Garbage collection (`services/gc.py`) | run directories | `run_gc` | store |
| Connect and init (`connect.py`, `adapters.py`, `init_cmd.py`) | `config.yaml`, marked blocks in brain files | `connect`, `register_provider`, `write_cheatsheet`, `_bootstrap_config` | file system |
| Configuration (`config.py`) | none | validation at load | everything |
| Permissions, environment, redaction, parsers, cost, reports | none | pure functions, printing | |

Everything shared but the files of connect goes through SQLite. Connections are
in autocommit mode (`isolation_level=None`, `store.py:58`), so a statement is
atomic and a method of several statements is not; only `tick` and `enqueue_job`
open transactions.

### What is hard

* *Read, check, update.* `finish_job`, `requeue`, `mark_dead` and
  `request_cancel` read the row, check the transition and update in separate
  statements. All but `request_cancel` repeat the check in the WHERE clause.
* *Leases.* A row belongs to a worker while its lease holds. Only a running
  provider renews it; a row that waits in the pool, a provider without a
  heartbeat or a suspended host lets it run out under a live thread, and another
  worker reclaims the row.
* *Crashes.* A worker may die between any two statements; nothing but the lease
  brings its rows back. A command that rewrites a file may die halfway.
* *Retry policy.* It runs after `finish_job` committed, on a row read again, and
  decides on values that may change before its UPDATE.
* *Cancels and deadlines.* They race the end of the child or the answer of the
  agent, in a poll loop and in an event loop with five kinds of tasks.
* *Two sorts of permits.* Threads of the pool wait for semaphores of concurrency
  groups while the main thread waits for them.
* *Transactions around transactions.* `enqueue_job` opens one or runs in the
  scheduler's, and makes a directory that no rollback removes.
* *Files without locks.* `herder add` and `herder init` read, change and write
  what another command or the user may be changing.

What makes each component correct:

* Job queue: an attempt number is handed out once; a finished row is
  accounted for; only exhausted jobs are dead; statuses move along the legal
  edges; no running row is lost; approvals are respected; retries are bounded; the
  queue drains.
* Migrations: the version never promises more than the schema has, an open store
  has the complete schema, a database can be opened.
* Attempts, by a process or by an ACP session: one honest result in bounded time,
  a cancel that is not lost, a lease that holds, a complete output, no unredacted
  log.
* Enqueue, scheduler and gc: caps hold, a slot has one job, none is passed over,
  a job has its directory and a directory has its job.
* Worker pool: within one worker never more runs of a group than its limit, no deadlock, the pass
  ends exactly when nothing is claimable and nothing runs; a retry goes elsewhere.
* Connect: the configuration can be loaded, a registration loses nothing, and the
  user's own text stays.

`PROJECT.json` lists each hazard at its line with the properties that cover it. The code does
not withstand all of them. Where it does not, the property says exactly when it goes wrong and that nothing
else makes it so, and the hazard has a note.

## 2. How the models fit together

```
JobLifecycle  <--implements--  JobQueue  --one attempt-->  Attempt
     |                            |                          ^  ^
 Transitions                      |               implements |  | implements
                                  |                          |  |
Intake (rows come and go)   WorkerPool (who runs)      ProcRunner AcpRun

ConfigCheck  <--  Connect             Migrations (every Store.open)
```

* `JobLifecycle` is what the table promises, `JobQueue` the statements that
  implement it.
* `Attempt` is what the execution of a claimed job promises `JobQueue`, whose
  actions `ExecReturn` and `ExecRaise` are the returns of `Attempt`;
  `ProcRunner` and `AcpRun` implement it.
* `Intake` is how rows and run directories come to be, `WorkerPool` who runs a row
  where and when. In both a job's row has only the states they tell apart, and
  `JobQueue` has the statements.
* `ConfigCheck` says which configurations load; `Connect` writes them.

The modules were written in the order of what the system depends on: queue,
migrations, attempts, intake, pool, connect.

## 3. The modules

### `Transitions` and `JobLifecycle`

`Transitions` is `LEGAL_TRANSITIONS` with the status sets the store selects by.
`JobLifecycle` is the abstract specification of a jobs table: each row starts as
`enqueue_job` wrote it, and one row at a time moves along a legal edge (`Move`); or a
caller who asked for a cancel (`Ask`) overwrites what the row has become since (`Cancel`).

### `JobQueue`

The jobs table and its writers. A *runner* is a pool thread of a worker process that
works on one claimed row; a *CLI* process runs one command.

| Variable | In the code |
|---|---|
| `jobs` | the columns `status`, `worker_id`, `lease_until` (none, held, expired), `attempts`, `error_type` (transient, permanent, internal), `next_eligible_at` (in the future or not) |
| `attempts` | rows of `attempts`: number and outcome |
| `lastEvent` | newest row of `job_events` per job |
| `procs` | program counter and local variables of threads and commands |
| `crashed`, `faults` | workers that died, faults so far by kind (a late lease, a failed `Store.open`, a lost `result.md`); `FaultBounds` is the set of what may add up |
| `gated` | history variable: jobs that still await approval |

| Actions | In the code |
|---|---|
| `Claim`, `Start`, `StartFails` | `claim_job` by the main thread, `_worker` with its `Store.open` |
| `Renew`, `ExecReturn`, `ExecRaise`, `RecordAttempt`, `ResultLost` | `execute_job` |
| `FinishRead`, `FinishWrite`, `FinishEvent` | `finish_job`: read and check, UPDATE, audit row |
| `PolicyRead` | the retry policy of `_process_claimed` |
| `RequeueRead`, `RequeueWrite`, `RequeueEvent` | `requeue`, from the policy or from `herder retry` |
| `DeadRead`, `DeadWrite`, `DeadEvent` | `mark_dead` |
| `CancelRead`, `CancelWrite`, `RetryRead`, `Approve`, `Reject` | the commands |
| `LeaseRunsOut`, `LeaseLate`, `DelayOver`, `Crash` | clocks, and the death of a worker |

`LeaseRunsOut` needs that no thread tends the row; `LeaseLate` is a lease that runs
out under a live thread and counts as a fault, so that a run can say whether its
property depends on timely renewal.

Left out: cost, paths, timestamps, the rows of `workers` and of `provider_health`,
SQLite errors other than in `Store.open`.

### `Migrations`

Callers of `Store.open` on one file. `userVersion` is the PRAGMA, `schema` the set of
DDL statements that took effect, `openers` the callers with the local variables of
`migrate`. `Read`, `Execute` (one statement; an ALTER that adds a column twice raises),
`Stamp` (the PRAGMA) and `Die`. A group of statements with IF NOT EXISTS is one
statement.

### `Attempt`, `ProcRunner`

`Attempt` has a result, set once, and the row's cancelling flag; a result
"cancelled" needs the flag, or an agent that may stop of its own accord.

`ProcRunner` is one attempt through `execute_job`, `providers/run.py`, the provider and
the runtime: `local`, `docker` and `ssh` share `run_with_terminate`'s poll loop, the
doctor's `probe` blocks without one, and `ollama` is an HTTP request.

| Variable | In the code |
|---|---|
| `job` | what is known beforehand: backend, permissions without network, secrets in the environment, a child deaf to its prompt, processes that ignore signals |
| `pc`, `outcome`, `deadline`, `beat`, `wake` | the thread and its locals |
| `leader`, `helper`, `code` | the child, a descendant, container or remote command, and the exit code |
| `logs` | what the attempt's log files hold: nothing, raw or redacted text |
| `now`, `lease`, `cancelAt`, `errors` | the clock in polls of 0.5 s, `lease_until`, when the row was flagged, failed database calls |
| `result` | what `execute_job` is given |

The thread's steps are `StartRaises`, `Spawn`, `SpawnProbe`, `Request`, `Prompt`,
`Poll`, `Beat`, `Check`, the teardowns (`Signal` and `GraceOver` of a process group,
`DockerStep`, `SshExit`, `SshKill`), `Redact`, `ProbeReturns` and `HttpReturns`; the
processes' are `LeaderExits`, `HelperStarts`, `HelperExits`, `Output`. The thread's steps take no
time: `Tick` happens only where it sleeps, waits or blocks.

Left out: argv and environment; output, but for whether it was redacted;
`run_subprocess_cancellable`, which only tests call.

### `AcpRun`

One attempt with an agent that speaks the Agent Client Protocol. An action is what a
coroutine does from one await to the next: the main coroutine (`Spawn`, `Initialized`,
`Opened`, `Awaited`, `Drain`, `Cleanup`, `Leave`, and `Expire` for the outer timeout at
whatever await it strikes), the client's tasks (`ReadChunk`, `ReadAsk`, `ReadAnswer`,
`HandlersRun`), the cancel watcher (`WatcherChecks`, `WatcherWakes`, `WatcherAborts`) and the heartbeat.
The agent is external: it answers, streams, asks for permission and falls silent at
will. Messages arrive in the order they were sent, but each notification is
handled by a task of its own that takes up to `HandlerRounds` rounds of the loop. Chunks are numbered:
`handlers` has the rounds each one's task has left, `got` the chunks in the text.

### `Intake`

`enqueue_job`, `tick`, `run_gc` and the retries that bring a finished row back, over a
clock of minutes.

| Variable | In the code |
|---|---|
| `jobs`, `runs` | rows of `jobs` (content, idempotency key, creation time, active or ended) and of `schedule_runs` |
| `lock` | who is between BEGIN IMMEDIATE and COMMIT or ROLLBACK |
| `dirs`, `next` | run directories, and the next ULID |
| `procs` | locals of ticks, callers and collectors |
| `retried`, `anchor` | history: jobs that were retried; the newest slot recorded by a tick that found no last record |

Actions: `Tick`, `MarkMissed`, `Due` (the scheduler), `Begin`, `Check`, `Insert`
(enqueue, of its own or inside the scheduler's transaction), `Fails`, `Crash`, `List` and `Remove`
(gc), `Finish`, `Requeue`, `Clock`. The inserts of a transaction are part of the action that
commits, as nobody sees them before; the directory is on disk from the check on.
An ULID grows with time as `next` does. There is one schedule: schedules share
only the lock and the caps. BEGIN IMMEDIATE that times out is an exception before
anything was written and is left out.

### `WorkerPool`

`run_pending_parallel`, one pass after the other: the main thread (`Claim`, `NoClaim`,
`Wake`, `Pass`), the pool's threads (`Take`, `Acquire`, `RunDone`, `RunFails`,
`RunUnknown` for a provider this worker does not know, `OpenFails`, `Scan`, `Release`), and what happens to rows
elsewhere (`Enqueue`, `Elapse`, `LeaseRunsOut`, `Age`). `Scan` is `select_provider`, one candidate per
step, as each reads the failures of the cooldown window anew; `Delay` is
`compute_backoff_seconds`.

`Known` are the providers of the configuration this worker loaded; `Ordered` is the
order in the configuration of whoever enqueues, which may name others. Limits below 1 are
assumed away (`PoolAssumption`): the schema of a provider does not
reject them, but a group with a limit of 0 can run nothing.

### `ConfigCheck` and `Connect`

`ConfigCheck` has no state: `Valid` is `validate_refs`, `Resolves` and `RuntimeName` are what
`resolve` and `resolve_runtime_name` do with a configuration.

`Connect` is processes of `herder add` (`Preflight`, `Setup`, `ReadConfig`,
`WriteConfig`, then the brain files) and of `herder init` (`Exists`, `Copy`, then the brain
files), over `config` and `files`. The configuration is replaced by a rename, so that
`WriteConfig` is one step. The example is copied in place: `Copy` opens the file, which empties it, and
`CopyFill` writes the file that was opened, which an `add` may have replaced meanwhile (`holders` are the copiers
it has not been taken from). In between, and for good if the copier is killed, `ReadConfig` may
raise, or take what is there for a configuration: an empty file for an empty one, a part of the example for that part
(`Cuts`), as `rt_yaml.load(f) or {}` does (`connect.py:279`). A brain file is opened, which empties it
(`Truncate`), and then written (`Fill`). `Crash` kills a command between any two steps, or
in the middle of a `Fill`; `Edit` is a user who breaks the markers of a block.
A brain file is its markers, the lines in the block and whether the user's own
text is there.

### Mutants

Definitions commented with *Mutant* are plausible bugs in the definition after them
(a forgotten guard, an off-by-one, a swapped order). No specification uses them;
`PROJECT.json` pairs each with the property that fails when it takes the place of the
original. They show that the properties notice what they are meant to.

## 4. The runs

`tlc -config X.cfg M.tla`, with the module of the table.

| Run | Module | Instance | States | What it shows |
|---|---|---|---|---|
| `queue_races` | `MCJobQueue` | 1 job, a thread of each of 2 workers, 2 commands of any kind, a late lease or a lost result, 1 retry, delays; nobody dies | 5.1 M | types, distinct attempts, accounted results; only a stale cancel leaves the legal edges; when a thread finishes another's run; `JobQueue` implements `JobLifecycle` |
| `queue_drains` | `MCJobQueue` | 1 job, 2 workers (one mortal), a late lease or a failing `Store.open`, 2 retries, delays, 1 cancel or retry | 636 k | the queue drains; dead jobs are exhausted and retries counted; transient failures are followed up; which rows marked cancelling end and which never do |
| `migrate_opens` | `MCMigrations` | 3 callers, all mortal, any version | 21 k | the version is honest, an open store complete; somebody opens unless somebody is killed |
| `runner_attempt` | `MCProcRunner` | all five backends, all combinations of what is known beforehand, 1 database error, timeout 4 polls, lease 5, heartbeat 2, grace 1 | 530 k | results are honest, a cancel is heard, the lease holds, the process tree is gone, when logs stay unredacted, the attempt ends; it implements `Attempt` |
| `acp_attempt` | `MCAcpRun` | 2 messages besides the answers, 3 rounds per handler, timeout 3, 1 database error | 2.3 M | which chunks the output has, a cancel is heard, results are honest, the session ends; it implements `Attempt` |
| `intake` | `MCIntake` | 2 workers, 1 caller with 2 calls, 1 gc, 3 slots, a day of 2 minutes, both caps 2, one crash, failure or retry | 8.0 M | caps, dedup, slots and directories |
| `pool` | `MCWorkerPool` | 3 jobs with roles of 3, 1 and 2 providers, 2 threads, 4 providers in 2 groups, one of them unknown to the worker, 2 failures before a provider cools (one of them had one before), a failing `Store.open` | 668 k | limits, no deadlock, what a pass leaves, where retries go, passes and jobs end |
| `connect` | `MCConnect` | 2 `add`, 1 `init`, 5 configurations to begin with, 2 brain files with or without a block (none malformed to begin with), 2 parts of the example, one kill or edit | 4.8 M | when the configuration may not load, that nothing is lost without an overlap, an agent is connected in full, when prose is lost |

What the less obvious properties say:

* `OnlyStaleCancelIllegal`: a status that changes off `LEGAL_TRANSITIONS` was written by
  `request_cancel`, whose UPDATE goes by the id alone (`store.py:539`), after the row had
  changed since its read. A job that is done can so become cancelled; no other
  writer can do this.
* `OwnRunFinished`: `finish_job` does not ask whose run it finishes (`store.py:385`). A thread finishes one that
  another has claimed since after a lease ran out on it, or after a cancel and a retry by two commands (a
  cancel with a stale read makes a row that was just claimed look cancelled, and a retry makes it claimable). The property
  says that it takes one of the two; crashes, failing opens, delays and a single command do not suffice. The
  other properties of the queue hold nevertheless.
* `CancellingEnds` and `OrphansStay` divide the rows marked cancelling: one with a thread at work on it ends (unless its worker
  dies); one without any stays so for good and counts as active, as `claim_job` reclaims running rows
  only (`store.py:304`) and no command takes a row out of cancelling. The worker may have died,
  `Store.open` may have failed, or the cancel's UPDATE came when the thread had finished. `store.py:519` promises that the worker
  will finalize.
* `SomeoneOpens` has the exception of a kill: between an ALTER TABLE and the PRAGMA that records it
  (`migrations.py:170`) a kill leaves a database on which every later `Store.open` raises
  for a duplicate column.
* `FailureFollowedUp` has the exception of a crash between `finish_job` and the retry policy: the
  row is failed and nobody looks at it again.
* `CancelHeard` of both attempts: an exit or an answer wins over a cancel only if it came before
  the next look at the flag, give or take failed looks.
* `OutcomeHonest` of `AcpRun`: "done" for an answered turn that no cancel was seen before, "cancelled" only
  for a cancel that was seen or of the agent's own, "timeout" only when the time is over, "failed" never for a turn that
  was answered in full.
* `OutputComplete`: a chunk sent before the answer is missing only if its handler still ran when the drain loop had
  waited for two rounds; with handlers of three rounds, as in the run, such chunks exist.
* `RawOnlyFromStray`: raw text stays in a log in three cases: the poll loop raised (the redaction is skipped); a
  docker attempt was stopped (nobody waits for its client); a descendant with the log files open outlived a local attempt, which
  after a stop takes something that ignored the signals. The architecture promises that all logs are
  redacted (`docs/architecture.md:111`).
* `KilledTree`: of a local attempt that was stopped, a descendant lives on only if something ignored
  SIGTERM: SIGKILL goes to the group only while the leader is alive. Nothing is promised of docker.
* `EndsInTime` (a theorem only): every runtime leaves the poll loop within a poll of the deadline or of a cancel; a local attempt
  whose child took its prompt is over a grace period later. `docker stop`, `docker kill` and `ssh -O exit` are
  called without a timeout, so nothing follows for them. A child that does not read its prompt blocks the thread
  before the loop (`runtimes/base.py:142`): `AttemptEnds` and `LeaseHolds` except it.
* `CapsHeld`, `NoActiveTwins`, `DirsHonest` except jobs that were retried, as `requeue` looks at neither
  the caps nor the directory that gc may have removed, or removes now because it listed the job before it was
  retried (`gc.py:68` says that it never does).
* `NoHoles`: a slot that no tick recorded, between two that were, is older than a day, or the later
  one was due when there was no last record (`scheduler_tick.py:68`): the first slots of a
  schedule can be lost to a failing enqueue. A slot that was recorded as missed counts as recorded here; that
  such a slot may be one whose enqueue failed is what the run `slot_dropped` shows.
* `RetriedElsewhere`: `select_provider` promises that "the previously-failed provider is tried
  last" (`routing.py:35`). `list.index` finds the first place of a provider, and the configuration
  does not reject a role that lists one twice: with `[a, a, b]` a job that failed at `a` is retried
  at `a` while `b` is free. The roles of the run list each provider once, and the theorem assumes it.
* `ConfigLoads`: the configuration loads but in four cases. The example is being copied, or its copier was killed; an `add`
  took a part of it for a configuration and registered its agent there (`Salvaged`, only while such a part
  can be seen, `PartSeen`); a `read_only` role is entered for a provider that the user had limited to other permissions
  (`Narrowed`, `connect.py:299`); a recipe's `type` is any string and its `executable` may be empty, which makes a provider
  that `validate_refs` refuses (`Misfit`; the recipes of the run fit, the theorem is about all). The first three occur in the run.
* `ConnectedWhole`: an `add` that meets a malformed brain file after its preflight has changed the configuration; `connect.py:369`
  says that no file is written then. The property says that it takes another command or an edit in between. Its second
  part, for commands that run one by one to their end, includes that the role is listed and accepted in every project,
  but for projects whose own settings forbid all jobs and for a configuration that does not load by `Narrowed` or
  `Misfit`. Edits of brain files between commands are allowed. Registering a role in a project with an empty
  `allowed_roles`, which allowed every role, makes it exclude all the others (`connect.py:306`); the docstring
  says that the role is added to the list, and no property forbids it.
* `ProseKept`: text of the user's is missing only from a file that a process is writing or was killed writing, or after
  an overlap. `adapters.py:91` says it is never modified.

Four runs are expected to fail and show where the code departs from its own comments;
`PROJECT.json` quotes them under `findings`, with the five documented promises above that passing properties delimit.

| Run | Property | What happens |
|---|---|---|
| `spurious_attempt` | `AttemptOnce` | a thread whose job was reclaimed and finished by another falls into the crash handler and records its attempt twice |
| `audit_order` | `AuditCurrent` | the audit row of an earlier UPDATE is stored after that of a later one |
| `approval_bypass` | `ApprovalGate` | cancel and retry turn a job that awaits approval into a pending one |
| `slot_dropped` | `FailedRetried` | a slot whose enqueue failed (here: over a cap) is marked missed by a tick of a later minute, though the comment says "retried next tick" (`scheduler_tick.py:113`); `MCIntakeFails` adds the history variable `failed` to `Intake` |

Two departures have no run. `compute_backoff_seconds(0, 5, 300)` is 5, and its docstring says 0
(`backoff.py:35`); no caller passes 0. `worker.heartbeat_interval` of the configuration is never
read; `execute_job` passes a constant.

**Bounds.**

* *Queue.* Rows do not interact, except that `claim_job` picks by rank: one job is enough for races on a row. Two threads
  of different workers are owner and
  reclaimer, every pair of writers. Two commands are a command
  against a command (two retries, cancel and retry); one command leaves room for a crash. `MaxRetries` 1 is exhaustion at once,
  2 a retry before it. One late lease is what a reclaim under a live thread takes. `audit_order` and `spurious_attempt` need no more.
* *Migrations.* Three callers give a loser and a bystander.
* *Attempts.* The deadline, the lease and the heartbeat are of different lengths, and the
  horizon lies beyond the longest attempt that polls. Two messages are two handlers that overlap,
  and one that overtakes another; handlers of three rounds outlast the two quiet ones the drain loop waits for, and its
  six rounds outlast them.
* *Intake.* Three slots are one to be missed between two others; a day of two minutes
  lets the oldest leave the window; two workers and a caller give
  a transaction against a transaction and a third that waits; caps of 2 are reached by two of
  the three. Directories and rows are as many as there were enqueues.
* *Pool.* Fewer threads than jobs; groups of limit 1 with two providers of different limits;
  roles of three, one and two providers, the one of three in another order than the list of limits; two failures
  before a provider cools, so that the failed one need not cool during its own scan, and one provider (`Before`) so close to it that a new job may go to the unknown one; retries 1 and 2. Backoff with base 2 and
  cap 1 takes the cap.
* *Connect.* Two recipes and an `init` are every pair of commands; two brain files are
  one already written when the other turns out to be broken. The parts of the example are one cut within a provider, which
  does not load, and one that does.

The modules MC... define the values of the constants; symmetry is used in
`queue_races`, for the two commands, and in `intake`, for the two workers: both check nothing but safety.

**Deadlock** is checked in `pool`, where a thread that waits for a permit could stop
everything. Elsewhere the systems do stop: jobs end, commands exit, attempts return, the clock of the
model ends.

**Fairness.**

* `JobQueue`: weak, for each thread's steps (a provider call ends at its limit, the pool runs its
  threads, `cmd_worker` keeps polling; a child that is deaf to its prompt has no limit, and is the exception that
  `ProcRunner` states) and for leases and delays (clocks advance). None for
  commands, which may stall anywhere, for crashes and for faults.
* `Migrations`: weak, for openers: SQLite waits for locks.
* `ProcRunner`: weak, for the thread and the clock. Processes need not end.
* `AcpRun`: weak, for the main coroutine, the client's tasks, the watchers and the clock. The agent need
  not say anything.
* `WorkerPool`: weak, for the main thread, for each thread of the pool, for the expiry of a lease that
  nobody holds and for the delays. Nothing stronger for a semaphore: a thread may be
  overtaken at it, but not for ever, as every claim uses up an attempt of its job. That a run ends is the same
  assumption as in `JobQueue`.

## 5. The theorems

For every value of the constants under the named assumption of each module
(`QueueAssumption`, `OpenersAssumption`, `RunnerAssumption`, `AcpAssumption`,
`IntakeAssumption`, `PoolAssumption`, `ConnectAssumption`: sets are disjoint, `None` is no id,
bounds are numbers, limits are positive, the configurations to begin with load). TLC evaluates
these assumptions in every run. `PROJECT.json` lists the theorems with the properties they state.

| Module | Theorems | Hypotheses |
|---|---|---|
| `JobQueueProofs` | `TypeCorrect`, `LogsTheorem`, `ReclaimTheorem`, `DoneTheorem`, `DeadTheorem`, `EdgesTheorem` | |
| | `Refinement` (`JobLifecycle`), `OwnRunTheorem`, `OrphanTheorem` | |
| | `ApprovalTheorem` | no cancel command |
| | `RetryTheorem`, `ClaimsTheorem` | finitely many processes and workers (`Finitely`) |
| `MigrationsProofs` | `HonestTheorem`, `OpenTheorem` | |
| `ProcRunnerProofs` | `TypeCorrect`, `OutcomeTheorem`, `TimeTheorem`, `LeaseTheorem`, `TreeTheorem`, `RedactTheorem`, `Refinement` (`Attempt`) | |
| `AcpRunProofs` | `TypeCorrect`, `CancelTheorem`, `OutcomeTheorem`, `LeaseTheorem`, `OutputTheorem`, `Refinement` (`Attempt`) | |
| `IntakeProofs` | `TypeCorrect`, `CapsTheorem`, `TwinsTheorem`, `SlotTheorem`, `DirsTheorem`, `HolesTheorem`, `TickTheorem` | |
| `WorkerPoolProofs` | `TypeCorrect`, `LimitTheorem`, `AdvanceTheorem`, `SettleTheorem` | |
| | `ElsewhereTheorem` | a role names a provider once (`Distinct`) |
| `ConnectProofs` | `TypeCorrect` | |
| | `LoadsTheorem`, `NothingLostTheorem`, `WholeTheorem` | no configuration is mistaken for a missing or a torn one (`Separate`) |
| | `ProseTheorem` | every brain file has text of the user's to begin with |

With these, every invariant and every action property of the passing runs is the statement of a theorem.

`Extrema` holds lemmas on `Min`, `Max` and on counting that two of these modules share.

**`JobQueueProofs`.** `NextOK` turns every action into what it does to one row (`RowEffect`), to
the attempts (`LedgerEffect`) and to each process (`ProcEffect`); the invariants are then
proved from these effects, one case per kind of write instead of one per action. The
inductive invariant `IInv` adds `ThreadsAccountable`: a thread about to finish has
recorded its attempt, and a thread about to mark a job dead was right about its attempts.
`DoneAccounted` and `DeadExhausted` are not inductive without it, because the write comes
statements after the fact it relies on; that attempts never decrease (`AttemptsGrow`)
keeps a stale decision to kill right, and `LogsNotShared` is what makes two claims in one
step impossible (`OneClaims`). The run `approval_bypass` shows why
`ApprovalTheorem` excludes cancel commands. `Refinement` has no such hypothesis: `JobLifecycle` has the cancels, and a command between its
read and its UPDATE is one that has asked (`CancelUnderWay`).

`OwnRunTheorem` rests on what it is to hold a row (`Holds`): to be its last claimant while nobody else can claim
it. As long as no lease ran out on a live thread and at most one command was given, the command is not a cancel, and every thread
that works holds a running row (`Undisturbed`), or it is not a retry, and only a thread that holds the row may put it back (`Unretried`);
before the first command both are true (`Regular`).
Once two commands were given that is over: a cancel with a stale read overwrites a row that was just claimed, the row counts as cancelled
while its thread still works, and a retry makes it claimable again. TLC finds this, and the late lease, as counterexamples to
the property without `CanBeOvertaken`.

`OrphanTheorem` is a step property: of the writers only a thread at work on its claim and a cancel with an older read can write a row that is cancelling,
and none of the two comes to it anew, as it cannot be claimed and a cancel does not act on it.

`RetryTheorem` and `ClaimsTheorem` count. At any time a job has at most one claim to come or under way
(`Token`, `LiveOn`), and its attempts, the claim to come and the decisions to requeue that are not yet written
(`Requeuers`) stay within `max_retries`, one more of each being paid for by every disturbance (`Balance`):
a command that was given, a worker that was lost, a failed `Store.open` after the claim or a late lease. `RetryLeft` follows
although the decision of the policy and its UPDATE are two statements, because whoever changes the row between them
took part in that count. That a thread's worker is the one the row names (`OwnersKnown`) tells which
claim a reclaim ends.

**`MigrationsProofs`.** The inductive invariant says for each caller what the scripts
below its *local* version contributed: `user_version` cannot be used, as another
opener may have lowered it.

**`ProcRunnerProofs`.** `IInv` is six facts, each proved from those before it: which variables go
with which step (`Shape`); what an outcome says was true when it was set and stays true (`Verdicts`);
how late it can be where the thread is (`Punctual`), which needs that time passes only where
the thread waits, and no longer than to its next wake-up; how far the heartbeats are behind (`Leased`:
the lease lags the last beat by at most an interval per failed renewal); whom a teardown reached (`Reaped`); and
that if nobody could write when the thread left, nobody can afterwards (`Closed`).

**`AcpRunProofs`.** `IInv` is `Shape` (what has been decided and who runs, by phase), `Heard` (who knows
of a cancel, and what comes of it), `Timely` (when the watcher looks next: a cancel that it has
not seen is younger than a look, plus one for each look the database failed) and `Leased`.
`Outcome` ties the verdict to what became of the prompt. `LeaseTheorem` reckons with the handshake, in which nobody renews the
lease (`Unrenewed`).
`OutputTheorem` needs `Texts` besides: when the answer is read, every chunk sent before it has been read, too;
each is in the text or has a handler with rounds left (`Seen`), and the loop ends after two looks at least, quiet or not.
That a chunk may be missing is no weakness of the bound: TLC finds an answer whose last chunk, with a handler of three rounds, comes after two quiet yields.
The comment of the drain loop says as
much: there is "no deterministic barrier; quiescence is the best proxy" (`acp_client.py:350`).

**`IntakeProofs`.** What makes two statements of `enqueue_job` one is the write lock: `Locked` says that
whoever is between them holds it, and `Knows`, that what was checked since BEGIN IMMEDIATE is still true
when the row is inserted, because everything others may do without the lock (finish a row, let time pass)
makes the caps looser, and a retry, which does not, is excepted. `Doomed` says what gc's list of rows read
once is still good for.
Counting (the cardinality of a set that changes by one element) is in lemmas of its own.
`HolesTheorem` and `TickTheorem` have an invariant of their own (`NInv`): a slot that is open and
before the minute of a tick under way is in that tick's set of slots to mark, or older than its day (`Behind`). Others
may record such a slot or die next to it, never open one: a record is rolled back only by the transaction that made it,
under the write lock. `TickTheorem` (`TickSettles`) is proved only and in no run: a tick that found a record and is through with the missed slots
leaves every slot of the day before it, later than the first record, enqueued or given up, and records are never changed. It does not say that a slot
whose enqueue failed is retried: it is given up (`slot_dropped`).

**`WorkerPoolProofs`.** `LimitTheorem`: the permits of a group and the threads that hold one always
add up to `Limit(g)`, the minimum over the group, which is at most each provider's own limit.
`AdvanceTheorem` is the comment of `queue_claim.py:208`, every permit holder is actively running a job, so at
least one thread always advances: a thread that waits for a permit waits for
one that has it, and that one waits for nothing. `SettleTheorem`: a row that is running and that no thread and no
queue entry stands for was lost to a failed open (`LostFew`), and a pass ends with neither
(`Quiet`). `ElsewhereTheorem`: a job is in the queue once or with one thread (`Alone`), so that nobody else changes
the row a scan is about, and what the scan has passed over was cooling or the provider that failed.

**`ConnectProofs`.** Each action is reduced to what one process becomes (`Becomes`). `LoadsTheorem`: every
copy of a configuration, in the file and in a command's memory, loads, or is narrowed, or has a provider of a recipe that does not fit,
or came from a part of the example (`Good`), and registering
keeps that (`RegisteredGood`, the core of the proof: one lemma per part of `validate_refs`); that nobody has seen such a part without an overlap or
a killed copier is `Unseen`.
`NothingLostTheorem` and `ProseTheorem` rest on `Serial`: while no two commands have overlapped there is at most one, and
what it has read is what there is. `WholeTheorem` follows an add by what it has written so far (`Connected`): its preflight met no malformed
file, which only another command or an edit can break before it is done (`Clean`); from the configuration on its role is listed everywhere (`Listed`), and the brain files it is past have
its line (`Noted`). Later commands keep both, as they read a whole file before they write it.

**Only model-checked** are the liveness properties (`QueueDrains`, `FailureFollowedUp`, `CancellingEnds`,
`SomeoneOpens`, `AttemptEnds` of both attempts, `PassEnds`, `JobsEnd`): they rest on fairness, which is stated with
ENABLED, and that the prover cannot treat. `TimeTheorem` and `AdvanceTheorem` are what can be proved
in their direction. That the hypotheses and the exceptions above are needed shows in small instances that violate the
property without them.

## 6. Not modelled

* Permissions, environment and redaction (`permissions.py`, `env.py`, `redact.py`, `providers/sandbox.py`): pure
  functions on strings and dictionaries. `ProcRunner` keeps when they refuse a job, and when a log is redacted.
* Argument building and output parsing (`providers/invocation.py`, `providers/parsers.py`), cost accrual,
  `errors.py`'s patterns: data. What depends on it, a transient or permanent failure, is a choice.
* Worktrees and diffs (`runspace.py`): file system operations at paths unique to a job. A worktree that is there
  already is used again by the next attempt.
* The rows of `workers` and `provider_health`, which are written for reports.
* Reports and diagnostics (`doctor.py` but for its probe, `services/stats.py`, `services/bench.py`,
  `services/jobs.py`): they read and print.
* Concurrency limits across workers: the code's semaphores are of one process, and it promises no more.
* A cancelled attempt that ends as failed is requeued by the policy like any failure; that is in `JobQueue`, and no
  document says otherwise.
* `tick` runs between passes, so a long pass delays it; `Intake` has no bound on how late a tick is, which covers that.
