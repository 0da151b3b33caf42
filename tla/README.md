# AsyncFlow backend: TLA+ specification

This directory specifies the backend under `src/asyncflow/backend`: a task
service that keeps the truth about tasks in PostgreSQL, its work queues in
Redis, runs tasks on workers embedded in the server process or on remote ones
that poll over HTTP, and runs graphs of tasks (DAGs). The modules are
translated from the Go code, its Lua scripts and its SQL. `PROJECT.json`
gives, for every definition, the source lines it stands for.

## 1. Inventory

### 1.1 Parts

| Part | Source (`internal/`) | State | Operations that change it |
|---|---|---|---|
| Ready queues, wait sets | `queue/` | per priority a list and a membership set; two sorted sets | enqueue at tail or head, dequeue, add/remove waiting, pop due |
| Task store | `storage/` (tasks, attempts) | `tasks`, `task_attempts` | create, begin, renew, complete, preempt, reclaim, mark ready, recover, cancel, retry dead, discard dead |
| Scheduler | `scheduler/` | fairness streak, executor list, round-robin cursor | choose, pop, pick, preempt, reserve, begin, deliver, requeue |
| Embedded workers | `workerpool/` | reserved ids, in-flight entries with a preempted flag | reserve, release, deliver, run, flag, renew lease, drain |
| Engine | `engine/` | none of its own | submit, report a result, callback |
| Delay scheduler | `delayscheduler/` | none of its own | promote due tasks, rebuild wait sets |
| Reaper | `reaper/`, `storage/workers.go` | worker rows | mark offline, drop executors, reclaim |
| Process | `runtime/` | which loops run | build, start (recovery), stop |
| Handlers | `api/` | none of their own | submit, cancel, retry dead, discard dead, worker administration |
| External workers | `runtime/external.go`, `api/external.go` | registry, one channel per worker | register, claim, heartbeat, complete |
| DAG orchestration | `orchestration/`, `storage/dags.go` | DAG and node rows | validate, create, start, release nodes, fail |
| Pure functions | `domain/`, `errcat/` | | retry delays, cron, error categories |
| Metrics, audit, configuration | `metrics/`, `storage/audit.go`, `config/` | ring buffer, audit rows | |

### 1.2 How they interact

The scheduler pops an id from Redis, reads its row, picks a worker, reserves a
slot, moves the row to `running` and delivers the task; the worker's goroutine
runs the handler, reports through the engine and releases the slot. A failed
attempt goes back to `pending` and into the `retry` wait set; the delay
scheduler pops due ids, moves the rows to `ready` and pushes them. A high
priority task that finds no slot interrupts a lower one: the row goes back to
`ready`, the worker's entry is flagged, the slot is released and the victim is
pushed to the head of its list. The reaper marks silent workers offline, drops
their executors and takes back rows with a lapsed lease. At start, running
rows are moved back to ready, all ready rows are pushed and the wait sets are
rebuilt. Redis and PostgreSQL are never updated together: between the two
calls an id lives in a local variable only.

A DAG is a set of node rows over ordinary tasks: the orchestrator submits the
tasks of the root nodes, and the hook that `ReportResult` calls for each
finished node task reads the rows, applies the failure policy, writes its own
row and submits what became ready. External workers appear to the scheduler as
executors whose `Deliver` puts the task on a Go channel; an HTTP handler takes
it off for the remote process, and another one reports for it. The reaper
closes the channel of a silent worker.

### 1.3 What is hard here

* Ids in transit between Redis and PostgreSQL while other goroutines act on
  the same task, or while the process dies.
* Worker memory keyed by task id while several attempts of one task overlap.
* Ownership decided by worker id, not by attempt.
* Read-then-write without a lock in cancellation.
* Two clock resolutions: microseconds in PostgreSQL, milliseconds in Redis.
* Errors that the code ignores, leaving a row that no queue knows.
* A fairness counter raised, spent and reset at different places.
* DAG hooks that read all node rows, decide, and write later, without a lock,
  while other hooks and the goroutine that is still launching do the same.
* A channel that is sent to and closed by different goroutines, under a mutex
  that the send does not hold.
* Two requests with one idempotency key between lookup and insert.
* Calendar skips, roundings and doublings at their boundaries.

`PROJECT.json` lists these as hazards, each at its line, with the properties
that cover it.

## 2. Modules

| Module | Models |
|---|---|
| `Domain` | constants, priorities, statuses, `UnixMilli` |
| `MemoryQueue` | `queue/memory.go`, used as the contract of a queue |
| `RedisQueue` | `queue/redis.go`: one operator per script or command; `QSpec` calls them in any order |
| `TaskLifecycle` | the state machine of a task row, as the storage package promises it |
| `TaskStore` | one operator per storage transaction, guarded by its WHERE clause; `StoreSpec` calls them in any order |
| `Fairness` | `choosePriority` and `notePop` as functions |
| `Schema` | which statements PostgreSQL or its driver can never execute |
| `AsyncFlow` | the process composed with both stores |
| `Submission` | `Engine.Submit` with idempotency keys over `TaskStore` |
| `External` | external workers composed with `Submission`, dispatch and reaper |
| `DagValidate` | `Validate` as functions, one per stage |
| `Dag` | one DAG run: orchestration composed with the life of its tasks |
| `Cron`, `RetryPolicy` | `ParseCron` and `Next`; `NextDelay` and the times of a failing task |
| `FairShare` | a sequence of dispatch choices over arbitrary workloads |
| `Algorithms` | the three above as one specification, one subject per behaviour |
| `MCRedisQueue`, `MCAsyncFlow`, `MCExternal`, `MCDag`, `MCAlgorithms` | small instances |
| `TaskStoreProofs`, `AsyncFlowProofs`, `AsyncFlowRunProofs`, `ExternalProofs`, `ExternalWorkerProofs`, `DagValidateProofs`, `DagProofs`, `AlgorithmsProofs` | theorems and lemmas |

### 2.1 `RedisQueue`

`list[p]` and `members[p]` are the two keys of a priority, `wait[k][t]` the
score of `t` in a sorted set. A script is atomic in Redis, hence one step.
Scores are `UnixMilli` of an instant; `TicksPerMilli` instants share a
millisecond. `PopDue` returns a prefix in score order, at most `Batch` long.

### 2.2 `TaskStore`

`status`, `workerId`, `leaseLive` (the lease lies in the future), `attempts`,
`executeAfter` (NULL is instant 0) and `history[t][n]`, the status of attempt
row `n`. `CancelTask` is two operators, since its SELECT takes no lock and its
UPDATE has no condition on the status. Not kept: payloads, error texts, audit
rows, and timestamps nothing reads back.

### 2.3 `AsyncFlow`

A step is one transaction, one Redis call or one critical section of a
worker's mutex, with the private computation that follows. Each goroutine has
its locals in a record with a program counter:

| Variable | Code | Actions |
|---|---|---|
| `sched`, `highStreak`, `execs` | `dispatchOne`, `maybePreempt`, registry | `SchedChoose` ... `SchedRequeue` |
| `reserved`, `tasks`, `preempted` | `Worker.reserved`, `Worker.tasks` and its flag | inside `Sched*`, `Run*` |
| `runs` | one record per attempt goroutine | `RunReturn`, `RunReport`, `RunWait`, `RunRelease`, `RunRenew` |
| `delay` | `promoteOnce` | `DelayPop`, `DelayMark`, `DelayPush`, `DelayPutBack` |
| `reap`, `online`, `fresh` | `ReapOnce`, worker rows | `ReapMark`, `ReapNotify`, `ReapReclaim`, `ReapPush`, `Heartbeat`, `Stall` |
| `submitting`, `cancelling`, `requeueing` | handlers | `Submit*`, `Cancel*`, `RetryDead*`, `DiscardDeadBatch` |
| `phase`, `starting` | `Runtime.Start` | `StartRecover`, `StartEnqueue`, `StartRebuild`, `Crash` |
| `now`, `budget` | the clock, counters of disturbances | `Tick`, `LeaseLapses` |

Every call that can fail has a `Fault` alternative that does what the code
does on that error, ignoring it included. Faults are counted since the last
start, because a start repairs what they lose.

Abstractions worth knowing:

* `ReportResult` and `Submit` leave out the DAG hook (in `Dag`), the
  idempotency lookup (in `Submission`), the callback, metrics and audit rows.
* `SchedChoose` and `SchedVictim` look at all executors in one step; the code
  locks them one after the other.
* The candidate `registry.pick` selects is any worker that can handle the task.
* A handler may return at any moment with either verdict: interruption is
  cooperative.
* `RunRenew` stays possible for an interrupted run, whose renewer would be
  stopped: this only adds behaviours.
* The statement set `Rejected` is a constant. Most runs leave it empty, to
  examine the design; `Settles` and `RejectedReclaim` use what `Schema`
  computes for the present code.

### 2.4 `Submission` and `External`

A request of `Submission` is named by the task it would create: `Lookup`
(`GetTaskByIdem`), `Insert` (refused by the partial unique index), `Enqueue`.

| Variable | Code | Actions |
|---|---|---|
| `obj` | the `ExternalWorker` objects: `used`, `pending` with `closed`, `online` | all below |
| `known`, `reg` | `m.workers`, a `Register` call in progress | `RegisterMap`, `RegisterUpsert`, `RegisterAdd` |
| `exec`, `sched` | registry, locals of `dispatchOne` | `SchedPop` ... `SchedSend` |
| `row`, `fresh` | `workers.status`, `last_heartbeat` | `Heartbeat`, `Drain`, `Silence`, `ReapMark` |
| `poll`, `closing`, `held` | a waiting claim, completions in progress, the remote process | `Claim*`, `Complete*`, `RemoteDies` |
| `reap` | `ReapOnce`, `WorkerOffline` | `Reap*` |

`Deliver` is two steps, `SchedCheck` and `SchedSend`, because it unlocks in
between; a send on a channel closed meanwhile panics. So does a method call on
the typed nil that `Get` returns for a forgotten worker. Fiber is used without
its recover middleware and nothing else recovers, so both are a `Restart`.
`replaced` and `stale` are history: workers whose object was dropped or who
repeated a request, and workers whose report decided an attempt they had not
run. The statement behind `Register` is one of those `Schema` finds rejected
(a NULL array); this module examines the design with it accepted, and lets it
fail as a disturbance. Capabilities and preemption are left out: all tasks
have one priority.

### 2.5 `Dag` and `DagValidate`

`dag`, `policy`, `deps` are the DAG row, `node` the node rows, `task` and
`linked` the tasks as far as orchestration sees them. `at[p]` holds the locals
of the launcher `p`: the goroutine in `Submit`, or the hook of a task. `snap`
is the hook's copy of the rows. One step is one transaction or Redis call:
`Create`, `Enqueue`, `Link`, `Update` per submission, `GetDAG`,
`ListDAGNodes`, `Apply` or `Abort` per hook. `serial` is history: so far no
disturbance, one launcher at a time, and no task ended before its launcher had
recorded it. The node state `ready` exists in a hook's memory only and is left
out, as are `task_id` and `attempts` of a node, which only views read. A DAG
definition in which a node omits its dependencies instead of giving an empty
list is refused by the database (a NULL array); requests here give the list.

### 2.6 `Cron`, `RetryPolicy`, `FairShare`

Cron works on a calendar whose units are constants, without leap years; an
expression is given as its fields' parts, not as text. `FairShare` takes
any non-empty set of ranks with runnable work before each choice and lets the
dispatch fail after it.

## 3. Runs

Passing runs:

| Run | Instance | Checks |
|---|---|---|
| `RedisQueue` | 3 ids on 2 priorities, 4 instants in 2 ms, batch of 2 | types, `QueueConsistent`, refinement of `MemoryQueue` |
| `Dispatch` | 2 tasks, 2 workers with 2 and 1 slots, watermark 1, 1 lapse | `TypeOK`, `RunningHasRunner`, `VerdictFromOwnRun`, `SlotBound`: without preemption each running row has its own goroutine, late reports are refused, slots are respected |
| `Preemption` | critical and low task on one slot, 1 retry, 3 attempts, 1 lapse, 1 failing call | `NoReadyTaskLost`, `DeadAfterAllAttempts`, `RunningHasOpenAttempt`, refinement of `TaskLifecycle` |
| `Recovery` | 1 task, 2 instants, retry, delay, cancel, dead-letter retry, 1 crash, 1 stall, 1 lapse, 1 failing call per start | `NoReadyTaskLost`, `NoPendingTaskLost`, `OrphansHaveCause`: an attempt row that stays open has a crash or a cancellation as its cause |
| `Settles` | 2 tasks, one without a handler, 1 lapse, 1 crash, rejected statements | `EveryTaskSettles` under `FairSpec` |
| `Workflow` | 3 nodes: chain under each policy, fan-in, fan-out, a cycle; 2 tasks per node, 1 failing call, cancellation or restart | `DependenciesFirst`, `AggregateSound`, `NoneWaitingAfterEnd` for all interleavings; `SerialLaunchesOnce`, `SerialDagConcludes` where launchers do not overlap |
| `External` | 2 tasks with one key or none, 1 worker with 2 slots, 2 objects, 2 attempts, 1 disturbance | `IdempotentAnswers`, `ReadyIsQueued`, `ClosedOnce`, `UnreportedIsUndecided`, `StaleOnlyAfterReplacement`, `SlotsRespected` |
| `Algorithms` | a year of 2 months and 5 days, 576 cron expressions from every phase, 6 failures; watermark 3; 2,197 well-formed definitions of 3 nodes | `CronNextEarliest`, `CronRetryInMinute`, `BackoffDoubles`, `BoundedBypass`, `LayersAreTight`, `CycleIffCyclic` |

Runs in which the code does not do what a comment in it says. Each has an
entry under `findings` that quotes the comment.

| Run | What happens |
|---|---|
| `StaleReport` | an interrupted run reports after its worker was given the next attempt; the report closes that attempt |
| `StalledWorker` | one late heartbeat removes the embedded executor for good |
| `RejectedReclaim` | the reclaim query is ambiguous and always fails, so a row whose report was lost stays running |
| `DagStuck` | a node task ends before it is linked to its node, and its DAG never ends |

Where the properties of passing runs stop short of what one would wish:

* `SlotBound`, `RunningHasRunner` and `VerdictFromOwnRun` are checked without
  preemption. With it the slot is released while the interrupted handler may
  still run (`scheduler.go:172`), and that run's own release later removes the
  reservation of the task's next attempt, whose delivery is then skipped
  (`pool.go:178`).
* `TaskLifecycle` lets a cancellation overwrite a terminal status, as
  `cancel.go:27` does when the task completes between SELECT and UPDATE.
* `NoPendingTaskLost` is checked with one instant to a millisecond and one
  worker, and proved where each task has one worker and nothing is preempted.
  With more instants an id can pop within the millisecond before it is
  due; PostgreSQL refuses it and nothing puts it back before the next start
  (`delayscheduler.go:84`). With two workers and a retry delay of 0 the same
  happens through an entry that `RebuildWaitSets` had doubled: it promotes the
  task while the failed run has not yet added it, the second worker fails it
  again, and the first run's late `AddWaiting` puts its earlier score over the
  newer one. With preemption one worker is enough for that: an interrupted
  handler no longer keeps the task's slot.
* `SupportedTaskStarts` also fails when a task no worker supports is at the
  head of a list: it is requeued there and ends each pass (`scheduler.go:227`).
* `SerialDagConcludes` and `SerialLaunchesOnce` fail with overlap: two parents
  of a node that end together each read the other as running (the node never
  starts) or each find it ready (it starts twice); a canceled node task calls
  no hook; a restart inside a hook is never made up for.
* `AggregateSound` has an exception for `terminate`: a hook that passed
  `GetDAG` before an abort counts the nodes it skipped as satisfied and may
  write succeeded over failed.
* `BoundedBypass` counts from the last choice at which no Low or Bulk work
  could run: a saturated cluster drops the credit (`scheduler.go:116`).
* `CycleIffCyclic`: the nodes reported with a cycle include those that merely
  depend on one, where the repository's README speaks of the nodes on it.
* `BackoffDoubles`: doubling stops at the first value that is not below 3600,
  so a delay can be almost 7200 seconds; the repository's README says 1 hour.
* `CronNextEarliest`: without a match in 366 days the answer is a day later.

### 3.1 Bounds

* Two tasks suffice for every race between a task and a competitor (preemptor,
  blocker); all other races are between goroutines working on the same task,
  which one task shows. Tasks interact through slots and list positions only.
* `MaxAttempts` 3 or 4 exceeds the attempts that retries grant by at least
  one, so attempts consumed by preemption and reclaim are included. It is a
  guard of `SchedBegin`.
* `MaxTime` is 0 where time decides nothing, 1 where a delay must pass, 3 with
  two instants per millisecond where truncation matters.
* One crash, stall or lapse each: the state after the repair is a state of a
  fresh run, up to attempt numbers. `MaxFaults` counts per start.
* `HighWatermark` 1 makes the forced choice occur after every dispatch.
* `Cancellable` limits which tasks clients cancel; `MaxDeadRetries` how often
  an operator revives dead tasks.

* `Workflow`: two tasks per node allow one retry or one double launch. Three
  nodes are the least with two parents or two children. Under `retry` the last
  task a node may have does not die (`MayDie`); the code would go on for ever.
* `External`: two objects per worker and process are the least with which an
  object is replaced, two attempts the least with a stale report. Two
  disturbances (6.9 million states) and two workers with one task (1.0 million)
  were also explored without a violation; they take too long to repeat.
* `Algorithms`: the small calendar has every boundary of the real one (end of
  hour, day, week, month, year); the cap of 20 is reached by each base.

`Workflow`, `DagStuck` and `Algorithms` end, so the deadlock check is off
there. Elsewhere it is on: heartbeats keep the system alive.

### 3.2 Fairness

`FairSpec` is weak fairness of each loop (each is a goroutine on a ticker that
runs until the process stops), of each task's attempt goroutines (handlers run
under a timeout context), of each handler in progress, of each worker's
heartbeat loop, of the clock and of restarting a dead process (the deployment
restarts it). Requests, faults, crashes, stalls and lapses are never forced.
Weak fairness of the whole scheduler is enough as its steps are sequential.
For `Dag`, `FairSpec` is weak fairness of `Progress`: goroutines run on, and
every queued task is brought to an end. A DAG run has finitely many steps, so
fairness of the union is enough.

## 4. Proofs

All theorems hold for arbitrary sets of tasks and workers, priorities, slots,
retry limits, clock resolution, batch size, watermark, calendar, DAG
definitions and disturbance bounds, under the named assumptions of the modules
that declare the constants, which say no more than the constants' types (and
that watermark, batch, `TicksPerMilli` and the units of the calendar are
positive). Four theorems have hypotheses of their own, given below.

Zenon proves most leaves; the ones about arithmetic, records and sequences cite
the SMT solver.

**`TaskStoreProofs`.** For arbitrary callers, `StoreKeepsOpenAttempt`
(`StoreTypeOK` makes it inductive) and `StoreImplementsLifecycle`. Its lemmas on
single rows (which transactions leave an attempt open, what becomes of a row that
does not run) serve the two modules that follow.

**`AsyncFlowProofs`.** First the queue: `QueueIsConsistent` and `QueueIsTyped`,
where `QTypeOK` and `QueueConsistent` are inductive together. The lemmas
`AppendFacts`, `ConsFacts` and `TailFacts` say what pushes and pops do to the
range and the distinctness of a list. `RedisImplementsMemory`: since the
membership set is the range of its list, `SADD` adds exactly when `memory.go`
finds no duplicate. Then the composed backend. The inductive invariant
`TypeInv` joins `TypeOK`, `RunningHasOpenAttempt` and `QueueConsistent` with
what the locals mean:

* `SchedLocals`: from `pick` on the scheduler holds a task, from `preempt` on
  a victim and a worker; and while a rank above Low is being dispatched the
  streak is below the watermark. Without the last part the increment in
  `notePop` could pass the watermark.
* `CancelReads`: a cancel only updates a row that exists.
* `ReapLocals`: the reaper holds ids only while pushing. Without it a reclaim
  could overwrite ids still to be pushed.

`StoreStep` shows that every step is a storage transaction or leaves
PostgreSQL alone, so the store's theorems carry over (`OpenAttempt`,
`ImplementsLifecycle`); `QueueStep` does the same for Redis. `TypeCorrect`
follows from one lemma per part. `DeadLast` adds `RunNumbers` (the attempt
number of a run never exceeds the row's count, so a stale report cannot
dead-letter early). `NoLostWork` proves `NoReadyTaskLost`: `QueueConsistent`
replaces "in the list" by "has a membership marker", which each script changes
point-wise, and each action is examined for the ids it takes and gives back.

**`AsyncFlowRunProofs`.** Attempts and the goroutines that run them.
`OrphansAreCaused` needs no hypothesis: `OrphanInv` counts the open rows of a
task against crashes and its cancellation, with one more owed while the process
is down and the row still says running. `OwnVerdicts`, `RunnersExist` and
`SlotsKept` assume `NoPreemption`: no task of a priority that preempts (critical,
high) meets a task it could interrupt. The hypothesis cannot be dropped: the run
`StaleReport` refutes `VerdictFromOwnRun` with preemption, and section 3 says how
the other two fail. The invariant has two parts. `PoolInv` ties the memory of a
worker together: without victims a reservation is the scheduler's or that of one
goroutine, and a worker has one goroutine per task. `OwnerInv` ties goroutines to
rows: a run whose worker owns the row is at the row's attempt number, runs of one
task have different numbers, and an active run's attempt has no verdict.
`SlotInv` then counts reservations.

`NoLostWaiting` proves `NoPendingTaskLost` under three hypotheses, none of which
can be dropped (section 3): `NoPreemption`, `ServedByOne` (no two workers serve a
common task) and instants that are whole milliseconds. The invariant
`PendingAreScheduled` says more than the property: what will promote a pending row
is not too early for it. A wait set has it at a score not before `executeAfter`,
or `promoteOnce` has popped it at an instant from which PostgreSQL accepts it, or
the submission or the failed run has yet to add it. Three facts keep it:

* `WaitingRuns`: the score a failed run is about to write is the one in the row.
  The run still occupies a slot of the only worker that serves the task, so nothing
  can have started, and hence rescheduled, the task since.
* `CancelsAreFinal`: a cancel handler removes from a wait set only what it has
  canceled in PostgreSQL.
* `PromotesWhenUp`: no pass is under way when `RebuildWaitSets` writes its scores.

**`DagValidateProofs`.** What Kahn's algorithm computes, for every definition.
`RoundInv` holds after every round: an in-degree is the number of entries not yet
layered (`OpenFacts`), the frontier is what has none left, and the layers so far
are tight. Recursive functions are taken apart by `RoundsExist` and `LastOfRounds`;
induction on the number of rounds goes by the least counterexample (`LeastNat`),
since the induction theorems of the library cannot be instantiated.
A definition that is accepted is well-founded, which `DagProofs` uses.

**`DagProofs`.** For any number of nodes, any requests, launches and
disturbances: `DagTypes`, `NodesWaitForDependencies`, `StatusHasReason`,
`NoNodeLeftWaiting`. None of the last three is inductive, because hooks act on
copies. `DInv` says of the rows and of every hook's copy alike that a satisfied
state has a task that justifies it (`Truth`) and that a row that is waiting is
waiting in every copy (`HookOK`), so a stale copy only ever lags behind. Tasks
that ended keep their outcome, which makes those facts stable. `OneTaskPerNode`
and `SerialRunsConclude` rest on `SInv`, about executions without overlap: at
most one launcher is active, a node row tells exactly which tasks the node has
had (`Tracked`, `Once`), and a waiting node has an unsatisfied dependency or a
launcher that is about to release it (`Moving`). When nothing is left to run, a
waiting node would then have an infinite chain of waiting dependencies, which
`Rooted` (from `DagValidateProofs`) excludes.

**`ExternalProofs`, `ExternalWorkerProofs`.** For any
tasks, workers, slots, keys and bounds: `IdempotencyKeys` (`KeyInv`),
`NoReadyTaskForgotten` (`QueueInv`), `ChannelsClosedOnce`; then, for workers
that kept their object, `WorkerInv`, preserved by the scheduler (first module)
and by everybody else (second), from which `UnreportedStaysOpen`,
`ReportsDecideTheirAttempt` and `SentOccupiesSlots` follow. `WorkerInv` has three
parts: everybody who refers
to an object of the worker refers to the same one (`OneObject`); each task is
with the worker at most once and on a slot (`OneEach`); what is unreported is
undecided and a row the worker owns is at the attempt the worker has
(`Current`). `OneObject` needs that only a reaper pass or a restart drops
objects; `OneEach` that `ReserveSlot` refuses an id it already holds.
`ExternalTypes` includes the bounds: no object holds more ids than slots, no
channel more tasks than its buffer. `ObjectStep` says in which ways a step may
change an object, and the bounds follow move by move.

**`AlgorithmsProofs`.** The pure parts, for every input.

* `LowIsServed`, for every watermark and workload: the number of bypasses never
  exceeds the streak, and the streak never the watermark; `ChoiceWithLow` and
  `ChoiceWithoutLow` say what a choice does when Low work can run or cannot.
* `LayersTight` from `RoundInv`. `CyclesFound`: the loop has ended after `Len(def)`
  rounds, because each layers at least one node (`LoopEnds`); what is left then
  has a dependency that is left (`ResidualFacts`), and among finitely many such
  nodes the one that reaches fewest is on a cycle (`NoEscape`). Layered nodes
  reach earlier layers only (`LayeredIsFree`).
* `NextEarliest` and `RetriesInMinute`, on every calendar: `RestOfMonth` and
  `RestOfHour` say which minutes share a field with a candidate, so `Skip` passes
  over none that matches (`SkipMissesNothing`). The search is a recursive function
  on minutes; `NextIsFound` shows that "the least matching minute before the limit"
  solves its equation and that nothing else does, by descent from the limit.
* `DelaysDouble`: in the same way, "base times the least sufficient power of two"
  is the only solution of the doubling loop (`ExponentialIsBackoff`). The prover
  knows nothing of powers; `PowerOfTwo` counts subsets instead.

Only model-checked:

* `EveryTaskSettles` and the temporal properties of the runs in section 3 that
  show a disagreement: liveness under fairness is outside what the proof system
  handles.

## 5. Not modelled

* Graceful stop and the drain of embedded workers: they run only while the
  process stops. What they leave behind, a crash leaves behind too.
* `registry.pick`'s ordering and cursor: any worker that can handle the task
  may be picked, so every property holds for each order.
* Preemption of external attempts, capabilities of external workers, and their
  preempt flag, which nothing reads.
* Worker statistics and the metrics ring: counters that no decision reads.
* `SubmitInput` and body validation, the text form of cron expressions, leap
  years and time zones.
* `DeleteWorker` and `RequeueReady` have no caller.

Left out for good: callbacks (a POST whose result is ignored), error
categories (labels no decision reads), audit rows (never read back),
configuration, routing and views (wiring and formatting), test doubles.

The Go distribution under `src/tools/go` is a tool of the build, not part of the
system; nothing of it is modelled.
