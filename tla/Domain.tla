------------------------------- MODULE Domain -------------------------------
(***************************************************************************)
(* The vocabulary of internal/domain/models.go that every other module     *)
(* uses: priorities, task statuses and the wall clock's two resolutions.   *)
(***************************************************************************)
EXTENDS Integers, FiniteSets

CONSTANTS
    Task,           \* task ids (UUIDs in the code)
    NoTask,         \* no task: an unset local variable
    Worker,         \* executor ids
    NoWorker,       \* the empty worker_id column
    Priority,       \* Priority[t]: the rank of t's priority
    MaxRetries,     \* MaxRetries[t]: the max_retries column of t
    TicksPerMilli,  \* clock instants per unix millisecond
    MaxTime,        \* bound: the last instant of the clock
    Batch           \* PopDue's limit (delayscheduler's batch, 500)

\* domain.PriorityOrder by Rank(): critical, high, normal, low, bulk.
Rank == 0..4
PriorityHigh == 1
PriorityNormal == 2
PriorityLow == 3

ASSUME NoneAssumption == NoTask \notin Task /\ NoWorker \notin Worker
ASSUME PriorityAssumption == Priority \in [Task -> Rank]
ASSUME MaxRetriesAssumption == MaxRetries \in [Task -> Nat]
ASSUME TimeAssumption == TicksPerMilli \in Nat \ {0} /\ MaxTime \in Nat
ASSUME BatchAssumption == Batch \in Nat \ {0}

Time == 0..MaxTime

\* "none" is a row not yet inserted.  'failed' and 'paused' exist as names in
\* the code but no statement ever writes them.
TaskStatus ==
    {"none", "pending", "ready", "running", "succeeded", "dead", "canceled"}

TerminalStatuses == {"succeeded", "dead", "canceled"}

\* queue.WaitKind: delayed submissions and scheduled retries.
WaitKind == {"delay", "retry"}

\* time.Time.UnixMilli: Redis scores drop what Postgres timestamps keep.
UnixMilli(instant) == instant \div TicksPerMilli

=============================================================================
