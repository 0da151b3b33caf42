------------------------------- MODULE Schema -------------------------------
(***************************************************************************)
(* Which statements of internal/storage the database can never execute, as *)
(* computed from the text the code builds and from the schema.  AsyncFlow  *)
(* takes the result as its constant Rejected.                              *)
(***************************************************************************)
EXTENDS Sequences, Naturals

\* The text of taskColumns, one sequence per source line: within a line the
\* columns are separated by ", ", between lines by a comma and a line break.
taskColumns ==
    << <<"id", "idempotency_key", "type", "payload", "priority", "status">>,
       <<"max_retries", "attempts", "timeout_seconds">>,
       <<"retry_kind", "retry_base", "retry_cron">>,
       <<"callback_url", "execute_after", "worker_id", "lease_expires_at">>,
       <<"dag_id", "dag_node_id", "last_error", "error_category">>,
       <<"created_at", "updated_at", "started_at", "finished_at">> >>

\* The columns prefixedColumns leaves without the alias: it splits on ", ", so
\* a column that opens a later line stays glued to the one before it.
Unprefixed == {taskColumns[line][1] : line \in 2..Len(taskColumns)}

\* The workers table; every column of it is NOT NULL.
workersColumns ==
    {"id", "name", "capabilities", "total_slots", "used_slots", "status", "last_heartbeat",
     "current_tasks", "completed_count", "failed_count", "created_at"}

\* ReclaimExpired joins tasks and workers: a bare column of both is ambiguous.
ReclaimExpiredRejected == Unprefixed \intersect workersColumns # {}

\* The columns of `workers` that newEmbeddedWorker leaves nil: pgx sends a nil
\* slice as NULL, and an explicit NULL does not fall back on the default.
NilSlices == {"current_tasks"}
UpsertWorkerRejected == NilSlices \intersect workersColumns # {}

\* RetryDead writes its audit rows while the rows of its own UPDATE ... RETURNING
\* are still being read; a pgx connection refuses a statement until they are.
RejectedCalls ==
    {"RetryDead"}
    \union (IF ReclaimExpiredRejected THEN {"ReclaimExpired"} ELSE {})
    \union (IF UpsertWorkerRejected THEN {"UpsertWorker"} ELSE {})
=============================================================================
