------------------------------ MODULE TaskStore ------------------------------
(***************************************************************************)
(* internal/storage: the authoritative task state machine in PostgreSQL.   *)
(* Every transaction of the package that writes tasks or task_attempts is  *)
(* one operator, guarded by its WHERE clause; a caller whose guard is      *)
(* false gets ErrConflict and changes nothing.                             *)
(*                                                                         *)
(* Kept: status, worker_id, whether the lease is still in the future,      *)
(* attempts, execute_after (NULL, which is always due, is instant 0) and   *)
(* one status per task_attempts row.  Left out: payloads, error texts,     *)
(* audit rows, timestamps nothing reads back.                              *)
(***************************************************************************)
EXTENDS Domain, Sequences

VARIABLES
    status,        \* tasks.status
    workerId,      \* tasks.worker_id
    leaseLive,     \* tasks.lease_expires_at is set and in the future
    attempts,      \* tasks.attempts
    executeAfter,  \* tasks.execute_after
    history        \* history[t][n]: task_attempts.status of attempt n of t

storeVars == <<status, workerId, leaseLive, attempts, executeAfter, history>>

AttemptStatus == {"running", "succeeded", "failed", "interrupted", "timeout"}

StoreInit ==
    /\ status = [t \in Task |-> "none"]
    /\ workerId = [t \in Task |-> NoWorker]
    /\ leaseLive = [t \in Task |-> FALSE]
    /\ attempts = [t \in Task |-> 0]
    /\ executeAfter = [t \in Task |-> 0]
    /\ history = [t \in Task |-> <<>>]

\* status := s, worker_id := '', lease_expires_at := NULL for the rows of S.
ReleaseRows(S, s) ==
    /\ status' = [t \in Task |-> IF t \in S THEN s ELSE status[t]]
    /\ workerId' = [t \in Task |-> IF t \in S THEN NoWorker ELSE workerId[t]]
    /\ leaseLive' = [t \in Task |-> leaseLive[t] /\ t \notin S]

\* Mutant: the attempt rows are not closed with the task.
CloseNothing(S, s) == UNCHANGED history

\* The attempt rows of S that have no ended_at are closed with status s.
CloseOpenAttempts(S, s) ==
    history' = [t \in Task |->
                  IF t \notin S THEN history[t]
                  ELSE [n \in DOMAIN history[t] |->
                          IF history[t][n] = "running" THEN s ELSE history[t][n]]]

-----------------------------------------------------------------------------
CreateTask(t, s, due) ==
    /\ status[t] = "none"
    /\ status' = [status EXCEPT ![t] = s]
    /\ executeAfter' = [executeAfter EXCEPT ![t] = due]
    /\ UNCHANGED <<workerId, leaseLive, attempts, history>>

\* Mutant: no attempt row is inserted.
BeginAttemptNoRow(t, w) ==
    /\ status[t] = "ready"
    /\ status' = [status EXCEPT ![t] = "running"]
    /\ workerId' = [workerId EXCEPT ![t] = w]
    /\ leaseLive' = [leaseLive EXCEPT ![t] = TRUE]
    /\ attempts' = [attempts EXCEPT ![t] = @ + 1]
    /\ UNCHANGED <<executeAfter, history>>

BeginAttempt(t, w) ==
    /\ status[t] = "ready"
    /\ status' = [status EXCEPT ![t] = "running"]
    /\ workerId' = [workerId EXCEPT ![t] = w]
    /\ leaseLive' = [leaseLive EXCEPT ![t] = TRUE]
    /\ attempts' = [attempts EXCEPT ![t] = @ + 1]
    /\ history' = [history EXCEPT ![t] = Append(@, "running")]
    /\ UNCHANGED executeAfter

\* Mutant: ownership is not tied to the worker.
OwnsAny(t, w) == status[t] = "running"

Owns(t, w) == status[t] = "running" /\ workerId[t] = w

RenewLease(t, w) ==
    /\ Owns(t, w)
    /\ leaseLive' = [leaseLive EXCEPT ![t] = TRUE]
    /\ UNCHANGED <<status, workerId, attempts, executeAfter, history>>

\* The ownership test looks at status and worker_id, not at which attempt the
\* caller ran; the row closed is the task's current attempt.
\* outcome: "succeeded", "dead", or "pending" for a retry at `due`.
CompleteAttempt(t, w, outcome, due) ==
    /\ Owns(t, w)
    /\ ReleaseRows({t}, outcome)
    /\ history' = [history EXCEPT ![t][attempts[t]] =
                     IF outcome = "succeeded" THEN "succeeded" ELSE "failed"]
    /\ executeAfter' = [executeAfter EXCEPT ![t] = IF outcome = "pending" THEN due ELSE @]
    /\ UNCHANGED attempts

\* Mutant: the WHERE clause lost its status test.
PreemptUnguarded(t) ==
    /\ ReleaseRows({t}, "ready")
    /\ CloseOpenAttempts({t}, "interrupted")
    /\ UNCHANGED <<attempts, executeAfter>>

\* No worker_id in the WHERE clause: whoever runs the task is interrupted.
Preempt(t) ==
    /\ status[t] = "running"
    /\ ReleaseRows({t}, "ready")
    /\ CloseOpenAttempts({t}, "interrupted")
    /\ UNCHANGED <<attempts, executeAfter>>

\* The rows selected by ReclaimExpired: the LEFT JOIN treats a missing worker
\* row like an offline one, so Online is the set of workers it finds online.
Expired(Online) ==
    {t \in Task : status[t] = "running" /\ (~leaseLive[t] \/ workerId[t] \notin Online)}

\* Mutant: a lost attempt counts as the last one.
ReclaimDead(S) ==
    /\ ReleaseRows(S, "dead")
    /\ CloseOpenAttempts(S, "timeout")
    /\ UNCHANGED <<attempts, executeAfter>>

ReclaimExpired(S) ==
    /\ ReleaseRows(S, "ready")
    /\ CloseOpenAttempts(S, "timeout")
    /\ UNCHANGED <<attempts, executeAfter>>

Promotable(ids, now) == {t \in ids : status[t] = "pending" /\ executeAfter[t] <= now}

MarkReadyByIDs(ids, now) ==
    /\ status' = [t \in Task |-> IF t \in Promotable(ids, now) THEN "ready" ELSE status[t]]
    /\ UNCHANGED <<workerId, leaseLive, attempts, executeAfter, history>>

\* Attempt rows of the interrupted runs are left open.
RecoverInflight ==
    /\ ReleaseRows({t \in Task : status[t] = "running"}, "ready")
    /\ UNCHANGED <<attempts, executeAfter, history>>

\* CancelTask is a SELECT without FOR UPDATE, then an UPDATE by id alone: the
\* caller tests the terminal statuses on what the SELECT saw.
CancelRead(t) == status[t] \notin TerminalStatuses \union {"none"}

CancelWrite(t) ==
    /\ status' = [status EXCEPT ![t] = "canceled"]
    /\ UNCHANGED <<workerId, leaseLive, attempts, executeAfter, history>>

Dead(ids) == {t \in ids : status[t] = "dead"}

RetryDead(ids) ==
    /\ status' = [t \in Task |-> IF t \in Dead(ids) THEN "ready" ELSE status[t]]
    /\ executeAfter' = [t \in Task |-> IF t \in Dead(ids) THEN 0 ELSE executeAfter[t]]
    /\ UNCHANGED <<workerId, leaseLive, attempts, history>>

DiscardDead(ids) ==
    /\ status' = [t \in Task |-> IF t \in Dead(ids) THEN "canceled" ELSE status[t]]
    /\ UNCHANGED <<workerId, leaseLive, attempts, executeAfter, history>>

\* The clock passes lease_expires_at.
LeaseExpires(t) ==
    /\ status[t] = "running" /\ leaseLive[t]
    /\ leaseLive' = [leaseLive EXCEPT ![t] = FALSE]
    /\ UNCHANGED <<status, workerId, attempts, executeAfter, history>>

-----------------------------------------------------------------------------
(* The store under arbitrary callers.  A cancel is only ever issued for a row  *)
(* that was read before, and rows are never deleted.                           *)

\* What the loops and the handlers of a running process ask of the store.
StoreCall ==
    \/ \E t \in Task, s \in {"ready", "pending"}, due \in Time : CreateTask(t, s, due)
    \/ \E t \in Task, w \in Worker : BeginAttempt(t, w) \/ RenewLease(t, w)
    \/ \E t \in Task, w \in Worker, outcome \in {"succeeded", "pending", "dead"}, due \in Time :
          CompleteAttempt(t, w, outcome, due)
    \/ \E t \in Task : Preempt(t) \/ LeaseExpires(t) \/ (status[t] # "none" /\ CancelWrite(t))
    \/ \E Online \in SUBSET Worker : ReclaimExpired(Expired(Online))
    \/ \E ids \in SUBSET Task, now \in Time : MarkReadyByIDs(ids, now)
    \/ \E ids \in SUBSET Task : RetryDead(ids) \/ DiscardDead(ids)

StoreNext == StoreCall \/ RecoverInflight

StoreSpec == StoreInit /\ [][StoreNext]_storeVars

StoreTypeOK ==
    /\ status \in [Task -> TaskStatus]
    /\ workerId \in [Task -> Worker \union {NoWorker}]
    /\ leaseLive \in [Task -> BOOLEAN]
    /\ attempts \in [Task -> Nat]
    /\ executeAfter \in [Task -> Time]
    /\ history \in [Task -> Seq(AttemptStatus)]

\* The current attempt of a running task is its last row and is still open
\* (BeginAttempt's insert, CompleteAttempt's UPDATE by attempt_no): whatever
\* preempts, reclaims, recovers or cancels closes it with the row or leaves it
\* to a task that no longer runs.
RunningHasOpenAttempt ==
    \A t \in Task :
        /\ Len(history[t]) = attempts[t]
        /\ status[t] = "running" => attempts[t] > 0 /\ history[t][attempts[t]] = "running"

\* The attempt rows still open although their attempt is over.
OrphanRows(t) ==
    {n \in DOMAIN history[t] : history[t][n] = "running" /\ ~(status[t] = "running" /\ n = attempts[t])}

Lifecycle == INSTANCE TaskLifecycle

\* Rows only move along the edges of the state machine, crashes and races
\* included; canceled is final and attempts count the ready -> running moves.
LifecycleSpec == Lifecycle!LSpec

=============================================================================
