------------------------------ MODULE AsyncFlow ------------------------------
(***************************************************************************)
(* One backend process with its embedded workers, composed with PostgreSQL *)
(* (TaskStore) and Redis (RedisQueue), both of which survive the process.  *)
(* The goroutines are the dispatch loop (scheduler), the promotion loop    *)
(* (delayscheduler), the recovery loop (reaper), one goroutine per         *)
(* delivered attempt (workerpool + engine.ReportResult) and the HTTP       *)
(* handlers of internal/api.  A step is one transaction, one Redis call or *)
(* one critical section of Worker.mu, together with the private            *)
(* computation that follows it; everything may interleave between steps.   *)
(***************************************************************************)
EXTENDS TaskStore, RedisQueue, Fairness

CONSTANTS
    Slots,           \* Slots[w]: concurrency of worker w
    Capable,         \* Capable[w]: tasks whose type w advertises ("*": all)
    HasHandler,      \* HasHandler[w]: tasks whose exact type w registers
    Retriable,       \* tasks whose retry policy yields a next delay
    Delays,          \* possible retry and submission delays, in instants
    Cancellable,     \* bound: the tasks clients ask to cancel
    Rejected,        \* store calls whose SQL the database rejects every time
    MaxAttempts, MaxFaults, MaxCrashes, MaxStalls, MaxExpiries, MaxDeadRetries

ASSUME WorkerAssumption ==
    /\ Slots \in [Worker -> Nat \ {0}]
    /\ Capable \in [Worker -> SUBSET Task]
    /\ HasHandler \in [Worker -> SUBSET Task]
ASSUME RetryAssumption == Retriable \subseteq Task /\ Delays \subseteq Nat
ASSUME CancellableAssumption == Cancellable \subseteq Task
ASSUME RejectedAssumption == Rejected \subseteq {"ReclaimExpired", "RetryDead", "UpsertWorker"}
ASSUME BoundAssumption ==
    {MaxAttempts, MaxFaults, MaxCrashes, MaxStalls, MaxExpiries, MaxDeadRetries} \subseteq Nat

VARIABLES
    phase,        \* "down", "recovering" (Runtime.Start) or "up"
    starting,     \* ready tasks Start still has to enqueue
    sched,        \* locals of dispatchOne
    highStreak,   \* Scheduler.highStreak
    execs,        \* executorRegistry.execs
    reserved,     \* reserved[w]: Worker.reserved
    tasks,        \* tasks[w]: keys of Worker.tasks
    preempted,    \* preempted[w]: the keys of tasks[w] flagged preempted
    runs,         \* the attempt goroutines
    delay,        \* locals of promoteOnce
    reap,         \* locals of ReapOnce
    submitting,   \* submitting[t]: engine.Submit of t between insert and push
    cancelling,   \* cancelling[t]: the cancelTask handler's progress
    requeueing,   \* dead tasks retryDead has moved and not yet enqueued
    online,       \* workers whose row exists and is not 'offline'
    fresh,        \* workers whose last_heartbeat is within the TTL
    now,          \* the clock
    budget        \* how often each kind of disturbance has happened

memoryVars == <<reserved, tasks, preempted>>
apiVars == <<submitting, cancelling, requeueing>>
processVars == <<phase, starting, sched, highStreak, execs, memoryVars, runs,
                 delay, reap, apiVars>>
vars == <<storeVars, queueVars, processVars, online, fresh, now, budget>>

IdleSched == [pc |-> "idle", prio |-> 0, task |-> NoTask, exec |-> NoWorker, victim |-> NoTask]
IdleDelay == [pc |-> "pop", kind |-> "delay", now |-> 0, ids |-> {}]
IdleReap  == [pc |-> "idle", offline |-> {}, ids |-> {}]

ProcessInit ==
    /\ phase = "down" /\ starting = {}
    /\ sched = IdleSched /\ highStreak = 0 /\ execs = {}
    /\ reserved = [w \in Worker |-> {}]
    /\ tasks = [w \in Worker |-> {}]
    /\ preempted = [w \in Worker |-> {}]
    /\ runs = {} /\ delay = IdleDelay /\ reap = IdleReap
    /\ submitting = [t \in Task |-> "no"]
    /\ cancelling = [t \in Task |-> "no"]
    /\ requeueing = {}

Init ==
    /\ StoreInit /\ QInit /\ ProcessInit
    /\ online = {} /\ fresh = {} /\ now = 0
    /\ budget = [faults |-> 0, crashes |-> 0, stalls |-> 0, expiries |-> 0, retries |-> 0]

Up == phase = "up"

loopVars == <<phase, starting, delay, reap, apiVars, online, fresh, now>>

\* A database or Redis call returns an error.  Errors are counted since the
\* last start, because starting repairs what they lose.
Fault ==
    /\ budget.faults < MaxFaults
    /\ budget' = [budget EXCEPT !.faults = @ + 1]

OK == UNCHANGED budget

-----------------------------------------------------------------------------
(* workerpool.Worker: critical sections of Worker.mu.                      *)

\* Mutant: an off-by-one in the capacity test.
FreeSlotOrLast(w) == Cardinality(tasks[w]) + Cardinality(reserved[w]) <= Slots[w]

FreeSlot(w) == Cardinality(tasks[w]) + Cardinality(reserved[w]) < Slots[w]

CanHandle(w, t) == FreeSlot(w) /\ t \in Capable[w]

HasPreemptibleTask(w) == \E t \in tasks[w] : Priority[t] >= PriorityNormal

ReleaseSlot(w, t) ==
    /\ reserved' = [reserved EXCEPT ![w] = @ \ {t}]
    /\ tasks' = [tasks EXCEPT ![w] = @ \ {t}]
    /\ preempted' = [preempted EXCEPT ![w] = @ \ {t}]

-----------------------------------------------------------------------------
(* scheduler.dispatchOne, one pc value per shared access.                  *)

SchedAt(pc) == Up /\ sched.pc = pc

Goto(pc) == sched' = [sched EXCEPT !.pc = pc]

SchedFrame == UNCHANGED <<loopVars, execs>>

\* availableFor is blind to task types: any free slot makes a level eligible.
availableFor(p) ==
    /\ list[p] # <<>>
    /\ \E w \in execs : FreeSlot(w) \/ (p <= PriorityHigh /\ HasPreemptibleTask(w))

Available == {p \in Rank : availableFor(p)}

SchedChoose ==
    /\ SchedAt("idle")
    /\ highStreak' = StreakAfterChoice(Available, highStreak)
    /\ sched' = IF Available = {} THEN sched
                ELSE [sched EXCEPT !.pc = "dequeue",
                                   !.prio = choosePriority(Available, highStreak)]
    /\ UNCHANGED <<storeVars, queueVars, memoryVars, runs, budget>> /\ SchedFrame

\* Only this loop pops, so the list found non-empty above still is.  An error
\* after Redis ran the script loses the popped id.
SchedDequeue ==
    /\ SchedAt("dequeue")
    /\ Dequeue(sched.prio)
    /\ \/ /\ sched' = [sched EXCEPT !.pc = "pick", !.task = Head(list[sched.prio])]
          /\ OK
       \/ Fault /\ sched' = IdleSched
    /\ UNCHANGED <<storeVars, memoryVars, runs, highStreak>> /\ SchedFrame

\* GetTask and registry.pick.  Which candidate the round-robin cursor selects
\* is left open.  GetTask's error drops the popped id.
SchedPick ==
    /\ SchedAt("pick")
    /\ \/ /\ \E w \in execs : CanHandle(w, sched.task)
                              /\ sched' = [sched EXCEPT !.pc = "reserve", !.exec = w]
          /\ OK
       \/ /\ \A w \in execs : ~CanHandle(w, sched.task)
          /\ Goto(IF Priority[sched.task] <= PriorityHigh THEN "victim" ELSE "requeue")
          /\ OK
       \/ Fault /\ sched' = IdleSched
    /\ UNCHANGED <<storeVars, queueVars, memoryVars, runs, highStreak>> /\ SchedFrame

\* maybePreempt: the snapshot of RunningTasks is worker memory, which may
\* still list a task the database has already taken away from that worker.
Victims ==
    {v \in execs \X Task : /\ sched.task \in Capable[v[1]]
                          /\ v[2] \in tasks[v[1]]
                          /\ Priority[v[2]] > Priority[sched.task]}

SchedVictim ==
    /\ SchedAt("victim")
    /\ IF Victims = {} THEN Goto("requeue")
       ELSE \E v \in Victims :
               /\ \A u \in Victims : Priority[u[2]] <= Priority[v[2]]
               /\ sched' = [sched EXCEPT !.pc = "preempt", !.exec = v[1], !.victim = v[2]]
    /\ UNCHANGED <<storeVars, queueVars, memoryVars, runs, highStreak, budget>> /\ SchedFrame

SchedPreempt ==
    /\ SchedAt("preempt")
    /\ \/ Preempt(sched.victim) /\ Goto("flag") /\ OK
       \/ /\ status[sched.victim] # "running"           \* ErrConflict
          /\ Goto("requeue") /\ OK /\ UNCHANGED storeVars
       \/ Fault /\ Goto("requeue") /\ UNCHANGED storeVars
    /\ UNCHANGED <<queueVars, memoryVars, runs, highStreak>> /\ SchedFrame

\* Worker.Preempt, then ReleaseSlot: two critical sections.
SchedFlag ==
    /\ SchedAt("flag")
    /\ preempted' = [preempted EXCEPT ![sched.exec] = @ \union ({sched.victim} \intersect tasks[sched.exec])]
    /\ Goto("free")
    /\ UNCHANGED <<storeVars, queueVars, reserved, tasks, runs, highStreak, budget>> /\ SchedFrame

\* Mutant: the victim is not pushed back.
SchedFreeOnly ==
    /\ SchedAt("free")
    /\ ReleaseSlot(sched.exec, sched.victim)
    /\ Goto("reserve")
    /\ UNCHANGED <<storeVars, queueVars, runs, highStreak, budget>> /\ SchedFrame

SchedFree ==
    /\ SchedAt("free")
    /\ ReleaseSlot(sched.exec, sched.victim)
    /\ Goto("head")
    /\ UNCHANGED <<storeVars, queueVars, runs, highStreak, budget>> /\ SchedFrame

\* An error here loses the victim and gives the incoming task back.
SchedHead ==
    /\ SchedAt("head")
    /\ \/ EnqueueHead(Priority[sched.victim], sched.victim) /\ Goto("reserve") /\ OK
       \/ Fault /\ Goto("requeue") /\ UNCHANGED queueVars
    /\ UNCHANGED <<storeVars, memoryVars, runs, highStreak>> /\ SchedFrame

\* Mutant: a task the worker still runs may be reserved again.
SchedReserveAgain ==
    /\ SchedAt("reserve")
    /\ IF FreeSlot(sched.exec)
       THEN reserved' = [reserved EXCEPT ![sched.exec] = @ \union {sched.task}] /\ Goto("begin")
       ELSE Goto("requeue") /\ UNCHANGED reserved
    /\ UNCHANGED <<storeVars, queueVars, tasks, preempted, runs, highStreak, budget>> /\ SchedFrame

SchedReserve ==
    /\ SchedAt("reserve")
    /\ LET w == sched.exec IN
       IF FreeSlot(w) /\ sched.task \notin tasks[w] \union reserved[w]
       THEN reserved' = [reserved EXCEPT ![w] = @ \union {sched.task}] /\ Goto("begin")
       ELSE Goto("requeue") /\ UNCHANGED reserved
    /\ UNCHANGED <<storeVars, queueVars, tasks, preempted, runs, highStreak, budget>> /\ SchedFrame

\* On ErrConflict or an error the reservation, which only this loop reads, is
\* given back at once.
SchedBegin ==
    /\ SchedAt("begin")
    /\ \/ /\ attempts[sched.task] < MaxAttempts
          /\ BeginAttempt(sched.task, sched.exec)
          /\ Goto("deliver") /\ OK /\ UNCHANGED memoryVars
       \/ /\ status[sched.task] # "ready"
          /\ ReleaseSlot(sched.exec, sched.task)
          /\ sched' = IdleSched /\ OK /\ UNCHANGED storeVars
       \/ /\ Fault
          /\ ReleaseSlot(sched.exec, sched.task)
          /\ Goto("requeue") /\ UNCHANGED storeVars
    /\ UNCHANGED <<queueVars, runs, highStreak>> /\ SchedFrame

Run(pc, inline) ==
    [task |-> sched.task, no |-> attempts[sched.task], worker |-> sched.exec,
     inline |-> inline, pc |-> pc, ok |-> FALSE, due |-> 0]

Dispatched == sched' = IdleSched /\ highStreak' = notePop(sched.prio, highStreak)

\* Worker.Deliver.  A reservation that is gone makes it return nil without
\* starting anything.  A type without an exact handler is reported as failed
\* by the dispatch loop itself ("inline"), which waits for that.
SchedDeliver ==
    /\ SchedAt("deliver")
    /\ LET w == sched.exec
           t == sched.task IN
       \/ /\ t \notin reserved[w]
          /\ Dispatched /\ UNCHANGED <<memoryVars, runs>>
       \/ /\ t \in reserved[w] /\ t \in HasHandler[w]
          /\ reserved' = [reserved EXCEPT ![w] = @ \ {t}]
          /\ tasks' = [tasks EXCEPT ![w] = @ \union {t}]
          /\ preempted' = [preempted EXCEPT ![w] = @ \ {t}]
          /\ runs' = runs \union {Run("handler", FALSE)}
          /\ Dispatched
       \/ /\ t \in reserved[w] /\ t \notin HasHandler[w]
          /\ reserved' = [reserved EXCEPT ![w] = @ \ {t}]
          /\ runs' = runs \union {Run("report", TRUE)}
          /\ Goto("inline") /\ UNCHANGED <<tasks, preempted, highStreak>>
    /\ UNCHANGED <<storeVars, queueVars, budget>> /\ SchedFrame

SchedInline ==
    /\ SchedAt("inline")
    /\ \A r \in runs : ~r.inline
    /\ Dispatched
    /\ UNCHANGED <<storeVars, queueVars, memoryVars, runs, budget>> /\ SchedFrame

SchedRequeue ==
    /\ SchedAt("requeue")
    /\ \/ EnqueueHead(Priority[sched.task], sched.task) /\ OK
       \/ Fault /\ UNCHANGED queueVars
    /\ sched' = IdleSched
    /\ UNCHANGED <<storeVars, memoryVars, runs, highStreak>> /\ SchedFrame

Scheduler ==
    \/ SchedChoose \/ SchedDequeue \/ SchedPick \/ SchedVictim \/ SchedPreempt
    \/ SchedFlag \/ SchedFree \/ SchedHead \/ SchedReserve \/ SchedBegin
    \/ SchedDeliver \/ SchedInline \/ SchedRequeue

-----------------------------------------------------------------------------
(* Worker.runOne and engine.ReportResult, one goroutine per attempt.       *)

RunFrame == UNCHANGED <<sched, highStreak, execs, loopVars>>

Become(r, next) == runs' = (runs \ {r}) \union {next}

\* The handler returns or is cut off (interruption is cooperative, so any
\* time), then runOne looks for the preempted flag under its task id.
RunReturn(r) ==
    /\ r.pc = "handler"
    /\ \E ok \in BOOLEAN :
          Become(r, [r EXCEPT !.ok = ok,
                              !.pc = IF r.task \in preempted[r.worker] THEN "release" ELSE "report"])
    /\ UNCHANGED <<storeVars, queueVars, memoryVars, budget>> /\ RunFrame

\* Mutant: off by one, the last retry is never granted.
OutcomeOneShort(r) ==
    IF r.ok THEN "succeeded"
    ELSE IF r.no < MaxRetries[r.task] /\ r.task \in Retriable THEN "pending" ELSE "dead"

\* Retry or dead letter is decided by the attempt number this run was given.
Outcome(r) ==
    IF r.ok THEN "succeeded"
    ELSE IF r.no <= MaxRetries[r.task] /\ r.task \in Retriable THEN "pending" ELSE "dead"

RunReport(r) ==
    /\ r.pc = "report"
    /\ \/ \E due \in IF Outcome(r) = "pending" THEN {now + d : d \in Delays} \intersect Time ELSE {0} :
             /\ CompleteAttempt(r.task, r.worker, Outcome(r), due)
             /\ Become(r, [r EXCEPT !.due = due,
                                    !.pc = IF Outcome(r) = "pending" THEN "wait" ELSE "release"])
             /\ OK
       \/ /\ ~Owns(r.task, r.worker)                     \* ErrConflict
          /\ Become(r, [r EXCEPT !.pc = "release"]) /\ OK /\ UNCHANGED storeVars
       \/ /\ Fault
          /\ Become(r, [r EXCEPT !.pc = "release"]) /\ UNCHANGED storeVars
    /\ UNCHANGED <<queueVars, memoryVars>> /\ RunFrame

\* Mutant: the retry is recorded but never scheduled.
RunWaitForgets(r) ==
    /\ r.pc = "wait"
    /\ Become(r, [r EXCEPT !.pc = "release"])
    /\ UNCHANGED <<storeVars, queueVars, memoryVars, budget>> /\ RunFrame

\* The error of this AddWaiting is ignored by the code.
RunWait(r) ==
    /\ r.pc = "wait"
    /\ \/ AddWaiting("retry", r.task, r.due) /\ OK
       \/ Fault /\ UNCHANGED queueVars
    /\ Become(r, [r EXCEPT !.pc = "release"])
    /\ UNCHANGED <<storeVars, memoryVars>> /\ RunFrame

RunRelease(r) ==
    /\ r.pc = "release"
    /\ IF r.inline THEN UNCHANGED memoryVars ELSE ReleaseSlot(r.worker, r.task)
    /\ runs' = runs \ {r}
    /\ UNCHANGED <<storeVars, queueVars, budget>> /\ RunFrame

\* startLeaseRenewer: revives a lease that lapsed and was not yet reclaimed.
\* A refused renewal only cancels the handler's context.
RunRenew(r) ==
    /\ ~r.inline
    /\ ~leaseLive[r.task]
    /\ RenewLease(r.task, r.worker)
    /\ UNCHANGED <<queueVars, memoryVars, runs, budget>> /\ RunFrame

RunStep(r) == RunReturn(r) \/ RunReport(r) \/ RunWait(r) \/ RunRelease(r)

-----------------------------------------------------------------------------
(* delayscheduler.promoteOnce: "delay" first, then "retry", with the       *)
(* instant read at the start of the pass.                                  *)

DelayFrame == UNCHANGED <<phase, starting, sched, highStreak, execs, memoryVars, runs,
                          reap, apiVars, online, fresh, now>>

PassNow == IF delay.kind = "delay" THEN now ELSE delay.now

\* What follows once the ids of a kind are used up.
NextKind(d) ==
    IF d.ids # {} THEN d
    ELSE IF d.kind = "delay" THEN [d EXCEPT !.pc = "pop", !.kind = "retry"]
    ELSE IdleDelay

\* An error after Redis ran the script loses the popped ids.
DelayPop ==
    /\ Up /\ delay.pc = "pop"
    /\ \E ids \in SUBSET Task :
          /\ PopDue(delay.kind, PassNow, ids)
          /\ \/ /\ delay' = NextKind([delay EXCEPT !.pc = "mark", !.now = PassNow, !.ids = ids])
                /\ OK
             \/ ids # {} /\ Fault /\ delay' = IdleDelay
    /\ UNCHANGED storeVars /\ DelayFrame

DelayMark ==
    /\ Up /\ delay.pc = "mark"
    /\ \/ /\ MarkReadyByIDs(delay.ids, delay.now)
          /\ delay' = NextKind([delay EXCEPT !.pc = "push", !.ids = Promotable(@, delay.now)])
          /\ OK
       \/ /\ Fault /\ UNCHANGED storeVars
          /\ delay' = [delay EXCEPT !.pc = "putback"]
    /\ UNCHANGED queueVars /\ DelayFrame

\* An error abandons the rest of the pass, although the rows are ready.
DelayPush(t) ==
    /\ Up /\ delay.pc = "push" /\ t \in delay.ids
    /\ \/ /\ Enqueue(Priority[t], t)
          /\ delay' = NextKind([delay EXCEPT !.ids = @ \ {t}])
          /\ OK
       \/ Fault /\ delay' = IdleDelay /\ UNCHANGED queueVars
    /\ UNCHANGED storeVars /\ DelayFrame

\* The popped ids go back with the pass's instant as their score.
DelayPutBack(t) ==
    /\ Up /\ delay.pc = "putback" /\ t \in delay.ids
    /\ \/ AddWaiting(delay.kind, t, delay.now) /\ OK
       \/ Fault /\ UNCHANGED queueVars
    /\ delay' = IF delay.ids = {t} THEN IdleDelay ELSE [delay EXCEPT !.ids = @ \ {t}]
    /\ UNCHANGED storeVars /\ DelayFrame

DelayLoop == DelayPop \/ DelayMark \/ \E t \in Task : DelayPush(t) \/ DelayPutBack(t)

-----------------------------------------------------------------------------
(* reaper.ReapOnce.                                                        *)

ReapFrame == UNCHANGED <<phase, starting, sched, highStreak, memoryVars, runs,
                         delay, apiVars, fresh, now>>

\* MarkWorkersOffline: the rows whose heartbeat is too old flip.
ReapMark ==
    /\ Up /\ reap.pc = "idle"
    /\ online' = online \intersect fresh
    /\ reap' = [reap EXCEPT !.pc = IF online \subseteq fresh THEN "reclaim" ELSE "notify",
                            !.offline = online \ fresh]
    /\ UNCHANGED <<storeVars, queueVars, execs, budget>> /\ ReapFrame

\* ExternalManager.WorkerOffline: OnRemove runs for every id, embedded or not.
ReapNotify(w) ==
    /\ Up /\ reap.pc = "notify" /\ w \in reap.offline
    /\ execs' = execs \ {w}
    /\ reap' = [reap EXCEPT !.offline = @ \ {w},
                            !.pc = IF reap.offline = {w} THEN "reclaim" ELSE @]
    /\ UNCHANGED <<storeVars, queueVars, online, budget>> /\ ReapFrame

ReapReclaim ==
    /\ Up /\ reap.pc = "reclaim"
    /\ \/ /\ "ReclaimExpired" \notin Rejected
          /\ ReclaimExpired(Expired(online))
          /\ reap' = IF Expired(online) = {} THEN IdleReap
                     ELSE [reap EXCEPT !.pc = "push", !.ids = Expired(online)]
          /\ OK
       \/ /\ ("ReclaimExpired" \in Rejected /\ OK) \/ Fault
          /\ reap' = IdleReap /\ UNCHANGED storeVars
    /\ UNCHANGED <<queueVars, execs, online>> /\ ReapFrame

\* An error abandons the remaining reclaimed tasks.
ReapPush(t) ==
    /\ Up /\ reap.pc = "push" /\ t \in reap.ids
    /\ \/ /\ EnqueueHead(Priority[t], t)
          /\ reap' = IF reap.ids = {t} THEN IdleReap ELSE [reap EXCEPT !.ids = @ \ {t}]
          /\ OK
       \/ Fault /\ reap' = IdleReap /\ UNCHANGED queueVars
    /\ UNCHANGED <<storeVars, execs, online>> /\ ReapFrame

Reaper ==
    \/ ReapMark \/ ReapReclaim
    \/ \E w \in Worker : ReapNotify(w)
    \/ \E t \in Task : ReapPush(t)

-----------------------------------------------------------------------------
(* internal/api: handlers run concurrently with everything above.          *)

ApiFrame == UNCHANGED <<phase, starting, sched, highStreak, execs, memoryVars, runs,
                        delay, reap, online, fresh, now>>

\* engine.Submit: the insert, then the push.
SubmitCreate(t) ==
    /\ Up
    /\ \/ /\ CreateTask(t, "ready", 0)
          /\ submitting' = [submitting EXCEPT ![t] = "ready"]
       \/ \E d \in Delays \ {0} :
             /\ now + d \in Time
             /\ CreateTask(t, "pending", now + d)
             /\ submitting' = [submitting EXCEPT ![t] = "delayed"]
    /\ UNCHANGED <<queueVars, cancelling, requeueing, budget>> /\ ApiFrame

\* An error is returned to the client; the row stays.
SubmitPush(t) ==
    /\ Up
    /\ \/ submitting[t] = "ready" /\ Enqueue(Priority[t], t) /\ OK
       \/ submitting[t] = "delayed" /\ AddWaiting("delay", t, executeAfter[t]) /\ OK
       \/ submitting[t] # "no" /\ Fault /\ UNCHANGED queueVars
    /\ submitting' = [submitting EXCEPT ![t] = "no"]
    /\ UNCHANGED <<storeVars, cancelling, requeueing>> /\ ApiFrame

\* cancelTask: CancelTask's SELECT and UPDATE, then one ZREM per wait set.
CancelSelect(t) ==
    /\ Up /\ cancelling[t] = "no" /\ t \in Cancellable
    /\ CancelRead(t)
    /\ cancelling' = [cancelling EXCEPT ![t] = "update"]
    /\ UNCHANGED <<storeVars, queueVars, submitting, requeueing, budget>> /\ ApiFrame

CancelUpdate(t) ==
    /\ Up /\ cancelling[t] = "update"
    /\ CancelWrite(t)
    /\ cancelling' = [cancelling EXCEPT ![t] = "delay"]
    /\ UNCHANGED <<queueVars, submitting, requeueing, budget>> /\ ApiFrame

CancelUnwait(t) ==
    /\ Up /\ cancelling[t] \in WaitKind
    /\ \/ RemoveWaiting(cancelling[t], t) /\ OK
       \/ Fault /\ UNCHANGED queueVars
    /\ cancelling' = [cancelling EXCEPT ![t] = IF @ = "delay" THEN "retry" ELSE "no"]
    /\ UNCHANGED <<storeVars, submitting, requeueing>> /\ ApiFrame

\* retryDead and discardDead act on a batch of ids; rows that are not dead
\* any more are skipped.
RetryDeadBatch(ids) ==
    /\ Up /\ "RetryDead" \notin Rejected
    /\ Dead(ids) # {} /\ budget.retries < MaxDeadRetries
    /\ RetryDead(ids)
    /\ requeueing' = requeueing \union Dead(ids)
    /\ budget' = [budget EXCEPT !.retries = @ + 1]
    /\ UNCHANGED <<queueVars, submitting, cancelling>> /\ ApiFrame

\* The error of this Enqueue is ignored by the code.
RetryDeadPush(t) ==
    /\ Up /\ t \in requeueing
    /\ \/ Enqueue(Priority[t], t) /\ OK
       \/ Fault /\ UNCHANGED queueVars
    /\ requeueing' = requeueing \ {t}
    /\ UNCHANGED <<storeVars, submitting, cancelling>> /\ ApiFrame

DiscardDeadBatch(ids) ==
    /\ Up /\ Dead(ids) # {}
    /\ DiscardDead(ids)
    /\ UNCHANGED <<queueVars, apiVars, budget>> /\ ApiFrame

ApiStep(t) == SubmitPush(t) \/ CancelUpdate(t) \/ CancelUnwait(t) \/ RetryDeadPush(t)

Request ==
    \/ \E t \in Task : SubmitCreate(t) \/ CancelSelect(t)
    \/ \E ids \in SUBSET Task : RetryDeadBatch(ids) \/ DiscardDeadBatch(ids)

-----------------------------------------------------------------------------
(* runtime.Build and Start, the process's death, heartbeats and the clock. *)

\* The process dies: its memory is lost, PostgreSQL and Redis are not.
Crash ==
    /\ phase # "down" /\ budget.crashes < MaxCrashes
    /\ budget' = [budget EXCEPT !.crashes = @ + 1]
    /\ phase' = "down" /\ starting' = {}
    /\ sched' = IdleSched /\ highStreak' = 0 /\ execs' = {}
    /\ reserved' = [w \in Worker |-> {}]
    /\ tasks' = [w \in Worker |-> {}]
    /\ preempted' = [w \in Worker |-> {}]
    /\ runs' = {} /\ delay' = IdleDelay /\ reap' = IdleReap
    /\ submitting' = [t \in Task |-> "no"]
    /\ cancelling' = [t \in Task |-> "no"]
    /\ requeueing' = {}
    /\ UNCHANGED <<storeVars, queueVars, online, fresh, now>>

StartFrame == UNCHANGED <<sched, highStreak, memoryVars, runs, delay, reap, apiVars, now>>

\* Mutant: only the rows recovered from running are enqueued again.
StartRecoverRunning ==
    /\ phase = "down"
    /\ IF "UpsertWorker" \in Rejected THEN UNCHANGED <<online, fresh>>
       ELSE online' = Worker /\ fresh' = Worker
    /\ RecoverInflight
    /\ starting' = {t \in Task : status[t] = "running"}
    /\ phase' = "recovering"
    /\ budget' = [budget EXCEPT !.faults = 0]
    /\ UNCHANGED <<queueVars, execs>> /\ StartFrame

\* newEmbeddedWorker registers the workers (its error is ignored), then Start
\* runs RecoverInflight.  Nothing else of the process runs yet.
StartRecover ==
    /\ phase = "down"
    /\ IF "UpsertWorker" \in Rejected THEN UNCHANGED <<online, fresh>>
       ELSE online' = Worker /\ fresh' = Worker
    /\ RecoverInflight
    /\ starting' = {t \in Task : status'[t] = "ready"}
    /\ phase' = "recovering"
    /\ budget' = [budget EXCEPT !.faults = 0]
    /\ UNCHANGED <<queueVars, execs>> /\ StartFrame

\* The error of this Enqueue is ignored by the code.
StartEnqueue(t) ==
    /\ phase = "recovering" /\ t \in starting
    /\ \/ Enqueue(Priority[t], t) /\ OK
       \/ Fault /\ UNCHANGED queueVars
    /\ starting' = starting \ {t}
    /\ UNCHANGED <<storeVars, phase, execs, online, fresh>> /\ StartFrame

\* Mutant: the loops start without rebuilding the wait sets.
StartWithoutRebuild ==
    /\ phase = "recovering" /\ starting = {}
    /\ phase' = "up" /\ execs' = Worker
    /\ UNCHANGED <<storeVars, queueVars, starting, online, fresh, budget>> /\ StartFrame

\* RebuildWaitSets, then the loops start.  Its error ends the process.
StartRebuild ==
    /\ phase = "recovering" /\ starting = {}
    /\ \/ /\ wait' = [wait EXCEPT !["retry"] =
                       [t \in Task |-> IF status[t] = "pending" THEN UnixMilli(executeAfter[t]) ELSE @[t]]]
          /\ UNCHANGED <<list, members>>
          /\ phase' = "up" /\ execs' = Worker /\ OK
       \/ Fault /\ phase' = "down" /\ UNCHANGED <<queueVars, execs>>
    /\ UNCHANGED <<storeVars, starting, online, fresh>> /\ StartFrame

Runtime == StartRecover \/ StartRebuild \/ \E t \in Task : StartEnqueue(t)

EnvFrame == UNCHANGED <<queueVars, processVars>>

\* A heartbeat revives an offline row; it does not touch the executor list.
Heartbeat(w) ==
    /\ Up
    /\ fresh' = fresh \union {w} /\ online' = online \union {w}
    /\ UNCHANGED <<storeVars, now, budget>> /\ EnvFrame

\* A worker's last heartbeat becomes older than the TTL.
Stall(w) ==
    /\ w \in fresh /\ budget.stalls < MaxStalls
    /\ fresh' = fresh \ {w}
    /\ budget' = [budget EXCEPT !.stalls = @ + 1]
    /\ UNCHANGED <<storeVars, online, now>> /\ EnvFrame

LeaseLapses(t) ==
    /\ budget.expiries < MaxExpiries
    /\ LeaseExpires(t)
    /\ budget' = [budget EXCEPT !.expiries = @ + 1]
    /\ UNCHANGED <<online, fresh, now>> /\ EnvFrame

Tick ==
    /\ now < MaxTime /\ now' = now + 1
    /\ UNCHANGED <<storeVars, online, fresh, budget>> /\ EnvFrame

Disturbance ==
    \/ Crash
    \/ \E w \in Worker : Stall(w)
    \/ \E t \in Task : LeaseLapses(t)

Next ==
    \/ Scheduler \/ DelayLoop \/ Reaper \/ Runtime
    \/ \E r \in runs : RunStep(r) \/ RunRenew(r)
    \/ \E t \in Task : ApiStep(t)
    \/ Request
    \/ \E w \in Worker : Heartbeat(w)
    \/ Tick \/ Disturbance

Spec == Init /\ [][Next]_vars

\* Every goroutine is scheduled again and again, handlers return (they run
\* under a timeout context), a dead process is restarted, heartbeats and the
\* clock go on.  Requests and disturbances are never forced.
FairSpec ==
    /\ Spec
    /\ WF_vars(Scheduler) /\ WF_vars(DelayLoop) /\ WF_vars(Reaper) /\ WF_vars(Runtime)
    /\ \A t \in Task : WF_vars(\E r \in runs : r.task = t /\ RunStep(r))
    /\ \A t \in Task : WF_vars(ApiStep(t))
    /\ \A w \in Worker : WF_vars(Heartbeat(w))
    /\ WF_vars(Tick)

-----------------------------------------------------------------------------
SchedPc ==
    {"idle", "dequeue", "pick", "victim", "preempt", "flag", "free", "head",
     "reserve", "begin", "deliver", "inline", "requeue"}

SchedTypeOK ==
    /\ sched \in [pc : SchedPc, prio : Rank, task : Task \union {NoTask},
                  exec : Worker \union {NoWorker}, victim : Task \union {NoTask}]
    /\ highStreak \in 0..HighWatermark
    /\ execs \subseteq Worker

RunRecord ==
    [task : Task, no : Nat, worker : Worker, inline : BOOLEAN,
     pc : {"handler", "report", "wait", "release"}, ok : BOOLEAN, due : Time]

PoolTypeOK ==
    /\ reserved \in [Worker -> SUBSET Task]
    /\ tasks \in [Worker -> SUBSET Task]
    /\ preempted \in [Worker -> SUBSET Task]
    /\ runs \subseteq RunRecord

LoopTypeOK ==
    /\ phase \in {"down", "recovering", "up"} /\ starting \subseteq Task
    /\ delay \in [pc : {"pop", "mark", "push", "putback"}, kind : WaitKind,
                  now : Time, ids : SUBSET Task]
    /\ reap \in [pc : {"idle", "notify", "reclaim", "push"},
                 offline : SUBSET Worker, ids : SUBSET Task]

ApiTypeOK ==
    /\ submitting \in [Task -> {"no", "ready", "delayed"}]
    /\ cancelling \in [Task -> {"no", "update"} \union WaitKind]
    /\ requeueing \subseteq Task
    /\ online \subseteq Worker /\ fresh \subseteq Worker /\ now \in Time
    /\ budget \in [faults : Nat, crashes : Nat, stalls : Nat, expiries : Nat, retries : Nat]

\* Besides the types of the variables: the fairness streak stays within the
\* watermark although it is raised, spent and reset at different places
\* (scheduler.go:109-133).
TypeOK ==
    QTypeOK /\ StoreTypeOK /\ SchedTypeOK /\ PoolTypeOK /\ LoopTypeOK /\ ApiTypeOK

\* Some goroutine has t in its hands and will still push it.
HeldReady(t) ==
    \/ sched.task = t /\ sched.pc \notin {"idle", "dequeue", "deliver", "inline"}
    \/ sched.victim = t /\ sched.pc \in {"flag", "free", "head"}
    \/ delay.pc = "push" /\ t \in delay.ids
    \/ t \in reap.ids \union starting \union requeueing
    \/ submitting[t] = "ready"

\* Runtime.Start's "no lost/duplicated work" (runtime.go:159), its lost half, kept up while running: as
\* long as no call has failed since the last start, a row that says ready is in
\* its Redis list or in the hands of a goroutine about to push it, whatever
\* dispatch, preemption, promotion, reclaim, cancel, dead-letter retry and
\* crashes do to each other.
NoReadyTaskLost ==
    phase # "down" /\ budget.faults = 0 =>
        \A t \in Task :
            status[t] = "ready" => t \in Range(list[Priority[t]]) \/ HeldReady(t)

\* Some goroutine has pending t in its hands and will add or promote it.
HeldPending(t) ==
    \/ delay.pc \in {"mark", "putback"} /\ t \in delay.ids
    \/ submitting[t] = "delayed"
    \/ \E r \in runs : r.task = t /\ r.pc = "wait"

\* A row that waits for its delay or its retry can still be promoted: it is in
\* a wait set or in the hands of a goroutine (promoteOnce drops the popped ids
\* PostgreSQL refuses, so an early pop would forget the task).
NoPendingTaskLost ==
    Up /\ budget.faults = 0 =>
        \A t \in Task :
            status[t] = "pending" => (\E k \in WaitKind : wait[k][t] # NotWaiting) \/ HeldPending(t)

\* A row that says running has a goroutine that will report on exactly that
\* attempt ("Deliver starts executing a claimed task", pool.go:175).
RunningHasRunner ==
    Up /\ budget.faults = 0 =>
        \A t \in Task : status[t] = "running" =>
            \/ sched.pc = "deliver" /\ sched.task = t
            \/ \E r \in runs : /\ r.task = t /\ r.no = attempts[t] /\ r.worker = workerId[t]
                              /\ r.pc \in {"handler", "report"}

\* An attempt is recorded as succeeded or failed only by its own run: a report
\* of an earlier run is refused (transitions.go:90).
VerdictFromOwnRun ==
    \A r \in runs : r.pc \in {"handler", "report"} =>
        history[r.task][r.no] \notin {"succeeded", "failed"}

\* A worker never executes more attempts at once than it has slots.
SlotBound ==
    \A w \in Worker : Cardinality({r \in runs : r.worker = w /\ ~r.inline}) <= Slots[w]

\* A task with a usable retry policy is dead only once it has used up its
\* first attempt and all its retries (engine.go:164-166).
DeadAfterAllAttempts ==
    \A t \in Retriable : status[t] = "dead" => attempts[t] > MaxRetries[t]

\* Only a crash or a cancellation leaves an attempt row open, each at most one
\* per task (RecoverInflight and CancelTask do not touch task_attempts):
\* completion, preemption and reclaim close what they end, whichever of them
\* comes first and whichever run reports late.
OrphansHaveCause ==
    \A t \in Task :
        Cardinality(OrphanRows(t)) <= budget.crashes + (IF status[t] = "canceled" THEN 1 ELSE 0)

\* A dispatch pass "keeps dispatching until no free slot or no ready task
\* remains" (scheduler.go:180): a ready task that some worker of the cluster
\* supports is eventually taken.
SupportedTaskStarts ==
    \A t \in Task : (\E w \in Worker : t \in Capable[w]) =>
        (status[t] = "ready" ~> status[t] # "ready")

\* "ReclaimExpired resets every running task whose lease has expired"
\* (transitions.go:220): a lapsed lease is renewed or the row taken back.
LapsedIsReclaimed ==
    \A t \in Task : status[t] = "running" /\ ~leaseLive[t] ~> status[t] # "running" \/ leaseLive[t]

\* Every submitted task is eventually settled for good or by an operator.
EveryTaskSettles ==
    \A t \in Task : status[t] # "none" ~> status[t] \in TerminalStatuses
=============================================================================
