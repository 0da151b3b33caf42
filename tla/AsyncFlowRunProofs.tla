------------------------- MODULE AsyncFlowRunProofs -------------------------
(***************************************************************************)
(* Proofs about attempts and the goroutines that run them: attempt rows    *)
(* left open, worker slots, which run may decide an attempt, and rows that *)
(* wait for a delay or a retry.                                            *)
(***************************************************************************)
EXTENDS AsyncFlowProofs

\* Zenon proves the leaves that cite no other prover.
USE ZenonT(30)

-----------------------------------------------------------------------------
(* Worker slots and runs when nothing is preempted.  Preemption frees the  *)
(* slot of a handler that still executes, so what follows is about task    *)
(* sets in which no task outranks another enough to preempt it.            *)

NoPreemption == \A t, u \in Task : Priority[t] <= PriorityHigh => Priority[u] <= Priority[t]

\* The dispatch loop holds a reservation.
Holding == sched.pc \in {"begin", "deliver"}

\* Nothing is preempted.
NoVictims ==
    /\ sched.pc \notin {"preempt", "flag", "free", "head"}
    /\ sched.pc = "victim" => Priority[sched.task] <= PriorityHigh

\* The only reservation is the dispatch loop's.
Reservations ==
    \A w \in Worker :
        /\ preempted[w] = {}
        /\ reserved[w] = IF Holding /\ w = sched.exec THEN {sched.task} ELSE {}

\* A worker's memory lists the tasks of its runs.
TasksAreRuns ==
    \A w \in Worker, t \in Task :
        t \in tasks[w] <=> \E r \in runs : r.worker = w /\ r.task = t /\ ~r.inline

OneRunEach == \A r, s \in runs : r.worker = s.worker /\ r.task = s.task => r = s

\* The dispatch loop waits for the failure it reports itself.
InlineWaits == \A r \in runs : r.inline => sched.pc = "inline"

HeldIsIdle == Holding => \A r \in runs : ~(r.worker = sched.exec /\ r.task = sched.task)

PoolInv == NoVictims /\ Reservations /\ TasksAreRuns /\ OneRunEach /\ InlineWaits /\ HeldIsIdle

\* Steps of the dispatch loop that neither take nor give back a reservation.
LEMMA PoolUntouched ==
    ASSUME PoolInv, UNCHANGED <<memoryVars, runs>>, ~Holding, ~Holding',
           \A r \in runs : ~r.inline,
           sched'.pc \notin {"preempt", "flag", "free", "head"},
           sched'.pc = "victim" => Priority[sched'.task] <= PriorityHigh
    PROVE  PoolInv'
<1>1. UNCHANGED <<reserved, tasks, preempted, runs>>
  BY DEF memoryVars
<1>2. NoVictims'
  BY DEF NoVictims
<1>3. Reservations'
  BY <1>1 DEF PoolInv, Reservations
<1>4. TasksAreRuns' /\ OneRunEach'
  BY SMTT(30), <1>1 DEF PoolInv, TasksAreRuns, OneRunEach
<1>5. InlineWaits' /\ HeldIsIdle'
  BY <1>1 DEF InlineWaits, HeldIsIdle
<1> QED BY <1>2, <1>3, <1>4, <1>5 DEF PoolInv

LEMMA PoolSched ==
    ASSUME NoPreemption, TypeInv, PoolInv, Scheduler
    PROVE  PoolInv'
<1>0. /\ sched \in [pc : SchedPc, prio : Rank, task : Task \union {NoTask},
                    exec : Worker \union {NoWorker}, victim : Task \union {NoTask}]
      /\ SchedLocals /\ PoolTypeOK
  BY DEF TypeInv, TypeOK, SchedTypeOK
<1>i. sched.pc # "inline" => \A r \in runs : ~r.inline
  BY DEF PoolInv, InlineWaits
<1>1. CASE SchedChoose \/ SchedDequeue \/ SchedRequeue
  <2>1. sched.pc \in {"idle", "dequeue", "requeue"} /\ UNCHANGED <<memoryVars, runs>>
    BY <1>1 DEF SchedChoose, SchedDequeue, SchedRequeue, SchedAt
  <2>2. \/ sched' = sched /\ sched.pc = "idle"
        \/ sched' = IdleSched
        \/ \E p : sched' = [sched EXCEPT !.pc = "dequeue", !.prio = p]
        \/ \E t : sched' = [sched EXCEPT !.pc = "pick", !.task = t]
    BY <1>1 DEF SchedChoose, SchedDequeue, SchedRequeue, SchedAt
  <2>3. sched'.pc \in {"idle", "dequeue", "pick"}
    <3>1. IdleSched.pc = "idle"
      BY DEF IdleSched
    <3> QED BY <1>0, <2>2, <3>1
  <2> QED BY <1>i, <2>1, <2>3, PoolUntouched DEF Holding
<1>2. CASE SchedPick
  <2>1. /\ sched.pc = "pick" /\ sched'.pc \in {"reserve", "victim", "requeue", "idle"}
        /\ UNCHANGED <<memoryVars, runs>>
        /\ sched'.pc = "victim" => Priority[sched'.task] <= PriorityHigh
    <3>1. sched.pc = "pick" /\ UNCHANGED <<memoryVars, runs>>
      BY <1>2 DEF SchedPick, SchedAt
    <3>2. \/ \E w : sched' = [sched EXCEPT !.pc = "reserve", !.exec = w]
          \/ sched' = [sched EXCEPT !.pc = IF Priority[sched.task] <= PriorityHigh THEN "victim" ELSE "requeue"]
          \/ sched' = IdleSched
      BY <1>2 DEF SchedPick, Goto
    <3>3. IdleSched.pc = "idle"
      BY DEF IdleSched
    <3> QED BY <1>0, <3>1, <3>2, <3>3
  <2> QED BY <1>i, <2>1, PoolUntouched DEF Holding
<1>3. CASE SchedVictim
  <2>1. sched.pc = "victim" /\ UNCHANGED <<memoryVars, runs>>
    BY <1>3 DEF SchedVictim, SchedAt
  <2>2. sched.task \in Task /\ Priority[sched.task] <= PriorityHigh
    BY <1>0, <2>1 DEF SchedLocals, PoolInv, NoVictims
  <2>3. \A u \in Task : ~(Priority[u] > Priority[sched.task])
    BY SMTT(30), <2>2, PriorityAssumption DEF NoPreemption, Rank
  <2>4. Victims = {}
    BY <2>3 DEF Victims
  <2>5. sched'.pc = "requeue"
    BY <1>0, <1>3, <2>4 DEF SchedVictim, Goto
  <2> QED BY <1>i, <2>1, <2>5, PoolUntouched DEF Holding
<1>4. CASE SchedPreempt \/ SchedFlag \/ SchedFree \/ SchedHead
  BY <1>4 DEF SchedPreempt, SchedFlag, SchedFree, SchedHead, SchedAt, PoolInv, NoVictims
<1>5. CASE SchedReserve
  <2> DEFINE w == sched.exec
             t == sched.task
  <2>1. sched.pc = "reserve" /\ w \in Worker /\ t \in Task /\ UNCHANGED <<tasks, preempted, runs>>
    BY <1>0, <1>5 DEF SchedReserve, SchedAt, SchedLocals
  <2>2. CASE Goto("requeue") /\ UNCHANGED reserved
    <3>1. sched'.pc = "requeue"
      BY <1>0, <2>2 DEF Goto
    <3> QED BY <1>i, <2>1, <2>2, <3>1, PoolUntouched DEF Holding, memoryVars
  <2>3. CASE /\ t \notin tasks[w] /\ Goto("begin")
             /\ reserved' = [reserved EXCEPT ![w] = @ \union {t}]
    <3>1. sched'.pc = "begin" /\ sched'.task = t /\ sched'.exec = w
      BY <1>0, <2>3 DEF Goto
    <3>2. \A r \in runs : ~(r.worker = w /\ r.task = t)
      BY <1>i, <2>1, <2>3 DEF PoolInv, TasksAreRuns
    <3>3. \A v \in Worker : reserved'[v] = IF v = w THEN {t} ELSE {}
      <4>1. \A v \in Worker : reserved[v] = {}
        BY <2>1 DEF PoolInv, Reservations, Holding
      <4> QED BY <1>0, <2>1, <2>3, <4>1 DEF PoolTypeOK
    <3>4. Reservations'
      BY <2>1, <3>1, <3>3 DEF PoolInv, Reservations, Holding
    <3>5. TasksAreRuns' /\ OneRunEach'
      BY <2>1 DEF PoolInv, TasksAreRuns, OneRunEach
    <3>6. InlineWaits' /\ HeldIsIdle' /\ NoVictims'
      BY <1>i, <2>1, <3>1, <3>2 DEF InlineWaits, HeldIsIdle, NoVictims
    <3> QED BY <3>4, <3>5, <3>6 DEF PoolInv
  <2> QED BY <1>5, <2>2, <2>3 DEF SchedReserve
<1>6. CASE SchedBegin
  <2>1. /\ sched.pc = "begin" /\ sched.exec \in Worker /\ sched.task \in Task /\ UNCHANGED runs
    BY <1>0, <1>6 DEF SchedBegin, SchedAt, SchedLocals
  <2>2. CASE Goto("deliver") /\ UNCHANGED memoryVars
    <3>1. sched'.pc = "deliver" /\ sched'.task = sched.task /\ sched'.exec = sched.exec
      BY <1>0, <2>2 DEF Goto
    <3>2. Reservations'
      BY <2>1, <2>2, <3>1 DEF PoolInv, Reservations, Holding, memoryVars
    <3>3. TasksAreRuns' /\ OneRunEach'
      BY <2>1, <2>2 DEF PoolInv, TasksAreRuns, OneRunEach, memoryVars
    <3>4. InlineWaits' /\ HeldIsIdle' /\ NoVictims'
      BY <1>i, <2>1, <3>1 DEF PoolInv, Holding, InlineWaits, HeldIsIdle, NoVictims
    <3> QED BY <3>2, <3>3, <3>4 DEF PoolInv
  <2>3. CASE ReleaseSlot(sched.exec, sched.task) /\ (sched' = IdleSched \/ Goto("requeue"))
    <3>1. sched'.pc \in {"idle", "requeue"}
      BY SMTT(30), <1>0, <2>3 DEF Goto, IdleSched
    <3>2. sched.task \notin tasks[sched.exec]
      BY SMTT(30), <2>1 DEF PoolInv, Holding, HeldIsIdle, TasksAreRuns
    <3>3. \A v \in Worker : reserved'[v] = {} /\ tasks'[v] = tasks[v] /\ preempted'[v] = {}
      <4>1. \A v \in Worker : preempted[v] = {} /\ (v # sched.exec => reserved[v] = {})
        BY DEF PoolInv, Reservations
      <4>2. reserved[sched.exec] = {sched.task}
        BY <2>1 DEF PoolInv, Reservations, Holding
      <4>3. reserved \in [Worker -> SUBSET Task] /\ tasks \in [Worker -> SUBSET Task] /\ preempted \in [Worker -> SUBSET Task]
        BY <1>0 DEF PoolTypeOK
      <4> QED BY SMTT(30), <2>1, <2>3, <3>2, <4>1, <4>2, <4>3 DEF ReleaseSlot
    <3>4. Reservations'
      BY <3>1, <3>3 DEF Reservations, Holding
    <3>5. TasksAreRuns' /\ OneRunEach'
      BY SMTT(30), <2>1, <3>3 DEF PoolInv, TasksAreRuns, OneRunEach
    <3>6. InlineWaits' /\ HeldIsIdle' /\ NoVictims'
      BY <1>i, <2>1, <3>1 DEF Holding, InlineWaits, HeldIsIdle, NoVictims
    <3> QED BY <3>4, <3>5, <3>6 DEF PoolInv
  <2> QED BY <1>6, <2>2, <2>3 DEF SchedBegin
<1>7. CASE SchedDeliver
  <2> DEFINE w == sched.exec
             t == sched.task
  <2>1. sched.pc = "deliver" /\ w \in Worker /\ t \in Task
    BY <1>0, <1>7 DEF SchedDeliver, SchedAt, SchedLocals
  <2>2. t \in reserved[w] /\ \A r \in runs : ~(r.worker = w /\ r.task = t)
    BY SMTT(30), <2>1 DEF PoolInv, Reservations, HeldIsIdle, Holding
  <2>c. \A v \in Worker : preempted[v] = {} /\ reserved[v] = IF v = w THEN {t} ELSE {}
    BY <2>1 DEF PoolInv, Reservations, Holding
  <2>d. reserved \in [Worker -> SUBSET Task] /\ tasks \in [Worker -> SUBSET Task] /\ preempted \in [Worker -> SUBSET Task]
    BY <1>0 DEF PoolTypeOK
  <2>3. CASE /\ reserved' = [reserved EXCEPT ![w] = @ \ {t}]
             /\ tasks' = [tasks EXCEPT ![w] = @ \union {t}]
             /\ preempted' = [preempted EXCEPT ![w] = @ \ {t}]
             /\ runs' = runs \union {Run("handler", FALSE)}
             /\ Dispatched
    <3>1. sched'.pc = "idle"
      BY <2>3 DEF Dispatched, IdleSched
    <3>2. \A v \in Worker : reserved'[v] = {} /\ preempted'[v] = {} /\ tasks'[v] = IF v = w THEN tasks[v] \union {t} ELSE tasks[v]
      BY <2>1, <2>3, <2>c, <2>d
    <3> DEFINE new == Run("handler", FALSE)
    <3>3. new.worker = w /\ new.task = t /\ ~new.inline /\ runs' = runs \union {new}
      BY <2>3 DEF Run
    <3> HIDE DEF new
    <3>4. \A v \in Worker, u \in Task : u \in tasks'[v] <=> \E r \in runs' : r.worker = v /\ r.task = u /\ ~r.inline
      <4> SUFFICES ASSUME NEW v \in Worker, NEW u \in Task
                   PROVE  u \in tasks'[v] <=> \E r \in runs' : r.worker = v /\ r.task = u /\ ~r.inline
        OBVIOUS
      <4>1. u \in tasks[v] <=> \E r \in runs : r.worker = v /\ r.task = u /\ ~r.inline
        BY DEF PoolInv, TasksAreRuns
      <4>2. u \in tasks'[v] <=> u \in tasks[v] \/ (v = w /\ u = t)
        <5>1. tasks'[v] = IF v = w THEN tasks[v] \union {t} ELSE tasks[v]
          BY <3>2
        <5> QED BY <5>1
      <4> QED BY <3>3, <4>1, <4>2
    <3>5. \A r, s \in runs' : r.worker = s.worker /\ r.task = s.task => r = s
      <4>1. \A r, s \in runs : r.worker = s.worker /\ r.task = s.task => r = s
        BY DEF PoolInv, OneRunEach
      <4> QED BY SMTT(30), <2>2, <3>3, <4>1
    <3>6. \A r \in runs' : ~r.inline
      BY <1>i, <2>1, <3>3
    <3> QED BY <3>1, <3>2, <3>4, <3>5, <3>6
            DEF PoolInv, Holding, NoVictims, Reservations, TasksAreRuns, OneRunEach, InlineWaits, HeldIsIdle
  <2>4. CASE /\ reserved' = [reserved EXCEPT ![w] = @ \ {t}]
             /\ runs' = runs \union {Run("report", TRUE)}
             /\ Goto("inline") /\ UNCHANGED <<tasks, preempted>>
    <3>1. sched'.pc = "inline"
      BY <1>0, <2>4 DEF Goto
    <3>2. \A v \in Worker : reserved'[v] = {} /\ preempted'[v] = {} /\ tasks'[v] = tasks[v]
      BY <2>1, <2>4, <2>c, <2>d
    <3> DEFINE new == Run("report", TRUE)
    <3>3. new.worker = w /\ new.task = t /\ new.inline /\ runs' = runs \union {new}
      BY <2>4 DEF Run
    <3> HIDE DEF new
    <3>4. \A v \in Worker, u \in Task : u \in tasks'[v] <=> \E r \in runs' : r.worker = v /\ r.task = u /\ ~r.inline
      BY SMTT(30), <3>2, <3>3 DEF PoolInv, TasksAreRuns
    <3>5. \A r, s \in runs' : r.worker = s.worker /\ r.task = s.task => r = s
      <4>1. \A r, s \in runs : r.worker = s.worker /\ r.task = s.task => r = s
        BY DEF PoolInv, OneRunEach
      <4> QED BY SMTT(30), <2>2, <3>3, <4>1
    <3> QED BY <3>1, <3>2, <3>4, <3>5
            DEF PoolInv, Holding, NoVictims, Reservations, TasksAreRuns, OneRunEach, InlineWaits, HeldIsIdle
  <2> QED BY <1>7, <2>2, <2>3, <2>4 DEF SchedDeliver
<1>8. CASE SchedInline
  <2>1. /\ sched.pc = "inline" /\ sched'.pc = "idle" /\ UNCHANGED <<memoryVars, runs>>
        /\ \A r \in runs : ~r.inline
    BY <1>8 DEF SchedInline, SchedAt, Dispatched, IdleSched
  <2> QED BY <2>1, PoolUntouched DEF Holding
<1> QED BY <1>1, <1>2, <1>3, <1>4, <1>5, <1>6, <1>7, <1>8 DEF Scheduler

\* A run goes on: same worker, same task, same place.
LEMMA PoolBecome ==
    ASSUME PoolInv, UNCHANGED <<sched, memoryVars>>, NEW r \in runs, NEW next, Become(r, next),
           next.worker = r.worker, next.task = r.task, next.inline = r.inline
    PROVE  PoolInv'
<1>1. UNCHANGED <<sched, reserved, tasks, preempted>> /\ runs' = (runs \ {r}) \union {next}
  BY DEF Become, memoryVars
<1>2. \A s \in runs' : \E q \in runs : s.worker = q.worker /\ s.task = q.task /\ s.inline = q.inline
  BY <1>1
<1>3. \A q \in runs : \E s \in runs' : s.worker = q.worker /\ s.task = q.task /\ s.inline = q.inline
  BY <1>1
<1>4. OneRunEach'
  <2> SUFFICES ASSUME NEW s \in runs', NEW q \in runs', s.worker = q.worker, s.task = q.task PROVE s = q
    BY DEF OneRunEach
  <2>1. \A a, b \in runs : a.worker = b.worker /\ a.task = b.task => a = b
    BY DEF PoolInv, OneRunEach
  <2> QED BY <1>1, <2>1
<1>5. TasksAreRuns'
  <2> SUFFICES ASSUME NEW w \in Worker, NEW t \in Task
               PROVE  t \in tasks'[w] <=> \E s \in runs' : s.worker = w /\ s.task = t /\ ~s.inline
    BY DEF TasksAreRuns
  <2>1. t \in tasks'[w] <=> \E q \in runs : q.worker = w /\ q.task = t /\ ~q.inline
    BY <1>1 DEF PoolInv, TasksAreRuns
  <2>2. ASSUME NEW s \in runs', s.worker = w, s.task = t, ~s.inline PROVE t \in tasks'[w]
    BY <1>2, <2>1, <2>2
  <2>3. ASSUME t \in tasks'[w] PROVE \E s \in runs' : s.worker = w /\ s.task = t /\ ~s.inline
    BY SMTT(30), <1>3, <2>1, <2>3
  <2> QED BY <2>2, <2>3
<1>6. InlineWaits' /\ HeldIsIdle'
  <2>1. \A q \in runs : q.inline => sched'.pc = "inline"
    BY <1>1 DEF PoolInv, InlineWaits
  <2>2. Holding' => \A q \in runs : ~(q.worker = sched'.exec /\ q.task = sched'.task)
    BY <1>1 DEF PoolInv, HeldIsIdle, Holding
  <2>3. InlineWaits'
    BY <1>2, <2>1 DEF InlineWaits
  <2>4. HeldIsIdle'
    BY <1>2, <2>2 DEF HeldIsIdle
  <2> QED BY <2>3, <2>4
<1>7. NoVictims' /\ Reservations'
  BY <1>1 DEF PoolInv, NoVictims, Reservations, Holding
<1> QED BY <1>4, <1>5, <1>6, <1>7 DEF PoolInv

\* What a run's steps do to the run itself.
LEMMA RunMoves ==
    ASSUME TypeInv, NEW r \in runs, RunStep(r)
    PROVE  \/ RunRelease(r)
           \/ \E next : /\ Become(r, next) /\ UNCHANGED memoryVars
                        /\ next.worker = r.worker /\ next.task = r.task /\ next.inline = r.inline
                        /\ next.no = r.no
<1>0. r \in RunRecord
  BY DEF TypeInv, TypeOK, PoolTypeOK
<1>2. ASSUME NEW pc, NEW due
      PROVE  LET next == [r EXCEPT !.due = due, !.pc = pc]
             IN next.worker = r.worker /\ next.task = r.task /\ next.inline = r.inline /\ next.no = r.no
  BY <1>0 DEF RunRecord
<1>3. ASSUME NEW pc
      PROVE  LET next == [r EXCEPT !.pc = pc]
             IN next.worker = r.worker /\ next.task = r.task /\ next.inline = r.inline /\ next.no = r.no
  BY <1>0 DEF RunRecord
<1>4. CASE RunReturn(r)
  <2>1. PICK ok, pc : Become(r, [r EXCEPT !.ok = ok, !.pc = pc])
    BY <1>4 DEF RunReturn
  <2> DEFINE next == [r EXCEPT !.ok = ok, !.pc = pc]
  <2>2. next.worker = r.worker /\ next.task = r.task /\ next.inline = r.inline /\ next.no = r.no
    BY <1>0 DEF RunRecord
  <2> QED BY <1>4, <2>1, <2>2 DEF RunReturn
<1>5. CASE RunReport(r)
  <2>0. UNCHANGED memoryVars
    BY <1>5 DEF RunReport
  <2>1. PICK due, pc : Become(r, [r EXCEPT !.due = due, !.pc = pc]) \/ Become(r, [r EXCEPT !.pc = pc])
    BY <1>5 DEF RunReport
  <2> QED BY <1>2, <1>3, <2>0, <2>1
<1>6. CASE RunWait(r)
  BY <1>3, <1>6 DEF RunWait
<1> QED BY <1>4, <1>5, <1>6 DEF RunStep

LEMMA PoolStepInv == NoPreemption /\ TypeInv /\ PoolInv /\ [Next]_vars => PoolInv'
<1> SUFFICES ASSUME NoPreemption, TypeInv, PoolInv, [Next]_vars PROVE PoolInv'
  OBVIOUS
<1>1. CASE Scheduler
  BY <1>1, PoolSched
<1>2. CASE Crash
  <2>1. /\ sched'.pc = "idle" /\ runs' = {}
        /\ \A w \in Worker : reserved'[w] = {} /\ tasks'[w] = {} /\ preempted'[w] = {}
    BY <1>2 DEF Crash, IdleSched
  <2> QED BY <2>1
          DEF PoolInv, Holding, NoVictims, Reservations, TasksAreRuns, OneRunEach, InlineWaits, HeldIsIdle
<1>3. CASE Bystander
  <2>1. UNCHANGED <<sched, memoryVars, runs>>
    BY <1>3 DEF Bystander
  <2>2. NoVictims' /\ Reservations'
    BY <2>1 DEF memoryVars, PoolInv, NoVictims, Reservations, Holding
  <2>3. TasksAreRuns' /\ OneRunEach'
    BY <2>1 DEF memoryVars, PoolInv, TasksAreRuns, OneRunEach
  <2>4. InlineWaits' /\ HeldIsIdle'
    BY <2>1 DEF PoolInv, InlineWaits, HeldIsIdle, Holding
  <2> QED BY <2>2, <2>3, <2>4 DEF PoolInv
<1>4. ASSUME NEW r \in runs, RunStep(r) PROVE PoolInv'
  <2>0. UNCHANGED sched
    BY <1>4 DEF RunStep, RunReturn, RunReport, RunWait, RunRelease, RunFrame
  <2>1. ASSUME NEW next, Become(r, next), UNCHANGED memoryVars,
               next.worker = r.worker, next.task = r.task, next.inline = r.inline
        PROVE  PoolInv'
    BY <2>0, <2>1, PoolBecome
  <2>2. CASE RunRelease(r)
    <3>0. r.worker \in Worker /\ r.task \in Task /\ PoolTypeOK /\ runs' = runs \ {r}
      BY <2>2 DEF TypeInv, TypeOK, PoolTypeOK, RunRecord, RunRelease
    <3>1. CASE r.inline
      <4>1. UNCHANGED <<reserved, tasks, preempted>>
        BY <2>2, <3>1 DEF RunRelease, memoryVars
      <4>2. \A w \in Worker, t \in Task : t \in tasks[w] <=> \E s \in runs' : s.worker = w /\ s.task = t /\ ~s.inline
        BY SMTT(30), <3>0, <3>1 DEF PoolInv, TasksAreRuns
      <4> QED BY SMTT(30), <2>0, <3>0, <4>1, <4>2
              DEF PoolInv, Holding, NoVictims, Reservations, TasksAreRuns, OneRunEach, InlineWaits, HeldIsIdle
    <3>2. CASE ~r.inline
      <4>1. ReleaseSlot(r.worker, r.task)
        BY <2>2, <3>2 DEF RunRelease
      <4>2. ~(Holding /\ r.worker = sched.exec /\ r.task = sched.task)
        BY DEF PoolInv, HeldIsIdle
      <4>3. \A w \in Worker : /\ reserved'[w] = reserved[w] /\ preempted'[w] = {}
                              /\ tasks'[w] = IF w = r.worker THEN tasks[w] \ {r.task} ELSE tasks[w]
        <5>1. reserved \in [Worker -> SUBSET Task] /\ tasks \in [Worker -> SUBSET Task] /\ preempted \in [Worker -> SUBSET Task]
          BY <3>0 DEF PoolTypeOK
        <5>2. r.task \notin reserved[r.worker] /\ \A w \in Worker : preempted[w] = {}
          BY SMTT(30), <3>0, <4>2 DEF PoolInv, Reservations
        <5>4. \A w \in Worker : reserved'[w] = IF w = r.worker THEN reserved[w] \ {r.task} ELSE reserved[w]
          BY <3>0, <4>1, <5>1 DEF ReleaseSlot
        <5>5. \A w \in Worker : preempted'[w] = IF w = r.worker THEN preempted[w] \ {r.task} ELSE preempted[w]
          BY <3>0, <4>1, <5>1 DEF ReleaseSlot
        <5>6. \A w \in Worker : tasks'[w] = IF w = r.worker THEN tasks[w] \ {r.task} ELSE tasks[w]
          BY <3>0, <4>1, <5>1 DEF ReleaseSlot
        <5>7. \A w \in Worker : reserved'[w] = reserved[w]
          BY <5>2, <5>4
        <5>8. \A w \in Worker : preempted'[w] = {}
          BY <5>2, <5>5
        <5> QED BY <5>6, <5>7, <5>8
      <4>4. \A s \in runs : s # r => ~(s.worker = r.worker /\ s.task = r.task)
        BY DEF PoolInv, OneRunEach
      <4>5. \A w \in Worker, t \in Task : t \in tasks'[w] <=> \E s \in runs' : s.worker = w /\ s.task = t /\ ~s.inline
        <5> SUFFICES ASSUME NEW w \in Worker, NEW t \in Task
                     PROVE  t \in tasks'[w] <=> \E s \in runs' : s.worker = w /\ s.task = t /\ ~s.inline
          OBVIOUS
        <5>1. t \in tasks[w] <=> \E s \in runs : s.worker = w /\ s.task = t /\ ~s.inline
          BY DEF PoolInv, TasksAreRuns
        <5>2. t \in tasks'[w] <=> t \in tasks[w] /\ ~(w = r.worker /\ t = r.task)
          BY <4>3
        <5> QED BY <3>0, <4>4, <5>1, <5>2
      <4>6. NoVictims' /\ TasksAreRuns'
        BY <2>0, <4>5 DEF PoolInv, NoVictims, TasksAreRuns
      <4>7. Reservations'
        BY <2>0, <4>3 DEF PoolInv, Reservations, Holding
      <4>8. OneRunEach' /\ InlineWaits' /\ HeldIsIdle'
        BY <2>0, <3>0 DEF PoolInv, OneRunEach, InlineWaits, HeldIsIdle, Holding
      <4> QED BY <4>6, <4>7, <4>8 DEF PoolInv
    <3> QED BY <3>1, <3>2
  <2> QED BY <1>4, <2>1, <2>2, RunMoves
<1> QED BY <1>1, <1>2, <1>3, <1>4, StepKinds

-----------------------------------------------------------------------------
(* Which attempt a run is about.                                           *)

NoNewFault == budget'.faults = 0 => budget.faults = 0

\* What the dispatch loop does to rows and runs.
SchedLeaves ==
    /\ UNCHANGED <<storeVars, runs, phase>> /\ NoNewFault
    /\ sched.pc # "deliver" /\ sched'.pc # "deliver"

SchedBegins ==
    /\ sched.pc = "begin" /\ BeginAttempt(sched.task, sched.exec)
    /\ sched'.pc = "deliver" /\ sched'.task = sched.task /\ sched'.exec = sched.exec
    /\ UNCHANGED <<runs, phase, budget>>

SchedStarts ==
    /\ sched.pc = "deliver" /\ sched'.pc # "deliver"
    /\ UNCHANGED <<storeVars, phase, budget>>
    /\ \E pc \in {"handler", "report"}, inline \in BOOLEAN : runs' = runs \union {Run(pc, inline)}

LEMMA FaultCounts == ASSUME TypeInv, Fault \/ OK PROVE NoNewFault
<1>1. budget \in [faults : Nat, crashes : Nat, stalls : Nat, expiries : Nat, retries : Nat]
  BY DEF TypeInv, TypeOK, ApiTypeOK
<1>2. CASE Fault
  <2>1. budget'.faults = budget.faults + 1
    BY <1>1, <1>2 DEF Fault
  <2> QED BY SMTT(30), <1>1, <2>1 DEF NoNewFault
<1> QED BY <1>2 DEF OK, NoNewFault

LEMMA SchedRows ==
    ASSUME TypeInv, PoolInv, Scheduler
    PROVE  SchedLeaves \/ SchedBegins \/ SchedStarts
<1>0. /\ sched \in [pc : SchedPc, prio : Rank, task : Task \union {NoTask},
                    exec : Worker \union {NoWorker}, victim : Task \union {NoTask}]
  BY DEF TypeInv, TypeOK, SchedTypeOK
<1>i. IdleSched.pc = "idle"
  BY DEF IdleSched
<1>1. sched.pc \notin {"preempt", "flag", "free", "head"}
  BY DEF PoolInv, NoVictims
<1>2. CASE SchedChoose \/ SchedDequeue \/ SchedPick \/ SchedVictim \/ SchedRequeue \/ SchedReserve \/ SchedInline
  <2>1. UNCHANGED <<storeVars, runs, phase>> /\ sched.pc # "deliver" /\ (Fault \/ OK)
    BY <1>2
    DEF SchedChoose, SchedDequeue, SchedPick, SchedVictim, SchedRequeue, SchedReserve, SchedInline, SchedAt,
        SchedFrame, loopVars, OK
  <2>2. \/ sched' = sched
        \/ sched' = IdleSched
        \/ \E p \in {"dequeue", "pick", "reserve", "victim", "requeue", "preempt", "begin"} : sched'.pc = p
    <3>1. CASE SchedChoose
      BY <1>0, <3>1 DEF SchedChoose
    <3>2. CASE SchedDequeue
      BY <1>0, <3>2 DEF SchedDequeue
    <3>3. CASE SchedPick
      BY <1>0, <3>3 DEF SchedPick, Goto
    <3>4. CASE SchedVictim
      BY <1>0, <3>4 DEF SchedVictim, Goto
    <3>5. CASE SchedReserve
      BY <1>0, <3>5 DEF SchedReserve, Goto
    <3>6. CASE SchedRequeue \/ SchedInline
      BY <3>6 DEF SchedRequeue, SchedInline, Dispatched
    <3> QED BY <1>2, <3>1, <3>2, <3>3, <3>4, <3>5, <3>6
  <2> QED BY <1>i, <2>1, <2>2, FaultCounts DEF SchedLeaves
<1>3. CASE SchedPreempt \/ SchedFlag \/ SchedFree \/ SchedHead
  BY <1>1, <1>3 DEF SchedPreempt, SchedFlag, SchedFree, SchedHead, SchedAt
<1>4. CASE SchedBegin
  <2>1. sched.pc = "begin" /\ UNCHANGED <<runs, phase>>
    BY <1>4 DEF SchedBegin, SchedAt, SchedFrame, loopVars
  <2>2. CASE BeginAttempt(sched.task, sched.exec) /\ Goto("deliver") /\ OK
    BY <1>0, <2>1, <2>2 DEF Goto, OK, SchedBegins
  <2>3. CASE UNCHANGED storeVars /\ (sched' = IdleSched \/ Goto("requeue")) /\ (Fault \/ OK)
    <3>1. sched'.pc # "deliver"
      BY <1>0, <1>i, <2>3 DEF Goto
    <3> QED BY <2>1, <2>3, <3>1, FaultCounts DEF SchedLeaves
  <2> QED BY <1>4, <2>2, <2>3 DEF SchedBegin
<1>5. CASE SchedDeliver
  <2>1. sched.pc = "deliver" /\ UNCHANGED <<storeVars, phase, budget>>
    BY <1>5 DEF SchedDeliver, SchedAt, SchedFrame, loopVars
  <2>2. sched.task \in reserved[sched.exec]
    BY SMTT(30), <2>1 DEF PoolInv, Reservations, Holding, TypeInv, SchedLocals
  <2>3. sched'.pc # "deliver"
    <3>1. sched' = IdleSched \/ sched' = [sched EXCEPT !.pc = "inline"]
      BY <1>5 DEF SchedDeliver, Dispatched, Goto
    <3> QED BY <1>0, <1>i, <3>1
  <2>4. \E pc \in {"handler", "report"}, inline \in BOOLEAN : runs' = runs \union {Run(pc, inline)}
    BY <1>5, <2>2 DEF SchedDeliver
  <2> QED BY <2>1, <2>3, <2>4 DEF SchedStarts
<1> QED BY <1>2, <1>3, <1>4, <1>5 DEF Scheduler

SameRun(r, next) ==
    next.worker = r.worker /\ next.task = r.task /\ next.no = r.no

Active(r) == r.pc \in {"handler", "report"}

Outcomes == {"succeeded", "pending", "dead"}

\* What a run does to its row and to itself.
RunReturns(r, next) ==
    /\ UNCHANGED storeVars /\ Become(r, next) /\ SameRun(r, next)
    /\ Active(r) /\ (r.task \notin preempted[r.worker] => Active(next))

RunReports(r, next) ==
    /\ \E outcome, due : outcome \in Outcomes /\ CompleteAttempt(r.task, r.worker, outcome, due)
    /\ Become(r, next) /\ SameRun(r, next) /\ ~Active(next)

RunLeaves(r, next) ==
    /\ UNCHANGED storeVars /\ runs' \subseteq (runs \ {r}) \union {next} /\ runs \ {r} \subseteq runs'
    /\ SameRun(r, next) /\ ~Active(next)
    /\ budget'.faults = 0 => ~(Active(r) /\ Owns(r.task, r.worker))

LEMMA RunRows ==
    ASSUME TypeInv, NEW r \in runs, RunStep(r)
    PROVE  /\ UNCHANGED <<sched, phase>> /\ NoNewFault
           /\ \E next : RunReturns(r, next) \/ RunReports(r, next) \/ RunLeaves(r, next)
<1>0. r \in RunRecord /\ UNCHANGED <<sched, phase>>
  BY DEF TypeInv, TypeOK, PoolTypeOK, RunStep, RunReturn, RunReport, RunWait, RunRelease, RunFrame, loopVars
<1>f. NoNewFault
  <2>1. Fault \/ OK
    BY DEF RunStep, RunReturn, RunReport, RunWait, RunRelease, OK
  <2> QED BY <2>1, FaultCounts
<1>1. CASE RunReturn(r)
  <2>1. PICK ok \in BOOLEAN :
           Become(r, [r EXCEPT !.ok = ok, !.pc = IF r.task \in preempted[r.worker] THEN "release" ELSE "report"])
    BY <1>1 DEF RunReturn
  <2> DEFINE next == [r EXCEPT !.ok = ok, !.pc = IF r.task \in preempted[r.worker] THEN "release" ELSE "report"]
  <2>2. SameRun(r, next) /\ (r.task \notin preempted[r.worker] => Active(next))
    BY <1>0 DEF RunRecord, SameRun, Active
  <2>3. UNCHANGED storeVars /\ Active(r)
    BY <1>1 DEF RunReturn, Active
  <2> HIDE DEF next
  <2>4. RunReturns(r, next)
    BY <2>1, <2>2, <2>3 DEF RunReturns, next
  <2> QED BY <1>0, <1>f, <2>4
<1> DEFINE done == [r EXCEPT !.pc = "release"]
<1>d. SameRun(r, done) /\ ~Active(done)
  BY <1>0 DEF RunRecord, SameRun, Active
<1>3. CASE RunReport(r)
  <2>1. ASSUME NEW due, CompleteAttempt(r.task, r.worker, Outcome(r), due),
               Become(r, [r EXCEPT !.due = due, !.pc = IF Outcome(r) = "pending" THEN "wait" ELSE "release"])
        PROVE  \E next : RunReports(r, next)
    <3> DEFINE next == [r EXCEPT !.due = due, !.pc = IF Outcome(r) = "pending" THEN "wait" ELSE "release"]
    <3>1. SameRun(r, next) /\ ~Active(next)
      BY <1>0 DEF RunRecord, SameRun, Active
    <3>2. Outcome(r) \in Outcomes
      BY DEF Outcome, Outcomes
    <3> QED BY <2>1, <3>1, <3>2 DEF RunReports
  <2>2. ASSUME Become(r, done), UNCHANGED storeVars, ~Owns(r.task, r.worker) \/ Fault
        PROVE  RunLeaves(r, done)
    <3>1. Fault => budget'.faults # 0
      BY SMTT(30) DEF Fault, TypeInv, TypeOK, ApiTypeOK
    <3> HIDE DEF done
    <3> QED BY <1>d, <2>2, <3>1 DEF RunLeaves, Become
  <2>3. \/ \E due : /\ CompleteAttempt(r.task, r.worker, Outcome(r), due)
                    /\ Become(r, [r EXCEPT !.due = due, !.pc = IF Outcome(r) = "pending" THEN "wait" ELSE "release"])
        \/ Become(r, done) /\ UNCHANGED storeVars /\ (~Owns(r.task, r.worker) \/ Fault)
    BY <1>3 DEF RunReport
  <2> QED BY <1>0, <1>f, <2>1, <2>2, <2>3
<1>4. CASE RunWait(r) \/ RunRelease(r)
  <2>1. ~Active(r) /\ UNCHANGED storeVars
    BY <1>4 DEF RunWait, RunRelease, Active
  <2>2. Become(r, done) \/ runs' = runs \ {r}
    BY <1>4 DEF RunWait, RunRelease
  <2> HIDE DEF done
  <2>3. RunLeaves(r, done)
    BY <1>d, <2>1, <2>2 DEF RunLeaves, Become
  <2> QED BY <1>0, <1>f, <2>3
<1> QED BY <1>1, <1>3, <1>4 DEF RunStep

\* The run at the worker the row names is the one of the current attempt.
OwnRun == \A r \in runs : Owns(r.task, r.worker) => r.no = attempts[r.task]

OneRunPerAttempt == \A r, s \in runs : r.task = s.task /\ r.no = s.no => r = s

\* Between BeginAttempt and Deliver the attempt has no verdict and no run.
DeliveryIsNew ==
    sched.pc = "deliver" =>
        /\ status[sched.task] = "running" => workerId[sched.task] = sched.exec
        /\ attempts[sched.task] > 0
        /\ history[sched.task][attempts[sched.task]] \notin Verdicts
        /\ \A r \in runs : r.task = sched.task => r.no # attempts[r.task]

RunsAreNumbered == \A r \in runs : 0 < r.no /\ r.no <= attempts[r.task]

NoVerdictYet == \A r \in runs : Active(r) => history[r.task][r.no] \notin Verdicts

OwnerInv == OwnRun /\ OneRunPerAttempt /\ DeliveryIsNew /\ RunsAreNumbered /\ NoVerdictYet

\* The rows are as they were and the runs are still the same ones.
LEMMA OwnerMoves ==
    ASSUME OwnerInv, UNCHANGED <<status, workerId, attempts, history>>,
           sched' = sched \/ sched'.pc # "deliver",
           NEW r \in runs, NEW next, runs' \subseteq (runs \ {r}) \union {next}, SameRun(r, next),
           Active(next) => Active(r)
    PROVE  OwnerInv'
<1>1. \A s \in runs' : s \in runs \ {r} \/ s = next
  OBVIOUS
<1>2. next.worker = r.worker /\ next.task = r.task /\ next.no = r.no
  BY DEF SameRun
<1>3. OwnRun'
  BY <1>1, <1>2 DEF OwnerInv, OwnRun, Owns
<1>4. OneRunPerAttempt'
  <2> SUFFICES ASSUME NEW s \in runs', NEW q \in runs', s.task = q.task, s.no = q.no PROVE s = q
    BY DEF OneRunPerAttempt
  <2>1. \A a, b \in runs : a.task = b.task /\ a.no = b.no => a = b
    BY DEF OwnerInv, OneRunPerAttempt
  <2> QED BY <1>1, <1>2, <2>1
<1>5. DeliveryIsNew'
  BY <1>1, <1>2 DEF OwnerInv, DeliveryIsNew
<1>6. RunsAreNumbered'
  BY <1>1, <1>2 DEF OwnerInv, RunsAreNumbered
<1>7. NoVerdictYet'
  BY <1>1, <1>2 DEF OwnerInv, NoVerdictYet
<1> QED BY <1>3, <1>4, <1>5, <1>6, <1>7 DEF OwnerInv

\* The dispatch loop starts an attempt on a worker that has no run of the task.
LEMMA OwnerBegins ==
    ASSUME TypeInv, PoolInv, OwnerInv, SchedBegins
    PROVE  OwnerInv'
<1> DEFINE t == sched.task
           w == sched.exec
<1>0. t \in Task /\ w \in Worker /\ RunningHasOpenAttempt
  BY DEF TypeInv, SchedLocals, SchedBegins
<1>1. /\ status \in [Task -> TaskStatus] /\ attempts \in [Task -> Nat]
      /\ workerId \in [Task -> Worker \union {NoWorker}] /\ history \in [Task -> Seq(AttemptStatus)]
  BY DEF TypeInv, TypeOK, StoreTypeOK
<1>2. runs' = runs /\ \A r \in runs : r.task \in Task /\ r.no \in Nat
  BY DEF SchedBegins, TypeInv, TypeOK, PoolTypeOK, RunRecord
<1>3. \A u \in Task : u # t => /\ status'[u] = status[u] /\ workerId'[u] = workerId[u]
                               /\ attempts'[u] = attempts[u] /\ history'[u] = history[u]
  BY <1>0, <1>1 DEF SchedBegins, BeginAttempt
<1>4. attempts'[t] = attempts[t] + 1 /\ workerId'[t] = w /\ history'[t] = Append(history[t], "running")
  BY <1>0, <1>1 DEF SchedBegins, BeginAttempt
<1>5. /\ Len(history[t]) = attempts[t] /\ attempts[t] \in Nat /\ history[t] \in Seq(AttemptStatus)
      /\ history'[t][attempts[t] + 1] = "running"
      /\ \A n \in 1..attempts[t] : history'[t][n] = history[t][n]
  <2>1. Len(history[t]) = attempts[t] /\ attempts[t] \in Nat /\ history[t] \in Seq(AttemptStatus)
    BY <1>0, <1>1 DEF RunningHasOpenAttempt
  <2> HIDE DEF t
  <2> QED BY SMTT(30), <1>4, <2>1
<1>6. \A r \in runs : r.task = t => r.worker # w
  BY DEF SchedBegins, PoolInv, HeldIsIdle, Holding
<1>7. \A r \in runs : 0 < r.no /\ r.no <= attempts[r.task]
  BY DEF OwnerInv, RunsAreNumbered
<1> HIDE DEF t, w
<1>8. OwnRun' /\ OneRunPerAttempt'
  BY SMTT(30), <1>2, <1>3, <1>4, <1>6 DEF OwnerInv, OwnRun, OneRunPerAttempt, Owns
<1>9. RunsAreNumbered'
  BY SMTT(30), <1>2, <1>3, <1>4, <1>5, <1>7 DEF RunsAreNumbered
<1>10. DeliveryIsNew'
  <2>1. sched'.task = t /\ sched'.exec = w
    BY DEF SchedBegins, t, w
  <2>2. \A r \in runs : r.task = t => r.no # attempts[t] + 1
    BY SMTT(30), <1>2, <1>5, <1>7
  <2>3. "running" \notin Verdicts
    BY DEF Verdicts
  <2> QED BY SMTT(30), <1>2, <1>4, <1>5, <2>1, <2>2, <2>3 DEF DeliveryIsNew
<1>11. NoVerdictYet'
  <2> SUFFICES ASSUME NEW r \in runs, Active(r) PROVE history'[r.task][r.no] \notin Verdicts
    BY <1>2 DEF NoVerdictYet
  <2>1. history[r.task][r.no] \notin Verdicts
    BY DEF OwnerInv, NoVerdictYet
  <2>2. CASE r.task = t
    BY SMTT(30), <1>2, <1>5, <1>7, <2>1, <2>2
  <2> QED BY <1>2, <1>3, <2>1, <2>2
<1> QED BY <1>8, <1>9, <1>10, <1>11 DEF OwnerInv

LEMMA OwnerStarts ==
    ASSUME TypeInv, OwnerInv, SchedStarts
    PROVE  OwnerInv'
<1>1. PICK pc \in {"handler", "report"}, inline \in BOOLEAN : runs' = runs \union {Run(pc, inline)}
  BY DEF SchedStarts
<1> DEFINE new == Run(pc, inline)
<1>2. new.task = sched.task /\ new.worker = sched.exec /\ new.no = attempts[sched.task]
  BY DEF Run
<1>3. sched.pc = "deliver" /\ sched'.pc # "deliver" /\ UNCHANGED <<status, workerId, attempts, history>>
  BY DEF SchedStarts, storeVars
<1>4. /\ attempts[sched.task] > 0 /\ history[sched.task][attempts[sched.task]] \notin Verdicts
      /\ \A r \in runs : r.task = sched.task => r.no # attempts[r.task]
  BY <1>3 DEF OwnerInv, DeliveryIsNew
<1>5. runs' = runs \union {new} /\ attempts[sched.task] \in Nat
  BY <1>1, <1>3 DEF TypeInv, TypeOK, StoreTypeOK, SchedLocals
<1> HIDE DEF new
<1>6. OwnRun'
  BY <1>2, <1>3, <1>5 DEF OwnerInv, OwnRun, Owns
<1>7. OneRunPerAttempt'
  <2>1. \A a, b \in runs : a.task = b.task /\ a.no = b.no => a = b
    BY DEF OwnerInv, OneRunPerAttempt
  <2> QED BY SMTT(30), <1>2, <1>4, <1>5, <2>1 DEF OneRunPerAttempt
<1>8. DeliveryIsNew'
  BY <1>3 DEF DeliveryIsNew
<1>9. RunsAreNumbered' /\ NoVerdictYet'
  BY SMTT(30), <1>2, <1>3, <1>4, <1>5 DEF OwnerInv, RunsAreNumbered, NoVerdictYet
<1> QED BY <1>6, <1>7, <1>8, <1>9 DEF OwnerInv

\* A report that PostgreSQL accepts comes from the run of the current attempt.
LEMMA OwnerReports ==
    ASSUME TypeInv, OwnerInv, UNCHANGED sched, NEW r \in runs, NEW next, RunReports(r, next)
    PROVE  OwnerInv'
<1> DEFINE t == r.task
<1>0. /\ status \in [Task -> TaskStatus] /\ attempts \in [Task -> Nat]
      /\ workerId \in [Task -> Worker \union {NoWorker}] /\ history \in [Task -> Seq(AttemptStatus)]
      /\ \A s \in runs : s.task \in Task /\ s.no \in Nat
  BY DEF TypeInv, TypeOK, StoreTypeOK, PoolTypeOK, RunRecord
<1>1. PICK outcome, due : outcome \in Outcomes /\ CompleteAttempt(t, r.worker, outcome, due)
  BY DEF RunReports
<1>2. /\ \A s \in runs' : s \in runs \ {r} \/ s = next
      /\ next.worker = r.worker /\ next.task = t /\ next.no = r.no /\ ~Active(next)
  BY DEF RunReports, Become, SameRun
<1>3. r.no = attempts[t]
  BY <1>1 DEF OwnerInv, OwnRun, CompleteAttempt
<1>4. attempts' = attempts /\ status'[t] # "running"
  BY <1>0, <1>1 DEF CompleteAttempt, ReleaseRows, Outcomes
<1>5. \A u \in Task : u # t => status'[u] = status[u] /\ workerId'[u] = workerId[u] /\ history'[u] = history[u]
  BY <1>0, <1>1 DEF CompleteAttempt, ReleaseRows
<1>6. \A n : n # attempts[t] => history'[t][n] = history[t][n]
  BY SMTT(30), <1>0, <1>1 DEF CompleteAttempt
<1>7. \A s \in runs : s.task = t /\ s # r => s.no # attempts[t]
  BY <1>3 DEF OwnerInv, OneRunPerAttempt
<1> HIDE DEF t
<1>8. OwnRun'
  BY <1>0, <1>2, <1>4, <1>5 DEF OwnerInv, OwnRun, Owns
<1>9. OneRunPerAttempt'
  <2> SUFFICES ASSUME NEW s \in runs', NEW q \in runs', s.task = q.task, s.no = q.no PROVE s = q
    BY DEF OneRunPerAttempt
  <2>1. \A a, b \in runs : a.task = b.task /\ a.no = b.no => a = b
    BY DEF OwnerInv, OneRunPerAttempt
  <2> QED BY <1>2, <2>1 DEF t
<1>10. RunsAreNumbered'
  BY <1>2, <1>4 DEF OwnerInv, RunsAreNumbered, t
<1>11. NoVerdictYet'
  <2> SUFFICES ASSUME NEW s \in runs', Active(s) PROVE history'[s.task][s.no] \notin Verdicts
    BY DEF NoVerdictYet
  <2>1. s \in runs /\ s # r /\ history[s.task][s.no] \notin Verdicts
    BY <1>2 DEF OwnerInv, NoVerdictYet
  <2> QED BY <1>0, <1>5, <1>6, <1>7, <2>1
<1>12. DeliveryIsNew'
  <2> SUFFICES ASSUME sched.pc = "deliver" PROVE DeliveryIsNew'
    BY DEF DeliveryIsNew
  <2>1. sched.task # t /\ sched.task \in Task
    BY <1>3 DEF OwnerInv, DeliveryIsNew, TypeInv, SchedLocals, t
  <2>2. \A s \in runs' : \E q \in runs : s.task = q.task /\ s.no = q.no
    BY <1>2 DEF t
  <2> QED BY <1>4, <1>5, <2>1, <2>2 DEF OwnerInv, DeliveryIsNew
<1> QED BY <1>8, <1>9, <1>10, <1>11, <1>12 DEF OwnerInv

LEMMA OwnerStep == TypeInv /\ PoolInv /\ OwnerInv /\ [Next]_vars => OwnerInv'
<1> SUFFICES ASSUME TypeInv, PoolInv, OwnerInv, [Next]_vars PROVE OwnerInv'
  OBVIOUS
<1>1. CASE Scheduler
  <2>1. CASE SchedLeaves
    BY <2>1 DEF SchedLeaves, storeVars, OwnerInv, OwnRun, OneRunPerAttempt, DeliveryIsNew, RunsAreNumbered,
                NoVerdictYet, Owns
  <2> QED BY <1>1, <2>1, SchedRows, OwnerBegins, OwnerStarts
<1>2. CASE Crash
  <2>1. sched'.pc # "deliver" /\ runs' = {}
    BY <1>2 DEF Crash, IdleSched
  <2> QED BY <2>1 DEF OwnerInv, OwnRun, OneRunPerAttempt, DeliveryIsNew, RunsAreNumbered, NoVerdictYet
<1>3. CASE Bystander
  <2>1. /\ UNCHANGED <<sched, runs>> /\ \A r \in runs : r.task \in Task /\ r.no \in Nat
        /\ \A t \in Task : attempts'[t] = attempts[t] /\ attempts[t] \in Nat
    BY <1>3 DEF Bystander, Quiet, TypeInv, TypeOK, PoolTypeOK, StoreTypeOK, RunRecord
  <2>2. \A t \in Task : status'[t] = "running" => status[t] = "running" /\ workerId'[t] = workerId[t]
    BY <1>3 DEF Bystander, Quiet
  <2>3. \A t \in Task, n \in Nat \ {0} :
           n <= attempts[t] /\ history[t][n] \notin Verdicts => history'[t][n] \notin Verdicts
    <3> SUFFICES ASSUME NEW t \in Task, NEW n \in Nat \ {0}, n <= attempts[t], history[t][n] \notin Verdicts
                 PROVE  history'[t][n] \notin Verdicts
      OBVIOUS
    <3>1. history[t] \in Seq(AttemptStatus) /\ Len(history[t]) = attempts[t] /\ attempts[t] \in Nat
      BY DEF TypeInv, TypeOK, StoreTypeOK, RunningHasOpenAttempt
    <3>2. n \in DOMAIN history[t]
      BY SMTT(30), <3>1
    <3> QED BY <1>3, <3>2 DEF Bystander, Quiet
  <2>4. OwnRun' /\ OneRunPerAttempt' /\ RunsAreNumbered'
    BY <2>1, <2>2 DEF OwnerInv, OwnRun, OneRunPerAttempt, RunsAreNumbered, Owns
  <2>5. NoVerdictYet'
    BY SMTT(30), <2>1, <2>3 DEF OwnerInv, NoVerdictYet, RunsAreNumbered
  <2>6. DeliveryIsNew'
    <3> SUFFICES ASSUME sched.pc = "deliver" PROVE DeliveryIsNew'
      BY <2>1 DEF DeliveryIsNew
    <3>1. sched.task \in Task
      BY DEF TypeInv, SchedLocals
    <3> QED BY SMTT(30), <2>1, <2>2, <2>3, <3>1 DEF OwnerInv, DeliveryIsNew
  <2> QED BY <2>4, <2>5, <2>6 DEF OwnerInv
<1>4. ASSUME NEW r \in runs, RunStep(r) PROVE OwnerInv'
  <2>0. sched' = sched
    BY <1>4, RunRows
  <2>1. PICK next : RunReturns(r, next) \/ RunReports(r, next) \/ RunLeaves(r, next)
    BY <1>4, RunRows
  <2>2. CASE RunReports(r, next)
    BY <2>0, <2>2, OwnerReports
  <2>3. CASE RunReturns(r, next) \/ RunLeaves(r, next)
    <3>1. /\ runs' \subseteq (runs \ {r}) \union {next} /\ SameRun(r, next) /\ (Active(next) => Active(r))
          /\ UNCHANGED <<status, workerId, attempts, history>>
      BY <2>3 DEF RunReturns, RunLeaves, Become, storeVars
    <3> QED BY <2>0, <3>1, OwnerMoves
  <2> QED BY <2>1, <2>2, <2>3
<1> QED BY <1>1, <1>2, <1>3, <1>4, StepKinds

\* Until the first error a running row has the run of its attempt.
LEMMA RunnerStep ==
    TypeInv /\ NoneInflight /\ PoolInv /\ OwnerInv /\ RunningHasRunner /\ [Next]_vars => RunningHasRunner'
<1> SUFFICES ASSUME TypeInv, NoneInflight, PoolInv, OwnerInv, RunningHasRunner, [Next]_vars,
                    phase' = "up", budget'.faults = 0, NEW t \in Task, status'[t] = "running"
             PROVE  \/ sched'.pc = "deliver" /\ sched'.task = t
                    \/ \E r \in runs' : r.task = t /\ r.no = attempts'[t] /\ r.worker = workerId'[t] /\ Active(r)
  BY DEF RunningHasRunner, Up, Active
<1>h. ASSUME phase = "up", budget.faults = 0, status[t] = "running"
      PROVE  \/ sched.pc = "deliver" /\ sched.task = t
             \/ \E r \in runs : r.task = t /\ r.no = attempts[t] /\ r.worker = workerId[t] /\ Active(r)
  BY <1>h DEF RunningHasRunner, Up, Active
<1>1. CASE Scheduler
  <2>1. CASE SchedLeaves
    BY <1>h, <2>1 DEF SchedLeaves, NoNewFault, storeVars
  <2>2. CASE SchedBegins
    <3>1. CASE t = sched.task
      BY <2>2, <3>1 DEF SchedBegins
    <3>2. CASE t # sched.task
      <4>1. status[t] = "running" /\ workerId'[t] = workerId[t] /\ attempts'[t] = attempts[t]
        BY <2>2, <3>2 DEF SchedBegins, BeginAttempt, TypeInv, TypeOK, StoreTypeOK
      <4> QED BY <1>h, <2>2, <4>1 DEF SchedBegins
    <3> QED BY <3>1, <3>2
  <2>3. CASE SchedStarts
    <3>0. UNCHANGED <<status, workerId, attempts, phase, budget>> /\ sched.pc = "deliver"
      BY <2>3 DEF SchedStarts, storeVars
    <3>1. PICK pc \in {"handler", "report"}, inline \in BOOLEAN : runs' = runs \union {Run(pc, inline)}
      BY <2>3 DEF SchedStarts
    <3> DEFINE new == Run(pc, inline)
    <3>2. new.task = sched.task /\ new.worker = sched.exec /\ new.no = attempts[sched.task] /\ Active(new)
      BY <3>1 DEF Run, Active
    <3>3. new \in runs' /\ runs \subseteq runs'
      BY <3>1
    <3> HIDE DEF new
    <3>4. CASE t = sched.task
      <4>1. workerId[t] = sched.exec
        BY <3>0, <3>4 DEF OwnerInv, DeliveryIsNew
      <4> QED BY <3>0, <3>2, <3>3, <3>4, <4>1
    <3>5. CASE t # sched.task
      BY <1>h, <3>0, <3>3, <3>5
    <3> QED BY <3>4, <3>5
  <2> QED BY <1>1, <2>1, <2>2, <2>3, SchedRows
<1>2. CASE Crash
  BY <1>2 DEF Crash
<1>3. CASE Bystander
  <2>1. UNCHANGED <<sched, runs>> /\ Quiet(t)
    BY <1>3 DEF Bystander
  <2>2. status[t] = "running" /\ workerId'[t] = workerId[t] /\ attempts'[t] = attempts[t]
    BY <2>1 DEF Quiet
  <2>3. phase = "up" /\ budget.faults = 0
    BY <1>3, <2>2 DEF Bystander, NoneInflight
  <2> QED BY <1>h, <2>1, <2>2, <2>3
<1>4. ASSUME NEW r \in runs, RunStep(r)
      PROVE  \/ sched'.pc = "deliver" /\ sched'.task = t
             \/ \E q \in runs' : q.task = t /\ q.no = attempts'[t] /\ q.worker = workerId'[t] /\ Active(q)
  <2>0. sched' = sched /\ phase = "up" /\ budget.faults = 0 /\ r.task \in Task /\ r.worker \in Worker
    BY <1>4, RunRows DEF NoNewFault, TypeInv, TypeOK, PoolTypeOK, RunRecord
  <2>1. PICK next : RunReturns(r, next) \/ RunReports(r, next) \/ RunLeaves(r, next)
    BY <1>4, RunRows
  <2>2. CASE RunReturns(r, next)
    <3>1. /\ UNCHANGED <<status, workerId, attempts>> /\ next \in runs' /\ runs \ {r} \subseteq runs'
          /\ next.worker = r.worker /\ next.task = r.task /\ next.no = r.no
      BY <2>2 DEF RunReturns, Become, SameRun, storeVars
    <3>2. Active(next)
      BY <2>0, <2>2 DEF RunReturns, PoolInv, Reservations
    <3> QED BY <1>h, <2>0, <3>1, <3>2
  <2>3. CASE RunReports(r, next)
    <3>1. PICK outcome, due : outcome \in Outcomes /\ CompleteAttempt(r.task, r.worker, outcome, due)
      BY <2>3 DEF RunReports
    <3>2. t # r.task
      BY <2>0, <3>1 DEF CompleteAttempt, ReleaseRows, Outcomes
    <3>3. status[t] = "running" /\ workerId'[t] = workerId[t] /\ attempts'[t] = attempts[t]
      BY <3>1, <3>2 DEF CompleteAttempt, ReleaseRows
    <3>4. runs \ {r} \subseteq runs'
      BY <2>3 DEF RunReports, Become
    <3> QED BY <1>h, <2>0, <3>2, <3>3, <3>4
  <2>4. CASE RunLeaves(r, next)
    <3>1. UNCHANGED <<status, workerId, attempts>> /\ runs \ {r} \subseteq runs'
      BY <2>4 DEF RunLeaves, storeVars
    <3>2. ~(Active(r) /\ r.task = t /\ r.worker = workerId[t])
      BY <2>4, <3>1 DEF RunLeaves, Owns
    <3> QED BY <1>h, <2>0, <3>1, <3>2
  <2> QED BY <2>1, <2>2, <2>3, <2>4
<1> QED BY <1>1, <1>2, <1>3, <1>4, StepKinds

RunInv == TypeInv /\ NoneInflight /\ PoolInv /\ OwnerInv

LEMMA RunInvInit == Init => RunInv
<1> SUFFICES ASSUME Init PROVE RunInv
  OBVIOUS
<1>1. /\ sched.pc = "idle" /\ runs = {} /\ phase = "down"
      /\ \A w \in Worker : reserved[w] = {} /\ tasks[w] = {} /\ preempted[w] = {}
  BY DEF Init, ProcessInit, IdleSched
<1>2. PoolInv
  BY <1>1 DEF PoolInv, NoVictims, Reservations, TasksAreRuns, OneRunEach, InlineWaits, HeldIsIdle, Holding
<1>3. OwnerInv
  BY <1>1 DEF OwnerInv, OwnRun, OneRunPerAttempt, DeliveryIsNew, RunsAreNumbered, NoVerdictYet
<1> QED BY <1>1, <1>2, <1>3, TypeInvInit DEF RunInv, NoneInflight

LEMMA RunInvStep == NoPreemption /\ RunInv /\ [Next]_vars => RunInv'
BY TypeInvStep, NoneInflightStep, PoolStepInv, OwnerStep DEF RunInv

\* Where nothing is preempted, an attempt gets its verdict from the run that
\* was dispatched for it and from no earlier one, leases that expire under a
\* live handler included.
THEOREM OwnVerdicts == ASSUME NoPreemption PROVE Spec => []VerdictFromOwnRun
<1>1. RunInv => VerdictFromOwnRun
  BY DEF RunInv, OwnerInv, NoVerdictYet, VerdictFromOwnRun, Active, Verdicts
<1> QED BY <1>1, RunInvInit, RunInvStep, PTL DEF Spec

\* Where nothing is preempted, a row that says running has a run that will
\* report on its current attempt, until the first failed call.
THEOREM RunnersExist == ASSUME NoPreemption PROVE Spec => []RunningHasRunner
<1>1. Init => RunningHasRunner
  BY DEF Init, ProcessInit, RunningHasRunner, Up
<1>2. RunInv /\ RunningHasRunner /\ [Next]_vars => RunningHasRunner'
  BY RunnerStep DEF RunInv
<1> QED BY <1>1, <1>2, RunInvInit, RunInvStep, PTL DEF Spec

-----------------------------------------------------------------------------
(* No pending row is lost, where nothing is preempted, no two workers      *)
(* serve the same task and instants are whole milliseconds.                *)

ServedByOne == \A v, w \in Worker : Capable[v] \intersect Capable[w] # {} => v = w

\* A task is only given to a worker that serves it.
CapableRuns ==
    /\ sched.pc \in {"reserve", "begin", "deliver"} => sched.task \in Capable[sched.exec]
    /\ \A r \in runs : r.task \in Capable[r.worker]

\* A run that has yet to add its retry to the wait set holds the score of the
\* row: its slot keeps the task from being dispatched again.
WaitingRuns ==
    \A r \in runs : r.pc = "wait" => status[r.task] \in Parked /\ executeAfter[r.task] = r.due

\* A cancel handler removes nothing that still waits.
CancelsAreFinal == \A t \in Task : cancelling[t] \in WaitKind => status[t] = "canceled"

PromotesWhenUp == phase # "up" => delay.pc = "pop"

\* What promotes t no earlier than it is due.
Scheduled(t) ==
    \/ \E k \in WaitKind : wait[k][t] # NotWaiting /\ executeAfter[t] <= wait[k][t]
    \/ delay.pc = "mark" /\ t \in delay.ids /\ executeAfter[t] <= delay.now
    \/ submitting[t] = "delayed"
    \/ \E r \in runs : r.task = t /\ r.pc = "wait"

PendingAreScheduled ==
    phase = "up" /\ budget.faults = 0 =>
        delay.pc # "putback" /\ \A t \in Task : status[t] = "pending" => Scheduled(t)

LEMMA CapableStep == TypeInv /\ PoolInv /\ CapableRuns /\ [Next]_vars => CapableRuns'
<1> SUFFICES ASSUME TypeInv, PoolInv, CapableRuns, [Next]_vars PROVE CapableRuns'
  OBVIOUS
<1>0. /\ sched \in [pc : SchedPc, prio : Rank, task : Task \union {NoTask},
                    exec : Worker \union {NoWorker}, victim : Task \union {NoTask}]
      /\ IdleSched.pc = "idle" /\ NoVictims
  BY DEF TypeInv, TypeOK, SchedTypeOK, IdleSched, PoolInv
<1> DEFINE Given == {"reserve", "begin", "deliver"}
<1>1. CASE Scheduler
  <2>1. sched'.pc \in Given => sched'.task \in Capable[sched'.exec]
    <3>1. CASE SchedPick
      BY <1>0, <3>1 DEF SchedPick, CanHandle, Goto
    <3>2. CASE SchedReserve \/ SchedBegin \/ SchedDeliver
      <4>1. sched.pc \in Given /\ (sched' = IdleSched \/ \E p \in SchedPc : Goto(p))
        BY <3>2 DEF SchedReserve, SchedBegin, SchedDeliver, SchedAt, Dispatched, SchedPc
      <4> QED BY <1>0, <4>1 DEF Goto, CapableRuns
    <3>3. CASE SchedPreempt \/ SchedFlag \/ SchedFree \/ SchedHead
      BY <1>0, <3>3 DEF SchedPreempt, SchedFlag, SchedFree, SchedHead, SchedAt, NoVictims
    <3>4. CASE SchedChoose \/ SchedDequeue \/ SchedVictim \/ SchedInline \/ SchedRequeue
      <4>1. sched'.pc \notin Given
        <5>1. CASE SchedChoose
          BY <1>0, <5>1 DEF SchedChoose, SchedAt
        <5>2. CASE SchedDequeue \/ SchedInline \/ SchedRequeue
          BY <1>0, <5>2 DEF SchedDequeue, SchedInline, SchedRequeue, Dispatched
        <5>3. CASE SchedVictim
          BY <1>0, <5>3 DEF SchedVictim, Goto
        <5> QED BY <3>4, <5>1, <5>2, <5>3
      <4> QED BY <4>1
    <3> QED BY <1>1, <3>1, <3>2, <3>3, <3>4 DEF Scheduler
  <2>2. \A r \in runs' : r.task \in Capable[r.worker]
    <3>1. CASE SchedStarts
      <4>1. PICK pc \in {"handler", "report"}, inline \in BOOLEAN : runs' = runs \union {Run(pc, inline)}
        BY <3>1 DEF SchedStarts
      <4>2. sched.task \in Capable[sched.exec]
        BY <3>1 DEF SchedStarts, CapableRuns
      <4> QED BY SMTT(30), <4>1, <4>2 DEF CapableRuns, Run
    <3> QED BY <1>1, <3>1, SchedRows DEF SchedLeaves, SchedBegins, CapableRuns
  <2> QED BY <2>1, <2>2 DEF CapableRuns
<1>2. CASE Crash
  BY <1>0, <1>2 DEF Crash, CapableRuns
<1>3. CASE Bystander
  BY <1>3 DEF Bystander, CapableRuns
<1>4. ASSUME NEW r \in runs, RunStep(r) PROVE CapableRuns'
  <2>1. PICK next : RunReturns(r, next) \/ RunReports(r, next) \/ RunLeaves(r, next)
    BY <1>4, RunRows
  <2>2. sched' = sched /\ runs' \subseteq runs \union {next} /\ SameRun(r, next)
    BY <1>4, <2>1, RunRows DEF RunReturns, RunReports, RunLeaves, Become
  <2> QED BY <2>2 DEF CapableRuns, SameRun
<1> QED BY <1>1, <1>2, <1>3, <1>4, StepKinds

\* Only a report sends a run to the wait set, and it leaves its due time in
\* the row.
LEMMA RunWaits ==
    ASSUME TypeInv, NEW r \in runs, RunStep(r), NEW s \in runs', s.pc = "wait"
    PROVE  \/ s \in runs
           \/ s.task = r.task /\ Owns(r.task, r.worker) /\ status'[s.task] = "pending" /\ executeAfter'[s.task] = s.due
<1>0. r \in RunRecord /\ r.task \in Task /\ status \in [Task -> TaskStatus] /\ executeAfter \in [Task -> Time]
  BY DEF TypeInv, TypeOK, PoolTypeOK, StoreTypeOK, RunRecord
<1>1. CASE RunReport(r)
  <2>1. ASSUME NEW due, CompleteAttempt(r.task, r.worker, Outcome(r), due),
               Become(r, [r EXCEPT !.due = due, !.pc = IF Outcome(r) = "pending" THEN "wait" ELSE "release"]),
               s \notin runs
        PROVE  s.task = r.task /\ Owns(r.task, r.worker) /\ status'[s.task] = "pending" /\ executeAfter'[s.task] = s.due
    <3>1. s = [r EXCEPT !.due = due, !.pc = IF Outcome(r) = "pending" THEN "wait" ELSE "release"]
      BY <2>1 DEF Become
    <3>2. Outcome(r) = "pending" /\ s.task = r.task /\ s.due = due
      BY <1>0, <3>1 DEF RunRecord
    <3> QED BY <1>0, <2>1, <3>2 DEF CompleteAttempt, ReleaseRows
  <2>2. CASE Become(r, [r EXCEPT !.pc = "release"])
    BY <1>0, <2>2 DEF Become, RunRecord
  <2> QED BY <1>1, <2>1, <2>2 DEF RunReport
<1>2. CASE RunReturn(r)
  <2>1. PICK ok \in BOOLEAN, pc \in {"release", "report"} : Become(r, [r EXCEPT !.ok = ok, !.pc = pc])
    BY <1>2 DEF RunReturn
  <2>2. [r EXCEPT !.ok = ok, !.pc = pc].pc # "wait"
    BY <1>0, <2>1 DEF RunRecord
  <2> QED BY <2>1, <2>2 DEF Become
<1>3. CASE RunWait(r) \/ RunRelease(r)
  <2>1. Become(r, [r EXCEPT !.pc = "release"]) \/ runs' = runs \ {r}
    BY <1>3 DEF RunWait, RunRelease
  <2> QED BY SMTT(30), <1>0, <2>1 DEF Become, RunRecord
<1> QED BY <1>1, <1>2, <1>3 DEF RunStep

LEMMA WaitingStep ==
    ServedByOne /\ TypeInv /\ PoolInv /\ CapableRuns /\ WaitingRuns /\ [Next]_vars => WaitingRuns'
<1> SUFFICES ASSUME ServedByOne, TypeInv, PoolInv, CapableRuns, WaitingRuns, [Next]_vars,
                    NEW r \in runs', r.pc = "wait"
             PROVE  status'[r.task] \in Parked /\ executeAfter'[r.task] = r.due
  BY DEF WaitingRuns
<1>0. StoreInv /\ [StoreNext]_storeVars /\ \A s \in runs : s.task \in Task /\ s.worker \in Worker
  BY StoreStep DEF TypeInv, TypeOK, StoreInv, PoolTypeOK, RunRecord
<1>s. ASSUME r \in runs, status'[r.task] # "running"
      PROVE  status'[r.task] \in Parked /\ executeAfter'[r.task] = r.due
  BY <1>0, <1>s, ParkedStays DEF WaitingRuns
<1>q. r \in runs => status[r.task] # "running" /\ r.task \in Task
  BY <1>0 DEF WaitingRuns, Parked
<1>1. CASE Scheduler
  <2>1. CASE SchedBegins
    <3>1. r \in runs /\ BeginAttempt(sched.task, sched.exec) /\ sched.exec \in Worker
      BY <2>1 DEF SchedBegins, TypeInv, SchedLocals
    <3>2. r.task # sched.task
      <4> SUFFICES ASSUME r.task = sched.task PROVE FALSE
        OBVIOUS
      <4>1. r.worker = sched.exec
        BY <1>0, <2>1, <3>1 DEF ServedByOne, CapableRuns, SchedBegins
      <4> QED BY <2>1, <3>1, <4>1 DEF PoolInv, HeldIsIdle, Holding, SchedBegins
    <3>3. status'[r.task] # "running"
      BY <1>q, <3>1, <3>2 DEF BeginAttempt, TypeInv, TypeOK, StoreTypeOK
    <3> QED BY <1>s, <3>1, <3>3
  <2>2. CASE SchedLeaves
    BY <1>q, <1>s, <2>2 DEF SchedLeaves, storeVars
  <2>3. CASE SchedStarts
    <3>1. r \in runs
      BY SMTT(30), <2>3 DEF SchedStarts, Run
    <3> QED BY <1>q, <1>s, <2>3, <3>1 DEF SchedStarts, storeVars
  <2> QED BY <1>1, <2>1, <2>2, <2>3, SchedRows
<1>2. CASE Crash
  BY <1>2 DEF Crash
<1>3. CASE Bystander
  BY <1>q, <1>s, <1>3 DEF Bystander, Quiet
<1>4. ASSUME NEW s \in runs, RunStep(s) PROVE status'[r.task] \in Parked /\ executeAfter'[r.task] = r.due
  <2>1. CASE r \in runs
    <3>1. PICK next : RunReturns(s, next) \/ RunReports(s, next) \/ RunLeaves(s, next)
      BY <1>4, RunRows
    <3>2. CASE RunReports(s, next)
      <4>1. PICK outcome, due : outcome \in Outcomes /\ CompleteAttempt(s.task, s.worker, outcome, due)
        BY <3>2 DEF RunReports
      <4>2. status'[r.task] # "running"
        BY <1>q, <2>1, <4>1 DEF CompleteAttempt, ReleaseRows, Outcomes
      <4> QED BY <1>s, <2>1, <4>2
    <3>3. CASE UNCHANGED storeVars
      BY <1>q, <1>s, <2>1, <3>3 DEF storeVars
    <3> QED BY <3>1, <3>2, <3>3 DEF RunReturns, RunLeaves
  <2>2. CASE r \notin runs
    BY <1>4, <2>2, RunWaits DEF Parked
  <2> QED BY <2>1, <2>2
<1> QED BY <1>1, <1>2, <1>3, <1>4, StepKinds

\* Steps that schedule, promote, cancel or lose nothing that waits.
Aside ==
    /\ UNCHANGED <<wait, delay, submitting, cancelling>> /\ runs \subseteq runs'
    /\ \A t \in Task : status'[t] = "pending" => status[t] = "pending"

LEMMA PromotionSteps ==
    ASSUME TypeInv, PoolInv, [Next]_vars
    PROVE  \/ Aside \/ Crash \/ DelayLoop \/ StartRebuild
           \/ \E r \in runs : RunStep(r)
           \/ \E t \in Task : \/ SubmitCreate(t) \/ SubmitPush(t)
                              \/ CancelSelect(t) \/ CancelUpdate(t) \/ CancelUnwait(t)
<1>0. status \in [Task -> TaskStatus]
  BY DEF TypeInv, TypeOK, StoreTypeOK
<1>1. CASE Scheduler
  <2>1. UNCHANGED <<wait, delay, submitting, cancelling>>
    BY <1>1
    DEF Scheduler, SchedChoose, SchedDequeue, SchedPick, SchedVictim, SchedPreempt, SchedFlag,
        SchedFree, SchedHead, SchedReserve, SchedBegin, SchedDeliver, SchedInline, SchedRequeue,
        SchedFrame, loopVars, apiVars, queueVars, Dequeue, EnqueueHead, runEnqueue
  <2>2. CASE SchedBegins
    BY <1>0, <2>1, <2>2 DEF SchedBegins, BeginAttempt, Aside
  <2>3. CASE SchedLeaves \/ SchedStarts
    BY <2>1, <2>3 DEF SchedLeaves, SchedStarts, storeVars, Aside
  <2> QED BY <1>1, <2>2, <2>3, SchedRows
<1>2. CASE Reaper
  <2>1. UNCHANGED <<wait, delay, submitting, cancelling, runs>>
    BY <1>2
    DEF Reaper, ReapMark, ReapReclaim, ReapNotify, ReapPush, ReapFrame, apiVars, queueVars, EnqueueHead, runEnqueue
  <2>2. (\E S : ReleaseRows(S, "ready")) \/ UNCHANGED status
    BY <1>2 DEF Reaper, ReapMark, ReapReclaim, ReapNotify, ReapPush, storeVars, ReclaimExpired
  <2> QED BY <2>1, <2>2 DEF ReleaseRows, Aside
<1>3. CASE StartRecover
  BY <1>3 DEF StartRecover, StartFrame, apiVars, queueVars, RecoverInflight, ReleaseRows, Aside
<1>4. ASSUME NEW t \in Task, StartEnqueue(t) \/ RetryDeadPush(t) PROVE Aside
  BY <1>4
  DEF StartEnqueue, StartFrame, RetryDeadPush, ApiFrame, apiVars, queueVars, storeVars, Enqueue, runEnqueue, Aside
<1>5. ASSUME NEW ids, RetryDeadBatch(ids) \/ DiscardDeadBatch(ids) PROVE Aside
  <2>1. UNCHANGED <<wait, delay, submitting, cancelling, runs>>
    BY <1>5 DEF RetryDeadBatch, DiscardDeadBatch, ApiFrame, apiVars, queueVars
  <2> QED BY <1>5, <2>1 DEF RetryDeadBatch, DiscardDeadBatch, RetryDead, DiscardDead, Aside
<1>6. ASSUME NEW r \in runs, RunRenew(r) PROVE Aside
  BY <1>6 DEF RunRenew, RunFrame, loopVars, apiVars, queueVars, RenewLease, Aside
<1>7. CASE Disturbance \/ Tick \/ \E w \in Worker : Heartbeat(w)
  <2>1. CASE Crash
    BY <2>1
  <2> QED BY <1>7, <2>1
          DEF Disturbance, Stall, LeaseLapses, LeaseExpires, Tick, Heartbeat, EnvFrame, processVars, apiVars,
              queueVars, storeVars, Aside
<1>8. CASE UNCHANGED vars
  BY <1>8 DEF vars, processVars, apiVars, queueVars, storeVars, Aside
<1> QED BY <1>1, <1>2, <1>3, <1>4, <1>5, <1>6, <1>7, <1>8 DEF Next, Runtime, ApiStep, Request

LEMMA CancelStep == TypeInv /\ PoolInv /\ CancelsAreFinal /\ [Next]_vars => CancelsAreFinal'
<1> SUFFICES ASSUME TypeInv, PoolInv, CancelsAreFinal, [Next]_vars, NEW t \in Task, cancelling'[t] \in WaitKind
             PROVE  status'[t] = "canceled"
  BY DEF CancelsAreFinal
<1>0. /\ cancelling \in [Task -> {"no", "update"} \union WaitKind] /\ status \in [Task -> TaskStatus]
      /\ StoreInv /\ [StoreNext]_storeVars
  BY StoreStep DEF TypeInv, TypeOK, ApiTypeOK, StoreTypeOK, StoreInv
<1>1. ASSUME cancelling'[t] = cancelling[t] PROVE status'[t] = "canceled"
  BY <1>0, <1>1, CanceledStays DEF CancelsAreFinal
<1>2. ASSUME NEW u \in Task, CancelUpdate(u) PROVE status'[t] = "canceled"
  BY <1>0, <1>1, <1>2 DEF CancelUpdate, CancelWrite
<1>3. ASSUME NEW u \in Task, CancelUnwait(u) PROVE status'[t] = "canceled"
  <2>1. CASE t = u
    BY <1>0, <1>3, <2>1, CanceledStays DEF CancelUnwait, CancelsAreFinal
  <2>2. CASE t # u
    BY <1>0, <1>1, <1>3, <2>2 DEF CancelUnwait
  <2> QED BY <2>1, <2>2
<1>4. ASSUME NEW u \in Task, CancelSelect(u) PROVE status'[t] = "canceled"
  BY <1>0, <1>1, <1>4 DEF CancelSelect, WaitKind
<1>5. CASE Crash
  BY <1>5 DEF Crash, WaitKind
<1>6. CASE Aside \/ DelayLoop \/ StartRebuild
  BY <1>1, <1>6
  DEF Aside, DelayLoop, DelayPop, DelayMark, DelayPush, DelayPutBack, DelayFrame, StartRebuild, StartFrame, apiVars
<1>7. ASSUME NEW r \in runs, RunStep(r) PROVE status'[t] = "canceled"
  BY <1>1, <1>7 DEF RunStep, RunReturn, RunReport, RunWait, RunRelease, RunFrame, loopVars, apiVars
<1>8. ASSUME NEW u \in Task, SubmitCreate(u) \/ SubmitPush(u) PROVE status'[t] = "canceled"
  BY <1>1, <1>8 DEF SubmitCreate, SubmitPush
<1> QED BY <1>2, <1>3, <1>4, <1>5, <1>6, <1>7, <1>8, PromotionSteps

LEMMA PromotesStep == TypeInv /\ PoolInv /\ PromotesWhenUp /\ [Next]_vars => PromotesWhenUp'
<1> SUFFICES ASSUME TypeInv, PoolInv, PromotesWhenUp, [Next]_vars, phase' # "up" PROVE delay'.pc = "pop"
  BY DEF PromotesWhenUp
<1>1. CASE Crash
  BY <1>1 DEF Crash, IdleDelay
<1>2. CASE delay' = delay
  <2>1. phase = "up" => ~StartRecover /\ ~StartRebuild
    BY DEF StartRecover, StartRebuild
  <2> QED BY <1>1, <1>2, <2>1, PhaseStep DEF PromotesWhenUp
<1>3. ~DelayLoop
  BY DEF DelayLoop, DelayPop, DelayMark, DelayPush, DelayPutBack, DelayFrame, Up
<1>4. ASSUME NEW r \in runs, RunStep(r) PROVE delay' = delay
  BY <1>4 DEF RunStep, RunReturn, RunReport, RunWait, RunRelease, RunFrame, loopVars
<1>5. ASSUME NEW t \in Task,
             SubmitCreate(t) \/ SubmitPush(t) \/ CancelSelect(t) \/ CancelUpdate(t) \/ CancelUnwait(t)
      PROVE  delay' = delay
  BY <1>5 DEF SubmitCreate, SubmitPush, CancelSelect, CancelUpdate, CancelUnwait, ApiFrame
<1>6. CASE Aside \/ StartRebuild
  BY <1>2, <1>6 DEF Aside, StartRebuild, StartFrame
<1> QED BY <1>1, <1>2, <1>3, <1>4, <1>5, <1>6, PromotionSteps

\* With one instant to a millisecond a score is the instant itself.
LEMMA ScoreIsInstant == ASSUME TicksPerMilli = 1, NEW x \in Time PROVE UnixMilli(x) = x /\ x # NotWaiting
BY SMTT(30), TimeAssumption DEF UnixMilli, Time, NotWaiting

\* Only a start leads from outside to a state in which no call has failed.
LEMMA StillCalm ==
    ASSUME TypeInv, PoolInv, [Next]_vars, phase' = "up", budget'.faults = 0, ~StartRebuild
    PROVE  phase = "up" /\ budget.faults = 0
<1>1. CASE Scheduler
  BY <1>1, SchedRows DEF SchedLeaves, SchedBegins, SchedStarts, NoNewFault
<1>2. ASSUME NEW r \in runs, RunStep(r) PROVE phase = "up" /\ budget.faults = 0
  BY <1>2, RunRows DEF NoNewFault
<1>3. CASE Bystander
  <2>1. phase = phase'
    BY PhaseStep DEF StartRecover, Crash
  <2> QED BY <1>3, <2>1 DEF Bystander
<1> QED BY <1>1, <1>2, <1>3, StepKinds DEF Crash

\* promoteOnce keeps what it pops until PostgreSQL has promoted it, and pops
\* nothing before it is due.
LEMMA PromotionKeeps ==
    ASSUME TicksPerMilli = 1, TypeInv, PendingAreScheduled, phase = "up", budget.faults = 0, budget'.faults = 0,
           DelayLoop
    PROVE  delay'.pc # "putback" /\ \A t \in Task : status'[t] = "pending" => Scheduled(t)'
<1>0. /\ delay \in [pc : {"pop", "mark", "push", "putback"}, kind : WaitKind, now : Time, ids : SUBSET Task]
      /\ wait \in [WaitKind -> [Task -> {NotWaiting} \union {UnixMilli(x) : x \in Time}]]
      /\ now \in Time /\ executeAfter \in [Task -> Time] /\ status \in [Task -> TaskStatus]
  BY DEF TypeInv, TypeOK, LoopTypeOK, QTypeOK, ApiTypeOK, StoreTypeOK
<1>f. ~Fault
  BY SMTT(30) DEF Fault, TypeInv, TypeOK, ApiTypeOK
<1>h. delay.pc # "putback" /\ \A t \in Task : status[t] = "pending" => Scheduled(t)
  BY DEF PendingAreScheduled
<1>u. UNCHANGED <<submitting, runs>> /\ IdleDelay.pc = "pop"
  BY DEF DelayLoop, DelayPop, DelayMark, DelayPush, DelayPutBack, DelayFrame, apiVars, IdleDelay
<1>1. CASE DelayPop
  <2>0. delay.pc = "pop" /\ UNCHANGED <<status, executeAfter>>
    BY <1>1 DEF DelayPop, storeVars
  <2>1. PICK ids \in SUBSET Task :
           /\ PopDue(delay.kind, PassNow, ids)
           /\ delay' = NextKind([delay EXCEPT !.pc = "mark", !.now = PassNow, !.ids = ids])
    BY <1>1, <1>f DEF DelayPop
  <2>2. PassNow \in Time /\ UnixMilli(PassNow) = PassNow
    BY <1>0, ScoreIsInstant DEF PassNow
  <2>3. IF ids = {} THEN delay'.pc = "pop" ELSE delay'.pc = "mark" /\ delay'.ids = ids /\ delay'.now = PassNow
    BY <1>0, <1>u, <2>1 DEF NextKind
  <2>4. \A k \in WaitKind, t \in Task : wait'[k][t] = wait[k][t] \/ (k = delay.kind /\ t \in ids)
    BY <1>0, <2>1 DEF PopDue
  <2>5. \A t \in ids : wait[delay.kind][t] <= PassNow
    BY <2>1, <2>2 DEF PopDue, IsDuePrefix, DueIds
  <2>6. ASSUME NEW t \in Task, status'[t] = "pending" PROVE Scheduled(t)'
    <3>1. Scheduled(t)
      BY <1>h, <2>0, <2>6
    <3>2. ASSUME NEW k \in WaitKind, wait[k][t] # NotWaiting, executeAfter[t] <= wait[k][t] PROVE Scheduled(t)'
      <4>1. CASE wait'[k][t] = wait[k][t]
        BY <2>0, <3>2, <4>1 DEF Scheduled
      <4>2. CASE k = delay.kind /\ t \in ids
        <5>1. executeAfter[t] \in Int /\ wait[k][t] \in Int /\ PassNow \in Int
          BY SMTT(30), <1>0, <2>2, <3>2, TimeAssumption DEF Time, UnixMilli, NotWaiting
        <5>2. executeAfter[t] <= PassNow
          BY SMTT(30), <2>5, <3>2, <4>2, <5>1
        <5> QED BY <2>0, <2>3, <4>2, <5>2 DEF Scheduled
      <4> QED BY <2>4, <4>1, <4>2
    <3> QED BY <1>u, <2>0, <3>1, <3>2 DEF Scheduled
  <2> QED BY <2>3, <2>6
<1>2. CASE DelayMark
  <2>0. delay.pc = "mark" /\ UNCHANGED wait /\ MarkReadyByIDs(delay.ids, delay.now)
    BY <1>2, <1>f DEF DelayMark, queueVars
  <2>1. delay'.pc \in {"push", "pop"}
    <3>1. delay' = NextKind([delay EXCEPT !.pc = "push", !.ids = Promotable(delay.ids, delay.now)])
      BY <1>2, <1>f DEF DelayMark
    <3> QED BY <1>0, <1>u, <3>1 DEF NextKind
  <2>2. ASSUME NEW t \in Task, status'[t] = "pending" PROVE Scheduled(t)'
    <3>1. /\ status[t] = "pending" /\ executeAfter' = executeAfter
          /\ ~(t \in delay.ids /\ executeAfter[t] <= delay.now)
      BY <2>0, <2>2 DEF MarkReadyByIDs, Promotable
    <3> QED BY <1>h, <1>u, <2>0, <3>1 DEF Scheduled
  <2> QED BY <2>1, <2>2
<1>3. ASSUME NEW u \in Task, DelayPush(u)
      PROVE  delay'.pc # "putback" /\ \A t \in Task : status'[t] = "pending" => Scheduled(t)'
  <2>0. delay.pc = "push" /\ UNCHANGED <<wait, status, executeAfter>>
    BY <1>3, <1>f DEF DelayPush, Enqueue, runEnqueue, storeVars
  <2>1. delay'.pc \in {"push", "pop"}
    <3>1. delay' = NextKind([delay EXCEPT !.ids = @ \ {u}])
      BY <1>3, <1>f DEF DelayPush
    <3> QED BY <1>0, <1>u, <2>0, <3>1 DEF NextKind
  <2> QED BY <1>h, <1>u, <2>0, <2>1 DEF Scheduled
<1>4. ASSUME NEW u \in Task, DelayPutBack(u) PROVE FALSE
  BY <1>h, <1>4 DEF DelayPutBack
<1> QED BY <1>1, <1>2, <1>3, <1>4 DEF DelayLoop

\* A failed run hands its task over to the wait set.
LEMMA RunKeeps ==
    ASSUME TicksPerMilli = 1, TypeInv, StoreInv, [StoreNext]_storeVars, WaitingRuns, budget'.faults = 0,
           NEW r \in runs, RunStep(r), NEW t \in Task, status'[t] = "pending",
           status[t] = "pending" => Scheduled(t)
    PROVE  Scheduled(t)'
<1>0. /\ r \in RunRecord /\ r.task \in Task /\ r.due \in Time /\ status \in [Task -> TaskStatus]
      /\ executeAfter \in [Task -> Time]
      /\ wait \in [WaitKind -> [Task -> {NotWaiting} \union {UnixMilli(x) : x \in Time}]]
  BY DEF TypeInv, TypeOK, PoolTypeOK, StoreTypeOK, QTypeOK, RunRecord
<1>f. ~Fault
  BY SMTT(30) DEF Fault, TypeInv, TypeOK, ApiTypeOK
<1>u. UNCHANGED <<submitting, delay>>
  BY DEF RunStep, RunReturn, RunReport, RunWait, RunRelease, RunFrame, loopVars, apiVars
<1>1. CASE RunWait(r)
  <2>1. /\ wait' = [wait EXCEPT !["retry"][r.task] = UnixMilli(r.due)] /\ r.pc = "wait"
        /\ UNCHANGED <<status, executeAfter>> /\ runs \ {r} \subseteq runs'
    BY <1>1, <1>f DEF RunWait, AddWaiting, Become, storeVars
  <2>2. UnixMilli(r.due) = r.due /\ r.due # NotWaiting
    BY <1>0, ScoreIsInstant
  <2>3. CASE t = r.task
    <3>1. executeAfter'[t] = r.due /\ wait'["retry"][t] = r.due
      BY <1>0, <2>1, <2>2, <2>3 DEF WaitingRuns, WaitKind
    <3>2. r.due <= r.due
      BY SMTT(30), <1>0, TimeAssumption DEF Time
    <3> QED BY <2>2, <3>1, <3>2 DEF Scheduled, WaitKind
  <2>4. CASE t # r.task
    <3>1. \A k \in WaitKind : wait'[k][t] = wait[k][t]
      BY <1>0, <2>1, <2>4
    <3> QED BY <1>u, <2>1, <2>4, <3>1 DEF Scheduled
  <2> QED BY <2>3, <2>4
<1>2. CASE RunReport(r)
  <2>1. UNCHANGED wait /\ r.pc = "report" /\ runs \ {r} \subseteq runs'
    BY <1>2 DEF RunReport, queueVars, Become
  <2>2. CASE status[t] = "pending"
    <3>1. executeAfter'[t] = executeAfter[t]
      BY <2>2, PendingComes
    <3> QED BY <1>u, <2>1, <2>2, <3>1 DEF Scheduled
  <2>3. CASE status[t] # "pending"
    <3>1. PICK due : /\ CompleteAttempt(r.task, r.worker, Outcome(r), due)
                     /\ Become(r, [r EXCEPT !.due = due,
                                            !.pc = IF Outcome(r) = "pending" THEN "wait" ELSE "release"])
      BY <1>2, <1>f, <2>3 DEF RunReport, storeVars
    <3>2. t = r.task /\ Outcome(r) = "pending"
      BY <1>0, <2>3, <3>1 DEF CompleteAttempt, ReleaseRows
    <3>3. [r EXCEPT !.due = due, !.pc = "wait"] \in runs'
      BY <3>1, <3>2 DEF Become
    <3>4. [r EXCEPT !.due = due, !.pc = "wait"].task = t /\ [r EXCEPT !.due = due, !.pc = "wait"].pc = "wait"
      BY <1>0, <3>2 DEF RunRecord
    <3> QED BY <3>3, <3>4 DEF Scheduled
  <2> QED BY <2>2, <2>3
<1>3. CASE RunReturn(r) \/ RunRelease(r)
  <2>1. UNCHANGED <<wait, status, executeAfter>> /\ r.pc # "wait" /\ runs \ {r} \subseteq runs'
    BY <1>3 DEF RunReturn, RunRelease, queueVars, storeVars, Become
  <2> QED BY <1>u, <2>1 DEF Scheduled
<1> QED BY <1>1, <1>2, <1>3 DEF RunStep

\* Submission and cancellation.
LEMMA RequestKeeps ==
    ASSUME TicksPerMilli = 1, TypeInv, CancelsAreFinal, budget'.faults = 0, NEW u \in Task,
           SubmitCreate(u) \/ SubmitPush(u) \/ CancelSelect(u) \/ CancelUpdate(u) \/ CancelUnwait(u),
           NEW t \in Task, status'[t] = "pending",
           status[t] = "pending" => Scheduled(t)
    PROVE  Scheduled(t)'
<1>0. /\ status \in [Task -> TaskStatus] /\ executeAfter \in [Task -> Time]
      /\ wait \in [WaitKind -> [Task -> {NotWaiting} \union {UnixMilli(x) : x \in Time}]]
      /\ submitting \in [Task -> {"no", "ready", "delayed"}]
      /\ cancelling \in [Task -> {"no", "update"} \union WaitKind]
  BY DEF TypeInv, TypeOK, StoreTypeOK, QTypeOK, ApiTypeOK
<1>f. ~Fault
  BY SMTT(30) DEF Fault, TypeInv, TypeOK, ApiTypeOK
<1>u. UNCHANGED <<delay, runs>>
  BY DEF SubmitCreate, SubmitPush, CancelSelect, CancelUpdate, CancelUnwait, ApiFrame
<1>1. CASE SubmitCreate(u)
  <2>1. wait' = wait
    BY <1>1 DEF SubmitCreate, queueVars
  <2>2. CASE t = u
    BY <1>0, <1>1, <2>2 DEF SubmitCreate, CreateTask, Scheduled
  <2>3. CASE t # u
    <3>1. status'[t] = status[t] /\ executeAfter'[t] = executeAfter[t] /\ submitting'[t] = submitting[t]
      BY <1>0, <1>1, <2>3 DEF SubmitCreate, CreateTask
    <3> QED BY <1>u, <2>1, <3>1 DEF Scheduled
  <2> QED BY <2>2, <2>3
<1>2. CASE SubmitPush(u)
  <2>0. UNCHANGED <<status, executeAfter>> /\ submitting' = [submitting EXCEPT ![u] = "no"]
    BY <1>2 DEF SubmitPush, storeVars
  <2>1. CASE submitting[u] = "delayed" /\ AddWaiting("delay", u, executeAfter[u])
    <3>1. CASE t = u
      <4>1. UnixMilli(executeAfter[t]) = executeAfter[t] /\ executeAfter[t] # NotWaiting
        BY <1>0, ScoreIsInstant
      <4>2. wait'["delay"][t] = executeAfter[t] /\ executeAfter[t] <= executeAfter[t]
        BY SMTT(30), <1>0, <2>1, <3>1, <4>1, TimeAssumption DEF AddWaiting, WaitKind, Time
      <4> QED BY <2>0, <4>1, <4>2 DEF Scheduled, WaitKind
    <3>2. CASE t # u
      <4>1. submitting'[t] = submitting[t] /\ \A k \in WaitKind : wait'[k][t] = wait[k][t]
        BY <1>0, <2>0, <2>1, <3>2 DEF AddWaiting
      <4> QED BY <1>u, <2>0, <4>1 DEF Scheduled
    <3> QED BY <3>1, <3>2
  <2>2. CASE submitting[u] = "ready" /\ wait' = wait
    <3>1. submitting[t] = "delayed" => submitting'[t] = "delayed"
      BY <1>0, <2>0, <2>2
    <3> QED BY <1>u, <2>0, <2>2, <3>1 DEF Scheduled
  <2> QED BY <1>2, <1>f, <2>1, <2>2 DEF SubmitPush, Enqueue, runEnqueue
<1>3. CASE CancelSelect(u) \/ CancelUpdate(u)
  <2>1. UNCHANGED <<wait, submitting, executeAfter>> /\ (status' = status \/ status' = [status EXCEPT ![u] = "canceled"])
    BY <1>3 DEF CancelSelect, CancelUpdate, CancelWrite, queueVars, storeVars
  <2>2. status[t] = "pending"
    BY <1>0, <2>1
  <2> QED BY <1>u, <2>1, <2>2 DEF Scheduled
<1>4. CASE CancelUnwait(u)
  <2>1. /\ UNCHANGED <<submitting, status, executeAfter>> /\ cancelling[u] \in WaitKind
        /\ RemoveWaiting(cancelling[u], u)
    BY <1>4, <1>f DEF CancelUnwait, storeVars
  <2>2. t # u
    BY <2>1 DEF CancelsAreFinal
  <2>3. \A k \in WaitKind : wait'[k][t] = wait[k][t]
    BY <1>0, <2>1, <2>2 DEF RemoveWaiting
  <2> QED BY <1>u, <2>1, <2>3 DEF Scheduled
<1> QED BY <1>1, <1>2, <1>3, <1>4

PendingInv ==
    CapableRuns /\ WaitingRuns /\ CancelsAreFinal /\ PromotesWhenUp /\ PendingAreScheduled

LEMMA PendingStep ==
    ASSUME ServedByOne, TicksPerMilli = 1
    PROVE  TypeInv /\ PoolInv /\ PendingInv /\ [Next]_vars => PendingInv'
<1> SUFFICES ASSUME TypeInv, PoolInv, PendingInv, [Next]_vars, phase' = "up", budget'.faults = 0
             PROVE  delay'.pc # "putback" /\ \A t \in Task : status'[t] = "pending" => Scheduled(t)'
  BY CapableStep, WaitingStep, CancelStep, PromotesStep DEF PendingInv, PendingAreScheduled
<1>0. StoreInv /\ [StoreNext]_storeVars /\ CancelsAreFinal /\ WaitingRuns
  BY StoreStep DEF TypeInv, TypeOK, StoreInv, PendingInv
<1>1. CASE StartRebuild
  <2>1. /\ wait' = [wait EXCEPT !["retry"] =
                      [t \in Task |-> IF status[t] = "pending" THEN UnixMilli(executeAfter[t]) ELSE @[t]]]
        /\ UNCHANGED <<status, executeAfter, delay>> /\ phase = "recovering"
    BY <1>1 DEF StartRebuild, StartFrame, storeVars
  <2>2. delay'.pc = "pop"
    BY <2>1 DEF PendingInv, PromotesWhenUp
  <2>3. ASSUME NEW t \in Task, status'[t] = "pending" PROVE Scheduled(t)'
    <3>1. executeAfter[t] \in Time /\ wait \in [WaitKind -> [Task -> {NotWaiting} \union {UnixMilli(x) : x \in Time}]]
      BY DEF TypeInv, TypeOK, StoreTypeOK, QTypeOK
    <3>2. UnixMilli(executeAfter[t]) = executeAfter[t] /\ executeAfter[t] # NotWaiting
      BY <3>1, ScoreIsInstant
    <3>3. wait'["retry"][t] = executeAfter[t] /\ executeAfter[t] <= executeAfter[t]
      BY SMTT(30), <2>1, <2>3, <3>1, <3>2, TimeAssumption DEF WaitKind, Time
    <3> QED BY <2>1, <3>2, <3>3 DEF Scheduled, WaitKind
  <2> QED BY <2>2, <2>3
<1>2. CASE ~StartRebuild
  <2>0. /\ phase = "up" /\ budget.faults = 0
        /\ delay.pc # "putback" /\ \A t \in Task : status[t] = "pending" => Scheduled(t)
    BY <1>2, StillCalm DEF PendingInv, PendingAreScheduled
  <2>1. CASE DelayLoop
    BY <2>0, <2>1, PromotionKeeps DEF PendingInv
  <2>2. ASSUME NEW r \in runs, RunStep(r)
        PROVE  delay'.pc # "putback" /\ \A t \in Task : status'[t] = "pending" => Scheduled(t)'
    <3>1. delay' = delay
      BY <2>2 DEF RunStep, RunReturn, RunReport, RunWait, RunRelease, RunFrame, loopVars
    <3> QED BY <1>0, <2>0, <2>2, <3>1, RunKeeps
  <2>3. ASSUME NEW u \in Task,
               SubmitCreate(u) \/ SubmitPush(u) \/ CancelSelect(u) \/ CancelUpdate(u) \/ CancelUnwait(u)
        PROVE  delay'.pc # "putback" /\ \A t \in Task : status'[t] = "pending" => Scheduled(t)'
    <3>1. delay' = delay
      BY <2>3 DEF SubmitCreate, SubmitPush, CancelSelect, CancelUpdate, CancelUnwait, ApiFrame
    <3> QED BY <1>0, <2>0, <2>3, <3>1, RequestKeeps
  <2>4. CASE Aside
    <3>1. ASSUME NEW t \in Task, status'[t] = "pending" PROVE Scheduled(t)'
      <4>1. status[t] = "pending" /\ executeAfter'[t] = executeAfter[t]
        BY <1>0, <2>4, <3>1, PendingComes DEF Aside
      <4> QED BY <2>0, <2>4, <4>1 DEF Aside, Scheduled
    <3> QED BY <2>0, <2>4, <3>1 DEF Aside
  <2>5. ~Crash
    BY DEF Crash
  <2> QED BY <1>2, <2>1, <2>2, <2>3, <2>4, <2>5, PromotionSteps
<1> QED BY <1>1, <1>2

\* Where nothing is preempted, each task has one worker that serves it and the
\* clock runs in whole milliseconds: unless a call has failed since the last
\* start, a row that waits for its delay or its retry is in a wait set or held
\* by a goroutine that will add or promote it (delayscheduler.go, engine.go).
THEOREM NoLostWaiting == ASSUME NoPreemption, ServedByOne, TicksPerMilli = 1 PROVE Spec => []NoPendingTaskLost
<1>1. Init => PendingInv
  <2> SUFFICES ASSUME Init PROVE PendingInv
    OBVIOUS
  <2>1. /\ sched.pc = "idle" /\ runs = {} /\ phase = "down" /\ delay.pc = "pop"
        /\ \A t \in Task : cancelling[t] \notin WaitKind
    BY DEF Init, ProcessInit, IdleSched, IdleDelay, WaitKind
  <2> QED BY <2>1 DEF PendingInv, CapableRuns, WaitingRuns, CancelsAreFinal, PromotesWhenUp, PendingAreScheduled
<1>2. PendingInv => NoPendingTaskLost
  BY DEF PendingInv, PendingAreScheduled, Scheduled, NoPendingTaskLost, HeldPending, Up
<1>3. RunInv /\ PendingInv /\ [Next]_vars => PendingInv'
  BY PendingStep DEF RunInv
<1> QED BY <1>1, <1>2, <1>3, RunInvInit, RunInvStep, PTL DEF Spec

-----------------------------------------------------------------------------
(* Slots.                                                                  *)

\* The dispatch loop holds one of w's slots.
Held(w) == Holding /\ w = sched.exec

\* A slot is taken by a reservation that found one free, which the run it was
\* made for then uses.
LEMMA SlotMoves ==
    ASSUME TypeInv, PoolInv, [Next]_vars, NEW w \in Worker
    PROVE  \/ tasks'[w] \subseteq tasks[w] /\ (Held(w)' => Held(w))
           \/ Held(w) /\ ~Held(w)' /\ tasks'[w] \subseteq tasks[w] \union {sched.task}
           \/ tasks'[w] = tasks[w] /\ reserved[w] = {} /\ FreeSlot(w)
<1>0. /\ sched \in [pc : SchedPc, prio : Rank, task : Task \union {NoTask},
                    exec : Worker \union {NoWorker}, victim : Task \union {NoTask}]
      /\ tasks \in [Worker -> SUBSET Task]
  BY DEF TypeInv, TypeOK, SchedTypeOK, PoolTypeOK
<1>i. IdleSched.pc = "idle"
  BY DEF IdleSched
<1>1. CASE Scheduler
  <2>1. CASE SchedPreempt \/ SchedFlag \/ SchedFree \/ SchedHead
    BY <2>1 DEF SchedPreempt, SchedFlag, SchedFree, SchedHead, SchedAt, PoolInv, NoVictims
  <2>2. CASE SchedChoose \/ SchedDequeue \/ SchedPick \/ SchedVictim \/ SchedRequeue \/ SchedInline
    <3>1. tasks' = tasks /\ sched.pc \notin {"begin", "deliver"}
      BY <2>2
      DEF SchedChoose, SchedDequeue, SchedPick, SchedVictim, SchedRequeue, SchedInline, SchedAt, memoryVars
    <3>2. sched'.pc \notin {"begin", "deliver"}
      <4>1. CASE SchedChoose
        BY <1>0, <3>1, <4>1 DEF SchedChoose
      <4>2. CASE SchedDequeue
        BY <1>0, <1>i, <4>2 DEF SchedDequeue
      <4>3. CASE SchedPick
        BY <1>0, <1>i, <4>3 DEF SchedPick, Goto
      <4>4. CASE SchedVictim
        BY <1>0, <4>4 DEF SchedVictim, Goto
      <4>5. CASE SchedRequeue \/ SchedInline
        BY <1>i, <4>5 DEF SchedRequeue, SchedInline, Dispatched
      <4> QED BY <2>2, <4>1, <4>2, <4>3, <4>4, <4>5
    <3> QED BY <3>1, <3>2 DEF Held, Holding
  <2>3. CASE SchedReserve
    <3>0. tasks' = tasks /\ sched.pc = "reserve"
      BY <2>3 DEF SchedReserve, SchedAt
    <3>1. (FreeSlot(sched.exec) /\ Goto("begin")) \/ Goto("requeue")
      BY <2>3 DEF SchedReserve
    <3>2. sched'.exec = sched.exec /\ ((sched'.pc = "begin" /\ FreeSlot(sched.exec)) \/ sched'.pc = "requeue")
      BY <1>0, <3>1 DEF Goto
    <3>3. reserved[w] = {}
      BY <3>0 DEF PoolInv, Reservations, Holding
    <3> QED BY <3>0, <3>2, <3>3 DEF Held, Holding
  <2>4. CASE SchedBegin
    <3>0. sched.pc = "begin"
      BY <2>4 DEF SchedBegin, SchedAt
    <3>1. tasks'[w] \subseteq tasks[w]
      BY <1>0, <2>4 DEF SchedBegin, memoryVars, ReleaseSlot
    <3>2. sched' = IdleSched \/ Goto("deliver") \/ Goto("requeue")
      BY <2>4 DEF SchedBegin
    <3>3. sched'.pc \in {"begin", "deliver"} => sched'.exec = sched.exec
      BY <1>0, <1>i, <3>2 DEF Goto
    <3> QED BY <3>0, <3>1, <3>3 DEF Held, Holding
  <2>5. CASE SchedDeliver
    <3>0. sched.pc = "deliver" /\ sched.exec \in Worker
      BY <2>5 DEF SchedDeliver, SchedAt, TypeInv, SchedLocals
    <3>1. tasks' = tasks \/ tasks' = [tasks EXCEPT ![sched.exec] = @ \union {sched.task}]
      BY <2>5 DEF SchedDeliver, memoryVars
    <3>2. sched' = IdleSched \/ Goto("inline")
      BY <2>5 DEF SchedDeliver, Dispatched
    <3>3. sched'.pc \notin {"begin", "deliver"}
      BY <1>0, <1>i, <3>2 DEF Goto
    <3>4. w # sched.exec => tasks'[w] = tasks[w]
      BY <1>0, <3>0, <3>1
    <3>5. tasks'[w] \subseteq tasks[w] \union {sched.task}
      BY <1>0, <3>0, <3>1
    <3> QED BY <3>0, <3>3, <3>4, <3>5 DEF Held, Holding
  <2> QED BY <1>1, <2>1, <2>2, <2>3, <2>4, <2>5 DEF Scheduler
<1>2. CASE Crash
  BY <1>i, <1>2 DEF Crash, Held, Holding
<1>3. CASE Bystander
  BY <1>3 DEF Bystander, memoryVars, Held, Holding
<1>4. ASSUME NEW r \in runs, RunStep(r) PROVE tasks'[w] \subseteq tasks[w] /\ (Held(w)' => Held(w))
  <2>1. UNCHANGED sched
    BY <1>4, RunRows
  <2>2. tasks' = tasks \/ tasks' = [tasks EXCEPT ![r.worker] = @ \ {r.task}]
    BY <1>4 DEF RunStep, RunReturn, RunReport, RunWait, RunRelease, ReleaseSlot, memoryVars
  <2> QED BY <1>0, <2>1, <2>2 DEF Held, Holding
<1> QED BY <1>1, <1>2, <1>3, <1>4, StepKinds

-----------------------------------------------------------------------------
(* Counting open rows and busy slots.                                      *)

\* What the steps use of cardinalities: adding one element adds at most one.
\* Counts, below, proves it.
Counting ==
    \A S, T, x : IsFiniteSet(S) /\ T \subseteq S \union {x} =>
        /\ IsFiniteSet(T) /\ Cardinality(S) \in Nat /\ Cardinality(T) \in Nat
        /\ Cardinality(T) <= Cardinality(S) + 1
        /\ T \subseteq S => Cardinality(T) <= Cardinality(S)

\* A crash will have orphaned the row of a task that still says running when
\* the process is down.
Owed(t) == IF phase = "down" /\ status[t] = "running" THEN 1 ELSE 0

Causes(t) == budget.crashes + (IF status[t] = "canceled" THEN 1 ELSE 0)

OrphanInv ==
    \A t \in Task : IsFiniteSet(OrphanRows(t)) /\ Cardinality(OrphanRows(t)) + Owed(t) <= Causes(t)

LEMMA OrphanStep == Counting /\ TypeInv /\ NoneInflight /\ OrphanInv /\ [Next]_vars => OrphanInv'
<1> SUFFICES ASSUME Counting, TypeInv, NoneInflight, OrphanInv, [Next]_vars, NEW t \in Task
             PROVE  /\ IsFiniteSet(OrphanRows(t)')
                    /\ Cardinality(OrphanRows(t)') + Owed(t)' <= Causes(t)'
  BY DEF OrphanInv
<1> DEFINE S == OrphanRows(t)
           T == OrphanRows(t)'
<1>0. /\ StoreInv /\ IsFiniteSet(S) /\ Cardinality(S) + Owed(t) <= Causes(t)
      /\ budget.crashes \in Nat
  BY DEF TypeInv, TypeOK, StoreInv, ApiTypeOK, OrphanInv
<1>1. status[t] = "canceled" => status'[t] = "canceled"
  BY <1>0, CanceledStays, StoreStep
<1>2. ASSUME T \subseteq S \union {attempts[t]}
      PROVE  /\ IsFiniteSet(T) /\ Cardinality(T) \in Nat /\ Cardinality(T) <= Cardinality(S) + 1
             /\ T \subseteq S => Cardinality(T) <= Cardinality(S)
  BY <1>0, <1>2 DEF Counting
<1>c. Cardinality(S) \in Nat
  BY <1>0 DEF Counting
<1> HIDE DEF S, T
<1>3. CASE StartRecover
  <2>1. RecoverInflight /\ phase = "down" /\ phase' = "recovering" /\ budget'.crashes = budget.crashes
    BY <1>3 DEF StartRecover, TypeInv, TypeOK, ApiTypeOK
  <2>2. /\ status'[t] # "running" /\ (status'[t] = "canceled" <=> status[t] = "canceled")
        /\ T \subseteq S \union {attempts[t]} /\ (status[t] # "running" => T \subseteq S)
    BY <1>0, <2>1, RecoverOrphans DEF S, T
  <2> QED BY SMTT(30), <1>0, <1>c, <1>2, <2>1, <2>2 DEF Owed, Causes, S, T
<1>4. CASE StartRebuild
  <2>1. phase = "recovering" /\ UNCHANGED storeVars /\ budget'.crashes = budget.crashes
    BY <1>4 DEF StartRebuild, Fault, OK, TypeInv, TypeOK, ApiTypeOK
  <2>2. T = S /\ status[t] # "running" /\ status'[t] = status[t]
    BY <2>1 DEF NoneInflight, OrphanRows, storeVars, S, T
  <2> QED BY <1>0, <1>c, <2>1, <2>2 DEF Owed, Causes, S, T
<1>5. CASE Crash
  <2>1. UNCHANGED storeVars /\ budget'.crashes = budget.crashes + 1
    BY <1>5 DEF Crash, TypeInv, TypeOK, ApiTypeOK
  <2>2. T = S /\ status'[t] = status[t]
    BY <2>1 DEF OrphanRows, storeVars, S, T
  <2> QED BY SMTT(30), <1>0, <1>c, <2>1, <2>2 DEF Owed, Causes, S, T
<1>6. CASE /\ phase' = phase /\ budget'.crashes = budget.crashes
           /\ StoreCall \/ UNCHANGED storeVars
           /\ \A u \in Task : status'[u] = "running" => status[u] = "running" \/ phase = "up"
  <2>1. T \subseteq S \/ (status[t] = "running" /\ status'[t] = "canceled" /\ T \subseteq S \union {attempts[t]})
    BY <1>0, <1>6, StoreOrphans DEF S, T
  <2> QED BY SMTT(30), <1>0, <1>c, <1>1, <1>2, <1>6, <2>1 DEF Owed, Causes, S, T
<1> QED BY <1>3, <1>4, <1>5, <1>6, PhaseStep DEF S, T

SlotInv ==
    \A w \in Worker :
        /\ IsFiniteSet(tasks[w])
        /\ Cardinality(tasks[w]) + (IF Held(w) THEN 1 ELSE 0) <= Slots[w]

LEMMA SlotStep == Counting /\ TypeInv /\ PoolInv /\ SlotInv /\ [Next]_vars => SlotInv'
<1> SUFFICES ASSUME Counting, TypeInv, PoolInv, SlotInv, [Next]_vars, NEW w \in Worker
             PROVE  IsFiniteSet(tasks'[w]) /\ Cardinality(tasks'[w]) + (IF Held(w)' THEN 1 ELSE 0) <= Slots[w]
  BY DEF SlotInv
<1>0. /\ IsFiniteSet(tasks[w]) /\ Cardinality(tasks[w]) + (IF Held(w) THEN 1 ELSE 0) <= Slots[w]
      /\ Slots[w] \in Nat
  BY WorkerAssumption DEF SlotInv
<1>1. ASSUME tasks'[w] \subseteq tasks[w] \union {sched.task}
      PROVE  /\ IsFiniteSet(tasks'[w]) /\ Cardinality(tasks[w]) \in Nat /\ Cardinality(tasks'[w]) \in Nat
             /\ Cardinality(tasks'[w]) <= Cardinality(tasks[w]) + 1
             /\ tasks'[w] \subseteq tasks[w] => Cardinality(tasks'[w]) <= Cardinality(tasks[w])
  BY <1>0, <1>1 DEF Counting
<1>2. CASE tasks'[w] \subseteq tasks[w] /\ (Held(w)' => Held(w))
  BY SMTT(30), <1>0, <1>1, <1>2
<1>3. CASE Held(w) /\ ~Held(w)' /\ tasks'[w] \subseteq tasks[w] \union {sched.task}
  BY SMTT(30), <1>0, <1>1, <1>3
<1>4. CASE tasks'[w] = tasks[w] /\ reserved[w] = {} /\ FreeSlot(w)
  <2>1. Cardinality({}) \in Nat
    BY <1>0 DEF Counting
  <2> QED BY SMTT(30), <1>0, <1>1, <1>4, <2>1 DEF FreeSlot
<1> QED BY <1>2, <1>3, <1>4, SlotMoves

INSTANCE FiniteSetTheorems

LEMMA Counts == Counting
<1> SUFFICES ASSUME NEW S, IsFiniteSet(S), NEW T, NEW x, T \subseteq S \union {x}
             PROVE  /\ IsFiniteSet(T) /\ Cardinality(S) \in Nat /\ Cardinality(T) \in Nat
                    /\ Cardinality(T) <= Cardinality(S) + 1
                    /\ T \subseteq S => Cardinality(T) <= Cardinality(S)
  BY DEF Counting
<1>0. /\ IsFiniteSet(S \union {x}) /\ Cardinality(S) \in Nat
      /\ Cardinality(S \union {x}) = IF x \in S THEN Cardinality(S) ELSE Cardinality(S) + 1
  BY FS_AddElement, FS_CardinalityType
<1>1. Cardinality(S \union {x}) <= Cardinality(S) + 1
  BY SMTT(30), <1>0
<1>2. IsFiniteSet(T) /\ Cardinality(T) <= Cardinality(S \union {x}) /\ Cardinality(T) \in Nat
  BY <1>0, FS_Subset, FS_CardinalityType
<1>3. T \subseteq S => Cardinality(T) <= Cardinality(S)
  BY FS_Subset
<1>4. Cardinality(S \union {x}) \in Nat
  BY <1>0, FS_CardinalityType
<1> QED BY SMTT(30), <1>0, <1>1, <1>2, <1>3, <1>4

\* An attempt row stays open beyond its attempt only through a crash or a
\* cancellation, each leaving at most one per task.
THEOREM OrphansAreCaused == Spec => []OrphansHaveCause
<1>1. Init => NoneInflight /\ OrphanInv
  <2> SUFFICES ASSUME Init PROVE NoneInflight /\ OrphanInv
    OBVIOUS
  <2>1. \A t \in Task : OrphanRows(t) = {} /\ Owed(t) = 0 /\ Causes(t) = 0
    BY SMTT(30) DEF Init, StoreInit, ProcessInit, OrphanRows, Owed, Causes
  <2> QED BY SMTT(30), <2>1, FS_EmptySet DEF NoneInflight, OrphanInv, Init, ProcessInit
<1>2. TypeInv /\ OrphanInv => OrphansHaveCause
  <2> SUFFICES ASSUME TypeInv, OrphanInv, NEW t \in Task PROVE Cardinality(OrphanRows(t)) <= Causes(t)
    BY DEF OrphansHaveCause, Causes
  <2>1. Cardinality(OrphanRows(t)) \in Nat /\ Cardinality(OrphanRows(t)) + Owed(t) <= Causes(t) /\ budget.crashes \in Nat
    BY FS_CardinalityType DEF OrphanInv, TypeInv, TypeOK, ApiTypeOK
  <2> QED BY SMTT(30), <2>1 DEF Owed, Causes
<1> QED BY <1>1, <1>2, TypeInvInit, TypeInvStep, NoneInflightStep, OrphanStep, Counts, PTL DEF Spec

\* Where nothing is preempted, a worker never executes more attempts at once
\* than it has slots: checking and taking a slot are one critical section, and
\* a run keeps its slot until it returns.
THEOREM SlotsKept == ASSUME NoPreemption PROVE Spec => []SlotBound
<1>1. Init => SlotInv
  <2> SUFFICES ASSUME Init, NEW w \in Worker
               PROVE  IsFiniteSet(tasks[w]) /\ Cardinality(tasks[w]) + (IF Held(w) THEN 1 ELSE 0) <= Slots[w]
    BY DEF SlotInv
  <2>1. tasks[w] = {} /\ ~Held(w)
    BY DEF Init, ProcessInit, IdleSched, Held, Holding
  <2> QED BY SMTT(30), <2>1, FS_EmptySet, WorkerAssumption
<1>2. RunInv /\ SlotInv => SlotBound
  <2> SUFFICES ASSUME RunInv, SlotInv, NEW w \in Worker
               PROVE  Cardinality({r \in runs : r.worker = w /\ ~r.inline}) <= Slots[w]
    BY DEF SlotBound
  <2> DEFINE E == {r \in runs : r.worker = w /\ ~r.inline}
             f == [r \in E |-> r.task]
  <2>1. \A r \in E : r.task \in tasks[w]
    BY DEF RunInv, PoolInv, TasksAreRuns, TypeInv, TypeOK, PoolTypeOK, RunRecord
  <2>2. \A r, s \in E : r.task = s.task => r = s
    BY DEF RunInv, PoolInv, OneRunEach
  <2>3. f \in Injection(E, tasks[w])
    BY <2>1, <2>2 DEF Injection, IsInjective
  <2>4. IsFiniteSet(tasks[w]) /\ Cardinality(tasks[w]) <= Slots[w] /\ Cardinality(tasks[w]) \in Nat /\ Slots[w] \in Nat
    <3>1. IsFiniteSet(tasks[w]) /\ Cardinality(tasks[w]) + (IF Held(w) THEN 1 ELSE 0) <= Slots[w]
      BY DEF SlotInv
    <3>2. Cardinality(tasks[w]) \in Nat
      BY <3>1, FS_CardinalityType
    <3> QED BY SMTT(30), <3>1, <3>2, WorkerAssumption
  <2> HIDE DEF E, f
  <2>5. IsFiniteSet(E) /\ Cardinality(E) <= Cardinality(tasks[w])
    BY <2>3, <2>4, FS_Injection
  <2>6. Cardinality(E) \in Nat
    BY <2>5, FS_CardinalityType
  <2> QED BY SMTT(30), <2>4, <2>5, <2>6 DEF E
<1>3. RunInv /\ SlotInv /\ [Next]_vars => SlotInv'
  BY SlotStep, Counts DEF RunInv
<1> QED BY <1>1, <1>2, <1>3, RunInvInit, RunInvStep, PTL DEF Spec
=============================================================================
