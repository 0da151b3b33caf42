--------------------------- MODULE AsyncFlowProofs ---------------------------
(***************************************************************************)
(* Proofs about the Redis queue, for every set of tasks and every batch    *)
(* size, and about the composed backend, for any set of tasks and workers  *)
(* and any number of faults, crashes, stalls and expiries.                 *)
(***************************************************************************)
EXTENDS AsyncFlow, TaskStoreProofs, TLAPS

\* Zenon proves the leaves that cite no other prover.
USE ZenonT(30)

-----------------------------------------------------------------------------
(* The Redis queue keeps its lists and membership sets in step.            *)

\* No id occurs twice in s.
Distinct(s) == \A i, j \in DOMAIN s : s[i] = s[j] => i = j

\* RPUSH of an id that is not in the list.
LEMMA AppendFacts ==
    ASSUME NEW S, NEW s \in Seq(S), NEW x \in S
    PROVE  /\ Append(s, x) \in Seq(S)
           /\ Range(Append(s, x)) = Range(s) \union {x}
           /\ Distinct(s) /\ x \notin Range(s) => Distinct(Append(s, x))
<1> DEFINE a == Append(s, x)
<1>1. /\ a \in Seq(S) /\ Len(a) = Len(s) + 1 /\ a[Len(s) + 1] = x
      /\ \A i \in 1..Len(s) : a[i] = s[i]
  BY SMTT(30)
<1>2. DOMAIN s = 1..Len(s) /\ DOMAIN a = 1..(Len(s) + 1) /\ Len(s) \in Nat
  BY SMTT(30), <1>1
<1>3. Range(a) = Range(s) \union {x}
  BY SMTT(30), <1>1, <1>2 DEF Range
<1>4. Distinct(s) /\ x \notin Range(s) => Distinct(a)
  BY SMTT(30), <1>1, <1>2 DEF Range, Distinct
<1> QED BY <1>1, <1>3, <1>4

\* LPUSH of an id that is not in the list.
LEMMA ConsFacts ==
    ASSUME NEW S, NEW s \in Seq(S), NEW x \in S
    PROVE  /\ <<x>> \o s \in Seq(S)
           /\ Range(<<x>> \o s) = Range(s) \union {x}
           /\ Distinct(s) /\ x \notin Range(s) => Distinct(<<x>> \o s)
<1> DEFINE a == <<x>> \o s
<1>1. /\ a \in Seq(S) /\ Len(a) = Len(s) + 1 /\ a[1] = x
      /\ \A i \in 2..(Len(s) + 1) : a[i] = s[i - 1]
  BY SMTT(30)
<1>2. DOMAIN s = 1..Len(s) /\ DOMAIN a = 1..(Len(s) + 1) /\ Len(s) \in Nat
  BY SMTT(30), <1>1
<1>3. Range(a) = Range(s) \union {x}
  <2>1. \A i \in DOMAIN s : s[i] \in Range(a)
    <3> SUFFICES ASSUME NEW i \in DOMAIN s PROVE s[i] \in Range(a)
      OBVIOUS
    <3>1. i + 1 \in DOMAIN a /\ a[i + 1] = s[i]
      BY SMTT(30), <1>1, <1>2
    <3> QED BY <3>1 DEF Range
  <2>2. x \in Range(a)
    BY SMTT(30), <1>1, <1>2 DEF Range
  <2>3. \A i \in DOMAIN a : a[i] \in Range(s) \union {x}
    BY SMTT(30), <1>1, <1>2 DEF Range
  <2> QED BY <2>1, <2>2, <2>3 DEF Range
<1>4. Distinct(s) /\ x \notin Range(s) => Distinct(a)
  BY SMTT(30), <1>1, <1>2 DEF Range, Distinct
<1> QED BY <1>1, <1>3, <1>4

\* LPOP of a list without repetitions.
LEMMA TailFacts ==
    ASSUME NEW S, NEW s \in Seq(S), s # <<>>
    PROVE  /\ Head(s) \in S /\ Head(s) \in Range(s)
           /\ Tail(s) \in Seq(S)
           /\ Distinct(s) => Distinct(Tail(s)) /\ Range(Tail(s)) = Range(s) \ {Head(s)}
<1> DEFINE a == Tail(s)
<1>1. /\ a \in Seq(S) /\ Len(a) = Len(s) - 1 /\ Head(s) = s[1] /\ Head(s) \in S
      /\ \A i \in 1..(Len(s) - 1) : a[i] = s[i + 1]
  BY SMTT(30)
<1>2. DOMAIN s = 1..Len(s) /\ DOMAIN a = 1..(Len(s) - 1) /\ Len(s) \in Nat \ {0}
  BY SMTT(30), <1>1
<1>3. Head(s) \in Range(s)
  BY SMTT(30), <1>1, <1>2 DEF Range
<1>4. ASSUME Distinct(s) PROVE Distinct(a)
  BY SMTT(30), <1>1, <1>2, <1>4 DEF Distinct
<1>5. ASSUME Distinct(s) PROVE Range(a) = Range(s) \ {Head(s)}
  <2>1. \A i \in DOMAIN a : a[i] \in Range(s) /\ a[i] # Head(s)
    BY SMTT(30), <1>1, <1>2, <1>5 DEF Range, Distinct
  <2>2. \A i \in DOMAIN s : s[i] # Head(s) => s[i] \in Range(a)
    <3> SUFFICES ASSUME NEW i \in DOMAIN s, s[i] # Head(s) PROVE s[i] \in Range(a)
      OBVIOUS
    <3>1. i # 1 /\ i - 1 \in DOMAIN a /\ a[i - 1] = s[i]
      BY SMTT(30), <1>1, <1>2
    <3> QED BY <3>1 DEF Range
  <2> QED BY <2>1, <2>2 DEF Range
<1> QED BY <1>1, <1>3, <1>4, <1>5

-----------------------------------------------------------------------------
QInv == QTypeOK /\ QueueConsistent

\* What a list/members pair promises, for one priority.
InStep(l, ms) == ms = Range(l) /\ Distinct(l)

LEMMA ConsistentIsInStep == QueueConsistent <=> \A p \in Rank : InStep(list[p], members[p])
BY DEF QueueConsistent, InStep, Distinct

LEMMA ConsistentIsInStepNext == QueueConsistent' <=> \A p \in Rank : InStep(list'[p], members'[p])
BY DEF QueueConsistent, InStep, Distinct

\* Both push scripts keep list and members in step.
LEMMA PushInv ==
    ASSUME QTypeOK, QueueConsistent, NEW p \in Rank, NEW t \in Task, NEW head \in BOOLEAN,
           runEnqueue(p, t, head)
    PROVE  QTypeOK' /\ QueueConsistent'
<1> DEFINE l == list[p]
<1>1. l \in Seq(Task) /\ list \in [Rank -> Seq(Task)] /\ members \in [Rank -> SUBSET Task]
  BY DEF QTypeOK
<1>2. \A q \in Rank : InStep(list[q], members[q])
  BY ConsistentIsInStep
<1>3. wait' = wait /\ members' = [members EXCEPT ![p] = @ \union {t}]
  BY DEF runEnqueue
<1>4. CASE t \in members[p]
  <2>1. list' = list /\ members' = members
    BY <1>1, <1>3, <1>4 DEF runEnqueue
  <2> QED BY <2>1, <1>2, <1>3, ConsistentIsInStepNext DEF QTypeOK
<1>5. CASE t \notin members[p]
  <2> DEFINE new == IF head THEN <<t>> \o l ELSE Append(l, t)
  <2>1. list' = [list EXCEPT ![p] = new]
    BY <1>5 DEF runEnqueue
  <2>2. InStep(l, members[p]) /\ t \notin Range(l)
    BY <1>2, <1>5 DEF InStep
  <2>3. new \in Seq(Task) /\ InStep(new, members[p] \union {t})
    BY SMTT(30), <1>1, <2>2, AppendFacts, ConsFacts DEF InStep
  <2>4. QTypeOK'
    <3> HIDE DEF new
    <3> QED BY <1>1, <1>3, <2>1, <2>3 DEF QTypeOK
  <2>5. \A q \in Rank : InStep(list'[q], members'[q])
    <3> HIDE DEF new, l
    <3> QED BY <1>1, <1>2, <1>3, <2>1, <2>3
  <2> QED BY <2>4, <2>5, ConsistentIsInStepNext
<1> QED BY <1>4, <1>5

LEMMA PopInv ==
    ASSUME QTypeOK, QueueConsistent, NEW p \in Rank, Dequeue(p)
    PROVE  QTypeOK' /\ QueueConsistent'
<1> DEFINE l == list[p]
<1>1. l \in Seq(Task) /\ list \in [Rank -> Seq(Task)] /\ members \in [Rank -> SUBSET Task]
  BY DEF QTypeOK
<1>2. \A q \in Rank : InStep(list[q], members[q])
  BY ConsistentIsInStep
<1>3. /\ wait' = wait /\ members' = [members EXCEPT ![p] = @ \ {Head(l)}]
      /\ l # <<>> /\ list' = [list EXCEPT ![p] = Tail(l)]
  BY DEF Dequeue
<1>4. Tail(l) \in Seq(Task) /\ InStep(Tail(l), members[p] \ {Head(l)})
  BY <1>1, <1>2, <1>3, TailFacts DEF InStep
<1> DEFINE new == Tail(l)
<1> HIDE DEF new
<1>5. QTypeOK'
  BY <1>1, <1>3, <1>4 DEF QTypeOK, new
<1>6. \A q \in Rank : InStep(list'[q], members'[q])
  BY <1>1, <1>2, <1>3, <1>4
<1> QED BY <1>5, <1>6, ConsistentIsInStepNext

\* Scores of a wait set, or NotWaiting.
Score == {NotWaiting} \union {UnixMilli(x) : x \in Time}

\* A step on the wait sets leaves the lists alone.
LEMMA WaitInv ==
    ASSUME QTypeOK, QueueConsistent, UNCHANGED <<list, members>>,
           NEW k \in WaitKind, NEW scores \in [Task -> Score], wait' = [wait EXCEPT ![k] = scores]
    PROVE  QTypeOK' /\ QueueConsistent'
<1>1. QueueConsistent'
  BY ConsistentIsInStep, ConsistentIsInStepNext
<1>2. wait \in [WaitKind -> [Task -> Score]]
  BY DEF QTypeOK, Score
<1>3. wait' \in [WaitKind -> [Task -> Score]]
  BY <1>2
<1> QED BY <1>1, <1>3 DEF QTypeOK, Score

LEMMA AddWaitingInv ==
    ASSUME QTypeOK, QueueConsistent, NEW k \in WaitKind, NEW t \in Task, NEW due \in Time,
           AddWaiting(k, t, due)
    PROVE  QTypeOK' /\ QueueConsistent'
<1> DEFINE scores == [wait[k] EXCEPT ![t] = UnixMilli(due)]
<1>1. wait[k] \in [Task -> Score] /\ UnixMilli(due) \in Score
  BY DEF QTypeOK, Score
<1>2. scores \in [Task -> Score]
  BY <1>1
<1>3. UNCHANGED <<list, members>> /\ wait' = [wait EXCEPT ![k] = scores]
  BY DEF AddWaiting
<1> HIDE DEF scores
<1> QED BY <1>2, <1>3, WaitInv

LEMMA RemoveWaitingInv ==
    ASSUME QTypeOK, QueueConsistent, NEW k \in WaitKind, NEW t \in Task, RemoveWaiting(k, t)
    PROVE  QTypeOK' /\ QueueConsistent'
<1> DEFINE scores == [wait[k] EXCEPT ![t] = NotWaiting]
<1>1. wait[k] \in [Task -> Score] /\ NotWaiting \in Score
  BY DEF QTypeOK, Score
<1>2. scores \in [Task -> Score]
  BY <1>1
<1>3. UNCHANGED <<list, members>> /\ wait' = [wait EXCEPT ![k] = scores]
  BY DEF RemoveWaiting
<1> HIDE DEF scores
<1> QED BY <1>2, <1>3, WaitInv

LEMMA PopDueInv ==
    ASSUME QTypeOK, QueueConsistent, NEW k \in WaitKind, NEW instant, NEW ids, PopDue(k, instant, ids)
    PROVE  QTypeOK' /\ QueueConsistent'
<1> DEFINE scores == [t \in Task |-> IF t \in ids THEN NotWaiting ELSE wait[k][t]]
<1>1. wait[k] \in [Task -> Score] /\ NotWaiting \in Score
  BY DEF QTypeOK, Score
<1>2. scores \in [Task -> Score]
  BY <1>1
<1>3. UNCHANGED <<list, members>> /\ wait' = [wait EXCEPT ![k] = scores]
  BY DEF PopDue
<1> HIDE DEF scores
<1> QED BY <1>2, <1>3, WaitInv

LEMMA QInitInv == QInit => QInv
<1> SUFFICES ASSUME QInit PROVE QInv
  OBVIOUS
<1>1. list = [p \in Rank |-> <<>>] /\ members = [p \in Rank |-> {}]
  BY DEF QInit
<1>2. InStep(<<>>, {}) /\ <<>> \in Seq(Task)
  BY SMTT(30) DEF InStep, Range, Distinct
<1>3. QueueConsistent
  BY <1>1, <1>2, ConsistentIsInStep
<1>4. QTypeOK
  BY <1>1, <1>2 DEF QInit, QTypeOK
<1> QED BY <1>3, <1>4 DEF QInv

LEMMA QNextInv == QInv /\ [QNext]_queueVars => QInv'
<1> SUFFICES ASSUME QTypeOK, QueueConsistent, [QNext]_queueVars PROVE QTypeOK' /\ QueueConsistent'
  BY DEF QInv
<1>1. ASSUME NEW t \in Task, Enqueue(Priority[t], t) \/ EnqueueHead(Priority[t], t)
      PROVE  QTypeOK' /\ QueueConsistent'
  BY <1>1, PushInv, PriorityAssumption DEF Enqueue, EnqueueHead
<1>2. ASSUME NEW p \in Rank, Dequeue(p) PROVE QTypeOK' /\ QueueConsistent'
  BY <1>2, PopInv
<1>3. ASSUME NEW k \in WaitKind, NEW t \in Task, NEW due \in Time, AddWaiting(k, t, due)
      PROVE  QTypeOK' /\ QueueConsistent'
  BY <1>3, AddWaitingInv
<1>4. ASSUME NEW k \in WaitKind, NEW t \in Task, RemoveWaiting(k, t)
      PROVE  QTypeOK' /\ QueueConsistent'
  BY <1>4, RemoveWaitingInv
<1>5. ASSUME NEW k \in WaitKind, NEW instant \in Time, NEW ids \in SUBSET Task, PopDue(k, instant, ids)
      PROVE  QTypeOK' /\ QueueConsistent'
  BY <1>5, PopDueInv
<1>6. CASE UNCHANGED queueVars
  BY <1>6, ConsistentIsInStep, ConsistentIsInStepNext DEF queueVars, QTypeOK
<1> QED BY <1>1, <1>2, <1>3, <1>4, <1>5, <1>6 DEF QNext

\* The scripts of redis.go keep every list free of repetitions and its
\* membership set equal to its contents, whoever calls them in whatever order.
THEOREM QueueIsConsistent == QSpec => []QueueConsistent
<1>1. QInv => QueueConsistent
  BY DEF QInv
<1> QED BY <1>1, QInitInv, QNextInv, PTL DEF QSpec

\* redis.go never leaves the types of its keys: lists of ids, sets of ids and
\* millisecond scores.
THEOREM QueueIsTyped == QSpec => []QTypeOK
<1>1. QInv => QTypeOK
  BY DEF QInv
<1> QED BY <1>1, QInitInv, QNextInv, PTL DEF QSpec

-----------------------------------------------------------------------------
(* redis.go implements memory.go.                                         *)

\* A push decided by the membership set is the push memory.go decides by
\* searching its list.
LEMMA PushRefines ==
    ASSUME QueueConsistent, NEW p \in Rank, NEW t \in Task, NEW head \in BOOLEAN,
           runEnqueue(p, t, head)
    PROVE  Mem!add(p, t, head)
BY SMTT(30) DEF QueueConsistent, runEnqueue, Mem!add, Range

\* ZRANGEBYSCORE with a limit returns one of the batches PopDue of memory.go
\* can return.
LEMMA PopDueRefines ==
    ASSUME NEW k \in WaitKind, NEW instant \in Time, NEW ids \in SUBSET Task, PopDue(k, instant, ids)
    PROVE  Mem!PopDue(k, instant, ids)
<1>1. DueIds(k, instant) = Mem!Due(wait[k], instant)
  BY DEF DueIds, Mem!Due, NotWaiting, Mem!NotWaiting
<1>2. Mem!Cardinality(ids) = Cardinality(ids)
  BY DEF Cardinality, Mem!Cardinality
<1>3. ids \in Mem!DueBatches(wait[k], instant)
  BY <1>1, <1>2 DEF PopDue, IsDuePrefix, Mem!DueBatches
<1> QED BY <1>3 DEF PopDue, Mem!PopDue, NotWaiting, Mem!NotWaiting

LEMMA QNextRefines == QInv /\ [QNext]_queueVars => [Mem!MemNext]_(Mem!memVars)
<1> SUFFICES ASSUME QueueConsistent, [QNext]_queueVars PROVE [Mem!MemNext]_(Mem!memVars)
  BY DEF QInv
<1>1. ASSUME NEW t \in Task, Enqueue(Priority[t], t) \/ EnqueueHead(Priority[t], t)
      PROVE  Mem!MemNext
  <2>1. PICK head \in BOOLEAN : runEnqueue(Priority[t], t, head)
    BY <1>1 DEF Enqueue, EnqueueHead
  <2>2. Priority[t] \in Rank
    BY PriorityAssumption
  <2>3. Mem!add(Priority[t], t, head)
    BY <2>1, <2>2, PushRefines
  <2> QED BY <2>2, <2>3 DEF Mem!MemNext
<1>2. ASSUME NEW p \in Rank, Dequeue(p) PROVE Mem!MemNext
  BY <1>2 DEF Dequeue, Mem!Dequeue, Mem!MemNext
<1>3. ASSUME NEW k \in WaitKind, NEW t \in Task, NEW due \in Time, AddWaiting(k, t, due)
      PROVE  Mem!MemNext
  BY <1>3 DEF AddWaiting, Mem!AddWaiting, Mem!MemNext
<1>4. ASSUME NEW k \in WaitKind, NEW t \in Task, RemoveWaiting(k, t)
      PROVE  Mem!MemNext
  BY <1>4 DEF RemoveWaiting, Mem!RemoveWaiting, Mem!MemNext, NotWaiting, Mem!NotWaiting
<1>5. ASSUME NEW k \in WaitKind, NEW instant \in Time, NEW ids \in SUBSET Task, PopDue(k, instant, ids)
      PROVE  Mem!MemNext
  BY <1>5, PopDueRefines DEF Mem!MemNext
<1>6. CASE UNCHANGED queueVars
  BY <1>6 DEF queueVars, Mem!memVars
<1> QED BY <1>1, <1>2, <1>3, <1>4, <1>5, <1>6 DEF QNext

\* The Redis queue, its membership sets hidden, is the in-memory queue of
\* memory.go that the unit tests run against.
THEOREM RedisImplementsMemory == QSpec => MemoryQueueSpec
<1>1. QInit => Mem!MemInit
  BY DEF QInit, Mem!MemInit, NotWaiting, Mem!NotWaiting
<1> QED BY <1>1, QInitInv, QNextInv, QNextRefines, PTL DEF QSpec, MemoryQueueSpec, Mem!MemSpec

-----------------------------------------------------------------------------
(* The composed backend: types.                                            *)

\* Min picks a member of every non-empty set of ranks.
LEMMA MinRank == ASSUME NEW S \in SUBSET Rank, S # {} PROVE Min(S) \in S
<1>1. PICK x \in S : \A y \in S : x <= y
  <2>1. S \subseteq {0, 1, 2, 3, 4}
    BY SMTT(30) DEF Rank
  <2>2. CASE 0 \in S
    BY SMTT(30), <2>1, <2>2
  <2>3. CASE 0 \notin S /\ 1 \in S
    BY SMTT(30), <2>1, <2>3
  <2>4. CASE 0 \notin S /\ 1 \notin S /\ 2 \in S
    BY SMTT(30), <2>1, <2>4
  <2>5. CASE 0 \notin S /\ 1 \notin S /\ 2 \notin S /\ 3 \in S
    BY SMTT(30), <2>1, <2>5
  <2>6. CASE 0 \notin S /\ 1 \notin S /\ 2 \notin S /\ 3 \notin S
    <3>1. 4 \in S /\ \A y \in S : y = 4
      BY <2>1, <2>6
    <3> QED BY SMTT(30), <3>1
  <2> QED BY <2>2, <2>3, <2>4, <2>5, <2>6
<1> QED BY <1>1 DEF Min

\* choosePriority's two effects: a rank is chosen among the available ones, and
\* only a Low or Bulk one while the streak stands at the watermark.
LEMMA ChoiceFacts ==
    ASSUME NEW avail \in SUBSET Rank, avail # {}, NEW streak \in 0..HighWatermark
    PROVE  /\ choosePriority(avail, streak) \in avail
           /\ StreakAfterChoice(avail, streak) \in 0..HighWatermark
           /\ choosePriority(avail, streak) < PriorityLow =>
                 StreakAfterChoice(avail, streak) < HighWatermark
<1>1. Forced(avail, streak) \subseteq avail /\ \A p \in Forced(avail, streak) : p >= PriorityLow
  BY DEF Forced
<1>2. CASE Forced(avail, streak) # {}
  <2>1. choosePriority(avail, streak) \in Forced(avail, streak)
    BY <1>1, <1>2, MinRank DEF choosePriority
  <2>2. choosePriority(avail, streak) \in Rank /\ choosePriority(avail, streak) >= PriorityLow
    BY <1>1, <2>1
  <2>3. ~(choosePriority(avail, streak) < PriorityLow)
    BY SMTT(30), <2>2 DEF Rank, PriorityLow
  <2> QED BY <1>1, <1>2, <2>1, <2>3 DEF StreakAfterChoice
<1>3. CASE Forced(avail, streak) = {}
  BY SMTT(30), <1>3, MinRank, WatermarkAssumption DEF choosePriority, StreakAfterChoice
<1> QED BY <1>2, <1>3

-----------------------------------------------------------------------------
(* The inductive invariant: types, and what the goroutines' locals mean at *)
(* each program counter.                                                   *)

SchedLocals ==
    /\ sched.pc \notin {"idle", "dequeue"} => sched.task \in Task
    /\ sched.pc \in {"preempt", "flag", "free", "head"} => sched.victim \in Task
    /\ sched.pc \in {"preempt", "flag", "free", "head", "reserve", "begin", "deliver", "inline"} =>
          sched.exec \in Worker
    /\ sched.pc # "idle" /\ sched.prio < PriorityLow => highStreak < HighWatermark

\* A cancel handler only updates a row it has read.
CancelReads == \A t \in Task : cancelling[t] = "update" => status[t] # "none"

\* The reaper holds ids only while it pushes them.
ReapLocals == reap.pc # "push" => reap.ids = {}

TypeInv == TypeOK /\ RunningHasOpenAttempt /\ QueueConsistent /\ SchedLocals /\ CancelReads /\ ReapLocals

-----------------------------------------------------------------------------
(* PostgreSQL only sees the statements of TaskStore.                       *)

\* Only Runtime.Start runs RecoverInflight.
LEMMA LiveStep == TypeInv /\ [Next]_vars => StoreCall \/ StartRecover \/ UNCHANGED storeVars
<1> SUFFICES ASSUME TypeInv, Next PROVE StoreCall \/ StartRecover \/ UNCHANGED storeVars
  BY DEF vars
<1>0. runs \subseteq RunRecord /\ now \in Time /\ delay.ids \subseteq Task /\ delay.now \in Time /\ online \subseteq Worker /\ 0 \in Time
  BY SMTT(30), TimeAssumption DEF TypeInv, TypeOK, PoolTypeOK, ApiTypeOK, LoopTypeOK, Time
<1>1. CASE Scheduler
  <2>1. CASE SchedPreempt
    BY <2>1 DEF SchedPreempt, SchedAt, StoreCall, TypeInv, SchedLocals
  <2>2. CASE SchedBegin
    BY <2>2 DEF SchedBegin, SchedAt, StoreCall, TypeInv, SchedLocals
  <2> QED BY <1>1, <2>1, <2>2
          DEF Scheduler, SchedChoose, SchedDequeue, SchedPick, SchedVictim, SchedFlag, SchedFree,
              SchedHead, SchedReserve, SchedDeliver, SchedInline, SchedRequeue
<1>2. CASE DelayLoop
  BY <1>0, <1>2 DEF DelayLoop, DelayPop, DelayMark, DelayPush, DelayPutBack, StoreCall
<1>3. CASE Reaper
  BY <1>0, <1>3 DEF Reaper, ReapMark, ReapReclaim, ReapNotify, ReapPush, StoreCall
<1>4. CASE Runtime
  BY <1>4 DEF Runtime, StartRebuild, StartEnqueue
<1>5. ASSUME NEW r \in runs, RunStep(r) \/ RunRenew(r)
      PROVE  StoreCall \/ UNCHANGED storeVars
  <2>1. r.task \in Task /\ r.worker \in Worker
    BY <1>0 DEF RunRecord
  <2>2. Outcome(r) \in {"succeeded", "pending", "dead"}
    BY DEF Outcome
  <2>3. CASE RunReport(r)
    BY <1>0, <2>1, <2>2, <2>3 DEF RunReport, StoreCall
  <2>4. CASE RunRenew(r)
    BY <2>1, <2>4 DEF RunRenew, StoreCall
  <2> QED BY <1>5, <2>3, <2>4 DEF RunStep, RunReturn, RunWait, RunRelease
<1>6. ASSUME NEW t \in Task, ApiStep(t) PROVE StoreCall \/ UNCHANGED storeVars
  BY <1>6 DEF ApiStep, SubmitPush, CancelUpdate, CancelUnwait, RetryDeadPush, StoreCall, TypeInv, CancelReads
<1>7. CASE Request
  BY <1>0, <1>7 DEF Request, SubmitCreate, CancelSelect, RetryDeadBatch, DiscardDeadBatch, StoreCall
<1>8. CASE Disturbance
  BY <1>8 DEF Disturbance, Crash, Stall, LeaseLapses, StoreCall
<1>9. CASE Tick \/ \E w \in Worker : Heartbeat(w)
  BY <1>9 DEF Tick, Heartbeat
<1> QED BY <1>1, <1>2, <1>3, <1>4, <1>5, <1>6, <1>7, <1>8, <1>9 DEF Next

LEMMA StoreStep == TypeInv /\ [Next]_vars => [StoreNext]_storeVars
BY LiveStep DEF StartRecover, StoreNext

-----------------------------------------------------------------------------
(* Redis only sees the scripts of RedisQueue and the rebuilt wait set.     *)

LEMMA QueueStep == TypeInv /\ [Next]_vars => QInv'
<1> SUFFICES ASSUME TypeInv, Next \/ UNCHANGED queueVars PROVE QTypeOK' /\ QueueConsistent'
  BY DEF vars, QInv
<1>0. QTypeOK /\ QueueConsistent /\ runs \subseteq RunRecord /\ delay.ids \subseteq Task /\ delay.now \in Time /\ delay.kind \in WaitKind
         /\ now \in Time /\ executeAfter \in [Task -> Time] /\ cancelling \in [Task -> {"no", "update"} \union WaitKind]
  BY DEF TypeInv, TypeOK, PoolTypeOK, LoopTypeOK, ApiTypeOK, StoreTypeOK
<1>a. \A t \in Task : Priority[t] \in Rank
  BY PriorityAssumption
<1>b. ASSUME NEW t \in Task, Enqueue(Priority[t], t) \/ EnqueueHead(Priority[t], t) PROVE QTypeOK' /\ QueueConsistent'
  BY <1>0, <1>a, <1>b, PushInv DEF Enqueue, EnqueueHead
<1>c. CASE UNCHANGED queueVars
  BY <1>0, <1>c DEF QTypeOK, QueueConsistent, queueVars
<1>1. CASE Scheduler
  <2>1. CASE SchedDequeue
    BY <1>0, <2>1, PopInv DEF SchedDequeue, TypeInv, TypeOK, SchedTypeOK
  <2>2. CASE SchedHead \/ SchedRequeue
    BY <1>b, <1>c, <2>2 DEF SchedHead, SchedRequeue, SchedAt, TypeInv, SchedLocals
  <2> QED BY <1>1, <1>c, <2>1, <2>2
          DEF Scheduler, SchedChoose, SchedPick, SchedVictim, SchedPreempt, SchedFlag, SchedFree,
              SchedReserve, SchedBegin, SchedDeliver, SchedInline
<1>2. CASE DelayLoop
  <2>1. PassNow \in Time
    BY <1>0 DEF PassNow
  <2> QED BY <1>0, <1>b, <1>c, <1>2, <2>1, PopDueInv, AddWaitingInv
          DEF DelayLoop, DelayPop, DelayMark, DelayPush, DelayPutBack
<1>3. CASE Reaper
  BY <1>b, <1>c, <1>3 DEF Reaper, ReapMark, ReapReclaim, ReapNotify, ReapPush
<1>4. CASE Runtime
  <2>1. CASE StartRebuild
    <3> DEFINE scores == [t \in Task |-> IF status[t] = "pending" THEN UnixMilli(executeAfter[t])
                                         ELSE wait["retry"][t]]
    <3>1. scores \in [Task -> Score] /\ "retry" \in WaitKind
      BY <1>0 DEF QTypeOK, Score, WaitKind
    <3>2. CASE wait' = [wait EXCEPT !["retry"] = scores] /\ UNCHANGED <<list, members>>
      BY <1>0, <3>1, <3>2, WaitInv
    <3> QED BY <1>0, <1>c, <2>1, <3>2 DEF StartRebuild, QTypeOK
  <2> QED BY <1>b, <1>c, <1>4, <2>1 DEF Runtime, StartRecover, StartEnqueue
<1>5. ASSUME NEW r \in runs, RunStep(r) \/ RunRenew(r) PROVE QTypeOK' /\ QueueConsistent'
  BY <1>0, <1>c, <1>5, AddWaitingInv
  DEF RunStep, RunReturn, RunReport, RunWait, RunRelease, RunRenew, RunRecord, WaitKind
<1>6. ASSUME NEW t \in Task, ApiStep(t) PROVE QTypeOK' /\ QueueConsistent'
  BY <1>0, <1>b, <1>c, <1>6, AddWaitingInv, RemoveWaitingInv
  DEF ApiStep, SubmitPush, CancelUpdate, CancelUnwait, RetryDeadPush, WaitKind
<1>7. CASE Request
  BY <1>c, <1>7 DEF Request, SubmitCreate, CancelSelect, RetryDeadBatch, DiscardDeadBatch
<1>8. CASE Disturbance
  BY <1>c, <1>8 DEF Disturbance, Crash, Stall, LeaseLapses, EnvFrame
<1>9. CASE Tick \/ \E w \in Worker : Heartbeat(w)
  BY <1>c, <1>9 DEF Tick, Heartbeat, EnvFrame
<1> QED BY <1>1, <1>2, <1>3, <1>4, <1>5, <1>6, <1>7, <1>8, <1>9, <1>c DEF Next

-----------------------------------------------------------------------------
(* The dispatch loop.                                                      *)

LEMMA SchedStep == TypeInv /\ [Next]_vars => SchedTypeOK' /\ SchedLocals'
<1> SUFFICES ASSUME TypeInv, [Next]_vars PROVE SchedTypeOK' /\ SchedLocals'
  OBVIOUS
<1>0. SchedTypeOK /\ SchedLocals /\ runs \subseteq RunRecord /\ PoolTypeOK /\ QTypeOK
  BY DEF TypeInv, TypeOK, PoolTypeOK
<1>u. CASE UNCHANGED <<sched, highStreak, execs>>
  BY <1>0, <1>u DEF SchedTypeOK, SchedLocals
<1>i. ASSUME sched' = IdleSched, UNCHANGED execs, highStreak' \in 0..HighWatermark
      PROVE  SchedTypeOK' /\ SchedLocals'
  BY SMTT(30), <1>0, <1>i DEF SchedTypeOK, SchedLocals, IdleSched, SchedPc, Rank
<1>d. ASSUME sched.pc \in {"deliver", "inline"}, Dispatched PROVE highStreak' \in 0..HighWatermark
  BY SMTT(30), <1>0, <1>d, WatermarkAssumption
  DEF Dispatched, notePop, SchedTypeOK, SchedLocals, PriorityLow, Rank
<1>1. CASE SchedChoose
  <2>1. CASE Available = {}
    BY SMTT(30), <1>0, <1>1, <2>1, <1>u, WatermarkAssumption
    DEF SchedChoose, SchedFrame, StreakAfterChoice, SchedTypeOK, SchedLocals, SchedAt
  <2>2. CASE Available # {}
    <3>1. Available \subseteq Rank
      BY DEF Available
    <3> DEFINE p == choosePriority(Available, highStreak)
    <3>2. p \in Rank /\ highStreak' \in 0..HighWatermark /\ (p < PriorityLow => highStreak' < HighWatermark)
      BY <1>0, <1>1, <2>2, <3>1, ChoiceFacts DEF SchedChoose, SchedTypeOK
    <3>3. sched' = [sched EXCEPT !.pc = "dequeue", !.prio = p] /\ UNCHANGED execs
      BY <1>1, <2>2 DEF SchedChoose, SchedFrame
    <3> QED BY <1>0, <3>2, <3>3 DEF SchedTypeOK, SchedLocals, SchedPc
  <2> QED BY <2>1, <2>2
<1>2. CASE SchedDequeue
  <2>1. sched.prio \in Rank /\ list[sched.prio] \in Seq(Task) /\ list[sched.prio] # <<>>
    BY <1>0, <1>2 DEF SchedDequeue, Dequeue, SchedTypeOK, QTypeOK
  <2>2. Head(list[sched.prio]) \in Task
    BY SMTT(30), <2>1
  <2> QED BY <1>0, <1>2, <1>i, <2>2 DEF SchedDequeue, SchedFrame, SchedAt, SchedTypeOK, SchedLocals, SchedPc
<1>3. CASE SchedPick
  BY <1>0, <1>3, <1>i DEF SchedPick, Goto, SchedFrame, SchedAt, SchedTypeOK, SchedLocals, SchedPc
<1>4. CASE SchedVictim
  <2>1. Victims \subseteq Worker \X Task
    BY <1>0 DEF Victims, SchedTypeOK
  <2>2. CASE Goto("requeue")
    BY <1>0, <1>4, <2>2 DEF SchedVictim, Goto, SchedFrame, SchedAt, SchedTypeOK, SchedLocals, SchedPc
  <2>3. ASSUME NEW v \in Victims, sched' = [sched EXCEPT !.pc = "preempt", !.exec = v[1], !.victim = v[2]]
        PROVE  SchedTypeOK' /\ SchedLocals'
    <3>1. v[1] \in Worker /\ v[2] \in Task
      BY <2>1
    <3> QED BY <1>0, <1>4, <2>3, <3>1 DEF SchedVictim, SchedFrame, SchedAt, SchedTypeOK, SchedLocals, SchedPc
  <2> QED BY <1>4, <2>2, <2>3 DEF SchedVictim
<1>5. CASE SchedPreempt \/ SchedFlag \/ SchedFree \/ SchedHead \/ SchedReserve
  BY SMTT(30), <1>0, <1>5
  DEF SchedPreempt, SchedFlag, SchedFree, SchedHead, SchedReserve,
      Goto, SchedFrame, SchedAt, SchedTypeOK, SchedLocals, SchedPc
<1>6. CASE SchedBegin
  BY <1>0, <1>6, <1>i DEF SchedBegin, Goto, SchedFrame, SchedAt, SchedTypeOK, SchedLocals, SchedPc
<1>7. CASE SchedDeliver
  <2>1. CASE Dispatched
    BY <1>7, <1>d, <1>i, <2>1 DEF SchedDeliver, SchedFrame, SchedAt, Dispatched
  <2>2. CASE Goto("inline") /\ UNCHANGED highStreak
    BY <1>0, <1>7, <2>2 DEF SchedDeliver, Goto, SchedFrame, SchedAt, SchedTypeOK, SchedLocals, SchedPc
  <2> QED BY <1>7, <2>1, <2>2 DEF SchedDeliver
<1>8. CASE SchedInline
  BY <1>8, <1>d, <1>i DEF SchedInline, SchedFrame, SchedAt, Dispatched
<1>9. CASE SchedRequeue
  BY <1>0, <1>9, <1>i DEF SchedRequeue, SchedFrame, SchedTypeOK
<1>10. CASE DelayLoop
  BY <1>u, <1>10 DEF DelayLoop, DelayPop, DelayMark, DelayPush, DelayPutBack, DelayFrame
<1>11. CASE Reaper
  BY <1>0, <1>u, <1>11
  DEF Reaper, ReapMark, ReapReclaim, ReapNotify, ReapPush, ReapFrame, SchedTypeOK, SchedLocals
<1>12. CASE Runtime
  BY <1>0, <1>u, <1>12
  DEF Runtime, StartRecover, StartRebuild, StartEnqueue, StartFrame, SchedTypeOK, SchedLocals
<1>13. ASSUME NEW r \in runs, RunStep(r) \/ RunRenew(r) PROVE SchedTypeOK' /\ SchedLocals'
  BY <1>u, <1>13 DEF RunStep, RunReturn, RunReport, RunWait, RunRelease, RunRenew, RunFrame
<1>14. ASSUME NEW t \in Task, ApiStep(t) PROVE SchedTypeOK' /\ SchedLocals'
  BY <1>u, <1>14 DEF ApiStep, SubmitPush, CancelUpdate, CancelUnwait, RetryDeadPush, ApiFrame
<1>15. CASE Request
  BY <1>u, <1>15 DEF Request, SubmitCreate, CancelSelect, RetryDeadBatch, DiscardDeadBatch, ApiFrame
<1>16. CASE Crash
  BY SMTT(30), <1>16, WatermarkAssumption
  DEF Crash, IdleSched, SchedTypeOK, SchedLocals, SchedPc, Rank
<1>17. CASE Disturbance \/ Tick \/ \E w \in Worker : Heartbeat(w)
  BY <1>u, <1>16, <1>17 DEF Disturbance, Stall, LeaseLapses, Tick, Heartbeat, EnvFrame, processVars
<1>18. CASE UNCHANGED vars
  BY <1>u, <1>18 DEF vars, processVars
<1> QED BY <1>1, <1>2, <1>3, <1>4, <1>5, <1>6, <1>7, <1>8, <1>9, <1>10, <1>11, <1>12, <1>13,
           <1>14, <1>15, <1>16, <1>17, <1>18 DEF Next, Scheduler

-----------------------------------------------------------------------------
(* The worker pool, the background loops and the request handlers.         *)

LEMMA PoolStep == TypeInv /\ [Next]_vars => PoolTypeOK'
<1> SUFFICES ASSUME TypeInv, [Next]_vars PROVE PoolTypeOK'
  OBVIOUS
<1>0. /\ PoolTypeOK /\ runs \subseteq RunRecord /\ SchedLocals
      /\ attempts \in [Task -> Nat] /\ now \in Time /\ 0 \in Time
  BY SMTT(30), TimeAssumption DEF TypeInv, TypeOK, PoolTypeOK, StoreTypeOK, ApiTypeOK, Time
<1>u. CASE UNCHANGED <<memoryVars, runs>>
  BY <1>0, <1>u DEF PoolTypeOK, memoryVars
<1>m. CASE UNCHANGED memoryVars /\ runs' \subseteq RunRecord
  BY <1>0, <1>m DEF PoolTypeOK, memoryVars
<1>r. ASSUME NEW w \in Worker, NEW t \in Task, ReleaseSlot(w, t), runs' \subseteq RunRecord
      PROVE  PoolTypeOK'
  BY <1>0, <1>r DEF PoolTypeOK, ReleaseSlot
<1>1. CASE SchedFlag
  BY <1>0, <1>1 DEF SchedFlag, SchedAt, SchedLocals, PoolTypeOK
<1>2. CASE SchedFree
  BY <1>0, <1>2, <1>r DEF SchedFree, SchedAt, SchedLocals
<1>3. CASE SchedReserve
  BY SMTT(30), <1>0, <1>3, <1>u DEF SchedReserve, SchedAt, SchedLocals, PoolTypeOK, memoryVars
<1>4. CASE SchedBegin
  BY <1>0, <1>4, <1>m, <1>r DEF SchedBegin, SchedAt, SchedLocals
<1>5. CASE SchedDeliver
  <2>0. sched.pc = "deliver"
    BY <1>5 DEF SchedDeliver, SchedAt
  <2>1. sched.exec \in Worker /\ sched.task \in Task
    BY <1>0, <2>0 DEF SchedLocals
  <2>2. Run("handler", FALSE) \in RunRecord /\ Run("report", TRUE) \in RunRecord
    BY <1>0, <2>1 DEF Run, RunRecord
  <2>3. runs' \subseteq RunRecord
    BY <1>0, <1>5, <2>2 DEF SchedDeliver
  <2>4. CASE UNCHANGED memoryVars
    BY <1>m, <2>3, <2>4
  <2>5. CASE /\ reserved' = [reserved EXCEPT ![sched.exec] = @ \ {sched.task}]
             /\ tasks' = [tasks EXCEPT ![sched.exec] = @ \union {sched.task}]
             /\ preempted' = [preempted EXCEPT ![sched.exec] = @ \ {sched.task}]
    BY <1>0, <2>1, <2>3, <2>5 DEF PoolTypeOK
  <2>6. CASE reserved' = [reserved EXCEPT ![sched.exec] = @ \ {sched.task}] /\ UNCHANGED <<tasks, preempted>>
    BY <1>0, <2>1, <2>3, <2>6 DEF PoolTypeOK
  <2> QED BY <1>5, <2>4, <2>5, <2>6 DEF SchedDeliver
<1>6. CASE Scheduler
  BY <1>1, <1>2, <1>3, <1>4, <1>5, <1>6, <1>u
  DEF Scheduler, SchedChoose, SchedDequeue, SchedPick, SchedVictim, SchedPreempt, SchedHead,
      SchedInline, SchedRequeue
<1>7. CASE DelayLoop
  BY <1>u, <1>7 DEF DelayLoop, DelayPop, DelayMark, DelayPush, DelayPutBack, DelayFrame
<1>8. CASE Reaper
  BY <1>u, <1>8 DEF Reaper, ReapMark, ReapReclaim, ReapNotify, ReapPush, ReapFrame
<1>9. CASE Runtime
  BY <1>u, <1>9 DEF Runtime, StartRecover, StartRebuild, StartEnqueue, StartFrame
<1>10. ASSUME NEW r \in runs, RunStep(r) \/ RunRenew(r) PROVE PoolTypeOK'
  <2>0. r \in RunRecord
    BY <1>0
  <2>1. CASE RunReturn(r)
    <3>1. ASSUME NEW ok \in BOOLEAN, NEW pc \in {"release", "report"}
          PROVE  [r EXCEPT !.ok = ok, !.pc = pc] \in RunRecord
      BY <2>0 DEF RunRecord
    <3>2. \E ok \in BOOLEAN, pc \in {"release", "report"} : Become(r, [r EXCEPT !.ok = ok, !.pc = pc])
      BY <2>1 DEF RunReturn
    <3>3. runs' \subseteq RunRecord
      BY <1>0, <3>1, <3>2 DEF Become
    <3> QED BY <1>m, <2>1, <3>3 DEF RunReturn
  <2>2. CASE RunReport(r)
    <3>1. ASSUME NEW due \in Time, NEW pc \in {"wait", "release"}
          PROVE  [r EXCEPT !.due = due, !.pc = pc] \in RunRecord
      BY <2>0 DEF RunRecord
    <3>2. [r EXCEPT !.pc = "release"] \in RunRecord
      BY <2>0 DEF RunRecord
    <3>3. ASSUME NEW next \in RunRecord, Become(r, next) PROVE runs' \subseteq RunRecord
      BY <1>0, <3>3 DEF Become
    <3>4. (IF Outcome(r) = "pending" THEN {now + d : d \in Delays} \intersect Time ELSE {0}) \subseteq Time
      BY <1>0
    <3>5. \/ \E due \in Time : Become(r, [r EXCEPT !.due = due, !.pc = IF Outcome(r) = "pending" THEN "wait" ELSE "release"])
          \/ Become(r, [r EXCEPT !.pc = "release"])
      BY <2>2, <3>4 DEF RunReport
    <3>6. runs' \subseteq RunRecord
      BY <3>1, <3>2, <3>3, <3>5
    <3> QED BY <1>m, <2>2, <3>6 DEF RunReport
  <2>3. CASE RunWait(r)
    BY <1>0, <1>m, <2>0, <2>3 DEF RunWait, Become, RunRecord
  <2>4. CASE RunRelease(r)
    <3>1. r.worker \in Worker /\ r.task \in Task
      BY <2>0 DEF RunRecord
    <3> QED BY <1>0, <1>m, <1>r, <2>4, <3>1 DEF RunRelease
  <2> QED BY <1>10, <1>u, <2>1, <2>2, <2>3, <2>4 DEF RunStep, RunRenew
<1>11. ASSUME NEW t \in Task, ApiStep(t) PROVE PoolTypeOK'
  BY <1>u, <1>11 DEF ApiStep, SubmitPush, CancelUpdate, CancelUnwait, RetryDeadPush, ApiFrame
<1>12. CASE Request
  BY <1>u, <1>12 DEF Request, SubmitCreate, CancelSelect, RetryDeadBatch, DiscardDeadBatch, ApiFrame
<1>13. CASE Crash
  BY <1>13 DEF Crash, PoolTypeOK
<1>14. CASE Disturbance \/ Tick \/ \E w \in Worker : Heartbeat(w)
  BY <1>u, <1>13, <1>14 DEF Disturbance, Stall, LeaseLapses, Tick, Heartbeat, EnvFrame, processVars
<1>15. CASE UNCHANGED vars
  BY <1>u, <1>15 DEF vars, processVars
<1> QED BY <1>6, <1>7, <1>8, <1>9, <1>10, <1>11, <1>12, <1>14, <1>15 DEF Next

LEMMA LoopStep == TypeInv /\ [Next]_vars => LoopTypeOK' /\ ReapLocals'
<1> SUFFICES ASSUME TypeInv, [Next]_vars PROVE LoopTypeOK' /\ ReapLocals'
  OBVIOUS
<1>0. LoopTypeOK /\ ReapLocals /\ now \in Time /\ online \subseteq Worker /\ 0 \in Time
  BY SMTT(30), TimeAssumption DEF TypeInv, TypeOK, ApiTypeOK, Time
<1>u. CASE UNCHANGED <<phase, starting, delay, reap>>
  BY <1>0, <1>u DEF LoopTypeOK, ReapLocals
<1>1. CASE Scheduler
  BY <1>u, <1>1
  DEF Scheduler, SchedChoose, SchedDequeue, SchedPick, SchedVictim, SchedPreempt, SchedFlag,
      SchedFree, SchedHead, SchedReserve, SchedBegin, SchedDeliver, SchedInline, SchedRequeue,
      SchedFrame, loopVars
<1>2. CASE DelayLoop
  <2> DEFINE DelayType == [pc : {"pop", "mark", "push", "putback"}, kind : WaitKind,
                           now : Time, ids : SUBSET Task]
  <2>1. ASSUME NEW d \in DelayType PROVE NextKind(d) \in DelayType
    BY <1>0 DEF NextKind, IdleDelay, WaitKind
  <2>2. IdleDelay \in DelayType
    BY <1>0 DEF IdleDelay, WaitKind
  <2>3. delay \in DelayType /\ PassNow \in Time
    BY <1>0 DEF LoopTypeOK, PassNow
  <2>4. delay' \in DelayType
    <3>1. CASE DelayPop
      <4>1. ASSUME NEW ids \in SUBSET Task
            PROVE  [delay EXCEPT !.pc = "mark", !.now = PassNow, !.ids = ids] \in DelayType
        BY <2>3
      <4> HIDE DEF DelayType
      <4> QED BY <2>1, <2>2, <3>1, <4>1 DEF DelayPop
    <3>2. CASE DelayMark
      <4>1. [delay EXCEPT !.pc = "push", !.ids = Promotable(@, delay.now)] \in DelayType
        BY <2>3 DEF Promotable
      <4>2. [delay EXCEPT !.pc = "putback"] \in DelayType
        BY <2>3
      <4> HIDE DEF DelayType
      <4> QED BY <2>1, <3>2, <4>1, <4>2 DEF DelayMark
    <3>3. ASSUME NEW t \in Task, DelayPush(t) \/ DelayPutBack(t) PROVE delay' \in DelayType
      <4>1. [delay EXCEPT !.ids = @ \ {t}] \in DelayType
        BY <2>3
      <4> QED BY <2>1, <2>2, <3>3, <4>1 DEF DelayPush, DelayPutBack
    <3> QED BY <1>2, <3>1, <3>2, <3>3 DEF DelayLoop
  <2>5. UNCHANGED <<phase, starting, reap>>
    BY <1>2 DEF DelayLoop, DelayPop, DelayMark, DelayPush, DelayPutBack, DelayFrame
  <2> QED BY <1>0, <2>4, <2>5 DEF LoopTypeOK, ReapLocals
<1>3. CASE Reaper
  <2>1. CASE ReapMark
    BY <1>0, <2>1 DEF ReapMark, ReapFrame, LoopTypeOK, ReapLocals
  <2>2. CASE ReapReclaim
    <3>1. Expired(online) \subseteq Task
      BY DEF Expired
    <3>2. UNCHANGED <<phase, starting, delay>> /\ reap.pc = "reclaim"
      BY <2>2 DEF ReapReclaim, ReapFrame
    <3>3. reap' = IdleReap \/ reap' = [reap EXCEPT !.pc = "push", !.ids = Expired(online)]
      BY <2>2 DEF ReapReclaim
    <3>4. CASE reap' = IdleReap
      BY <1>0, <3>2, <3>4 DEF IdleReap, LoopTypeOK, ReapLocals
    <3>5. ASSUME NEW ids \in SUBSET Task, reap' = [reap EXCEPT !.pc = "push", !.ids = ids]
          PROVE  LoopTypeOK' /\ ReapLocals'
      BY <1>0, <3>2, <3>5 DEF LoopTypeOK, ReapLocals
    <3> QED BY <3>1, <3>3, <3>4, <3>5
  <2>3. ASSUME NEW w \in Worker, ReapNotify(w) PROVE LoopTypeOK' /\ ReapLocals'
    BY <1>0, <2>3 DEF ReapNotify, ReapFrame, LoopTypeOK, ReapLocals
  <2>4. ASSUME NEW t \in Task, ReapPush(t) PROVE LoopTypeOK' /\ ReapLocals'
    BY SMTT(30), <1>0, <2>4 DEF ReapPush, ReapFrame, IdleReap, LoopTypeOK, ReapLocals
  <2> QED BY <1>3, <2>1, <2>2, <2>3, <2>4 DEF Reaper
<1>4. CASE Runtime
  BY <1>0, <1>4
  DEF Runtime, StartRecover, StartRebuild, StartEnqueue, StartFrame, LoopTypeOK, ReapLocals
<1>5. ASSUME NEW r \in runs, RunStep(r) \/ RunRenew(r) PROVE LoopTypeOK' /\ ReapLocals'
  BY <1>u, <1>5 DEF RunStep, RunReturn, RunReport, RunWait, RunRelease, RunRenew, RunFrame, loopVars
<1>6. ASSUME NEW t \in Task, ApiStep(t) PROVE LoopTypeOK' /\ ReapLocals'
  BY <1>u, <1>6 DEF ApiStep, SubmitPush, CancelUpdate, CancelUnwait, RetryDeadPush, ApiFrame
<1>7. CASE Request
  BY <1>u, <1>7 DEF Request, SubmitCreate, CancelSelect, RetryDeadBatch, DiscardDeadBatch, ApiFrame
<1>8. CASE Crash
  BY <1>0, <1>8 DEF Crash, IdleDelay, IdleReap, LoopTypeOK, ReapLocals, WaitKind
<1>9. CASE Disturbance \/ Tick \/ \E w \in Worker : Heartbeat(w)
  BY <1>u, <1>8, <1>9 DEF Disturbance, Stall, LeaseLapses, Tick, Heartbeat, EnvFrame, processVars
<1>10. CASE UNCHANGED vars
  BY <1>u, <1>10 DEF vars, processVars
<1> QED BY <1>1, <1>2, <1>3, <1>4, <1>5, <1>6, <1>7, <1>9, <1>10 DEF Next

\* No statement deletes a row.
LEMMA RowsStay ==
    StoreInv /\ [StoreNext]_storeVars =>
        \A t \in Task : status[t] # "none" => status'[t] # "none"
<1> SUFFICES ASSUME StoreInv, [StoreNext]_storeVars, NEW t \in Task, status[t] # "none"
             PROVE  status'[t] # "none"
  OBVIOUS
<1>1. [Lifecycle!LNext]_<<status, attempts>>
  BY StoreNextRefines
<1>2. status \in [Task -> TaskStatus]
  BY DEF StoreInv, StoreTypeOK
<1>3. CASE Lifecycle!Move
  <2>1. status'[t] # status[t] => status'[t] \in Lifecycle!Legal[status[t]]
    BY <1>3 DEF Lifecycle!Move
  <2>2. status[t] \in TaskStatus
    BY <1>2
  <2> QED BY <2>1, <2>2, NoneIsInitial
<1>4. CASE \E u \in Task : Lifecycle!Begin(u)
  BY <1>2, <1>4 DEF Lifecycle!Begin
<1> QED BY <1>1, <1>3, <1>4 DEF Lifecycle!LNext

LEMMA HandlerStep == TypeInv /\ [Next]_vars => ApiTypeOK' /\ CancelReads'
<1> SUFFICES ASSUME TypeInv, [Next]_vars PROVE ApiTypeOK' /\ CancelReads'
  OBVIOUS
<1> DEFINE Stays == \A t \in Task : status[t] # "none" => status'[t] # "none"
<1>0. ApiTypeOK /\ CancelReads /\ Stays
  BY StoreStep, RowsStay DEF TypeInv, TypeOK, StoreInv
<1>b. ASSUME Fault \/ OK
      PROVE  budget' \in [faults : Nat, crashes : Nat, stalls : Nat, expiries : Nat, retries : Nat]
  BY SMTT(30), <1>0, <1>b DEF Fault, OK, ApiTypeOK
<1>u. CASE UNCHANGED <<apiVars, online, fresh, now>> /\ (Fault \/ OK)
  BY <1>0, <1>b, <1>u DEF ApiTypeOK, CancelReads, apiVars
<1>1. CASE Scheduler
  BY <1>u, <1>1
  DEF Scheduler, SchedChoose, SchedDequeue, SchedPick, SchedVictim, SchedPreempt, SchedFlag,
      SchedFree, SchedHead, SchedReserve, SchedBegin, SchedDeliver, SchedInline, SchedRequeue,
      SchedFrame, loopVars, OK
<1>2. CASE DelayLoop
  BY <1>u, <1>2 DEF DelayLoop, DelayPop, DelayMark, DelayPush, DelayPutBack, DelayFrame
<1>3. CASE Reaper
  <2>1. UNCHANGED <<apiVars, fresh, now>> /\ (Fault \/ OK) /\ online' \subseteq online
    BY <1>3 DEF Reaper, ReapMark, ReapReclaim, ReapNotify, ReapPush, ReapFrame, OK
  <2> QED BY <1>0, <1>b, <2>1 DEF ApiTypeOK, CancelReads, apiVars
<1>4. CASE Runtime
  <2>1. CASE StartRecover
    <3>1. online' \subseteq Worker /\ fresh' \subseteq Worker /\ UNCHANGED <<apiVars, now>>
      BY <1>0, <2>1 DEF StartRecover, StartFrame, ApiTypeOK
    <3> QED BY <1>0, <2>1, <3>1 DEF StartRecover, ApiTypeOK, CancelReads, apiVars
  <2> QED BY <1>4, <1>u, <2>1 DEF Runtime, StartRebuild, StartEnqueue, StartFrame
<1>5. ASSUME NEW r \in runs, RunStep(r) \/ RunRenew(r) PROVE ApiTypeOK' /\ CancelReads'
  BY <1>u, <1>5 DEF RunStep, RunReturn, RunReport, RunWait, RunRelease, RunRenew, RunFrame, loopVars, OK
<1>6. ASSUME NEW t \in Task, ApiStep(t) PROVE ApiTypeOK' /\ CancelReads'
  <2>1. CASE SubmitPush(t)
    BY <1>0, <1>b, <2>1 DEF SubmitPush, ApiFrame, ApiTypeOK, CancelReads
  <2>2. CASE CancelUpdate(t)
    BY <1>0, <2>2 DEF CancelUpdate, ApiFrame, ApiTypeOK, CancelReads, WaitKind
  <2>3. CASE CancelUnwait(t)
    BY <1>0, <1>b, <2>3 DEF CancelUnwait, ApiFrame, ApiTypeOK, CancelReads, WaitKind
  <2>4. CASE RetryDeadPush(t)
    BY <1>0, <1>b, <2>4 DEF RetryDeadPush, ApiFrame, ApiTypeOK, CancelReads
  <2> QED BY <1>6, <2>1, <2>2, <2>3, <2>4 DEF ApiStep
<1>7. CASE Request
  <2>1. ASSUME NEW t \in Task, SubmitCreate(t) PROVE ApiTypeOK' /\ CancelReads'
    BY <1>0, <2>1 DEF SubmitCreate, ApiFrame, ApiTypeOK, CancelReads
  <2>2. ASSUME NEW t \in Task, CancelSelect(t) PROVE ApiTypeOK' /\ CancelReads'
    BY <1>0, <2>2 DEF CancelSelect, CancelRead, ApiFrame, ApiTypeOK, CancelReads
  <2>3. ASSUME NEW ids \in SUBSET Task, RetryDeadBatch(ids) PROVE ApiTypeOK' /\ CancelReads'
    BY SMTT(30), <1>0, <2>3 DEF RetryDeadBatch, Dead, ApiFrame, ApiTypeOK, CancelReads
  <2>4. ASSUME NEW ids \in SUBSET Task, DiscardDeadBatch(ids) PROVE ApiTypeOK' /\ CancelReads'
    BY <1>u, <2>4 DEF DiscardDeadBatch, ApiFrame, OK
  <2> QED BY <1>7, <2>1, <2>2, <2>3, <2>4 DEF Request
<1>8. CASE Disturbance
  <2>1. CASE Crash
    BY SMTT(30), <1>0, <2>1 DEF Crash, ApiTypeOK, CancelReads
  <2>2. ASSUME NEW w \in Worker, Stall(w) PROVE ApiTypeOK' /\ CancelReads'
    BY SMTT(30), <1>0, <2>2 DEF Stall, EnvFrame, processVars, apiVars, ApiTypeOK, CancelReads
  <2>3. ASSUME NEW t \in Task, LeaseLapses(t) PROVE ApiTypeOK' /\ CancelReads'
    BY SMTT(30), <1>0, <2>3 DEF LeaseLapses, EnvFrame, processVars, apiVars, ApiTypeOK, CancelReads
  <2> QED BY <1>8, <2>1, <2>2, <2>3 DEF Disturbance
<1>9. CASE Tick
  <2>1. now' \in Time
    BY SMTT(30), <1>0, <1>9, TimeAssumption DEF Tick, ApiTypeOK, Time
  <2>2. UNCHANGED <<apiVars, online, fresh, budget>>
    BY <1>9 DEF Tick, EnvFrame, processVars
  <2> QED BY <1>0, <2>1, <2>2 DEF apiVars, ApiTypeOK, CancelReads
<1>10. ASSUME NEW w \in Worker, Heartbeat(w) PROVE ApiTypeOK' /\ CancelReads'
  BY <1>0, <1>10 DEF Heartbeat, EnvFrame, processVars, apiVars, ApiTypeOK, CancelReads
<1>11. CASE UNCHANGED vars
  BY <1>u, <1>11 DEF vars, processVars, OK
<1> QED BY <1>1, <1>2, <1>3, <1>4, <1>5, <1>6, <1>7, <1>8, <1>9, <1>10, <1>11 DEF Next

-----------------------------------------------------------------------------
LEMMA TypeInvInit == Init => TypeInv
<1> SUFFICES ASSUME Init PROVE TypeInv
  OBVIOUS
<1>1. StoreTypeOK /\ RunningHasOpenAttempt /\ QTypeOK /\ QueueConsistent /\ 0 \in Time
  BY SMTT(30), StoreInitInv, QInitInv, TimeAssumption DEF Init, StoreInv, QInv, Time
<1>2. SchedTypeOK /\ SchedLocals
  <2>1. sched = IdleSched /\ highStreak = 0 /\ execs = {}
    BY DEF Init, ProcessInit
  <2>2. 0 \in 0..HighWatermark /\ 0 \in Rank
    BY SMTT(30), WatermarkAssumption DEF Rank
  <2> QED BY <2>1, <2>2 DEF IdleSched, SchedTypeOK, SchedLocals, SchedPc
<1>3. PoolTypeOK
  BY DEF Init, ProcessInit, PoolTypeOK
<1>4. LoopTypeOK /\ ReapLocals
  BY <1>1 DEF Init, ProcessInit, IdleDelay, IdleReap, LoopTypeOK, ReapLocals, WaitKind
<1>5. ApiTypeOK /\ CancelReads
  BY <1>1 DEF Init, ProcessInit, ApiTypeOK, CancelReads
<1> QED BY <1>1, <1>2, <1>3, <1>4, <1>5 DEF TypeInv, TypeOK

LEMMA TypeInvStep == TypeInv /\ [Next]_vars => TypeInv'
<1> SUFFICES ASSUME TypeInv, [Next]_vars PROVE TypeInv'
  OBVIOUS
<1>1. StoreTypeOK' /\ RunningHasOpenAttempt'
  BY StoreStep, StoreNextInv DEF TypeInv, TypeOK, StoreInv
<1>2. QTypeOK' /\ QueueConsistent'
  BY QueueStep DEF QInv
<1> QED BY <1>1, <1>2, SchedStep, PoolStep, LoopStep, HandlerStep DEF TypeInv, TypeOK

\* The composed backend is type correct; in particular the fairness streak
\* never passes the watermark and no goroutine uses an unset local.
THEOREM TypeCorrect == Spec => []TypeOK
<1>1. TypeInv => TypeOK
  BY DEF TypeInv
<1> QED BY <1>1, TypeInvInit, TypeInvStep, PTL DEF Spec

\* Crashes, races and lost calls included, the current attempt of a running
\* task is its last, open row.
THEOREM OpenAttempt == Spec => []RunningHasOpenAttempt
<1>1. TypeInv => RunningHasOpenAttempt
  BY DEF TypeInv
<1> QED BY <1>1, TypeInvInit, TypeInvStep, PTL DEF Spec

\* The whole backend implements the task state machine.
THEOREM ImplementsLifecycle == Spec => LifecycleSpec
<1>1. Init => StoreInit
  BY DEF Init
<1>2. Spec => StoreSpec
  BY <1>1, TypeInvInit, TypeInvStep, StoreStep, PTL DEF Spec, StoreSpec
<1> QED BY <1>2, StoreImplementsLifecycle, PTL

-----------------------------------------------------------------------------
(* Dead letters.  Retry or not is decided by the number of the attempt the *)
(* reporting run was given, which never exceeds the row's count.           *)

RunNumbers == \A r \in runs : r.no <= attempts[r.task]

LEMMA AttemptsGrow ==
    StoreInv /\ [StoreNext]_storeVars => \A t \in Task : attempts[t] <= attempts'[t]
<1> SUFFICES ASSUME StoreInv, [StoreNext]_storeVars, NEW t \in Task PROVE attempts[t] <= attempts'[t]
  OBVIOUS
<1>1. [Lifecycle!LNext]_<<status, attempts>>
  BY StoreNextRefines
<1>2. attempts \in [Task -> Nat]
  BY DEF StoreInv, StoreTypeOK
<1> QED BY SMTT(30), <1>1, <1>2 DEF Lifecycle!LNext, Lifecycle!Move, Lifecycle!Begin

LEMMA RunNumbersStep == TypeInv /\ RunNumbers /\ [Next]_vars => RunNumbers'
<1> SUFFICES ASSUME TypeInv, RunNumbers, [Next]_vars PROVE RunNumbers'
  OBVIOUS
<1>0. /\ runs \subseteq RunRecord /\ attempts \in [Task -> Nat] /\ attempts' \in [Task -> Nat]
      /\ \A t \in Task : attempts[t] <= attempts'[t]
  BY StoreStep, AttemptsGrow, StoreNextInv DEF TypeInv, TypeOK, StoreInv, StoreTypeOK, PoolTypeOK
<1>1. ASSUME NEW r \in runs PROVE r.no <= attempts'[r.task]
  BY SMTT(30), <1>0 DEF RunNumbers, RunRecord
<1>u. CASE runs' \subseteq runs
  BY <1>1, <1>u DEF RunNumbers
<1>2. CASE SchedDeliver
  <2>1. /\ sched.task \in Task /\ UNCHANGED attempts
    BY <1>2 DEF SchedDeliver, SchedAt, TypeInv, SchedLocals, storeVars
  <2>2. runs' \subseteq runs \union {Run("handler", FALSE), Run("report", TRUE)}
    BY <1>2 DEF SchedDeliver
  <2> QED BY SMTT(30), <1>0, <1>1, <2>1, <2>2 DEF RunNumbers, Run
<1>3. ASSUME NEW r \in runs, RunStep(r) \/ RunRenew(r) PROVE RunNumbers'
  <2>1. ASSUME NEW next, next.no = r.no, next.task = r.task, Become(r, next) PROVE RunNumbers'
    BY <1>1, <2>1 DEF Become, RunNumbers
  <2>2. r \in RunRecord
    BY <1>0
  <2> QED BY <1>3, <1>u, <2>1, <2>2
          DEF RunStep, RunReturn, RunReport, RunWait, RunRelease, RunRenew, RunRecord
<1>4. CASE Scheduler
  BY <1>2, <1>4, <1>u
  DEF Scheduler, SchedChoose, SchedDequeue, SchedPick, SchedVictim, SchedPreempt, SchedFlag,
      SchedFree, SchedHead, SchedReserve, SchedBegin, SchedInline, SchedRequeue
<1>5. CASE DelayLoop \/ Reaper \/ Runtime
  BY <1>u, <1>5
  DEF DelayLoop, DelayPop, DelayMark, DelayPush, DelayPutBack, DelayFrame,
      Reaper, ReapMark, ReapReclaim, ReapNotify, ReapPush, ReapFrame,
      Runtime, StartRecover, StartRebuild, StartEnqueue, StartFrame
<1>6. CASE Request \/ \E t \in Task : ApiStep(t)
  BY <1>u, <1>6
  DEF ApiStep, SubmitPush, CancelUpdate, CancelUnwait, RetryDeadPush, ApiFrame,
      Request, SubmitCreate, CancelSelect, RetryDeadBatch, DiscardDeadBatch
<1>7. CASE Disturbance \/ Tick \/ \E w \in Worker : Heartbeat(w)
  BY <1>u, <1>7 DEF Disturbance, Crash, Stall, LeaseLapses, Tick, Heartbeat, EnvFrame, processVars
<1>8. CASE UNCHANGED vars
  BY <1>u, <1>8 DEF vars, processVars
<1> QED BY <1>3, <1>4, <1>5, <1>6, <1>7, <1>8 DEF Next

LEMMA DeadStep == TypeInv /\ RunNumbers /\ DeadAfterAllAttempts /\ [Next]_vars => DeadAfterAllAttempts'
<1> SUFFICES ASSUME TypeInv, RunNumbers, DeadAfterAllAttempts, [Next]_vars,
                    NEW t \in Retriable, status'[t] = "dead"
             PROVE  attempts'[t] > MaxRetries[t]
  BY DEF DeadAfterAllAttempts
<1>0. /\ runs \subseteq RunRecord /\ attempts \in [Task -> Nat] /\ attempts' \in [Task -> Nat]
      /\ t \in Task /\ status \in [Task -> TaskStatus] /\ MaxRetries[t] \in Nat
      /\ attempts[t] <= attempts'[t]
  BY StoreStep, AttemptsGrow, StoreNextInv, RetryAssumption, MaxRetriesAssumption
  DEF TypeInv, TypeOK, StoreInv, StoreTypeOK, PoolTypeOK
<1>1. CASE status[t] = "dead"
  BY SMTT(30), <1>0, <1>1 DEF DeadAfterAllAttempts
<1>2. ASSUME status[t] # "dead", NEW r \in runs, RunReport(r) PROVE attempts'[t] > MaxRetries[t]
  <2>1. Outcome(r) = "dead" /\ r.task = t
    BY <1>0, <1>2 DEF RunReport, CompleteAttempt, ReleaseRows, storeVars
  <2>2. r.no > MaxRetries[t] /\ r.no \in Nat
    BY SMTT(30), <1>0, <2>1 DEF Outcome, RunRecord
  <2> QED BY SMTT(30), <1>0, <2>1, <2>2 DEF RunNumbers
<1>3. ASSUME status[t] # "dead" PROVE \E r \in runs : RunReport(r)
  <2>1. CASE Scheduler
    BY <1>0, <1>3, <2>1
    DEF Scheduler, SchedChoose, SchedDequeue, SchedPick, SchedVictim, SchedPreempt, SchedFlag,
        SchedFree, SchedHead, SchedReserve, SchedBegin, SchedDeliver, SchedInline, SchedRequeue,
        Preempt, BeginAttempt, ReleaseRows, storeVars
  <2>2. CASE DelayLoop \/ Reaper \/ Runtime
    BY <1>0, <1>3, <2>2
    DEF DelayLoop, DelayPop, DelayMark, DelayPush, DelayPutBack, MarkReadyByIDs,
        Reaper, ReapMark, ReapReclaim, ReapNotify, ReapPush, ReclaimExpired,
        Runtime, StartRecover, StartRebuild, StartEnqueue, RecoverInflight, ReleaseRows, storeVars
  <2>3. CASE Request \/ \E u \in Task : ApiStep(u)
    BY <1>0, <1>3, <2>3
    DEF ApiStep, SubmitPush, CancelUpdate, CancelUnwait, RetryDeadPush, CancelWrite,
        Request, SubmitCreate, CancelSelect, RetryDeadBatch, DiscardDeadBatch,
        CreateTask, RetryDead, DiscardDead, storeVars
  <2>4. CASE Disturbance \/ Tick \/ \E w \in Worker : Heartbeat(w)
    BY <1>3, <2>4 DEF Disturbance, Crash, Stall, LeaseLapses, LeaseExpires, Tick, Heartbeat, storeVars
  <2>5. ASSUME NEW r \in runs, RunStep(r) \/ RunRenew(r) PROVE RunReport(r)
    BY <1>3, <2>5 DEF RunStep, RunReturn, RunWait, RunRelease, RunRenew, RenewLease, storeVars
  <2>6. CASE UNCHANGED vars
    BY <1>3, <2>6 DEF vars, storeVars
  <2> QED BY <2>1, <2>2, <2>3, <2>4, <2>5, <2>6 DEF Next
<1> QED BY <1>1, <1>2, <1>3

\* A task with a usable retry policy only becomes dead after its first attempt
\* and all its retries (engine.go:164-166), whichever run's report decides.
THEOREM DeadLast == Spec => []DeadAfterAllAttempts
<1>1. Init => RunNumbers /\ DeadAfterAllAttempts
  BY RetryAssumption DEF Init, StoreInit, ProcessInit, RunNumbers, DeadAfterAllAttempts
<1> QED BY <1>1, TypeInvInit, TypeInvStep, RunNumbersStep, DeadStep, PTL DEF Spec

-----------------------------------------------------------------------------
(* No ready row is lost.  QueueConsistent turns "t is in its list" into "t *)
(* has its membership marker", which every script updates point-wise.      *)

Kept(t) == t \in members[Priority[t]] \/ HeldReady(t)

LEMMA ListedIsMarked ==
    ASSUME QueueConsistent, NEW t \in Task
    PROVE  t \in Range(list[Priority[t]]) <=> t \in members[Priority[t]]
BY PriorityAssumption DEF QueueConsistent

LEMMA ReadyStep == TypeInv /\ NoReadyTaskLost /\ [Next]_vars => NoReadyTaskLost'
<1> SUFFICES ASSUME TypeInv, NoReadyTaskLost, [Next]_vars PROVE NoReadyTaskLost'
  OBVIOUS
<1>a. QueueConsistent'
  BY TypeInvStep DEF TypeInv
<1>b. \A t \in Task : t \in members'[Priority[t]] => t \in Range(list'[Priority[t]])
  BY <1>a, PriorityAssumption DEF QueueConsistent
<1> SUFFICES ASSUME phase' # "down", budget'.faults = 0, NEW t \in Task, status'[t] = "ready"
             PROVE  Kept(t)'
  BY <1>b DEF NoReadyTaskLost, Kept, HeldReady
<1>0. /\ Priority[t] \in Rank /\ members \in [Rank -> SUBSET Task] /\ budget.faults \in Nat
      /\ status \in [Task -> TaskStatus] /\ submitting \in [Task -> {"no", "ready", "delayed"}]
  BY PriorityAssumption DEF TypeInv, TypeOK, QTypeOK, ApiTypeOK, StoreTypeOK
<1>f. ~Fault
  BY SMTT(30), <1>0 DEF Fault, TypeInv, TypeOK, ApiTypeOK
<1>k. ASSUME phase # "down", budget.faults = 0, status[t] = "ready" PROVE Kept(t)
  BY <1>k, ListedIsMarked DEF NoReadyTaskLost, Kept, TypeInv
<1>e. ASSUME NEW u \in Task, Enqueue(Priority[u], u) \/ EnqueueHead(Priority[u], u)
      PROVE  /\ members[Priority[t]] \subseteq members'[Priority[t]]
             /\ u = t => t \in members'[Priority[t]]
  BY SMTT(30), <1>0, <1>e, PriorityAssumption DEF Enqueue, EnqueueHead, runEnqueue
<1>u. ASSUME UNCHANGED <<sched, delay, reap, starting, requeueing, submitting>>,
             phase # "down", budget.faults = 0, status[t] = "ready",
             members[Priority[t]] \subseteq members'[Priority[t]]
      PROVE  Kept(t)'
  BY <1>k, <1>u DEF Kept, HeldReady
<1>1. CASE Scheduler
  <2>0. /\ phase # "down" /\ UNCHANGED <<delay, reap, starting, requeueing, submitting>>
        /\ budget.faults = 0
    BY <1>1, <1>f
    DEF Scheduler, SchedChoose, SchedDequeue, SchedPick, SchedVictim, SchedPreempt, SchedFlag,
        SchedFree, SchedHead, SchedReserve, SchedBegin, SchedDeliver, SchedInline, SchedRequeue,
        SchedAt, Up, SchedFrame, loopVars, apiVars, OK
  <2>r. sched \in [pc : SchedPc, prio : Rank, task : Task \union {NoTask},
                    exec : Worker \union {NoWorker}, victim : Task \union {NoTask}]
    BY DEF TypeInv, TypeOK, SchedTypeOK
  <2>1. CASE SchedChoose
    BY <1>k, <2>0, <2>1 DEF SchedChoose, SchedAt, Kept, HeldReady, storeVars, queueVars
  <2>2. CASE SchedDequeue
    <3>1. Kept(t) /\ sched.pc = "dequeue" /\ list[sched.prio] # <<>> /\ sched.prio \in Rank
      BY <1>k, <2>0, <2>2, <2>r DEF SchedDequeue, SchedAt, storeVars, Dequeue
    <3>2. sched' = [sched EXCEPT !.pc = "pick", !.task = Head(list[sched.prio])]
      BY <1>f, <2>2 DEF SchedDequeue
    <3>3. members' = [members EXCEPT ![sched.prio] = @ \ {Head(list[sched.prio])}]
      BY <2>2 DEF SchedDequeue, Dequeue
    <3> QED BY <1>0, <2>0, <2>r, <3>1, <3>2, <3>3 DEF Kept, HeldReady
  <2>3. CASE SchedPick
    BY <1>f, <1>k, <2>0, <2>r, <2>3 DEF SchedPick, SchedAt, Goto, Kept, HeldReady, storeVars, queueVars
  <2>4. CASE SchedVictim
    <3>1. sched.pc = "victim" /\ sched'.pc \in {"requeue", "preempt"} /\ sched'.task = sched.task
      BY <2>r, <2>4 DEF SchedVictim, SchedAt, Goto
    <3> QED BY <1>k, <2>0, <2>4, <3>1 DEF SchedVictim, Kept, HeldReady, storeVars, queueVars
  <2>5. CASE SchedPreempt
    <3>1. sched.pc = "preempt" /\ UNCHANGED members
      BY <2>5 DEF SchedPreempt, SchedAt, queueVars
    <3>2. CASE Preempt(sched.victim) /\ Goto("flag")
      <4>1. CASE t = sched.victim
        BY <2>r, <3>2, <4>1 DEF Goto, Kept, HeldReady
      <4>2. CASE t # sched.victim
        BY <1>0, <1>k, <2>0, <2>r, <3>1, <3>2, <4>2 DEF Preempt, ReleaseRows, Goto, Kept, HeldReady
      <4> QED BY <4>1, <4>2
    <3>3. CASE Goto("requeue") /\ UNCHANGED storeVars
      BY <1>k, <2>0, <2>r, <3>1, <3>3 DEF Goto, Kept, HeldReady, storeVars
    <3> QED BY <2>5, <3>2, <3>3 DEF SchedPreempt
  <2>6. CASE SchedFlag \/ SchedFree
    BY <1>k, <2>0, <2>r, <2>6 DEF SchedFlag, SchedFree, SchedAt, Goto, Kept, HeldReady, storeVars, queueVars
  <2>7. CASE SchedHead
    <3>1. EnqueueHead(Priority[sched.victim], sched.victim) /\ Goto("reserve") /\ sched.pc = "head"
      BY <1>f, <2>7 DEF SchedHead, SchedAt
    <3>2. sched.victim \in Task /\ Kept(t)
      BY <1>k, <2>0, <2>7, <3>1 DEF TypeInv, SchedLocals, SchedHead, storeVars
    <3> QED BY <1>e, <2>0, <2>r, <3>1, <3>2 DEF Goto, Kept, HeldReady
  <2>8. CASE SchedReserve
    BY <1>k, <2>0, <2>r, <2>8 DEF SchedReserve, SchedAt, Goto, Kept, HeldReady, storeVars, queueVars
  <2>9. CASE SchedBegin
    <3>1. sched.task \in Task
      BY <2>9 DEF SchedBegin, SchedAt, TypeInv, SchedLocals
    <3> QED BY <1>0, <1>f, <1>k, <2>0, <2>r, <2>9, <3>1
            DEF SchedBegin, BeginAttempt, SchedAt, Goto, IdleSched, Kept, HeldReady, storeVars, queueVars
  <2>10. CASE SchedDeliver \/ SchedInline
    BY <1>k, <2>0, <2>r, <2>10
    DEF SchedDeliver, SchedInline, Dispatched, IdleSched, SchedAt, Goto, Kept, HeldReady, storeVars, queueVars
  <2>11. CASE SchedRequeue
    <3>1. EnqueueHead(Priority[sched.task], sched.task) /\ sched.pc = "requeue" /\ sched' = IdleSched
      BY <1>f, <2>11 DEF SchedRequeue, SchedAt
    <3>2. sched.task \in Task /\ Kept(t)
      BY <1>k, <2>0, <2>11, <3>1 DEF TypeInv, SchedLocals, SchedRequeue, storeVars
    <3> QED BY <1>e, <2>0, <2>r, <3>1, <3>2 DEF Kept, HeldReady
  <2> QED BY <1>1, <2>1, <2>2, <2>3, <2>4, <2>5, <2>6, <2>7, <2>8, <2>9, <2>10, <2>11 DEF Scheduler
<1>2. CASE DelayLoop
  <2>0. /\ phase # "down" /\ UNCHANGED <<sched, reap, starting, requeueing, submitting>>
        /\ budget.faults = 0
    BY <1>2, <1>f
    DEF DelayLoop, DelayPop, DelayMark, DelayPush, DelayPutBack, DelayFrame, Up, apiVars, OK
  <2>r. delay \in [pc : {"pop", "mark", "push", "putback"}, kind : WaitKind, now : Time, ids : SUBSET Task]
    BY DEF TypeInv, TypeOK, LoopTypeOK
  <2>1. CASE DelayPop
    BY <1>k, <2>0, <2>1 DEF DelayPop, PopDue, Kept, HeldReady, storeVars
  <2>2. CASE DelayMark
    <3>1. MarkReadyByIDs(delay.ids, delay.now) /\ UNCHANGED members /\ delay.pc = "mark"
      BY <1>f, <2>2 DEF DelayMark, queueVars
    <3>2. delay' = NextKind([delay EXCEPT !.pc = "push", !.ids = Promotable(delay.ids, delay.now)])
      BY <1>f, <2>2 DEF DelayMark
    <3>3. CASE t \in Promotable(delay.ids, delay.now)
      BY <2>r, <3>2, <3>3 DEF NextKind, Kept, HeldReady
    <3>4. CASE t \notin Promotable(delay.ids, delay.now)
      BY <1>k, <2>0, <3>1, <3>4 DEF MarkReadyByIDs, Kept, HeldReady
    <3> QED BY <3>3, <3>4
  <2>3. ASSUME NEW u \in Task, DelayPush(u) PROVE Kept(t)'
    <3>1. Enqueue(Priority[u], u) /\ delay.pc = "push" /\ delay' = NextKind([delay EXCEPT !.ids = @ \ {u}])
      BY <1>f, <2>3 DEF DelayPush
    <3>2. Kept(t)
      BY <1>k, <2>0, <2>3 DEF DelayPush, storeVars
    <3> QED BY <1>e, <2>0, <2>r, <3>1, <3>2 DEF NextKind, Kept, HeldReady
  <2>4. ASSUME NEW u \in Task, DelayPutBack(u) PROVE Kept(t)'
    BY <1>f, <1>k, <2>0, <2>4 DEF DelayPutBack, AddWaiting, Kept, HeldReady, storeVars
  <2> QED BY <1>2, <2>1, <2>2, <2>3, <2>4 DEF DelayLoop
<1>3. CASE Reaper
  <2>0. /\ phase # "down" /\ UNCHANGED <<sched, delay, starting, requeueing, submitting>>
        /\ budget.faults = 0
    BY <1>3, <1>f DEF Reaper, ReapMark, ReapNotify, ReapReclaim, ReapPush, ReapFrame, Up, apiVars, OK
  <2>r. reap \in [pc : {"idle", "notify", "reclaim", "push"}, offline : SUBSET Worker, ids : SUBSET Task]
    BY DEF TypeInv, TypeOK, LoopTypeOK
  <2>1. CASE ReapMark
    BY <1>k, <2>0, <2>r, <2>1 DEF ReapMark, Kept, HeldReady, storeVars, queueVars
  <2>2. ASSUME NEW w \in Worker, ReapNotify(w) PROVE Kept(t)'
    BY <1>k, <2>0, <2>r, <2>2 DEF ReapNotify, Kept, HeldReady, storeVars, queueVars
  <2>3. CASE ReapReclaim
    <3>1. UNCHANGED members /\ reap.ids = {} /\ IdleReap.ids = {}
      BY <2>3 DEF ReapReclaim, queueVars, TypeInv, ReapLocals, IdleReap
    <3>2. CASE /\ ReclaimExpired(Expired(online))
               /\ reap' = IF Expired(online) = {} THEN IdleReap
                          ELSE [reap EXCEPT !.pc = "push", !.ids = Expired(online)]
      <4>1. CASE t \in Expired(online)
        BY <2>r, <3>2, <4>1 DEF Kept, HeldReady
      <4>2. CASE t \notin Expired(online)
        BY <1>k, <2>0, <3>1, <3>2, <4>2 DEF ReclaimExpired, ReleaseRows, Kept, HeldReady
      <4> QED BY <4>1, <4>2
    <3>3. CASE reap' = IdleReap /\ UNCHANGED storeVars
      BY <1>k, <2>0, <3>1, <3>3 DEF Kept, HeldReady, storeVars
    <3> QED BY <2>3, <3>2, <3>3 DEF ReapReclaim
  <2>4. ASSUME NEW u \in Task, ReapPush(u) PROVE Kept(t)'
    <3>1. /\ EnqueueHead(Priority[u], u)
          /\ reap' = IF reap.ids = {u} THEN IdleReap ELSE [reap EXCEPT !.ids = @ \ {u}]
      BY <1>f, <2>4 DEF ReapPush
    <3>2. Kept(t)
      BY <1>k, <2>0, <2>4 DEF ReapPush, storeVars
    <3> QED BY <1>e, <2>0, <2>r, <3>1, <3>2 DEF Kept, HeldReady
  <2> QED BY <1>3, <2>1, <2>2, <2>3, <2>4 DEF Reaper
<1>4. CASE StartRecover
  BY <1>0, <1>4 DEF StartRecover, Kept, HeldReady
<1>5. ASSUME NEW u \in Task, StartEnqueue(u) PROVE Kept(t)'
  <2>1. /\ Enqueue(Priority[u], u) /\ starting' = starting \ {u} /\ phase # "down" /\ budget.faults = 0
        /\ UNCHANGED <<sched, delay, reap, requeueing, submitting, status>>
    BY <1>5, <1>f DEF StartEnqueue, StartFrame, apiVars, storeVars, OK
  <2> QED BY <1>e, <1>k, <2>1 DEF Kept, HeldReady
<1>6. CASE StartRebuild
  BY <1>6, <1>f, <1>u DEF StartRebuild, StartFrame, apiVars, storeVars, OK
<1>7. ASSUME NEW r \in runs, RunStep(r) \/ RunRenew(r) PROVE Kept(t)'
  <2>0. /\ UNCHANGED <<sched, delay, reap, starting, requeueing, submitting, phase, members>>
        /\ budget.faults = 0
    BY <1>7, <1>f
    DEF RunStep, RunReturn, RunReport, RunWait, RunRelease, RunRenew, RunFrame, loopVars, apiVars,
        queueVars, AddWaiting, OK
  <2>1. status[t] = "ready"
    <3>1. CASE RunReport(r)
      <4>1. Outcome(r) # "ready"
        BY DEF Outcome
      <4> QED BY <1>0, <3>1, <4>1 DEF RunReport, CompleteAttempt, ReleaseRows, storeVars
    <3>2. CASE RunRenew(r)
      BY <3>2 DEF RunRenew, RenewLease
    <3> QED BY <1>7, <3>1, <3>2 DEF RunStep, RunReturn, RunWait, RunRelease, storeVars
  <2> QED BY <1>u, <2>0, <2>1
<1>8. ASSUME NEW u \in Task, ApiStep(u) PROVE Kept(t)'
  <2>0. /\ phase # "down" /\ UNCHANGED <<sched, delay, reap, starting>> /\ budget.faults = 0
    BY <1>8, <1>f
    DEF ApiStep, SubmitPush, CancelUpdate, CancelUnwait, RetryDeadPush, ApiFrame, Up, apiVars, OK
  <2>1. CASE SubmitPush(u)
    BY <1>0, <1>e, <1>f, <1>k, <2>0, <2>1 DEF SubmitPush, AddWaiting, Kept, HeldReady, storeVars
  <2>2. CASE CancelUpdate(u)
    BY <1>0, <1>u, <2>0, <2>2 DEF CancelUpdate, CancelWrite, queueVars
  <2>3. CASE CancelUnwait(u)
    BY <1>f, <1>u, <2>0, <2>3 DEF CancelUnwait, RemoveWaiting, storeVars
  <2>4. CASE RetryDeadPush(u)
    BY <1>e, <1>f, <1>k, <2>0, <2>4 DEF RetryDeadPush, Kept, HeldReady, storeVars
  <2> QED BY <1>8, <2>1, <2>2, <2>3, <2>4 DEF ApiStep
<1>9. CASE Request
  <2>0. /\ phase # "down" /\ UNCHANGED <<sched, delay, reap, starting, members>>
    BY <1>9
    DEF Request, SubmitCreate, CancelSelect, RetryDeadBatch, DiscardDeadBatch, ApiFrame, Up, queueVars
  <2>1. ASSUME NEW u \in Task, SubmitCreate(u) PROVE Kept(t)'
    BY <1>0, <1>k, <2>0, <2>1 DEF SubmitCreate, CreateTask, Kept, HeldReady
  <2>2. ASSUME NEW u \in Task, CancelSelect(u) PROVE Kept(t)'
    BY <1>u, <2>0, <2>2 DEF CancelSelect, storeVars
  <2>3. ASSUME NEW ids \in SUBSET Task, RetryDeadBatch(ids) PROVE Kept(t)'
    <3>1. /\ RetryDead(ids) /\ requeueing' = requeueing \union Dead(ids) /\ UNCHANGED submitting
          /\ budget.faults = 0
      BY <2>3 DEF RetryDeadBatch, TypeInv, TypeOK, ApiTypeOK
    <3> QED BY <1>k, <2>0, <3>1 DEF RetryDead, Kept, HeldReady
  <2>4. ASSUME NEW ids \in SUBSET Task, DiscardDeadBatch(ids) PROVE Kept(t)'
    BY <1>u, <2>0, <2>4 DEF DiscardDeadBatch, DiscardDead, apiVars
  <2> QED BY <1>9, <2>1, <2>2, <2>3, <2>4 DEF Request
<1>10. CASE Disturbance \/ Tick \/ \E w \in Worker : Heartbeat(w)
  <2>1. ~Crash
    BY DEF Crash
  <2>2. /\ UNCHANGED <<sched, delay, reap, starting, requeueing, submitting, phase, members, status>>
        /\ budget.faults = 0
    BY <1>10, <2>1
    DEF Disturbance, Stall, LeaseLapses, LeaseExpires, Tick, Heartbeat, EnvFrame, processVars, apiVars,
        queueVars, storeVars, TypeInv, TypeOK, ApiTypeOK
  <2> QED BY <1>u, <2>2
<1>11. CASE UNCHANGED vars
  BY <1>u, <1>11 DEF vars, processVars, apiVars, storeVars, queueVars
<1> QED BY <1>1, <1>2, <1>3, <1>4, <1>5, <1>6, <1>7, <1>8, <1>9, <1>10, <1>11 DEF Next, Runtime

\* "No lost/duplicated work" (runtime.go:159), its lost half, for any number of tasks, workers, crashes
\* and preemptions: unless a call has failed since the last start, a ready row
\* is in its Redis list or held by a goroutine about to push it.
THEOREM NoLostWork == Spec => []NoReadyTaskLost
<1>1. Init => NoReadyTaskLost
  BY DEF Init, ProcessInit, NoReadyTaskLost
<1> QED BY <1>1, TypeInvInit, TypeInvStep, ReadyStep, PTL DEF Spec

-----------------------------------------------------------------------------
(* The kinds of steps.                                                     *)

\* The four kinds of steps: the process starts, gives up starting or dies, or
\* it neither starts nor ends and only a dispatch makes a row running.
LEMMA PhaseStep ==
    ASSUME TypeInv, [Next]_vars
    PROVE  \/ StartRecover \/ StartRebuild \/ Crash
           \/ /\ phase' = phase /\ budget'.crashes = budget.crashes
              /\ StoreCall \/ UNCHANGED storeVars
              /\ \A t \in Task : status'[t] = "running" => status[t] = "running" \/ phase = "up"
<1> SUFFICES ASSUME ~StartRecover, ~StartRebuild, ~Crash
             PROVE  /\ phase' = phase /\ budget'.crashes = budget.crashes
                    /\ \A t \in Task : status'[t] = "running" => status[t] = "running" \/ phase = "up"
  BY LiveStep
<1>0. /\ status \in [Task -> TaskStatus]
      /\ budget \in [faults : Nat, crashes : Nat, stalls : Nat, expiries : Nat, retries : Nat]
  BY DEF TypeInv, TypeOK, StoreTypeOK, ApiTypeOK
<1>b. ASSUME Fault \/ OK PROVE budget'.crashes = budget.crashes
  BY <1>0, <1>b DEF Fault, OK
<1> DEFINE Calm == phase' = phase /\ (phase = "up" \/ \A t \in Task : status'[t] = "running" => status[t] = "running")
<1>1. CASE Scheduler
  BY <1>b, <1>1
  DEF Scheduler, SchedChoose, SchedDequeue, SchedPick, SchedVictim, SchedPreempt, SchedFlag,
      SchedFree, SchedHead, SchedReserve, SchedBegin, SchedDeliver, SchedInline, SchedRequeue,
      SchedAt, Up, SchedFrame, loopVars, OK
<1>2. CASE DelayLoop
  BY <1>b, <1>2 DEF DelayLoop, DelayPop, DelayMark, DelayPush, DelayPutBack, DelayFrame, Up
<1>3. CASE Reaper
  BY <1>b, <1>3 DEF Reaper, ReapMark, ReapReclaim, ReapNotify, ReapPush, ReapFrame, Up, OK
<1>4. CASE Runtime
  BY <1>b, <1>4 DEF Runtime, StartEnqueue, StartFrame, storeVars
<1>5. ASSUME NEW r \in runs, RunStep(r) \/ RunRenew(r) PROVE Calm /\ budget'.crashes = budget.crashes
  <2>1. phase' = phase /\ (Fault \/ OK)
    BY <1>5 DEF RunStep, RunReturn, RunReport, RunWait, RunRelease, RunRenew, RunFrame, loopVars, OK
  <2>2. \A t \in Task : status'[t] = "running" => status[t] = "running"
    <3>1. CASE RunReport(r)
      <4>1. Outcome(r) # "running"
        BY DEF Outcome
      <4> QED BY <1>0, <3>1, <4>1 DEF RunReport, CompleteAttempt, ReleaseRows, storeVars
    <3>2. CASE RunRenew(r)
      BY <3>2 DEF RunRenew, RenewLease
    <3> QED BY <1>5, <3>1, <3>2 DEF RunStep, RunReturn, RunWait, RunRelease, storeVars
  <2> QED BY <1>b, <2>1, <2>2
<1>6. ASSUME NEW t \in Task, ApiStep(t) PROVE Calm /\ budget'.crashes = budget.crashes
  BY <1>b, <1>6
  DEF ApiStep, SubmitPush, CancelUpdate, CancelUnwait, RetryDeadPush, ApiFrame, Up, OK
<1>7. CASE Request
  <2>1. Calm
    BY <1>7 DEF Request, SubmitCreate, CancelSelect, RetryDeadBatch, DiscardDeadBatch, ApiFrame, Up
  <2>2. budget'.crashes = budget.crashes
    BY <1>0, <1>7 DEF Request, SubmitCreate, CancelSelect, RetryDeadBatch, DiscardDeadBatch
  <2> QED BY <2>1, <2>2
<1>8. CASE Disturbance \/ Tick \/ \E w \in Worker : Heartbeat(w)
  <2>1. phase' = phase /\ UNCHANGED status
    BY <1>8
    DEF Disturbance, Stall, LeaseLapses, LeaseExpires, Tick, Heartbeat, EnvFrame, processVars, storeVars
  <2>2. budget'.crashes = budget.crashes
    BY <1>0, <1>8 DEF Disturbance, Stall, LeaseLapses, Tick, Heartbeat
  <2> QED BY <2>1, <2>2
<1>9. CASE UNCHANGED vars
  BY <1>9 DEF vars, processVars, storeVars
<1> QED BY <1>1, <1>2, <1>3, <1>4, <1>5, <1>6, <1>7, <1>8, <1>9 DEF Next

\* Start has put every running row back before it goes on.
NoneInflight == phase = "recovering" => \A t \in Task : status[t] # "running"

LEMMA NoneInflightStep == TypeInv /\ NoneInflight /\ [Next]_vars => NoneInflight'
<1> SUFFICES ASSUME TypeInv, NoneInflight, [Next]_vars, phase' = "recovering", NEW t \in Task
             PROVE  status'[t] # "running"
  BY DEF NoneInflight
<1>1. CASE StartRecover
  BY <1>1, RecoverOrphans DEF StartRecover, TypeInv, TypeOK, StoreInv
<1>2. CASE StartRebuild \/ Crash
  BY <1>2 DEF StartRebuild, Crash
<1> QED BY <1>1, <1>2, PhaseStep DEF NoneInflight, storeVars

\* A step of neither the dispatch loop nor a run.
Bystander ==
    /\ UNCHANGED <<sched, memoryVars, runs>>
    /\ \A t \in Task : Quiet(t)
    /\ phase' = "up" /\ budget'.faults = 0 =>
          \/ phase = "up" /\ budget.faults = 0
          \/ phase = "recovering" /\ UNCHANGED status

LEMMA StepKinds ==
    ASSUME TypeInv, [Next]_vars
    PROVE  Scheduler \/ Crash \/ Bystander \/ \E r \in runs : RunStep(r)
<1> SUFFICES ASSUME ~Scheduler, ~Crash, ~\E r \in runs : RunStep(r) PROVE Bystander
  OBVIOUS
<1>0. /\ status \in [Task -> TaskStatus] /\ attempts \in [Task -> Nat]
      /\ workerId \in [Task -> Worker \union {NoWorker}]
      /\ budget \in [faults : Nat, crashes : Nat, stalls : Nat, expiries : Nat, retries : Nat]
  BY DEF TypeInv, TypeOK, StoreTypeOK, ApiTypeOK
<1>f. ASSUME Fault \/ OK, budget'.faults = 0 PROVE budget.faults = 0
  BY SMTT(30), <1>0, <1>f DEF Fault, OK
<1>q. ASSUME UNCHANGED <<status, workerId, attempts, history>> PROVE \A t \in Task : Quiet(t)
  BY <1>q, SameRows
<1>m. ASSUME UNCHANGED <<workerId, attempts, history>>,
             \A t \in Task : status'[t] = "running" => status[t] = "running"
      PROVE  \A t \in Task : Quiet(t)
  BY <1>m DEF Quiet
<1>1. CASE DelayLoop
  <2>1. UNCHANGED <<sched, memoryVars, runs, phase>> /\ Up /\ (Fault \/ OK)
    BY <1>1 DEF DelayLoop, DelayPop, DelayMark, DelayPush, DelayPutBack, DelayFrame
  <2>2. (\E ids, instant : MarkReadyByIDs(ids, instant)) \/ UNCHANGED storeVars
    BY <1>1 DEF DelayLoop, DelayPop, DelayMark, DelayPush, DelayPutBack
  <2>3. ASSUME NEW ids, NEW instant, MarkReadyByIDs(ids, instant) PROVE \A t \in Task : Quiet(t)
    BY <1>m, <2>3 DEF MarkReadyByIDs
  <2> QED BY <1>f, <1>q, <2>1, <2>2, <2>3 DEF Bystander, Up, storeVars
<1>2. CASE Reaper
  <2>1. UNCHANGED <<sched, memoryVars, runs, phase>> /\ Up /\ (Fault \/ OK)
    BY <1>2 DEF Reaper, ReapMark, ReapReclaim, ReapNotify, ReapPush, ReapFrame, OK
  <2>2. ReclaimExpired(Expired(online)) \/ UNCHANGED storeVars
    BY <1>2 DEF Reaper, ReapMark, ReapReclaim, ReapNotify, ReapPush
  <2>3. ASSUME ReclaimExpired(Expired(online)) PROVE \A t \in Task : Quiet(t)
    BY <2>3, TakenBackIsQuiet DEF ReclaimExpired, Verdicts
  <2> QED BY <1>f, <1>q, <2>1, <2>2, <2>3 DEF Bystander, Up, storeVars
<1>3. CASE StartRecover
  <2>1. UNCHANGED <<sched, memoryVars, runs>> /\ phase' = "recovering" /\ RecoverInflight
    BY <1>3 DEF StartRecover, StartFrame
  <2>2. \A t \in Task : Quiet(t)
    BY <2>1 DEF RecoverInflight, ReleaseRows, Quiet
  <2> QED BY <2>1, <2>2 DEF Bystander
<1>4. CASE StartRebuild
  BY <1>4, <1>q DEF StartRebuild, StartFrame, Bystander, storeVars
<1>5. ASSUME NEW t \in Task, StartEnqueue(t) PROVE Bystander
  BY <1>5, <1>f, <1>q DEF StartEnqueue, StartFrame, Bystander, storeVars
<1>6. ASSUME NEW r \in runs, RunRenew(r) PROVE Bystander
  BY <1>6, <1>q DEF RunRenew, RunFrame, loopVars, RenewLease, Bystander
<1>7. ASSUME NEW t \in Task, ApiStep(t) PROVE Bystander
  <2>1. UNCHANGED <<sched, memoryVars, runs, phase>> /\ Up /\ (Fault \/ OK)
    BY <1>7 DEF ApiStep, SubmitPush, CancelUpdate, CancelUnwait, RetryDeadPush, ApiFrame, OK
  <2>2. CancelWrite(t) \/ UNCHANGED storeVars
    BY <1>7 DEF ApiStep, SubmitPush, CancelUpdate, CancelUnwait, RetryDeadPush
  <2>3. ASSUME CancelWrite(t) PROVE \A u \in Task : Quiet(u)
    BY <1>0, <1>m, <2>3 DEF CancelWrite
  <2> QED BY <1>f, <1>q, <2>1, <2>2, <2>3 DEF Bystander, Up, storeVars
<1>8. CASE Request
  <2>1. UNCHANGED <<sched, memoryVars, runs, phase>> /\ Up
    BY <1>8 DEF Request, SubmitCreate, CancelSelect, RetryDeadBatch, DiscardDeadBatch, ApiFrame
  <2>2. budget'.faults = budget.faults
    BY <1>0, <1>8 DEF Request, SubmitCreate, CancelSelect, RetryDeadBatch, DiscardDeadBatch
  <2>3. UNCHANGED <<workerId, attempts, history>>
    BY <1>8 DEF Request, SubmitCreate, CancelSelect, RetryDeadBatch, DiscardDeadBatch, CreateTask,
                RetryDead, DiscardDead, storeVars
  <2>4. \A t \in Task : status'[t] = "running" => status[t] = "running"
    BY SMTT(30), <1>0, <1>8 DEF Request, SubmitCreate, CancelSelect, RetryDeadBatch, DiscardDeadBatch, CreateTask,
                      RetryDead, DiscardDead, storeVars
  <2> QED BY <1>m, <2>1, <2>2, <2>3, <2>4 DEF Bystander, Up
<1>9. CASE Disturbance \/ Tick \/ \E w \in Worker : Heartbeat(w)
  <2>1. UNCHANGED <<sched, memoryVars, runs, phase, status, workerId, attempts, history>>
    BY <1>9
    DEF Disturbance, Stall, LeaseLapses, LeaseExpires, Tick, Heartbeat, EnvFrame, processVars, storeVars
  <2>2. budget'.faults = budget.faults
    BY <1>0, <1>9 DEF Disturbance, Stall, LeaseLapses, Tick, Heartbeat
  <2> QED BY <1>q, <2>1, <2>2 DEF Bystander
<1>10. CASE UNCHANGED vars
  BY <1>10, <1>q DEF vars, processVars, storeVars, Bystander
<1> QED BY <1>1, <1>2, <1>3, <1>4, <1>5, <1>6, <1>7, <1>8, <1>9, <1>10 DEF Next, Runtime
=============================================================================
