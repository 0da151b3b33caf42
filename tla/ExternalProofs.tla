--------------------------- MODULE ExternalProofs ---------------------------
(***************************************************************************)
(* External workers and idempotent submission, for any tasks, workers,     *)
(* slots, keys and bounds: types, keys, the ready queue, the channels, and *)
(* the scheduler's part of the invariant of a worker that kept its object. *)
(***************************************************************************)
EXTENDS External, TaskStoreProofs, TLAPS

\* Zenon proves the leaves that cite no other prover.
USE ZenonT(30)

Pair == Task \X Nat

ObjectRecord ==
    [born : BOOLEAN, used : SUBSET Task, pending : Seq(Pair), online : BOOLEAN, closed : BOOLEAN]

ObjTypeOK == obj \in [Worker \X Index -> ObjectRecord]

MemoryTypeOK ==
    /\ known \in [Worker -> Index \union {0}]
    /\ exec \in [Worker -> Index \union {0}]
    /\ poll \in [Worker -> Index \union {0}]
    /\ reg \in [Worker -> [pc : {"idle", "upsert", "add"}, o : Index \union {0}]]
    /\ held \in [Worker -> SUBSET Pair]
    /\ closing \in [Worker -> SUBSET Pair]
    /\ sched \in [pc : {"idle", "pick", "reserve", "begin", "check", "send"},
                  t : Task \union {NoTask}, w : Worker \union {NoWorker}, o : Index \union {0}]
    /\ reap \in [pc : {"idle", "close", "remove", "delete", "push"}, todo : SUBSET Worker,
                 w : Worker \union {NoWorker}, ids : SUBSET Task]

Types == StoreInv /\ SubmissionTypeOK /\ ObjTypeOK /\ MemoryTypeOK

\* What the locals of the loops hold at each program counter, and that a claim
\* waits and a registration goes on with an object.
Locals ==
    /\ sched.pc # "idle" => sched.t \in Task
    /\ sched.pc \in {"idle", "pick"} => sched.w = NoWorker
    /\ sched.pc \in {"reserve", "begin", "check", "send"} => sched.w \in Worker /\ sched.o \in Index
    /\ reap.pc # "push" => reap.ids = {}
    /\ reap.pc \in {"remove", "delete"} => reap.w \in Worker
    /\ reap.pc \in {"idle", "close", "push"} => reap.w = NoWorker
    /\ \A w \in Worker : reg[w].pc # "idle" => reg[w].o \in Index

-----------------------------------------------------------------------------
\* Rows and answers of one key: a request that goes on has a row, an answer is
\* a row with the request's key.
KeyInv ==
    /\ \A t \in Task : sub[t].pc = "enqueue" => status[t] # "none"
    /\ \A t \in Task : sub[t].got # NoTask =>
          /\ sub[t].got \in Task /\ status[sub[t].got] # "none"
          /\ sub[t].got = t \/ (key[sub[t].got] = key[t] /\ key[t] # NoKey)
    /\ \A t, u \in Task :
          key[t] = key[u] /\ key[t] # NoKey /\ status[t] # "none" /\ status[u] # "none" => t = u

\* The scheduler lets go of an id in check and send only if it is elsewhere.
QueueInv ==
    \A t \in Task :
        status[t] = "ready" =>
            \/ t \in ready \union reap.ids
            \/ sched.t = t /\ sched.pc \in {"pick", "reserve", "begin"}
            \/ sub[t].pc \in {"enqueue", "failed"}

-----------------------------------------------------------------------------
(* Types.                                                                  *)

\* PostgreSQL only sees the statements of TaskStore.
LEMMA StoreStep == Types /\ Locals /\ [Next]_vars => [StoreNext]_storeVars
<1> SUFFICES ASSUME Types, Locals, Next PROVE StoreNext \/ UNCHANGED storeVars
  BY DEF vars
<1>0. 0 \in Time
  BY SMTT(30), TimeAssumption DEF Time
<1>r. CASE Restart
  BY <1>r DEF Restart, StoreNext, StoreCall
<1>1. ASSUME NEW t \in Task, SubmitCall(t) \/ LeaseLapses(t) PROVE StoreNext \/ UNCHANGED storeVars
  <2>1. CASE Insert(t)
    BY <1>0, <2>1 DEF Insert, StoreNext, StoreCall
  <2> QED BY <1>1, <2>1 DEF SubmitCall, SubmitStep, SubmitFault, Lookup, Enqueue, LeaseLapses, StoreNext, StoreCall
<1>2. ASSUME NEW w \in Worker, WorkerStep(w) PROVE StoreNext \/ UNCHANGED storeVars
  <2>1. ASSUME NEW a \in Attempt, NEW outcome \in {"succeeded", "dead"}, CompleteReport(w, a, outcome)
        PROVE  StoreNext \/ UNCHANGED storeVars
    <3>1. a[1] \in Task
      BY DEF Attempt
    <3>2. CASE CompleteAttempt(a[1], w, outcome, 0)
      BY <1>0, <3>1, <3>2 DEF StoreNext, StoreCall
    <3> QED BY <2>1, <3>2 DEF CompleteReport
  <2> QED BY <1>2, <1>r, <2>1
          DEF WorkerStep, RegisterMap, RegisterAdd, RegisterUpsert, Heartbeat, Drain, Silence,
              ClaimGet, ClaimReceive, ClaimNothing, CompleteRelease, RemoteDies
<1>3. CASE SchedStep
  <2>1. CASE SchedBegin
    BY <2>1 DEF SchedBegin, StoreNext, StoreCall, Locals
  <2> QED BY <1>3, <1>r, <2>1 DEF SchedStep, SchedPop, SchedPick, SchedReserve, SchedCheck, SchedSend
<1>4. CASE ReapStep
  BY <1>4 DEF ReapStep, ReapMark, ReapClose, ReapRemove, ReapDelete, ReapReclaim, ReapPush, StoreNext, StoreCall
<1>5. CASE Crash
  BY <1>5, <1>r DEF Crash
<1> QED BY <1>1, <1>2, <1>3, <1>4, <1>5 DEF Next

\* The objects of w other than i, and those of all others, stay as they are.
Others(w, i) == \A v \in Worker, j \in Index : <<v, j>> # <<w, i>> => obj'[<<v, j>>] = obj[<<v, j>>]

LEMMA ObjUpdate ==
    ASSUME ObjTypeOK, NEW w \in Worker, NEW i \in Index,
           NEW r \in ObjectRecord, obj' = [obj EXCEPT ![<<w, i>>] = r]
    PROVE  ObjTypeOK' /\ obj'[<<w, i>>] = r /\ Others(w, i)
BY DEF ObjTypeOK, Others

LEMMA ReleaseSlotFacts ==
    ASSUME ObjTypeOK, NEW w \in Worker, NEW i \in Index, NEW t, ReleaseSlot(w, i, t)
    PROVE  /\ ObjTypeOK' /\ Others(w, i)
           /\ obj'[<<w, i>>] = [obj[<<w, i>>] EXCEPT !.used = @ \ {t}]
<1> DEFINE r == [obj[<<w, i>>] EXCEPT !.used = @ \ {t}]
<1>1. obj[<<w, i>>] \in ObjectRecord
  BY DEF ObjTypeOK
<1>2. r \in ObjectRecord
  BY <1>1 DEF ObjectRecord
<1>3. obj' = [obj EXCEPT ![<<w, i>>] = r]
  BY DEF ReleaseSlot
<1> HIDE DEF r
<1>4. ObjTypeOK' /\ obj'[<<w, i>>] = r /\ Others(w, i)
  BY <1>2, <1>3, ObjUpdate
<1> QED BY <1>4 DEF r

LEMMA ReserveFacts ==
    ASSUME ObjTypeOK, NEW w \in Worker, NEW i \in Index, NEW t \in Task,
           obj' = [obj EXCEPT ![<<w, i>>].used = @ \union {t}]
    PROVE  /\ ObjTypeOK' /\ Others(w, i)
           /\ obj'[<<w, i>>] = [obj[<<w, i>>] EXCEPT !.used = @ \union {t}]
<1> DEFINE r == [obj[<<w, i>>] EXCEPT !.used = @ \union {t}]
<1>1. obj[<<w, i>>] \in ObjectRecord
  BY DEF ObjTypeOK
<1>2. r \in ObjectRecord
  BY <1>1 DEF ObjectRecord
<1>3. obj' = [obj EXCEPT ![<<w, i>>] = r]
  OBVIOUS
<1> HIDE DEF r
<1>4. ObjTypeOK' /\ obj'[<<w, i>>] = r /\ Others(w, i)
  BY <1>2, <1>3, ObjUpdate
<1> QED BY <1>4 DEF r

LEMMA AppendType == ASSUME NEW p \in Seq(Pair), NEW a \in Pair PROVE Append(p, a) \in Seq(Pair)
  BY SMTT(30)

LEMMA ChannelFacts ==
    ASSUME ObjTypeOK, NEW w \in Worker, NEW i \in Index, NEW p \in Seq(Pair),
           obj' = [obj EXCEPT ![<<w, i>>].pending = p]
    PROVE  /\ ObjTypeOK' /\ Others(w, i)
           /\ obj'[<<w, i>>] = [obj[<<w, i>>] EXCEPT !.pending = p]
<1> DEFINE r == [obj[<<w, i>>] EXCEPT !.pending = p]
<1>1. obj[<<w, i>>] \in ObjectRecord
  BY DEF ObjTypeOK
<1>2. r \in ObjectRecord
  BY <1>1 DEF ObjectRecord
<1>3. obj' = [obj EXCEPT ![<<w, i>>] = r]
  OBVIOUS
<1> HIDE DEF r
<1>4. ObjTypeOK' /\ obj'[<<w, i>>] = r /\ Others(w, i)
  BY <1>2, <1>3, ObjUpdate
<1> QED BY <1>4 DEF r

LEMMA NewObjectFacts ==
    /\ NewObject \in ObjectRecord /\ Unborn \in ObjectRecord
    /\ NewObject.used = {} /\ NewObject.pending = <<>> /\ ~NewObject.closed
    /\ Unborn.used = {} /\ Unborn.pending = <<>> /\ ~Unborn.closed
<1>1. <<>> \in Seq(Pair)
  BY SMTT(30)
<1>2. Unborn \in ObjectRecord /\ Unborn.used = {} /\ Unborn.pending = <<>> /\ ~Unborn.closed
  BY <1>1 DEF Unborn, ObjectRecord
<1>3. NewObject \in ObjectRecord /\ NewObject.used = {} /\ NewObject.pending = <<>> /\ ~NewObject.closed
  BY <1>1 DEF NewObject, ObjectRecord
<1> QED BY <1>2, <1>3

LEMMA RefreshFacts ==
    ASSUME ObjTypeOK, NEW w \in Worker, NEW i \in Index, Refresh(w, i)
    PROVE  /\ ObjTypeOK' /\ Others(w, i)
           /\ \/ i = known[w] /\ obj'[<<w, i>>] = [obj[<<w, i>>] EXCEPT !.online = TRUE]
              \/ known[w] = 0 /\ obj'[<<w, i>>] = NewObject
<1> DEFINE r == [obj[<<w, i>>] EXCEPT !.online = TRUE]
<1>1. obj[<<w, i>>] \in ObjectRecord
  BY DEF ObjTypeOK
<1>2. r \in ObjectRecord
  BY <1>1 DEF ObjectRecord
<1>3. CASE i = known[w] /\ obj' = [obj EXCEPT ![<<w, i>>].online = TRUE]
  <2>1. obj' = [obj EXCEPT ![<<w, i>>] = r]
    BY <1>3
  <2> HIDE DEF r
  <2>2. ObjTypeOK' /\ obj'[<<w, i>>] = r /\ Others(w, i)
    BY <1>2, <2>1, ObjUpdate
  <2> QED BY <1>3, <2>2 DEF r
<1>4. CASE known[w] = 0 /\ obj' = [obj EXCEPT ![<<w, i>>] = NewObject]
  <2>2. ObjTypeOK' /\ obj'[<<w, i>>] = NewObject /\ Others(w, i)
    BY <1>4, NewObjectFacts, ObjUpdate
  <2> QED BY <1>4, <2>2
<1> QED BY <1>3, <1>4 DEF Refresh

LEMMA CloseFacts ==
    ASSUME ObjTypeOK, NEW w \in Worker, NEW i \in Index,
           obj' = [obj EXCEPT ![<<w, i>>].online = FALSE, ![<<w, i>>].closed = TRUE]
    PROVE  /\ ObjTypeOK' /\ Others(w, i)
           /\ obj'[<<w, i>>] = [obj[<<w, i>>] EXCEPT !.online = FALSE, !.closed = TRUE]
<1> DEFINE r == [obj[<<w, i>>] EXCEPT !.online = FALSE, !.closed = TRUE]
<1>1. obj[<<w, i>>] \in ObjectRecord
  BY DEF ObjTypeOK
<1>2. r \in ObjectRecord
  BY <1>1 DEF ObjectRecord
<1>3. obj' = [obj EXCEPT ![<<w, i>>] = r]
  <2> DEFINE o == [obj EXCEPT ![<<w, i>>].online = FALSE]
  <2>1. /\ o \in [Worker \X Index -> ObjectRecord]
        /\ o[<<w, i>>] = [obj[<<w, i>>] EXCEPT !.online = FALSE]
        /\ \A x \in Worker \X Index : x # <<w, i>> => o[x] = obj[x]
    BY <1>1 DEF ObjTypeOK, ObjectRecord
  <2>2. obj' = [o EXCEPT ![<<w, i>>].closed = TRUE]
    OBVIOUS
  <2> HIDE DEF o
  <2>3. r = [o[<<w, i>>] EXCEPT !.closed = TRUE]
    BY <1>1, <2>1 DEF ObjectRecord
  <2>4. obj' = [o EXCEPT ![<<w, i>>] = r]
    BY <2>2, <2>3
  <2> HIDE DEF r
  <2> QED BY <2>1, <2>4 DEF ObjTypeOK
<1> HIDE DEF r
<1>4. ObjTypeOK' /\ obj'[<<w, i>>] = r /\ Others(w, i)
  BY <1>2, <1>3, ObjUpdate
<1> QED BY <1>4 DEF r

LEMMA InitTypes == Init => Types /\ Locals
<1> SUFFICES ASSUME Init PROVE Types /\ Locals
  OBVIOUS
<1>1. StoreInv
  BY StoreInitInv DEF Init
<1>2. SubmissionTypeOK
  BY KeysAssumption DEF Init, SubmissionInit, SubmissionTypeOK
<1>3. ObjTypeOK
  BY NewObjectFacts DEF Init, NoObjects, ObjTypeOK
<1>4. MemoryTypeOK
  BY DEF Init, Zero, NoCall, Nothing, Idle, NoPass, MemoryTypeOK
<1>5. Locals
  BY DEF Init, NoCall, Idle, NoPass, Locals
<1> QED BY <1>1, <1>2, <1>3, <1>4, <1>5 DEF Types

Good == SubmissionTypeOK /\ ObjTypeOK /\ MemoryTypeOK /\ Locals

LEMMA RestartTypes == Good /\ Restart => Good'
<1> SUFFICES ASSUME Good, Restart PROVE Good'
  OBVIOUS
<1>1. SubmissionTypeOK'
  BY DEF Good, Restart, SubmissionTypeOK
<1>2. ObjTypeOK'
  BY NewObjectFacts DEF Restart, NoObjects, ObjTypeOK
<1>3. MemoryTypeOK'
  BY DEF Good, Restart, remoteVars, Zero, NoCall, Nothing, Idle, NoPass, MemoryTypeOK
<1>4. Locals'
  BY DEF Restart, NoCall, Idle, NoPass, Locals
<1> QED BY <1>1, <1>2, <1>3, <1>4 DEF Good

LEMMA SubmitTypes ==
    ASSUME Good, NEW t \in Task, SubmitCall(t) \/ LeaseLapses(t)
    PROVE  Good'
<1>1. SubmissionTypeOK'
  <2>1. CASE Lookup(t)
    BY SMTT(30), <2>1 DEF Good, Lookup, Duplicates, Answer, SubmissionTypeOK
  <2>2. CASE Insert(t)
    BY SMTT(30), <2>2 DEF Good, Insert, Answer, SubmissionTypeOK
  <2>3. CASE Enqueue(t) \/ SubmitFault(t)
    BY SMTT(30), <2>3 DEF Good, Enqueue, SubmitFault, Answer, SubmissionTypeOK
  <2>4. CASE LeaseLapses(t)
    BY <2>4 DEF Good, LeaseLapses, submissionVars, SubmissionTypeOK
  <2> QED BY <2>1, <2>2, <2>3, <2>4 DEF SubmitCall, SubmitStep
<1>2. UNCHANGED <<memoryVars, held>>
  BY DEF SubmitCall, LeaseLapses, remoteVars
<1>3. ObjTypeOK' /\ MemoryTypeOK' /\ Locals'
  BY <1>2 DEF Good, memoryVars, ObjTypeOK, MemoryTypeOK, Locals
<1> QED BY <1>1, <1>3 DEF Good

LEMMA WorkerTypes ==
    ASSUME Good, NEW w \in Worker, WorkerStep(w), ~Restart
    PROVE  Good'
<1> USE DEF Good
<1>1. UNCHANGED <<submissionVars, sched, reap>>
  BY DEF WorkerStep, RegisterMap, RegisterAdd, RegisterUpsert, Heartbeat, Drain, Silence,
     ClaimGet, ClaimReceive, ClaimNothing, CompleteReport, CompleteRelease, RemoteDies, memoryVars
<1>2. SubmissionTypeOK'
  BY <1>1 DEF submissionVars, SubmissionTypeOK
<1>3. CASE RegisterMap(w)
  <2>1. PICK i \in Index : /\ Refresh(w, i)
                           /\ known' = [known EXCEPT ![w] = i]
                           /\ reg' = [reg EXCEPT ![w] = [pc |-> "upsert", o |-> i]]
    BY <1>3 DEF RegisterMap
  <2>2. ObjTypeOK'
    BY <2>1, RefreshFacts
  <2>3. MemoryTypeOK' /\ Locals'
    BY <1>1, <1>3, <2>1 DEF RegisterMap, remoteVars, MemoryTypeOK, Locals
  <2> QED BY <1>2, <2>2, <2>3
<1>4. CASE RegisterAdd(w) \/ \E ok \in BOOLEAN : RegisterUpsert(w, ok)
  <2>1. PICK c \in {"idle", "add"} : reg' = [reg EXCEPT ![w].pc = c] /\ reg[w].pc # "idle"
    BY <1>4 DEF RegisterAdd, RegisterUpsert
  <2>2. UNCHANGED <<obj, known, poll, closing, held>>
    BY <1>4 DEF RegisterAdd, RegisterUpsert, remoteVars
  <2>3. reg' \in [Worker -> [pc : {"idle", "upsert", "add"}, o : Index \union {0}]]
    BY SMTT(30), <2>1 DEF MemoryTypeOK
  <2>4. exec' \in [Worker -> Index \union {0}]
    BY SMTT(30), <1>4 DEF RegisterAdd, RegisterUpsert, MemoryTypeOK
  <2>5. \A v \in Worker : reg'[v].pc # "idle" => reg'[v].o \in Index
    BY SMTT(30), <2>1 DEF MemoryTypeOK, Locals
  <2> QED BY <1>1, <1>2, <2>2, <2>3, <2>4, <2>5 DEF ObjTypeOK, MemoryTypeOK, Locals
<1>5. CASE Heartbeat(w) \/ Drain(w) \/ Silence(w) \/ RemoteDies(w)
  BY <1>1, <1>2, <1>5 DEF Heartbeat, Drain, Silence, RemoteDies, memoryVars, ObjTypeOK, MemoryTypeOK, Locals
<1>6. CASE ClaimGet(w) \/ ClaimNothing(w)
  BY SMTT(30), <1>1, <1>2, <1>6 DEF ClaimGet, ClaimNothing, remoteVars, ObjTypeOK, MemoryTypeOK, Locals
<1>7. ASSUME NEW arrives \in BOOLEAN, ClaimReceive(w, arrives) PROVE Good'
  <2> DEFINE p == obj[<<w, poll[w]>>].pending
  <2>1. poll[w] \in Index /\ obj[<<w, poll[w]>>] \in ObjectRecord
    BY <1>7 DEF ClaimReceive, MemoryTypeOK, ObjTypeOK
  <2>2. p \in Seq(Pair) /\ p # <<>>
    BY <1>7, <2>1 DEF ObjectRecord, ClaimReceive
  <2>3. Tail(p) \in Seq(Pair) /\ Head(p) \in Pair
    BY SMTT(30), <2>2
  <2>4. ObjTypeOK'
    BY <1>7, <2>1, <2>3, ChannelFacts DEF ClaimReceive
  <2>5. poll' = [poll EXCEPT ![w] = 0] /\ UNCHANGED <<known, exec, reg, closing>>
    BY <1>7 DEF ClaimReceive
  <2>6. held' \in [Worker -> SUBSET Pair]
    <3>1. held' = held \/ held' = [held EXCEPT ![w] = @ \union {Head(p)}]
      BY <1>7 DEF ClaimReceive
    <3> HIDE DEF p
    <3> QED BY SMTT(30), <2>3, <3>1 DEF MemoryTypeOK
  <2> QED BY <1>1, <1>2, <2>4, <2>5, <2>6 DEF MemoryTypeOK, Locals
<1>8. ASSUME NEW a \in Attempt, NEW outcome \in {"succeeded", "dead"}, CompleteReport(w, a, outcome)
      PROVE Good'
  <2>1. a \in Pair
    BY SMTT(30) DEF Attempt, Pair
  <2> QED BY <1>1, <1>2, <1>8, <2>1 DEF CompleteReport, remoteVars, ObjTypeOK, MemoryTypeOK, Locals
<1>9. ASSUME NEW a \in Attempt, NEW answered \in BOOLEAN, CompleteRelease(w, a, answered)
      PROVE Good'
  <2>1. known[w] \in Index /\ ReleaseSlot(w, known[w], a[1])
    BY <1>9 DEF CompleteRelease, MemoryTypeOK
  <2>2. ObjTypeOK'
    BY <2>1, ReleaseSlotFacts
  <2>3. MemoryTypeOK' /\ Locals'
    <3>1. /\ closing' = [closing EXCEPT ![w] = @ \ {a}]
          /\ held' = held \/ held' = [held EXCEPT ![w] = @ \ {a}]
          /\ UNCHANGED <<known, exec, reg, poll>>
      BY <1>9 DEF CompleteRelease
    <3> QED BY SMTT(30), <1>1, <3>1 DEF MemoryTypeOK, Locals
  <2> QED BY <1>2, <2>2, <2>3
<1> QED BY <1>3, <1>4, <1>5, <1>6, <1>7, <1>8, <1>9 DEF WorkerStep

\* The scheduler's locals after a turn that goes on or ends.
LEMMA SchedLocals ==
    ASSUME Good, UNCHANGED <<known, exec, reg, poll, closing, held, reap>>,
           \/ sched' = Idle
           \/ /\ sched' \in [pc : {"pick", "reserve", "begin", "check", "send"},
                             t : Task, w : Worker \union {NoWorker}, o : Index \union {0}]
              /\ sched'.pc = "pick" => sched'.w = NoWorker
              /\ sched'.pc # "pick" => sched'.w \in Worker /\ sched'.o \in Index
    PROVE  MemoryTypeOK' /\ Locals'
<1>1. CASE sched' = Idle
  BY <1>1 DEF Good, Idle, MemoryTypeOK, Locals
<1>2. CASE sched' # Idle
  <2>1. MemoryTypeOK'
    BY <1>2 DEF Good, MemoryTypeOK
  <2>2. Locals'
    BY <1>2 DEF Good, Locals
  <2> QED BY <2>1, <2>2
<1> QED BY <1>1, <1>2

LEMMA SchedTypes ==
    ASSUME Good, attempts \in [Task -> Nat], SchedStep, ~Restart
    PROVE  Good'
<1>1. UNCHANGED <<key, sub, held, known, exec, reg, poll, closing, reap>>
  BY DEF SchedStep, SchedPop, SchedPick, SchedReserve, SchedBegin, SchedCheck, SchedSend,
               SchedFrame, remoteVars
<1>2. /\ sched.pc \in {"idle", "pick", "reserve", "begin", "check", "send"}
      /\ sched.pc # "idle" => sched.t \in Task
      /\ sched.pc \notin {"idle", "pick"} => sched.w \in Worker /\ sched.o \in Index
      /\ sched = [pc |-> sched.pc, t |-> sched.t, w |-> sched.w, o |-> sched.o]
  BY DEF Good, MemoryTypeOK, Locals
<1> DEFINE Turn == \/ sched' = Idle
                   \/ /\ sched' \in [pc : {"pick", "reserve", "begin", "check", "send"},
                                     t : Task, w : Worker \union {NoWorker}, o : Index \union {0}]
                      /\ sched'.pc = "pick" => sched'.w = NoWorker
                      /\ sched'.pc # "pick" => sched'.w \in Worker /\ sched'.o \in Index
<1>3. ASSUME ready' \subseteq Task, Turn, ObjTypeOK' PROVE Good'
  <2>1. SubmissionTypeOK'
    BY <1>1, <1>3 DEF Good, SubmissionTypeOK
  <2>2. MemoryTypeOK' /\ Locals'
    BY <1>1, <1>3, SchedLocals
  <2> QED BY <1>3, <2>1, <2>2 DEF Good
<1>4. ready \subseteq Task /\ (sched.pc # "idle" => ready \union {sched.t} \subseteq Task) /\ ObjTypeOK
  BY <1>2 DEF Good, SubmissionTypeOK
<1>5. ASSUME UNCHANGED obj PROVE ObjTypeOK'
  BY <1>4, <1>5 DEF ObjTypeOK
<1>6. ASSUME NEW t \in Task, SchedPop(t) PROVE Good'
  <2>1. sched' = [pc |-> "pick", t |-> t, w |-> NoWorker, o |-> 0]
    BY <1>6 DEF SchedPop, Idle
  <2>2. ready' \subseteq Task /\ UNCHANGED obj
    BY <1>4, <1>6 DEF SchedPop
  <2> QED BY <1>3, <1>5, <2>1, <2>2
<1>7. CASE SchedPick
  <2>1. CASE Requeue
    BY <1>3, <1>4, <1>5, <1>7, <2>1 DEF SchedPick, Requeue
  <2>2. ASSUME NEW w \in Candidates, sched' = [sched EXCEPT !.pc = "reserve", !.w = w, !.o = exec[w]],
               UNCHANGED ready
        PROVE  Good'
    <3>1. w \in Worker /\ exec[w] \in Index
      BY DEF Candidates, Good, MemoryTypeOK
    <3>2. sched.t \in Task /\ UNCHANGED obj
      BY <1>2, <1>7 DEF SchedPick
    <3>3. sched' = [pc |-> "reserve", t |-> sched.t, w |-> w, o |-> exec[w]]
      BY <1>2, <2>2
    <3> QED BY <1>3, <1>4, <1>5, <2>2, <3>1, <3>2, <3>3
  <2> QED BY <1>7, <2>1, <2>2 DEF SchedPick
<1>8. ASSUME NEW c \in {"begin", "check", "send"}, sched.pc \in {"reserve", "begin", "check"},
             sched' = [sched EXCEPT !.pc = c], UNCHANGED ready, ObjTypeOK'
      PROVE Good'
  <2>1. sched' = [pc |-> c, t |-> sched.t, w |-> sched.w, o |-> sched.o]
    BY <1>2, <1>8
  <2> QED BY <1>2, <1>3, <1>4, <1>8, <2>1
<1>9. ASSUME sched' = Idle, sched.pc # "idle", UNCHANGED ready \/ Requeue, ObjTypeOK'
      PROVE Good'
  BY <1>3, <1>4, <1>9 DEF Requeue
<1>10. CASE SchedReserve
  <2>1. sched.pc = "reserve" /\ sched.t \in Task /\ sched.w \in Worker /\ sched.o \in Index
    BY <1>2, <1>10 DEF SchedReserve
  <2>2. ASSUME obj' = [obj EXCEPT ![<<sched.w, sched.o>>].used = @ \union {sched.t}] PROVE ObjTypeOK'
    BY <1>4, <2>1, <2>2, ReserveFacts
  <2> QED BY <1>5, <1>8, <1>9, <1>10, <2>1, <2>2 DEF SchedReserve, Requeue
<1>11. ASSUME ReleaseSlot(sched.w, sched.o, sched.t), sched.pc \in {"begin", "check", "send"} PROVE ObjTypeOK'
  BY <1>2, <1>4, <1>11, ReleaseSlotFacts
<1>12. CASE SchedBegin
  BY <1>5, <1>8, <1>9, <1>11, <1>12 DEF SchedBegin
<1>13. CASE SchedCheck
  BY <1>5, <1>8, <1>9, <1>11, <1>13 DEF SchedCheck, Requeue
<1>14. CASE SchedSend
  <2> DEFINE o == obj[<<sched.w, sched.o>>]
             p == Append(o.pending, <<sched.t, attempts[sched.t]>>)
  <2>1. sched.pc = "send" /\ sched.t \in Task /\ sched.w \in Worker /\ sched.o \in Index
    BY <1>2, <1>14 DEF SchedSend
  <2>2. o.pending \in Seq(Pair) /\ <<sched.t, attempts[sched.t]>> \in Pair
    BY <1>4, <2>1 DEF ObjTypeOK, ObjectRecord, Pair
  <2>3. p \in Seq(Pair)
    BY SMTT(30), <2>2
  <2>4. ASSUME Send(sched.w, sched.o, <<sched.t, attempts[sched.t]>>) PROVE ObjTypeOK'
    BY <1>4, <2>1, <2>3, <2>4, ChannelFacts DEF Send
  <2> HIDE DEF p
  <2> QED BY <1>9, <1>11, <1>14, <2>1, <2>4 DEF SchedSend, Requeue
<1> QED BY <1>6, <1>7, <1>10, <1>12, <1>13, <1>14 DEF SchedStep

LEMMA ReapTypes ==
    ASSUME Good, ReapStep
    PROVE  Good'
<1>1. UNCHANGED <<key, sub, held, reg, poll, closing, sched>>
  BY DEF ReapStep, ReapMark, ReapClose, ReapRemove, ReapDelete, ReapReclaim, ReapPush, ReapFrame
<1>2. reap = [pc |-> reap.pc, todo |-> reap.todo, w |-> reap.w, ids |-> reap.ids]
  BY DEF Good, MemoryTypeOK
<1>3. ASSUME ready' \subseteq Task, ObjTypeOK',
             known' \in [Worker -> Index \union {0}], exec' \in [Worker -> Index \union {0}],
             NEW pc \in {"idle", "close", "remove", "delete", "push"}, NEW todo \in SUBSET Worker,
             NEW w \in Worker \union {NoWorker}, NEW ids \in SUBSET Task,
             reap' = [pc |-> pc, todo |-> todo, w |-> w, ids |-> ids],
             pc # "push" => ids = {},
             pc \in {"remove", "delete"} => w \in Worker,
             pc \in {"idle", "close", "push"} => w = NoWorker
      PROVE  Good'
  <2>1. SubmissionTypeOK'
    BY <1>1, <1>3 DEF Good, SubmissionTypeOK
  <2>2. MemoryTypeOK'
    BY <1>1, <1>3 DEF Good, MemoryTypeOK
  <2>3. Locals'
    BY <1>1, <1>3 DEF Good, Locals
  <2> QED BY <1>3, <2>1, <2>2, <2>3 DEF Good
<1>4. /\ ready \subseteq Task /\ ObjTypeOK
      /\ known \in [Worker -> Index \union {0}] /\ exec \in [Worker -> Index \union {0}]
      /\ reap.todo \subseteq Worker /\ reap.ids \subseteq Task
      /\ reap.pc # "push" => reap.ids = {}
      /\ reap.pc \in {"remove", "delete"} => reap.w \in Worker
      /\ reap.pc \in {"idle", "close", "push"} => reap.w = NoWorker
  BY DEF Good, SubmissionTypeOK, MemoryTypeOK, Locals
<1>5. ASSUME UNCHANGED obj PROVE ObjTypeOK'
  BY <1>4, <1>5 DEF ObjTypeOK
<1>6. CASE ReapMark
  <2> DEFINE silent == {w \in Worker : row[w] \notin {"none", "offline"} /\ ~fresh[w]}
  <2>1. reap' = [pc |-> "close", todo |-> silent, w |-> reap.w, ids |-> reap.ids] /\ reap.pc = "idle"
    BY <1>2, <1>6 DEF ReapMark
  <2>2. UNCHANGED <<ready, obj, known, exec>>
    BY <1>6 DEF ReapMark
  <2>3. silent \in SUBSET Worker
    OBVIOUS
  <2> HIDE DEF silent
  <2> QED BY <1>3, <1>4, <1>5, <2>1, <2>2, <2>3
<1>7. ASSUME NEW w \in Worker, ReapClose(w) PROVE Good'
  <2>1. reap' = [pc |-> "remove", todo |-> reap.todo \ {w}, w |-> w, ids |-> reap.ids] /\ reap.pc = "close"
    BY <1>2, <1>7 DEF ReapClose
  <2>2. UNCHANGED <<ready, known, exec>>
    BY <1>7 DEF ReapClose
  <2>3. ObjTypeOK'
    BY <1>4, <1>5, <1>7, CloseFacts DEF ReapClose
  <2> QED BY SMTT(30), <1>3, <1>4, <2>1, <2>2, <2>3
<1>8. CASE ReapRemove
  <2>1. reap' = [pc |-> "delete", todo |-> reap.todo, w |-> reap.w, ids |-> reap.ids] /\ reap.pc = "remove"
    BY <1>2, <1>8 DEF ReapRemove
  <2>2. exec' = [exec EXCEPT ![reap.w] = 0] /\ UNCHANGED <<ready, obj, known>>
    BY <1>8 DEF ReapRemove
  <2> QED BY SMTT(30), <1>3, <1>4, <1>5, <2>1, <2>2
<1>9. CASE ReapDelete
  <2>1. reap' = [pc |-> "close", todo |-> reap.todo, w |-> NoWorker, ids |-> reap.ids] /\ reap.pc = "delete"
    BY <1>2, <1>9 DEF ReapDelete
  <2>2. known' = [known EXCEPT ![reap.w] = 0] /\ UNCHANGED <<ready, obj, exec>>
    BY <1>9 DEF ReapDelete
  <2> QED BY SMTT(30), <1>3, <1>4, <1>5, <2>1, <2>2
<1>10. CASE ReapReclaim
  <2> DEFINE lost == Expired({w \in Worker : row[w] \in {"online", "draining"}})
  <2>1. reap' = [pc |-> "push", todo |-> reap.todo, w |-> reap.w, ids |-> lost] /\ reap.pc = "close"
    BY <1>2, <1>10 DEF ReapReclaim
  <2>2. UNCHANGED <<ready, obj, known, exec>>
    BY <1>10 DEF ReapReclaim
  <2>3. lost \in SUBSET Task
    BY DEF Expired
  <2> HIDE DEF lost
  <2> QED BY <1>3, <1>4, <1>5, <2>1, <2>2, <2>3
<1>11. CASE ReapPush
  <2>1. UNCHANGED <<obj, known, exec>> /\ reap.pc = "push"
    BY <1>11 DEF ReapPush
  <2>2. CASE reap.ids = {} /\ reap' = [reap EXCEPT !.pc = "idle"] /\ UNCHANGED ready
    <3>1. reap' = [pc |-> "idle", todo |-> reap.todo, w |-> NoWorker, ids |-> {}]
      BY <1>2, <1>4, <2>1, <2>2
    <3>2. /\ ready' \subseteq Task /\ ObjTypeOK' /\ reap.todo \in SUBSET Worker
          /\ known' \in [Worker -> Index \union {0}] /\ exec' \in [Worker -> Index \union {0}]
      BY <1>4, <1>5, <2>1, <2>2
    <3> QED BY SMTT(30), <1>3, <3>1, <3>2
  <2>3. ASSUME NEW t \in reap.ids, ready' = ready \union {t}, reap' = [reap EXCEPT !.ids = @ \ {t}]
        PROVE  Good'
    <3>1. reap' = [pc |-> "push", todo |-> reap.todo, w |-> reap.w, ids |-> reap.ids \ {t}]
      BY <1>2, <2>1, <2>3
    <3>2. ready' \subseteq Task /\ reap.ids \ {t} \in SUBSET Task
      BY <1>4, <2>3
    <3> QED BY SMTT(30), <1>3, <1>4, <1>5, <2>1, <3>1, <3>2
  <2> QED BY <1>11, <2>2, <2>3 DEF ReapPush
<1> QED BY <1>6, <1>7, <1>8, <1>9, <1>10, <1>11 DEF ReapStep

LEMMA TypesStep == Types /\ Locals /\ [Next]_vars => Types' /\ Locals'
<1> SUFFICES ASSUME Types, Locals, [Next]_vars PROVE Types' /\ Locals'
  OBVIOUS
<1>1. StoreInv'
  BY StoreStep, StoreNextInv DEF Types
<1>2. Good /\ attempts \in [Task -> Nat]
  BY DEF Types, Good, StoreInv, StoreTypeOK
<1>3. CASE Restart
  BY <1>1, <1>2, <1>3, RestartTypes DEF Types, Good
<1>4. CASE UNCHANGED vars
  BY <1>1, <1>2, <1>4 DEF vars, submissionVars, memoryVars, remoteVars, Types, Good,
     SubmissionTypeOK, ObjTypeOK, MemoryTypeOK, Locals
<1>5. CASE Next /\ ~Restart
  BY <1>1, <1>2, <1>5, SubmitTypes, WorkerTypes, SchedTypes, ReapTypes DEF Next, Crash, Types, Good
<1> QED BY <1>3, <1>4, <1>5

-----------------------------------------------------------------------------
(* Idempotent submission.                                                  *)

\* Only Insert creates a row, and none is ever deleted.
LEMMA RowsStay ==
    ASSUME Types, Locals, Next, NEW t \in Task, ~Insert(t)
    PROVE  status'[t] = "none" <=> status[t] = "none"
<1>1. StoreTypeOK
  BY DEF Types, StoreInv
<1>2. ASSUME UNCHANGED status PROVE status'[t] = "none" <=> status[t] = "none"
  BY <1>2
<1>3. CASE Restart
  BY <1>1, <1>3 DEF Restart, RecoverInflight, ReleaseRows
<1>4. ASSUME NEW u \in Task, SubmitCall(u) \/ LeaseLapses(u) PROVE status'[t] = "none" <=> status[t] = "none"
  <2>1. CASE Insert(u)
    <3>1. u # t
      BY <2>1
    <3> QED BY <1>1, <2>1, <3>1 DEF Insert, CreateTask, storeVars, StoreTypeOK
  <2> QED BY <1>4, <1>2, <2>1
          DEF SubmitCall, SubmitStep, SubmitFault, Lookup, Enqueue, LeaseLapses, LeaseExpires, storeVars
<1>5. ASSUME NEW w \in Worker, WorkerStep(w) PROVE status'[t] = "none" <=> status[t] = "none"
  <2>1. ASSUME NEW a \in Attempt, NEW outcome \in {"succeeded", "dead"}, CompleteReport(w, a, outcome)
        PROVE  status'[t] = "none" <=> status[t] = "none"
    BY <1>1, <1>2, <2>1 DEF CompleteReport, CompleteAttempt, Owns, ReleaseRows, storeVars
  <2> QED BY <1>5, <1>2, <1>3, <2>1
          DEF WorkerStep, RegisterMap, RegisterAdd, RegisterUpsert, Heartbeat, Drain, Silence,
              ClaimGet, ClaimReceive, ClaimNothing, CompleteRelease, RemoteDies, storeVars
<1>6. CASE SchedStep
  <2>1. CASE SchedBegin
    BY <1>1, <1>2, <2>1 DEF SchedBegin, BeginAttempt, StoreTypeOK, storeVars
  <2> QED BY <1>2, <1>3, <1>6, <2>1
          DEF SchedStep, SchedPop, SchedPick, SchedReserve, SchedCheck, SchedSend, storeVars
<1>7. CASE ReapStep
  <2>1. CASE ReapReclaim
    BY <1>1, <2>1 DEF ReapReclaim, ReclaimExpired, Expired, ReleaseRows
  <2> QED BY <1>2, <1>7, <2>1
          DEF ReapStep, ReapMark, ReapClose, ReapRemove, ReapDelete, ReapPush, storeVars
<1> QED BY <1>3, <1>4, <1>5, <1>6, <1>7 DEF Next, Crash

\* Nobody but the handler of a request, and a restart, moves that handler.
LEMMA HandlersStay ==
    ASSUME Types, Locals, Next, \A t \in Task : ~SubmitCall(t)
    PROVE  key' = key /\ (Restart \/ sub' = sub)
<1>1. CASE Restart
  BY <1>1 DEF Restart
<1>2. CASE \E t \in Task : LeaseLapses(t)
  BY <1>2 DEF LeaseLapses, submissionVars
<1>3. ASSUME NEW w \in Worker, WorkerStep(w) PROVE key' = key /\ (Restart \/ sub' = sub)
  BY <1>1, <1>3 DEF WorkerStep, RegisterMap, RegisterAdd, RegisterUpsert, Heartbeat, Drain, Silence,
     ClaimGet, ClaimReceive, ClaimNothing, CompleteReport, CompleteRelease, RemoteDies, submissionVars
<1>4. CASE SchedStep
  BY <1>1, <1>4 DEF SchedStep, SchedPop, SchedPick, SchedReserve, SchedBegin, SchedCheck, SchedSend,
     SchedFrame
<1>5. CASE ReapStep
  BY <1>5 DEF ReapStep, ReapMark, ReapClose, ReapRemove, ReapDelete, ReapReclaim, ReapPush, ReapFrame
<1> QED BY <1>1, <1>2, <1>3, <1>4, <1>5 DEF Next, Crash

LEMMA KeyStep == Types /\ Locals /\ KeyInv /\ [Next]_vars => KeyInv'
<1> SUFFICES ASSUME Types, Locals, KeyInv, Next PROVE KeyInv'
  BY DEF vars, submissionVars, storeVars, KeyInv
<1>1. SubmissionTypeOK /\ StoreTypeOK
  BY DEF Types, StoreInv
<1>2. ASSUME NEW t \in Task, SubmitCall(t), ~Insert(t) PROVE KeyInv'
  <2>1. key' = key /\ status' = status
    BY <1>2 DEF SubmitCall, SubmitStep, Lookup, Enqueue, SubmitFault, storeVars
  <2>2. CASE Lookup(t)
    BY SMTT(30), <1>1, <2>1, <2>2 DEF Lookup, Answer, Duplicates, SubmissionTypeOK, KeyInv
  <2>3. CASE Enqueue(t)
    BY SMTT(30), <1>1, <2>1, <2>3 DEF Enqueue, Answer, SubmissionTypeOK, KeyInv
  <2>4. CASE SubmitFault(t)
    BY SMTT(30), <1>1, <2>1, <2>4 DEF SubmitFault, Answer, SubmissionTypeOK, KeyInv
  <2> QED BY <1>2, <2>2, <2>3, <2>4 DEF SubmitCall, SubmitStep
<1>3. ASSUME NEW t \in Task, Insert(t) PROVE KeyInv'
  <2>1. CASE Duplicates(t) = {}
    <3>1. /\ status[t] = "none" /\ status' = [status EXCEPT ![t] = "ready"]
          /\ sub' = [sub EXCEPT ![t] = [pc |-> "enqueue", got |-> NoTask]] /\ key' = key
      BY <1>3, <2>1 DEF Insert, CreateTask, Answer
    <3>2. \A u \in Task : ~(status[u] # "none" /\ key[u] = key[t] /\ key[t] # NoKey)
      BY <2>1 DEF Duplicates
    <3> QED BY SMTT(30), <1>1, <3>1, <3>2 DEF StoreTypeOK, SubmissionTypeOK, KeyInv
  <2>2. CASE Duplicates(t) # {}
    BY SMTT(30), <1>1, <1>3, <2>2 DEF Insert, Answer, storeVars, SubmissionTypeOK, KeyInv
  <2> QED BY <2>1, <2>2
<1>4. CASE \A t \in Task : ~SubmitCall(t)
  <2>1. key' = key /\ (Restart \/ sub' = sub)
    BY <1>4, HandlersStay
  <2>2. \A t \in Task : ~Insert(t) => (status'[t] = "none" <=> status[t] = "none")
    BY RowsStay
  <2>3. CASE \E t \in Task : Insert(t)
    BY <1>3, <2>3
  <2>4. CASE \A t \in Task : ~Insert(t)
    <3>1. \A t \in Task : status'[t] = "none" <=> status[t] = "none"
      BY <2>2, <2>4
    <3>2. CASE sub' = sub
      BY <2>1, <3>1, <3>2 DEF KeyInv
    <3>3. CASE Restart
      <4>1. \A t \in Task : sub'[t] = IF t \in Submitting THEN [pc |-> "failed", got |-> NoTask] ELSE sub[t]
        BY <3>3 DEF Restart
      <4> QED BY SMTT(30), <2>1, <3>1, <4>1 DEF KeyInv
    <3> QED BY <2>1, <3>2, <3>3
  <2> QED BY <2>3, <2>4
<1> QED BY <1>2, <1>3, <1>4

\* All answers to one idempotency key name one task, which is the only row with
\* that key (Engine.Submit, CreateTask and the unique index).
THEOREM IdempotencyKeys == Spec => []IdempotentAnswers
<1>1. Init => KeyInv
  BY SMTT(30) DEF Init, StoreInit, SubmissionInit, KeyInv
<1>2. KeyInv /\ SubmissionTypeOK => IdempotentAnswers
  BY SMTT(30) DEF KeyInv, IdempotentAnswers, SubmissionTypeOK
<1>3. Types => SubmissionTypeOK
  BY DEF Types
<1> QED BY <1>1, <1>2, <1>3, InitTypes, TypesStep, KeyStep, PTL DEF Spec

-----------------------------------------------------------------------------
(* No ready task is lost.                                                  *)

LEMMA QueueStep == Types /\ Locals /\ QueueInv /\ [Next]_vars => QueueInv'
<1> SUFFICES ASSUME Types, Locals, QueueInv, Next PROVE QueueInv'
  BY DEF vars, submissionVars, storeVars, memoryVars, QueueInv
<1>1. SubmissionTypeOK /\ StoreTypeOK /\ MemoryTypeOK
  BY DEF Types, StoreInv
<1>2. CASE Restart
  <2>1. \A t \in Task : status'[t] = "ready" => status[t] \in {"ready", "running"}
    BY <1>1, <1>2 DEF Restart, RecoverInflight, ReleaseRows
  <2> QED BY <1>2, <2>1 DEF Restart, QueueInv
<1>3. ASSUME UNCHANGED <<ready, sched, reap, sub>>,
             \A t \in Task : status'[t] = "ready" => status[t] = "ready"
      PROVE  QueueInv'
  BY <1>3 DEF QueueInv
<1>4. ASSUME NEW t \in Task, SubmitCall(t) \/ LeaseLapses(t) PROVE QueueInv'
  <2>1. UNCHANGED <<sched, reap>>
    BY <1>4 DEF SubmitCall, LeaseLapses, memoryVars
  <2>2. CASE Insert(t)
    <3>1. sub'[t].pc \in {"enqueue", "failed"} /\ ready' = ready
      BY SMTT(30), <1>1, <2>2 DEF Insert, Answer, SubmissionTypeOK
    <3>2. \A u \in Task : u # t => status'[u] = status[u] /\ sub'[u] = sub[u]
      BY <1>1, <2>2 DEF Insert, Answer, CreateTask, StoreTypeOK, SubmissionTypeOK, storeVars
    <3> QED BY <2>1, <3>1, <3>2 DEF QueueInv
  <2>3. CASE Lookup(t) \/ Enqueue(t) \/ SubmitFault(t)
    BY SMTT(30), <1>1, <2>1, <2>3 DEF Lookup, Enqueue, SubmitFault, Answer, SubmissionTypeOK, storeVars, QueueInv
  <2>4. CASE LeaseLapses(t)
    BY <1>3, <2>1, <2>4 DEF LeaseLapses, LeaseExpires, submissionVars
  <2> QED BY <1>4, <2>2, <2>3, <2>4 DEF SubmitCall, SubmitStep
<1>5. ASSUME NEW w \in Worker, WorkerStep(w) PROVE QueueInv'
  <2>1. Restart \/ UNCHANGED <<ready, sched, reap, sub>>
    BY <1>5 DEF WorkerStep, RegisterMap, RegisterAdd, RegisterUpsert, Heartbeat, Drain, Silence,
       ClaimGet, ClaimReceive, ClaimNothing, CompleteReport, CompleteRelease, RemoteDies,
       submissionVars, memoryVars
  <2>2. ASSUME NEW a \in Attempt, NEW outcome \in {"succeeded", "dead"}, CompleteReport(w, a, outcome)
        PROVE  \A t \in Task : status'[t] = "ready" => status[t] = "ready"
    BY <1>1, <2>2 DEF CompleteReport, CompleteAttempt, ReleaseRows, storeVars
  <2>3. Restart \/ \A t \in Task : status'[t] = "ready" => status[t] = "ready"
    BY <1>5, <2>2 DEF WorkerStep, RegisterMap, RegisterAdd, RegisterUpsert, Heartbeat, Drain, Silence,
       ClaimGet, ClaimReceive, ClaimNothing, CompleteRelease, RemoteDies, storeVars
  <2> QED BY <1>2, <1>3, <2>1, <2>3
<1>6. CASE SchedStep
  <2>1. CASE \E t \in Task : SchedPop(t)
    BY <2>1 DEF SchedPop, SchedFrame, Idle, storeVars, QueueInv
  <2>2. CASE Requeue /\ UNCHANGED <<storeVars, sub, reap>>
    BY <2>2 DEF Requeue, Idle, storeVars, QueueInv
  <2>3. CASE SchedPick
    BY <1>1, <2>2, <2>3 DEF SchedPick, SchedFrame, MemoryTypeOK, storeVars, QueueInv
  <2>4. CASE SchedReserve
    BY <1>1, <2>2, <2>4 DEF SchedReserve, SchedFrame, MemoryTypeOK, storeVars, QueueInv
  <2>5. CASE SchedBegin
    <3>1. sched.t \in Task
      BY <2>5 DEF SchedBegin, Locals
    <3> QED BY SMTT(30), <1>1, <2>5, <3>1 DEF SchedBegin, BeginAttempt, SchedFrame, Idle, MemoryTypeOK, StoreTypeOK, storeVars, QueueInv
  <2>6. CASE SchedCheck
    BY <1>1, <2>2, <2>6 DEF SchedCheck, SchedFrame, MemoryTypeOK, storeVars, QueueInv
  <2>7. CASE SchedSend
    BY <1>1, <1>2, <2>2, <2>7 DEF SchedSend, SchedFrame, MemoryTypeOK, storeVars, QueueInv
  <2> QED BY <1>6, <2>1, <2>3, <2>4, <2>5, <2>6, <2>7 DEF SchedStep
<1>7. CASE ReapStep
  <2>1. UNCHANGED <<sub, sched>>
    BY <1>7 DEF ReapStep, ReapMark, ReapClose, ReapRemove, ReapDelete, ReapReclaim, ReapPush, ReapFrame
  <2>2. CASE ReapReclaim
    <3> DEFINE lost == Expired({w \in Worker : row[w] \in {"online", "draining"}})
    <3>1. /\ reap.ids = {} /\ reap'.ids = lost /\ ready' = ready
          /\ \A t \in Task : status'[t] = IF t \in lost THEN "ready" ELSE status[t]
      BY <1>1, <2>2 DEF ReapReclaim, ReclaimExpired, ReleaseRows, MemoryTypeOK, Locals
    <3> HIDE DEF lost
    <3> QED BY <2>1, <3>1 DEF QueueInv
  <2>3. CASE ReapPush
    BY SMTT(30), <1>1, <2>1, <2>3 DEF ReapPush, MemoryTypeOK, storeVars, QueueInv
  <2>4. CASE ReapMark \/ (\E w \in Worker : ReapClose(w)) \/ ReapRemove \/ ReapDelete
    BY <1>1, <2>1, <2>4 DEF ReapMark, ReapClose, ReapRemove, ReapDelete, MemoryTypeOK, storeVars, QueueInv
  <2> QED BY <1>7, <2>2, <2>3, <2>4 DEF ReapStep
<1> QED BY <1>2, <1>4, <1>5, <1>6, <1>7 DEF Next, Crash

\* A ready row is in the queue or on its way there, or the submitter was told
\* of the failure, across registrations, offline marks, refused reservations,
\* failed deliveries and panics (dispatchOne, ReapOnce, Deliver).
THEOREM NoReadyTaskForgotten == Spec => []ReadyIsQueued
<1>1. Init => QueueInv
  BY DEF Init, StoreInit, QueueInv
<1>2. QueueInv => ReadyIsQueued
  BY DEF QueueInv, ReadyIsQueued
<1> QED BY <1>1, <1>2, InitTypes, TypesStep, QueueStep, PTL DEF Spec

-----------------------------------------------------------------------------
(* No channel is closed twice.                                             *)

\* A step that closes no channel and leaves the manager's map alone.
Closed(o) == o.closed

LEMMA ClosedFrame ==
    ASSUME ClosedOnce, Types, UNCHANGED <<known, reap>>,
           \A w \in Worker, i \in Index : Closed(obj'[<<w, i>>]) = Closed(obj[<<w, i>>])
    PROVE  ClosedOnce'
BY DEF ClosedOnce, Closed, Types, MemoryTypeOK

LEMMA ReleaseKeepsOpen ==
    ASSUME ObjTypeOK, NEW w \in Worker, NEW i \in Index, NEW t, ReleaseSlot(w, i, t)
    PROVE  \A v \in Worker, j \in Index : Closed(obj'[<<v, j>>]) = Closed(obj[<<v, j>>])
<1>1. Others(w, i) /\ obj'[<<w, i>>] = [obj[<<w, i>>] EXCEPT !.used = @ \ {t}]
  BY SMTT(30), ReleaseSlotFacts
<1>2. obj[<<w, i>>] \in ObjectRecord
  BY DEF ObjTypeOK
<1>3. Closed(obj'[<<w, i>>]) = Closed(obj[<<w, i>>])
  BY <1>1, <1>2 DEF Closed, ObjectRecord
<1> QED BY <1>1, <1>3 DEF Others

LEMMA ChannelKeepsOpen ==
    ASSUME ObjTypeOK, NEW w \in Worker, NEW i \in Index, NEW p \in Seq(Pair),
           obj' = [obj EXCEPT ![<<w, i>>].pending = p]
    PROVE  \A v \in Worker, j \in Index : Closed(obj'[<<v, j>>]) = Closed(obj[<<v, j>>])
<1>1. Others(w, i) /\ obj'[<<w, i>>] = [obj[<<w, i>>] EXCEPT !.pending = p]
  BY ChannelFacts
<1>2. obj[<<w, i>>] \in ObjectRecord
  BY DEF ObjTypeOK
<1>3. Closed(obj'[<<w, i>>]) = Closed(obj[<<w, i>>])
  BY <1>1, <1>2 DEF Closed, ObjectRecord
<1> QED BY <1>1, <1>3 DEF Others

LEMMA ReserveKeepsOpen ==
    ASSUME ObjTypeOK, NEW w \in Worker, NEW i \in Index, NEW t \in Task,
           obj' = [obj EXCEPT ![<<w, i>>].used = @ \union {t}]
    PROVE  \A v \in Worker, j \in Index : Closed(obj'[<<v, j>>]) = Closed(obj[<<v, j>>])
<1>1. Others(w, i) /\ obj'[<<w, i>>] = [obj[<<w, i>>] EXCEPT !.used = @ \union {t}]
  BY ReserveFacts
<1>2. obj[<<w, i>>] \in ObjectRecord
  BY DEF ObjTypeOK
<1>3. Closed(obj'[<<w, i>>]) = Closed(obj[<<w, i>>])
  BY <1>1, <1>2 DEF Closed, ObjectRecord
<1> QED BY <1>1, <1>3 DEF Others

LEMMA ClosedStep == Types /\ Locals /\ ClosedOnce /\ [Next]_vars => ClosedOnce'
<1> SUFFICES ASSUME Types, Locals, ClosedOnce, Next PROVE ClosedOnce'
  BY DEF vars, memoryVars, ClosedOnce
<1>1. /\ ObjTypeOK /\ MemoryTypeOK
      /\ \A w \in Worker, i \in Index : obj[<<w, i>>] \in ObjectRecord
      /\ \A w \in Worker : known[w] # 0 => known[w] \in Index
  BY DEF Types, ObjTypeOK, MemoryTypeOK
<1>2. CASE Restart
  BY <1>2 DEF Restart, Zero, ClosedOnce
<1>3. ASSUME UNCHANGED <<obj, known, reap>> PROVE ClosedOnce'
  BY <1>3 DEF ClosedOnce
<1>4. ASSUME NEW t \in Task, SubmitCall(t) \/ LeaseLapses(t) PROVE ClosedOnce'
  BY <1>3, <1>4 DEF SubmitCall, LeaseLapses, memoryVars
<1>5. ASSUME NEW w \in Worker, WorkerStep(w) PROVE ClosedOnce'
  <2>1. CASE RegisterMap(w)
    <3>1. PICK i \in Index : Refresh(w, i) /\ known' = [known EXCEPT ![w] = i] /\ reap' = reap
      BY <2>1 DEF RegisterMap
    <3>2. Others(w, i)
      BY <1>1, <3>1, RefreshFacts
    <3>3. ASSUME NEW v \in Worker, v # w, known'[v] # 0, obj'[<<v, known'[v]>>].closed PROVE reap'.w = v
      BY <1>1, <3>1, <3>2, <3>3 DEF ClosedOnce, Others, MemoryTypeOK
    <3>4. ASSUME obj'[<<w, i>>].closed PROVE known[w] = i /\ obj[<<w, i>>].closed
      <4>1. \/ i = known[w] /\ obj'[<<w, i>>] = [obj[<<w, i>>] EXCEPT !.online = TRUE]
            \/ obj'[<<w, i>>] = NewObject
        BY <1>1, <3>1, RefreshFacts
      <4> QED BY <1>1, <3>4, <4>1, NewObjectFacts DEF ObjectRecord
    <3>5. known'[w] = i
      BY <1>1, <3>1 DEF MemoryTypeOK
    <3> QED BY <3>1, <3>3, <3>4, <3>5 DEF ClosedOnce
  <2>2. ASSUME NEW arrives \in BOOLEAN, ClaimReceive(w, arrives) PROVE ClosedOnce'
    <3> DEFINE p == Tail(obj[<<w, poll[w]>>].pending)
    <3>1. poll[w] \in Index /\ obj[<<w, poll[w]>>].pending # <<>>
      BY <1>1, <2>2 DEF ClaimReceive, MemoryTypeOK
    <3>2. p \in Seq(Pair)
      BY SMTT(30), <1>1, <3>1 DEF ObjectRecord
    <3>3. obj' = [obj EXCEPT ![<<w, poll[w]>>].pending = p] /\ UNCHANGED <<known, reap>>
      BY <2>2 DEF ClaimReceive
    <3> HIDE DEF p
    <3> QED BY <1>1, <3>1, <3>2, <3>3, ChannelKeepsOpen, ClosedFrame
  <2>3. ASSUME NEW a \in Attempt, NEW answered \in BOOLEAN, CompleteRelease(w, a, answered)
        PROVE  ClosedOnce'
    <3>1. CASE ReleaseSlot(w, known[w], a[1]) /\ known[w] # 0 /\ UNCHANGED <<known, reap>>
      BY <1>1, <3>1, ReleaseKeepsOpen, ClosedFrame
    <3> QED BY <1>2, <2>3, <3>1 DEF CompleteRelease
  <2>4. CASE /\ ~RegisterMap(w) /\ ~\E arrives \in BOOLEAN : ClaimReceive(w, arrives)
             /\ ~\E a \in Attempt, answered \in BOOLEAN : CompleteRelease(w, a, answered)
    <3>1. Restart \/ UNCHANGED <<obj, known, reap>>
      BY <1>5, <2>4 DEF WorkerStep, RegisterAdd, RegisterUpsert, Heartbeat, Drain, Silence,
         ClaimGet, ClaimNothing, CompleteReport, RemoteDies, memoryVars
    <3> QED BY <1>2, <1>3, <3>1
  <2> QED BY <2>1, <2>2, <2>3, <2>4
<1>6. CASE SchedStep
  <2> DEFINE w == sched.w  i == sched.o  t == sched.t
  <2>1. Restart \/ UNCHANGED <<known, reap>>
    BY <1>6 DEF SchedStep, SchedPop, SchedPick, SchedReserve, SchedBegin, SchedCheck, SchedSend, SchedFrame
  <2>2. sched.pc \notin {"idle", "pick"} => w \in Worker /\ i \in Index /\ t \in Task
    BY <1>1 DEF Locals, MemoryTypeOK
  <2>3. ASSUME ReleaseSlot(w, i, t), sched.pc \notin {"idle", "pick"} PROVE ClosedOnce'
    BY <1>1, <1>2, <2>1, <2>2, <2>3, ReleaseKeepsOpen, ClosedFrame
  <2>4. CASE SchedReserve
    <3>1. ASSUME obj' = [obj EXCEPT ![<<w, i>>].used = @ \union {t}] PROVE ClosedOnce'
      <4>1. w \in Worker /\ i \in Index /\ t \in Task
        BY <2>2, <2>4 DEF SchedReserve
      <4> QED BY <1>1, <1>2, <2>1, <3>1, <4>1, ReserveKeepsOpen, ClosedFrame
    <3> QED BY <1>2, <1>3, <2>1, <2>4, <3>1 DEF SchedReserve
  <2>5. CASE SchedBegin \/ SchedCheck
    BY <1>2, <1>3, <2>1, <2>3, <2>5 DEF SchedBegin, SchedCheck
  <2>6. CASE SchedSend
    <3> DEFINE a == <<t, attempts[t]>>
               p == Append(obj[<<w, i>>].pending, a)
    <3>1. w \in Worker /\ i \in Index /\ t \in Task
      BY <2>2, <2>6 DEF SchedSend
    <3>2. a \in Pair
      BY <3>1 DEF Types, StoreInv, StoreTypeOK, Pair
    <3>3. p \in Seq(Pair)
      <4>1. obj[<<w, i>>].pending \in Seq(Pair)
        BY <1>1, <3>1 DEF ObjectRecord
      <4> QED BY <3>2, <4>1, AppendType
    <3>4. CASE Send(w, i, a)
      <4>1. obj' = [obj EXCEPT ![<<w, i>>].pending = p]
        BY <3>4 DEF Send
      <4> HIDE DEF p
      <4> QED BY <1>1, <1>2, <2>1, <3>1, <3>3, <4>1, ChannelKeepsOpen, ClosedFrame
    <3> QED BY <1>2, <2>3, <2>6, <3>4 DEF SchedSend
  <2>7. CASE (\E u \in Task : SchedPop(u)) \/ SchedPick
    BY <1>2, <1>3, <2>1, <2>7 DEF SchedPop, SchedPick
  <2> QED BY <1>6, <2>4, <2>5, <2>6, <2>7 DEF SchedStep
<1>7. CASE ReapStep
  <2>1. CASE ReapMark \/ ReapRemove \/ ReapReclaim \/ ReapPush
    <3>1. UNCHANGED <<obj, known>> /\ reap'.w = reap.w
      BY <1>1, <2>1 DEF ReapMark, ReapRemove, ReapReclaim, ReapPush, MemoryTypeOK
    <3> QED BY <3>1 DEF ClosedOnce
  <2>2. ASSUME NEW w \in Worker, ReapClose(w) PROVE ClosedOnce'
    <3>1. UNCHANGED known /\ reap'.w = w /\ reap.w = NoWorker
      BY <1>1, <2>2 DEF ReapClose, MemoryTypeOK, Locals
    <3>2. CASE known[w] = 0
      BY <2>2, <3>1, <3>2, NoneAssumption DEF ReapClose, ClosedOnce
    <3>3. CASE known[w] # 0
      <4>1. Others(w, known[w])
        BY <1>1, <2>2, <3>3, CloseFacts DEF ReapClose
      <4> QED BY <1>1, <3>1, <4>1, NoneAssumption DEF Others, ClosedOnce
    <3> QED BY <3>2, <3>3
  <2>3. CASE ReapDelete
    <3>1. UNCHANGED obj /\ known' = [known EXCEPT ![reap.w] = 0]
      BY <2>3 DEF ReapDelete
    <3> QED BY <1>1, <3>1 DEF MemoryTypeOK, ClosedOnce
  <2> QED BY <1>7, <2>1, <2>2, <2>3 DEF ReapStep
<1> QED BY <1>2, <1>4, <1>5, <1>6, <1>7 DEF Next, Crash

\* markOffline closes no channel twice, whatever registers in between
\* (WorkerOffline, Register).
THEOREM ChannelsClosedOnce == Spec => []ClosedOnce
<1>1. Init => ClosedOnce
  BY DEF Init, Zero, ClosedOnce
<1> QED BY <1>1, InitTypes, TypesStep, ClosedStep, PTL DEF Spec

-----------------------------------------------------------------------------
(* The invariant of a worker that kept its object.                         *)

\* What w was given and has not finished, handlers of its reports included.
Out(w) == Sent(w) \union held[w] \union closing[w]

Used(w) == obj[<<w, known[w]>>].used

\* A worker has one object, which everybody uses.
OneObject(w) ==
    /\ \A i \in Index : i # known[w] => obj[<<w, i>>] = Unborn
    /\ exec[w] \in {0, known[w]} /\ poll[w] \in {0, known[w]}
    /\ reg[w].pc # "idle" => reg[w].o = known[w]
    /\ sched.w = w => sched.o = known[w]
    /\ known[w] = 0 => Out(w) = {}
    /\ known[w] # 0 => IsInjective(obj[<<w, known[w]>>].pending)

\* Each task is with w at most once, on a slot, in the channel or with the
\* remote process; a task reserved by the scheduler is not.
OneEach(w) ==
    /\ \A a \in Out(w) : a[1] \in Used(w) /\ a[2] <= attempts[a[1]]
    /\ \A a, b \in Out(w) : a[1] = b[1] => a = b
    /\ Sent(w) \intersect (held[w] \union closing[w]) = {}
    /\ sched.w = w /\ sched.pc \in {"begin", "check", "send"} =>
          sched.t \in Used(w) /\ \A a \in Out(w) : a[1] # sched.t

\* What is not reported is undecided, and a row w owns is at the attempt w has.
Undecided(w, a) ==
    /\ attempts[a[1]] = a[2] => status[a[1]] = "ready" \/ Owns(a[1], w)
    /\ Owns(a[1], w) => attempts[a[1]] = a[2]

Current(w) ==
    /\ sched.w = w /\ sched.pc \in {"check", "send"} =>
          status[sched.t] = "ready" \/ Owns(sched.t, w)
    /\ \A a \in Open(w) : Undecided(w, a)

Served(w) == OneObject(w) /\ OneEach(w) /\ Current(w)

WorkerInv == \A w \in Worker \ replaced : Served(w)

StaleInv == stale \subseteq replaced /\ replaced \subseteq Worker

-----------------------------------------------------------------------------
(* One object, one slot, one attempt.                                      *)

LEMMA ReceiveFacts ==
    ASSUME NEW p \in Seq(Pair), p # <<>>, IsInjective(p)
    PROVE  /\ Head(p) \in Range(p) /\ Head(p) \in Pair /\ Tail(p) \in Seq(Pair)
           /\ Range(Tail(p)) = Range(p) \ {Head(p)} /\ IsInjective(Tail(p))
<1> DEFINE q == Tail(p)
<1>1. /\ Len(p) \in Nat /\ Len(p) >= 1 /\ DOMAIN p = 1..Len(p) /\ Head(p) = p[1] /\ Head(p) \in Pair
      /\ q \in Seq(Pair) /\ DOMAIN q = 1..(Len(p) - 1) /\ \A i \in 1..(Len(p) - 1) : q[i] = p[i + 1]
  BY SMTT(30)
<1> HIDE DEF q
<1>2. Head(p) \in Range(p)
  BY SMTT(30), <1>1 DEF Range
<1>3. IsInjective(q)
  <2>1. SUFFICES ASSUME NEW i \in DOMAIN q, NEW j \in DOMAIN q, q[i] = q[j] PROVE i = j
    BY DEF IsInjective
  <2>2. i \in 1..(Len(p) - 1) /\ j \in 1..(Len(p) - 1)
    BY <1>1
  <2>3. i + 1 \in DOMAIN p /\ j + 1 \in DOMAIN p /\ p[i + 1] = p[j + 1]
    BY SMTT(30), <1>1, <2>1, <2>2
  <2>4. i + 1 = j + 1
    BY <2>3 DEF IsInjective
  <2> QED BY SMTT(30), <2>2, <2>4
<1>4. ASSUME NEW a \in Range(q) PROVE a \in Range(p) /\ a # Head(p)
  <2>1. PICK i \in 1..(Len(p) - 1) : a = p[i + 1]
    BY <1>1 DEF Range
  <2>2. i + 1 \in DOMAIN p /\ 1 \in DOMAIN p /\ i + 1 # 1
    BY SMTT(30), <1>1
  <2> QED BY <1>1, <2>1, <2>2 DEF Range, IsInjective
<1>5. ASSUME NEW a \in Range(p), a # Head(p) PROVE a \in Range(q)
  <2>1. PICK i \in 1..Len(p) : a = p[i]
    BY <1>1 DEF Range
  <2>2. i # 1
    BY <1>1, <1>5, <2>1
  <2>3. i - 1 \in 1..(Len(p) - 1) /\ (i - 1) + 1 = i
    BY SMTT(30), <1>1, <2>2
  <2>4. q[i - 1] = a
    BY <1>1, <2>1, <2>3
  <2> QED BY <1>1, <2>3, <2>4 DEF Range
<1> QED BY <1>1, <1>2, <1>3, <1>4, <1>5 DEF q

LEMMA SendFacts ==
    ASSUME NEW p \in Seq(Pair), NEW a \in Pair, a \notin Range(p), IsInjective(p)
    PROVE  Range(Append(p, a)) = Range(p) \union {a} /\ IsInjective(Append(p, a))
<1> DEFINE q == Append(p, a)
<1>1. /\ Len(p) \in Nat /\ DOMAIN p = 1..Len(p) /\ DOMAIN q = 1..(Len(p) + 1)
      /\ \A i \in 1..Len(p) : q[i] = p[i]
      /\ q[Len(p) + 1] = a
  BY SMTT(30)
<1> HIDE DEF q
<1>2. \A i \in 1..(Len(p) + 1) : i \in 1..Len(p) \/ i = Len(p) + 1
  BY SMTT(30), <1>1
<1>3. \A i \in 1..Len(p) : p[i] # a
  BY <1>1 DEF Range
<1>4. IsInjective(q)
  BY <1>1, <1>2, <1>3 DEF IsInjective
<1>5. Range(q) = Range(p) \union {a}
  BY SMTT(30), <1>1, <1>2 DEF Range
<1> QED BY <1>4, <1>5 DEF q

\* The channels of all objects but one are empty.
LEMMA OneChannel ==
    ASSUME NEW f, NEW w, NEW k \in Index,
           \A i \in Index : i # k => f[<<w, i>>].pending = <<>>
    PROVE  UNION {Range(f[<<w, i>>].pending) : i \in Index} = Range(f[<<w, k>>].pending)
<1>1. Range(<<>>) = {}
  BY SMTT(30) DEF Range
<1>2. \A i \in Index : i # k => Range(f[<<w, i>>].pending) = {}
  BY <1>1
<1> QED BY <1>2

LEMMA ServedFacts ==
    ASSUME Types, Locals, NEW w \in Worker, OneObject(w)
    PROVE  /\ known[w] # 0 => /\ known[w] \in Index
                              /\ obj[<<w, known[w]>>] \in ObjectRecord
                              /\ Sent(w) = Range(obj[<<w, known[w]>>].pending)
           /\ known[w] = 0 => Sent(w) = {} /\ held[w] = {} /\ closing[w] = {}
           /\ sched.w = w => known[w] # 0 /\ sched.t \in Task
           /\ Out(w) \subseteq Pair
<1>1. MemoryTypeOK /\ ObjTypeOK
  BY DEF Types
<1>2. known[w] # 0 => known[w] \in Index /\ obj[<<w, known[w]>>] \in ObjectRecord
  BY <1>1 DEF MemoryTypeOK, ObjTypeOK
<1>3. ASSUME known[w] # 0 PROVE Sent(w) = Range(obj[<<w, known[w]>>].pending)
  <2> DEFINE k == known[w]
  <2>1. k \in Index /\ \A i \in Index : i # k => obj[<<w, i>>].pending = <<>>
    BY <1>2, <1>3, NewObjectFacts DEF OneObject
  <2> HIDE DEF k
  <2>2. UNION {Range(obj[<<w, i>>].pending) : i \in Index} = Range(obj[<<w, k>>].pending)
    BY <2>1, OneChannel
  <2> QED BY <2>2 DEF Sent, k
<1>4. known[w] = 0 => Sent(w) = {} /\ held[w] = {} /\ closing[w] = {}
  BY DEF OneObject, Out
<1>5. sched.w = w => known[w] # 0 /\ sched.t \in Task
  <2>1. SUFFICES ASSUME sched.w = w PROVE known[w] # 0 /\ sched.t \in Task
    OBVIOUS
  <2>2. sched.pc \notin {"idle", "pick"}
    BY <2>1, NoneAssumption DEF Locals
  <2>3. sched.o \in Index /\ sched.t \in Task
    BY <1>1, <2>2 DEF Locals, MemoryTypeOK
  <2>4. sched.o # 0
    BY SMTT(30), <2>3, ExternalAssumption DEF Index
  <2> QED BY <2>1, <2>3, <2>4 DEF OneObject
<1>6. Out(w) \subseteq Pair
  <2>1. Sent(w) \subseteq Pair
    <3>1. CASE known[w] = 0
      BY <1>4, <3>1
    <3>2. CASE known[w] # 0
      <4> DEFINE p == obj[<<w, known[w]>>].pending
      <4>1. p \in Seq(Pair)
        BY <1>2, <3>2 DEF ObjectRecord
      <4>2. Range(p) \subseteq Pair
        BY SMTT(30), <4>1 DEF Range
      <4> QED BY <1>3, <3>2, <4>2
    <3> QED BY <3>1, <3>2
  <2> QED BY <1>1, <2>1 DEF Out, MemoryTypeOK
<1> QED BY <1>2, <1>3, <1>4, <1>5, <1>6

\* What the scheduler may rely on while it serves w.
SchedServed(w) ==
    /\ sched.w = w => sched.o = known[w]
    /\ sched.w = w /\ sched.pc \in {"begin", "check", "send"} =>
          sched.t \in Used(w) /\ \A a \in Out(w) : a[1] # sched.t
    /\ sched.w = w /\ sched.pc \in {"check", "send"} => status[sched.t] = "ready" \/ Owns(sched.t, w)

\* What others do to a row: reclaim it, begin its next attempt, decide an
\* attempt of theirs.
RowKept(w, t) ==
    \/ /\ attempts'[t] = attempts[t]
       /\ \/ status'[t] = "ready"
          \/ status'[t] = status[t] /\ workerId'[t] = workerId[t]
          \/ status[t] = "running" /\ workerId[t] # w /\ status'[t] # "running"
    \/ attempts'[t] = attempts[t] + 1 /\ workerId'[t] # w

LEMMA LaterNumber == \A n, k \in Nat : n + 1 # n /\ (k <= n => n + 1 # k)
BY SMTT(30)

\* A step that gives w nothing new and decides nothing w has not reported.
LEMMA ServedStep ==
    ASSUME Types, Locals, NEW w \in Worker, Served(w), OneObject(w)', SchedServed(w)',
           Out(w)' \subseteq Out(w), Open(w)' \subseteq Open(w),
           Sent(w)' \intersect (held'[w] \union closing'[w]) = {},
           \A a \in Out(w)' : a[1] \in Used(w)',
           \A t \in Task : attempts'[t] \in {attempts[t], attempts[t] + 1},
           \A a \in Open(w)' : RowKept(w, a[1])
    PROVE  Served(w)'
<1>1. Out(w) \subseteq Pair /\ Open(w) \subseteq Out(w)
  BY ServedFacts DEF Served, Out, Open
<1>2. ASSUME NEW a \in Out(w)'
      PROVE  a \in Out(w) /\ a[1] \in Task /\ a[2] \in Nat /\ attempts[a[1]] \in Nat /\ a[2] <= attempts[a[1]]
  <2>1. a \in Out(w) /\ a[1] \in Task /\ a[2] \in Nat
    BY <1>1, <1>2 DEF Pair
  <2> QED BY <2>1 DEF Served, OneEach, Types, StoreInv, StoreTypeOK
<1>3. OneEach(w)'
  <2>1. \A a \in Out(w)' : a[2] <= attempts'[a[1]]
    BY SMTT(30), <1>2
  <2>2. \A a, b \in Out(w)' : a[1] = b[1] => a = b
    BY DEF Served, OneEach
  <2>3. sched'.w = w /\ sched'.pc \in {"begin", "check", "send"} =>
          sched'.t \in Used(w)' /\ \A a \in Out(w)' : a[1] # sched'.t
    BY DEF SchedServed
  <2> QED BY <2>1, <2>2, <2>3 DEF OneEach
<1>4. Current(w)'
  <2>1. ASSUME NEW a \in Open(w)' PROVE Undecided(w, a)'
    <3>1. a \in Open(w) /\ a \in Out(w)' /\ RowKept(w, a[1])
      BY <2>1 DEF Out, Open
    <3>2. Undecided(w, a) /\ a[2] \in Nat /\ attempts[a[1]] \in Nat /\ a[2] <= attempts[a[1]]
      BY <1>2, <3>1 DEF Served, Current
    <3>3. CASE attempts'[a[1]] = attempts[a[1]] + 1 /\ workerId'[a[1]] # w
      <4>1. attempts'[a[1]] # a[2]
        BY <3>2, <3>3, LaterNumber
      <4> QED BY <3>3, <4>1 DEF Undecided, Owns
    <3>4. CASE attempts'[a[1]] = attempts[a[1]]
      <4>1. \/ status'[a[1]] = "ready"
            \/ status'[a[1]] = status[a[1]] /\ workerId'[a[1]] = workerId[a[1]]
            \/ status[a[1]] = "running" /\ workerId[a[1]] # w /\ status'[a[1]] # "running"
        BY <3>1, <3>2, <3>4, LaterNumber DEF RowKept
      <4> QED BY <3>2, <3>4, <4>1 DEF Undecided, Owns
    <3> QED BY <3>1, <3>3, <3>4 DEF RowKept
  <2>2. \A a \in Open(w)' : Undecided(w, a)'
    BY <2>1
  <2> QED BY <2>2 DEF Current, SchedServed
<1> QED BY <1>3, <1>4 DEF Served

\* A step that leaves the channel of w and what w has alone.
Kept(w) ==
    /\ known'[w] = known[w]
    /\ \A i \in Index : i # known[w] => obj'[<<w, i>>] = obj[<<w, i>>]
    /\ known[w] # 0 => obj'[<<w, known[w]>>].pending = obj[<<w, known[w]>>].pending
    /\ exec'[w] \in {0, known[w]} /\ poll'[w] \in {0, known[w]}
    /\ reg'[w].pc # "idle" => reg'[w].o = known[w]
    /\ held'[w] \union closing'[w] \subseteq held[w] \union closing[w]
    /\ held'[w] \ closing'[w] \subseteq held[w] \ closing[w]

LEMMA KeptFacts ==
    ASSUME Types, Locals, NEW w \in Worker, Served(w), Kept(w), sched'.w = w => sched'.o = known[w]
    PROVE  /\ OneObject(w)' /\ Sent(w)' = Sent(w)
           /\ Out(w)' \subseteq Out(w) /\ Open(w)' \subseteq Open(w) /\ Open(w)' \subseteq Out(w)'
           /\ Sent(w)' \intersect (held'[w] \union closing'[w]) = {}
<1> DEFINE k == known[w]
<1>1. \A i \in Index : obj'[<<w, i>>].pending = obj[<<w, i>>].pending
  <2>1. 0 \notin Index
    BY SMTT(30), ExternalAssumption DEF Index
  <2> QED BY <2>1 DEF Kept
<1>2. Sent(w)' = Sent(w)
  BY <1>1 DEF Sent
<1>3. /\ held'[w] \union closing'[w] \subseteq held[w] \union closing[w]
      /\ held'[w] \ closing'[w] \subseteq held[w] \ closing[w]
  BY DEF Kept
<1>4. Out(w)' \subseteq Out(w) /\ Open(w)' \subseteq Open(w) /\ Open(w)' \subseteq Out(w)'
  BY <1>2, <1>3 DEF Out, Open
<1>5. Sent(w)' \intersect (held'[w] \union closing'[w]) = {}
  BY <1>2, <1>3 DEF Served, OneEach
<1>6. OneObject(w)'
  <2>1. \A i \in Index : i # known'[w] => obj'[<<w, i>>] = Unborn
    BY DEF Served, OneObject, Kept
  <2>2. sched'.w = w => sched'.o = known'[w]
    BY DEF Kept
  <2>3. known'[w] = 0 => Out(w)' = {}
    BY <1>4 DEF Served, OneObject, Kept
  <2>4. known'[w] # 0 => IsInjective(obj'[<<w, known'[w]>>].pending)
    BY DEF Served, OneObject, Kept
  <2> QED BY <2>1, <2>2, <2>3, <2>4 DEF OneObject, Kept
<1> QED BY <1>2, <1>4, <1>5, <1>6

\* The scheduler does not serve w, or is where it was.
LEMMA SchedStays ==
    ASSUME Types, Locals, NEW w \in Worker, Served(w), Out(w)' \subseteq Out(w),
           known'[w] = known[w],
           \/ sched'.w # w
           \/ /\ sched' = sched /\ attempts' = attempts
              /\ sched.t \in Used(w) => sched.t \in Used(w)'
              /\ sched.t \in Task => RowKept(w, sched.t)
    PROVE  SchedServed(w)'
<1> SUFFICES ASSUME sched'.w = w, sched' = sched, attempts' = attempts,
                    sched.t \in Used(w) => sched.t \in Used(w)',
                    sched.t \in Task => RowKept(w, sched.t)
             PROVE  SchedServed(w)'
  BY DEF SchedServed
<1> DEFINE t == sched.t
<1>1. t \in Task /\ attempts[t] \in Nat
  BY ServedFacts DEF Served, Types, StoreInv, StoreTypeOK
<1>2. sched'.o = known'[w]
  BY DEF Served, OneObject
<1>3. sched.pc \in {"begin", "check", "send"} => t \in Used(w)' /\ \A a \in Out(w)' : a[1] # t
  BY DEF Served, OneEach
<1>4. ASSUME sched.pc \in {"check", "send"} PROVE (status[sched.t] = "ready" \/ Owns(sched.t, w))'
  <2>1. status[t] = "ready" \/ (status[t] = "running" /\ workerId[t] = w)
    BY <1>4 DEF Served, Current, Owns
  <2>2. \/ status'[t] = "ready"
        \/ status'[t] = status[t] /\ workerId'[t] = workerId[t]
        \/ status[t] = "running" /\ workerId[t] # w
    BY <1>1, LaterNumber DEF RowKept
  <2>3. status'[t] = "ready" \/ (status'[t] = "running" /\ workerId'[t] = w)
    BY <2>1, <2>2
  <2> QED BY <2>3 DEF Owns
<1> QED BY <1>2, <1>3, <1>4 DEF SchedServed

\* A step that does not touch the slots of w either.
LEMMA Frame ==
    ASSUME Types, Locals, NEW w \in Worker, Served(w), Kept(w),
           known[w] # 0 => obj'[<<w, known[w]>>].used = obj[<<w, known[w]>>].used,
           \A t \in Task : RowKept(w, t),
           sched'.w # w \/ (sched' = sched /\ attempts' = attempts)
    PROVE  Served(w)'
<1>1. sched'.w = w => sched'.o = known[w]
  BY DEF Served, OneObject
<1>2. /\ OneObject(w)' /\ Sent(w)' = Sent(w)
      /\ Out(w)' \subseteq Out(w) /\ Open(w)' \subseteq Open(w) /\ Open(w)' \subseteq Out(w)'
      /\ Sent(w)' \intersect (held'[w] \union closing'[w]) = {}
  BY <1>1, KeptFacts
<1>3. known'[w] = known[w] /\ (known[w] # 0 => Used(w)' = Used(w))
  BY DEF Kept, Used
<1>4. \A a \in Out(w)' : a[1] \in Used(w)'
  BY <1>2, <1>3 DEF Served, OneObject, OneEach
<1>5. sched.w = w => known[w] # 0
  BY ServedFacts DEF Served
<1>6. SchedServed(w)'
  BY <1>2, <1>3, <1>5, SchedStays
<1>7. \A t \in Task : attempts'[t] \in {attempts[t], attempts[t] + 1}
  BY DEF RowKept
<1>8. \A a \in Open(w)' : RowKept(w, a[1])
  <2>1. Out(w) \subseteq Pair
    BY ServedFacts DEF Served
  <2> QED BY <1>2, <2>1 DEF Pair
<1> QED BY <1>2, <1>4, <1>6, <1>7, <1>8, ServedStep

\* The scheduler only touches the objects.
LEMMA SchedKeeps ==
    ASSUME Types, Locals, NEW w \in Worker, Served(w),
           UNCHANGED <<known, exec, reg, poll, held, closing>>,
           \A i \in Index : i # known[w] => obj'[<<w, i>>] = obj[<<w, i>>],
           known[w] # 0 => obj'[<<w, known[w]>>].pending = obj[<<w, known[w]>>].pending
    PROVE  Kept(w)
BY DEF Served, OneObject, Kept

-----------------------------------------------------------------------------
(* The scheduler.                                                          *)

\* A turn that ends by giving the slot back.
LEMMA ReleaseServed ==
    ASSUME Types, Locals, NEW w \in Worker, Served(w),
           UNCHANGED <<status, workerId, attempts, known, exec, reg, poll, held, closing>>,
           sched.pc \in {"begin", "check", "send"}, sched' = Idle,
           ReleaseSlot(sched.w, sched.o, sched.t)
    PROVE  Served(w)'
<1> DEFINE v == sched.w  i == sched.o  t == sched.t
<1>1. v \in Worker /\ i \in Index /\ sched'.w # w /\ ObjTypeOK
  BY NoneAssumption DEF Locals, Idle, Types
<1>2. Others(v, i) /\ obj'[<<v, i>>] = [obj[<<v, i>>] EXCEPT !.used = @ \ {t}]
  BY SMTT(30), <1>1, ReleaseSlotFacts
<1>3. obj[<<v, i>>] \in ObjectRecord
  BY <1>1 DEF ObjTypeOK
<1>4. obj'[<<v, i>>].used = obj[<<v, i>>].used \ {t} /\ obj'[<<v, i>>].pending = obj[<<v, i>>].pending
  BY <1>2, <1>3 DEF ObjectRecord
<1>5. \A u \in Task : RowKept(w, u)
  BY DEF RowKept
<1> HIDE DEF v, i, t
<1>6. CASE v # w
  <2>1. \A j \in Index : obj'[<<w, j>>] = obj[<<w, j>>]
    BY <1>1, <1>2, <1>6 DEF Others
  <2>2. known[w] # 0 => known[w] \in Index
    BY ServedFacts DEF Served
  <2>3. Kept(w)
    BY <2>1, <2>2, SchedKeeps
  <2> QED BY <1>1, <1>5, <2>1, <2>2, <2>3, Frame
<1>7. CASE v = w
  <2>1. i = known[w]
    BY <1>7 DEF Served, OneObject, v, i
  <2>2. Kept(w)
    BY <1>1, <1>2, <1>4, <1>7, <2>1, SchedKeeps DEF Others
  <2>3. /\ OneObject(w)' /\ Out(w)' \subseteq Out(w) /\ Open(w)' \subseteq Open(w) /\ Open(w)' \subseteq Out(w)'
        /\ Sent(w)' \intersect (held'[w] \union closing'[w]) = {}
    BY <1>1, <2>2, KeptFacts
  <2>4. SchedServed(w)'
    BY <1>1, <2>3, SchedStays
  <2>5. \A a \in Out(w)' : a[1] \in Used(w)'
    <3>1. Used(w)' = Used(w) \ {t}
      BY <1>4, <1>7, <2>1 DEF Used
    <3>2. \A a \in Out(w) : a[1] \in Used(w) /\ a[1] # t
      BY <1>7 DEF Served, OneEach, v, t
    <3> QED BY <2>3, <3>1, <3>2
  <2>6. \A a \in Open(w)' : RowKept(w, a[1])
    BY DEF RowKept
  <2> QED BY <2>3, <2>4, <2>5, <2>6, ServedStep
<1> QED BY <1>6, <1>7

LEMMA PickServed ==
    ASSUME Types, Locals, NEW w \in Worker, Served(w), SchedPick
    PROVE  Served(w)'
<1>1. UNCHANGED <<status, workerId, attempts, obj, known, exec, reg, poll, held, closing>>
  BY DEF SchedPick, SchedFrame, remoteVars, storeVars
<1>2. Kept(w)
  BY <1>1, SchedKeeps
<1>3. \A t \in Task : RowKept(w, t)
  BY <1>1 DEF RowKept
<1>4. CASE sched'.w # w
  BY <1>1, <1>2, <1>3, <1>4, Frame
<1>5. CASE sched'.w = w
  <2>1. sched'.pc = "reserve" /\ sched'.o = exec[w] /\ exec[w] # 0
    <3>1. PICK v \in Candidates : sched' = [sched EXCEPT !.pc = "reserve", !.w = v, !.o = exec[v]]
      <4>1. ~Requeue
        BY SMTT(30), <1>5, NoneAssumption DEF Requeue, Idle
      <4> QED BY <4>1 DEF SchedPick
    <3> QED BY <1>5, <3>1 DEF Types, MemoryTypeOK, Candidates
  <2>2. sched'.o = known[w]
    BY <2>1 DEF Served, OneObject
  <2>3. /\ OneObject(w)' /\ Out(w)' \subseteq Out(w) /\ Open(w)' \subseteq Open(w) /\ Open(w)' \subseteq Out(w)'
        /\ Sent(w)' \intersect (held'[w] \union closing'[w]) = {}
    BY <1>2, <2>2, KeptFacts
  <2>4. SchedServed(w)'
    BY <1>1, <2>1, <2>2 DEF SchedServed
  <2>5. \A a \in Out(w)' : a[1] \in Used(w)'
    BY <1>1, <2>3 DEF Used, Served, OneEach
  <2>6. \A a \in Open(w)' : RowKept(w, a[1])
    BY <1>1 DEF RowKept
  <2> QED BY <1>1, <2>3, <2>4, <2>5, <2>6, ServedStep
<1> QED BY <1>4, <1>5

LEMMA ReserveServed ==
    ASSUME Types, Locals, NEW w \in Worker, Served(w), SchedReserve
    PROVE  Served(w)'
<1> DEFINE v == sched.w  i == sched.o  t == sched.t
<1>1. v \in Worker /\ i \in Index /\ t \in Task /\ ObjTypeOK /\ MemoryTypeOK
  BY DEF SchedReserve, Locals, Types
<1>2. UNCHANGED <<status, workerId, attempts, known, exec, reg, poll, held, closing>>
  BY DEF SchedReserve, SchedFrame, remoteVars, storeVars
<1>3. \A u \in Task : RowKept(w, u)
  BY <1>2 DEF RowKept
<1>4. CASE Requeue /\ UNCHANGED obj
  <2>1. sched'.w # w
    BY <1>4, NoneAssumption DEF Requeue, Idle
  <2> QED BY <1>2, <1>3, <1>4, <2>1, SchedKeeps, Frame
<1>5. CASE /\ t \notin obj[<<v, i>>].used
           /\ obj' = [obj EXCEPT ![<<v, i>>].used = @ \union {t}]
           /\ sched' = [sched EXCEPT !.pc = "begin"]
  <2>0. obj' = [obj EXCEPT ![<<v, i>>].used = @ \union {t}]
    BY <1>5
  <2>1. Others(v, i) /\ obj'[<<v, i>>] = [obj[<<v, i>>] EXCEPT !.used = @ \union {t}]
    <3> HIDE DEF v, i, t
    <3> QED BY <1>1, <2>0, ReserveFacts
  <2>2. obj[<<v, i>>] \in ObjectRecord
    BY <1>1 DEF ObjTypeOK
  <2>3. obj'[<<v, i>>].used = obj[<<v, i>>].used \union {t} /\ obj'[<<v, i>>].pending = obj[<<v, i>>].pending
    BY <2>1, <2>2 DEF ObjectRecord
  <2>4. sched'.w = v /\ sched'.o = i /\ sched'.t = t /\ sched'.pc = "begin"
    BY <1>1, <1>5 DEF MemoryTypeOK
  <2>5. t \notin obj[<<v, i>>].used
    BY <1>5
  <2> HIDE DEF v, i, t
  <2>6. CASE v # w
    <3>1. \A j \in Index : obj'[<<w, j>>] = obj[<<w, j>>]
      BY <1>1, <2>1, <2>6 DEF Others
    <3>2. known[w] # 0 => known[w] \in Index
      BY ServedFacts DEF Served
    <3>3. Kept(w)
      BY <1>2, <3>1, <3>2, SchedKeeps
    <3> QED BY <1>3, <2>4, <2>6, <3>1, <3>2, <3>3, Frame
  <2>7. CASE v = w
    <3>1. i = known[w]
      BY <2>7 DEF Served, OneObject, v, i
    <3>2. Kept(w)
      BY <1>1, <1>2, <2>1, <2>3, <2>7, <3>1, SchedKeeps DEF Others
    <3>3. /\ OneObject(w)' /\ Out(w)' \subseteq Out(w) /\ Open(w)' \subseteq Open(w) /\ Open(w)' \subseteq Out(w)'
          /\ Sent(w)' \intersect (held'[w] \union closing'[w]) = {}
      BY <2>4, <3>1, <3>2, KeptFacts
    <3>4. Used(w)' = Used(w) \union {t} /\ t \notin Used(w)
      BY <1>2, <2>3, <2>5, <2>7, <3>1 DEF Used
    <3>5. \A a \in Out(w) : a[1] \in Used(w)
      BY DEF Served, OneEach
    <3>6. SchedServed(w)'
      BY <1>2, <2>4, <3>1, <3>3, <3>4, <3>5 DEF SchedServed
    <3>7. \A a \in Out(w)' : a[1] \in Used(w)'
      BY <3>3, <3>4, <3>5
    <3>8. \A a \in Open(w)' : RowKept(w, a[1])
      BY <1>2 DEF RowKept
    <3> QED BY <1>2, <3>3, <3>6, <3>7, <3>8, ServedStep
  <2> QED BY <2>6, <2>7
<1> QED BY <1>4, <1>5 DEF SchedReserve, Reservable

\* w itself begins an attempt: it has no other of that task.
LEMMA BeginServed ==
    ASSUME Types, Locals, NEW w \in Worker, Served(w), SchedBegin
    PROVE  Served(w)'
<1> DEFINE v == sched.w  i == sched.o  t == sched.t
<1>1. v \in Worker /\ i \in Index /\ t \in Task /\ sched.pc = "begin" /\ MemoryTypeOK /\ StoreTypeOK
  BY DEF SchedBegin, Locals, Types, StoreInv
<1>2. UNCHANGED <<known, exec, reg, poll, held, closing>>
  BY DEF SchedBegin, SchedFrame, remoteVars
<1>3. CASE ReleaseSlot(v, i, t) /\ sched' = Idle /\ UNCHANGED storeVars
  BY <1>1, <1>2, <1>3, ReleaseServed DEF storeVars
<1>4. CASE BeginAttempt(t, v) /\ sched' = [sched EXCEPT !.pc = "check"] /\ UNCHANGED obj
  <2>1. sched'.w = v /\ sched'.o = i /\ sched'.t = t /\ sched'.pc = "check"
    BY <1>1, <1>4 DEF MemoryTypeOK
  <2>2. /\ attempts'[t] = attempts[t] + 1 /\ workerId'[t] = v /\ status'[t] = "running"
        /\ \A u \in Task : u # t => /\ attempts'[u] = attempts[u]
                                    /\ status'[u] = status[u] /\ workerId'[u] = workerId[u]
    BY <1>1, <1>4 DEF BeginAttempt, StoreTypeOK
  <2>3. obj' = obj /\ Kept(w)
    BY <1>2, <1>4, SchedKeeps
  <2> HIDE DEF v, i, t
  <2>4. CASE v # w
    <3>1. \A u \in Task : RowKept(w, u)
      BY <1>1, <2>2, <2>4 DEF RowKept
    <3> QED BY <2>1, <2>3, <2>4, <3>1, Frame
  <2>5. CASE v = w
    <3>1. i = known[w]
      BY <2>5 DEF Served, OneObject, v, i
    <3>2. /\ OneObject(w)' /\ Out(w)' \subseteq Out(w) /\ Open(w)' \subseteq Open(w) /\ Open(w)' \subseteq Out(w)'
          /\ Sent(w)' \intersect (held'[w] \union closing'[w]) = {}
      BY <2>1, <2>3, <3>1, KeptFacts
    <3>3. Used(w)' = Used(w)
      BY <1>2, <2>3 DEF Used
    <3>4. t \in Used(w) /\ (\A a \in Out(w) : a[1] \in Used(w) /\ a[1] # t) /\ Out(w) \subseteq Pair
      BY <1>1, <2>5, ServedFacts DEF Served, OneEach, v, t
    <3>5. Owns(sched.t, w)'
      BY <2>1, <2>2, <2>5 DEF Owns
    <3>6. SchedServed(w)'
      BY <1>2, <2>1, <3>1, <3>2, <3>3, <3>4, <3>5 DEF SchedServed
    <3>7. \A a \in Out(w)' : a[1] \in Used(w)'
      BY <3>2, <3>3, <3>4
    <3>8. \A a \in Open(w)' : RowKept(w, a[1])
      <4> SUFFICES ASSUME NEW a \in Open(w)' PROVE RowKept(w, a[1])
        OBVIOUS
      <4>1. a[1] \in Task /\ a[1] # t
        BY <3>2, <3>4 DEF Pair
      <4> QED BY <2>2, <4>1 DEF RowKept
    <3>9. \A u \in Task : attempts'[u] \in {attempts[u], attempts[u] + 1}
      BY <2>2
    <3> QED BY <3>2, <3>6, <3>7, <3>8, <3>9, ServedStep
  <2> QED BY <2>4, <2>5
<1> QED BY <1>3, <1>4 DEF SchedBegin

LEMMA CheckServed ==
    ASSUME Types, Locals, NEW w \in Worker, Served(w), SchedCheck
    PROVE  Served(w)'
<1>1. UNCHANGED <<status, workerId, attempts, known, exec, reg, poll, held, closing>>
  BY DEF SchedCheck, SchedFrame, remoteVars, storeVars
<1>2. sched.pc = "check" /\ MemoryTypeOK
  BY DEF SchedCheck, Types
<1>3. CASE Requeue /\ ReleaseSlot(sched.w, sched.o, sched.t)
  BY <1>1, <1>2, <1>3, ReleaseServed DEF Requeue
<1>4. CASE sched' = [sched EXCEPT !.pc = "send"] /\ UNCHANGED obj
  <2>1. sched'.w = sched.w /\ sched'.o = sched.o /\ sched'.t = sched.t /\ sched'.pc = "send"
    BY <1>2, <1>4 DEF MemoryTypeOK
  <2>2. obj' = obj /\ Kept(w)
    BY <1>1, <1>4, SchedKeeps
  <2>3. /\ OneObject(w)' /\ Out(w)' \subseteq Out(w) /\ Open(w)' \subseteq Open(w) /\ Open(w)' \subseteq Out(w)'
        /\ Sent(w)' \intersect (held'[w] \union closing'[w]) = {}
    BY <2>1, <2>2, KeptFacts DEF Served, OneObject
  <2>4. Used(w)' = Used(w)
    BY <1>1, <2>2 DEF Used
  <2>5. sched.w = w => (status[sched.t] = "ready" \/ Owns(sched.t, w))'
    BY <1>1, <1>2, <2>1 DEF Served, Current, Owns
  <2>6. sched'.w = w => sched'.o = known'[w]
    BY <1>1, <2>1 DEF Served, OneObject
  <2>7. sched'.w = w => sched'.t \in Used(w)' /\ \A a \in Out(w)' : a[1] # sched'.t
    BY <1>2, <2>1, <2>3, <2>4 DEF Served, OneEach
  <2>8. SchedServed(w)'
    BY <2>1, <2>5, <2>6, <2>7 DEF SchedServed
  <2>9. \A a \in Out(w)' : a[1] \in Used(w)'
    BY <2>3, <2>4 DEF Served, OneEach
  <2>10. \A a \in Open(w)' : RowKept(w, a[1])
    BY <1>1 DEF RowKept
  <2> QED BY <1>1, <2>3, <2>8, <2>9, <2>10, ServedStep
<1> QED BY <1>3, <1>4 DEF SchedCheck

\* The attempt goes to the channel: it is the first of its task there.
LEMMA SendServed ==
    ASSUME Types, Locals, NEW w \in Worker, Served(w), SchedSend, ~Restart
    PROVE  Served(w)'
<1> DEFINE v == sched.w  i == sched.o  t == sched.t
           a == <<t, attempts[t]>>
           p == obj[<<v, i>>].pending
           q == Append(p, a)
<1>1. v \in Worker /\ i \in Index /\ t \in Task /\ sched.pc = "send" /\ ObjTypeOK /\ attempts[t] \in Nat
  BY DEF SchedSend, Locals, Types, StoreInv, StoreTypeOK
<1>2. UNCHANGED <<status, workerId, attempts, known, exec, reg, poll, held, closing>>
  BY DEF SchedSend, SchedFrame, remoteVars, storeVars
<1>3. CASE Requeue /\ ReleaseSlot(v, i, t)
  BY <1>1, <1>2, <1>3, ReleaseServed DEF Requeue
<1>4. CASE Send(v, i, a) /\ sched' = Idle
  <2>1. obj' = [obj EXCEPT ![<<v, i>>].pending = q] /\ sched'.w # w
    BY <1>4, NoneAssumption DEF Send, Idle
  <2>2. obj[<<v, i>>] \in ObjectRecord /\ p \in Seq(Pair) /\ a \in Pair /\ a[1] = t /\ a[2] = attempts[t]
    BY <1>1 DEF ObjTypeOK, ObjectRecord, Pair
  <2>3. q \in Seq(Pair)
    BY SMTT(30), <2>2
  <2> HIDE DEF v, i, t, p, q, a
  <2>4. Others(v, i) /\ obj'[<<v, i>>] = [obj[<<v, i>>] EXCEPT !.pending = q]
    <3>1. ObjTypeOK /\ v \in Worker /\ i \in Index
      BY <1>1
    <3>2. obj' = [obj EXCEPT ![<<v, i>>].pending = q]
      BY <2>1
    <3> QED BY <2>3, <3>1, <3>2, ChannelFacts
  <2>5. obj'[<<v, i>>].pending = q /\ obj'[<<v, i>>].used = obj[<<v, i>>].used
    BY <2>2, <2>4 DEF ObjectRecord
  <2>6. CASE v # w
    <3>1. \A j \in Index : obj'[<<w, j>>] = obj[<<w, j>>]
      BY <1>1, <2>4, <2>6 DEF Others
    <3>2. known[w] # 0 => known[w] \in Index
      BY ServedFacts DEF Served
    <3>3. Kept(w)
      BY <1>2, <3>1, <3>2, SchedKeeps
    <3>4. \A u \in Task : RowKept(w, u)
      BY <1>2 DEF RowKept
    <3> QED BY <2>1, <3>1, <3>2, <3>3, <3>4, Frame
  <2>7. CASE v = w
    <3>1. i = known[w] /\ known[w] # 0 /\ known'[w] = i
      BY <1>2, <2>7, ServedFacts DEF Served, OneObject, v, i
    <3>2. Sent(w) = Range(p) /\ Out(w) \subseteq Pair /\ IsInjective(p)
      BY <2>7, <3>1, ServedFacts DEF Served, OneObject, p
    <3>3. t \in Used(w) /\ \A b \in Out(w) : b[1] \in Used(w) /\ b[1] # t
      BY <1>1, <2>7 DEF Served, OneEach, v, t
    <3>4. a \notin Out(w)
      BY <2>2, <3>3
    <3>5. a \notin Range(p)
      BY <3>2, <3>4 DEF Out
    <3>6. Range(q) = Range(p) \union {a} /\ IsInjective(q)
      BY <2>2, <3>2, <3>5, SendFacts DEF q
    <3>7. \A j \in Index : j # i => obj'[<<w, j>>] = Unborn
      BY <1>1, <2>4, <2>7, <3>1 DEF Others, Served, OneObject
    <3>8. Sent(w)' = Sent(w) \union {a}
      <4>1. \A j \in Index : j # i => obj'[<<w, j>>].pending = <<>>
        BY <3>7, NewObjectFacts
      <4>2. Sent(w)' = Range(obj'[<<w, i>>].pending)
        BY <1>1, <4>1, OneChannel DEF Sent
      <4> QED BY <2>5, <2>7, <3>2, <3>6, <4>2
    <3>9. Out(w)' = Out(w) \union {a} /\ Open(w)' = Open(w) \union {a}
      BY <1>2, <3>8 DEF Out, Open
    <3>10. Used(w)' = Used(w)
      BY <2>5, <2>7, <3>1 DEF Used
    <3>11. OneObject(w)'
      <4>1. exec'[w] \in {0, known'[w]} /\ poll'[w] \in {0, known'[w]} /\ (reg'[w].pc # "idle" => reg'[w].o = known'[w])
        BY <1>2 DEF Served, OneObject
      <4> QED BY <2>1, <2>5, <2>7, <3>1, <3>6, <3>7, <4>1 DEF OneObject
    <3>12. OneEach(w)'
      <4>1. ASSUME NEW b \in Out(w)' PROVE b[1] \in Used(w)' /\ b[2] <= attempts'[b[1]]
        <5>1. CASE b \in Out(w)
          BY <1>2, <3>10, <5>1 DEF Served, OneEach
        <5>2. CASE b = a
          <6>1. b[1] = t /\ b[2] = attempts'[t]
            BY <1>2, <2>2, <5>2
          <6>2. attempts'[t] \in Nat /\ attempts'[t] <= attempts'[t]
            BY SMTT(30), <1>1, <1>2
          <6> QED BY <3>3, <3>10, <6>1, <6>2
        <5> QED BY <3>9, <5>1, <5>2
      <4>2. \A b, c \in Out(w)' : b[1] = c[1] => b = c
        BY <2>2, <3>3, <3>9 DEF Served, OneEach
      <4>3. Sent(w)' \intersect (held'[w] \union closing'[w]) = {}
        BY <1>2, <3>4, <3>8 DEF Served, OneEach, Out
      <4> QED BY <2>1, <4>1, <4>2, <4>3 DEF OneEach
    <3>13. Current(w)'
      <4>1. ASSUME NEW b, b = a PROVE Undecided(w, b)'
        <5>1. status[b[1]] = "ready" \/ Owns(b[1], w)
          BY <1>1, <2>2, <2>7, <4>1 DEF Served, Current, v, t
        <5>2. attempts[b[1]] = b[2]
          BY <2>2, <4>1
        <5> QED BY <1>2, <5>1, <5>2 DEF Undecided, Owns
      <4>2. ASSUME NEW b \in Open(w) PROVE Undecided(w, b)'
        <5>1. Undecided(w, b)
          BY DEF Served, Current
        <5> QED BY <1>2, <5>1 DEF Undecided, Owns
      <4>3. \A b \in Open(w)' : Undecided(w, b)'
        BY <3>9, <4>1, <4>2
      <4> QED BY <2>1, <4>3 DEF Current
    <3> QED BY <3>11, <3>12, <3>13 DEF Served
  <2> QED BY <2>6, <2>7
<1> QED BY <1>3, <1>4 DEF SchedSend

LEMMA SchedServes ==
    ASSUME Types, Locals, NEW w \in Worker, Served(w), SchedStep, ~Restart
    PROVE  Served(w)'
<1>1. ASSUME NEW t \in Task, SchedPop(t) PROVE Served(w)'
  <2>1. UNCHANGED <<status, workerId, attempts, obj, known, exec, reg, poll, held, closing>>
    BY <1>1 DEF SchedPop, SchedFrame, remoteVars, storeVars
  <2>2. sched'.w # w
    BY <1>1, NoneAssumption DEF SchedPop, Idle
  <2>3. \A u \in Task : RowKept(w, u)
    BY <2>1 DEF RowKept
  <2> QED BY <2>1, <2>2, <2>3, SchedKeeps, Frame
<1> QED BY <1>1, PickServed, ReserveServed, BeginServed, CheckServed, SendServed DEF SchedStep
=============================================================================
