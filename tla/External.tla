------------------------------ MODULE External ------------------------------
(***************************************************************************)
(* External workers: runtime/external.go and api/external.go composed with *)
(* submission, dispatch, the reaper and the remote processes.              *)
(*                                                                         *)
(* Kept from the other parts: dispatchOne without preemption, ReapOnce,    *)
(* and starting again as one step (AsyncFlow has their detail).  Tasks     *)
(* have one priority and no retries.  The running map of the manager is    *)
(* read by preemption and views only and is left out.  A panic in an HTTP  *)
(* handler or in a loop is not recovered anywhere and ends the process.    *)
(***************************************************************************)
EXTENDS Submission, Functions

CONSTANTS
    Slots,         \* Slots[w]: the slots w registers with
    MaxObjects,    \* bound: ExternalWorker objects per worker and process
    MaxAttempts,   \* bound: attempts per task
    MaxTroubles    \* bound: disturbances

ASSUME ExternalAssumption ==
    /\ Slots \in [Worker -> Nat \ {0}]
    /\ MaxObjects \in Nat /\ MaxAttempts \in Nat /\ MaxTroubles \in Nat

VARIABLES
    obj,        \* the ExternalWorker objects
    known,      \* m.workers: the object of w, 0 if none
    exec,       \* the scheduler's registry: the object of w, 0 if none
    row,        \* workers.status
    fresh,      \* workers.last_heartbeat is recent
    reg,        \* the Register call of w
    poll,       \* the object on which a claim of w waits, 0 if none
    held,       \* attempts the remote process of w is executing
    closing,    \* attempts of w in completeTask, after ReportResult
    sched,      \* the scheduler's locals
    reap,       \* the reaper's locals
    troubles,   \* disturbances so far
    replaced,   \* history: workers that lost an object or repeated a request
    stale       \* history: workers whose report decided an attempt they had not run

memoryVars == <<obj, known, exec, reg, poll, closing, sched, reap>>
remoteVars == <<row, fresh, held>>
historyVars == <<replaced, stale>>
vars == <<storeVars, submissionVars, memoryVars, remoteVars, historyVars, troubles>>

Index == 1..MaxObjects
Attempt == Task \X (1..MaxAttempts)

Unborn == [born |-> FALSE, used |-> {}, pending |-> <<>>, online |-> FALSE, closed |-> FALSE]
NewObject == [born |-> TRUE, used |-> {}, pending |-> <<>>, online |-> TRUE, closed |-> FALSE]

Idle == [pc |-> "idle", t |-> NoTask, w |-> NoWorker, o |-> 0]

\* The process's memory when it starts.
NoObjects == [o \in Worker \X Index |-> Unborn]
Zero == [w \in Worker |-> 0]
Nothing == [w \in Worker |-> {}]
NoCall == [w \in Worker |-> [pc |-> "idle", o |-> 0]]
NoPass == [pc |-> "idle", todo |-> {}, w |-> NoWorker, ids |-> {}]

Init ==
    /\ StoreInit /\ SubmissionInit
    /\ obj = NoObjects /\ known = Zero /\ exec = Zero /\ reg = NoCall /\ poll = Zero
    /\ closing = Nothing /\ sched = Idle /\ reap = NoPass
    /\ row = [w \in Worker |-> "none"]
    /\ fresh = [w \in Worker |-> FALSE]
    /\ held = Nothing
    /\ troubles = 0
    /\ replaced = {} /\ stale = {}

Trouble == troubles < MaxTroubles /\ troubles' = troubles + 1

\* The process ends and starts again: objects and handlers are gone, running
\* rows become ready, ready rows are pushed.  Remote processes go on.
Restart ==
    /\ RecoverInflight
    /\ ready' = ready \union {t \in Task : status[t] \in {"ready", "running"}}
    /\ sub' = [t \in Task |-> IF t \in Submitting THEN [pc |-> "failed", got |-> NoTask] ELSE sub[t]]
    /\ obj' = NoObjects /\ known' = Zero /\ exec' = Zero /\ reg' = NoCall /\ poll' = Zero
    /\ closing' = Nothing /\ sched' = Idle /\ reap' = NoPass
    /\ replaced' = Worker
    /\ UNCHANGED <<key, remoteVars, stale>>

Crash == Trouble /\ Restart

-----------------------------------------------------------------------------
(* Registration and heartbeats.                                            *)

\* A new object, or the known one set online again, even if its channel was
\* closed meanwhile.
Refresh(w, i) ==
    \/ i = known[w] /\ obj' = [obj EXCEPT ![<<w, i>>].online = TRUE]
    \/ /\ known[w] = 0
       /\ ~obj[<<w, i>>].born /\ \A j \in 1..(i - 1) : obj[<<w, j>>].born
       /\ obj' = [obj EXCEPT ![<<w, i>>] = NewObject]

\* Register under m.mu.
RegisterMap(w) ==
    /\ reg[w].pc = "idle"
    /\ \E i \in Index :
          /\ Refresh(w, i)
          /\ known' = [known EXCEPT ![w] = i]
          /\ reg' = [reg EXCEPT ![w] = [pc |-> "upsert", o |-> i]]
    /\ UNCHANGED <<storeVars, submissionVars, remoteVars, historyVars, troubles,
                   exec, poll, closing, sched, reap>>

\* UpsertWorker; its failure leaves the object in the manager only.
RegisterUpsert(w, ok) ==
    /\ reg[w].pc = "upsert"
    /\ IF ok
       THEN /\ row' = [row EXCEPT ![w] = "online"]
            /\ fresh' = [fresh EXCEPT ![w] = TRUE]
            /\ reg' = [reg EXCEPT ![w].pc = "add"]
            /\ UNCHANGED troubles
       ELSE /\ Trouble
            /\ reg' = [reg EXCEPT ![w].pc = "idle"]
            /\ UNCHANGED <<row, fresh>>
    /\ UNCHANGED <<storeVars, submissionVars, historyVars, obj, known, exec, poll, closing,
                   sched, reap, held>>

\* OnRegister: the scheduler learns of the executor.
RegisterAdd(w) ==
    /\ reg[w].pc = "add"
    /\ exec' = [exec EXCEPT ![w] = reg[w].o]
    /\ reg' = [reg EXCEPT ![w].pc = "idle"]
    /\ UNCHANGED <<storeVars, submissionVars, remoteVars, historyVars, troubles,
                   obj, known, poll, closing, sched, reap>>

\* store.Heartbeat, for a worker the manager knows; draining is overwritten.
Beat(w) ==
    IF known[w] = 0 THEN UNCHANGED <<row, fresh>>
    ELSE row' = [row EXCEPT ![w] = "online"] /\ fresh' = [fresh EXCEPT ![w] = TRUE]

Heartbeat(w) ==
    /\ known[w] # 0
    /\ Beat(w)
    /\ UNCHANGED <<storeVars, submissionVars, memoryVars, historyVars, troubles, held>>

\* MarkWorkerDraining: nothing but views reads the status.
Drain(w) ==
    /\ row[w] # "none"
    /\ Trouble
    /\ row' = [row EXCEPT ![w] = "draining"]
    /\ UNCHANGED <<storeVars, submissionVars, memoryVars, historyVars, fresh, held>>

\* No heartbeat of w for the time limit.
Silence(w) ==
    /\ fresh[w]
    /\ Trouble
    /\ fresh' = [fresh EXCEPT ![w] = FALSE]
    /\ UNCHANGED <<storeVars, submissionVars, memoryVars, historyVars, row, held>>

-----------------------------------------------------------------------------
(* Dispatch.                                                               *)

CanHandle(w, i) == obj[<<w, i>>].online /\ Cardinality(obj[<<w, i>>].used) < Slots[w]

Candidates == {w \in Worker : exec[w] # 0 /\ CanHandle(w, exec[w])}

ReleaseSlot(w, i, t) == obj' = [obj EXCEPT ![<<w, i>>].used = @ \ {t}]

\* Mutant: the id is not given back.
Forget == sched' = Idle /\ UNCHANGED ready

\* The scheduler gives the id back and ends the turn.
Requeue == ready' = ready \union {sched.t} /\ sched' = Idle

SchedFrame ==
    UNCHANGED <<key, sub, remoteVars, historyVars, troubles, known, exec, reg, poll, closing, reap>>

\* availableFor, Dequeue, GetTask.
SchedPop(t) ==
    /\ sched.pc = "idle"
    /\ Candidates # {}
    /\ t \in ready
    /\ ready' = ready \ {t}
    /\ sched' = [Idle EXCEPT !.pc = "pick", !.t = t]
    /\ SchedFrame /\ UNCHANGED <<storeVars, obj>>

\* registry.pick
SchedPick ==
    /\ sched.pc = "pick"
    /\ \/ /\ \E w \in Candidates : sched' = [sched EXCEPT !.pc = "reserve", !.w = w, !.o = exec[w]]
          /\ UNCHANGED ready
       \/ Candidates = {} /\ Requeue
    /\ SchedFrame /\ UNCHANGED <<storeVars, obj>>

\* Mutant: a task already reserved here is accepted again.
ReserveTwice(w, i, t) == CanHandle(w, i)

\* ReserveSlot's test.
Reservable(w, i, t) == CanHandle(w, i) /\ t \notin obj[<<w, i>>].used

SchedReserve ==
    /\ sched.pc = "reserve"
    /\ IF Reservable(sched.w, sched.o, sched.t)
       THEN /\ obj' = [obj EXCEPT ![<<sched.w, sched.o>>].used = @ \union {sched.t}]
            /\ sched' = [sched EXCEPT !.pc = "begin"]
            /\ UNCHANGED ready
       ELSE Requeue /\ UNCHANGED obj
    /\ SchedFrame /\ UNCHANGED storeVars

\* A row that moved on is not requeued.
SchedBegin ==
    /\ sched.pc = "begin"
    /\ \/ /\ attempts[sched.t] < MaxAttempts
          /\ BeginAttempt(sched.t, sched.w)
          /\ sched' = [sched EXCEPT !.pc = "check"]
          /\ UNCHANGED obj
       \/ /\ status[sched.t] # "ready"
          /\ ReleaseSlot(sched.w, sched.o, sched.t)
          /\ sched' = Idle
          /\ UNCHANGED storeVars
    /\ SchedFrame /\ UNCHANGED ready

\* Deliver reads online under the mutex ...
SchedCheck ==
    /\ sched.pc = "check"
    /\ IF obj[<<sched.w, sched.o>>].online
       THEN sched' = [sched EXCEPT !.pc = "send"] /\ UNCHANGED <<ready, obj>>
       ELSE Requeue /\ ReleaseSlot(sched.w, sched.o, sched.t)
    /\ SchedFrame /\ UNCHANGED storeVars

Buffer(w) == 2 * Slots[w] + 4

\* Mutant: the task is sent as it was read before BeginAttempt.
SendAsRead(w, i, a) == obj' = [obj EXCEPT ![<<w, i>>].pending = Append(@, <<a[1], a[2] - 1>>)]

\* Mutant: the reservation ends with the delivery.
SendAndRelease(w, i, a) ==
    obj' = [obj EXCEPT ![<<w, i>>].pending = Append(@, a), ![<<w, i>>].used = @ \ {a[1]}]

Send(w, i, a) == obj' = [obj EXCEPT ![<<w, i>>].pending = Append(@, a)]

\* ... and sends after unlocking: on a channel closed since, it panics.
SchedSend ==
    /\ sched.pc = "send"
    /\ LET o == obj[<<sched.w, sched.o>>]
       IN  \/ o.closed /\ Restart /\ UNCHANGED troubles
           \/ /\ ~o.closed
              /\ IF Len(o.pending) < Buffer(sched.w)
                 THEN /\ Send(sched.w, sched.o, <<sched.t, attempts[sched.t]>>)
                      /\ sched' = Idle
                      /\ UNCHANGED ready
                 ELSE Requeue /\ ReleaseSlot(sched.w, sched.o, sched.t)
              /\ SchedFrame /\ UNCHANGED storeVars

SchedStep ==
    \/ \E t \in Task : SchedPop(t)
    \/ SchedPick \/ SchedReserve \/ SchedBegin \/ SchedCheck \/ SchedSend

-----------------------------------------------------------------------------
(* Claims and completions.  Get returns a typed nil for an unknown worker, *)
(* which is not equal to nil: the first method call on it panics.          *)

ClaimGet(w) ==
    /\ row[w] # "none" /\ poll[w] = 0
    /\ \/ known[w] = 0 /\ Restart /\ UNCHANGED troubles
       \/ /\ known[w] # 0
          /\ poll' = [poll EXCEPT ![w] = known[w]]
          /\ UNCHANGED <<storeVars, submissionVars, remoteVars, historyVars, troubles,
                         obj, known, exec, reg, closing, sched, reap>>

\* PollClaim receives; the answer may be lost on the way.
ClaimReceive(w, arrives) ==
    /\ poll[w] # 0
    /\ obj[<<w, poll[w]>>].pending # <<>>
    /\ obj' = [obj EXCEPT ![<<w, poll[w]>>].pending = Tail(@)]
    /\ poll' = [poll EXCEPT ![w] = 0]
    /\ Beat(w)
    /\ IF arrives
       THEN /\ held' = [held EXCEPT ![w] = @ \union {Head(obj[<<w, poll[w]>>].pending)}]
            /\ UNCHANGED troubles
       ELSE Trouble /\ UNCHANGED held
    /\ UNCHANGED <<storeVars, submissionVars, historyVars, known, exec, reg, closing, sched, reap>>

\* The wait ends, or a closed and empty channel yields nil.
ClaimNothing(w) ==
    /\ poll[w] # 0
    /\ poll' = [poll EXCEPT ![w] = 0]
    /\ UNCHANGED <<storeVars, submissionVars, remoteVars, historyVars, troubles,
                   obj, known, exec, reg, closing, sched, reap>>

\* completeTask: GetTask and ReportResult.  Whether the report is accepted
\* depends on the worker, not on the attempt.
CompleteReport(w, a, outcome) ==
    /\ a \in held[w] \ closing[w]
    /\ closing' = [closing EXCEPT ![w] = @ \union {a}]
    /\ IF Owns(a[1], w)
       THEN /\ CompleteAttempt(a[1], w, outcome, 0)
            /\ stale' = IF attempts[a[1]] = a[2] THEN stale ELSE stale \union {w}
       ELSE UNCHANGED <<storeVars, stale>>
    /\ UNCHANGED <<submissionVars, remoteVars, troubles, replaced,
                   obj, known, exec, reg, poll, sched, reap>>

\* completeTask: Get, ReleaseSlot, Heartbeat.  A remote process that gets no
\* answer repeats the request.
CompleteRelease(w, a, answered) ==
    /\ a \in closing[w]
    /\ \/ known[w] = 0 /\ Restart /\ UNCHANGED troubles
       \/ /\ known[w] # 0
          /\ ReleaseSlot(w, known[w], a[1])
          /\ closing' = [closing EXCEPT ![w] = @ \ {a}]
          /\ Beat(w)
          /\ IF answered
             THEN held' = [held EXCEPT ![w] = @ \ {a}] /\ UNCHANGED <<troubles, replaced>>
             ELSE Trouble /\ replaced' = replaced \union {w} /\ UNCHANGED held
          /\ UNCHANGED <<storeVars, submissionVars, stale, known, exec, reg, poll, sched, reap>>

\* The remote process dies and forgets what it was executing.
RemoteDies(w) ==
    /\ held[w] # {}
    /\ Trouble
    /\ held' = [held EXCEPT ![w] = {}]
    /\ UNCHANGED <<storeVars, submissionVars, memoryVars, historyVars, row, fresh>>

-----------------------------------------------------------------------------
(* The reaper and WorkerOffline.                                           *)

ReapFrame == UNCHANGED <<key, sub, fresh, held, stale, troubles, reg, poll, closing, sched>>

\* MarkWorkersOffline
ReapMark ==
    /\ reap.pc = "idle"
    /\ LET silent == {w \in Worker : row[w] \notin {"none", "offline"} /\ ~fresh[w]}
       IN  /\ row' = [w \in Worker |-> IF w \in silent THEN "offline" ELSE row[w]]
           /\ reap' = [reap EXCEPT !.pc = "close", !.todo = silent]
    /\ ReapFrame /\ UNCHANGED <<storeVars, ready, obj, known, exec, replaced>>

\* markOffline, for the next of them.
ReapClose(w) ==
    /\ reap.pc = "close" /\ w \in reap.todo
    /\ obj' = IF known[w] = 0 THEN obj
              ELSE [obj EXCEPT ![<<w, known[w]>>].online = FALSE,
                               ![<<w, known[w]>>].closed = TRUE]
    /\ reap' = [reap EXCEPT !.pc = "remove", !.w = w, !.todo = @ \ {w}]
    /\ ReapFrame /\ UNCHANGED <<storeVars, ready, known, exec, row, replaced>>

\* OnRemove
ReapRemove ==
    /\ reap.pc = "remove"
    /\ exec' = [exec EXCEPT ![reap.w] = 0]
    /\ reap' = [reap EXCEPT !.pc = "delete"]
    /\ ReapFrame /\ UNCHANGED <<storeVars, ready, obj, known, row, replaced>>

\* Mutant: the manager keeps the object.
ReapKeep ==
    /\ reap.pc = "delete"
    /\ replaced' = replaced \union {reap.w}
    /\ reap' = [reap EXCEPT !.pc = "close", !.w = NoWorker]
    /\ ReapFrame /\ UNCHANGED <<storeVars, ready, obj, known, exec, row>>

\* delete(m.workers, id), whichever object is there by now.
ReapDelete ==
    /\ reap.pc = "delete"
    /\ known' = [known EXCEPT ![reap.w] = 0]
    /\ replaced' = replaced \union {reap.w}
    /\ reap' = [reap EXCEPT !.pc = "close", !.w = NoWorker]
    /\ ReapFrame /\ UNCHANGED <<storeVars, ready, obj, exec, row>>

ReapReclaim ==
    /\ reap.pc = "close" /\ reap.todo = {}
    /\ LET lost == Expired({w \in Worker : row[w] \in {"online", "draining"}})
       IN  ReclaimExpired(lost) /\ reap' = [reap EXCEPT !.pc = "push", !.ids = lost]
    /\ ReapFrame /\ UNCHANGED <<ready, obj, known, exec, row, replaced>>

ReapPush ==
    /\ reap.pc = "push"
    /\ \/ /\ reap.ids = {}
          /\ reap' = [reap EXCEPT !.pc = "idle"]
          /\ UNCHANGED ready
       \/ \E t \in reap.ids : /\ ready' = ready \union {t}
                              /\ reap' = [reap EXCEPT !.ids = @ \ {t}]
    /\ ReapFrame /\ UNCHANGED <<storeVars, obj, known, exec, row, replaced>>

ReapStep ==
    \/ ReapMark \/ (\E w \in Worker : ReapClose(w))
    \/ ReapRemove \/ ReapDelete \/ ReapReclaim \/ ReapPush

-----------------------------------------------------------------------------
\* No lease of an external attempt is ever renewed.
LeaseLapses(t) ==
    /\ Trouble /\ LeaseExpires(t)
    /\ UNCHANGED <<submissionVars, memoryVars, remoteVars, historyVars>>

SubmitCall(t) ==
    /\ \/ SubmitStep(t) /\ UNCHANGED troubles
       \/ SubmitFault(t) /\ Trouble
    /\ UNCHANGED <<memoryVars, remoteVars, historyVars>>

WorkerStep(w) ==
    \/ RegisterMap(w) \/ RegisterAdd(w) \/ (\E ok \in BOOLEAN : RegisterUpsert(w, ok))
    \/ Heartbeat(w) \/ Drain(w) \/ Silence(w)
    \/ ClaimGet(w) \/ (\E arrives \in BOOLEAN : ClaimReceive(w, arrives)) \/ ClaimNothing(w)
    \/ \E a \in Attempt : \/ \E outcome \in {"succeeded", "dead"} : CompleteReport(w, a, outcome)
                          \/ \E answered \in BOOLEAN : CompleteRelease(w, a, answered)
    \/ RemoteDies(w)

Next ==
    \/ \E t \in Task : SubmitCall(t) \/ LeaseLapses(t)
    \/ \E w \in Worker : WorkerStep(w)
    \/ SchedStep \/ ReapStep \/ Crash

Spec == Init /\ [][Next]_vars

-----------------------------------------------------------------------------
\* Types, and the bounds of the code: used never exceeds the slots, pending
\* never exceeds the channel's capacity.
TypeOK ==
    /\ StoreTypeOK /\ SubmissionTypeOK
    /\ \A w \in Worker, i \in Index :
          LET o == obj[<<w, i>>]
          IN  /\ o.used \subseteq Task /\ Cardinality(o.used) <= Slots[w]
              /\ o.pending \in Seq(Attempt) /\ Len(o.pending) <= Buffer(w)
              /\ {o.born, o.online, o.closed} \subseteq BOOLEAN
    /\ known \in [Worker -> Index \union {0}] /\ exec \in [Worker -> Index \union {0}]
    /\ poll \in [Worker -> Index \union {0}]
    /\ reg \in [Worker -> [pc : {"idle", "upsert", "add"}, o : Index \union {0}]]
    /\ row \in [Worker -> {"none", "online", "draining", "offline"}]
    /\ fresh \in [Worker -> BOOLEAN]
    /\ held \in [Worker -> SUBSET Attempt] /\ closing \in [Worker -> SUBSET Attempt]
    /\ sched \in [pc : {"idle", "pick", "reserve", "begin", "check", "send"},
                  t : Task \union {NoTask}, w : Worker \union {NoWorker}, o : Index \union {0}]
    /\ reap \in [pc : {"idle", "close", "remove", "delete", "push"}, todo : SUBSET Worker,
                 w : Worker \union {NoWorker}, ids : SUBSET Task]
    /\ troubles \in 0..MaxTroubles
    /\ replaced \subseteq Worker /\ stale \subseteq Worker

\* A ready row is in the queue or in the hands of a loop that will put it
\* there, whatever registrations, offline marks, refused reservations, failed
\* deliveries and panics came between; the exception is a submission whose
\* caller was told of the failure.
ReadyIsQueued ==
    \A t \in Task :
        status[t] = "ready" =>
            \/ t \in ready \union reap.ids
            \/ sched.t = t
            \/ sub[t].pc \in {"enqueue", "failed"}

\* markOffline never closes a channel for the second time, which would end the
\* process: a closed object leaves the manager in the same pass, registrations
\* in between included.
ClosedOnce ==
    \A w \in Worker : known[w] # 0 /\ obj[<<w, known[w]>>].closed => reap.w = w

\* The attempts in the channels of w, and those w has to report as well.
Sent(w) == UNION {Range(obj[<<w, i>>].pending) : i \in Index}
Open(w) == Sent(w) \union (held[w] \ closing[w])

\* What was given to a worker and is not reported yet has not been decided
\* otherwise: the row is still running for that worker, was reclaimed, or is
\* at a later attempt.  Workers whose object was dropped (offline mark,
\* restart) or who repeated a request are the exception.
UnreportedIsUndecided ==
    \A w \in Worker \ replaced : \A a \in Open(w) :
        attempts[a[1]] = a[2] => status[a[1]] = "ready" \/ Owns(a[1], w)

\* A report decides an attempt other than the one it is about only if the
\* worker's object was dropped or a request repeated: as long as the object
\* lives, ReserveSlot's refusal of an id in `used` is what keeps a second
\* attempt of a task from the worker that still runs the first.
StaleOnlyAfterReplacement == stale \subseteq replaced

\* The attempts sent to a worker whose object was never dropped occupy slots of
\* that object, so that the remote process never has more than it registered
\* for, lapsed leases and tasks reclaimed meanwhile included.
SlotsRespected ==
    \A w \in Worker \ replaced : \A a \in Sent(w) \union held[w] :
        known[w] # 0 /\ a[1] \in obj[<<w, known[w]>>].used
=============================================================================
